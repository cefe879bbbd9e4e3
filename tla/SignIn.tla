------------------------------- MODULE SignIn -------------------------------
(***************************************************************************)
(* Accounts, one-time codes and Google sign-in.  All codes are rows of one *)
(* table without a purpose: the flow that takes a code decides how old it  *)
(* may be.  The handlers are coroutines of one event loop, so each runs    *)
(* alone from one await to the next; database calls are synchronous, and   *)
(* one that waits for a lock stops the whole loop.  Only verify_mfa runs   *)
(* in a thread, between the statements of the others.  An event is         *)
(* published after the commit, and a publish that fails is answered 500    *)
(* and changes nothing, except for the welcome of a new Google account,    *)
(* which is published between its INSERT and its commit.                   *)
(***************************************************************************)
EXTENDS Integers, FiniteSets, FiniteSetsExt

CONSTANTS
  Users,     \* addresses; an account and a Google account may exist for each
  Codes,     \* six-digit codes
  Threads,   \* requests in verify_mfa at a time
  Callbacks, \* Google callbacks at a time
  VerifyLife, ResetLife, ActionLife,   \* how long a code may be used
  Nothing,   \* NULL
  MaxTime,   \* bound: time that passes
  MaxCodes,  \* bound: codes generated
  MaxFaults  \* bound: process restarts and failed publishes

ASSUME SignInAssumption ==
  /\ IsFiniteSet(Users) /\ IsFiniteSet(Codes) /\ IsFiniteSet(Threads)
  /\ ActionLife \in Nat /\ ResetLife \in Nat /\ VerifyLife \in Nat
  /\ MaxTime \in Nat /\ MaxCodes \in Nat /\ MaxFaults \in Nat
  /\ Nothing \notin Users /\ "loop" \notin Threads

\* Who takes a code: a thread in verify_mfa, or a handler of the event loop.
Loop    == "loop"
Readers == Threads \cup {Loop}

VARIABLES
  clock,
  account,   \* the committed rows of users
  tokens,    \* the committed rows of auth_tokens
  held,      \* the row a reader has read and not deleted, and the flow it is in
  callback,  \* the Google callbacks
  blocked,   \* the event loop waits for a lock that only it could release
  generated, \* number of codes generated (history: the id of a row)
  latest,    \* the newest code of each user (history)
  used,      \* how often each code has worked (history)
  faults     \* bound

codes == <<tokens, generated, latest, used>>
vars  == <<clock, account, codes, held, callback, blocked, faults>>

\* A row of users; "google" is the Google account attached to it.
Account == [here : BOOLEAN, verified : BOOLEAN,
            google : Users \cup {Nothing}]
Absent  == [here |-> FALSE, verified |-> FALSE, google |-> Nothing]

\* A row of auth_tokens.
Token == [id : 1..MaxCodes, user : Users, code : Codes, sent : 0..MaxTime]
Held  == [flow : {"verify", "reset", "action"}, row : Token]

Holding(r, flow) == held[r] # Nothing /\ held[r].flow = flow

\* A callback whose new account is inserted and not committed, before and after its
\* welcome is published.
Idle == [pc |-> "idle", who |-> Nothing]
Inserting(u) == \E s \in Callbacks : callback[s].pc \in {"welcome", "commit"} /\ callback[s].who = u

TypeOK ==
  /\ clock \in 0..MaxTime
  /\ account \in [Users -> Account]
  /\ \A t \in tokens : t \in Token /\ t.id <= generated /\ account[t.user].here
  /\ held \in [Readers -> Held \cup {Nothing}]
  /\ \A r \in Readers : held[r] # Nothing => held[r].row.id <= generated
  /\ \A s \in Callbacks : callback[s] \in [pc : {"idle", "lookup", "welcome", "commit"},
                                           who : Users \cup {Nothing}]
  /\ blocked \in BOOLEAN
  /\ \A a, b \in tokens : a.id = b.id => a = b
  /\ \A u \in Users : account[u].verified \/ account[u].google # Nothing => account[u].here

Init ==
  /\ clock = 0
  /\ account = [u \in Users |-> Absent]
  /\ tokens = {}
  /\ held = [r \in Readers |-> Nothing]
  /\ callback = [s \in Callbacks |-> Idle]
  /\ blocked = FALSE
  /\ generated = 0
  /\ latest = [u \in Users |-> 0]
  /\ used = [i \in 1..MaxCodes |-> 0]
  /\ faults = 0

-----------------------------------------------------------------------------
(* Codes                                                                   *)

CodesOf(u) == {t \in tokens : t.user = u}

\* A commit that removes some rows of auth_tokens and adds a new code of u.  The
\* event that carries it goes out afterwards, or is lost.
Generate(u, removed) ==
  /\ generated < MaxCodes
  /\ generated' = generated + 1
  /\ \E c \in Codes :
       tokens' = (tokens \ removed)
                   \cup {[id |-> generated + 1, user |-> u, code |-> c, sent |-> clock]}
  /\ latest' = [latest EXCEPT ![u] = generated + 1]
  /\ UNCHANGED used

Hold(r, flow, t) == held' = [held EXCEPT ![r] = [flow |-> flow, row |-> t]]

Works(r) ==
  /\ used' = [used EXCEPT ![held[r].row.id] = @ + 1]
  /\ held' = [held EXCEPT ![r] = Nothing]
  /\ UNCHANGED <<generated, latest>>

\* Mutant of Take: the code stays.
TakeAndKeep(r) == UNCHANGED tokens /\ Works(r)

\* The commit that deletes a code that was read: if no row is left to delete, the
\* database layer warns, and the code has worked all the same.
Take(r) == tokens' = tokens \ {held[r].row} /\ Works(r)

\* verify and reset-password look a code up by its hash alone: of two users with
\* the same code, it may be the other's.
Sharing(code) == {t \in tokens : t.code = code}

\* The event loop is free; what it runs until the next await.  A handler that takes
\* a code keeps it from its SELECT to its commit.
Handler == ~blocked /\ held[Loop] = Nothing
Unchanged == UNCHANGED <<clock, held, callback, faults>>

\* verify_account and reset_password read a code and look how old it is.
ReadCode(flow, code, life) ==
  /\ Handler
  /\ \E t \in Sharing(code) : clock - t.sent <= life /\ Hold(Loop, flow, t)
  /\ UNCHANGED <<clock, account, codes, callback, blocked, faults>>

-----------------------------------------------------------------------------
(* The handlers                                                            *)

\* INSERT waits for a callback that has inserted a row with the same address: the
\* loop then never gets to commit that one.
WaitFor(u) ==
  /\ Inserting(u)
  /\ blocked' = TRUE
  /\ UNCHANGED <<account, codes>>

\* register_user: a new account, or a new code for one that is not verified, whose
\* password stays what it was.
Register(u) ==
  /\ Handler /\ Unchanged
  /\ IF account[u].here
     THEN /\ ~account[u].verified
          /\ Generate(u, CodesOf(u))
          /\ UNCHANGED <<account, blocked>>
     ELSE \/ WaitFor(u)
          \/ /\ ~Inserting(u)
             /\ account' = [account EXCEPT ![u] = [Absent EXCEPT !.here = TRUE]]
             /\ Generate(u, {})
             /\ UNCHANGED blocked

\* login and resend_verification of an account that is not verified replace its
\* code; those of a verified one change nothing (tokens of a session are not kept).
SendAgain(u) ==
  /\ Handler /\ Unchanged
  /\ account[u].here /\ ~account[u].verified
  /\ Generate(u, CodesOf(u))
  /\ UNCHANGED <<account, blocked>>

ReadToVerify(code) == ReadCode("verify", code, VerifyLife)

\* Mutant of VerifyAccount: the user of the code is looked up a second time.
VerifySomeone ==
  /\ Holding(Loop, "verify")
  /\ Take(Loop)
  /\ \E x \in Sharing(held[Loop].row.code) :
       account' = [account EXCEPT ![x.user].verified = TRUE]
  /\ UNCHANGED <<clock, callback, blocked, faults>>

VerifyAccount ==
  /\ Holding(Loop, "verify")
  /\ Take(Loop)
  /\ account' = [account EXCEPT ![held[Loop].row.user].verified = TRUE]
  /\ UNCHANGED <<clock, callback, blocked, faults>>

\* Mutant of RequestReset: nobody looks whether there is an account.
RequestResetOfAnyone(u) ==
  /\ Handler /\ Unchanged
  /\ Generate(u, {})
  /\ UNCHANGED <<account, blocked>>

\* A code to reset the password is added to those there are.
RequestReset(u) ==
  /\ Handler /\ Unchanged
  /\ account[u].here
  /\ Generate(u, {})
  /\ UNCHANGED <<account, blocked>>

ReadToReset(code) == ReadCode("reset", code, ResetLife)

\* The password itself is left out.
ResetPassword ==
  /\ Holding(Loop, "reset")
  /\ Take(Loop)
  /\ UNCHANGED <<clock, account, callback, blocked, faults>>

\* Mutant of RequestAction: the codes are cleaned up after the new one is stored.
RequestActionCleansLast(u) ==
  /\ Handler /\ Unchanged
  /\ account[u].here
  /\ generated < MaxCodes /\ generated' = generated + 1
  /\ tokens' = tokens \ CodesOf(u)
  /\ latest' = [latest EXCEPT ![u] = generated + 1]
  /\ UNCHANGED <<used, account, blocked>>

\* A code to confirm an action replaces every code of its user.
RequestAction(u) ==
  /\ Handler /\ Unchanged
  /\ account[u].here
  /\ Generate(u, CodesOf(u))
  /\ UNCHANGED <<account, blocked>>

\* verify_mfa, in a thread: it reads the user's row of that code; one that is too old
\* is deleted, whoever holds it ...
ReadAction(s, t) ==
  /\ held[s] = Nothing
  /\ account[t.user].verified
  /\ IF clock - t.sent > ActionLife
     THEN tokens' = tokens \ {t} /\ UNCHANGED held
     ELSE Hold(s, "action", t) /\ UNCHANGED tokens
  /\ UNCHANGED <<clock, account, generated, latest, used, callback, blocked, faults>>

\* ... and deletes it; the action goes on.
ConfirmAction(s) ==
  /\ Holding(s, "action")
  /\ Take(s)
  /\ UNCHANGED <<clock, account, callback, blocked, faults>>

-----------------------------------------------------------------------------
(* Google                                                                  *)

\* A callback awaits Google's answer: the Google account of u, whose address Google
\* has verified or not.
StartCallback(s, u) ==
  /\ Handler
  /\ callback[s] = Idle
  /\ callback' = [callback EXCEPT ![s] = [pc |-> "lookup", who |-> u]]
  /\ UNCHANGED <<clock, account, codes, held, blocked, faults>>

Finish(s) == callback' = [callback EXCEPT ![s] = Idle]

\* The account that a Google account belongs to, by google_id first.
Attached(u) == {v \in Users : account[v].google = u}

\* Mutant of SignInKnown: looked up by the address only.
SignInByAddress(s) ==
  LET u == callback[s].who IN
  /\ Handler /\ callback[s].pc = "lookup"
  /\ Attached(u) = {} /\ account[u].here
  /\ \E ok \in BOOLEAN : account' = [account EXCEPT ![u].google = u, ![u].verified = @ \/ ok]
  /\ Finish(s)
  /\ UNCHANGED <<clock, codes, held, blocked, faults>>

\* An account that exists is signed in, and takes the google_id if it was found by
\* its address; the write commits before the next await.
SignInKnown(s) ==
  LET u == callback[s].who IN
  /\ Handler /\ callback[s].pc = "lookup"
  /\ \/ Attached(u) # {} /\ UNCHANGED account
     \/ /\ Attached(u) = {} /\ account[u].here
        /\ \E ok \in BOOLEAN :
             account' = [account EXCEPT ![u].google = u, ![u].verified = @ \/ ok]
  /\ Finish(s)
  /\ UNCHANGED <<clock, codes, held, blocked, faults>>

\* A new account is inserted, and the callback awaits the publish of its welcome; a
\* second INSERT of the address waits for the first.
InsertNew(s) ==
  LET u == callback[s].who IN
  /\ Handler /\ callback[s].pc = "lookup"
  /\ Attached(u) = {} /\ ~account[u].here
  /\ \/ WaitFor(u) /\ UNCHANGED callback
     \/ /\ ~Inserting(u)
        /\ callback' = [callback EXCEPT ![s].pc = "welcome"]
        /\ UNCHANGED <<account, codes, blocked>>
  /\ UNCHANGED <<clock, held, faults>>

\* The broker takes the welcome; or the publish fails, and the account is rolled
\* back.
PublishWelcome(s) ==
  /\ Handler /\ callback[s].pc = "welcome"
  /\ \/ /\ callback' = [callback EXCEPT ![s].pc = "commit"]
        /\ UNCHANGED faults
     \/ /\ faults < MaxFaults /\ faults' = faults + 1
        /\ Finish(s)
  /\ UNCHANGED <<clock, account, codes, held, blocked>>

CommitNew(s) ==
  /\ Handler /\ callback[s].pc = "commit"
  /\ \E ok \in BOOLEAN :
       account' = [account EXCEPT ![callback[s].who] =
                     [Absent EXCEPT !.here = TRUE, !.verified = ok, !.google = callback[s].who]]
  /\ Finish(s)
  /\ UNCHANGED <<clock, codes, held, blocked, faults>>

\* link_google_to_account: the Google account of v, unless another account has it; the
\* check and the commit are one step of the loop.
Link(u, v) ==
  /\ Handler
  /\ account[u].here
  /\ Attached(v) \subseteq {u}
  /\ IF Inserting(v) THEN blocked' = TRUE /\ UNCHANGED account
     ELSE account' = [account EXCEPT ![u].google = v] /\ UNCHANGED blocked
  /\ UNCHANGED <<clock, codes, held, callback, faults>>

-----------------------------------------------------------------------------
Tick ==
  /\ clock < MaxTime
  /\ clock' = clock + 1
  /\ UNCHANGED <<account, codes, held, callback, blocked, faults>>

\* The process dies and restarts; what was not committed is rolled back.
Crash ==
  /\ faults < MaxFaults /\ faults' = faults + 1
  /\ callback' = [s \in Callbacks |-> Idle]
  /\ held' = [r \in Readers |-> Nothing]
  /\ blocked' = FALSE
  /\ UNCHANGED <<clock, account, codes>>

CallbackStep(s) == SignInKnown(s) \/ InsertNew(s) \/ PublishWelcome(s) \/ CommitNew(s)

Next ==
  \/ \E u \in Users : Register(u) \/ SendAgain(u) \/ RequestReset(u) \/ RequestAction(u)
  \/ \E c \in Codes : ReadToVerify(c) \/ ReadToReset(c)
  \/ VerifyAccount \/ ResetPassword
  \/ \E s \in Threads : ConfirmAction(s) \/ \E t \in tokens : ReadAction(s, t)
  \/ \E s \in Callbacks : CallbackStep(s) \/ \E u \in Users : StartCallback(s, u)
  \/ \E u, v \in Users : Link(u, v)
  \/ Tick \/ Crash

Spec == Init /\ [][Next]_vars

\* The event loop resumes every callback, and the threads run.
Fairness == /\ \A s \in Callbacks : WF_vars(CallbackStep(s))
            /\ WF_vars(VerifyAccount \/ ResetPassword)
            /\ \A s \in Threads : WF_vars(ConfirmAction(s))

FairSpec == Spec /\ Fairness

-----------------------------------------------------------------------------
(* Properties                                                              *)

\* A code that has worked is gone for every request that comes later, whichever of
\* the three flows takes it: it can work again only for those that had read it by
\* then, one in each thread of verify_mfa and one of the event loop.  ("Consume token
\* so it can't be reused", verify_mfa: with a single reader it works once.)
WorksForReaders ==
  /\ \A t \in tokens : used[t.id] = 0
  /\ \A i \in 1..MaxCodes : used[i] <= Cardinality(Readers)

\* The newest code stored for a user can be used until it has been, whatever flow
\* asked for it, by whichever user, unless it was tried too late.
NewestWorks ==
  \A u \in Users :
    \/ latest[u] = 0 \/ used[latest[u]] > 0
    \/ \E t \in tokens : t.id = latest[u]
    \/ clock > ActionLife

\* A new account is not verified before its address is: by a code of that user that
\* worked, or by Google.
VerifiedByProof ==
  [][\A u \in Users :
       ~account[u].verified /\ account'[u].verified =>
         \/ \E r \in Readers : /\ held[r] # Nothing /\ held'[r] = Nothing
                               /\ held[r].row.user = u
                               /\ used'[held[r].row.id] > used[held[r].row.id]
         \/ \E s \in Callbacks : callback[s].who = u /\ callback'[s] = Idle]_vars

\* "Upserts the user (creates if new, logs in if existing)" (handle_google_callback):
\* every callback is answered.
CallbackAnswered ==
  \A s \in Callbacks : callback[s].pc # "idle" ~> callback[s].pc = "idle"
=============================================================================
