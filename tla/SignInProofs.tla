---------------------------- MODULE SignInProofs -----------------------------
(***************************************************************************)
(* Proofs about SignIn, for any number of users, codes, threads, callbacks *)
(* and faults: how often a code works, and that the newest code of a user  *)
(* works.                                                                  *)
(*                                                                         *)
(* A code has its id for itself and is deleted with its first success:     *)
(* from then on only those that had read it can still use it, and each of  *)
(* them lets go of it with its own success.  What keeps the newest code is *)
(* that every flow that deletes codes unused deletes those of one user, in *)
(* the commit that stores the new one.                                     *)
(***************************************************************************)
EXTENDS SignIn, FiniteSetTheorems, TLAPS

\* Codes, and the rows readers hold, are rows; an id belongs to one row.
CodesOK ==
  /\ clock \in 0..MaxTime /\ generated \in 0..MaxCodes
  /\ used \in [1..MaxCodes -> Nat]
  /\ latest \in [Users -> 0..MaxCodes]
  /\ \A t \in tokens : t \in Token /\ t.id <= generated
  /\ \A a, b \in tokens : a.id = b.id => a = b
  /\ held \in [Readers -> Held \cup {Nothing}]
  /\ \A r \in Readers : held[r] # Nothing =>
       held[r].row.id <= generated /\ \A t \in tokens : t.id = held[r].row.id => t = held[r].row

Holders(i) == {r \in Readers : held[r] # Nothing /\ held[r].row.id = i}

\* A code that is there has not worked yet, nor has one that is still to come; one that
\* is gone has worked for readers that do not hold it any more.
UsedInv ==
  /\ \A t \in tokens : used[t.id] = 0
  /\ \A i \in 1..MaxCodes : i > generated => used[i] = 0
  /\ \A i \in 1..MaxCodes : used[i] + Cardinality(Holders(i)) <= Cardinality(Readers)

\* The newest code of a user is a row of that user's.
NewestInv ==
  \A u \in Users :
    \/ latest[u] = 0 \/ used[latest[u]] > 0
    \/ \E t \in tokens : t.id = latest[u] /\ t.user = u
    \/ clock > ActionLife

CodesInv == CodesOK /\ UsedInv /\ NewestInv

\* Readers are few enough to count, and so are those that hold a row.
LEMMA ReadersFinite ==
  /\ IsFiniteSet(Readers) /\ Cardinality(Readers) \in Nat
  /\ \A i : /\ IsFiniteSet(Holders(i)) /\ Cardinality(Holders(i)) \in Nat
            /\ Cardinality(Holders(i)) <= Cardinality(Readers)
<1>1. IsFiniteSet(Readers)
  BY SignInAssumption, FS_AddElement DEF Readers
<1>2. \A i : Holders(i) \subseteq Readers
  BY DEF Holders
<1> QED
  BY <1>1, <1>2, FS_Subset, FS_CardinalityType

\* What a step may do to the codes: nothing, make one, take one, read one, or remove one
\* that is too old.
LEMMA CodeSteps ==
  ASSUME [Next]_vars
  PROVE  \/ UNCHANGED <<clock, held, codes>>
         \/ \E u \in Users : \E removed \in {{}, CodesOf(u)} :
              Generate(u, removed) /\ UNCHANGED <<clock, held>>
         \/ \E r \in Readers : (\E flow : Holding(r, flow)) /\ Take(r) /\ UNCHANGED clock
         \/ \E r \in Readers, t \in tokens, flow \in {"verify", "reset", "action"} :
              Hold(r, flow, t) /\ UNCHANGED <<clock, codes>>
         \/ \E s \in Threads, t \in tokens : ReadAction(s, t)
         \/ Tick \/ Crash
<1>1. CASE UNCHANGED vars
  BY <1>1 DEF vars
<1>2. ASSUME NEW u \in Users, Register(u) \/ SendAgain(u) \/ RequestReset(u) \/ RequestAction(u)
      PROVE  \/ UNCHANGED <<clock, held, codes>>
             \/ \E removed \in {{}, CodesOf(u)} : Generate(u, removed) /\ UNCHANGED <<clock, held>>
  BY <1>2 DEF Register, SendAgain, RequestReset, RequestAction, WaitFor, Unchanged
<1>3. ASSUME NEW c \in Codes, ReadToVerify(c) \/ ReadToReset(c)
      PROVE  \E r \in Readers, t \in tokens, flow \in {"verify", "reset", "action"} :
               Hold(r, flow, t) /\ UNCHANGED <<clock, codes>>
  BY <1>3 DEF ReadToVerify, ReadToReset, ReadCode, Sharing, Readers
<1>4. CASE VerifyAccount \/ ResetPassword
  <2>1. Loop \in Readers
    BY DEF Readers
  <2> QED
    BY <1>4, <2>1 DEF VerifyAccount, ResetPassword
<1>5. ASSUME NEW s \in Threads, ConfirmAction(s)
      PROVE  \E r \in Readers : (\E flow : Holding(r, flow)) /\ Take(r) /\ UNCHANGED clock
  BY <1>5 DEF ConfirmAction, Readers
<1>6. ASSUME NEW s \in Callbacks, CallbackStep(s) \/ \E u \in Users : StartCallback(s, u)
      PROVE  UNCHANGED <<clock, held, codes>>
  BY <1>6 DEF CallbackStep, SignInKnown, InsertNew, PublishWelcome, CommitNew, StartCallback, WaitFor
<1>7. ASSUME NEW u \in Users, NEW v \in Users, Link(u, v) PROVE UNCHANGED <<clock, held, codes>>
  BY <1>7 DEF Link
<1> QED
  BY <1>1, <1>2, <1>3, <1>4, <1>5, <1>6, <1>7 DEF Next

\* A new code takes an id that none has had.
LEMMA GenerateOK ==
  ASSUME CodesInv, NEW u \in Users, NEW removed \in {{}, CodesOf(u)}, Generate(u, removed),
         UNCHANGED <<clock, held>>
  PROVE  CodesInv'
<1> USE SignInAssumption
<1>1. PICK c \in Codes :
        tokens' = (tokens \ removed)
                    \cup {[id |-> generated + 1, user |-> u, code |-> c, sent |-> clock]}
  BY DEF Generate
<1> DEFINE new == [id |-> generated + 1, user |-> u, code |-> c, sent |-> clock]
<1>2. /\ generated' = generated + 1 /\ generated' \in 0..MaxCodes
      /\ new \in Token /\ new.id = generated' /\ new.user = u
  BY DEF Generate, CodesInv, CodesOK, Token
<1> HIDE DEF new
<1>3. /\ latest' \in [Users -> 0..MaxCodes] /\ latest'[u] \in {0, generated'}
      /\ \A v \in Users \ {u} : latest'[v] = latest[v]
  BY <1>2 DEF Generate, CodesInv, CodesOK
<1>4. new \in tokens' /\ \A t \in tokens' : t = new \/ t \in tokens \ removed
  BY <1>1 DEF new
<1>5. CodesOK'
  <2>1. \A t \in tokens' : t \in Token /\ t.id <= generated'
    BY <1>2, <1>4 DEF CodesInv, CodesOK, Token
  <2>2. \A a, b \in tokens' : a.id = b.id => a = b
    BY <1>2, <1>4 DEF CodesInv, CodesOK, Token
  <2>3. ASSUME NEW r \in Readers, held'[r] # Nothing
        PROVE  /\ held'[r].row.id <= generated'
               /\ \A t \in tokens' : t.id = held'[r].row.id => t = held'[r].row
    <3>1. held'[r] = held[r] /\ held[r] \in Held /\ held[r].row.id \in 1..MaxCodes
      BY <2>3 DEF CodesInv, CodesOK, Held, Token
    <3>2. /\ held[r].row.id <= generated
          /\ \A t \in tokens : t.id = held[r].row.id => t = held[r].row
          /\ generated \in Nat
      BY <2>3, <3>1 DEF CodesInv, CodesOK
    <3> QED
      BY <1>2, <1>4, <3>1, <3>2
  <2> QED
    BY <1>2, <1>3, <2>1, <2>2, <2>3 DEF CodesInv, CodesOK, Generate
<1>6. UsedInv'
  <2>1. used' = used /\ \A i : Holders(i)' = Holders(i)
    BY DEF Generate, Holders
  <2>2. used[generated'] = 0
    BY <1>2 DEF CodesInv, CodesOK, UsedInv
  <2>3. /\ \A t \in tokens' : used'[t.id] = 0
        /\ \A i \in 1..MaxCodes : i > generated' => used'[i] = 0
    BY <1>2, <1>4, <2>1, <2>2 DEF CodesInv, CodesOK, UsedInv
  <2> QED
    BY <2>1, <2>3 DEF CodesInv, UsedInv
<1>7. NewestInv'
  <2> SUFFICES ASSUME NEW v \in Users, ~(clock > ActionLife)
               PROVE  \/ latest'[v] = 0 \/ used'[latest'[v]] > 0
                      \/ \E t \in tokens' : t.id = latest'[v] /\ t.user = v
    BY DEF NewestInv
  <2>1. CASE v = u
    BY <1>2, <1>3, <1>4, <2>1
  <2>2. CASE v # u
    <3>1. latest'[v] = latest[v] /\ used' = used
      BY <1>3, <2>2 DEF Generate
    <3>2. ASSUME NEW t \in tokens, t.user = v PROVE t \in tokens'
      BY <1>1, <2>2, <3>2 DEF CodesOf
    <3> QED
      BY <3>1, <3>2 DEF CodesInv, NewestInv
  <2> QED
    BY <2>1, <2>2
<1> QED
  BY <1>5, <1>6, <1>7 DEF CodesInv

\* A code that works is deleted, if it still is there, and its reader lets go of it.
LEMMA TakeOK ==
  ASSUME CodesInv, NEW r \in Readers, held[r] # Nothing, Take(r), UNCHANGED clock
  PROVE  CodesInv'
<1> DEFINE row == held[r].row
           id  == row.id
<1>1. /\ row \in Token /\ id \in 1..MaxCodes /\ id <= generated
      /\ \A t \in tokens : t.id = id => t = row
  BY DEF CodesInv, CodesOK, Held, Token
<1>2. /\ tokens' = tokens \ {row}
      /\ used' = [used EXCEPT ![id] = @ + 1]
      /\ held' = [held EXCEPT ![r] = Nothing]
      /\ UNCHANGED <<generated, latest>>
  BY DEF Take, Works
<1> HIDE DEF row, id
<1>3. used' \in [1..MaxCodes -> Nat] /\ used'[id] = used[id] + 1 /\ used[id] \in Nat
      /\ \A i \in 1..MaxCodes \ {id} : used'[i] = used[i]
  BY <1>1, <1>2 DEF CodesInv, CodesOK
<1>4. held' \in [Readers -> Held \cup {Nothing}] /\ held'[r] = Nothing
      /\ \A s \in Readers \ {r} : held'[s] = held[s]
  BY <1>2 DEF CodesInv, CodesOK
<1>5. CodesOK'
  <2>1. \A s \in Readers : held'[s] # Nothing => held'[s] = held[s]
    BY <1>4
  <2> QED
    BY <1>2, <1>3, <1>4, <2>1 DEF CodesInv, CodesOK
<1>6. UsedInv'
  <2>1. \A x \in tokens' : x \in tokens /\ x.id # id /\ x.id \in 1..MaxCodes
    BY <1>1, <1>2 DEF CodesInv, CodesOK, Token
  <2>2. \A x \in tokens' : used'[x.id] = 0
    BY <1>3, <2>1 DEF CodesInv, UsedInv
  <2>3. \A i \in 1..MaxCodes : i > generated' => used'[i] = 0
    BY <1>1, <1>2, <1>3 DEF CodesInv, CodesOK, UsedInv
  <2>4. ASSUME NEW i \in 1..MaxCodes
        PROVE  used'[i] + Cardinality(Holders(i)') <= Cardinality(Readers)
    <3>1. used[i] + Cardinality(Holders(i)) <= Cardinality(Readers) /\ used[i] \in Nat
      BY DEF CodesInv, CodesOK, UsedInv
    <3>2. /\ IsFiniteSet(Holders(i)) /\ Cardinality(Holders(i)) \in Nat
          /\ Cardinality(Readers) \in Nat
      BY ReadersFinite
    <3>3. CASE i = id
      <4>1. r \in Holders(i)
        BY <3>3 DEF Holders, id, row
      <4>2. Holders(i)' = Holders(i) \ {r}
        BY <1>4 DEF Holders
      <4>3. Cardinality(Holders(i) \ {r}) = Cardinality(Holders(i)) - 1
        BY <3>2, <4>1, FS_RemoveElement
      <4> QED
        BY <1>3, <3>1, <3>2, <3>3, <4>2, <4>3
    <3>4. CASE i # id
      <4>1. r \notin Holders(i)
        BY <3>4 DEF Holders, id, row
      <4>2. Holders(i)' = Holders(i)
        BY <1>4, <4>1 DEF Holders
      <4> QED
        BY <1>3, <3>1, <3>4, <4>2
    <3> QED
      BY <3>3, <3>4
  <2> QED
    BY <2>2, <2>3, <2>4 DEF UsedInv
<1>7. NewestInv'
  <2> SUFFICES ASSUME NEW u \in Users, latest[u] # 0, ~(clock > ActionLife)
               PROVE  \/ used'[latest[u]] > 0
                      \/ \E x \in tokens' : x.id = latest[u] /\ x.user = u
    BY <1>2 DEF NewestInv
  <2>1. latest[u] \in 1..MaxCodes
    BY DEF CodesInv, CodesOK
  <2>2. CASE used[latest[u]] > 0 \/ latest[u] = id
    BY <1>3, <2>1, <2>2
  <2>3. CASE latest[u] # id /\ \E x \in tokens : x.id = latest[u] /\ x.user = u
    BY <1>2, <2>3 DEF id
  <2> QED
    BY <2>2, <2>3 DEF CodesInv, NewestInv
<1> QED
  BY <1>5, <1>6, <1>7 DEF CodesInv

\* A reader that reads a row of the table is one more that may use it; it has not worked.
LEMMA HoldOK ==
  ASSUME CodesInv, NEW r \in Readers, NEW t \in tokens,
         NEW flow \in {"verify", "reset", "action"}, Hold(r, flow, t), UNCHANGED <<clock, codes>>
  PROVE  CodesInv'
<1> DEFINE new == [flow |-> flow, row |-> t]
<1>1. new \in Held /\ new.row = t /\ t.id \in 1..MaxCodes /\ t.id <= generated /\ used[t.id] = 0
  BY DEF CodesInv, CodesOK, UsedInv, Held, Token
<1>2. held' = [held EXCEPT ![r] = new]
  BY DEF Hold
<1> HIDE DEF new
<1>3. /\ held' \in [Readers -> Held \cup {Nothing}] /\ held'[r] = new
      /\ \A s \in Readers \ {r} : held'[s] = held[s]
  BY <1>1, <1>2 DEF CodesInv, CodesOK
<1>4. UNCHANGED <<tokens, generated, latest, used>>
  BY DEF codes
<1>5. CodesOK'
  <2>1. \A x \in tokens : x.id = t.id => x = t
    BY DEF CodesInv, CodesOK
  <2>2. ASSUME NEW s \in Readers, held'[s] # Nothing
        PROVE  /\ held'[s].row.id <= generated
               /\ \A x \in tokens : x.id = held'[s].row.id => x = held'[s].row
    BY <1>1, <1>3, <2>1, <2>2 DEF CodesInv, CodesOK
  <2> QED
    BY <1>3, <1>4, <2>2 DEF CodesInv, CodesOK
<1>6. UsedInv'
  <2> SUFFICES ASSUME NEW i \in 1..MaxCodes
               PROVE  used[i] + Cardinality(Holders(i)') <= Cardinality(Readers)
    BY <1>4 DEF CodesInv, UsedInv
  <2>1. CASE i = t.id
    <3>1. Holders(i)' \subseteq Readers
      BY DEF Holders
    <3>2. Cardinality(Holders(i)') <= Cardinality(Readers) /\ Cardinality(Holders(i)') \in Nat
      BY <3>1, ReadersFinite, FS_Subset, FS_CardinalityType
    <3> QED
      BY <1>1, <2>1, <3>2
  <2>2. CASE i # t.id
    <3>1. Holders(i)' \subseteq Holders(i)
      BY <1>1, <1>3, <2>2 DEF Holders
    <3>2. Cardinality(Holders(i)') <= Cardinality(Holders(i)) /\ Cardinality(Holders(i)') \in Nat
      BY <3>1, ReadersFinite, FS_Subset, FS_CardinalityType
    <3>3. used[i] + Cardinality(Holders(i)) <= Cardinality(Readers) /\ used[i] \in Nat
      BY DEF CodesInv, CodesOK, UsedInv
    <3> QED
      BY <3>2, <3>3, ReadersFinite
  <2> QED
    BY <2>1, <2>2
<1>7. NewestInv'
  BY <1>4 DEF CodesInv, NewestInv
<1> QED
  BY <1>5, <1>6, <1>7 DEF CodesInv

LEMMA CodesNext == CodesInv /\ [Next]_vars => CodesInv'
<1> SUFFICES ASSUME CodesInv, [Next]_vars PROVE CodesInv'
  OBVIOUS
<1> USE SignInAssumption
<1>0. ASSUME UNCHANGED <<held, used>> PROVE \A i : Holders(i)' = Holders(i)
  BY <1>0 DEF Holders
<1>1. CASE UNCHANGED <<clock, held, codes>>
  BY <1>0, <1>1 DEF CodesInv, CodesOK, UsedInv, NewestInv, codes
<1>2. ASSUME NEW u \in Users, NEW removed \in {{}, CodesOf(u)}, Generate(u, removed),
             UNCHANGED <<clock, held>>
      PROVE  CodesInv'
  BY <1>2, GenerateOK
<1>3. ASSUME NEW r \in Readers, \E flow : Holding(r, flow), Take(r), UNCHANGED clock
      PROVE  CodesInv'
  BY <1>3, TakeOK DEF Holding
<1>4. ASSUME NEW r \in Readers, NEW t \in tokens, NEW flow \in {"verify", "reset", "action"},
             Hold(r, flow, t), UNCHANGED <<clock, codes>>
      PROVE  CodesInv'
  BY <1>4, HoldOK
<1>5. ASSUME NEW s \in Threads, NEW t \in tokens, ReadAction(s, t) PROVE CodesInv'
  <2>1. UNCHANGED <<clock, generated, latest, used>>
    BY <1>5 DEF ReadAction
  <2>2. CASE clock - t.sent > ActionLife
    <3>1. tokens' = tokens \ {t} /\ held' = held
      BY <1>5, <2>2 DEF ReadAction
    <3>2. clock > ActionLife
      BY <2>2 DEF CodesInv, CodesOK, Token
    <3> QED
      BY <1>0, <2>1, <3>1, <3>2 DEF CodesInv, CodesOK, UsedInv, NewestInv
  <2>3. CASE ~(clock - t.sent > ActionLife)
    <3>1. Hold(s, "action", t) /\ UNCHANGED <<clock, codes>> /\ s \in Readers
      BY <1>5, <2>1, <2>3 DEF ReadAction, Readers, codes
    <3> QED
      BY <3>1, HoldOK
  <2> QED
    BY <2>2, <2>3
<1>6. CASE Tick
  BY <1>0, <1>6 DEF Tick, CodesInv, CodesOK, UsedInv, NewestInv, codes
<1>7. CASE Crash
  <2>1. UNCHANGED <<clock, tokens, generated, latest, used>> /\ held' = [r \in Readers |-> Nothing]
    BY <1>7 DEF Crash, codes
  <2>2. \A i : Holders(i)' = {}
    BY <2>1 DEF Holders
  <2>3. UsedInv'
    <3>1. ASSUME NEW i \in 1..MaxCodes
          PROVE  used[i] + 0 <= Cardinality(Readers)
      BY ReadersFinite DEF CodesInv, CodesOK, UsedInv
    <3> QED
      BY <2>1, <2>2, <3>1, FS_EmptySet DEF CodesInv, UsedInv
  <2> QED
    BY <2>1, <2>3 DEF CodesInv, CodesOK, NewestInv
<1> QED
  BY <1>1, <1>2, <1>3, <1>4, <1>5, <1>6, <1>7, CodeSteps

LEMMA CodesInit == Init => CodesInv
<1> SUFFICES ASSUME Init PROVE CodesInv
  OBVIOUS
<1>1. \A i : Holders(i) = {}
  BY DEF Init, Holders
<1>2. CodesOK /\ NewestInv
  BY SignInAssumption DEF Init, CodesOK, NewestInv
<1>3. UsedInv
  BY <1>1, FS_EmptySet, ReadersFinite DEF Init, UsedInv
<1> QED
  BY <1>2, <1>3 DEF CodesInv

LEMMA CodesAlways == Spec => []CodesInv
  BY CodesInit, CodesNext, PTL DEF Spec

-----------------------------------------------------------------------------
(* The theorems                                                            *)

\* A code that has worked is gone: it works at most once for each reader there is, the
\* threads of verify_mfa and the event loop, and once in all when no other reads it before
\* it is deleted.
THEOREM CodesWorkForReaders == Spec => []WorksForReaders
<1>1. CodesInv => WorksForReaders
  <2> SUFFICES ASSUME CodesInv, NEW i \in 1..MaxCodes PROVE used[i] <= Cardinality(Readers)
    BY DEF CodesInv, UsedInv, WorksForReaders
  <2>1. used[i] + Cardinality(Holders(i)) <= Cardinality(Readers) /\ used[i] \in Nat
    BY DEF CodesInv, CodesOK, UsedInv
  <2> QED
    BY <2>1, ReadersFinite
<1> QED
  BY <1>1, CodesAlways, PTL

\* The newest code stored for a user stays until it has worked or is too old, whatever
\* flow asked for it, and whatever codes others have.
THEOREM NewestCodeWorks == Spec => []NewestWorks
<1>1. CodesInv => NewestWorks
  BY DEF CodesInv, NewestInv, NewestWorks
<1> QED
  BY <1>1, CodesAlways, PTL

-----------------------------------------------------------------------------
(* Accounts                                                                *)

Callback == [pc : {"idle", "lookup", "welcome", "commit"}, who : Users \cup {Nothing}]

AccountsOK ==
  /\ account \in [Users -> Account]
  /\ callback \in [Callbacks -> Callback]
  /\ \A s \in Callbacks : callback[s].pc # "idle" => callback[s].who \in Users

LEMMA AccountsInit == Init => AccountsOK
  BY DEF Init, AccountsOK, Account, Absent, Callback, Idle

\* What the event loop takes is a row of auth_tokens that it read.
LEMMA LoopHolds ==
  ASSUME CodesOK, NEW flow, Holding(Loop, flow)
  PROVE  Loop \in Readers /\ held[Loop] # Nothing /\ held[Loop] \in Held /\ held[Loop].row \in Token
<1>1. Loop \in Readers
  BY DEF Readers
<1> QED
  BY <1>1 DEF Holding, CodesOK, Held

LEMMA AccountsNext == AccountsOK /\ CodesOK /\ [Next]_vars => AccountsOK'
<1> SUFFICES ASSUME AccountsOK, CodesOK, [Next]_vars PROVE AccountsOK'
  OBVIOUS
<1> USE DEF AccountsOK, Account, Callback
<1>1. CASE UNCHANGED vars
  BY <1>1 DEF vars
<1>2. ASSUME NEW u \in Users, Register(u) PROVE AccountsOK'
  BY <1>2 DEF Register, WaitFor, Unchanged, Absent
<1>3. ASSUME NEW u \in Users, SendAgain(u) \/ RequestReset(u) \/ RequestAction(u)
      PROVE  AccountsOK'
  BY <1>3 DEF SendAgain, RequestReset, RequestAction, Unchanged
<1>4. CASE VerifyAccount
  <2>1. held[Loop].row.user \in Users
    BY <1>4, LoopHolds DEF VerifyAccount, Token
  <2> QED
    BY <1>4, <2>1 DEF VerifyAccount
<1>5. ASSUME ResetPassword \/ \E c \in Codes : ReadToVerify(c) \/ ReadToReset(c) PROVE AccountsOK'
  BY <1>5 DEF ResetPassword, ReadToVerify, ReadToReset, ReadCode
<1>6. ASSUME NEW s \in Threads, ConfirmAction(s) \/ \E t \in tokens : ReadAction(s, t)
      PROVE  AccountsOK'
  BY <1>6 DEF ConfirmAction, ReadAction
<1>7. ASSUME NEW s \in Callbacks, SignInKnown(s) PROVE AccountsOK'
  <2>1. callback[s].who \in Users
    BY <1>7 DEF SignInKnown
  <2>2. callback' \in [Callbacks -> Callback]
        /\ \A r \in Callbacks : callback'[r].pc # "idle" => callback'[r].who \in Users
    BY <1>7 DEF SignInKnown, Finish, Idle
  <2>3. account' \in [Users -> Account]
    <3>1. CASE account' = account
      BY <3>1
    <3>2. CASE \E ok \in BOOLEAN :
                 account' = [account EXCEPT ![callback[s].who].google = callback[s].who,
                                            ![callback[s].who].verified = @ \/ ok]
      <4>1. PICK ok \in BOOLEAN :
                 account' = [account EXCEPT ![callback[s].who].google = callback[s].who,
                                            ![callback[s].who].verified = @ \/ ok]
        BY <3>2
      <4> DEFINE who == callback[s].who
                 found == [account EXCEPT ![who].google = who]
      <4>2. found \in [Users -> Account]
        BY <2>1
      <4>3. account' = [found EXCEPT ![who].verified = @ \/ ok]
        BY <4>1
      <4>4. found[who].verified \/ ok \in BOOLEAN
        OBVIOUS
      <4> HIDE DEF found
      <4> QED
        BY <4>2, <4>3, <4>4, <2>1
    <3> QED
      BY <1>7, <3>1, <3>2 DEF SignInKnown
  <2> QED
    BY <2>2, <2>3
<1>8. ASSUME NEW s \in Callbacks, InsertNew(s) PROVE AccountsOK'
  BY <1>8 DEF InsertNew, WaitFor
<1>9. ASSUME NEW s \in Callbacks, PublishWelcome(s) PROVE AccountsOK'
  BY <1>9 DEF PublishWelcome, Finish, Idle
<1>10. ASSUME NEW s \in Callbacks, CommitNew(s) PROVE AccountsOK'
  <2>1. callback[s].who \in Users
    BY <1>10 DEF CommitNew
  <2>2. callback' \in [Callbacks -> Callback]
        /\ \A r \in Callbacks : callback'[r].pc # "idle" => callback'[r].who \in Users
    BY <1>10 DEF CommitNew, Finish, Idle
  <2>3. PICK ok \in BOOLEAN :
          account' = [account EXCEPT ![callback[s].who] =
                        [Absent EXCEPT !.here = TRUE, !.verified = ok,
                                       !.google = callback[s].who]]
    BY <1>10 DEF CommitNew
  <2>4. [Absent EXCEPT !.here = TRUE, !.verified = ok, !.google = callback[s].who] \in Account
    BY <2>1, <2>3 DEF Absent
  <2> QED
    BY <2>1, <2>2, <2>3, <2>4
<1>11. ASSUME NEW s \in Callbacks, NEW u \in Users, StartCallback(s, u) PROVE AccountsOK'
  BY <1>11 DEF StartCallback
<1>12. ASSUME NEW u \in Users, NEW v \in Users, Link(u, v) PROVE AccountsOK'
  BY <1>12 DEF Link
<1>13. CASE Tick
  BY <1>13 DEF Tick
<1>14. CASE Crash
  BY <1>14 DEF Crash, Idle
<1> QED
  BY <1>1, <1>2, <1>3, <1>4, <1>5, <1>6, <1>7, <1>8, <1>9, <1>10, <1>11, <1>12, <1>13, <1>14
     DEF Next, CallbackStep

\* A code of u that worked in this step, or a callback of u that ended in it.
Proved(u) ==
  \/ \E r \in Readers : /\ held[r] # Nothing /\ held'[r] = Nothing
                        /\ held[r].row.user = u
                        /\ used'[held[r].row.id] > used[held[r].row.id]
  \/ \E s \in Callbacks : callback[s].who = u /\ callback'[s] = Idle

LEMMA VerifiedStep ==
  ASSUME AccountsOK, CodesOK, [Next]_vars, NEW w \in Users,
         ~account[w].verified, account'[w].verified
  PROVE  Proved(w)
<1> USE DEF AccountsOK, Account
<1>1. CASE account' = account
  BY <1>1
<1>2. ASSUME NEW u \in Users, Register(u) PROVE account' = account \/ ~account'[w].verified
  BY <1>2 DEF Register, WaitFor, Absent
<1>3. CASE VerifyAccount
  <2> DEFINE row == held[Loop].row
  <2>1. Loop \in Readers /\ held[Loop] # Nothing /\ row \in Token
    BY <1>3, LoopHolds DEF VerifyAccount
  <2>2. /\ account' = [account EXCEPT ![row.user].verified = TRUE]
        /\ used' = [used EXCEPT ![row.id] = @ + 1]
        /\ held' = [held EXCEPT ![Loop] = Nothing]
    BY <1>3 DEF VerifyAccount, Take, Works
  <2> HIDE DEF row
  <2>3. row.user = w
    BY <2>1, <2>2 DEF Token
  <2>4. used'[row.id] > used[row.id]
    BY <2>1, <2>2 DEF CodesOK, Token
  <2>5. held'[Loop] = Nothing
    BY <2>1, <2>2 DEF CodesOK
  <2> QED
    BY <2>1, <2>3, <2>4, <2>5 DEF Proved, row
<1>4. ASSUME NEW s \in Callbacks, SignInKnown(s) PROVE account' = account \/ Proved(w)
  BY <1>4 DEF SignInKnown, Finish, Proved, Callback
<1>5. ASSUME NEW s \in Callbacks, CommitNew(s) PROVE Proved(w)
  BY <1>5 DEF CommitNew, Finish, Proved, Callback
<1>6. ASSUME NEW u \in Users, NEW v \in Users, Link(u, v) PROVE account'[w].verified = account[w].verified
  BY <1>6 DEF Link
<1>7. CASE UNCHANGED vars
  BY <1>7 DEF vars
<1>8. ASSUME NEW u \in Users, SendAgain(u) \/ RequestReset(u) \/ RequestAction(u)
      PROVE  account' = account
  BY <1>8 DEF SendAgain, RequestReset, RequestAction
<1>9. ASSUME ResetPassword \/ \E c \in Codes : ReadToVerify(c) \/ ReadToReset(c)
      PROVE  account' = account
  BY <1>9 DEF ResetPassword, ReadToVerify, ReadToReset, ReadCode
<1>10. ASSUME NEW s \in Threads, ConfirmAction(s) \/ \E t \in tokens : ReadAction(s, t)
       PROVE  account' = account
  BY <1>10 DEF ConfirmAction, ReadAction
<1>11. ASSUME NEW s \in Callbacks, InsertNew(s) \/ PublishWelcome(s) \/ \E u \in Users : StartCallback(s, u)
       PROVE  account' = account
  BY <1>11 DEF InsertNew, PublishWelcome, StartCallback, WaitFor
<1>12. CASE Tick \/ Crash
  BY <1>12 DEF Tick, Crash
<1> QED
  BY <1>1, <1>2, <1>3, <1>4, <1>5, <1>6, <1>7, <1>8, <1>9, <1>10, <1>11, <1>12
     DEF Next, CallbackStep

\* No account becomes verified but by one of its own codes, which works and is gone, or
\* by Google.
THEOREM VerifiedIsProved == Spec => VerifiedByProof
<1>1. CodesInv /\ AccountsOK /\ [Next]_vars => AccountsOK'
  BY AccountsNext DEF CodesInv
<1>2. CodesInv /\ AccountsOK /\ [Next]_vars =>
        [\A u \in Users : ~account[u].verified /\ account'[u].verified => Proved(u)]_vars
  BY VerifiedStep DEF CodesInv
<1> QED
  BY <1>1, <1>2, AccountsInit, CodesAlways, PTL DEF Spec, VerifiedByProof, Proved

\* Accounts are not taken away; one that is verified, has a Google account or is sent
\* codes is there.
Grounded ==
  /\ blocked \in BOOLEAN
  /\ \A t \in tokens : account[t.user].here
  /\ \A r \in Readers : held[r] # Nothing => account[held[r].row.user].here
  /\ \A u \in Users : account[u].verified \/ account[u].google # Nothing => account[u].here

TypeInv == CodesInv /\ AccountsOK /\ Grounded

\* What a step does to the rows of users: nothing, or a change of one row that leaves
\* it there.
OneRow(u, row) ==
  account' = [account EXCEPT ![u] = row] /\ row.here

LEMMA AccountSteps ==
  ASSUME AccountsOK, CodesOK, Grounded, [Next]_vars
  PROVE  account' = account \/ \E u \in Users : \E row \in Account : OneRow(u, row)
<1> USE DEF AccountsOK, Account, OneRow
<1>1. ASSUME NEW u \in Users, Register(u)
      PROVE  account' = account \/ \E row \in Account : OneRow(u, row)
  <2> DEFINE row == [Absent EXCEPT !.here = TRUE]
  <2>1. account' = account \/ account' = [account EXCEPT ![u] = row]
    BY <1>1 DEF Register, WaitFor
  <2>2. row \in Account /\ row.here
    BY DEF Absent
  <2> HIDE DEF row
  <2> QED
    BY <2>1, <2>2
<1>2. ASSUME VerifyAccount
      PROVE  \E u \in Users : \E row \in Account : OneRow(u, row)
  <2> DEFINE who == held[Loop].row.user
  <2>1. Loop \in Readers /\ held[Loop] # Nothing /\ held[Loop].row \in Token
    BY <1>2, LoopHolds DEF VerifyAccount
  <2>2. who \in Users /\ account[who].here /\ account[who] \in Account
    BY <2>1 DEF Token, Grounded
  <2>3. account' = [account EXCEPT ![who] = [account[who] EXCEPT !.verified = TRUE]]
    BY <1>2 DEF VerifyAccount
  <2> DEFINE row == [account[who] EXCEPT !.verified = TRUE]
  <2>4. row \in Account /\ row.here
    BY <2>2
  <2> HIDE DEF who
  <2> QED
    BY <2>2, <2>3, <2>4
<1>3. ASSUME NEW s \in Callbacks, SignInKnown(s)
      PROVE  account' = account \/ \E u \in Users : \E row \in Account : OneRow(u, row)
  <2> DEFINE who == callback[s].who
  <2>1. who \in Users
    BY <1>3 DEF SignInKnown
  <2>2. SUFFICES ASSUME ~(account' = account)
                 PROVE  \E u \in Users : \E row \in Account : OneRow(u, row)
    OBVIOUS
  <2>3. PICK ok \in BOOLEAN :
          account' = [account EXCEPT ![who].google = who, ![who].verified = @ \/ ok]
    BY <1>3, <2>2 DEF SignInKnown
  <2>4. account[who].here /\ account[who] \in Account
    BY <1>3, <2>1, <2>2 DEF SignInKnown
  <2> DEFINE row == [account[who] EXCEPT !.google = who, !.verified = @ \/ ok]
  <2>5. row \in Account /\ row.here
    BY <2>1, <2>4
  <2>6. account' = [account EXCEPT ![who] = row]
    BY <2>1, <2>3
  <2> HIDE DEF row, who
  <2> QED
    BY <2>1, <2>5, <2>6
<1>4. ASSUME NEW s \in Callbacks, CommitNew(s)
      PROVE  \E u \in Users : \E row \in Account : OneRow(u, row)
  <2>1. callback[s].who \in Users
    BY <1>4 DEF CommitNew
  <2> DEFINE row(ok) == [Absent EXCEPT !.here = TRUE, !.verified = ok, !.google = callback[s].who]
  <2>2. PICK ok \in BOOLEAN : account' = [account EXCEPT ![callback[s].who] = row(ok)]
    BY <1>4 DEF CommitNew
  <2>3. row(ok) \in Account /\ row(ok).here
    BY <2>1 DEF Absent
  <2> HIDE DEF row
  <2> QED
    BY <2>1, <2>2, <2>3
<1>5. ASSUME NEW u \in Users, NEW v \in Users, Link(u, v)
      PROVE  account' = account \/ \E row \in Account : OneRow(u, row)
  <2> DEFINE row == [account[u] EXCEPT !.google = v]
  <2>1. row \in Account /\ row.here
    BY <1>5 DEF Link
  <2>2. account' = account \/ account' = [account EXCEPT ![u] = row]
    BY <1>5 DEF Link
  <2> HIDE DEF row
  <2> QED
    BY <2>1, <2>2
<1>6. CASE UNCHANGED vars
  BY <1>6 DEF vars
<1>7. ASSUME NEW u \in Users, SendAgain(u) \/ RequestReset(u) \/ RequestAction(u)
      PROVE  account' = account
  BY <1>7 DEF SendAgain, RequestReset, RequestAction
<1>8. ASSUME ResetPassword \/ \E c \in Codes : ReadToVerify(c) \/ ReadToReset(c)
      PROVE  account' = account
  BY <1>8 DEF ResetPassword, ReadToVerify, ReadToReset, ReadCode
<1>9. ASSUME NEW s \in Threads, ConfirmAction(s) \/ \E t \in tokens : ReadAction(s, t)
      PROVE  account' = account
  BY <1>9 DEF ConfirmAction, ReadAction
<1>10. ASSUME NEW s \in Callbacks, InsertNew(s) \/ PublishWelcome(s) \/ \E u \in Users : StartCallback(s, u)
       PROVE  account' = account
  BY <1>10 DEF InsertNew, PublishWelcome, StartCallback, WaitFor
<1>11. CASE Tick \/ Crash
  BY <1>11 DEF Tick, Crash
<1> QED
  BY <1>1, <1>2, <1>3, <1>4, <1>5, <1>6, <1>7, <1>8, <1>9, <1>10, <1>11 DEF Next, CallbackStep

\* A code is made only for an account that is there.
LEMMA CodesHaveAccounts ==
  ASSUME AccountsOK, CodesOK, [Next]_vars
  PROVE  \A t \in tokens' : t \in tokens \/ account'[t.user].here
<1> USE DEF AccountsOK, Account
<1>0. ASSUME NEW u \in Users, NEW removed, Generate(u, removed), account'[u].here
      PROVE  \A t \in tokens' : t \in tokens \/ account'[t.user].here
  BY <1>0 DEF Generate
<1>1. ASSUME NEW u \in Users, Register(u)
      PROVE  tokens' = tokens \/ (account'[u].here /\ \E removed : Generate(u, removed))
  BY <1>1 DEF Register, WaitFor, Absent, codes
<1>2. ASSUME NEW u \in Users, SendAgain(u) \/ RequestReset(u) \/ RequestAction(u)
      PROVE  account'[u].here /\ \E removed : Generate(u, removed)
  BY <1>2 DEF SendAgain, RequestReset, RequestAction
<1>3. ASSUME VerifyAccount \/ ResetPassword \/ \E c \in Codes : ReadToVerify(c) \/ ReadToReset(c)
      PROVE  tokens' \subseteq tokens
  BY <1>3 DEF VerifyAccount, ResetPassword, ReadToVerify, ReadToReset, ReadCode, Take, codes
<1>4. ASSUME NEW s \in Threads, ConfirmAction(s) \/ \E t \in tokens : ReadAction(s, t)
      PROVE  tokens' \subseteq tokens
  BY <1>4 DEF ConfirmAction, ReadAction, Take
<1>5. ASSUME NEW s \in Callbacks, CallbackStep(s) \/ \E u \in Users : StartCallback(s, u)
      PROVE  tokens' = tokens
  BY <1>5 DEF CallbackStep, SignInKnown, InsertNew, PublishWelcome, CommitNew, StartCallback,
              WaitFor, codes
<1>6. ASSUME NEW u \in Users, NEW v \in Users, Link(u, v) PROVE tokens' = tokens
  BY <1>6 DEF Link, codes
<1>7. CASE Tick \/ Crash \/ UNCHANGED vars
  BY <1>7 DEF Tick, Crash, vars, codes
<1> QED
  BY <1>0, <1>1, <1>2, <1>3, <1>4, <1>5, <1>6, <1>7 DEF Next

\* What a reader holds after a step it held before, or it is a row of the table.
LEMMA HeldSteps ==
  ASSUME CodesOK, [Next]_vars
  PROVE  \A r \in Readers : \/ held'[r] = held[r] \/ held'[r] = Nothing
                            \/ held'[r].row \in tokens
<1> USE DEF CodesOK
<1>1. CASE UNCHANGED held
  BY <1>1
<1>2. ASSUME NEW u \in Users, NEW removed, Generate(u, removed), UNCHANGED <<clock, held>>
      PROVE  UNCHANGED held
  BY <1>2
<1>3. ASSUME NEW s \in Readers, Take(s)
      PROVE  \A r \in Readers : held'[r] = held[r] \/ held'[r] = Nothing
  BY <1>3 DEF Take, Works
<1>4. ASSUME NEW s \in Readers, NEW t \in tokens, NEW flow, Hold(s, flow, t)
      PROVE  \A r \in Readers : held'[r] = held[r] \/ held'[r].row \in tokens
  BY <1>4 DEF Hold
<1>5. ASSUME NEW s \in Threads, NEW t \in tokens, ReadAction(s, t)
      PROVE  UNCHANGED held \/ (s \in Readers /\ Hold(s, "action", t))
  BY <1>5 DEF ReadAction, Readers
<1>6. CASE Tick
  BY <1>6 DEF Tick
<1>7. CASE Crash
  BY <1>7 DEF Crash
<1> QED
  BY <1>1, <1>2, <1>3, <1>4, <1>5, <1>6, <1>7, CodeSteps

LEMMA BlockedSteps == blocked \in BOOLEAN /\ [Next]_vars => blocked' \in BOOLEAN
  BY DEF Next, Register, SendAgain, RequestReset, RequestAction, VerifyAccount, ResetPassword,
         ReadToVerify, ReadToReset, ReadCode, ConfirmAction, ReadAction, CallbackStep, SignInKnown, InsertNew, PublishWelcome,
         CommitNew, StartCallback, Link, Tick, Crash, WaitFor, vars

LEMMA GroundedNext == AccountsOK /\ CodesOK /\ Grounded /\ CodesOK' /\ [Next]_vars => Grounded'
<1> SUFFICES ASSUME AccountsOK, CodesOK, Grounded, CodesOK', [Next]_vars PROVE Grounded'
  OBVIOUS
<1>1. blocked' \in BOOLEAN
  BY BlockedSteps DEF Grounded
<1>2. \A u \in Users : /\ account[u].here => account'[u].here
                       /\ account'[u].verified \/ account'[u].google # Nothing => account'[u].here
  <2>1. CASE account' = account
    BY <2>1 DEF Grounded
  <2>2. CASE \E u \in Users : \E row \in Account : OneRow(u, row)
    BY <2>2 DEF Grounded, OneRow, AccountsOK
  <2> QED
    BY <2>1, <2>2, AccountSteps
<1>3. \A t \in tokens' : account'[t.user].here
  <2>1. \A t \in tokens' : t \in tokens \/ account'[t.user].here
    BY CodesHaveAccounts
  <2>2. \A t \in tokens : t.user \in Users /\ account[t.user].here
    BY DEF CodesOK, Token, Grounded
  <2> QED
    BY <1>2, <2>1, <2>2
<1>4. ASSUME NEW r \in Readers, held'[r] # Nothing PROVE account'[held'[r].row.user].here
  <2>1. CASE held'[r] = held[r]
    <3>1. held[r].row \in Token /\ account[held[r].row.user].here
      BY <1>4, <2>1 DEF CodesOK, Held, Grounded
    <3> QED
      BY <1>2, <2>1, <3>1 DEF Token
  <2>2. CASE held'[r].row \in tokens
    BY <1>2, <2>2 DEF CodesOK, Token, Grounded
  <2> QED
    BY <1>4, <2>1, <2>2, HeldSteps
<1> QED
  BY <1>1, <1>2, <1>3, <1>4 DEF Grounded

\* Codes belong to accounts that exist, and only an account that exists is verified or
\* has a Google account: no handler deletes a row of users.
THEOREM CodesAreGrounded == Spec => []TypeOK
<1>1. Init => TypeInv
  <2>2. ASSUME Init PROVE Grounded
    <3>1. tokens = {} /\ blocked = FALSE /\ \A u \in Users : account[u] = Absent
      BY <2>2 DEF Init
    <3>2. \A r \in Readers : held[r] = Nothing
      BY <2>2 DEF Init
    <3>3. ~Absent.verified /\ Absent.google = Nothing
      BY DEF Absent
    <3> QED
      BY <3>1, <3>2, <3>3 DEF Grounded
  <2> QED
    BY <2>2, CodesInit, AccountsInit DEF TypeInv
<1>2. TypeInv /\ [Next]_vars => TypeInv'
  <2> SUFFICES ASSUME TypeInv, [Next]_vars PROVE TypeInv'
    OBVIOUS
  <2>1. CodesInv' /\ AccountsOK'
    BY CodesNext, AccountsNext DEF TypeInv, CodesInv
  <2>2. Grounded'
    BY <2>1, GroundedNext DEF TypeInv, CodesInv
  <2> QED
    BY <2>1, <2>2 DEF TypeInv
<1>3. TypeInv => TypeOK
  <2> SUFFICES ASSUME TypeInv PROVE TypeOK
    OBVIOUS
  <2>1. \A s \in Callbacks : callback[s] \in [pc : {"idle", "lookup", "welcome", "commit"},
                                              who : Users \cup {Nothing}]
    BY DEF TypeInv, AccountsOK, Callback
  <2> QED
    BY <2>1 DEF TypeInv, CodesInv, CodesOK, AccountsOK, Grounded, TypeOK
<1> QED
  BY <1>1, <1>2, <1>3, PTL DEF Spec
=============================================================================
