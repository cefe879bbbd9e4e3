----------------------------- MODULE ReadModels ------------------------------
(***************************************************************************)
(* How old the figures are that the API serves: pages cached in Redis for  *)
(* a while, two of them over a materialised view that is refreshed by a    *)
(* job of the worker and, before it is read for the board, by the API.     *)
(*                                                                         *)
(* A figure is known by the moment at which its rows were current.  Every  *)
(* Redis command is awaited, so requests interleave between a read of the  *)
(* database and the command that stores its result.  Redis may fail at any *)
(* command, which is taken for a miss, and the answer is then computed.    *)
(***************************************************************************)
EXTENDS Integers

CONSTANTS
  Asked,         \* pages that requests ask for
  Life,          \* how long each page is cached
  RefreshLife,   \* how long a refresh by the API keeps it from another
  RefreshEvery,  \* interval of the refresh job
  Slots,         \* requests served at a time
  MaxService,    \* bound: how long a request, or the refresh job, takes
  MaxTime,       \* bound: time that passes
  MaxFaults      \* bound: failures of Redis, of the refresh and of its job, restarts

Pages == {"board", "group", "upcoming", "list", "metrics", "accounts", "trends", "peaks",
          "insights"}
Marker == "ledger_summary:refreshed_at"

ASSUME ReadModelsAssumption ==
  /\ Asked \subseteq Pages
  /\ Life \in [Pages -> Nat \ {0}]
  /\ RefreshLife \in Nat \ {0} /\ RefreshEvery \in Nat \ {0}
  /\ MaxService \in Nat /\ MaxTime \in Nat /\ MaxFaults \in Nat

VARIABLES
  clock,
  view,      \* when the rows of ledger_summary were current
  due,       \* when the refresh job runs next
  cache,     \* Redis: when what is stored was current, and until when it is kept
  req,       \* the requests being served
  answered,  \* the answer of the last step, if it gave one
  faults     \* bound

vars == <<clock, view, due, cache, req, answered, faults>>

None  == [at |-> 0, until |-> 0]
Idle  == [pc |-> "idle", page |-> "board", since |-> 0, at |-> 0]
Quiet == [kind |-> "none", page |-> "board", age |-> 0]

TypeOK ==
  /\ clock \in 0..MaxTime /\ view \in 0..clock
  /\ due \in Nat /\ clock <= due + MaxService
  /\ \A k \in Pages \cup {Marker} : cache[k].at \in 0..clock /\ cache[k].until \in Nat
  /\ \A s \in Slots :
       /\ req[s] \in [pc : {"idle", "lookup", "marker", "refresh", "mark", "read", "store"},
                      page : Pages, since : 0..clock, at : 0..clock]
       /\ req[s].pc \in {"marker", "refresh", "mark"} => req[s].page = "board"
       /\ req[s].pc # "idle" => clock <= req[s].since + MaxService
  /\ answered \in [kind : {"none", "value", "total", "error"}, page : Pages, age : 0..clock]

Init ==
  /\ clock = 0 /\ view = 0 /\ due = RefreshEvery
  /\ cache = [k \in Pages \cup {Marker} |-> None]
  /\ req = [s \in Slots |-> Idle]
  /\ answered = Quiet
  /\ faults = 0

Fault == faults < MaxFaults /\ faults' = faults + 1

Kept(k) == cache[k] # None

\* SETEX, or a failure of Redis that is logged.
SetEx(k, at, life) ==
  \/ cache' = [cache EXCEPT ![k] = [at |-> at, until |-> clock + life]] /\ UNCHANGED faults
  \/ Fault /\ UNCHANGED cache

\* GET, or a failure of Redis that counts as a miss.
Hit(k)  == Kept(k) /\ UNCHANGED faults
Miss(k) == IF Kept(k) THEN Fault ELSE UNCHANGED faults

Silent == answered' = Quiet

Goes(s, pc) == req' = [req EXCEPT ![s].pc = pc]

Answer(s, kind, at) ==
  /\ answered' = [kind |-> kind, page |-> req[s].page, age |-> clock - at]
  /\ req' = [req EXCEPT ![s] = Idle]

-----------------------------------------------------------------------------
(* A request                                                               *)

Ask(s) ==
  /\ req[s].pc = "idle"
  /\ \E p \in Asked :
       req' = [req EXCEPT ![s] = [pc |-> "lookup", page |-> p, since |-> clock, at |-> 0]]
  /\ Silent /\ UNCHANGED <<clock, view, due, cache, faults>>

\* list_obligations stores its total alone: a hit has no rows to answer.
OnHit(page) == IF page = "list" THEN "total" ELSE "value"

\* Mutant of LookupHit: every hit keeps the page for as long again.
LookupHitExtends(s) ==
  /\ req[s].pc = "lookup"
  /\ LET page == req[s].page
     IN /\ Hit(page) /\ Answer(s, OnHit(page), cache[page].at)
        /\ cache' = [cache EXCEPT ![page].until = clock + Life[page]]
  /\ UNCHANGED <<clock, view, due>>

LookupHit(s) ==
  /\ req[s].pc = "lookup"
  /\ LET page == req[s].page IN Hit(page) /\ Answer(s, OnHit(page), cache[page].at)
  /\ UNCHANGED <<clock, view, due, cache>>

\* Only the board refreshes the view before it reads it.
LookupMiss(s) ==
  /\ req[s].pc = "lookup"
  /\ LET page == req[s].page
     IN Miss(page) /\ Goes(s, IF page = "board" THEN "marker" ELSE "read")
  /\ Silent /\ UNCHANGED <<clock, view, due, cache>>

ReadMarker(s) ==
  /\ req[s].pc = "marker"
  /\ \/ Hit(Marker) /\ Goes(s, "read")
     \/ Miss(Marker) /\ Goes(s, "refresh")
  /\ Silent /\ UNCHANGED <<clock, view, due, cache>>

\* A refresh that fails is logged, but it leaves the transaction aborted: the SELECT that
\* follows fails, and the request is answered 500.
Refresh(s) ==
  /\ req[s].pc = "refresh"
  /\ \/ view' = clock /\ Goes(s, "mark") /\ Silent /\ UNCHANGED faults
     \/ Fault /\ Answer(s, "error", clock) /\ UNCHANGED view
  /\ UNCHANGED <<clock, due, cache>>

\* Mutant of Mark: the marker has no expiry.
MarkForever(s) ==
  /\ req[s].pc = "mark"
  /\ SetEx(Marker, view, MaxTime) /\ Goes(s, "read")
  /\ Silent /\ UNCHANGED <<clock, view, due>>

Mark(s) ==
  /\ req[s].pc = "mark"
  /\ SetEx(Marker, view, RefreshLife) /\ Goes(s, "read")
  /\ Silent /\ UNCHANGED <<clock, view, due>>

\* The queries of the page; an empty board is answered without being stored, an unknown
\* group or collection point with 404.
Current(page) == IF page \in {"board", "group"} THEN view ELSE clock

Read(s) ==
  /\ req[s].pc = "read"
  /\ LET page == req[s].page
     IN \/ req' = [req EXCEPT ![s].pc = "store", ![s].at = Current(page)] /\ Silent
        \/ page = "board" /\ Answer(s, "value", view)
        \/ page \in {"group", "insights"} /\ Answer(s, "error", clock)
  /\ UNCHANGED <<clock, view, due, cache, faults>>

\* get_payments_by_account stores its result and then returns none: 500.
OnMiss(page) == IF page = "accounts" THEN "error" ELSE "value"

Store(s) ==
  /\ req[s].pc = "store"
  /\ SetEx(req[s].page, req[s].at, Life[req[s].page])
  /\ Answer(s, OnMiss(req[s].page), req[s].at)
  /\ UNCHANGED <<clock, view, due>>

-----------------------------------------------------------------------------
(* The refresh job, time, and faults                                       *)

\* Mutant of RefreshJob: the refresh is not committed.
RefreshJobUncommitted ==
  /\ clock >= due /\ due' = due + RefreshEvery
  /\ Silent /\ UNCHANGED <<clock, view, cache, req, faults>>

RefreshJob ==
  /\ clock >= due /\ due' = due + RefreshEvery
  /\ view' = clock
  /\ Silent /\ UNCHANGED <<clock, cache, req, faults>>

\* The job fails, or is skipped: the worker is down, or the scheduler wakes up later than
\* the one second it allows.
MissedJob ==
  /\ clock >= due /\ due' = due + RefreshEvery
  /\ Fault
  /\ Silent /\ UNCHANGED <<clock, view, cache, req>>

Tick ==
  /\ clock < MaxTime /\ clock < due + MaxService
  /\ \A s \in Slots : req[s].pc # "idle" => clock < req[s].since + MaxService
  /\ clock' = clock + 1
  /\ cache' = [k \in Pages \cup {Marker} |->
                 IF cache[k].until <= clock + 1 THEN None ELSE cache[k]]
  /\ Silent /\ UNCHANGED <<view, due, req, faults>>

RedisRestart ==
  /\ Fault /\ cache' = [k \in Pages \cup {Marker} |-> None]
  /\ Silent /\ UNCHANGED <<clock, view, due, req>>

ApiRestart ==
  /\ Fault /\ req' = [s \in Slots |-> Idle]
  /\ Silent /\ UNCHANGED <<clock, view, due, cache>>

Serve(s) ==
  \/ Ask(s) \/ LookupHit(s) \/ LookupMiss(s) \/ ReadMarker(s) \/ Refresh(s) \/ Mark(s)
  \/ Read(s) \/ Store(s)

Next ==
  \/ \E s \in Slots : Serve(s)
  \/ RefreshJob \/ MissedJob \/ Tick \/ RedisRestart \/ ApiRestart

Spec == Init /\ [][Next]_vars

-----------------------------------------------------------------------------
(* Properties                                                              *)

Served(page) == answered.kind \in {"value", "total"} /\ answered.page = page

\* A request that finds no board in the cache computes it from rows that were current
\* at most the refresh marker's life, and the time of one request, before it began:
\* refresh_ledger_summary keeps the view recent even when the job of the worker does not
\* run.  (What is served from the cache is older, by as long as the page has been kept:
\* "never reflects data that is more than 5 minutes stale" is not so.)
BoardReadsRecent ==
  \A s \in Slots :
    req[s].pc = "store" /\ req[s].page = "board" =>
      req[s].since - req[s].at <= RefreshLife + MaxService

\* The group summary reads the same view but never refreshes it: it is as recent as the
\* job of the worker, as long as nothing fails.
GroupIsRecent ==
  Served("group") /\ faults = 0 =>
    answered.age <= RefreshEvery + Life["group"] + 2 * MaxService

\* A page over the tables is no older than its life in the cache and the time a request
\* takes, although a slow request may store older rows over newer ones.
PagesAreRecent ==
  \A page \in Pages \ {"board", "group"} :
    Served(page) => answered.age <= Life[page] + MaxService
=============================================================================
