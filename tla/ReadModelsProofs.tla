-------------------------- MODULE ReadModelsProofs ---------------------------
(***************************************************************************)
(* Proofs about ReadModels: how old what is served may be, for any lives   *)
(* of the pages, any number of requests and any number of failures.        *)
(*                                                                         *)
(* An answer is as old as the rows it was computed from, so the invariant  *)
(* speaks of what the cache keeps and of what each request has learnt of   *)
(* the view since it began (since), by the step it is at.                  *)
(***************************************************************************)
EXTENDS ReadModels, TLAPS

Keys == Pages \cup {Marker}

Request == [pc : {"idle", "lookup", "marker", "refresh", "mark", "read", "store"},
            page : Pages, since : Nat, at : Nat]

Types ==
  /\ clock \in Nat /\ view \in Nat /\ due \in Nat /\ faults \in Nat
  /\ view <= clock
  /\ cache \in [Keys -> [at : Nat, until : Nat]]
  /\ req \in [Slots -> Request]
  /\ answered \in [kind : {"none", "value", "total", "error"}, page : Pages, age : Int]

\* No request takes longer than MaxService, and none has begun in the future; the
\* refresh job is as late at most.
InTime ==
  /\ clock <= due + MaxService
  /\ \A s \in Slots : req[s].pc # "idle" =>
       /\ req[s].since <= clock /\ clock <= req[s].since + MaxService
       /\ req[s].pc \in {"marker", "refresh", "mark"} => req[s].page = "board"

\* What the cache keeps has not expired.
NotExpired == \A k \in Keys : cache[k] = None \/ clock < cache[k].until

\* A page over the tables: what is stored was current when its request read it.
TablesInv ==
  \A page \in Pages \ {"board", "group"} :
    /\ cache[page].until <= cache[page].at + Life[page] + MaxService
    /\ \A s \in Slots : req[s].pc = "store" /\ req[s].page = page => req[s].since <= req[s].at
    /\ Served(page) => answered.age <= Life[page] + MaxService

\* The board: the marker outlives no refresh by more than its life and a request; a
\* request that has passed the marker knows the view is that recent.
BoardInv ==
  LET lag == RefreshLife + MaxService IN
  /\ cache[Marker].until <= view + lag
  /\ cache["board"].until <= cache["board"].at + lag + Life["board"] + MaxService
  /\ \A s \in Slots : req[s].page = "board" =>
       /\ req[s].pc = "mark" => req[s].since <= view
       /\ req[s].pc = "read" => req[s].since <= view + lag
       /\ req[s].pc = "store" => req[s].since <= req[s].at + lag
  /\ Served("board") => answered.age <= lag + Life["board"] + MaxService

\* The group summary: the view is as old as the job makes it.
GroupInv ==
  LET lag == RefreshEvery + MaxService IN
  faults = 0 =>
    /\ due <= view + RefreshEvery
    /\ cache["group"].until <= cache["group"].at + lag + Life["group"] + MaxService
    /\ \A s \in Slots : req[s].page = "group" /\ req[s].pc = "store" =>
         req[s].since <= req[s].at + lag
    /\ Served("group") => answered.age <= lag + Life["group"] + MaxService

AgeInv == Types /\ InTime /\ NotExpired /\ TablesInv /\ BoardInv /\ GroupInv

\* Steps keep the types, and the view is never of the future.
LEMMA TypesNext ==
  ASSUME Types, [Next]_vars
  PROVE  Types'
<1> USE ReadModelsAssumption DEF Pages, Marker, Keys
<1>0. CASE UNCHANGED vars
  BY <1>0 DEF vars, Types, Request, Quiet
<1>1. ASSUME NEW s \in Slots, Ask(s) PROVE Types'
  BY <1>1 DEF Ask, Silent, Types, Request, Quiet
<1>2. ASSUME NEW s \in Slots, LookupHit(s) PROVE Types'
  BY <1>2 DEF LookupHit, Hit, Kept, Answer, OnHit, Idle, None, Quiet, Types, Request, Quiet
<1>3. ASSUME NEW s \in Slots, LookupMiss(s) PROVE Types'
  BY <1>3 DEF LookupMiss, Miss, Kept, Fault, Goes, Silent, Types, Request, Quiet
<1>4. ASSUME NEW s \in Slots, ReadMarker(s) PROVE Types'
  BY <1>4 DEF ReadMarker, Hit, Miss, Kept, Fault, Goes, Silent, Types, Request, Quiet
<1>5. ASSUME NEW s \in Slots, Refresh(s) PROVE Types'
  BY <1>5 DEF Refresh, Fault, Goes, Answer, Silent, Idle, Types, Request, Quiet
<1>6. ASSUME NEW s \in Slots, Mark(s) PROVE Types'
  BY <1>6 DEF Mark, SetEx, Fault, Goes, Silent, Types, Request, Quiet
<1>7. ASSUME NEW s \in Slots, Read(s) PROVE Types'
  BY <1>7 DEF Read, Answer, Current, Silent, Idle, Types, Request, Quiet
<1>8. ASSUME NEW s \in Slots, Store(s) PROVE Types'
  BY <1>8 DEF Store, SetEx, Fault, Answer, OnMiss, Idle, Types, Request, Quiet
<1>9. CASE RefreshJob
  BY <1>9 DEF RefreshJob, Silent, Types, Request, Quiet
<1>10. CASE MissedJob
  BY <1>10 DEF MissedJob, Fault, Silent, Types, Request, Quiet
<1>11. CASE Tick
  BY <1>11 DEF Tick, Silent, None, Types, Request, Quiet
<1>12. CASE RedisRestart
  BY <1>12 DEF RedisRestart, Fault, Silent, None, Types, Request, Quiet
<1>13. CASE ApiRestart
  BY <1>13 DEF ApiRestart, Fault, Silent, Idle, Types, Request, Quiet
<1> QED
  BY <1>0, <1>1, <1>2, <1>3, <1>4, <1>5, <1>6, <1>7, <1>8, <1>9, <1>10, <1>11, <1>12, <1>13 DEF Next, Serve

\* Time passes only while every request and the job are within their time.
LEMMA InTimeNext ==
  ASSUME Types, InTime, [Next]_vars
  PROVE  InTime'
<1> USE ReadModelsAssumption DEF Pages, Marker, Keys
<1>0. CASE UNCHANGED vars
  BY <1>0 DEF vars, Types, Request, InTime
<1>1. ASSUME NEW s \in Slots, Ask(s) PROVE InTime'
  BY <1>1 DEF Ask, Silent, Types, Request, InTime
<1>2. ASSUME NEW s \in Slots, LookupHit(s) PROVE InTime'
  BY <1>2 DEF LookupHit, Hit, Kept, Answer, OnHit, Idle, None, Quiet, Types, Request, InTime
<1>3. ASSUME NEW s \in Slots, LookupMiss(s) PROVE InTime'
  BY <1>3 DEF LookupMiss, Miss, Kept, Fault, Goes, Silent, Types, Request, InTime
<1>4. ASSUME NEW s \in Slots, ReadMarker(s) PROVE InTime'
  BY <1>4 DEF ReadMarker, Hit, Miss, Kept, Fault, Goes, Silent, Types, Request, InTime
<1>5. ASSUME NEW s \in Slots, Refresh(s) PROVE InTime'
  BY <1>5 DEF Refresh, Fault, Goes, Answer, Silent, Idle, Types, Request, InTime
<1>6. ASSUME NEW s \in Slots, Mark(s) PROVE InTime'
  BY <1>6 DEF Mark, SetEx, Fault, Goes, Silent, Types, Request, InTime
<1>7. ASSUME NEW s \in Slots, Read(s) PROVE InTime'
  BY <1>7 DEF Read, Answer, Current, Silent, Idle, Types, Request, InTime
<1>8. ASSUME NEW s \in Slots, Store(s) PROVE InTime'
  BY <1>8 DEF Store, SetEx, Fault, Answer, OnMiss, Idle, Types, Request, InTime
<1>9. CASE RefreshJob
  BY <1>9 DEF RefreshJob, Silent, Types, Request, InTime
<1>10. CASE MissedJob
  BY <1>10 DEF MissedJob, Fault, Silent, Types, Request, InTime
<1>11. CASE Tick
  BY <1>11 DEF Tick, Silent, None, Types, Request, InTime
<1>12. CASE RedisRestart
  BY <1>12 DEF RedisRestart, Fault, Silent, None, Types, Request, InTime
<1>13. CASE ApiRestart
  BY <1>13 DEF ApiRestart, Fault, Silent, Idle, Types, Request, InTime
<1> QED
  BY <1>0, <1>1, <1>2, <1>3, <1>4, <1>5, <1>6, <1>7, <1>8, <1>9, <1>10, <1>11, <1>12, <1>13 DEF Next, Serve

\* Redis keeps nothing beyond its life.
LEMMA NotExpiredNext ==
  ASSUME Types, NotExpired, [Next]_vars
  PROVE  NotExpired'
<1> USE ReadModelsAssumption DEF Pages, Marker, Keys
<1>0. CASE UNCHANGED vars
  BY <1>0 DEF vars, Types, NotExpired, None
<1>1. ASSUME NEW s \in Slots, Ask(s) PROVE NotExpired'
  BY <1>1 DEF Ask, Silent, Types, NotExpired, None
<1>2. ASSUME NEW s \in Slots, LookupHit(s) PROVE NotExpired'
  BY <1>2 DEF LookupHit, Hit, Kept, Answer, OnHit, Idle, None, Quiet, Types, NotExpired, None
<1>3. ASSUME NEW s \in Slots, LookupMiss(s) PROVE NotExpired'
  BY <1>3 DEF LookupMiss, Miss, Kept, Fault, Goes, Silent, Types, NotExpired, None
<1>4. ASSUME NEW s \in Slots, ReadMarker(s) PROVE NotExpired'
  BY <1>4 DEF ReadMarker, Hit, Miss, Kept, Fault, Goes, Silent, Types, NotExpired, None
<1>5. ASSUME NEW s \in Slots, Refresh(s) PROVE NotExpired'
  BY <1>5 DEF Refresh, Fault, Goes, Answer, Silent, Idle, Types, NotExpired, None
<1>6. ASSUME NEW s \in Slots, Mark(s) PROVE NotExpired'
  BY <1>6 DEF Mark, SetEx, Fault, Goes, Silent, Types, NotExpired, None
<1>7. ASSUME NEW s \in Slots, Read(s) PROVE NotExpired'
  BY <1>7 DEF Read, Answer, Current, Silent, Idle, Types, NotExpired, None
<1>8. ASSUME NEW s \in Slots, Store(s) PROVE NotExpired'
  BY <1>8 DEF Store, SetEx, Fault, Answer, OnMiss, Idle, Types, Request, NotExpired, None
<1>9. CASE RefreshJob
  BY <1>9 DEF RefreshJob, Silent, Types, NotExpired, None
<1>10. CASE MissedJob
  BY <1>10 DEF MissedJob, Fault, Silent, Types, NotExpired, None
<1>11. CASE Tick
  BY <1>11 DEF Tick, Silent, None, Types, NotExpired, None
<1>12. CASE RedisRestart
  BY <1>12 DEF RedisRestart, Fault, Silent, None, Types, NotExpired, None
<1>13. CASE ApiRestart
  BY <1>13 DEF ApiRestart, Fault, Silent, Idle, Types, NotExpired, None
<1> QED
  BY <1>0, <1>1, <1>2, <1>3, <1>4, <1>5, <1>6, <1>7, <1>8, <1>9, <1>10, <1>11, <1>12, <1>13 DEF Next, Serve

\* A slow request may store older rows over newer ones, but none older than its start.
LEMMA TablesNext ==
  ASSUME Types, InTime, NotExpired, TablesInv, [Next]_vars
  PROVE  TablesInv'
<1> USE ReadModelsAssumption DEF Pages, Marker, Keys
<1>0. CASE UNCHANGED vars
  BY <1>0 DEF vars, Types, Request, InTime, NotExpired, TablesInv, Served, None, Quiet
<1>1. ASSUME NEW s \in Slots, Ask(s) PROVE TablesInv'
  BY <1>1 DEF Ask, Silent, Types, Request, InTime, NotExpired, TablesInv, Served, None, Quiet
<1>2. ASSUME NEW s \in Slots, LookupHit(s) PROVE TablesInv'
  BY <1>2 DEF LookupHit, Hit, Kept, Answer, OnHit, Idle, None, Quiet, Types, Request, InTime, NotExpired, TablesInv, Served, None, Quiet
<1>3. ASSUME NEW s \in Slots, LookupMiss(s) PROVE TablesInv'
  BY <1>3 DEF LookupMiss, Miss, Kept, Fault, Goes, Silent, Types, Request, InTime, NotExpired, TablesInv, Served, None, Quiet
<1>4. ASSUME NEW s \in Slots, ReadMarker(s) PROVE TablesInv'
  BY <1>4 DEF ReadMarker, Hit, Miss, Kept, Fault, Goes, Silent, Types, Request, InTime, NotExpired, TablesInv, Served, None, Quiet
<1>5. ASSUME NEW s \in Slots, Refresh(s) PROVE TablesInv'
  BY <1>5 DEF Refresh, Fault, Goes, Answer, Silent, Idle, Types, Request, InTime, NotExpired, TablesInv, Served, None, Quiet
<1>6. ASSUME NEW s \in Slots, Mark(s) PROVE TablesInv'
  BY <1>6 DEF Mark, SetEx, Fault, Goes, Silent, Types, Request, InTime, NotExpired, TablesInv, Served, None, Quiet
<1>7. ASSUME NEW s \in Slots, Read(s) PROVE TablesInv'
  BY <1>7 DEF Read, Answer, Current, Silent, Idle, Types, Request, InTime, NotExpired, TablesInv, Served, None, Quiet
<1>8. ASSUME NEW s \in Slots, Store(s) PROVE TablesInv'
  BY <1>8 DEF Store, SetEx, Fault, Answer, OnMiss, Idle, Types, Request, InTime, NotExpired, TablesInv, Served, None, Quiet
<1>9. CASE RefreshJob
  BY <1>9 DEF RefreshJob, Silent, Types, Request, InTime, NotExpired, TablesInv, Served, None, Quiet
<1>10. CASE MissedJob
  BY <1>10 DEF MissedJob, Fault, Silent, Types, Request, InTime, NotExpired, TablesInv, Served, None, Quiet
<1>11. CASE Tick
  BY <1>11 DEF Tick, Silent, None, Types, Request, InTime, NotExpired, TablesInv, Served, None, Quiet
<1>12. CASE RedisRestart
  BY <1>12 DEF RedisRestart, Fault, Silent, None, Types, Request, InTime, NotExpired, TablesInv, Served, None, Quiet
<1>13. CASE ApiRestart
  BY <1>13 DEF ApiRestart, Fault, Silent, Idle, Types, Request, InTime, NotExpired, TablesInv, Served, None, Quiet
<1> QED
  BY <1>0, <1>1, <1>2, <1>3, <1>4, <1>5, <1>6, <1>7, <1>8, <1>9, <1>10, <1>11, <1>12, <1>13 DEF Next, Serve

\* A marker in the cache, or a refresh of one's own, bounds the age of the view that is
\* read; a refresh or a marker that fails only makes it newer.
LEMMA BoardNext ==
  ASSUME Types, InTime, NotExpired, BoardInv, [Next]_vars
  PROVE  BoardInv'
<1> USE ReadModelsAssumption DEF Pages, Marker, Keys
<1>0. CASE UNCHANGED vars
  BY <1>0 DEF vars, Types, Request, InTime, NotExpired, BoardInv, Served, None, Quiet
<1>1. ASSUME NEW s \in Slots, Ask(s) PROVE BoardInv'
  BY <1>1 DEF Ask, Silent, Types, Request, InTime, NotExpired, BoardInv, Served, None, Quiet
<1>2. ASSUME NEW s \in Slots, LookupHit(s) PROVE BoardInv'
  BY <1>2 DEF LookupHit, Hit, Kept, Answer, OnHit, Idle, None, Quiet, Types, Request, InTime, NotExpired, BoardInv, Served, None, Quiet
<1>3. ASSUME NEW s \in Slots, LookupMiss(s) PROVE BoardInv'
  BY <1>3 DEF LookupMiss, Miss, Kept, Fault, Goes, Silent, Types, Request, InTime, NotExpired, BoardInv, Served, None, Quiet
<1>4. ASSUME NEW s \in Slots, ReadMarker(s) PROVE BoardInv'
  BY <1>4 DEF ReadMarker, Hit, Miss, Kept, Fault, Goes, Silent, Types, Request, InTime, NotExpired, BoardInv, Served, None, Quiet
<1>5. ASSUME NEW s \in Slots, Refresh(s) PROVE BoardInv'
  BY <1>5 DEF Refresh, Fault, Goes, Answer, Silent, Idle, Types, Request, InTime, NotExpired, BoardInv, Served, None, Quiet
<1>6. ASSUME NEW s \in Slots, Mark(s) PROVE BoardInv'
  BY <1>6 DEF Mark, SetEx, Fault, Goes, Silent, Types, Request, InTime, NotExpired, BoardInv, Served, None, Quiet
<1>7. ASSUME NEW s \in Slots, Read(s) PROVE BoardInv'
  BY <1>7 DEF Read, Answer, Current, Silent, Idle, Types, Request, InTime, NotExpired, BoardInv, Served, None, Quiet
<1>8. ASSUME NEW s \in Slots, Store(s) PROVE BoardInv'
  BY <1>8 DEF Store, SetEx, Fault, Answer, OnMiss, Idle, Types, Request, InTime, NotExpired, BoardInv, Served, None, Quiet
<1>9. CASE RefreshJob
  BY <1>9 DEF RefreshJob, Silent, Types, Request, InTime, NotExpired, BoardInv, Served, None, Quiet
<1>10. CASE MissedJob
  BY <1>10 DEF MissedJob, Fault, Silent, Types, Request, InTime, NotExpired, BoardInv, Served, None, Quiet
<1>11. CASE Tick
  BY <1>11 DEF Tick, Silent, None, Types, Request, InTime, NotExpired, BoardInv, Served, None, Quiet
<1>12. CASE RedisRestart
  BY <1>12 DEF RedisRestart, Fault, Silent, None, Types, Request, InTime, NotExpired, BoardInv, Served, None, Quiet
<1>13. CASE ApiRestart
  BY <1>13 DEF ApiRestart, Fault, Silent, Idle, Types, Request, InTime, NotExpired, BoardInv, Served, None, Quiet
<1> QED
  BY <1>0, <1>1, <1>2, <1>3, <1>4, <1>5, <1>6, <1>7, <1>8, <1>9, <1>10, <1>11, <1>12, <1>13 DEF Next, Serve

\* As long as nothing fails, every period of the job brings the view up to date.
LEMMA GroupNext ==
  ASSUME Types, InTime, NotExpired, GroupInv, [Next]_vars
  PROVE  GroupInv'
<1> USE ReadModelsAssumption DEF Pages, Marker, Keys
<1>0. CASE UNCHANGED vars
  BY <1>0 DEF vars, Types, Request, InTime, NotExpired, GroupInv, Served, None, Quiet
<1>1. ASSUME NEW s \in Slots, Ask(s) PROVE GroupInv'
  BY <1>1 DEF Ask, Silent, Types, Request, InTime, NotExpired, GroupInv, Served, None, Quiet
<1>2. ASSUME NEW s \in Slots, LookupHit(s) PROVE GroupInv'
  BY <1>2 DEF LookupHit, Hit, Kept, Answer, OnHit, Idle, None, Quiet, Types, Request, InTime, NotExpired, GroupInv, Served, None, Quiet
<1>3. ASSUME NEW s \in Slots, LookupMiss(s) PROVE GroupInv'
  BY <1>3 DEF LookupMiss, Miss, Kept, Fault, Goes, Silent, Types, Request, InTime, NotExpired, GroupInv, Served, None, Quiet
<1>4. ASSUME NEW s \in Slots, ReadMarker(s) PROVE GroupInv'
  BY <1>4 DEF ReadMarker, Hit, Miss, Kept, Fault, Goes, Silent, Types, Request, InTime, NotExpired, GroupInv, Served, None, Quiet
<1>5. ASSUME NEW s \in Slots, Refresh(s) PROVE GroupInv'
  BY <1>5 DEF Refresh, Fault, Goes, Answer, Silent, Idle, Types, Request, InTime, NotExpired, GroupInv, Served, None, Quiet
<1>6. ASSUME NEW s \in Slots, Mark(s) PROVE GroupInv'
  BY <1>6 DEF Mark, SetEx, Fault, Goes, Silent, Types, Request, InTime, NotExpired, GroupInv, Served, None, Quiet
<1>7. ASSUME NEW s \in Slots, Read(s) PROVE GroupInv'
  BY <1>7 DEF Read, Answer, Current, Silent, Idle, Types, Request, InTime, NotExpired, GroupInv, Served, None, Quiet
<1>8. ASSUME NEW s \in Slots, Store(s) PROVE GroupInv'
  BY <1>8 DEF Store, SetEx, Fault, Answer, OnMiss, Idle, Types, Request, InTime, NotExpired, GroupInv, Served, None, Quiet
<1>9. CASE RefreshJob
  BY <1>9 DEF RefreshJob, Silent, Types, Request, InTime, NotExpired, GroupInv, Served, None, Quiet
<1>10. CASE MissedJob
  BY <1>10 DEF MissedJob, Fault, Silent, Types, Request, InTime, NotExpired, GroupInv, Served, None, Quiet
<1>11. CASE Tick
  BY <1>11 DEF Tick, Silent, None, Types, Request, InTime, NotExpired, GroupInv, Served, None, Quiet
<1>12. CASE RedisRestart
  BY <1>12 DEF RedisRestart, Fault, Silent, None, Types, Request, InTime, NotExpired, GroupInv, Served, None, Quiet
<1>13. CASE ApiRestart
  BY <1>13 DEF ApiRestart, Fault, Silent, Idle, Types, Request, InTime, NotExpired, GroupInv, Served, None, Quiet
<1> QED
  BY <1>0, <1>1, <1>2, <1>3, <1>4, <1>5, <1>6, <1>7, <1>8, <1>9, <1>10, <1>11, <1>12, <1>13 DEF Next, Serve

-----------------------------------------------------------------------------
(* The theorems                                                            *)

LEMMA AgeInit == Init => AgeInv
  BY ReadModelsAssumption
     DEF Init, AgeInv, Types, Request, InTime, NotExpired, TablesInv, BoardInv, GroupInv, Served,
         Keys, Pages, Marker, None, Idle, Quiet

LEMMA AgeNext == AgeInv /\ [Next]_vars => AgeInv'
<1> SUFFICES ASSUME AgeInv, [Next]_vars PROVE AgeInv'
  OBVIOUS
<1>1. Types' /\ InTime' /\ NotExpired'
  BY TypesNext, InTimeNext, NotExpiredNext DEF AgeInv
<1>2. TablesInv' /\ BoardInv' /\ GroupInv'
  BY TablesNext, BoardNext, GroupNext DEF AgeInv
<1> QED
  BY <1>1, <1>2 DEF AgeInv

LEMMA AgeAlways == Spec => []AgeInv
  BY AgeInit, AgeNext, PTL DEF Spec

\* What get_global_ledger computes a board from was current at most the life of the
\* refresh marker and the time of a request before the request began, whatever fails.
THEOREM BoardRead == Spec => []BoardReadsRecent
<1>1. AgeInv => BoardReadsRecent
  <2> SUFFICES ASSUME AgeInv, NEW s \in Slots, req[s].pc = "store", req[s].page = "board"
               PROVE  req[s].since - req[s].at <= RefreshLife + MaxService
    BY DEF BoardReadsRecent
  <2>1. req[s].since <= req[s].at + RefreshLife + MaxService
    BY ReadModelsAssumption DEF AgeInv, BoardInv, Types, Request
  <2>2. req[s].since \in Nat /\ req[s].at \in Nat
    BY DEF AgeInv, Types, Request
  <2> QED
    BY <2>1, <2>2, ReadModelsAssumption
<1> QED
  BY <1>1, AgeAlways, PTL

\* The group summary is as recent as the job of the worker makes the view, as long as
\* nothing fails.
THEOREM GroupAge == Spec => []GroupIsRecent
<1>1. AgeInv => GroupIsRecent
  BY ReadModelsAssumption DEF AgeInv, Types, GroupInv, GroupIsRecent, Pages
<1> QED
  BY <1>1, AgeAlways, PTL

\* Every page over the tables is no older than its life in the cache and the time a
\* request takes.
THEOREM PageAge == Spec => []PagesAreRecent
<1>1. AgeInv => PagesAreRecent
  BY DEF AgeInv, TablesInv, PagesAreRecent
<1> QED
  BY <1>1, AgeAlways, PTL
=============================================================================
