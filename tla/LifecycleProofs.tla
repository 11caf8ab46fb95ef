---------------------------- MODULE LifecycleProofs ----------------------------
(***************************************************************************)
(* Theorems about Lifecycle for any lighthouses, requests, pool size and   *)
(* flags.                                                                  *)
(***************************************************************************)
EXTENDS Lifecycle, FiniteSetTheorems, TLAPS

USE LifecycleAssumption

\* Whoever works on the schema comes after the migrations.
SchemaOK ==
    /\ main \in {"ssh", "collect"} => migrated
    /\ main = "start" => (~Migrate => migrated)
    /\ ready \/ pruner => migrated
    /\ WorksOnMigratedSchema

\* A request that is being worked on has no answer yet, and a probe is worked on
\* only once the process is ready.
RequestOK ==
    \A r \in Requests :
        conn[r] # "none" => req[r].answer = 0 /\ (req[r].kind = "readyz" => migrated)

\* Exit status 0 is that of a round that is over.
OutcomeOK ==
    status = "0" =>
        phase = "returned" /\ migrated /\ (cancelled \/ (accounted = Lighthouses /\ ~failed))

IInv == TypeOK /\ SchemaOK /\ RequestOK /\ OutcomeOK

-----------------------------------------------------------------------------
(***************************************************************************)
(* The pool                                                                *)
(***************************************************************************)
\* There are finitely many users, and finitely many connections in use.
LEMMA UsersFinite ==
    IsFiniteSet(Users) /\ IsFiniteSet(InUse) /\ Cardinality(InUse) \in Nat
<1>1. IsFiniteSet({"main", "collector", "pruner"})
  <2>1. IsFiniteSet({"main"}) /\ IsFiniteSet({"collector"}) /\ IsFiniteSet({"pruner"})
    BY FS_Singleton
  <2>2. IsFiniteSet({"main"} \cup {"collector"})
    BY <2>1, FS_Union
  <2>3. IsFiniteSet(({"main"} \cup {"collector"}) \cup {"pruner"})
    BY <2>1, <2>2, FS_Union
  <2>4. ({"main"} \cup {"collector"}) \cup {"pruner"} = {"main", "collector", "pruner"}
    OBVIOUS
  <2> QED
    BY <2>3, <2>4
<1>2. IsFiniteSet(Users)
  BY <1>1, FS_Union DEF Users, LifecycleAssumption
<1>3. InUse \subseteq Users
  BY DEF InUse
<1> QED
  BY <1>2, <1>3, FS_Subset, FS_CardinalityType

\* Begin and Finish take no connection.
LEMMA NoConnectionTaken ==
    ASSUME TypeOK, NEW u \in Users, NEW state \in {"none", "waiting"},
           conn' = [conn EXCEPT ![u] = state]
    PROVE  /\ conn' \in [Users -> {"none", "waiting", "held"}]
           /\ Cardinality(InUse') <= MaxConns
<1>1. conn \in [Users -> {"none", "waiting", "held"}] /\ Cardinality(InUse) <= MaxConns
  BY DEF TypeOK
<1>2. InUse' \subseteq InUse
  BY <1>1 DEF InUse
<1>3. IsFiniteSet(InUse') /\ Cardinality(InUse') <= Cardinality(InUse)
  BY <1>2, UsersFinite, FS_Subset
<1>4. Cardinality(InUse') \in Nat /\ Cardinality(InUse) \in Nat /\ MaxConns \in Nat
  BY <1>3, UsersFinite, FS_CardinalityType DEF LifecycleAssumption
<1> QED
  BY <1>1, <1>3, <1>4

\* Acquire takes one that is free.
LEMMA AcquireKeepsLimit ==
    ASSUME TypeOK, NEW u \in Users, Acquire(u)
    PROVE  /\ conn' \in [Users -> {"none", "waiting", "held"}]
           /\ Cardinality(InUse') <= MaxConns
<1>1. conn \in [Users -> {"none", "waiting", "held"}]
  BY DEF TypeOK
<1>2. InUse' = InUse \cup {u}
  BY <1>1 DEF InUse, Acquire
<1>3. Cardinality(InUse') \in {Cardinality(InUse), Cardinality(InUse) + 1}
  BY <1>2, UsersFinite, FS_AddElement
<1>4. Cardinality(InUse) < MaxConns /\ Cardinality(InUse) \in Nat /\ MaxConns \in Nat
  BY UsersFinite DEF Acquire, LifecycleAssumption
<1> QED
  BY <1>1, <1>3, <1>4 DEF Acquire

\* The users that are not requests.
LEMMA OwnUsers ==
    /\ {"main", "collector", "pruner"} \subseteq Users /\ Requests \subseteq Users
    /\ \A r \in Requests : r # "main" /\ r # "collector" /\ r # "pruner"
BY DEF Users, LifecycleAssumption

-----------------------------------------------------------------------------
(***************************************************************************)
(* The inductive invariant                                                 *)
(***************************************************************************)
LEMMA InitInvariant == ASSUME Init PROVE IInv
<1>1. conn \in [Users -> {"none", "waiting", "held"}] /\ \A u \in Users : conn[u] = "none"
  BY DEF Init
<1>2. InUse = {}
  BY <1>1 DEF InUse
<1>3. Cardinality(InUse) <= MaxConns
  BY <1>2, FS_EmptySet DEF LifecycleAssumption
<1>4. req \in [Requests -> Request]
  BY DEF Init, Request, NoRequest
<1>5. LoopTypeOK
  BY DEF Init, LoopInit, LoopTypeOK
<1>6. {migrated, ready, pruner, closed} \subseteq BOOLEAN
  BY DEF Init, LifecycleAssumption
<1>7. main = "start" /\ server = "off" /\ status = "running" /\ ~ready /\ ~pruner
      /\ (~Migrate => migrated)
  BY DEF Init, LoopInit
<1>8. TypeOK
  BY <1>1, <1>3, <1>4, <1>5, <1>6, <1>7 DEF TypeOK
<1> QED
  BY <1>1, <1>2, <1>7, <1>8, OwnUsers
  DEF IInv, SchemaOK, WorksOnMigratedSchema, RequestOK, OutcomeOK

\* What is left of the invariant when the loop, run and the pruner stand still.
LEMMA OthersStandStill ==
    ASSUME IInv, UNCHANGED <<loopVars, mainVars, pruner>>, main # "exited",
           TypeOK', RequestOK',
           \A u \in {"collector", "pruner"} : conn'[u] # "none" => conn[u] # "none" \/ migrated
    PROVE  IInv'
BY DEF IInv, SchemaOK, WorksOnMigratedSchema, OutcomeOK, loopVars, mainVars

LEMMA AcquireInvariant ==
    ASSUME IInv, main # "exited", NEW u \in Users, Acquire(u) PROVE IInv'
<1>1. /\ conn \in [Users -> {"none", "waiting", "held"}] /\ conn[u] = "waiting"
      /\ conn' = [conn EXCEPT ![u] = "held"]
      /\ UNCHANGED <<loopVars, mainVars, server, req, pruner, closed>>
  BY DEF IInv, TypeOK, Acquire
<1>2. \A v \in Users : conn'[v] # "none" => conn[v] # "none"
  BY <1>1
<1>3. TypeOK'
  BY <1>1, AcquireKeepsLimit DEF IInv, TypeOK, LoopTypeOK, loopVars, mainVars
<1>4. RequestOK'
  BY <1>1, <1>2, OwnUsers DEF IInv, RequestOK, mainVars
<1> QED
  BY <1>1, <1>2, <1>3, <1>4, OwnUsers, OthersStandStill

\* The steps of run, from the start to the end of the process.
LEMMA MainInvariant == ASSUME IInv, main # "exited", Main PROVE IInv'
<1>0. /\ conn \in [Users -> {"none", "waiting", "held"}] /\ Cardinality(InUse) <= MaxConns
      /\ LoopTypeOK /\ req \in [Requests -> Request] /\ "main" \in Users
      /\ migrated \in BOOLEAN /\ ready \in BOOLEAN /\ pruner \in BOOLEAN /\ closed \in BOOLEAN
      /\ server \in {"off", "starting", "serving", "failed", "shutdown"}
      /\ once \in BOOLEAN
  BY OwnUsers DEF IInv, TypeOK, LoopTypeOK
<1>1. UNCHANGED <<once, phase, accounted, failed, cancelled, req>>
  BY DEF Main, StartUp, MigrateOk, MigrateFails, SshOk, SshFails, CollectorReturned, PoolClosed,
         Close, loopVars
<1>2. UNCHANGED conn \/ \E state \in {"none", "waiting"} : conn' = [conn EXCEPT !["main"] = state]
  BY DEF Main, StartUp, MigrateOk, MigrateFails, SshOk, SshFails, CollectorReturned, PoolClosed,
         Begin, Finish
<1>3. conn' \in [Users -> {"none", "waiting", "held"}] /\ Cardinality(InUse') <= MaxConns
  <2>1. CASE UNCHANGED conn
    BY <1>0, <2>1 DEF InUse
  <2>2. CASE \E state \in {"none", "waiting"} : conn' = [conn EXCEPT !["main"] = state]
    BY <1>0, <2>2, NoConnectionTaken DEF IInv
  <2> QED
    BY <1>2, <2>1, <2>2
<1>4. \A u \in Users \ {"main"} : conn'[u] = conn[u]
  BY <1>0, <1>2
<1>5. /\ main' \in {"migrate", "ssh", "collect", "close", "exited"}
      /\ status' = status \/ status' = "1"
      /\ server' = server \/ server' = "starting"
  BY DEF Main, StartUp, MigrateOk, MigrateFails, SshOk, SshFails, CollectorReturned, PoolClosed,
         Close, loopVars
<1>6. /\ migrated' \in BOOLEAN /\ (migrated => migrated')
      /\ ready' \in BOOLEAN /\ pruner' \in BOOLEAN /\ closed' \in BOOLEAN
      /\ main' \in {"ssh", "collect"} => migrated'
      /\ ready' \/ pruner' => migrated'
  <2>1. CASE StartUp
    BY <1>0, <2>1 DEF StartUp, IInv, SchemaOK, LifecycleAssumption
  <2>2. CASE MigrateOk
    BY <1>0, <2>2 DEF MigrateOk
  <2>3. CASE MigrateFails \/ SshFails \/ CollectorReturned \/ PoolClosed
    <3>1. main' \in {"close", "exited"} /\ UNCHANGED <<migrated, ready, pruner>>
      BY <2>3 DEF MigrateFails, SshFails, CollectorReturned, PoolClosed, Close
    <3>2. closed' = closed \/ closed' = TRUE
      BY <2>3 DEF MigrateFails, SshFails, CollectorReturned, PoolClosed, Close
    <3>3. closed' \in BOOLEAN
      BY <1>0, <3>2
    <3> QED
      BY <1>0, <3>1, <3>3 DEF IInv, SchemaOK
  <2>4. CASE SshOk
    BY <1>0, <2>4 DEF SshOk, IInv, SchemaOK
  <2> QED
    BY <2>1, <2>2, <2>3, <2>4 DEF Main
<1>7. TypeOK'
  <2>1. status' \in {"running", "0", "1"}
    BY <1>0, <1>5 DEF LoopTypeOK
  <2>2. LoopTypeOK'
    BY <1>0, <1>1, <2>1 DEF LoopTypeOK
  <2>3. server' \in {"off", "starting", "serving", "failed", "shutdown"}
    BY <1>0, <1>5
  <2> QED
    BY <1>0, <1>1, <1>3, <1>5, <1>6, <2>2, <2>3 DEF TypeOK
<1>8. SchemaOK'
  BY <1>4, <1>5, <1>6, OwnUsers DEF IInv, SchemaOK, WorksOnMigratedSchema
<1>9. RequestOK'
  BY <1>1, <1>4, <1>6, OwnUsers DEF IInv, RequestOK
<1>10. OutcomeOK'
  BY <1>1, <1>5, <1>6 DEF IInv, OutcomeOK
<1> QED
  BY <1>7, <1>8, <1>9, <1>10 DEF IInv

\* The steps of the loop keep its types, and end with status 0 only with
\* everyone accounted for and no error.
LEMMA LoopSteps ==
    ASSUME LoopTypeOK, OutcomeOK,
           \/ PollsEnd \/ EndRound \/ NextRound \/ Return \/ Cancel
           \/ \E l \in Lighthouses : Account(l)
    PROVE  /\ LoopTypeOK'
           /\ status' = "0" =>
                phase' = "returned" /\ (cancelled' \/ (accounted' = Lighthouses /\ ~failed'))
           /\ once' = once /\ (cancelled => cancelled')
<1>0. once \in BOOLEAN /\ failed \in BOOLEAN /\ cancelled \in BOOLEAN
      /\ phase \in {"polling", "saving", "idle", "returned"} /\ accounted \subseteq Lighthouses
      /\ status \in {"running", "0", "1"}
  BY DEF LoopTypeOK
<1> DEFINE Goal ==
      /\ LoopTypeOK'
      /\ status' = "0" =>
           phase' = "returned" /\ (cancelled' \/ (accounted' = Lighthouses /\ ~failed'))
      /\ once' = once /\ (cancelled => cancelled')
<1>1. ASSUME NEW l \in Lighthouses, Account(l) PROVE Goal
  <2>1. (cancelled' = cancelled \/ cancelled' = TRUE) /\ (failed' = failed \/ failed' = TRUE)
    BY <1>1 DEF Account
  <2>2. failed' \in BOOLEAN
    BY <1>0, <2>1
  <2>4. cancelled' \in BOOLEAN /\ (cancelled => cancelled')
    <3>1. CASE cancelled' = TRUE
      BY <3>1
    <3>2. CASE cancelled' = cancelled
      BY <1>0, <3>2
    <3> QED
      BY <2>1, <3>1, <3>2
  <2>3. UNCHANGED <<once, phase, status>> /\ accounted' \subseteq Lighthouses /\ phase = "saving"
    BY <1>0, <1>1 DEF Account
  <2> QED
    BY <1>0, <2>2, <2>3, <2>4 DEF LoopTypeOK, OutcomeOK
<1>2. ASSUME EndRound PROVE Goal
  <2>1. failed' = failed \/ failed' = TRUE
    BY <1>2 DEF EndRound
  <2>2. failed' \in BOOLEAN
    BY <1>0, <2>1
  <2>3. UNCHANGED <<once, accounted, cancelled>> /\ (accounted = Lighthouses \/ cancelled)
        /\ phase = "saving"
    BY <1>2 DEF EndRound
  <2>4. \/ phase' = "returned" /\ status' \in {"0", "1"} /\ (status' = "0" => ~failed' \/ cancelled)
        \/ phase' = "idle" /\ status' = status
    BY <1>2 DEF EndRound, Outcome
  <2> QED
    BY <1>0, <2>2, <2>3, <2>4 DEF LoopTypeOK, OutcomeOK
<1>3. ASSUME NextRound PROVE Goal
  BY <1>0, <1>3 DEF NextRound, LoopTypeOK, OutcomeOK
<1>4. ASSUME Return PROVE Goal
  BY <1>0, <1>4 DEF Return, LoopTypeOK
<1>5. ASSUME Cancel PROVE Goal
  BY <1>0, <1>5 DEF Cancel, LoopTypeOK, OutcomeOK
<1>6. ASSUME PollsEnd PROVE Goal
  BY <1>0, <1>6 DEF PollsEnd, LoopTypeOK, OutcomeOK
<1> QED
  BY <1>1, <1>2, <1>3, <1>4, <1>5, <1>6

\* What the collector, the pruner and the server do with the pool.
PoolStep(u) ==
    UNCHANGED conn \/ \E state \in {"none", "waiting"} : conn' = [conn EXCEPT ![u] = state]

LEMMA PoolSteps ==
    ASSUME TypeOK, NEW u \in Users, PoolStep(u)
    PROVE  /\ conn' \in [Users -> {"none", "waiting", "held"}]
           /\ Cardinality(InUse') <= MaxConns
           /\ \A v \in Users \ {u} : conn'[v] = conn[v]
<1>0. conn \in [Users -> {"none", "waiting", "held"}] /\ Cardinality(InUse) <= MaxConns
  BY DEF TypeOK
<1>1. CASE UNCHANGED conn
  BY <1>0, <1>1 DEF InUse
<1>2. CASE \E state \in {"none", "waiting"} : conn' = [conn EXCEPT ![u] = state]
  BY <1>0, <1>2, NoConnectionTaken
<1> QED
  BY <1>1, <1>2 DEF PoolStep

\* A step of the collector, or a signal: the loop moves, and one connection.
LEMMA LoopInvariant ==
    ASSUME IInv, main # "exited",
           \/ CollectorPolls \/ CollectorBegins \/ CollectorFinishes
           \/ CollectorMoves \/ CollectorStops \/ Signal
    PROVE  IInv'
<1>0. "collector" \in Users
  BY OwnUsers
<1>1. UNCHANGED <<mainVars, server, req, pruner, closed>> /\ PoolStep("collector")
  BY DEF CollectorPolls, CollectorBegins, CollectorFinishes, CollectorMoves, CollectorStops,
         Signal, PoolStep, Begin, Finish
<1>2. conn' = conn \/ migrated
  BY DEF CollectorPolls, CollectorBegins, CollectorFinishes, CollectorMoves, CollectorStops,
         Signal, IInv, SchemaOK
<1>3. /\ LoopTypeOK'
      /\ status' = "0" =>
           phase' = "returned" /\ (cancelled' \/ (accounted' = Lighthouses /\ ~failed'))
  <2>1. CASE CollectorBegins
    BY <2>1 DEF CollectorBegins, IInv, TypeOK, LoopTypeOK, OutcomeOK, loopVars
  <2>2. CASE ~CollectorBegins
    <3>1. \/ PollsEnd \/ EndRound \/ NextRound \/ Return \/ Cancel
          \/ \E l \in Lighthouses : Account(l)
      BY <2>2 DEF CollectorPolls, CollectorFinishes, CollectorMoves, CollectorStops, Signal
    <3> QED
      BY <3>1, LoopSteps DEF IInv, TypeOK
  <2> QED
    BY <2>1, <2>2
<1>4. status' = "0" => migrated
  <2>1. CASE Signal \/ CollectorBegins
    BY <2>1 DEF Signal, Cancel, CollectorBegins, loopVars, IInv, OutcomeOK
  <2>2. CASE main = "collect"
    BY <2>2 DEF IInv, SchemaOK
  <2> QED
    BY <2>1, <2>2 DEF CollectorPolls, CollectorFinishes, CollectorMoves, CollectorStops
<1>5. /\ conn' \in [Users -> {"none", "waiting", "held"}]
      /\ Cardinality(InUse') <= MaxConns
      /\ \A v \in Users \ {"collector"} : conn'[v] = conn[v]
  BY <1>0, <1>1, PoolSteps DEF IInv
<1>6. TypeOK'
  BY <1>1, <1>3, <1>5 DEF IInv, TypeOK, mainVars
<1>7. SchemaOK'
  BY <1>1, <1>2, <1>5, OwnUsers DEF IInv, SchemaOK, WorksOnMigratedSchema, mainVars
<1>8. RequestOK'
  BY <1>1, <1>5, OwnUsers DEF IInv, RequestOK, mainVars
<1>9. OutcomeOK'
  BY <1>1, <1>3, <1>4 DEF OutcomeOK, mainVars
<1> QED
  BY <1>6, <1>7, <1>8, <1>9 DEF IInv

LEMMA PrunerInvariant ==
    ASSUME IInv, main # "exited", PrunerBegins \/ PrunerFinishes \/ PrunerReturns
    PROVE  IInv'
<1>0. "pruner" \in Users /\ conn \in [Users -> {"none", "waiting", "held"}]
  BY OwnUsers DEF IInv, TypeOK
<1>1. UNCHANGED <<loopVars, mainVars, server, req, closed>> /\ PoolStep("pruner")
  BY DEF PrunerBegins, PrunerFinishes, PrunerReturns, PoolStep, Begin, Finish
<1>2. pruner' = pruner \/ pruner' = FALSE
  BY DEF PrunerBegins, PrunerFinishes, PrunerReturns
<1>3. conn'["pruner"] # "none" => migrated
  BY <1>0 DEF PrunerBegins, PrunerFinishes, PrunerReturns, Begin, Finish, IInv, SchemaOK,
              WorksOnMigratedSchema
<1>4. /\ conn' \in [Users -> {"none", "waiting", "held"}]
      /\ Cardinality(InUse') <= MaxConns
      /\ \A v \in Users \ {"pruner"} : conn'[v] = conn[v]
  BY <1>0, <1>1, PoolSteps DEF IInv
<1>5. TypeOK'
  <2>1. pruner' \in BOOLEAN
    BY <1>2 DEF IInv, TypeOK
  <2>2. LoopTypeOK'
    BY <1>1 DEF IInv, TypeOK, LoopTypeOK, loopVars
  <2> QED
    BY <1>1, <1>4, <2>1, <2>2 DEF IInv, TypeOK, mainVars
<1>6. SchemaOK'
  BY <1>1, <1>2, <1>3, <1>4, OwnUsers DEF IInv, SchemaOK, WorksOnMigratedSchema, mainVars
<1>7. RequestOK'
  BY <1>1, <1>4, OwnUsers DEF IInv, RequestOK, mainVars
<1>8. OutcomeOK'
  BY <1>1 DEF IInv, OutcomeOK, mainVars, loopVars
<1> QED
  BY <1>5, <1>6, <1>7, <1>8 DEF IInv

\* A step of the server.
LEMMA ListenerInvariant ==
    ASSUME IInv, main # "exited", Listen \/ Shutdown PROVE IInv'
<1>1. /\ UNCHANGED <<loopVars, mainVars, req, pruner, conn, closed>>
      /\ server' \in {"serving", "failed", "shutdown"}
  BY DEF Listen, Shutdown
<1>2. TypeOK'
  BY <1>1 DEF IInv, TypeOK, LoopTypeOK, InUse, loopVars, mainVars
<1>3. RequestOK'
  BY <1>1 DEF IInv, RequestOK, mainVars
<1> QED
  BY <1>1, <1>2, <1>3, OthersStandStill

\* A context that ends changes no type.
LEMMA GoneType ==
    ASSUME NEW K, NEW A, NEW x \in [kind : K, gone : BOOLEAN, answer : A]
    PROVE  [x EXCEPT !.gone = TRUE] \in [kind : K, gone : BOOLEAN, answer : A]
OBVIOUS

\* A step of a request.
LEMMA ServerInvariant ==
    ASSUME IInv, main # "exited", NEW r \in Requests,
           \/ Readyz(r) \/ PrometheusSD(r) \/ Answer(r) \/ TimesOut(r) \/ ClientGone(r)
    PROVE  IInv'
<1>0. /\ r \in Users /\ conn \in [Users -> {"none", "waiting", "held"}]
      /\ req \in [Requests -> Request] /\ req[r] \in Request
      /\ server \in {"off", "starting", "serving", "failed", "shutdown"}
  BY OwnUsers DEF IInv, TypeOK
<1>1. UNCHANGED <<loopVars, mainVars, pruner, closed>> /\ PoolStep(r)
  BY DEF Readyz, PrometheusSD, Answer, TimesOut, ClientGone, PoolStep, Begin, Finish
<1>2. server' = server
  BY DEF Readyz, PrometheusSD, Answer, TimesOut, ClientGone
<1>3. /\ conn' \in [Users -> {"none", "waiting", "held"}]
      /\ Cardinality(InUse') <= MaxConns
      /\ \A v \in Users \ {r} : conn'[v] = conn[v]
  BY <1>0, <1>1, PoolSteps DEF IInv
<1>4. \E q \in Request :
        /\ req' = [req EXCEPT ![r] = q]
        /\ conn'[r] # "none" => q.answer = 0 /\ (q.kind = "readyz" => migrated)
  <2>2. CASE Readyz(r)
    <3> DEFINE q == [kind |-> "readyz", gone |-> FALSE, answer |-> IF ready THEN 0 ELSE 503]
    <3>1. q \in Request /\ req' = [req EXCEPT ![r] = q]
      BY <2>2 DEF Readyz, Request
    <3>2. conn'[r] # "none" => ready
      BY <2>2 DEF Readyz
    <3>3. ready => migrated
      BY DEF IInv, SchemaOK
    <3>4. ready => q.answer = 0
      OBVIOUS
    <3> HIDE DEF q
    <3> QED
      BY <3>1, <3>2, <3>3, <3>4
  <2>3. CASE PrometheusSD(r)
    <3> DEFINE q == [kind |-> "prometheus-sd", gone |-> FALSE, answer |-> 0]
    <3>1. q \in Request /\ req' = [req EXCEPT ![r] = q] /\ q.answer = 0 /\ q.kind # "readyz"
      BY <2>3 DEF PrometheusSD, Request
    <3> HIDE DEF q
    <3> QED
      BY <3>1
  <2>4. CASE Answer(r)
    <3>1. PICK ok \in BOOLEAN :
            /\ Finish(r, ok)
            /\ req' = [req EXCEPT ![r].answer =
                         IF ok THEN 200 ELSE IF req[r].kind = "readyz" THEN 503 ELSE 500]
      BY <2>4 DEF Answer
    <3> DEFINE a == IF ok THEN 200 ELSE IF req[r].kind = "readyz" THEN 503 ELSE 500
               q == [req[r] EXCEPT !.answer = a]
    <3>2. q \in Request
      BY <1>0 DEF Request
    <3>3. req' = [req EXCEPT ![r] = q]
      BY <1>0, <3>1
    <3>4. conn'[r] = "none"
      BY <1>0, <3>1 DEF Finish
    <3> HIDE DEF q, a
    <3> QED
      BY <3>2, <3>3, <3>4
  <2>5. CASE TimesOut(r) \/ ClientGone(r)
    <3> DEFINE q == [req[r] EXCEPT !.gone = TRUE]
    <3>1. q \in Request /\ q.answer = req[r].answer /\ q.kind = req[r].kind
      <4>1. q \in Request
        <5>1. req[r] \in Request
          BY <1>0
        <5> DEFINE K == {"readyz", "prometheus-sd"}
                   A == {0, 200, 500, 503}
        <5>2. Request = [kind : K, gone : BOOLEAN, answer : A]
          BY DEF Request
        <5> HIDE DEF K, A
        <5> QED
          BY <5>1, <5>2, GoneType
      <4>2. q.answer = req[r].answer /\ q.kind = req[r].kind
        BY <1>0 DEF Request
      <4> QED
        BY <4>1, <4>2
    <3>2. req' = [req EXCEPT ![r] = q] /\ conn' = conn
      BY <1>0, <2>5 DEF TimesOut, ClientGone
    <3> HIDE DEF q
    <3> QED
      BY <3>1, <3>2 DEF IInv, RequestOK
  <2> QED
    BY <2>2, <2>3, <2>4, <2>5
<1>5. TypeOK'
  <2>1. req' \in [Requests -> Request]
    BY <1>0, <1>4
  <2>2. server' \in {"off", "starting", "serving", "failed", "shutdown"}
    BY <1>0, <1>2
  <2>3. LoopTypeOK'
    BY <1>1 DEF IInv, TypeOK, LoopTypeOK, loopVars
  <2> QED
    BY <1>1, <1>3, <2>1, <2>2, <2>3 DEF IInv, TypeOK, mainVars
<1>6. RequestOK'
  BY <1>0, <1>1, <1>3, <1>4, OwnUsers DEF IInv, RequestOK, mainVars
<1>7. \A u \in {"collector", "pruner"} : conn'[u] = conn[u]
  BY <1>3, OwnUsers
<1> QED
  BY <1>1, <1>5, <1>6, <1>7, OthersStandStill

\* IInv holds in every reachable state.
LEMMA InductiveInvariant == Spec => []IInv
<1>1. Init => IInv
  BY InitInvariant
<1>2. IInv /\ [Next]_vars => IInv'
  <2> SUFFICES ASSUME IInv, [Next]_vars PROVE IInv'
    OBVIOUS
  <2>1. CASE UNCHANGED vars
    <3>1. InUse' = InUse
      BY <2>1 DEF vars, InUse
    <3>2. TypeOK'
      BY <2>1, <3>1 DEF IInv, TypeOK, LoopTypeOK, vars, loopVars, mainVars
    <3>3. SchemaOK' /\ RequestOK'
      BY <2>1 DEF IInv, SchemaOK, WorksOnMigratedSchema, RequestOK, vars, mainVars
    <3>4. OutcomeOK'
      BY <2>1 DEF IInv, OutcomeOK, vars, loopVars, mainVars
    <3> QED
      BY <3>2, <3>3, <3>4 DEF IInv
  <2>2. ASSUME main # "exited", Main \/ Signal \/ Goroutines PROVE IInv'
    <3>1. CASE Main
      BY <2>2, <3>1, MainInvariant
    <3>2. CASE \/ CollectorPolls \/ CollectorBegins \/ CollectorFinishes
               \/ CollectorMoves \/ CollectorStops \/ Signal
      BY <2>2, <3>2, LoopInvariant
    <3>3. CASE PrunerBegins \/ PrunerFinishes \/ PrunerReturns
      BY <2>2, <3>3, PrunerInvariant
    <3>4. ASSUME NEW u \in Users, Acquire(u) PROVE IInv'
      BY <2>2, <3>4, AcquireInvariant
    <3>5. ASSUME NEW r \in Requests,
                 \/ Readyz(r) \/ PrometheusSD(r) \/ Answer(r) \/ TimesOut(r) \/ ClientGone(r)
          PROVE  IInv'
      BY <2>2, <3>5, ServerInvariant
    <3>6. CASE Listen \/ Shutdown
      BY <2>2, <3>6, ListenerInvariant
    <3> QED
      BY <2>2, <3>1, <3>2, <3>3, <3>4, <3>5, <3>6 DEF Goroutines
  <2> QED
    BY <2>1, <2>2 DEF Next, Exited
<1> QED
  BY <1>1, <1>2, PTL DEF Spec

-----------------------------------------------------------------------------
(***************************************************************************)
(* The properties of the run                                               *)
(***************************************************************************)
\* Every variable keeps its type and the pool gives out no more connections than
\* pool_max_conns, with any number of users.
THEOREM TypeCorrect == Spec => []TypeOK
BY InductiveInvariant, PTL DEF IInv

\* main.go starts the collector and the pruner after migrate.Run only.
THEOREM MigrationsFirst == Spec => []WorksOnMigratedSchema
<1>1. IInv => WorksOnMigratedSchema
  BY DEF IInv, SchemaOK
<1> QED
  BY <1>1, InductiveInvariant, PTL

\* run in main.go returns 0 from --once only when the work is done, unless a
\* signal came in.
THEOREM ZeroMeansDone == Spec => []ExitZeroMeansDone
<1>1. IInv => ExitZeroMeansDone
  BY DEF IInv, OutcomeOK, ExitZeroMeansDone
<1> QED
  BY <1>1, InductiveInvariant, PTL

\* A 200 of /readyz is given by a ping that has a connection, after the
\* migrations.
THEOREM ReadyzTellsTheTruth == Spec => ReadyzTruthful
<1>1. ASSUME IInv, Next, NEW r \in Requests,
             req'[r].kind = "readyz", req'[r].answer = 200, req'[r] # req[r]
      PROVE  migrated /\ conn[r] = "held"
  <2>0. req \in [Requests -> Request] /\ req[r] \in Request
    BY <1>1 DEF IInv, TypeOK
  <2>1. PICK q \in Requests :
          Readyz(q) \/ PrometheusSD(q) \/ Answer(q) \/ TimesOut(q) \/ ClientGone(q)
    <3>1. req' # req
      BY <1>1
    <3>2. ~Main /\ ~Signal
      BY <3>1 DEF Main, StartUp, MigrateOk, MigrateFails, SshOk, SshFails, CollectorReturned,
                  PoolClosed, Close, Signal
    <3>3. /\ ~CollectorPolls /\ ~CollectorBegins /\ ~CollectorFinishes /\ ~CollectorMoves
          /\ ~CollectorStops
          /\ ~PrunerBegins /\ ~PrunerFinishes /\ ~PrunerReturns /\ ~Listen /\ ~Shutdown
      BY <3>1 DEF CollectorPolls, CollectorBegins, CollectorFinishes, CollectorMoves, CollectorStops,
                  PrunerBegins, PrunerFinishes, PrunerReturns, Listen, Shutdown
    <3>4. \A u \in Users : ~Acquire(u)
      BY <3>1 DEF Acquire
    <3>5. ~Exited
      BY <3>1 DEF Exited, vars
    <3> QED
      BY <1>1, <3>2, <3>3, <3>4, <3>5 DEF Next, Goroutines
  <2>2. q = r
    <3>1. \E x : req' = [req EXCEPT ![q] = x]
      BY <2>0, <2>1 DEF Readyz, PrometheusSD, Answer, TimesOut, ClientGone
    <3> QED
      BY <1>1, <2>0, <3>1
  <2>3. ~Readyz(r)
    BY <1>1, <2>0 DEF Readyz
  <2>4. ~PrometheusSD(r)
    BY <1>1, <2>0 DEF PrometheusSD
  <2>5. ~TimesOut(r) /\ ~ClientGone(r)
    <3>1. conn[r] # "none" => req[r].answer = 0
      BY <1>1 DEF IInv, RequestOK
    <3>2. ASSUME req' = [req EXCEPT ![r].gone = TRUE] PROVE req'[r].answer = req[r].answer
      BY <2>0, <3>2 DEF Request
    <3> QED
      BY <1>1, <3>1, <3>2 DEF TimesOut, ClientGone
  <2>6. Answer(r)
    BY <2>1, <2>2, <2>3, <2>4, <2>5
  <2>7. PICK ok \in BOOLEAN :
          /\ Finish(r, ok)
          /\ req' = [req EXCEPT ![r].answer =
                       IF ok THEN 200 ELSE IF req[r].kind = "readyz" THEN 503 ELSE 500]
    BY <2>6 DEF Answer
  <2>8. req'[r].answer = IF ok THEN 200 ELSE IF req[r].kind = "readyz" THEN 503 ELSE 500
    BY <2>0, <2>7 DEF Request
  <2>9. conn[r] = "held"
    BY <1>1, <2>7, <2>8 DEF Finish
  <2>10. req[r].kind = "readyz"
    BY <1>1, <2>0, <2>7 DEF Request
  <2> QED
    BY <1>1, <2>9, <2>10 DEF IInv, RequestOK
<1>2. IInv /\ [Next]_vars =>
        [\A r \in Requests :
            req'[r].kind = "readyz" /\ req'[r].answer = 200 /\ req'[r] # req[r]
            => migrated /\ conn[r] = "held"]_vars
  BY <1>1
<1> QED
  BY <1>2, InductiveInvariant, PTL DEF Spec, ReadyzTruthful
=============================================================================
