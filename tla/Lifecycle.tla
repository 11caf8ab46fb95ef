------------------------------- MODULE Lifecycle -------------------------------
(***************************************************************************)
(* The process (cmd/nebula-mnemosina/main.go, run): it starts the HTTP     *)
(* server, migrates the database, becomes ready, starts the pruner and     *)
(* runs the collector; when that returns it closes the connection pool and *)
(* exits.  Migrations, collector, pruner and HTTP requests share the pool. *)
(*                                                                         *)
(* The collector is CollectorLoop, of which every result and every refresh *)
(* now is a statement that needs a connection.  The database may answer a  *)
(* statement, fail it, or never answer; then only the context of the       *)
(* statement ends it.                                                      *)
(***************************************************************************)
EXTENDS CollectorLoop, Naturals, FiniteSets

CONSTANTS
    Requests,       \* bound: HTTP requests at a time
    HTTP,           \* --http-enabled
    Migrate,        \* --migrate
    MaxConns        \* pool_max_conns

ASSUME LifecycleAssumption ==
    /\ IsFiniteSet(Requests)
    /\ Requests \cap {"main", "collector", "pruner"} = {}
    /\ {HTTP, Migrate} \subseteq BOOLEAN
    /\ MaxConns \in Nat \ {0}

VARIABLES
    main,           \* where run is
    migrated,       \* migrate.Run has returned nil, or is not asked for
    ready,          \* the atomic flag behind /readyz
    server,         \* the HTTP server
    req,            \* the requests
    pruner,         \* the goroutine of Pruner.Run is there
    conn,           \* what each user of the pool has of it
    closed          \* pool.Close was called

mainVars == <<main, migrated, ready>>
vars == <<loopVars, mainVars, server, req, pruner, conn, closed>>

Users == {"main", "collector", "pruner"} \cup Requests

\* gone: the request's context is done.  answer: 0 until there is one.
Request == [kind : {"readyz", "prometheus-sd"}, gone : BOOLEAN, answer : {0, 200, 500, 503}]

NoRequest == [kind |-> "readyz", gone |-> FALSE, answer |-> 200]

Init ==
    /\ LoopInit
    /\ main = "start"
    /\ migrated = ~Migrate
    /\ ready = FALSE
    /\ server = "off"
    /\ req = [r \in Requests |-> NoRequest]
    /\ pruner = FALSE
    /\ conn = [u \in Users |-> "none"]
    /\ closed = FALSE

-----------------------------------------------------------------------------
(***************************************************************************)
(* The pool                                                                *)
(***************************************************************************)
InUse == {u \in Users : conn[u] = "held"}

\* Mutant: Prune is called with a context of its own.
PrunerDetached(u) ==
    IF u \in Requests THEN req[u].gone ELSE u # "pruner" /\ cancelled

\* Mutant: the handlers query under a context of their own.
HandlersDetached(u) == u \notin Requests /\ cancelled

\* Migrations, collector and pruner run under the root context, a request
\* under its own.
ContextDone(u) == IF u \in Requests THEN req[u].gone ELSE cancelled

\* pool.Exec, Query and Begin: first a connection has to be had.
Begin(u) ==
    /\ conn[u] = "none"
    /\ conn' = [conn EXCEPT ![u] = "waiting"]

\* Mutant: a connection of one's own, as without the pool.
Connect(u) ==
    /\ conn[u] = "waiting"
    /\ ~closed /\ ~ContextDone(u)
    /\ conn' = [conn EXCEPT ![u] = "held"]
    /\ UNCHANGED <<loopVars, mainVars, server, req, pruner, closed>>

Acquire(u) ==
    /\ conn[u] = "waiting"
    /\ ~closed /\ ~ContextDone(u)
    /\ Cardinality(InUse) < MaxConns
    /\ conn' = [conn EXCEPT ![u] = "held"]
    /\ UNCHANGED <<loopVars, mainVars, server, req, pruner, closed>>

\* The call returns: the database has answered, or it failed the statement or
\* the connection, or the context is done, or the pool is closed.
Finish(u, ok) ==
    /\ conn[u] \in IF ok THEN {"held"} ELSE {"held", "waiting"}
    /\ conn' = [conn EXCEPT ![u] = "none"]

-----------------------------------------------------------------------------
(***************************************************************************)
(* run                                                                     *)
(***************************************************************************)
\* Mutant: ready is set when the server starts.
StartReady ==
    /\ main = "start"
    /\ server' = IF HTTP THEN "starting" ELSE server
    /\ main' = IF Migrate THEN "migrate" ELSE "ssh"
    /\ IF Migrate THEN Begin("main") ELSE UNCHANGED conn
    /\ ready' = TRUE
    /\ UNCHANGED <<loopVars, migrated, req, pruner, closed>>

\* httpserver.Start, then migrate.Run or not.
StartUp ==
    /\ main = "start"
    /\ server' = IF HTTP THEN "starting" ELSE server
    /\ main' = IF Migrate THEN "migrate" ELSE "ssh"
    /\ IF Migrate THEN Begin("main") ELSE UNCHANGED conn
    /\ ready' = ~Migrate
    /\ UNCHANGED <<loopVars, migrated, req, pruner, closed>>

\* run is over: its deferred pool.Close.
Close ==
    /\ main' = "close"
    /\ closed' = TRUE

\* migrate.Run returns nil; ready.Store(true).
MigrateOk ==
    /\ main = "migrate"
    /\ Finish("main", TRUE)
    /\ main' = "ssh"
    /\ migrated' = TRUE
    /\ ready' = TRUE
    /\ UNCHANGED <<loopVars, server, req, pruner, closed>>

\* Mutant: the error is only logged.
MigrateErrorLogged ==
    /\ main = "migrate"
    /\ Finish("main", FALSE)
    /\ main' = "ssh"
    /\ ready' = TRUE
    /\ UNCHANGED <<loopVars, migrated, server, req, pruner, closed>>

MigrateFails ==
    /\ main = "migrate"
    /\ Finish("main", FALSE)
    /\ Close
    /\ status' = "1"
    /\ UNCHANGED <<once, phase, accounted, failed, cancelled, migrated, ready,
                   server, req, pruner>>

\* sshclient.New, then the pruner unless --once, and collector.Run.
SshOk ==
    /\ main = "ssh"
    /\ main' = "collect"
    /\ pruner' = ~once
    /\ UNCHANGED <<loopVars, migrated, ready, server, req, conn, closed>>

SshFails ==
    /\ main = "ssh"
    /\ Close
    /\ status' = "1"
    /\ UNCHANGED <<once, phase, accounted, failed, cancelled, migrated, ready,
                   server, req, pruner, conn>>

CollectorReturned ==
    /\ main = "collect" /\ phase = "returned"
    /\ Close
    /\ UNCHANGED <<loopVars, migrated, ready, server, req, pruner, conn>>

\* pool.Close, of which pgxpool says that it waits until every connection has been
\* given back.
PoolClosed ==
    /\ main = "close"
    /\ InUse = {}
    /\ main' = "exited"
    /\ UNCHANGED <<loopVars, migrated, ready, server, req, pruner, conn, closed>>

\* SIGINT or SIGTERM.  A second one changes nothing: NotifyContext still
\* catches it.
Signal == Cancel /\ UNCHANGED <<mainVars, server, req, pruner, conn, closed>>

Main ==
    \/ StartUp \/ MigrateOk \/ MigrateFails \/ SshOk \/ SshFails
    \/ CollectorReturned \/ PoolClosed

-----------------------------------------------------------------------------
(***************************************************************************)
(* The collector: a statement for every result, one for the views          *)
(***************************************************************************)
\* The goroutines of the round, which do not use the pool, have returned.
CollectorPolls ==
    /\ main = "collect"
    /\ PollsEnd
    /\ UNCHANGED <<mainVars, server, req, pruner, conn, closed>>

CollectorBegins ==
    /\ main = "collect" /\ phase = "saving"
    /\ Begin("collector")
    /\ UNCHANGED <<loopVars, mainVars, server, req, pruner, closed>>

\* SavePollResult or RefreshGrafanaViews returns; a signal may be the reason.
CollectorFinishes ==
    /\ main = "collect"
    /\ \E ok \in BOOLEAN :
          /\ Finish("collector", ok)
          /\ \/ \E l \in Lighthouses : Account(l)
             \/ EndRound
          /\ failed' = (failed \/ ~ok)
    /\ UNCHANGED <<mainVars, server, req, pruner, closed>>

\* The collector goes on without the store: no view to refresh, or goroutines
\* that left no result after a signal; the ticker; ctx.Done.
CollectorMoves ==
    /\ main = "collect" /\ conn["collector"] = "none"
    /\ \/ EndRound /\ failed' = failed
       \/ NextRound
    /\ UNCHANGED <<mainVars, server, req, pruner, conn, closed>>

CollectorStops ==
    /\ main = "collect"
    /\ Return
    /\ UNCHANGED <<mainVars, server, req, pruner, conn, closed>>

-----------------------------------------------------------------------------
(***************************************************************************)
(* The pruner: Prune, a statement at a time, and the select of Run         *)
(***************************************************************************)
PrunerBegins ==
    /\ pruner
    /\ Begin("pruner")
    /\ UNCHANGED <<loopVars, mainVars, server, req, pruner, closed>>

PrunerFinishes ==
    /\ \E ok \in BOOLEAN : Finish("pruner", ok)
    /\ UNCHANGED <<loopVars, mainVars, server, req, pruner, closed>>

PrunerReturns ==
    /\ pruner /\ cancelled
    /\ conn["pruner"] = "none"
    /\ pruner' = FALSE
    /\ UNCHANGED <<loopVars, mainVars, server, req, conn, closed>>

-----------------------------------------------------------------------------
(***************************************************************************)
(* The HTTP server                                                         *)
(***************************************************************************)
\* ListenAndServe, whose error is only logged.
Listen ==
    /\ server = "starting"
    /\ server' \in {"serving", "failed"}
    /\ UNCHANGED <<loopVars, mainVars, req, pruner, conn, closed>>

\* server.Shutdown: no more requests; those that are there go on.
Shutdown ==
    /\ cancelled
    /\ server \in {"starting", "serving"}
    /\ server' = "shutdown"
    /\ UNCHANGED <<loopVars, mainVars, req, pruner, conn, closed>>

\* GET /readyz: 503 at once until ready, then a ping.
Readyz(r) ==
    /\ server = "serving" /\ conn[r] = "none"
    /\ req' = [req EXCEPT ![r] = [kind |-> "readyz", gone |-> FALSE,
                                  answer |-> IF ready THEN 0 ELSE 503]]
    /\ IF ready THEN Begin(r) ELSE UNCHANGED conn
    /\ UNCHANGED <<loopVars, mainVars, server, pruner, closed>>

\* GET /prometheus-sd, ready or not.
PrometheusSD(r) ==
    /\ server = "serving"
    /\ Begin(r)
    /\ req' = [req EXCEPT ![r] = [kind |-> "prometheus-sd", gone |-> FALSE, answer |-> 0]]
    /\ UNCHANGED <<loopVars, mainVars, server, pruner, closed>>

\* Ping or ListPresentHostmapPeers returns.
Answer(r) ==
    /\ \E ok \in BOOLEAN :
          /\ Finish(r, ok)
          /\ req' = [req EXCEPT ![r].answer =
                        IF ok THEN 200 ELSE IF req[r].kind = "readyz" THEN 503 ELSE 500]
    /\ UNCHANGED <<loopVars, mainVars, server, pruner, closed>>

\* Mutant: r.Context() is passed to Ping.
NoTimeout(r) == FALSE /\ UNCHANGED vars

\* context.WithTimeout(r.Context(), 2*time.Second), for /readyz only.
TimesOut(r) ==
    /\ req[r].kind = "readyz" /\ conn[r] # "none"
    /\ ~req[r].gone
    /\ req' = [req EXCEPT ![r].gone = TRUE]
    /\ UNCHANGED <<loopVars, mainVars, server, pruner, conn, closed>>

\* The client hangs up, which ends r.Context().
ClientGone(r) ==
    /\ req[r].kind = "prometheus-sd" /\ conn[r] # "none"
    /\ ~req[r].gone
    /\ req' = [req EXCEPT ![r].gone = TRUE]
    /\ UNCHANGED <<loopVars, mainVars, server, pruner, conn, closed>>

Goroutines ==
    \/ CollectorPolls \/ CollectorBegins \/ CollectorFinishes
    \/ CollectorMoves \/ CollectorStops
    \/ PrunerBegins \/ PrunerFinishes \/ PrunerReturns
    \/ Listen \/ Shutdown
    \/ \E r \in Requests :
          Readyz(r) \/ PrometheusSD(r) \/ Answer(r) \/ TimesOut(r) \/ ClientGone(r)
    \/ \E u \in Users : Acquire(u)

Exited == main = "exited" /\ UNCHANGED vars

Next ==
    \/ main # "exited" /\ (Main \/ Signal \/ Goroutines)
    \/ Exited

Spec == Init /\ [][Next]_vars

(***************************************************************************)
(* What the code takes care of itself: run goes on, a call returns once    *)
(* its context is done or the pool closed, the ping has a timer, a         *)
(* select sees ctx.Done in the end.  The database need not answer, and     *)
(* peers need not let a round come to an end.                              *)
(***************************************************************************)
Ended(u) == ContextDone(u) \/ (closed /\ conn[u] = "waiting")

LocalFairness ==
    /\ WF_vars(StartUp) /\ WF_vars(SshOk \/ SshFails)
    /\ WF_vars(CollectorReturned) /\ WF_vars(PoolClosed)
    /\ WF_vars(cancelled /\ (MigrateOk \/ MigrateFails))
    /\ WF_vars(main # "exited" /\ cancelled /\ CollectorFinishes)
    /\ WF_vars(main # "exited" /\ EndRound /\ CollectorMoves)
    /\ SF_vars(CollectorStops)
    /\ WF_vars(main # "exited" /\ Ended("pruner") /\ PrunerFinishes)
    /\ SF_vars(main # "exited" /\ PrunerReturns)
    /\ WF_vars(main # "exited" /\ Shutdown)
    /\ \A r \in Requests :
          /\ WF_vars(main # "exited" /\ Ended(r) /\ Answer(r))
          /\ WF_vars(main # "exited" /\ TimesOut(r))

\* An assumption about lighthouses: wg.Wait returns, signal or not, only when no
\* peer stays silent in a handshake or while a session is opened, which is
\* PeerFairness of PollRound; nothing in the code sees to it.
PeerFairness == WF_vars(main # "exited" /\ CollectorPolls)

\* An assumption about HTTP clients: they have timeouts of their own.
ClientFairness == \A r \in Requests : WF_vars(main # "exited" /\ ClientGone(r))

FairSpec == Spec /\ LocalFairness /\ PeerFairness /\ ClientFairness

-----------------------------------------------------------------------------
(***************************************************************************)
(* Properties                                                              *)
(***************************************************************************)
\* Every variable has its type.
TypeOK ==
    /\ LoopTypeOK
    /\ main \in {"start", "migrate", "ssh", "collect", "close", "exited"}
    /\ {migrated, ready, pruner, closed} \subseteq BOOLEAN
    /\ server \in {"off", "starting", "serving", "failed", "shutdown"}
    /\ req \in [Requests -> Request]
    /\ conn \in [Users -> {"none", "waiting", "held"}]
    /\ Cardinality(InUse) <= MaxConns

\* README: "/readyz returns 503 until migrations finish and then checks database
\* connectivity".  Whatever the process goes through until it exits, 200 means
\* that the schema is there and that the database has answered this request.
ReadyzTruthful ==
    [][\A r \in Requests :
          req'[r].kind = "readyz" /\ req'[r].answer = 200 /\ req'[r] # req[r]
          => migrated /\ conn[r] = "held"]_vars

\* The collector and the pruner never meet a database whose migrations have
\* failed or are still running.
WorksOnMigratedSchema ==
    \A u \in {"collector", "pruner"} : conn[u] # "none" => migrated

\* With --once, exit status 0 without a signal means that the database was
\* migrated and every lighthouse accounted for without an error.
ExitZeroMeansDone ==
    main = "exited" /\ status = "0" /\ ~cancelled =>
        migrated /\ accounted = Lighthouses /\ ~failed

\* A readiness probe is answered even when the database answers nobody and all
\* connections are taken.
ReadyzAnswers ==
    \A r \in Requests :
        req[r].kind = "readyz" /\ req[r].answer = 0
        ~> (req[r].answer # 0 \/ main = "exited")

\* Once run returns, after --once or an error, the process exits, although the root
\* context is not done then, the server still takes requests, and pool.Close waits
\* for those that a database without an answer holds up.
RunReturnEndsProcess == main = "close" ~> main = "exited"

\* A signal ends the process even when the database answers nobody, in every
\* phase and whatever holds connections, as long as HTTP clients give up and the
\* lighthouses answer or hang up.
SignalEndsProcess == cancelled ~> main = "exited"

=============================================================================
