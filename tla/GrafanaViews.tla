------------------------------ MODULE GrafanaViews ------------------------------
(***************************************************************************)
(* The materialized views (db/migrations/views/001_grafana_views.sql) over *)
(* the history that PollHistory promises, and RefreshGrafanaViews, which   *)
(* refreshes them one statement after the other while the pruner and       *)
(* another process go on changing the history and refreshing, too.         *)
(*                                                                         *)
(* REFRESH MATERIALIZED VIEW is PostgreSQL's: it takes its snapshot of the *)
(* tables, waits for the lock of the view and replaces its rows.           *)
(*                                                                         *)
(* Texts are numbers, Null is NULL and the empty text.                     *)
(***************************************************************************)
EXTENDS PollHistory, SequencesExt

CONSTANTS
    Refreshers,     \* processes with --refresh-views
    Sightings,      \* what a poll may come back with
    Bucket,         \* ticks in the 5 minutes of mnemo_poll_health_5m
    PollIds,        \* bound: identifiers of polls
    MaxTime,        \* bound: ticks of the clock
    MaxMoves        \* bound: changes of the history

\* A row of lighthouse_addrmap_entries: the addresses learned for a peer,
\* compared as a whole, one row for each who reported them.
AddrmapEntry == [addr : Nat, reporter : Nat, learned : Nat]

(***************************************************************************)
(* No poll has two rows of one address and reporter.  The reporters of an  *)
(* address are the keys of a map; that an address is listed once by        *)
(* list-lighthouse-addrmap, whose output is a list, is up to Nebula, which *)
(* keeps its addresses in a map.                                           *)
(***************************************************************************)
ASSUME GrafanaViewsAssumption ==
    /\ Lighthouses \subseteq Nat \ {0}
    /\ Bucket \in Nat \ {0}
    /\ PollIds \subseteq Nat
    /\ {MaxTime, MaxMoves} \subseteq Nat
    /\ \A s \in Sightings :
          /\ s.success \in BOOLEAN /\ s.hostmap \in Seq([fingerprint : Nat, name : Nat, addr : Nat])
          /\ s.addrmap \subseteq AddrmapEntry /\ IsFiniteSet(s.addrmap)
          /\ \A e, f \in s.addrmap :
                e.addr = f.addr /\ e.reporter = f.reporter => e = f

VARIABLES
    seen,           \* what each poll came back with
    moves,          \* auxiliary: changes of the history so far
    view,           \* the rows of each view, as of which change, refreshed by whom
    todo,           \* the views that a RefreshGrafanaViews call has still to refresh
    stmt,           \* its REFRESH statement
    began,          \* auxiliary: moves when it was called, 0 between calls
    due             \* the round has saved a poll

refreshVars == <<view, todo, stmt, began, due>>
vars == <<historyVars, seen, moves, refreshVars>>

Null == 0
NothingSeen == [success |-> FALSE, hostmap |-> <<>>, addrmap |-> {}]

NoStatement == [rows |-> {}, asOf |-> -1]

-----------------------------------------------------------------------------
(***************************************************************************)
(* The views                                                               *)
(***************************************************************************)
SD == INSTANCE ServiceDiscovery WITH
    hostmap <- [id \in PollIds |-> seen[id].hostmap],
    answer <- <<>>, shown <- <<>>,
    Targets <- <<>>, HostOf <- <<>>, Hostmaps <- {}

HostmapRows == UNION {SD!Joined(r) : r \in pollRuns}

\* Mutant: ORDER BY observed_at.
OldestPeers ==
    {x \in HostmapRows :
        \A y \in HostmapRows :
            y.lighthouse = x.lighthouse /\ y.key = x.key => y = x \/ SD!RanksBefore(y, x)}

\* The newest row of every peer of a lighthouse, whatever became of its poll.
mnemo_current_peers ==
    {x \in HostmapRows :
        \A y \in HostmapRows :
            y.lighthouse = x.lighthouse /\ y.key = x.key => y = x \/ SD!RanksBefore(x, y)}

HaveAddrmap ==
    {r \in pollRuns :
        \E x \in entries : x.run = r.id /\ x.table = "lighthouse_addrmap_entries"}

AddrmapRows ==
    UNION {{[lighthouse |-> r.result.lighthouse, observedAt |-> r.result.startedAt,
             addr |-> e.addr, reporter |-> e.reporter, learned |-> e.learned] :
                e \in seen[r.id].addrmap} : r \in HaveAddrmap}

SameReporter(x, y) ==
    x.lighthouse = y.lighthouse /\ x.addr = y.addr /\ x.reporter = y.reporter

\* Mutant: WHERE row_rank = 1 is forgotten.
EveryRow == AddrmapRows

mnemo_current_lighthouse_addrmap ==
    {x \in AddrmapRows :
        \A y \in AddrmapRows : SameReporter(x, y) => y.observedAt <= x.observedAt}

PollsIn(bucket, lighthouse) ==
    {r \in pollRuns :
        r.result.startedAt \div Bucket = bucket /\ r.result.lighthouse = lighthouse}

BucketRow(b, l) ==
    [bucket |-> b, lighthouse |-> l, polls |-> Cardinality(PollsIn(b, l)),
     successful |-> Cardinality({r \in PollsIn(b, l) : r.success})]

mnemo_poll_health_5m ==
    {BucketRow(r.result.startedAt \div Bucket, r.result.lighthouse) : r \in pollRuns}

\* One row for every certificate or address.  Of its columns only the age; the
\* others are those of any row of that age.
mnemo_peer_cert_inventory ==
    {[key |-> k, observedAt |-> Max({x.observedAt : x \in {x \in HostmapRows : x.key = k}})] :
        k \in {x.key : x \in HostmapRows}}

Distinct(column, rows) == Cardinality({x[column] : x \in rows})

\* Mutant: HAVING looks at the learned sets only.
AnyTwoSets(rows) ==
    {a \in {x.addr : x \in rows} :
        LET about == {x \in rows : x.addr = a} IN Distinct("learned", about) > 1}

\* The query of mnemo_lighthouse_disagreement over the rows of the view
\* mnemo_current_lighthouse_addrmap.
Disagreement(rows) ==
    {a \in {x.addr : x \in rows} :
        LET about == {x \in rows : x.addr = a}
        IN Distinct("lighthouse", about) > 1 /\ Distinct("learned", about) > 1}

\* Mutant: in alphabetical order.
AlphabeticalViews ==
    <<"mnemo_current_peers", "mnemo_lighthouse_disagreement",
      "mnemo_current_lighthouse_addrmap", "mnemo_poll_health_5m",
      "mnemo_peer_cert_inventory">>

\* In the order of RefreshGrafanaViews.
Views ==
    <<"mnemo_current_peers", "mnemo_current_lighthouse_addrmap",
      "mnemo_poll_health_5m", "mnemo_peer_cert_inventory",
      "mnemo_lighthouse_disagreement">>

Query ==
    [mnemo_current_peers |-> mnemo_current_peers,
     mnemo_current_lighthouse_addrmap |-> mnemo_current_lighthouse_addrmap,
     mnemo_poll_health_5m |-> mnemo_poll_health_5m,
     mnemo_peer_cert_inventory |-> mnemo_peer_cert_inventory]

\* What replaces the rows of v: the snapshot of the statement, except that a
\* view over a view has what is there when the lock has been had.
Rows(v, snapshot) ==
    IF v = "mnemo_lighthouse_disagreement"
    THEN LET source == view["mnemo_current_lighthouse_addrmap"]
         IN [rows |-> Disagreement(source.rows), asOf |-> source.asOf]
    ELSE snapshot

-----------------------------------------------------------------------------
Init ==
    /\ HistoryInit
    /\ seen = [id \in PollIds |-> NothingSeen]
    /\ moves = 0
    /\ view = [v \in ToSet(Views) |-> [rows |-> {}, asOf |-> 0, by |-> Null]]
    /\ todo = [p \in Refreshers |-> <<>>]
    /\ stmt = [p \in Refreshers |-> NoStatement]
    /\ began = [p \in Refreshers |-> 0]
    /\ due = [p \in Refreshers |-> FALSE]

(***************************************************************************)
(* The steps of PollHistory                                                *)
(***************************************************************************)
Move ==
    /\ moves < MaxMoves
    /\ moves' = moves + 1

\* A poll of l that started at t.
Poll(id, l, t, success) ==
    [id |-> id, success |-> success,
     result |-> [lighthouse |-> l, startedAt |-> t, success |-> success,
                 commandsAt |-> [c \in Commands |-> t],
                 fills |-> {"hostmap_entries", "lighthouse_addrmap_entries"}]]

\* The round of p saves a poll.  Starts are known to the microsecond, so that
\* no two polls of a lighthouse have the same.
SavePollResult(p) ==
    /\ todo[p] = <<>>
    /\ Move
    /\ PollIds \ Ids(pollRuns) # {}
    /\ \E l \in Lighthouses, t \in 0..now, sighting \in Sightings :
          LET id == Min(PollIds \ Ids(pollRuns)) IN
          /\ \A r \in pollRuns : r.result.lighthouse = l => r.result.startedAt # t
          /\ Record(Poll(id, l, t, sighting.success))
          /\ seen' = [seen EXCEPT ![id] = sighting]
    /\ due' = [due EXCEPT ![p] = TRUE]
    /\ UNCHANGED <<view, todo, stmt, began>>

\* The pruner.
Prune ==
    /\ Move
    /\ ForgetRuns \/ ForgetEntries
    /\ <<pollRuns, entries>>' # <<pollRuns, entries>>
    /\ seen' = [id \in PollIds |-> IF id \in Ids(pollRuns') THEN seen[id] ELSE NothingSeen]
    /\ UNCHANGED refreshVars

Tick ==
    /\ now < MaxTime
    /\ TimePasses
    /\ UNCHANGED <<seen, moves, refreshVars>>

-----------------------------------------------------------------------------
(***************************************************************************)
(* RefreshGrafanaViews                                                     *)
(***************************************************************************)
\* saved > 0: the round of p ends with the call.
RefreshGrafanaViews(p) ==
    /\ due[p] /\ todo[p] = <<>>
    /\ due' = [due EXCEPT ![p] = FALSE]
    /\ todo' = [todo EXCEPT ![p] = Views]
    /\ began' = [began EXCEPT ![p] = moves]
    /\ UNCHANGED <<historyVars, seen, moves, view, stmt>>

\* pool.Exec: the statement takes its snapshot.
Exec(p) ==
    /\ todo[p] # <<>> /\ stmt[p] = NoStatement
    /\ stmt' = [stmt EXCEPT ![p] =
                  [asOf |-> moves,
                   rows |-> IF Head(todo[p]) \in DOMAIN Query THEN Query[Head(todo[p])] ELSE {}]]
    /\ UNCHANGED <<historyVars, seen, moves, view, todo, began, due>>

Replace(p) ==
    LET new == Rows(Head(todo[p]), stmt[p])
    IN view' = [view EXCEPT ![Head(todo[p])] =
                  [rows |-> new.rows, asOf |-> new.asOf, by |-> p]]

\* The statement has replaced the rows; on with the next one, or return nil.
Refreshed(p) ==
    /\ stmt[p] # NoStatement
    /\ Replace(p)
    /\ todo' = [todo EXCEPT ![p] = Tail(@)]
    /\ stmt' = [stmt EXCEPT ![p] = NoStatement]
    /\ began' = [began EXCEPT ![p] = IF Len(todo[p]) = 1 THEN 0 ELSE @]
    /\ UNCHANGED <<historyVars, seen, moves, due>>

\* The statement fails, or only its answer is lost: the call returns an error
\* and leaves the other views alone.  So does the death of the process.
RefreshFails(p) ==
    /\ todo[p] # <<>>
    /\ \/ UNCHANGED view
       \/ stmt[p] # NoStatement /\ Replace(p)
    /\ todo' = [todo EXCEPT ![p] = <<>>]
    /\ stmt' = [stmt EXCEPT ![p] = NoStatement]
    /\ began' = [began EXCEPT ![p] = 0]
    /\ UNCHANGED <<historyVars, seen, moves, due>>

\* Every process waits for its next round.
BetweenRounds == (\A p \in Refreshers : todo[p] = <<>> /\ ~due[p]) /\ UNCHANGED vars

Next ==
    \/ Prune \/ Tick \/ BetweenRounds
    \/ \E p \in Refreshers :
          SavePollResult(p) \/ RefreshGrafanaViews(p) \/ Exec(p) \/ Refreshed(p) \/ RefreshFails(p)

Spec == Init /\ [][Next]_vars

-----------------------------------------------------------------------------
(***************************************************************************)
(* Properties                                                              *)
(***************************************************************************)
\* Every variable has its type; a materialized view has at most one row for
\* its unique key, without which REFRESH would fail on the unique index.
TypeOK ==
    /\ moves \in 0..MaxMoves
    /\ \A id \in PollIds : seen[id].addrmap \subseteq AddrmapEntry
    /\ \A v \in ToSet(Views) :
          view[v].asOf \in 0..moves /\ view[v].by \in Refreshers \cup {Null}
    /\ todo \in [Refreshers -> {SubSeq(Views, k, Len(Views)) : k \in 1..Len(Views) + 1}]
    /\ began \in [Refreshers -> 0..moves]
    /\ due \in [Refreshers -> BOOLEAN]
    /\ \A x, y \in view["mnemo_current_peers"].rows :
          x.lighthouse = y.lighthouse /\ x.key = y.key => x = y
    /\ \A x, y \in view["mnemo_current_lighthouse_addrmap"].rows : SameReporter(x, y) => x = y

\* RefreshGrafanaViews returned nil: no view shows the history as it was before
\* the call, though they are refreshed one by one and one is computed from
\* another; as long as no other process, whose statement may have an older
\* snapshot, has written one of them in the meantime.
RefreshedIsFresh ==
    [][\A p \in Refreshers :
          Refreshed(p) /\ Len(todo[p]) = 1 /\ (\A v \in ToSet(Views) : view'[v].by = p) =>
              \A v \in ToSet(Views) : view'[v].asOf >= began[p]]_vars

Current(v) == view[v].asOf = moves

\* What Grafana shows agrees with what Prometheus is told: every present peer
\* of the service discovery is in a current mnemo_current_peers, as seen by the
\* same lighthouse no earlier.
PresentPeersInView ==
    Current("mnemo_current_peers") =>
        \A x \in SD!FirstOfEachPeer :
            \E y \in view["mnemo_current_peers"].rows :
                /\ y.lighthouse = x.lighthouse /\ y.key = x.key
                /\ y.observedAt >= x.observedAt

\* The addrmap rows of r are in the history, e is one of them, and nothing newer
\* is known from that lighthouse of the same address and reporter.
LastWord(r, e) ==
    /\ r \in HaveAddrmap /\ e \in seen[r.id].addrmap
    /\ \A s \in HaveAddrmap : \A f \in seen[s.id].addrmap :
          /\ s.result.lighthouse = r.result.lighthouse
          /\ f.addr = e.addr /\ f.reporter = e.reporter
          => s.result.startedAt <= r.result.startedAt

\* A current mnemo_lighthouse_disagreement shows the addresses of which two
\* lighthouses have last learned different things, no more and no less: not
\* those of which one lighthouse has heard different things by itself.
DisagreementExact ==
    Current("mnemo_lighthouse_disagreement") =>
        view["mnemo_lighthouse_disagreement"].rows =
            UNION {{e.addr : e \in {e \in seen[r.id].addrmap :
                /\ LastWord(r, e)
                /\ \E s \in pollRuns : \E f \in seen[s.id].addrmap :
                      /\ LastWord(s, f) /\ f.addr = e.addr
                      /\ s.result.lighthouse # r.result.lighthouse
                      /\ f.learned # e.learned}} : r \in pollRuns}

=============================================================================
