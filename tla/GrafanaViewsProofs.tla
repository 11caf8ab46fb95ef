--------------------------- MODULE GrafanaViewsProofs ---------------------------
(***************************************************************************)
(* Theorems about GrafanaViews for any number of processes that refresh    *)
(* the views, any history and any sightings: a refresh leaves no view      *)
(* behind, and views that are up to date agree with the service discovery  *)
(* and show the disagreements that there are.                              *)
(***************************************************************************)
EXTENDS GrafanaViews, SetLemmas, SequenceTheorems

ViewNames == ToSet(Views)

\* The view that v is computed from, or v itself.
Addrmap == "mnemo_current_lighthouse_addrmap"

\* What the call of p has still to do once k - 1 views are done.
Rest(k) == [i \in 1..(6 - k) |-> Views[k + i - 1]]

\* The call of p is at view k, and those before it that still are as p has
\* written them are at least as new as the call.
CallAt(p, k) ==
    /\ todo[p] = Rest(k)
    /\ began[p] \in Nat /\ began[p] <= moves
    /\ stmt[p] # NoStatement => stmt[p].asOf \in Nat /\ stmt[p].asOf >= began[p]
    /\ \A j \in 1..(k - 1) :
          view[Views[j]].by = p => view[Views[j]].asOf >= began[p]

Calls ==
    \A p \in Refreshers :
        \/ todo[p] = <<>> /\ stmt[p] = NoStatement
        \/ \E k \in 1..5 : CallAt(p, k)

FreshInv ==
    /\ moves \in Nat
    /\ DOMAIN view = ViewNames
    /\ \A v \in ViewNames : view[v].asOf \in Nat
    /\ DOMAIN todo = Refreshers /\ DOMAIN stmt = Refreshers /\ DOMAIN began = Refreshers
    /\ Calls

-----------------------------------------------------------------------------
(***************************************************************************)
(* The order of the views                                                  *)
(***************************************************************************)
\* Five different views; the one that is computed from another one is last.
LEMMA ViewsOrder ==
    /\ Len(Views) = 5
    /\ \A i, j \in 1..5 : Views[i] = Views[j] => i = j
    /\ ViewNames = {Views[j] : j \in 1..5}
    /\ Views[2] = Addrmap
    /\ Views[5] = "mnemo_lighthouse_disagreement"
<1>1. Len(Views) = 5 /\ DOMAIN Views = 1..5
  BY DEF Views
<1>2. \A i, j \in 1..5 : Views[i] = Views[j] => i = j
  BY DEF Views
<1>3. ViewNames = {Views[j] : j \in 1..5}
  BY <1>1 DEF ViewNames, ToSet
<1>4. Views[2] = Addrmap /\ Views[5] = "mnemo_lighthouse_disagreement"
  BY DEF Views, Addrmap
<1> QED
  BY <1>1, <1>2, <1>3, <1>4

\* The statements of a call, one after the other.
LEMMA RestSteps ==
    /\ Rest(1) = Views
    /\ \A k \in 1..5 :
          /\ Rest(k) # <<>> /\ Len(Rest(k)) = 6 - k
          /\ Head(Rest(k)) = Views[k]
          /\ Tail(Rest(k)) = IF k = 5 THEN <<>> ELSE Rest(k + 1)
<1>1. \A k \in 1..5 : Rest(k) \in Seq(ViewNames) /\ Len(Rest(k)) = 6 - k
  BY ViewsOrder DEF Rest
<1>2. Rest(1) = Views
  BY DEF Rest, Views
<1>3. ASSUME NEW k \in 1..5
      PROVE  Head(Rest(k)) = Views[k] /\ Rest(k) # <<>>
  <2>1. 1 \in 1..(6 - k) /\ k + 1 - 1 = k
    OBVIOUS
  <2>2. Rest(k)[1] = Views[k]
    BY <2>1 DEF Rest
  <2>3. Rest(k) # <<>>
    BY <1>1, <1>3
  <2> QED
    BY <1>1, <2>2, <2>3
<1>4. ASSUME NEW k \in 1..5
      PROVE  Tail(Rest(k)) = IF k = 5 THEN <<>> ELSE Rest(k + 1)
  BY <1>1, <1>4 DEF Rest
<1> QED
  BY <1>1, <1>2, <1>3, <1>4

-----------------------------------------------------------------------------
(***************************************************************************)
(* The invariant                                                           *)
(***************************************************************************)
\* No call is under way at first.
LEMMA FreshInvInit == Init => FreshInv
  BY DEF Init, FreshInv, Calls, ViewNames

\* A step that changes neither the views nor the calls, and takes no move back.
LEMMA CallsUnchanged ==
    ASSUME FreshInv, moves' \in Nat, moves' >= moves,
           UNCHANGED <<view, todo, stmt, began>>
    PROVE  FreshInv'
  BY DEF FreshInv, Calls, CallAt, Rest
\* RefreshGrafanaViews: nothing is done yet.
LEMMA CallBegins ==
    ASSUME FreshInv, NEW p \in Refreshers, RefreshGrafanaViews(p)
    PROVE  FreshInv'
<1>1. moves' = moves /\ view' = view /\ stmt' = stmt /\ todo[p] = <<>>
  BY DEF RefreshGrafanaViews
<1>2. todo'[p] = Views /\ began'[p] = moves
  BY DEF FreshInv, RefreshGrafanaViews
<1>3. stmt[p] = NoStatement
  BY <1>1, RestSteps DEF FreshInv, Calls, CallAt
<1>4. CallAt(p, 1)'
  BY <1>1, <1>2, <1>3, RestSteps DEF FreshInv, CallAt, Rest
<1>5. ASSUME NEW q \in Refreshers, q # p
      PROVE  \/ todo'[q] = <<>> /\ stmt'[q] = NoStatement
             \/ \E k \in 1..5 : CallAt(q, k)'
  <2>1. todo'[q] = todo[q] /\ began'[q] = began[q]
    BY <1>5 DEF FreshInv, RefreshGrafanaViews
  <2>2. \A k \in 1..5 : CallAt(q, k) => CallAt(q, k)'
    BY <1>1, <2>1 DEF CallAt, Rest
  <2> QED
    BY <1>1, <2>1, <2>2 DEF FreshInv, Calls
<1>6. Calls'
  BY <1>4, <1>5 DEF Calls
<1> QED
  BY <1>1, <1>6 DEF FreshInv, RefreshGrafanaViews

\* Exec: the snapshot is taken after the call began.
LEMMA SnapshotTaken ==
    ASSUME FreshInv, NEW p \in Refreshers, Exec(p)
    PROVE  FreshInv'
<1>1. moves' = moves /\ view' = view /\ todo' = todo /\ began' = began
  BY DEF Exec
<1>2. stmt'[p].asOf = moves
  BY DEF FreshInv, Exec
<1>3. PICK k \in 1..5 : CallAt(p, k)
  BY DEF FreshInv, Calls, Exec
<1>4. CallAt(p, k)'
  BY <1>1, <1>2, <1>3 DEF FreshInv, CallAt, Rest
<1>5. ASSUME NEW q \in Refreshers, q # p
      PROVE  stmt'[q] = stmt[q]
  BY <1>5 DEF FreshInv, Exec
<1>6. Calls'
  BY <1>1, <1>4, <1>5 DEF FreshInv, Calls, CallAt, Rest
<1> QED
  BY <1>1, <1>6 DEF FreshInv, Exec

\* The rows that p puts in its k-th view are as new as its call, unless they
\* are computed from a view that another process has written since.
LEMMA ReplacedRows ==
    ASSUME FreshInv, NEW p \in Refreshers, NEW k \in 1..5, CallAt(p, k),
           stmt[p] # NoStatement, Replace(p)
    PROVE  /\ DOMAIN view' = ViewNames
           /\ \A v \in ViewNames : view'[v].asOf \in Nat
           /\ view'[Views[k]].by = p
           /\ k < 5 \/ view[Addrmap].by = p => view'[Views[k]].asOf >= began[p]
           /\ \A v \in ViewNames : v # Views[k] => view'[v] = view[v]
<1> DEFINE new == Rows(Views[k], stmt[p])
<1>1. Head(todo[p]) = Views[k] /\ Views[k] \in ViewNames
  BY RestSteps, ViewsOrder DEF CallAt
<1>2. view' = [view EXCEPT ![Views[k]] =
                 [rows |-> new.rows, asOf |-> new.asOf, by |-> p]]
  BY <1>1 DEF Replace
<1>3. new.asOf = IF k = 5 THEN view[Addrmap].asOf ELSE stmt[p].asOf
  BY ViewsOrder DEF Rows, Addrmap
<1>4. Addrmap \in ViewNames
  BY ViewsOrder
<1>5. new.asOf \in Nat
  BY <1>3, <1>4 DEF FreshInv, CallAt
<1>6. k < 5 \/ view[Addrmap].by = p => new.asOf >= began[p]
  BY <1>3, ViewsOrder DEF CallAt
<1> HIDE DEF new
<1>7. /\ view'[Views[k]].asOf = new.asOf /\ view'[Views[k]].by = p
      /\ DOMAIN view' = ViewNames
      /\ \A v \in ViewNames : v # Views[k] => view'[v] = view[v]
  BY <1>1, <1>2 DEF FreshInv
<1> QED
  BY <1>5, <1>6, <1>7 DEF FreshInv

\* The calls of the other processes: a view that p writes is no longer theirs.
LEMMA OthersUnmoved ==
    ASSUME FreshInv, NEW p \in Refreshers, NEW k \in 1..5,
           view'[Views[k]].by = p,
           \A v \in ViewNames : v # Views[k] => view'[v] = view[v],
           moves' = moves,
           NEW q \in Refreshers, q # p, NEW l \in 1..5, CallAt(q, l),
           todo'[q] = todo[q], stmt'[q] = stmt[q], began'[q] = began[q]
    PROVE  CallAt(q, l)'
<1>1. ASSUME NEW j \in 1..(l - 1), view'[Views[j]].by = q
      PROVE  view'[Views[j]].asOf >= began[q]
  <2>1. j \in 1..5 /\ Views[j] \in ViewNames
    BY ViewsOrder
  <2>2. Views[j] # Views[k]
    BY <1>1
  <2>3. view'[Views[j]] = view[Views[j]]
    BY <2>1, <2>2
  <2> QED
    BY <1>1, <2>3 DEF CallAt
<1> QED
  BY <1>1 DEF CallAt, Rest

\* Refreshed: on with the next view, or the end of the call.
LEMMA ViewRefreshed ==
    ASSUME FreshInv, NEW p \in Refreshers, Refreshed(p)
    PROVE  FreshInv'
<1>1. moves' = moves /\ stmt[p] # NoStatement /\ Replace(p)
  BY DEF Refreshed
<1>2. PICK k \in 1..5 : CallAt(p, k)
  BY <1>1 DEF FreshInv, Calls
<1>3. /\ todo'[p] = (IF k = 5 THEN <<>> ELSE Rest(k + 1))
      /\ stmt'[p] = NoStatement
      /\ k < 5 => began'[p] = began[p]
  <2>1. /\ todo'[p] = Tail(todo[p]) /\ stmt'[p] = NoStatement
        /\ began'[p] = IF Len(todo[p]) = 1 THEN 0 ELSE began[p]
    BY DEF FreshInv, Refreshed
  <2>2. todo[p] = Rest(k)
    BY <1>2 DEF CallAt
  <2>3. Len(todo[p]) = 6 - k
    BY <2>2, RestSteps
  <2>4. Tail(todo[p]) = IF k = 5 THEN <<>> ELSE Rest(k + 1)
    BY <2>2, RestSteps
  <2> QED
    BY <2>1, <2>3, <2>4
<1>4. /\ DOMAIN view' = ViewNames
      /\ \A v \in ViewNames : view'[v].asOf \in Nat
      /\ view'[Views[k]].by = p
      /\ k < 5 => view'[Views[k]].asOf >= began[p]
      /\ \A v \in ViewNames : v # Views[k] => view'[v] = view[v]
  BY <1>1, <1>2, ReplacedRows
<1>5. ASSUME k < 5
      PROVE  CallAt(p, k + 1)'
  <2>1. /\ todo'[p] = Rest(k + 1) /\ stmt'[p] = NoStatement /\ began'[p] = began[p]
        /\ began[p] \in Nat /\ began[p] <= moves
    BY <1>2, <1>3, <1>5 DEF CallAt
  <2>2. ASSUME NEW j \in 1..k, view'[Views[j]].by = p
        PROVE  view'[Views[j]].asOf >= began[p]
    <3>1. CASE j = k
      BY <1>4, <1>5, <3>1
    <3>2. CASE j # k
      <4>1. j \in 1..(k - 1) /\ j \in 1..5
        BY <3>2
      <4>2. Views[j] \in ViewNames /\ Views[j] # Views[k]
        BY <3>2, <4>1, ViewsOrder
      <4> QED
        BY <1>2, <1>4, <2>2, <4>1, <4>2 DEF CallAt
    <3> QED
      BY <3>1, <3>2
  <2>3. k + 1 - 1 = k
    OBVIOUS
  <2> QED
    BY <1>1, <2>1, <2>2, <2>3 DEF CallAt
<1>6. ASSUME NEW q \in Refreshers, q # p
      PROVE  todo'[q] = todo[q] /\ stmt'[q] = stmt[q] /\ began'[q] = began[q]
  BY <1>6 DEF FreshInv, Refreshed
<1>7. ASSUME NEW q \in Refreshers, q # p, NEW l \in 1..5, CallAt(q, l)
      PROVE  CallAt(q, l)'
  BY <1>1, <1>4, <1>6, <1>7, OthersUnmoved
<1>8. Calls'
  <2>1. k = 5 => todo'[p] = <<>> /\ stmt'[p] = NoStatement
    BY <1>3
  <2>2. k < 5 => \E l \in 1..5 : CallAt(p, l)'
    <3>1. k < 5 => k + 1 \in 1..5
      OBVIOUS
    <3> QED
      BY <1>5, <3>1
  <2>3. ASSUME NEW q \in Refreshers, q # p
        PROVE  \/ todo'[q] = <<>> /\ stmt'[q] = NoStatement
               \/ \E l \in 1..5 : CallAt(q, l)'
    <3>1. CASE todo[q] = <<>> /\ stmt[q] = NoStatement
      BY <2>3, <3>1, <1>6
    <3>2. CASE \E l \in 1..5 : CallAt(q, l)
      BY <2>3, <3>2, <1>7
    <3> QED
      BY <3>1, <3>2 DEF FreshInv, Calls
  <2>4. \A q \in Refreshers :
           \/ todo'[q] = <<>> /\ stmt'[q] = NoStatement
           \/ \E l \in 1..5 : CallAt(q, l)'
    <3>1. k = 5 \/ k < 5
      OBVIOUS
    <3> QED
      BY <2>1, <2>2, <2>3, <3>1
  <2> QED
    BY <2>4 DEF Calls
<1> QED
  BY <1>1, <1>4, <1>8 DEF FreshInv, Refreshed

\* RefreshFails: whatever became of its statement, the call is over.
LEMMA CallFailed ==
    ASSUME FreshInv, NEW p \in Refreshers, RefreshFails(p)
    PROVE  FreshInv'
<1>1. moves' = moves /\ todo[p] # <<>>
  BY DEF RefreshFails
<1>2. PICK k \in 1..5 : CallAt(p, k)
  BY <1>1 DEF FreshInv, Calls
<1>3. todo'[p] = <<>> /\ stmt'[p] = NoStatement
  BY DEF FreshInv, RefreshFails
<1>4. ASSUME NEW q \in Refreshers, q # p
      PROVE  todo'[q] = todo[q] /\ stmt'[q] = stmt[q] /\ began'[q] = began[q]
  BY <1>4 DEF FreshInv, RefreshFails
<1>5. /\ DOMAIN todo' = Refreshers /\ DOMAIN stmt' = Refreshers
      /\ DOMAIN began' = Refreshers
  BY DEF FreshInv, RefreshFails
<1>6. ASSUME view' = view
      PROVE  FreshInv'
  BY <1>1, <1>3, <1>4, <1>5, <1>6 DEF FreshInv, Calls, CallAt, Rest
<1>7. ASSUME stmt[p] # NoStatement, Replace(p)
      PROVE  FreshInv'
  <2>1. /\ DOMAIN view' = ViewNames
        /\ \A v \in ViewNames : view'[v].asOf \in Nat
        /\ view'[Views[k]].by = p
        /\ \A v \in ViewNames : v # Views[k] => view'[v] = view[v]
    BY <1>2, <1>7, ReplacedRows
  <2>2. ASSUME NEW q \in Refreshers, q # p, NEW l \in 1..5, CallAt(q, l)
        PROVE  CallAt(q, l)'
    BY <1>1, <1>4, <2>1, <2>2, OthersUnmoved
  <2>3. Calls'
    BY <1>3, <1>4, <2>2 DEF FreshInv, Calls
  <2> QED
    BY <1>1, <1>5, <2>1, <2>3 DEF FreshInv
<1> QED
  BY <1>6, <1>7 DEF RefreshFails

LEMMA FreshInvStep == FreshInv /\ [Next]_vars => FreshInv'
<1> SUFFICES ASSUME FreshInv, [Next]_vars
             PROVE  FreshInv'
  OBVIOUS
<1>1. CASE Prune
  BY <1>1, CallsUnchanged DEF Prune, Move, refreshVars, FreshInv
<1>2. CASE Tick
  BY <1>2, CallsUnchanged DEF Tick, refreshVars, FreshInv
<1>3. CASE BetweenRounds \/ UNCHANGED vars
  BY <1>3, CallsUnchanged DEF BetweenRounds, vars, refreshVars, FreshInv
<1>4. ASSUME NEW p \in Refreshers, SavePollResult(p)
      PROVE  FreshInv'
  BY <1>4, CallsUnchanged DEF SavePollResult, Move, FreshInv
<1> QED
  BY <1>1, <1>2, <1>3, <1>4, CallBegins, SnapshotTaken, ViewRefreshed, CallFailed
     DEF Next

-----------------------------------------------------------------------------
\* What RefreshedIsFresh says of one step.
LEMMA FreshAtReturn ==
    ASSUME FreshInv, NEW p \in Refreshers, Refreshed(p), Len(todo[p]) = 1,
           \A v \in ViewNames : view'[v].by = p
    PROVE  \A v \in ViewNames : view'[v].asOf >= began[p]
<1>1. stmt[p] # NoStatement /\ Replace(p)
  BY DEF Refreshed
<1>2. PICK k \in 1..5 : CallAt(p, k)
  BY <1>1 DEF FreshInv, Calls
<1>3. k = 5
  <2>1. todo[p] = Rest(k)
    BY <1>2 DEF CallAt
  <2>2. Len(todo[p]) = 6 - k
    BY <2>1, RestSteps
  <2>3. 6 - k = 1
    BY <2>2
  <2> QED
    BY <2>3
<1>4. /\ view[Addrmap].by = p => view'[Views[5]].asOf >= began[p]
      /\ \A v \in ViewNames : v # Views[5] => view'[v] = view[v]
  BY <1>1, <1>2, <1>3, ReplacedRows
<1>5. Addrmap \in ViewNames /\ Addrmap # Views[5]
  BY ViewsOrder
<1>6. view'[Views[5]].asOf >= began[p]
  BY <1>4, <1>5
<1>7. ASSUME NEW j \in 1..4
      PROVE  view'[Views[j]].asOf >= began[p]
  BY <1>2, <1>3, <1>4, <1>7, ViewsOrder DEF CallAt
<1> QED
  BY <1>6, <1>7, ViewsOrder

\* When RefreshGrafanaViews returns nil no view shows the history as it was
\* before the call, the one computed from another view included.
THEOREM RefreshReturnsFresh == Spec => RefreshedIsFresh
<1>1. FreshInv /\ [Next]_vars =>
        [\A p \in Refreshers :
            Refreshed(p) /\ Len(todo[p]) = 1 /\ (\A v \in ToSet(Views) : view'[v].by = p) =>
                \A v \in ToSet(Views) : view'[v].asOf >= began[p]]_vars
  BY FreshAtReturn DEF ViewNames
<1>2. Spec => []FreshInv
  BY FreshInvInit, FreshInvStep, PTL DEF Spec
<1> QED
  BY <1>1, <1>2, PTL DEF Spec, RefreshedIsFresh

-----------------------------------------------------------------------------
(***************************************************************************)
(* What the views hold                                                     *)
(***************************************************************************)
\* Polls have identifiers and starts of their own, and what they have seen is
\* what the commands may come back with.
HistoryOK ==
    /\ now \in Nat
    /\ pollRuns \subseteq PollRun /\ IsFiniteSet(pollRuns)
    /\ \A r \in pollRuns : r.id \in PollIds /\ r.result.startedAt <= now
    /\ \A r, s \in pollRuns : r.id = s.id => r = s
    /\ \A r, s \in pollRuns :
          /\ r.result.lighthouse = s.result.lighthouse
          /\ r.result.startedAt = s.result.startedAt
          => r = s
    /\ DOMAIN seen = PollIds
    /\ \A id \in PollIds : seen[id] = NothingSeen \/ seen[id] \in Sightings

\* The rows have the unique key of the view v.
Keyed(v, rows) ==
    /\ v = "mnemo_current_peers" =>
          \A x, y \in rows : x.lighthouse = y.lighthouse /\ x.key = y.key => x = y
    /\ v = Addrmap => \A x, y \in rows : SameReporter(x, y) => x = y

\* The rows are those of the view v when its queries have these answers.
Answers(v, rows, peers, addrmap) ==
    /\ v = "mnemo_current_peers" => rows = peers
    /\ v = Addrmap => rows = addrmap
    /\ v = "mnemo_lighthouse_disagreement" => rows = Disagreement(addrmap)

\* A view that has been refreshed since the history last changed shows it.
ViewsOK ==
    \A v \in ViewNames :
        /\ view[v].asOf <= moves /\ view[v].by \in Refreshers \cup {Null}
        /\ Keyed(v, view[v].rows)
        /\ view[v].asOf = moves =>
              Answers(v, view[v].rows, mnemo_current_peers, mnemo_current_lighthouse_addrmap)

\* So does the snapshot of a statement, but for the view over a view.
StatementsOK ==
    \A p \in Refreshers : stmt[p] # NoStatement =>
        /\ stmt[p].asOf <= moves
        /\ Keyed(Head(todo[p]), stmt[p].rows)
        /\ stmt[p].asOf = moves /\ Head(todo[p]) # "mnemo_lighthouse_disagreement" =>
              Answers(Head(todo[p]), stmt[p].rows,
                      mnemo_current_peers, mnemo_current_lighthouse_addrmap)

Bounded ==
    /\ moves \in 0..MaxMoves
    /\ began \in [Refreshers -> 0..moves]
    /\ due \in [Refreshers -> BOOLEAN]
    /\ todo = [p \in Refreshers |-> todo[p]]

IInv == FreshInv /\ HistoryOK /\ ViewsOK /\ StatementsOK /\ Bounded


USE PeriodAssumption, GrafanaViewsAssumption

\* The row of mnemo_current_peers' query for the entry at k of the poll r.
PeerRow(r, k) ==
    [key |-> SD!peer_key(seen[r.id].hostmap[k]), entry |-> seen[r.id].hostmap[k],
     index |-> k, lighthouse |-> r.result.lighthouse, observedAt |-> r.result.startedAt]

LEMMA PollTypes ==
    ASSUME HistoryOK, NEW r \in pollRuns
    PROVE  /\ r.id \in PollIds /\ r.result.startedAt \in Nat
           /\ r.result.lighthouse \in Lighthouses /\ r.result.lighthouse \in Nat
           /\ seen[r.id].hostmap \in Seq([fingerprint : Nat, name : Nat, addr : Nat])
           /\ seen[r.id].addrmap \subseteq AddrmapEntry /\ IsFiniteSet(seen[r.id].addrmap)
           /\ \A e, f \in seen[r.id].addrmap :
                 e.addr = f.addr /\ e.reporter = f.reporter => e = f
<1>1. r.id \in PollIds /\ r.result \in Result
  BY DEF HistoryOK, PollRun
<1>2. r.result.startedAt \in Nat /\ r.result.lighthouse \in Lighthouses
  BY <1>1 DEF Result
<1>3. CASE seen[r.id] = NothingSeen
  <2>1. seen[r.id].hostmap = <<>> /\ seen[r.id].addrmap = {}
    BY <1>3 DEF NothingSeen
  <2>2. <<>> \in Seq([fingerprint : Nat, name : Nat, addr : Nat])
    OBVIOUS
  <2>3. IsFiniteSet(seen[r.id].addrmap)
    BY <2>1, FS_EmptySet
  <2> QED
    BY <1>1, <1>2, <2>1, <2>2, <2>3
<1>4. CASE seen[r.id] \in Sightings
  BY <1>1, <1>2, <1>4
<1> QED
  BY <1>1, <1>3, <1>4 DEF HistoryOK

LEMMA PeerRows ==
    ASSUME HistoryOK, NEW x \in HostmapRows
    PROVE  \E r \in pollRuns : \E k \in DOMAIN seen[r.id].hostmap :
              /\ x = PeerRow(r, k)
              /\ x.index = k /\ x.lighthouse = r.result.lighthouse
              /\ x.observedAt = r.result.startedAt
              /\ x.index \in Nat /\ x.lighthouse \in Nat /\ x.observedAt \in Nat
<1>1. PICK r \in pollRuns : x \in SD!Joined(r)
  BY DEF HostmapRows
<1>2. r.id \in PollIds
  BY DEF HistoryOK
<1>3. PICK k \in DOMAIN seen[r.id].hostmap : x = PeerRow(r, k)
  BY <1>1, <1>2 DEF SD!Joined, PeerRow
<1>4. x.index = k /\ x.lighthouse = r.result.lighthouse /\ x.observedAt = r.result.startedAt
  BY <1>3 DEF PeerRow
<1>5. k \in Nat
  BY <1>2, PollTypes
<1> QED
  BY <1>3, <1>4, <1>5, PollTypes

\* No two rows of a lighthouse have the same age and index.
LEMMA PeerRowsApart ==
    ASSUME HistoryOK, NEW x \in HostmapRows, NEW y \in HostmapRows,
           x.lighthouse = y.lighthouse, x.observedAt = y.observedAt, x.index = y.index
    PROVE  x = y
<1>1. PICK r \in pollRuns : \E k \in DOMAIN seen[r.id].hostmap :
         /\ x = PeerRow(r, k) /\ x.index = k
         /\ x.lighthouse = r.result.lighthouse /\ x.observedAt = r.result.startedAt
  BY PeerRows
<1>2. PICK s \in pollRuns : \E k \in DOMAIN seen[s.id].hostmap :
         /\ y = PeerRow(s, k) /\ y.index = k
         /\ y.lighthouse = s.result.lighthouse /\ y.observedAt = s.result.startedAt
  BY PeerRows
<1>3. r = s
  BY <1>1, <1>2 DEF HistoryOK
<1> QED
  BY <1>1, <1>2, <1>3

\* row_number: of the rows of a peer and a lighthouse exactly one is first, and
\* none is newer.
LEMMA CurrentPeers ==
    ASSUME HistoryOK
    PROVE  /\ Keyed("mnemo_current_peers", mnemo_current_peers)
           /\ \A z \in HostmapRows : \E x \in mnemo_current_peers :
                 /\ x.lighthouse = z.lighthouse /\ x.key = z.key
                 /\ x.observedAt >= z.observedAt
<1>t. \A z \in HostmapRows : z.index \in Nat /\ z.lighthouse \in Nat /\ z.observedAt \in Nat
  BY PeerRows
<1>1. ASSUME NEW x \in mnemo_current_peers, NEW y \in mnemo_current_peers,
             x.lighthouse = y.lighthouse, x.key = y.key
      PROVE  x = y
  <2>1. x \in HostmapRows /\ y \in HostmapRows
    BY DEF mnemo_current_peers
  <2>2. (y = x \/ SD!RanksBefore(x, y)) /\ (x = y \/ SD!RanksBefore(y, x))
    BY <1>1, <2>1 DEF mnemo_current_peers
  <2> QED
    BY <1>t, <2>1, <2>2 DEF SD!RanksBefore
<1>2. ASSUME NEW z \in HostmapRows
      PROVE  \E x \in mnemo_current_peers :
                /\ x.lighthouse = z.lighthouse /\ x.key = z.key
                /\ x.observedAt >= z.observedAt
  <2> DEFINE Same == {y \in HostmapRows : y.lighthouse = z.lighthouse /\ y.key = z.key}
             Ages == {now - y.observedAt : y \in Same}
  <2>1. PICK a \in Same : \A y \in Same : a.observedAt >= y.observedAt
    <3>1. \A y \in Same : now - y.observedAt \in Nat /\ y.observedAt \in Nat
      <4> TAKE y \in Same
      <4>1. PICK r \in pollRuns : y.observedAt = r.result.startedAt
        BY PeerRows
      <4> QED
        BY <1>t, <4>1 DEF HistoryOK
    <3>2. Ages \in SUBSET Nat /\ Ages # {}
      BY <3>1
    <3>3. PICK d \in Ages : \A e \in Ages : d <= e
      <4> HIDE DEF Ages
      <4> QED
        BY <3>2, LeastNatural
    <3>4. PICK a \in Same : d = now - a.observedAt
      BY <3>3
    <3>5. \A y \in Same : now - a.observedAt <= now - y.observedAt
      BY <3>3, <3>4
    <3>6. now \in Nat
      BY DEF HistoryOK
    <3>7. \A y \in Same : a.observedAt >= y.observedAt
      BY <3>1, <3>5, <3>6
    <3> QED
      BY <3>7
  <2> DEFINE Newest == {y \in Same : y.observedAt = a.observedAt}
             Places == {y.index : y \in Newest}
  <2>2. PICK x \in Newest : \A y \in Newest : x.index <= y.index
    <3>1. Places \in SUBSET Nat /\ Places # {}
      BY <1>t, <2>1
    <3>2. PICK i \in Places : \A j \in Places : i <= j
      <4> HIDE DEF Places
      <4> QED
        BY <3>1, LeastNatural
    <3>3. PICK x \in Newest : i = x.index
      BY <3>2
    <3> QED
      BY <3>2, <3>3
  <2>3. /\ x \in HostmapRows /\ x.lighthouse = z.lighthouse /\ x.key = z.key
        /\ x.observedAt = a.observedAt
    BY <2>2
  <2>4. ASSUME NEW y \in HostmapRows, y.lighthouse = x.lighthouse, y.key = x.key
        PROVE  y = x \/ SD!RanksBefore(x, y)
    <3>1. y \in Same
      BY <2>3, <2>4
    <3>2. CASE y.observedAt # x.observedAt
      BY <1>t, <2>1, <2>3, <3>1, <3>2 DEF SD!RanksBefore
    <3>3. CASE y.observedAt = x.observedAt /\ y.index # x.index
      <4>1. x.index <= y.index
        BY <2>2, <2>3, <3>1, <3>3
      <4> QED
        BY <1>t, <2>3, <2>4, <3>3, <4>1 DEF SD!RanksBefore
    <3>4. CASE y.observedAt = x.observedAt /\ y.index = x.index
      BY <2>3, <2>4, <3>4, PeerRowsApart
    <3> QED
      BY <3>2, <3>3, <3>4
  <2>5. x \in mnemo_current_peers
    BY <2>3, <2>4 DEF mnemo_current_peers
  <2>6. z \in Same
    OBVIOUS
  <2> QED
    BY <2>1, <2>3, <2>5, <2>6
<1> QED
  BY <1>1, <1>2 DEF Keyed, Addrmap


\* The row of lighthouse_addrmap_entries for the entry e of the poll r.
AddrmapRow(r, e) ==
    [lighthouse |-> r.result.lighthouse, observedAt |-> r.result.startedAt,
     addr |-> e.addr, reporter |-> e.reporter, learned |-> e.learned]

LEMMA AddrmapRowFields ==
    ASSUME NEW r, NEW e
    PROVE  LET x == AddrmapRow(r, e) IN
           /\ x.lighthouse = r.result.lighthouse /\ x.observedAt = r.result.startedAt
           /\ x.addr = e.addr /\ x.reporter = e.reporter /\ x.learned = e.learned
  BY DEF AddrmapRow

LEMMA AddrmapRowsOf ==
    /\ \A x \in AddrmapRows : \E r \in HaveAddrmap : \E e \in seen[r.id].addrmap :
          x = AddrmapRow(r, e)
    /\ \A r \in HaveAddrmap : \A e \in seen[r.id].addrmap : AddrmapRow(r, e) \in AddrmapRows
    /\ HaveAddrmap \subseteq pollRuns
  BY DEF AddrmapRows, AddrmapRow, HaveAddrmap

\* The newest row of each address and reporter of a lighthouse is one.
LEMMA CurrentAddrmapKeyed ==
    ASSUME HistoryOK
    PROVE  Keyed(Addrmap, mnemo_current_lighthouse_addrmap)
<1>1. ASSUME NEW x \in mnemo_current_lighthouse_addrmap,
             NEW y \in mnemo_current_lighthouse_addrmap, SameReporter(x, y)
      PROVE  x = y
  <2>1. x \in AddrmapRows /\ y \in AddrmapRows /\ SameReporter(y, x)
    BY <1>1 DEF mnemo_current_lighthouse_addrmap, SameReporter
  <2>2. y.observedAt <= x.observedAt /\ x.observedAt <= y.observedAt
    BY <1>1, <2>1 DEF mnemo_current_lighthouse_addrmap
  <2>3. PICK r \in HaveAddrmap : \E e \in seen[r.id].addrmap : x = AddrmapRow(r, e)
    BY <2>1, AddrmapRowsOf
  <2>4. PICK e \in seen[r.id].addrmap : x = AddrmapRow(r, e)
    BY <2>3
  <2>5. PICK s \in HaveAddrmap : \E f \in seen[s.id].addrmap : y = AddrmapRow(s, f)
    BY <2>1, AddrmapRowsOf
  <2>6. PICK f \in seen[s.id].addrmap : y = AddrmapRow(s, f)
    BY <2>5
  <2>7. /\ r.result.lighthouse = s.result.lighthouse
        /\ e.addr = f.addr /\ e.reporter = f.reporter
        /\ s.result.startedAt <= r.result.startedAt /\ r.result.startedAt <= s.result.startedAt
    BY <1>1, <2>2, <2>4, <2>6, AddrmapRowFields DEF SameReporter
  <2>8. r \in pollRuns /\ s \in pollRuns
    BY AddrmapRowsOf
  <2>9. r.result.startedAt = s.result.startedAt
    BY <2>7, <2>8, PollTypes
  <2>10. r = s
    BY <2>7, <2>8, <2>9 DEF HistoryOK
  <2>11. e = f
    BY <2>7, <2>8, <2>10, PollTypes
  <2> QED
    BY <2>4, <2>6, <2>10, <2>11
<1> QED
  BY <1>1 DEF Keyed, Addrmap

LEMMA AddrmapFinite ==
    ASSUME HistoryOK
    PROVE  IsFiniteSet(mnemo_current_lighthouse_addrmap)
<1>1. IsFiniteSet(HaveAddrmap)
  <2>1. HaveAddrmap \in SUBSET pollRuns /\ IsFiniteSet(pollRuns)
    BY AddrmapRowsOf DEF HistoryOK
  <2> QED
    BY <2>1, FS_Subset
<1> DEFINE rowsOf == [r \in HaveAddrmap |-> {AddrmapRow(r, e) : e \in seen[r.id].addrmap}]
           sets == {rowsOf[r] : r \in DOMAIN rowsOf}
<1>2. IsFiniteSet(sets)
  <2>1. DOMAIN rowsOf = HaveAddrmap /\ rowsOf = [r \in DOMAIN rowsOf |-> rowsOf[r]]
    OBVIOUS
  <2> HIDE DEF rowsOf
  <2> QED
    BY <1>1, <2>1, FiniteImage
<1>3. ASSUME NEW r \in HaveAddrmap
      PROVE  IsFiniteSet({AddrmapRow(r, e) : e \in seen[r.id].addrmap})
  <2> DEFINE rows == [e \in seen[r.id].addrmap |-> AddrmapRow(r, e)]
             image == {rows[e] : e \in DOMAIN rows}
  <2>1. IsFiniteSet(seen[r.id].addrmap)
    BY AddrmapRowsOf, PollTypes
  <2>2. DOMAIN rows = seen[r.id].addrmap /\ rows = [e \in DOMAIN rows |-> rows[e]]
    OBVIOUS
  <2>3. IsFiniteSet(image)
    <3> HIDE DEF rows
    <3> QED
      BY <2>1, <2>2, FiniteImage
  <2>4. {AddrmapRow(r, e) : e \in seen[r.id].addrmap} = image
    OBVIOUS
  <2> QED
    BY <2>3, <2>4
<1>4. \A S \in sets : IsFiniteSet(S)
  BY <1>3
<1>5. mnemo_current_lighthouse_addrmap \in SUBSET UNION sets
  BY DEF mnemo_current_lighthouse_addrmap, AddrmapRows, AddrmapRow
<1>6. IsFiniteSet(UNION sets)
  <2> HIDE DEF sets
  <2> QED
    BY <1>2, <1>4, FS_UNION
<1> HIDE DEF sets
<1> QED
  BY <1>5, <1>6, FS_Subset

\* count(DISTINCT column) > 1: there are two.
LEMMA TwoDistinct ==
    ASSUME NEW S, IsFiniteSet(S)
    PROVE  Cardinality(S) > 1 <=> \E a, b \in S : a # b
<1>1. ASSUME NEW a \in S, NEW b \in S, a # b
      PROVE  Cardinality(S) > 1
  <2>1. IsFiniteSet({a}) /\ Cardinality({a}) = 1
    BY FS_Singleton
  <2>2. Cardinality({a} \cup {b}) = 2 /\ {a} \cup {b} \in SUBSET S
    <3> DEFINE A == {a}
    <3>1. b \notin A
      BY <1>1
    <3>2. Cardinality(A \cup {b}) = IF b \in A THEN Cardinality(A) ELSE Cardinality(A) + 1
      <4> HIDE DEF A
      <4> QED
        BY <2>1, FS_AddElement DEF A
    <3>3. Cardinality(A) = 1
      BY <2>1
    <3>4. A \cup {b} \in SUBSET S
      OBVIOUS
    <3>5. Cardinality(A \cup {b}) = 2
      <4> HIDE DEF A
      <4> QED
        BY <3>1, <3>2, <3>3
    <3> QED
      BY <3>4, <3>5, Zenon
  <2>3. Cardinality({a} \cup {b}) <= Cardinality(S)
    <3> DEFINE T == {a} \cup {b}
    <3>1. T \in SUBSET S
      OBVIOUS
    <3> HIDE DEF T
    <3>2. Cardinality(T) <= Cardinality(S)
      BY <3>1, FS_Subset
    <3> QED
      BY <3>2 DEF T
  <2>4. Cardinality(S) \in Nat
    BY FS_CardinalityType
  <2>5. 2 <= Cardinality(S)
    BY <2>2, <2>3, Zenon
  <2> QED
    BY <2>4, <2>5
<1>2. ASSUME \A a, b \in S : a = b
      PROVE  ~(Cardinality(S) > 1)
  <2>1. CASE S = {}
    BY <2>1, FS_EmptySet
  <2>2. ASSUME NEW a \in S
        PROVE  Cardinality(S) = 1
    <3>1. S = {a}
      BY <1>2
    <3> QED
      BY <3>1, FS_Singleton
  <2> QED
    BY <2>1, <2>2
<1> QED
  BY <1>1, <1>2

LEMMA DistinctColumn ==
    ASSUME NEW rows, IsFiniteSet(rows), NEW column
    PROVE  Distinct(column, rows) > 1 <=> \E x, y \in rows : x[column] # y[column]
<1> DEFINE values == [x \in rows |-> x[column]]
           image == {values[x] : x \in DOMAIN values}
<1>1. DOMAIN values = rows /\ values = [x \in DOMAIN values |-> values[x]]
  OBVIOUS
<1>2. IsFiniteSet(image)
  <2> HIDE DEF values
  <2> QED
    BY <1>1, FiniteImage
<1>3. image = {x[column] : x \in rows}
  OBVIOUS
<1>4. IsFiniteSet({x[column] : x \in rows})
  BY <1>2, <1>3
<1>5. Cardinality({x[column] : x \in rows}) > 1
         <=> \E a, b \in {x[column] : x \in rows} : a # b
  BY <1>4, TwoDistinct
<1> QED
  BY <1>5 DEF Distinct


\* HAVING looks at each address as a whole: two lighthouses and two learned sets
\* are two rows that differ in both.
LEMMA DisagreementOf ==
    ASSUME NEW rows, IsFiniteSet(rows), NEW a
    PROVE  a \in Disagreement(rows) <=>
              \E x, y \in rows : /\ x.addr = a /\ y.addr = a
                                 /\ x.lighthouse # y.lighthouse /\ x.learned # y.learned
<1> DEFINE about == {x \in rows : x.addr = a}
<1>1. IsFiniteSet(about)
  <2>1. about \in SUBSET rows
    OBVIOUS
  <2> QED
    BY <2>1, FS_Subset
<1>2. a \in Disagreement(rows) <=>
         /\ \E x \in rows : x.addr = a
         /\ Distinct("lighthouse", about) > 1 /\ Distinct("learned", about) > 1
  BY DEF Disagreement
<1>3. /\ Distinct("lighthouse", about) > 1 <=> \E x, y \in about : x["lighthouse"] # y["lighthouse"]
      /\ Distinct("learned", about) > 1 <=> \E x, y \in about : x["learned"] # y["learned"]
  <2> HIDE DEF about
  <2> QED
    BY <1>1, DistinctColumn
<1>4. ASSUME NEW x \in about, NEW y \in about, x.lighthouse # y.lighthouse,
             NEW u \in about, NEW v \in about, u.learned # v.learned
      PROVE  \E z, w \in about : z.lighthouse # w.lighthouse /\ z.learned # w.learned
  <2>1. CASE u.lighthouse # v.lighthouse
    BY <1>4, <2>1
  <2>2. CASE u.lighthouse = v.lighthouse
    <3>1. PICK z \in about : z.lighthouse # u.lighthouse
      BY <1>4
    <3> QED
      BY <1>4, <2>2, <3>1
  <2> QED
    BY <2>1, <2>2
<1> QED
  BY <1>2, <1>3, <1>4

\* The rows of the view are the last words of the lighthouses.
LEMMA LastWords ==
    /\ \A x \in mnemo_current_lighthouse_addrmap :
          \E r \in pollRuns : \E e \in seen[r.id].addrmap : LastWord(r, e) /\ x = AddrmapRow(r, e)
    /\ \A r, e : LastWord(r, e) => AddrmapRow(r, e) \in mnemo_current_lighthouse_addrmap
<1>1. ASSUME NEW x \in mnemo_current_lighthouse_addrmap
      PROVE  \E r \in pollRuns : \E e \in seen[r.id].addrmap :
                LastWord(r, e) /\ x = AddrmapRow(r, e)
  <2>1. x \in AddrmapRows
    BY DEF mnemo_current_lighthouse_addrmap
  <2>2. PICK r \in HaveAddrmap : \E e \in seen[r.id].addrmap : x = AddrmapRow(r, e)
    BY <2>1, AddrmapRowsOf
  <2>3. PICK e \in seen[r.id].addrmap : x = AddrmapRow(r, e)
    BY <2>2
  <2>4. ASSUME NEW s \in HaveAddrmap, NEW f \in seen[s.id].addrmap,
               s.result.lighthouse = r.result.lighthouse,
               f.addr = e.addr, f.reporter = e.reporter
        PROVE  s.result.startedAt <= r.result.startedAt
    <3> DEFINE y == AddrmapRow(s, f)
    <3>1. y \in AddrmapRows
      BY AddrmapRowsOf
    <3>2. SameReporter(x, y) /\ y.observedAt = s.result.startedAt /\ x.observedAt = r.result.startedAt
      BY <2>3, <2>4, AddrmapRowFields DEF SameReporter
    <3> HIDE DEF y
    <3>3. y.observedAt <= x.observedAt
      BY <3>1, <3>2 DEF mnemo_current_lighthouse_addrmap
    <3> QED
      BY <3>2, <3>3
  <2>5. LastWord(r, e)
    BY <2>2, <2>3, <2>4 DEF LastWord
  <2> QED
    BY <2>2, <2>3, <2>5, AddrmapRowsOf
<1>2. ASSUME NEW r, NEW e, LastWord(r, e)
      PROVE  AddrmapRow(r, e) \in mnemo_current_lighthouse_addrmap
  <2> DEFINE x == AddrmapRow(r, e)
  <2>1. x \in AddrmapRows
    BY <1>2, AddrmapRowsOf DEF LastWord
  <2>2. ASSUME NEW y \in AddrmapRows, SameReporter(x, y)
        PROVE  y.observedAt <= x.observedAt
    <3>1. PICK s \in HaveAddrmap : \E f \in seen[s.id].addrmap : y = AddrmapRow(s, f)
      BY AddrmapRowsOf
    <3>2. PICK f \in seen[s.id].addrmap : y = AddrmapRow(s, f)
      BY <3>1
    <3>3. /\ s.result.lighthouse = r.result.lighthouse
          /\ f.addr = e.addr /\ f.reporter = e.reporter
          /\ y.observedAt = s.result.startedAt /\ x.observedAt = r.result.startedAt
      BY <2>2, <3>2, AddrmapRowFields DEF SameReporter
    <3>4. s.result.startedAt <= r.result.startedAt
      BY <1>2, <3>3 DEF LastWord
    <3> QED
      BY <3>3, <3>4
  <2> HIDE DEF x
  <2> QED
    BY <2>1, <2>2 DEF mnemo_current_lighthouse_addrmap, x
<1> QED
  BY <1>1, <1>2

\* What DisagreementExact says the view shows.
DisagreeingAddresses ==
    UNION {{e.addr : e \in {e \in seen[r.id].addrmap :
        /\ LastWord(r, e)
        /\ \E s \in pollRuns : \E f \in seen[s.id].addrmap :
              /\ LastWord(s, f) /\ f.addr = e.addr
              /\ s.result.lighthouse # r.result.lighthouse
              /\ f.learned # e.learned}} : r \in pollRuns}

LEMMA DisagreementIsExact ==
    ASSUME HistoryOK
    PROVE  Disagreement(mnemo_current_lighthouse_addrmap) = DisagreeingAddresses
<1> DEFINE current == mnemo_current_lighthouse_addrmap
<1>1. \A a : a \in DisagreeingAddresses <=>
         \E r, s \in pollRuns : \E e \in seen[r.id].addrmap : \E f \in seen[s.id].addrmap :
            /\ LastWord(r, e) /\ LastWord(s, f) /\ e.addr = a /\ f.addr = a
            /\ s.result.lighthouse # r.result.lighthouse /\ f.learned # e.learned
  BY DEF DisagreeingAddresses
<1>2. \A a : a \in Disagreement(current) <=>
         \E x, y \in current : /\ x.addr = a /\ y.addr = a
                               /\ x.lighthouse # y.lighthouse /\ x.learned # y.learned
  BY AddrmapFinite, DisagreementOf
<1>3. ASSUME NEW a \in Disagreement(current)
      PROVE  a \in DisagreeingAddresses
  <2>1. PICK x \in current, y \in current :
           x.addr = a /\ y.addr = a /\ x.lighthouse # y.lighthouse /\ x.learned # y.learned
    BY <1>2
  <2>2. PICK r \in pollRuns : \E e \in seen[r.id].addrmap :
           LastWord(r, e) /\ x = AddrmapRow(r, e)
    BY LastWords
  <2>3. PICK e \in seen[r.id].addrmap : LastWord(r, e) /\ x = AddrmapRow(r, e)
    BY <2>2
  <2>4. PICK s \in pollRuns : \E f \in seen[s.id].addrmap :
           LastWord(s, f) /\ y = AddrmapRow(s, f)
    BY LastWords
  <2>5. PICK f \in seen[s.id].addrmap : LastWord(s, f) /\ y = AddrmapRow(s, f)
    BY <2>4
  <2>6. /\ e.addr = a /\ f.addr = a
        /\ s.result.lighthouse # r.result.lighthouse /\ f.learned # e.learned
    BY <2>1, <2>3, <2>5, AddrmapRowFields
  <2> QED
    BY <1>1, <2>3, <2>5, <2>6
<1>4. ASSUME NEW a \in DisagreeingAddresses
      PROVE  a \in Disagreement(current)
  <2>1. PICK r \in pollRuns, s \in pollRuns :
           \E e \in seen[r.id].addrmap : \E f \in seen[s.id].addrmap :
              /\ LastWord(r, e) /\ LastWord(s, f) /\ e.addr = a /\ f.addr = a
              /\ s.result.lighthouse # r.result.lighthouse /\ f.learned # e.learned
    BY <1>1
  <2>2. PICK e \in seen[r.id].addrmap, f \in seen[s.id].addrmap :
           /\ LastWord(r, e) /\ LastWord(s, f) /\ e.addr = a /\ f.addr = a
           /\ s.result.lighthouse # r.result.lighthouse /\ f.learned # e.learned
    BY <2>1
  <2>3. AddrmapRow(r, e) \in current /\ AddrmapRow(s, f) \in current
    BY <2>2, LastWords
  <2>4. /\ AddrmapRow(r, e).addr = a /\ AddrmapRow(s, f).addr = a
        /\ AddrmapRow(r, e).lighthouse # AddrmapRow(s, f).lighthouse
        /\ AddrmapRow(r, e).learned # AddrmapRow(s, f).learned
    BY <2>2, AddrmapRowFields
  <2> QED
    BY <1>2, <2>3, <2>4
<1> QED
  BY <1>3, <1>4


-----------------------------------------------------------------------------
(***************************************************************************)
(* The inductive invariant                                                 *)
(***************************************************************************)
LEMMA InitIInv == Init => IInv
<1> SUFFICES ASSUME Init PROVE IInv
  OBVIOUS
<1>1. pollRuns = {} /\ now = 0 /\ moves = 0
  BY DEF Init, HistoryInit
<1>2. HistoryOK
  BY <1>1, FS_EmptySet DEF Init, HistoryOK
<1>3. mnemo_current_peers = {} /\ mnemo_current_lighthouse_addrmap = {}
  <2>1. HostmapRows = {} /\ HaveAddrmap = {}
    BY <1>1 DEF HostmapRows, HaveAddrmap
  <2>2. AddrmapRows = {}
    BY <2>1 DEF AddrmapRows
  <2> QED
    BY <2>1, <2>2 DEF mnemo_current_peers, mnemo_current_lighthouse_addrmap
<1>4. Disagreement({}) = {}
  BY DEF Disagreement
<1>5. \A v \in ViewNames : view[v].asOf = 0 /\ view[v].by = Null /\ view[v].rows = {}
  BY DEF Init, ViewNames
<1>6. ViewsOK
  <2>1. \A v \in ViewNames : Keyed(v, {})
    BY DEF Keyed
  <2>2. \A v \in ViewNames : Answers(v, {}, {}, {})
    BY <1>4 DEF Answers
  <2>3. ASSUME NEW v \in ViewNames
        PROVE  /\ view[v].asOf <= moves /\ view[v].by \in Refreshers \cup {Null}
               /\ Keyed(v, view[v].rows)
               /\ Answers(v, view[v].rows, mnemo_current_peers, mnemo_current_lighthouse_addrmap)
    <3>1. view[v].asOf = 0 /\ view[v].by = Null /\ view[v].rows = {}
      BY <1>5
    <3>2. Keyed(v, view[v].rows)
      BY <2>1, <3>1
    <3>3. Answers(v, view[v].rows, mnemo_current_peers, mnemo_current_lighthouse_addrmap)
      BY <1>3, <2>2, <3>1
    <3>4. view[v].asOf <= moves
      BY <1>1, <3>1
    <3> QED
      BY <3>1, <3>2, <3>3, <3>4
  <2> QED
    BY <2>3 DEF ViewsOK
<1>7. StatementsOK
  BY DEF Init, StatementsOK
<1>8. Bounded
  BY <1>1 DEF Init, Bounded
<1> QED
  BY <1>2, <1>6, <1>7, <1>8, FreshInvInit DEF IInv

\* The queries read the history and nothing else.
LEMMA QueriesFrame ==
    ASSUME UNCHANGED <<pollRuns, entries, seen>>
    PROVE  /\ mnemo_current_peers' = mnemo_current_peers
           /\ mnemo_current_lighthouse_addrmap' = mnemo_current_lighthouse_addrmap
<1>1. HostmapRows' = HostmapRows
  BY DEF HostmapRows, SD!Joined
<1>2. HaveAddrmap' = HaveAddrmap
  BY DEF HaveAddrmap
<1>3. AddrmapRows' = AddrmapRows
  BY <1>2 DEF AddrmapRows
<1> QED
  BY <1>1, <1>3 DEF mnemo_current_peers, mnemo_current_lighthouse_addrmap

\* What is in the views and in the snapshots stays true of an older history.
LEMMA HistoryMoves ==
    ASSUME IInv, Move, UNCHANGED <<view, todo, stmt, began>>, due' \in [Refreshers -> BOOLEAN]
    PROVE  ViewsOK' /\ StatementsOK' /\ Bounded'
<1>1. moves \in Nat /\ moves' = moves + 1 /\ moves < MaxMoves /\ MaxMoves \in Nat
  BY DEF IInv, FreshInv, Move
<1>2. \A v \in ViewNames : view[v].asOf \in Nat
  BY DEF IInv, FreshInv
<1>3. ViewsOK'
  BY <1>1, <1>2 DEF IInv, ViewsOK
<1>4. ASSUME NEW p \in Refreshers, stmt[p] # NoStatement
      PROVE  stmt[p].asOf \in Nat
  BY <1>4 DEF IInv, FreshInv, Calls, CallAt
<1>5. StatementsOK'
  BY <1>1, <1>4 DEF IInv, StatementsOK
<1>6. Bounded'
  BY <1>1 DEF IInv, Bounded
<1> QED
  BY <1>3, <1>5, <1>6

\* A step of the calls changes no history: only the clock may move.
LEMMA HistoryStands ==
    ASSUME HistoryOK, UNCHANGED <<pollRuns, seen>>, now' \in Nat, now' >= now
    PROVE  HistoryOK'
<1>1. \A r \in pollRuns : r.result.startedAt <= now'
  BY PollTypes DEF HistoryOK
<1> QED
  BY <1>1 DEF HistoryOK

LEMMA SavePollResultStep ==
    ASSUME IInv, NEW p \in Refreshers, SavePollResult(p)
    PROVE  HistoryOK'
<1> DEFINE free == PollIds \ Ids(pollRuns)
           id == Min(free)
<1>1. free \in SUBSET Nat /\ free # {}
  BY DEF SavePollResult
<1>2. id \in free
  <2>1. \E x \in free : \A y \in free : x <= y
    <3> HIDE DEF free
    <3> QED
      BY <1>1, LeastNatural
  <2> QED
    BY <2>1 DEF Min
<1>3. PICK l \in Lighthouses, t \in 0..now, sighting \in Sightings :
         /\ \A r \in pollRuns : r.result.lighthouse = l => r.result.startedAt # t
         /\ Record(Poll(id, l, t, sighting.success))
         /\ seen' = [seen EXCEPT ![id] = sighting]
  BY DEF SavePollResult
<1> DEFINE poll == Poll(id, l, t, sighting.success)
<1> HIDE DEF id
<1>4. /\ poll.id = id /\ poll.result.lighthouse = l /\ poll.result.startedAt = t
      /\ poll \in PollRun
  <2>1. now \in Nat /\ t \in Nat /\ id \in Nat /\ sighting.success \in BOOLEAN
    BY <1>1, <1>2 DEF IInv, HistoryOK
  <2> DEFINE result == [lighthouse |-> l, startedAt |-> t, success |-> sighting.success,
                        commandsAt |-> [c \in Commands |-> t],
                        fills |-> {"hostmap_entries", "lighthouse_addrmap_entries"}]
  <2>2. poll = [id |-> id, success |-> sighting.success, result |-> result]
    BY DEF Poll
  <2>3. [c \in Commands |-> t] \in [Commands -> Nat]
    BY <2>1
  <2>4. {"hostmap_entries", "lighthouse_addrmap_entries"} \in SUBSET NormalizedTables
    BY DEF NormalizedTables
  <2>5. result \in Result /\ result.lighthouse = l /\ result.startedAt = t
    BY <2>1, <2>3, <2>4 DEF Result
  <2> HIDE DEF poll, result
  <2>6. poll.id = id /\ poll.result = result
    BY <2>2
  <2>7. poll \in PollRun
    BY <2>1, <2>2, <2>5 DEF PollRun
  <2> QED
    BY <2>5, <2>6, <2>7
<1> HIDE DEF poll
<1>5. pollRuns' = pollRuns \cup {poll} /\ now' = now /\ now \in Nat
  BY <1>3 DEF Record, poll, IInv, HistoryOK
<1>6. id \in PollIds /\ id \notin Ids(pollRuns)
  BY <1>2
<1>7. pollRuns' \subseteq PollRun /\ IsFiniteSet(pollRuns')
  BY <1>4, <1>5, FS_AddElement DEF IInv, HistoryOK
<1>8. \A r \in pollRuns' : r.id \in PollIds /\ r.result.startedAt <= now'
  BY <1>4, <1>5, <1>6 DEF IInv, HistoryOK
<1>9. \A r, s \in pollRuns' : r.id = s.id => r = s
  BY <1>4, <1>5, <1>6 DEF IInv, HistoryOK, Ids
<1>10. ASSUME NEW r \in pollRuns', NEW s \in pollRuns',
              r.result.lighthouse = s.result.lighthouse,
              r.result.startedAt = s.result.startedAt
       PROVE  r = s
  BY <1>3, <1>4, <1>5, <1>10 DEF IInv, HistoryOK
<1>11. /\ DOMAIN seen' = PollIds
       /\ \A j \in PollIds : seen'[j] = NothingSeen \/ seen'[j] \in Sightings
  BY <1>3, <1>6 DEF IInv, HistoryOK
<1> QED
  BY <1>5, <1>7, <1>8, <1>9, <1>10, <1>11 DEF HistoryOK

LEMMA PruneStep ==
    ASSUME IInv, Prune
    PROVE  HistoryOK'
<1>1. pollRuns' \subseteq pollRuns /\ now' = now
  BY DEF Prune, ForgetRuns, ForgetEntries
<1>2. /\ DOMAIN seen' = PollIds
      /\ \A id \in PollIds : seen'[id] = NothingSeen \/ seen'[id] \in Sightings
  BY DEF Prune, IInv, HistoryOK
<1>3. IsFiniteSet(pollRuns')
  BY <1>1, FS_Subset DEF IInv, HistoryOK
<1> QED
  BY <1>1, <1>2, <1>3 DEF IInv, HistoryOK


\* A statement's snapshot is of the history as it is.
LEMMA ExecStep ==
    ASSUME IInv, NEW p \in Refreshers, Exec(p)
    PROVE  StatementsOK'
<1> DEFINE v == Head(todo[p])
           peers == mnemo_current_peers
           addrmap == mnemo_current_lighthouse_addrmap
<1>1. /\ UNCHANGED <<pollRuns, entries, seen, moves, todo>>
      /\ DOMAIN stmt = Refreshers /\ moves \in Nat
  BY DEF Exec, historyVars, IInv, FreshInv
<1>2. /\ stmt'[p].asOf = moves
      /\ stmt'[p].rows = IF v \in DOMAIN Query THEN Query[v] ELSE {}
  BY <1>1 DEF Exec
<1>3. peers' = peers /\ addrmap' = addrmap
  BY <1>1, QueriesFrame
<1>4. /\ DOMAIN Query = {"mnemo_current_peers", Addrmap, "mnemo_poll_health_5m",
                         "mnemo_peer_cert_inventory"}
      /\ Query["mnemo_current_peers"] = peers /\ Query[Addrmap] = addrmap
  BY DEF Query, Addrmap
<1>5. Keyed("mnemo_current_peers", peers) /\ Keyed(Addrmap, addrmap)
  BY CurrentPeers, CurrentAddrmapKeyed DEF IInv
<1> HIDE DEF v, peers, addrmap
<1>6. Keyed(v, stmt'[p].rows)
  BY <1>2, <1>4, <1>5 DEF Keyed, Addrmap
<1>7. v # "mnemo_lighthouse_disagreement" => Answers(v, stmt'[p].rows, peers, addrmap)
  BY <1>2, <1>4 DEF Answers, Addrmap
<1>8. ASSUME NEW q \in Refreshers, q # p
      PROVE  stmt'[q] = stmt[q]
  BY <1>1, <1>8 DEF Exec
<1>9. ASSUME NEW q \in Refreshers, stmt'[q] # NoStatement
      PROVE  /\ stmt'[q].asOf <= moves'
             /\ Keyed(Head(todo'[q]), stmt'[q].rows)
             /\ stmt'[q].asOf = moves' /\ Head(todo'[q]) # "mnemo_lighthouse_disagreement" =>
                   Answers(Head(todo'[q]), stmt'[q].rows, peers', addrmap')
  <2>1. CASE q = p
    BY <1>1, <1>2, <1>3, <1>6, <1>7, <2>1 DEF v
  <2>2. CASE q # p
    BY <1>1, <1>3, <1>8, <1>9, <2>2 DEF IInv, StatementsOK, peers, addrmap
  <2> QED
    BY <2>1, <2>2
<1> QED
  BY <1>9 DEF StatementsOK, peers, addrmap

\* The rows that a statement leaves in its view.
LEMMA ViewsReplaced ==
    ASSUME IInv, NEW p \in Refreshers, stmt[p] # NoStatement, Replace(p),
           UNCHANGED <<moves, pollRuns, entries, seen>>
    PROVE  ViewsOK'
<1> DEFINE peers == mnemo_current_peers
           addrmap == mnemo_current_lighthouse_addrmap
<1>1. PICK k \in 1..5 : CallAt(p, k)
  BY DEF IInv, FreshInv, Calls
<1> DEFINE v == Views[k]
           new == Rows(v, stmt[p])
<1>2. Head(todo[p]) = v /\ v \in ViewNames
  BY <1>1, RestSteps, ViewsOrder DEF CallAt
<1>3. view' = [view EXCEPT ![v] = [rows |-> new.rows, asOf |-> new.asOf, by |-> p]]
  BY <1>2 DEF Replace
<1>4. peers' = peers /\ addrmap' = addrmap
  BY QueriesFrame
<1>5. /\ new.asOf <= moves /\ Keyed(v, new.rows)
      /\ new.asOf = moves => Answers(v, new.rows, peers, addrmap)
  <2>1. CASE v = "mnemo_lighthouse_disagreement"
    <3> DEFINE source == view[Addrmap]
    <3>1. new = [rows |-> Disagreement(source.rows), asOf |-> source.asOf]
      BY <2>1 DEF Rows, Addrmap
    <3>2. new.rows = Disagreement(source.rows) /\ new.asOf = source.asOf
      BY <3>1
    <3>3. /\ source.asOf <= moves
          /\ source.asOf = moves => source.rows = addrmap
      BY ViewsOrder DEF IInv, ViewsOK, Answers
    <3> HIDE DEF v, source, new, addrmap, peers
    <3> QED
      BY <2>1, <3>2, <3>3 DEF Keyed, Answers, Addrmap
  <2>2. CASE v # "mnemo_lighthouse_disagreement"
    <3>1. new = stmt[p]
      BY <2>2 DEF Rows
    <3> QED
      BY <1>2, <2>2, <3>1 DEF IInv, StatementsOK
  <2> QED
    BY <2>1, <2>2
<1> HIDE DEF new, v
<1>6. /\ view'[v].rows = new.rows /\ view'[v].asOf = new.asOf /\ view'[v].by = p
      /\ \A w \in ViewNames : w # v => view'[w] = view[w]
  BY <1>2, <1>3 DEF IInv, FreshInv
<1>7. ASSUME NEW w \in ViewNames
      PROVE  /\ view'[w].asOf <= moves' /\ view'[w].by \in Refreshers \cup {Null}
             /\ Keyed(w, view'[w].rows)
             /\ view'[w].asOf = moves' => Answers(w, view'[w].rows, peers', addrmap')
  <2>1. CASE w = v
    BY <1>4, <1>5, <1>6, <2>1
  <2>2. CASE w # v
    BY <1>4, <1>6, <2>2 DEF IInv, ViewsOK
  <2> QED
    BY <2>1, <2>2
<1> QED
  BY <1>7 DEF ViewsOK

\* The calls: each lemma about one of their steps.
LEMMA CallStep ==
    ASSUME IInv, NEW p \in Refreshers,
           RefreshGrafanaViews(p) \/ Exec(p) \/ Refreshed(p) \/ RefreshFails(p)
    PROVE  HistoryOK' /\ ViewsOK' /\ StatementsOK' /\ Bounded'
<1>1. UNCHANGED <<now, pollRuns, entries, seen, moves>>
  BY DEF RefreshGrafanaViews, Exec, Refreshed, RefreshFails, historyVars
<1>2. HistoryOK'
  <2>1. now \in Nat
    BY DEF IInv, HistoryOK
  <2> QED
    BY <1>1, <2>1, HistoryStands DEF IInv
<1>3. ViewsOK'
  <2>1. CASE UNCHANGED view
    BY <1>1, <2>1, QueriesFrame DEF IInv, ViewsOK
  <2>2. CASE stmt[p] # NoStatement /\ Replace(p)
    BY <1>1, <2>2, ViewsReplaced
  <2> QED
    BY <2>1, <2>2 DEF RefreshGrafanaViews, Exec, Refreshed, RefreshFails
<1>4. /\ DOMAIN todo = Refreshers /\ DOMAIN stmt = Refreshers /\ DOMAIN began = Refreshers
      /\ moves \in Nat
  BY DEF IInv, FreshInv
<1>5. StatementsOK'
  <2>1. CASE Exec(p)
    BY <2>1, ExecStep
  <2>2. CASE ~Exec(p)
    <3>1. stmt'[p] = NoStatement
      <4>1. CASE RefreshGrafanaViews(p)
        BY <4>1, RestSteps DEF RefreshGrafanaViews, IInv, FreshInv, Calls, CallAt
      <4>2. CASE Refreshed(p) \/ RefreshFails(p)
        BY <1>4, <4>2 DEF Refreshed, RefreshFails
      <4> QED
        BY <2>2, <4>1, <4>2
    <3>2. ASSUME NEW q \in Refreshers, q # p
          PROVE  stmt'[q] = stmt[q] /\ todo'[q] = todo[q]
      BY <1>4, <2>2, <3>2 DEF RefreshGrafanaViews, Refreshed, RefreshFails
    <3> QED
      BY <1>1, <3>1, <3>2, QueriesFrame DEF IInv, StatementsOK
  <2> QED
    BY <2>1, <2>2
<1>6. Bounded'
  <2>1. moves \in 0..moves /\ 0 \in 0..moves
    BY <1>4
  <2>2. began \in [Refreshers -> 0..moves] /\ due \in [Refreshers -> BOOLEAN]
    BY DEF IInv, Bounded
  <2>3. began' \in [Refreshers -> 0..moves]
    <3> DEFINE M == 0..moves
    <3> HIDE DEF M
    <3>1. moves \in M /\ 0 \in M /\ began \in [Refreshers -> M]
      BY <2>1, <2>2 DEF M
    <3>2. began' \in [Refreshers -> M]
      BY <3>1 DEF RefreshGrafanaViews, Exec, Refreshed, RefreshFails
    <3> QED
      BY <3>2 DEF M
  <2>4. due' \in [Refreshers -> BOOLEAN]
    BY <2>2 DEF RefreshGrafanaViews, Exec, Refreshed, RefreshFails
  <2>5. todo' = [q \in Refreshers |-> todo'[q]]
    BY DEF RefreshGrafanaViews, Exec, Refreshed, RefreshFails, IInv, Bounded
  <2> QED
    BY <1>1, <2>3, <2>4, <2>5 DEF IInv, Bounded
<1> QED
  BY <1>2, <1>3, <1>5, <1>6


LEMMA IInvStep == IInv /\ [Next]_vars => IInv'
<1> SUFFICES ASSUME IInv, [Next]_vars
             PROVE  HistoryOK' /\ ViewsOK' /\ StatementsOK' /\ Bounded'
  BY FreshInvStep DEF IInv
<1>1. CASE Prune
  <2>1. Move /\ UNCHANGED refreshVars
    BY <1>1 DEF Prune
  <2>2. due' \in [Refreshers -> BOOLEAN]
    BY <2>1 DEF refreshVars, IInv, Bounded
  <2> QED
    BY <1>1, <2>1, <2>2, PruneStep, HistoryMoves DEF refreshVars
<1>2. CASE Tick \/ BetweenRounds \/ UNCHANGED vars
  <2>1. UNCHANGED <<pollRuns, entries, seen, moves, view, todo, stmt, began, due>>
    BY <1>2 DEF Tick, TimePasses, BetweenRounds, vars, historyVars, refreshVars
  <2>2. now' \in Nat /\ now' >= now
    BY <1>2 DEF Tick, TimePasses, BetweenRounds, vars, historyVars, IInv, HistoryOK
  <2>3. HistoryOK'
    BY <2>1, <2>2, HistoryStands DEF IInv
  <2>4. ViewsOK' /\ StatementsOK'
    BY <2>1, QueriesFrame DEF IInv, ViewsOK, StatementsOK
  <2>5. Bounded'
    BY <2>1 DEF IInv, Bounded
  <2> QED
    BY <2>3, <2>4, <2>5
<1>3. ASSUME NEW p \in Refreshers, SavePollResult(p)
      PROVE  HistoryOK' /\ ViewsOK' /\ StatementsOK' /\ Bounded'
  <2>1. due' \in [Refreshers -> BOOLEAN]
    BY <1>3 DEF SavePollResult, IInv, Bounded
  <2> QED
    BY <1>3, <2>1, SavePollResultStep, HistoryMoves DEF SavePollResult
<1>4. ASSUME NEW p \in Refreshers,
             RefreshGrafanaViews(p) \/ Exec(p) \/ Refreshed(p) \/ RefreshFails(p)
      PROVE  HistoryOK' /\ ViewsOK' /\ StatementsOK' /\ Bounded'
  BY <1>4, CallStep
<1> QED
  BY <1>1, <1>2, <1>3, <1>4 DEF Next

\* A view refreshed since the history last changed shows the history, and no
\* refresh fails on a unique index.
THEOREM Invariance == Spec => []IInv
<1> QED
  BY InitIInv, IInvStep, PTL DEF Spec

\* Every variable has its type; no refresh fails on a unique index.
THEOREM TypeCorrect == Spec => []TypeOK
<1>1. IInv => TypeOK
  <2> SUFFICES ASSUME IInv PROVE TypeOK
    OBVIOUS
  <2>1. \A id \in PollIds : seen[id].addrmap \subseteq AddrmapEntry
    BY DEF IInv, HistoryOK, NothingSeen
  <2>2. \A v \in ToSet(Views) :
           view[v].asOf \in 0..moves /\ view[v].by \in Refreshers \cup {Null}
    BY DEF IInv, ViewsOK, FreshInv, ViewNames
  <2>3. ASSUME NEW p \in Refreshers
        PROVE  \E k \in 1..Len(Views) + 1 : todo[p] = SubSeq(Views, k, Len(Views))
    <3>1. Views \in Seq(ViewNames) /\ Len(Views) = 5
      BY ViewsOrder DEF Views, ViewNames, ToSet
    <3>2. CASE todo[p] = <<>>
      <4>1. SubSeq(Views, 6, 5) = <<>>
        BY SubSeqEmpty
      <4> QED
        BY <3>1, <3>2, <4>1
    <3>3. ASSUME NEW k \in 1..5, todo[p] = Rest(k)
          PROVE  todo[p] = SubSeq(Views, k, 5)
      <4>1. SubSeq(Views, k, 5) = [i \in 1..(6 - k) |-> Views[k + i - 1]]
        <5> DEFINE views == Views
        <5>1. views \in Seq(ViewNames) /\ Len(views) = 5
          BY <3>1
        <5> HIDE DEF views
        <5>2. SubSeq(views, k, 5) = [i \in 1..(6 - k) |-> views[k + i - 1]]
          BY <5>1
        <5> QED
          BY <5>2 DEF views
      <4> QED
        BY <3>3, <4>1 DEF Rest
    <3> QED
      BY <3>1, <3>2, <3>3 DEF IInv, FreshInv, Calls, CallAt
  <2>4. todo \in [Refreshers -> {SubSeq(Views, k, Len(Views)) : k \in 1..Len(Views) + 1}]
    <3> DEFINE rests == {SubSeq(Views, k, Len(Views)) : k \in 1..Len(Views) + 1}
    <3>1. \A p \in Refreshers : todo[p] \in rests
      BY <2>3
    <3> HIDE DEF rests
    <3> QED
      BY <3>1 DEF IInv, Bounded, rests
  <2>5. /\ \A x, y \in view["mnemo_current_peers"].rows :
              x.lighthouse = y.lighthouse /\ x.key = y.key => x = y
        /\ \A x, y \in view["mnemo_current_lighthouse_addrmap"].rows :
              SameReporter(x, y) => x = y
    BY ViewsOrder DEF IInv, ViewsOK, Keyed, Addrmap, Views
  <2> QED
    BY <2>1, <2>2, <2>4, <2>5 DEF IInv, Bounded, TypeOK
<1> QED
  BY Invariance, <1>1, PTL

\* What Grafana shows agrees with what Prometheus is told: a present peer is in
\* a current mnemo_current_peers, seen by the same lighthouse no earlier.
THEOREM PrometheusAgreesWithGrafana == Spec => []PresentPeersInView
<1>1. IInv => PresentPeersInView
  <2> SUFFICES ASSUME IInv, Current("mnemo_current_peers"), NEW x \in SD!FirstOfEachPeer
               PROVE  \E y \in view["mnemo_current_peers"].rows :
                         /\ y.lighthouse = x.lighthouse /\ y.key = x.key
                         /\ y.observedAt >= x.observedAt
    BY DEF PresentPeersInView
  <2>1. "mnemo_current_peers" \in ViewNames
    BY DEF ViewNames, Views, ToSet
  <2>2. view["mnemo_current_peers"].rows = mnemo_current_peers
    BY <2>1 DEF IInv, ViewsOK, Answers, Current
  <2>3. x \in HostmapRows
    BY DEF SD!FirstOfEachPeer, SD!PeersOf, SD!latest_poll, HostmapRows
  <2> QED
    BY <2>2, <2>3, CurrentPeers DEF IInv
<1> QED
  BY Invariance, <1>1, PTL

\* A current mnemo_lighthouse_disagreement shows the addresses of which two
\* lighthouses have last learned different things, no more and no less.
THEOREM DisagreementsShown == Spec => []DisagreementExact
<1>1. IInv => DisagreementExact
  <2> SUFFICES ASSUME IInv, Current("mnemo_lighthouse_disagreement")
               PROVE  view["mnemo_lighthouse_disagreement"].rows = DisagreeingAddresses
    BY DEF DisagreementExact, DisagreeingAddresses
  <2>1. "mnemo_lighthouse_disagreement" \in ViewNames
    BY ViewsOrder
  <2>2. view["mnemo_lighthouse_disagreement"].rows
           = Disagreement(mnemo_current_lighthouse_addrmap)
    BY <2>1 DEF IInv, ViewsOK, Answers, Current
  <2> QED
    BY <2>2, DisagreementIsExact DEF IInv
<1> QED
  BY Invariance, <1>1, PTL

=============================================================================
