---------------------------- MODULE PollRoundProofs ----------------------------
(***************************************************************************)
(* Theorems about PollRound for any number of lighthouses, commands and    *)
(* rounds.                                                                 *)
(***************************************************************************)
EXTENDS PollRound, FiniteSetTheorems, SequenceTheorems, TLAPS

USE RoundAssumption

Active(l) == poll[l].pc # "none"

Places == 1..Len(results)

\* Where Run is says what may be left of the round.
PhaseOK ==
    /\ closed <=> main # "wait"
    /\ main # "wait" => AllReturned
    /\ main \in {"select", "returned"} => results = <<>>
    /\ main # "returned" => exit = "running"

\* Nothing of this round is reported before its channel is closed.
HistoryOK ==
    /\ \A s \in stored : s.round <= round
    /\ main = "wait" => errs = {} /\ \A s \in stored : s.round < round
    /\ \A e \in errs : e[2] = "canceled" => cancelled

\* Only a signal cuts polls short.
CutOK ==
    /\ \A l \in Lighthouses : poll[l].cut => cancelled
    /\ \A i \in Places : results[i].cut => cancelled
    /\ ShutdownIsNoOutage

\* Everyone sends once, after that is gone, and is accounted for later.
ChannelOK ==
    /\ \A i, j \in Places : results[i].lighthouse = results[j].lighthouse => i = j
    /\ \A i \in Places : ~Active(results[i].lighthouse) /\ results[i].lighthouse \notin Accounted

\* Unless a signal came in, every lighthouse is being polled, in the channel,
\* or accounted for.
NobodyLost ==
    main \in {"wait", "drain"} =>
        \A l \in Lighthouses :
            cancelled \/ Active(l) \/ l \in Accounted \/ \E i \in Places : results[i].lighthouse = l

IInv == TypeOK /\ PhaseOK /\ HistoryOK /\ CutOK /\ ChannelOK /\ NobodyLost

-----------------------------------------------------------------------------
(***************************************************************************)
(* Lemmas about the operators                                              *)
(***************************************************************************)
\* A goroutine is there from the start of its round.
LEMMA GoroutineStarts ==
    Goroutine \in Poll /\ Goroutine.pc # "none" /\ ~Goroutine.cut
BY DEF Goroutine, FirstCommand, PollAt, Poll, PollSteps

\* No goroutine at all.
LEMMA NoPollType ==
    NoPoll \in Poll /\ NoPoll.pc = "none" /\ ~NoPoll.cut
BY DEF NoPoll, PollAt, Poll, PollSteps

\* The jitter is over.
LEMMA FirstCommandType ==
    FirstCommand \in Poll /\ FirstCommand.pc = "dial" /\ ~FirstCommand.cut
BY DEF FirstCommand, PollAt, Poll, PollSteps

\* The next command, or the end of the poll; it is cut short only by a signal.
LEMMA AfterCommand ==
    ASSUME NEW p \in Poll, NEW ok \in BOOLEAN, cancelled \in BOOLEAN
    PROVE  /\ After(p, ok) \in Poll
           /\ After(p, ok).pc # "none"
           /\ After(p, ok).cut => p.cut \/ cancelled
BY DEF After, GoesOn, Poll, PollSteps

\* There is room in the channel for whoever has not sent yet.
LEMMA RoomForAll ==
    ASSUME TypeOK, ChannelOK, NEW l \in Lighthouses, Active(l)
    PROVE  Len(results) < Capacity
<1> DEFINE others == Lighthouses \ {l}
<1> DEFINE f == [i \in Places |-> results[i].lighthouse]
<1>1. Len(results) \in Nat
  BY LenProperties DEF TypeOK
<1>2. IsFiniteSet(Places) /\ Cardinality(Places) = Len(results)
  <2> DEFINE n == Len(results)
  <2> HIDE DEF n
  <2>0. n \in Nat
    BY <1>1 DEF n
  <2>1. IsFiniteSet(1..n) /\ Cardinality(1..n) = IF 1 > n THEN 0 ELSE n - 1 + 1
    BY <2>0, FS_Interval
  <2>2. Cardinality(1..n) = n
    BY <2>0, <2>1
  <2> QED
    BY <2>1, <2>2 DEF Places, n
<1>3. IsFiniteSet(others) /\ Cardinality(others) = Capacity - 1
  BY FS_RemoveElement DEF Capacity, RoundAssumption
<1>4. Capacity \in Nat
  BY FS_CardinalityType DEF Capacity, RoundAssumption
<1>5. \A i \in Places : results[i].lighthouse \in others
  <2>1. \A i \in Places : results[i] \in PollResult
    BY ElementOfSeq DEF TypeOK, Places
  <2> QED
    BY <2>1 DEF ChannelOK, PollResult
<1>6. f \in [Places -> others]
  BY <1>5
<1>7. ASSUME Capacity - 1 < Len(results)
      PROVE  FALSE
  <2>1. \E i, j \in Places : i # j /\ f[i] = f[j]
    <3> HIDE DEF f, others
    <3> QED
      BY <1>2, <1>3, <1>6, <1>7, FS_PigeonHole
  <2> QED
    BY <2>1 DEF ChannelOK
<1> QED
  BY <1>1, <1>4, <1>7

-----------------------------------------------------------------------------
(***************************************************************************)
(* The goroutine of a lighthouse                                           *)
(***************************************************************************)
\* What a goroutine may become: it ends without a result only after a signal,
\* and is cut short only by one.
Moves(l) ==
    \E p \in Poll :
        /\ poll' = [poll EXCEPT ![l] = p]
        /\ p.pc = "none" => ~Active(l) \/ cancelled
        /\ ~Active(l) => p.pc = "none"
        /\ p.cut => poll[l].cut \/ cancelled

\* The two ways to change one: by a new record, or by some of its fields.
LEMMA ReplacedMoves ==
    ASSUME TypeOK, NEW l \in Lighthouses, NEW p \in Poll,
           poll' = [poll EXCEPT ![l] = p], Active(l), p.pc # "none" \/ cancelled,
           p.cut => poll[l].cut \/ cancelled
    PROVE  Moves(l)
BY DEF Moves

\* Return: the goroutine goes on.
LEMMA ReturnMoves ==
    ASSUME TypeOK, NEW l \in Lighthouses, NEW ok \in BOOLEAN, Active(l), Return(l, ok)
    PROVE  Moves(l)
<1>1. poll' = [poll EXCEPT ![l] = After(poll[l], ok)]
  BY DEF Return
<1>2. poll[l] \in Poll /\ cancelled \in BOOLEAN
  BY DEF TypeOK
<1> QED
  BY <1>1, <1>2, AfterCommand, ReplacedMoves

LEMMA ProceedMoves ==
    ASSUME TypeOK, NEW l \in Lighthouses, NEW pc \in PollSteps \ {"none"},
           Active(l), Proceed(l, pc)
    PROVE  Moves(l)
<1> DEFINE p == [poll[l] EXCEPT !.pc = pc]
<1>0. poll[l] \in Poll
  BY DEF TypeOK
<1>1. p \in Poll /\ p.pc = pc /\ p.cut = poll[l].cut
  BY <1>0 DEF Poll
<1>2. poll' = [poll EXCEPT ![l] = p]
  BY DEF Proceed
<1> HIDE DEF p
<1> QED
  BY <1>1, <1>2, ReplacedMoves

\* An orphan more or less leaves counts.
LEMMA CountsStay ==
    ASSUME orphans \in OrphanCounts, NEW l \in Lighthouses, NEW client \in Clients, NEW n \in Nat,
           orphans' = [orphans EXCEPT ![l][client] = n]
    PROVE  orphans' \in OrphanCounts
<1>1. [orphans[l] EXCEPT ![client] = n] \in [Clients -> Nat]
  BY DEF OrphanCounts
<1>2. orphans' = [orphans EXCEPT ![l] = [orphans[l] EXCEPT ![client] = n]]
  BY DEF OrphanCounts
<1> QED
  BY <1>1, <1>2 DEF OrphanCounts

\* One step of the goroutine: it keeps to itself, or it sends its result.
LEMMA PollMoves ==
    ASSUME TypeOK, NEW l \in Lighthouses, PollLighthouse(l)
    PROVE  /\ UNCHANGED roundVars
           /\ orphans' \in OrphanCounts
           /\ SendResult(l) \/ (UNCHANGED results /\ Moves(l))
<1> DEFINE Keeps == UNCHANGED <<roundVars, orphans, results>>
<1>0. poll[l] \in Poll /\ orphans \in OrphanCounts /\ poll \in [Lighthouses -> Poll]
  BY DEF TypeOK
<1> DEFINE Goal == UNCHANGED <<roundVars, results>> /\ orphans' \in OrphanCounts /\ Moves(l)
<1>1. ASSUME JitterEnds(l) PROVE Goal
  BY <1>0, <1>1, FirstCommandType, ReplacedMoves DEF JitterEnds, Active
<1>2. ASSUME JitterCancelled(l) PROVE Goal
  BY <1>0, <1>2, NoPollType, ReplacedMoves DEF JitterCancelled, Active
<1>3. ASSUME Connect(l) PROVE Goal
  <2>1. Active(l)
    BY <1>3 DEF Connect, Active
  <2>2. ASSUME Proceed(l, "handshake") PROVE Goal
    BY <1>0, <2>1, <2>2, ProceedMoves DEF Proceed, PollSteps
  <2>3. ASSUME Return(l, FALSE), UNCHANGED orphans PROVE Goal
    BY <1>0, <2>1, <2>3, ReturnMoves DEF Return
  <2> QED
    BY <1>3, <2>2, <2>3 DEF Connect
<1>4. ASSUME Handshake(l) PROVE Goal
  <2>1. Active(l)
    BY <1>4 DEF Handshake, Active
  <2>2. ASSUME Proceed(l, "session") PROVE Goal
    BY <1>0, <2>1, <2>2, ProceedMoves DEF Proceed, PollSteps
  <2>3. ASSUME Return(l, FALSE), UNCHANGED orphans PROVE Goal
    BY <1>0, <2>1, <2>3, ReturnMoves DEF Return
  <2> QED
    BY <1>4, <2>2, <2>3 DEF Handshake
<1>5. ASSUME OpenSession(l) PROVE Goal
  <2>1. Active(l)
    BY <1>5 DEF OpenSession, Active
  <2>2. ASSUME poll' = [poll EXCEPT ![l].pc = "exec", ![l].run = "running"], Keeps PROVE Goal
    <3> DEFINE p == [poll[l] EXCEPT !.pc = "exec", !.run = "running"]
    <3>1. p \in Poll /\ p.pc = "exec" /\ p.cut = poll[l].cut
      BY <1>0 DEF Poll, PollSteps
    <3>2. poll' = [poll EXCEPT ![l] = p]
      BY <1>0, <2>2
    <3> HIDE DEF p
    <3> QED
      BY <1>0, <2>1, <2>2, <3>1, <3>2, ReplacedMoves
  <2>3. ASSUME Return(l, FALSE), UNCHANGED orphans PROVE Goal
    BY <1>0, <2>1, <2>3, ReturnMoves DEF Return
  <2> QED
    BY <1>5, <2>2, <2>3 DEF OpenSession
<1>6. ASSUME SessionRunEnds(l) PROVE Goal
  <2>1. PICK outcome \in {"ok", "error"} : poll' = [poll EXCEPT ![l].run = outcome]
    BY <1>6 DEF SessionRunEnds
  <2> DEFINE p == [poll[l] EXCEPT !.run = outcome]
  <2>2. p \in Poll /\ p.pc = poll[l].pc /\ p.cut = poll[l].cut
    BY <1>0 DEF Poll
  <2>3. poll' = [poll EXCEPT ![l] = p]
    BY <1>0, <2>1
  <2> HIDE DEF p
  <2> QED
    BY <1>0, <1>6, <2>2, <2>3 DEF SessionRunEnds, Moves, Active
<1>7. ASSUME ReceiveDone(l) PROVE Goal
  BY <1>0, <1>7, ReturnMoves DEF ReceiveDone, Return, Active
<1>8. ASSUME GiveUp(l) PROVE Goal
  <2>1. Active(l) /\ Return(l, FALSE)
    BY <1>8 DEF GiveUp, Active
  <2>2. orphans' \in OrphanCounts
    <3> DEFINE n == orphans[l]["closed"] + (IF poll[l].run = "running" THEN 1 ELSE 0)
    <3>1. "closed" \in Clients /\ orphans[l]["closed"] \in Nat
      BY <1>0 DEF Clients, OrphanCounts
    <3>2. n \in Nat
      BY <3>1
    <3>3. orphans' = [orphans EXCEPT ![l]["closed"] = n]
      BY <1>0, <1>8 DEF GiveUp, OrphanCounts
    <3> HIDE DEF n
    <3> QED
      BY <1>0, <3>1, <3>2, <3>3, CountsStay
  <2> QED
    BY <2>1, <2>2, ReturnMoves DEF Return
<1>9. ASSUME NEW client \in Clients, OrphanEnds(l, client) PROVE Goal
  <2>1. poll' = [poll EXCEPT ![l] = poll[l]]
    BY <1>0, <1>9 DEF OrphanEnds
  <2>2. Moves(l)
    BY <1>0, <2>1 DEF Moves, Active
  <2>3. orphans' \in OrphanCounts
    <3>1. orphans[l][client] \in Nat /\ orphans[l][client] > 0
      BY <1>0, <1>9 DEF OrphanEnds, OrphanCounts
    <3>2. orphans[l][client] - 1 \in Nat
      BY <3>1
    <3>3. orphans' = [orphans EXCEPT ![l][client] = orphans[l][client] - 1]
      BY <1>0, <1>9 DEF OrphanEnds, OrphanCounts
    <3> QED
      BY <1>0, <3>2, <3>3, CountsStay
  <2> QED
    BY <1>9, <2>2, <2>3 DEF OrphanEnds
<1>10. ASSUME PollExpires(l) PROVE Goal
  <2> DEFINE p == [poll[l] EXCEPT !.expired = TRUE]
  <2>1. p \in Poll /\ p.pc = poll[l].pc /\ p.cut = poll[l].cut
    BY <1>0 DEF Poll
  <2>2. poll' = [poll EXCEPT ![l] = p]
    BY <1>0, <1>10 DEF PollExpires
  <2> HIDE DEF p
  <2> QED
    BY <1>0, <1>10, <2>1, <2>2 DEF PollExpires, Moves, Active
<1>11. ASSUME CommandExpires(l) PROVE Goal
  <2> DEFINE p == [poll[l] EXCEPT !.late = TRUE]
  <2>1. p \in Poll /\ p.pc = poll[l].pc /\ p.cut = poll[l].cut
    BY <1>0 DEF Poll
  <2>2. poll' = [poll EXCEPT ![l] = p]
    BY <1>0, <1>11 DEF CommandExpires
  <2> HIDE DEF p
  <2> QED
    BY <1>0, <1>11, <2>1, <2>2 DEF CommandExpires, Moves, Active
<1>12. ASSUME SendResult(l) PROVE UNCHANGED roundVars /\ orphans' \in OrphanCounts
  BY <1>0, <1>12 DEF SendResult
<1> QED
  BY <1>1, <1>2, <1>3, <1>4, <1>5, <1>6, <1>7, <1>8, <1>9, <1>10, <1>11, <1>12
  DEF PollLighthouse

-----------------------------------------------------------------------------
(***************************************************************************)
(* The inductive invariant holds at first and is kept by the goroutines    *)
(***************************************************************************)
LEMMA InitInvariant == ASSUME Init PROVE IInv
<1>1. poll \in [Lighthouses -> Poll] /\ \A l \in Lighthouses : Active(l) /\ ~poll[l].cut
  BY GoroutineStarts DEF Init, Active
<1>2. results = <<>> /\ results \in Seq(PollResult) /\ Places = {}
  BY EmptySeq DEF Init, Places
<1>3. TypeOK
  <2>1. round \in 1..MaxRounds /\ orphans \in OrphanCounts
    BY DEF Init, RoundAssumption, OrphanCounts
  <2>2. errs = {} /\ stored = {} /\ refreshed = {}
    BY DEF Init
  <2>3. once \in BOOLEAN /\ ticker = FALSE /\ cancelled = FALSE /\ closed = FALSE
    BY DEF Init
  <2>4. main = "wait" /\ exit = "running"
    BY DEF Init
  <2> QED
    BY <1>1, <1>2, <2>1, <2>2, <2>3, <2>4 DEF TypeOK
<1> QED
  BY <1>1, <1>2, <1>3
  DEF Init, IInv, PhaseOK, HistoryOK, CutOK, ShutdownIsNoOutage, ChannelOK, NobodyLost

\* Where results are in the channel.
LEMMA ChannelTypes ==
    ASSUME TypeOK
    PROVE  /\ Len(results) \in Nat
           /\ \A i \in Places : results[i] \in PollResult /\ results[i].lighthouse \in Lighthouses
<1>1. results \in Seq(PollResult)
  BY DEF TypeOK
<1>2. Len(results) \in Nat
  BY <1>1, LenProperties
<1>3. \A i \in Places : results[i] \in PollResult
  BY <1>1, ElementOfSeq DEF Places
<1> QED
  BY <1>2, <1>3 DEF PollResult

\* Who is accounted for hangs on the database, the errors and the round.
LEMMA AccountedKept ==
    ASSUME UNCHANGED <<round, errs, stored>> PROVE Accounted' = Accounted
BY DEF Accounted, ErrorAbout

\* A step of a goroutine that does not send.
LEMMA MovesInvariant ==
    ASSUME IInv, NEW l \in Lighthouses, Moves(l), UNCHANGED <<roundVars, results>>,
           orphans' \in OrphanCounts
    PROVE  IInv'
<1> USE DEF roundVars, Active
<1>1. PICK p \in Poll : /\ poll' = [poll EXCEPT ![l] = p]
                        /\ p.pc = "none" => ~Active(l) \/ cancelled
                        /\ ~Active(l) => p.pc = "none"
                        /\ p.cut => poll[l].cut \/ cancelled
  BY DEF Moves
<1>2. poll \in [Lighthouses -> Poll] /\ poll' \in [Lighthouses -> Poll]
  BY <1>1 DEF IInv, TypeOK
<1>3. \A k \in Lighthouses : poll'[k].pc # "none" => Active(k)
  BY <1>1, <1>2 DEF Active
<1>4. \A k \in Lighthouses : Active(k) => poll'[k].pc # "none" \/ cancelled
  BY <1>1, <1>2 DEF Active
<1>5. \A k \in Lighthouses : poll'[k].cut => poll[k].cut \/ cancelled
  BY <1>1, <1>2
<1>6. UNCHANGED <<Places, Accounted>> /\ \A i \in Places : results'[i].lighthouse = results[i].lighthouse
  BY AccountedKept DEF Places
<1>7. TypeOK'
  BY <1>2 DEF IInv, TypeOK
<1>8. PhaseOK'
  BY <1>3 DEF IInv, PhaseOK, AllReturned, Active
<1>9. HistoryOK'
  BY DEF IInv, HistoryOK
<1>10. CutOK'
  BY <1>5, <1>6 DEF IInv, CutOK, ShutdownIsNoOutage
<1>11. ChannelOK'
  BY <1>3, <1>6, ChannelTypes DEF IInv, ChannelOK
<1>12. NobodyLost'
  BY <1>4, <1>6 DEF IInv, NobodyLost
<1> QED
  BY <1>7, <1>8, <1>9, <1>10, <1>11, <1>12 DEF IInv

\* Before the channel is closed nobody is accounted for.
LEMMA NobodyAccounted ==
    ASSUME IInv, main = "wait" PROVE Accounted = {}
BY DEF IInv, TypeOK, HistoryOK, Accounted, ErrorAbout, StoredPoll

\* The sender was being polled, so it is new to the channel.
LEMMA SendInvariant ==
    ASSUME IInv, NEW l \in Lighthouses, SendResult(l)
    PROVE  IInv'
<1> USE DEF roundVars, Active
<1> DEFINE r == [lighthouse |-> l, success |-> ~poll[l].failed, cut |-> poll[l].cut]
           n == Len(results)
<1>1. poll \in [Lighthouses -> Poll] /\ poll[l] \in Poll /\ results \in Seq(PollResult)
  BY DEF IInv, TypeOK
<1>2. r \in PollResult
  BY <1>1 DEF Poll, PollResult
<1>3. n \in Nat /\ \A i \in Places : results[i] \in PollResult /\ results[i].lighthouse \in Lighthouses
  BY ChannelTypes DEF IInv
<1>4. /\ results' \in Seq(PollResult) /\ results' # <<>> /\ Len(results)' = n + 1
      /\ \A i \in 1..n : results'[i] = results[i]
      /\ results'[n + 1] = r
  <2>1. results' = Append(results, r)
    BY DEF SendResult
  <2> HIDE DEF r, n
  <2> QED
    BY <1>1, <1>2, <2>1, AppendProperties DEF n
<1>5. /\ Places' = Places \cup {n + 1}
      /\ \A i \in Places : results'[i].lighthouse = results[i].lighthouse /\ results'[i] = results[i]
      /\ results'[n + 1].lighthouse = l /\ results'[n + 1].cut = poll[l].cut /\ n + 1 \notin Places
  BY <1>3, <1>4 DEF Places
<1> HIDE DEF r, n
<1>6. poll' \in [Lighthouses -> Poll] /\ \A k \in Lighthouses : poll'[k] = IF k = l THEN NoPoll ELSE poll[k]
  BY <1>1, NoPollType DEF SendResult
<1>7. \A k \in Lighthouses : poll'[k].pc # "none" <=> Active(k) /\ k # l
  BY <1>6, NoPollType DEF Active
<1>8. Active(l) /\ main = "wait" /\ UNCHANGED <<roundVars, orphans>>
  BY DEF SendResult, Active, IInv, PhaseOK, AllReturned
<1>9. Accounted = {} /\ Accounted' = Accounted
  BY <1>8, NobodyAccounted, AccountedKept
<1>10. TypeOK'
  BY <1>4, <1>6, <1>8 DEF IInv, TypeOK
<1>11. PhaseOK'
  BY <1>8 DEF IInv, PhaseOK
<1>12. HistoryOK'
  BY <1>8 DEF IInv, HistoryOK
<1>13. CutOK'
  <2>1. \A k \in Lighthouses : poll'[k].cut => cancelled
    BY <1>6, NoPollType DEF IInv, CutOK
  <2>2. \A i \in Places' : results'[i].cut => cancelled
    BY <1>5 DEF IInv, CutOK
  <2> QED
    BY <1>8, <2>1, <2>2 DEF IInv, CutOK, ShutdownIsNoOutage
<1>14. ChannelOK'
  <2>1. \A i \in Places : results[i].lighthouse # l
    BY <1>8 DEF IInv, ChannelOK
  <2>2. \A i, j \in Places' : results'[i].lighthouse = results'[j].lighthouse => i = j
    BY <1>5, <2>1 DEF IInv, ChannelOK
  <2>3. \A i \in Places' : poll'[results'[i].lighthouse].pc = "none" /\ results'[i].lighthouse \notin Accounted'
    <3>1. \A i \in Places : ~Active(results[i].lighthouse)
      BY DEF IInv, ChannelOK
    <3>2. \A i \in Places : poll'[results'[i].lighthouse].pc = "none"
      BY <1>3, <1>5, <1>7, <3>1 DEF Active
    <3>3. poll'[l].pc = "none"
      BY <1>7
    <3> QED
      BY <1>5, <1>9, <3>2, <3>3 DEF Active
  <2> QED
    BY <2>2, <2>3 DEF ChannelOK
<1>15. NobodyLost'
  <2>1. \A k \in Lighthouses : Active(k) => poll'[k].pc # "none" \/ \E i \in Places' : results'[i].lighthouse = k
    BY <1>5, <1>7
  <2> QED
    BY <1>5, <1>8, <1>9, <2>1 DEF IInv, NobodyLost
<1> QED
  BY <1>10, <1>11, <1>12, <1>13, <1>14, <1>15 DEF IInv

LEMMA PollInvariant ==
    ASSUME IInv, NEW l \in Lighthouses, PollLighthouse(l)
    PROVE  IInv'
BY PollMoves, MovesInvariant, SendInvariant DEF IInv

-----------------------------------------------------------------------------
(***************************************************************************)
(* The inductive invariant is kept by runRound and Run                     *)
(***************************************************************************)
\* The next result leaves the channel, for the database, the errors or both.
NewRow == [round |-> round, result |-> Head(results)]

StoresIt == ~cancelled /\ stored' = stored \cup {NewRow}

ReportsIt ==
    \E cause \in {"canceled", "failed"} :
        /\ errs' = errs \cup {<<Head(results).lighthouse, cause>>}
        /\ cause = "canceled" => cancelled'

Saves ==
    /\ main = "drain" /\ results # <<>>
    /\ results' = Tail(results)
    /\ StoresIt \/ UNCHANGED stored
    /\ ReportsIt \/ UNCHANGED errs
    /\ StoresIt \/ ReportsIt
    /\ cancelled' \in {cancelled, TRUE}
    /\ UNCHANGED <<once, main, round, poll, orphans, closed, refreshed, ticker, exit>>

LEMMA SaveSteps ==
    ASSUME IInv, SaveOk \/ SaveFails \/ SaveInterrupted PROVE Saves
<1>0. cancelled \in BOOLEAN
  BY DEF IInv, TypeOK
<1>1. CASE SaveOk
  BY <1>0, <1>1 DEF SaveOk, Saves, StoresIt, NewRow
<1>2. CASE SaveFails
  <2>1. PICK cause \in Cause : errs' = errs \cup {<<Head(results).lighthouse, cause>>}
    BY <1>2 DEF SaveFails
  <2>2. ReportsIt
    BY <1>0, <1>2, <2>1 DEF ReportsIt, Cause, SaveFails
  <2>3. StoresIt \/ UNCHANGED stored
    BY <1>2 DEF SaveFails, StoresIt, NewRow
  <2> QED
    BY <1>0, <1>2, <2>2, <2>3 DEF SaveFails, Saves
<1>3. CASE SaveInterrupted
  <2>1. ReportsIt
    BY <1>3 DEF ReportsIt, SaveInterrupted
  <2>2. StoresIt \/ UNCHANGED stored
    BY <1>3 DEF SaveInterrupted, StoresIt, NewRow
  <2> QED
    BY <1>0, <1>3, <2>1, <2>2 DEF SaveInterrupted, Saves
<1> QED
  BY <1>1, <1>2, <1>3

\* What is known of the head of the channel.
LEMMA HeadFacts ==
    ASSUME TypeOK, results # <<>>
    PROVE  /\ Head(results) = results[1] /\ 1 \in Places
           /\ Head(results) \in PollResult /\ Head(results).lighthouse \in Lighthouses
           /\ Tail(results) \in Seq(PollResult)
           /\ Len(Tail(results)) = Len(results) - 1
           /\ \A i \in 1..(Len(results) - 1) : Tail(results)[i] = results[i + 1] /\ i + 1 \in Places
<1>1. results \in Seq(PollResult)
  BY DEF TypeOK
<1>2. Len(results) \in Nat \ {0}
  BY <1>1, EmptySeq
<1>3. 1 \in Places /\ \A i \in 1..(Len(results) - 1) : i + 1 \in Places
  BY <1>2 DEF Places
<1>4. Head(results) = results[1]
  BY <1>1
<1>5. /\ Head(results) \in PollResult
      /\ Tail(results) \in Seq(PollResult)
      /\ Len(Tail(results)) = Len(results) - 1
      /\ \A i \in 1..Len(Tail(results)) : Tail(results)[i] = results[i + 1]
  BY <1>1, HeadTailProperties
<1>6. Head(results).lighthouse \in Lighthouses
  BY <1>5 DEF PollResult
<1> QED
  BY <1>3, <1>4, <1>5, <1>6

\* Exactly the lighthouse of the result taken out is newly accounted for.
LEMMA SaveAccounts ==
    ASSUME IInv, Saves
    PROVE  /\ Accounted' = Accounted \cup {Head(results).lighthouse}
           /\ Head(results).lighthouse \notin Accounted
<1> DEFINE h == Head(results).lighthouse
<1>1. h \in Lighthouses /\ h = results[1].lighthouse /\ 1 \in Places
  BY HeadFacts DEF IInv, Saves
<1>2. h \notin Accounted
  BY <1>1 DEF IInv, ChannelOK
<1>3. stored' = stored \/ stored' = stored \cup {NewRow}
  BY DEF Saves, StoresIt
<1>4. NewRow.round = round /\ NewRow.result.lighthouse = h
  BY DEF NewRow
<1>5. errs \subseteq errs' /\ \A e \in errs' : e \in errs \/ e[1] = h
  BY DEF Saves, ReportsIt
<1>6. NewRow \in stored' \/ \E e \in errs' : e[1] = h
  <2>1. ASSUME ReportsIt PROVE \E e \in errs' : e[1] = h
    <3>1. PICK cause \in {"canceled", "failed"} : errs' = errs \cup {<<h, cause>>}
      BY <2>1 DEF ReportsIt
    <3>2. <<h, cause>> \in errs' /\ <<h, cause>>[1] = h
      BY <3>1
    <3> QED
      BY <3>2
  <2>2. ASSUME StoresIt PROVE NewRow \in stored'
    BY <2>2 DEF StoresIt
  <2> QED
    BY <2>1, <2>2 DEF Saves
<1>7. round' = round
  BY DEF Saves
<1> HIDE DEF h, NewRow
<1>8. ASSUME NEW l \in Lighthouses
      PROVE  l \in Accounted' <=> l \in Accounted \/ l = h
  BY <1>3, <1>4, <1>5, <1>6, <1>7 DEF Accounted, ErrorAbout
<1>9. Accounted' \subseteq Lighthouses /\ Accounted \subseteq Lighthouses
  BY DEF Accounted
<1>10. Accounted' = Accounted \cup {h}
  BY <1>1, <1>8, <1>9
<1> QED
  BY <1>2, <1>10 DEF h

LEMMA SaveInvariant == ASSUME IInv, Saves PROVE IInv'
<1> DEFINE h == Head(results).lighthouse
           n == Len(results)
<1>1. /\ h \in Lighthouses /\ h = results[1].lighthouse /\ 1 \in Places
      /\ Head(results) \in PollResult /\ Head(results) = results[1]
      /\ results' \in Seq(PollResult) /\ Places' = 1..(n - 1)
      /\ \A i \in 1..(n - 1) : results'[i] = results[i + 1] /\ i + 1 \in Places
  BY HeadFacts DEF IInv, Saves, Places
<1>2. n \in Nat /\ \A i \in Places : results[i].lighthouse \in Lighthouses
  BY ChannelTypes DEF IInv
<1>3. Accounted' = Accounted \cup {h} /\ h \notin Accounted
  BY SaveAccounts
<1>4. stored' \subseteq stored \cup {NewRow} /\ (NewRow \in stored' => NewRow \in stored \/ ~cancelled)
  BY DEF Saves, StoresIt
<1>5. NewRow \in StoredPoll /\ NewRow.round = round /\ NewRow.result = Head(results)
  BY <1>1 DEF NewRow, StoredPoll, IInv, TypeOK
<1>6. \A e \in errs' : e \in errs \/ (e \in Errors /\ (e[2] = "canceled" => cancelled'))
  BY <1>1 DEF Saves, ReportsIt, Errors
<1> HIDE DEF h, n, NewRow
<1>0. cancelled' \in BOOLEAN /\ (cancelled => cancelled')
  <2>1. cancelled \in BOOLEAN
    BY DEF IInv, TypeOK
  <2>2. cancelled' = cancelled \/ cancelled' = TRUE
    BY DEF Saves
  <2> QED
    BY <2>1, <2>2
<1>7. TypeOK'
  <2>1. stored' \subseteq StoredPoll /\ errs' \subseteq Errors
    BY <1>4, <1>5, <1>6 DEF IInv, TypeOK
  <2> QED
    BY <1>1, <2>1 DEF Saves, IInv, TypeOK
<1>8. PhaseOK'
  BY DEF Saves, IInv, PhaseOK, AllReturned
<1>9. HistoryOK'
  <2>1. \A s \in stored' : s.round <= round
    BY <1>4, <1>5 DEF IInv, HistoryOK, TypeOK
  <2>2. \A e \in errs' : e[2] = "canceled" => cancelled'
    BY <1>0, <1>6 DEF IInv, HistoryOK
  <2> QED
    BY <2>1, <2>2 DEF Saves, HistoryOK
<1>10. CutOK'
  <2>1. \A s \in stored' : ~s.result.cut
    BY <1>1, <1>4, <1>5 DEF IInv, CutOK, ShutdownIsNoOutage
  <2>2. \A i \in Places' : results'[i].cut => cancelled
    BY <1>1 DEF IInv, CutOK
  <2>3. \A l \in Lighthouses : poll'[l].cut => cancelled'
    BY <1>0 DEF Saves, IInv, CutOK
  <2> QED
    BY <1>0, <2>1, <2>2, <2>3 DEF CutOK, ShutdownIsNoOutage
<1>11. ChannelOK'
  <2>1. ASSUME NEW i \in 1..(n - 1) PROVE results[i + 1].lighthouse # h
    <3>0. i \in Int /\ i >= 1
      BY <1>2
    <3>1. i + 1 \in Places /\ i + 1 # 1
      BY <1>1, <3>0
    <3>2. \A j, k \in Places : results[j].lighthouse = results[k].lighthouse => j = k
      BY DEF IInv, ChannelOK
    <3> QED
      BY <1>1, <3>1, <3>2
  <2>2. \A i, j \in Places' : results'[i].lighthouse = results'[j].lighthouse => i = j
    <3> SUFFICES ASSUME NEW i \in 1..(n - 1), NEW j \in 1..(n - 1),
                        results[i + 1].lighthouse = results[j + 1].lighthouse
                 PROVE  i = j
      BY <1>1
    <3>1. i + 1 = j + 1
      BY <1>1 DEF IInv, ChannelOK
    <3> QED
      BY <1>2, <3>1
  <2>3. \A i \in Places' : poll[results'[i].lighthouse].pc = "none" /\ results'[i].lighthouse \notin Accounted'
    BY <1>1, <1>3, <2>1 DEF IInv, ChannelOK, Active
  <2> QED
    BY <2>2, <2>3 DEF ChannelOK, Active, Saves
<1>12. NobodyLost'
  <2>1. ASSUME NEW l \in Lighthouses, l # h, \E i \in Places : results[i].lighthouse = l
        PROVE  \E i \in Places' : results'[i].lighthouse = l
    <3>1. PICK i \in Places : results[i].lighthouse = l
      BY <2>1
    <3>2. i # 1
      BY <1>1, <2>1, <3>1
    <3>3. i - 1 \in 1..(n - 1) /\ (i - 1) + 1 = i
      BY <1>2, <3>2 DEF Places, n
    <3>4. results'[i - 1].lighthouse = l
      BY <1>1, <3>1, <3>3
    <3> QED
      BY <1>1, <3>3, <3>4
  <2> QED
    BY <1>0, <1>3, <2>1 DEF IInv, NobodyLost, Saves, Active
<1> QED
  BY <1>7, <1>8, <1>9, <1>10, <1>11, <1>12 DEF IInv

\* runRound returns with the errors it has, and one of the refresh at most.
LEMMA ReturnInvariant ==
    ASSUME IInv, NothingToRefresh \/ RefreshOk \/ RefreshFails PROVE IInv'
<1>1. /\ main = "drain" /\ results = <<>>
      /\ main' = (IF once THEN "returned" ELSE "select")
      /\ exit' = (IF once THEN ExitOf(errs') ELSE exit)
      /\ refreshed' \in {refreshed, refreshed \cup {round}}
      /\ UNCHANGED <<once, round, poll, orphans, results, closed, stored, ticker, cancelled>>
  BY DEF NothingToRefresh, RefreshOk, RefreshFails, RoundReturns
<1>2. \/ errs' = errs
      \/ \E cause \in Cause : errs' = errs \cup {<<NoView, cause>>}
  BY DEF NothingToRefresh, RefreshOk, RefreshFails, RoundReturns
<1>3. \A e \in errs' : e \in errs \/ (e \in Errors /\ (e[2] = "canceled" => cancelled))
  BY <1>2 DEF Cause, Errors
<1>4. exit' \in {"running", "0", "1"} /\ (main' # "returned" => exit' = "running")
  BY <1>1 DEF ExitOf, IInv, TypeOK, PhaseOK
<1>5. Places = {} /\ Places' = {}
  BY <1>1 DEF Places
<1>6. TypeOK'
  <2>1. errs' \subseteq Errors
    BY <1>3 DEF IInv, TypeOK
  <2>2. refreshed' \subseteq 1..MaxRounds
    BY <1>1 DEF IInv, TypeOK
  <2>3. main' \in {"wait", "drain", "select", "returned"}
    BY <1>1
  <2> QED
    BY <1>1, <1>4, <2>1, <2>2, <2>3 DEF IInv, TypeOK
<1>7. PhaseOK'
  BY <1>1, <1>4 DEF IInv, PhaseOK, AllReturned
<1>8. HistoryOK'
  BY <1>1, <1>3 DEF IInv, HistoryOK
<1>9. CutOK'
  BY <1>1, <1>5 DEF IInv, CutOK, ShutdownIsNoOutage
<1>10. ChannelOK' /\ NobodyLost'
  BY <1>1, <1>5 DEF ChannelOK, NobodyLost
<1> QED
  BY <1>6, <1>7, <1>8, <1>9, <1>10 DEF IInv

\* A new round starts from an empty channel, with everyone to be polled.
LEMMA TickInvariant == ASSUME IInv, SelectTick PROVE IInv'
<1>1. /\ main' = "wait" /\ round' = round + 1 /\ round < MaxRounds /\ round \in 1..MaxRounds
      /\ closed' = FALSE /\ errs' = {} /\ ticker' = FALSE
      /\ UNCHANGED <<once, orphans, results, stored, refreshed, cancelled, exit>>
      /\ results = <<>> /\ exit = "running"
  BY DEF SelectTick, IInv, TypeOK, PhaseOK
<1>2. /\ poll' \in [Lighthouses -> Poll]
      /\ \A l \in Lighthouses : poll'[l].pc # "none" /\ ~poll'[l].cut
  BY GoroutineStarts DEF SelectTick
<1>3. round' \in 1..MaxRounds
  BY <1>1 DEF RoundAssumption
<1>4. Places' = {}
  BY <1>1 DEF Places
<1>5. TypeOK'
  BY <1>1, <1>2, <1>3 DEF IInv, TypeOK
<1>6. PhaseOK'
  BY <1>1 DEF PhaseOK
<1>7. HistoryOK'
  <2>1. \A s \in stored : s.round \in Int /\ s.round <= round
    BY DEF IInv, TypeOK, StoredPoll, HistoryOK
  <2> QED
    BY <1>1, <2>1 DEF HistoryOK
<1>8. CutOK'
  BY <1>1, <1>2, <1>4 DEF IInv, CutOK, ShutdownIsNoOutage
<1>9. ChannelOK' /\ NobodyLost'
  BY <1>2, <1>4 DEF ChannelOK, NobodyLost, Active
<1> QED
  BY <1>5, <1>6, <1>7, <1>8, <1>9 DEF IInv

\* The other steps move Run, the ticker or the signal only.
LEMMA ControlInvariant ==
    ASSUME IInv, WaitEnds \/ TickerFires \/ SelectDone \/ Cancel \/ Exited PROVE IInv'
<1>1. /\ UNCHANGED <<once, round, poll, orphans, results, errs, stored, refreshed>>
      /\ cancelled' \in BOOLEAN /\ (cancelled => cancelled') /\ ticker' \in BOOLEAN
  <2>1. UNCHANGED <<once, round, poll, orphans, results, errs, stored, refreshed>>
    BY DEF WaitEnds, TickerFires, SelectDone, Cancel, Exited, vars
  <2>2. cancelled \in BOOLEAN /\ ticker \in BOOLEAN
    BY DEF IInv, TypeOK
  <2>3. cancelled' = cancelled \/ cancelled' = TRUE
    BY DEF WaitEnds, TickerFires, SelectDone, Cancel, Exited, vars
  <2>4. ticker' = ticker \/ ticker' = TRUE
    BY DEF WaitEnds, TickerFires, SelectDone, Cancel, Exited, vars
  <2> QED
    BY <2>1, <2>2, <2>3, <2>4
<1>2. \/ UNCHANGED <<main, closed, exit>>
      \/ main = "wait" /\ AllReturned /\ main' = "drain" /\ closed' = TRUE /\ exit' = exit
      \/ main = "select" /\ main' = "returned" /\ closed' = closed /\ exit' \in {"0", "1"}
  BY DEF WaitEnds, TickerFires, SelectDone, Cancel, Exited, vars, ExitOf
<1>3. Accounted' = Accounted /\ Places' = Places
  BY <1>1, AccountedKept DEF Places
<1>4. TypeOK'
  <2>1. main' \in {"wait", "drain", "select", "returned"} /\ exit' \in {"running", "0", "1"}
        /\ closed' \in BOOLEAN
    BY <1>2 DEF IInv, TypeOK
  <2> QED
    BY <1>1, <2>1 DEF IInv, TypeOK
<1>5. PhaseOK'
  BY <1>1, <1>2 DEF IInv, PhaseOK, AllReturned
<1>6. HistoryOK'
  BY <1>1, <1>2 DEF IInv, HistoryOK
<1>7. CutOK'
  BY <1>1, <1>3 DEF IInv, CutOK, ShutdownIsNoOutage
<1>8. ChannelOK'
  BY <1>1, <1>3 DEF IInv, ChannelOK, Active
<1>9. NobodyLost'
  BY <1>1, <1>2, <1>3 DEF IInv, NobodyLost, Active
<1> QED
  BY <1>4, <1>5, <1>6, <1>7, <1>8, <1>9 DEF IInv

\* IInv holds in every reachable state.
LEMMA InductiveInvariant == Spec => []IInv
<1>1. Init => IInv
  BY InitInvariant
<1>2. IInv /\ [Next]_vars => IInv'
  <2> SUFFICES ASSUME IInv, [Next]_vars PROVE IInv'
    OBVIOUS
  <2>1. ASSUME NEW l \in Lighthouses, PollLighthouse(l) PROVE IInv'
    BY <2>1, PollInvariant
  <2>2. CASE SaveOk \/ SaveFails \/ SaveInterrupted
    BY <2>2, SaveSteps, SaveInvariant
  <2>3. CASE NothingToRefresh \/ RefreshOk \/ RefreshFails
    BY <2>3, ReturnInvariant
  <2>4. CASE SelectTick
    BY <2>4, TickInvariant
  <2>5. CASE WaitEnds \/ TickerFires \/ SelectDone \/ Cancel \/ Exited
    BY <2>5, ControlInvariant
  <2>6. CASE UNCHANGED vars
    <3>1. Accounted' = Accounted /\ Places' = Places
      BY <2>6, AccountedKept DEF vars, Places
    <3> QED
      BY <2>6, <3>1 DEF vars, IInv, TypeOK, PhaseOK, AllReturned, HistoryOK, CutOK,
                        ShutdownIsNoOutage, ChannelOK, NobodyLost, Active
  <2> QED
    BY <2>1, <2>2, <2>3, <2>4, <2>5, <2>6 DEF Next, Collector
<1> QED
  BY <1>1, <1>2, PTL DEF Spec

-----------------------------------------------------------------------------
(***************************************************************************)
(* The properties of the runs                                              *)
(***************************************************************************)
\* Every variable of the collector keeps its type, with any number of
\* lighthouses, commands and rounds.
THEOREM TypeCorrect == Spec => []TypeOK
BY InductiveInvariant, PTL DEF IInv

\* collectRound's channel: nobody sends after close(results), and there is room
\* for whoever has a result to send, so no goroutine blocks on it and wg.Wait is
\* not held up by it.
THEOREM ChannelNeverFullNorClosed == Spec => []ChannelSafe
<1>1. IInv => ChannelSafe
  <2> SUFFICES ASSUME IInv PROVE ChannelSafe
    OBVIOUS
  <2>1. closed => AllReturned
    BY DEF IInv, PhaseOK
  <2>2. ASSUME NEW l \in Lighthouses, poll[l].pc = "send" PROVE Len(results) < Capacity
    BY <2>2, RoomForAll DEF IInv, Active
  <2> QED
    BY <2>1, <2>2 DEF ChannelSafe
<1> QED
  BY <1>1, InductiveInvariant, PTL

\* SavePollResult is given the root context, so no result of a poll that the
\* shutdown cut short is stored as an outage.
THEOREM NoFalseOutage == Spec => []ShutdownIsNoOutage
<1>1. IInv => ShutdownIsNoOutage
  BY DEF IInv, CutOK
<1> QED
  BY <1>1, InductiveInvariant, PTL

\* runRound loses the poll of no lighthouse: when it returns, each one is in the
\* database or named by its error, unless a signal came in; and it says so when
\* the views over new results are not fresh.
THEOREM EveryPollAccounted == Spec => NoPollLost
<1>1. IInv /\ [Next]_vars => [RoundEnds => RoundAccounts]_vars
  <2> SUFFICES ASSUME IInv, Next, RoundEnds PROVE RoundAccounts
    BY DEF vars
  <2>1. main = "drain" /\ main' # "drain"
    BY DEF RoundEnds
  <2>2. NothingToRefresh \/ RefreshOk \/ RefreshFails
    <3>1. ASSUME NEW l \in Lighthouses, PollLighthouse(l) PROVE main' = main
      BY <3>1, PollMoves DEF IInv, roundVars
    <3>2. ASSUME SaveOk \/ SaveFails \/ SaveInterrupted PROVE main' = main
      BY <3>2, SaveSteps DEF Saves
    <3> QED
      BY <2>1, <3>1, <3>2
      DEF Next, Collector, WaitEnds, TickerFires, SelectTick, SelectDone, Cancel, Exited, vars
  <2>3. results = <<>> /\ Places = {}
    BY <2>2 DEF NothingToRefresh, RefreshOk, RefreshFails, Places
  <2>4. errs \subseteq errs'
    BY <2>2 DEF NothingToRefresh, RefreshOk, RefreshFails, RoundReturns
  <2>5. \A l \in Lighthouses : cancelled \/ l \in Accounted
    BY <2>1, <2>3 DEF IInv, NobodyLost, PhaseOK, AllReturned, Active
  <2>6. \A l \in Lighthouses :
          \/ \E s \in stored : s.round = round /\ s.result.lighthouse = l
          \/ ErrorAbout(l, errs')
          \/ cancelled
    BY <2>4, <2>5 DEF Accounted, ErrorAbout
  <2>7. ASSUME RefreshViews, Saved # {} PROVE round \in refreshed' \/ ErrorAbout(NoView, errs')
    <3>1. CASE RefreshOk
      BY <3>1 DEF RefreshOk
    <3>2. CASE RefreshFails
      <4>1. PICK cause \in Cause : errs' = errs \cup {<<NoView, cause>>}
        BY <3>2 DEF RefreshFails, RoundReturns
      <4>2. <<NoView, cause>> \in errs' /\ <<NoView, cause>>[1] = NoView
        BY <4>1
      <4> QED
        BY <4>2 DEF ErrorAbout
    <3> QED
      BY <2>2, <2>7, <3>1, <3>2 DEF NothingToRefresh
  <2> QED
    BY <2>6, <2>7 DEF RoundAccounts
<1> QED
  BY <1>1, InductiveInvariant, PTL DEF Spec, NoPollLost

-----------------------------------------------------------------------------
(***************************************************************************)
(* The collector implements the loop that the process relies on            *)
(***************************************************************************)
\* What the goroutines do is not visible in the loop.
LEMMA PollStutters ==
    ASSUME IInv, NEW l \in Lighthouses, PollLighthouse(l) PROVE UNCHANGED Loop!loopVars
<1>1. UNCHANGED roundVars
  BY PollMoves DEF IInv
<1> QED
  BY <1>1, AccountedKept DEF Loop!loopVars, roundVars

\* wg.Wait is the end of polling.
LEMMA WaitIsPollsEnd == ASSUME WaitEnds PROVE Loop!PollsEnd
<1>1. Accounted' = Accounted
  BY AccountedKept DEF WaitEnds
<1> QED
  BY <1>1 DEF WaitEnds, Loop!PollsEnd

\* A result that leaves the channel is accounted for, that of no other lighthouse.
LEMMA SaveIsAccount ==
    ASSUME IInv, Saves PROVE \E l \in Lighthouses : Loop!Account(l)
<1> DEFINE h == Head(results).lighthouse
<1>1. h \in Lighthouses
  BY HeadFacts DEF IInv, Saves
<1>2. Accounted' = Accounted \cup {h} /\ h \notin Accounted
  BY SaveAccounts
<1>3. (errs' # {}) \in {errs # {}, TRUE}
  <2>1. errs \subseteq errs'
    BY DEF Saves, ReportsIt
  <2> QED
    BY <2>1
<1>4. main = "drain" /\ UNCHANGED <<once, main, exit>> /\ cancelled' \in {cancelled, TRUE}
  BY DEF Saves
<1>5. Loop!Account(h)
  BY <1>2, <1>3, <1>4 DEF Loop!Account
<1> QED
  BY <1>1, <1>5

\* runRound returns only when everyone is accounted for, or after a signal.
LEMMA ReturnIsEndRound ==
    ASSUME IInv, NothingToRefresh \/ RefreshOk \/ RefreshFails PROVE Loop!EndRound
<1>1. /\ main = "drain" /\ results = <<>>
      /\ main' = (IF once THEN "returned" ELSE "select")
      /\ exit' = (IF once THEN ExitOf(errs') ELSE exit)
      /\ UNCHANGED <<once, round, stored, cancelled>>
  BY DEF NothingToRefresh, RefreshOk, RefreshFails, RoundReturns
<1>2. \/ errs' = errs
      \/ \E cause \in Cause : errs' = errs \cup {<<NoView, cause>>}
  BY DEF NothingToRefresh, RefreshOk, RefreshFails, RoundReturns
<1>3. Places = {}
  BY <1>1 DEF Places
<1>4. cancelled \/ Accounted = Lighthouses
  BY <1>1, <1>3 DEF IInv, NobodyLost, PhaseOK, AllReturned, Active, Accounted
<1>5. Accounted' = Accounted
  BY <1>1, <1>2 DEF Accounted, ErrorAbout, RoundAssumption
<1>6. errs \subseteq errs' /\ (errs' # {}) \in {errs # {}, TRUE}
  BY <1>2
<1>7. \A e \in errs' : e[2] = "canceled" => cancelled
  BY <1>2 DEF Cause, IInv, HistoryOK
<1>8. ExitOf(errs') \in Loop!Outcome
  BY <1>1, <1>7 DEF ExitOf, Loop!Outcome
<1> QED
  BY <1>1, <1>4, <1>5, <1>6, <1>8 DEF Loop!EndRound

LEMMA TickIsNextRound == ASSUME IInv, SelectTick PROVE Loop!NextRound
<1>1. Accounted' = {}
  <2>1. IInv' /\ main' = "wait"
    BY TickInvariant DEF SelectTick
  <2> QED
    BY <2>1 DEF IInv, TypeOK, HistoryOK, Accounted, ErrorAbout, StoredPoll
<1> QED
  BY <1>1 DEF SelectTick, Loop!NextRound

LEMMA DoneIsReturn == ASSUME IInv, SelectDone PROVE Loop!Return
<1>1. ExitOf({<<NoView, "canceled">>}) = "0"
  BY DEF ExitOf
<1>2. Accounted' = Accounted
  BY AccountedKept DEF SelectDone
<1> QED
  BY <1>1, <1>2 DEF SelectDone, Loop!Return

\* The steps of Run, the goroutines and the signal are steps of CollectorLoop or
\* leave it alone: no lighthouse is accounted for twice in a round, runRound does
\* not end before all are, and the exit status of main.go hides no error unless
\* a signal came in.
THEOREM RoundImplementsLoop == Spec => ImplementsLoop
<1>1. Init => Loop!LoopInit
  BY DEF Init, Loop!LoopInit, Accounted, ErrorAbout
<1>2. IInv /\ [Next]_vars => [Loop!LoopNext]_Loop!loopVars
  <2> SUFFICES ASSUME IInv, [Next]_vars PROVE Loop!LoopNext \/ UNCHANGED Loop!loopVars
    OBVIOUS
  <2>1. ASSUME NEW l \in Lighthouses, PollLighthouse(l) PROVE UNCHANGED Loop!loopVars
    BY <2>1, PollStutters
  <2>2. CASE SaveOk \/ SaveFails \/ SaveInterrupted
    BY <2>2, SaveSteps, SaveIsAccount DEF Loop!LoopNext
  <2>3. CASE NothingToRefresh \/ RefreshOk \/ RefreshFails
    BY <2>3, ReturnIsEndRound DEF Loop!LoopNext
  <2>4. CASE SelectTick
    BY <2>4, TickIsNextRound DEF Loop!LoopNext
  <2>5. CASE SelectDone
    BY <2>5, DoneIsReturn DEF Loop!LoopNext
  <2>6. CASE Cancel
    <3>1. Accounted' = Accounted
      BY <2>6, AccountedKept DEF Cancel
    <3> QED
      BY <2>6, <3>1 DEF Cancel, Loop!Cancel, Loop!LoopNext
  <2>7. CASE TickerFires \/ Exited \/ UNCHANGED vars
    <3>1. Accounted' = Accounted
      BY <2>7, AccountedKept DEF TickerFires, Exited, vars
    <3> QED
      BY <2>7, <3>1 DEF TickerFires, Exited, vars, Loop!loopVars
  <2>8. CASE WaitEnds
    BY <2>8, WaitIsPollsEnd DEF Loop!LoopNext
  <2> QED
    BY <2>1, <2>2, <2>3, <2>4, <2>5, <2>6, <2>7, <2>8 DEF Next, Collector
<1> QED
  BY <1>1, <1>2, InductiveInvariant, PTL DEF Spec, ImplementsLoop, Loop!LoopSpec
=============================================================================
