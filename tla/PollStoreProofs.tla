--------------------------- MODULE PollStoreProofs ---------------------------
(***************************************************************************)
(* Theorems about PollStore for every value of its constants.              *)
(***************************************************************************)
EXTENDS PollStore, FiniteSetTheorems, TLAPS

USE PeriodAssumption, StoreAssumption

-----------------------------------------------------------------------------
(***************************************************************************)
(* Lemmas about the operators                                              *)
(***************************************************************************)
\* What is expired stays expired as time passes: the retention periods are
\* constants, and validateRetention refuses negative ones.
LEMMA ExpiredLater ==
    ASSUME NEW at \in Nat, NEW t \in Nat
    PROVE  /\ Expired(at, t) => Expired(at, t + 1)
           /\ RawExpired(at, t) => RawExpired(at, t + 1)
BY DEF Expired, RawExpired

\* A row in a chunk that drop_chunks removes was observed before the cutoff.
LEMMA DroppedIsOlder ==
    ASSUME NEW at \in Nat, NEW cutoff \in Int, InDroppedChunk(at, cutoff)
    PROVE  at < cutoff
BY DEF InDroppedChunk

\* The rows of a poll have the types of their tables.
LEMMA RowTypes ==
    ASSUME NEW id \in Nat, NEW result \in Result,
           NEW cs \in SUBSET Commands, NEW ts \in SUBSET NormalizedTables
    PROVE  /\ RawRows(id, result, cs) \subseteq RawRow
           /\ EntryRows(id, result, ts) \subseteq EntryRow
BY DEF RawRows, EntryRows, RawRow, EntryRow, Result

\* The private records are well typed when they are idle.
LEMMA IdleTypes ==
    /\ IdleTx \in Tx
    /\ \A last \in {"none", "ok", "err"} : Returned(last) \in Pruner
BY DEF IdleTx, Returned, PrunerAt, Tx, TxSteps, Pruner, PruneSteps

-----------------------------------------------------------------------------
(***************************************************************************)
(* What a step that leaves part of the state alone preserves               *)
(***************************************************************************)
\* A step that changes no committed row and no acknowledgement keeps what
\* readers rely on.
LEMMA ReadersFrame ==
    ASSUME IInv, UNCHANGED <<now, tables>>, UNCHANGED acked
    PROVE  NoOrphans' /\ UnexpiredRunsIntact' /\ AckedRunsKept'
BY DEF IInv, NoOrphans, UnexpiredRunsIntact, AckedRunsKept, tables

\* A step that leaves poll_runs alone keeps its key.
LEMMA RunsFrame ==
    ASSUME IInv, UNCHANGED pollRuns, nextId' \in Nat, nextId <= nextId'
    PROVE  RunsOK'
<1>1. pollRuns \subseteq PollRun /\ nextId \in Nat
  BY DEF IInv, TypeOK
<1> QED
  BY <1>1 DEF IInv, RunsOK, PollRun

\* A pruner that does not move keeps its batch while time passes, the
\* sequence grows, and rows are deleted.
LEMMA PrunerFrame ==
    ASSUME IInv, NEW i \in Instances, prune'[i] = prune[i],
           now' \in Nat, now <= now', nextId' \in Nat, nextId <= nextId',
           pollRuns' \subseteq pollRuns
    PROVE  PrunerOK(prune[i])'
<1>1. /\ pollRuns \subseteq PollRun /\ nextId \in Nat /\ now \in Nat
      /\ prune[i] \in Pruner
  BY DEF IInv, TypeOK
<1>2. PrunerOK(prune[i])
  BY DEF IInv, PrunersOK
<1>3. /\ prune[i].startedAt \in Nat
      /\ prune[i].ids \subseteq Nat
  BY <1>1 DEF Pruner
<1> QED
  BY <1>1, <1>2, <1>3 DEF PrunerOK

\* A step of the pruner that adds no identifier to a batch, and any step that
\* deletes rows, leaves every open transaction as it should be.
LEMMA TransactionsFrame ==
    ASSUME IInv, UNCHANGED <<now, tx, nextId>>, pollRuns' \subseteq pollRuns,
           \A j \in Instances : \A id \in prune'[j].ids :
              id \in prune[j].ids \/ \E r \in pollRuns : r.id = id
    PROVE  TransactionsOK'
<1> SUFFICES ASSUME NEW i \in Instances, tx[i].pc # "idle"
             PROVE  OpenTx(i)'
  BY DEF TransactionsOK
<1>1. OpenTx(i)
  BY DEF IInv, TransactionsOK
<1> QED
  BY <1>1 DEF OpenTx

-----------------------------------------------------------------------------
(***************************************************************************)
(* The initial state, and the steps of SavePollResult                      *)
(***************************************************************************)
\* The empty database with everything idle satisfies the invariant.
LEMMA InitIInv == Init => IInv
<1> SUFFICES ASSUME Init PROVE IInv
  OBVIOUS
<1>1. TypeOK
  BY IdleTypes DEF Init, TypeOK
<1>2. TransactionsOK
  BY DEF Init, TransactionsOK, IdleTx
<1>3. PrunersOK
  BY DEF Init, PrunersOK, PrunerOK, Returned, PrunerAt
<1>4. RunsOK /\ NoOrphans /\ UnexpiredRunsIntact /\ AckedRunsKept
  BY DEF Init, RunsOK, NoOrphans, UnexpiredRunsIntact, AckedRunsKept
<1> QED
  BY <1>1, <1>2, <1>3, <1>4 DEF IInv

\* A step inside one transaction changes only tx[i], and keeps the invariant
\* if tx[i] still is what SavePollResult has got to.
LEMMA PrivateStep ==
    ASSUME IInv, NEW i \in Instances, NEW t \in Tx,
           tx' = [tx EXCEPT ![i] = t],
           UNCHANGED <<now, tables, acked, prune>>,
           failures' \in Nat, nextId' \in Nat, nextId <= nextId',
           t.pc # "idle" => OpenTx(i)'
    PROVE  IInv'
<1> USE DEF tables
<1>1. TypeOK'
  BY DEF IInv, TypeOK
<1>2. TransactionsOK'
  <2> SUFFICES ASSUME NEW j \in Instances, tx'[j].pc # "idle"
               PROVE  OpenTx(j)'
    BY DEF TransactionsOK
  <2>1. tx'[i] = t
    BY DEF IInv, TypeOK
  <2>2. CASE j = i
    BY <2>1, <2>2
  <2>3. CASE j # i
    <3>1. tx'[j] = tx[j] /\ OpenTx(j)
      BY <2>3 DEF IInv, TypeOK, TransactionsOK
    <3>2. tx[j].id \in Nat /\ nextId \in Nat
      BY DEF IInv, TypeOK, Tx
    <3>3. tx[j].id < nextId'
      BY <3>1, <3>2 DEF OpenTx
    <3>4. t.pc # "idle" => t.id # tx[j].id
      BY <2>1, <2>3, <3>1 DEF OpenTx
    <3>5. \A k \in Instances \ {j} : tx'[k].pc # "idle" => tx'[k].id # tx[j].id
      BY <2>1, <3>1, <3>4 DEF OpenTx, IInv, TypeOK
    <3> QED
      BY <3>1, <3>3, <3>5 DEF OpenTx
  <2> QED
    BY <2>2, <2>3
<1>3. RunsOK'
  BY RunsFrame
<1>4. PrunersOK'
  <2>1. now \in Nat
    BY DEF IInv, TypeOK
  <2> QED
    BY <2>1, PrunerFrame DEF PrunersOK
<1> QED
  BY <1>1, <1>2, <1>3, <1>4, ReadersFrame DEF IInv

\* The same for a statement that neither fails nor draws from the sequence.
LEMMA StatementStep ==
    ASSUME IInv, NEW i \in Instances, NEW t \in Tx,
           tx' = [tx EXCEPT ![i] = t],
           UNCHANGED <<now, tables, nextId, acked, prune, failures>>,
           t.pc # "idle" => OpenTx(i)'
    PROVE  IInv'
<1>1. nextId' \in Nat /\ nextId <= nextId' /\ failures' \in Nat
  BY DEF IInv, TypeOK
<1> QED
  BY <1>1, PrivateStep

\* CreatePollRun opens a transaction under a fresh identifier.
LEMMA CreatePollRunStep ==
    ASSUME IInv, NEW i \in Instances, CreatePollRun(i)
    PROVE  IInv'
<1>1. PICK result \in PollResults(now) :
         tx' = [tx EXCEPT ![i] = NewTx(nextId, result)]
  BY DEF CreatePollRun
<1> DEFINE t == [pc |-> "raw", id |-> nextId, result |-> result,
                 success |-> FALSE, raw |-> {}, filled |-> {}]
<1>2. tx' = [tx EXCEPT ![i] = t]
  BY <1>1 DEF NewTx
<1>3. /\ nextId \in Nat /\ now \in Nat /\ failures \in Nat
      /\ pollRuns \subseteq PollRun /\ tx \in [Instances -> Tx]
  BY DEF IInv, TypeOK
<1>4. result \in Result
  BY <1>3 DEF PollResults, Result
<1>5. t \in Tx
  BY <1>3, <1>4 DEF Tx, TxSteps
<1>6. UNCHANGED <<now, tables, acked, prune, failures>> /\ nextId' = nextId + 1
  BY DEF CreatePollRun
<1>7. tx'[i] = t
  BY <1>2, <1>3
<1>8. OpenTx(i)'
  <2>1. nextId < nextId' /\ nextId' \in Nat
    BY <1>3, <1>6
  <2>2. \A r \in pollRuns : r.id # nextId
    BY <1>3 DEF IInv, RunsOK, PollRun
  <2>3. \A j \in Instances : nextId \notin prune[j].ids
    BY <1>3 DEF IInv, PrunersOK, PrunerOK
  <2>4. \A j \in Instances \ {i} : tx'[j].pc # "idle" => tx'[j].id # nextId
    BY <1>2, <1>3 DEF IInv, TransactionsOK, OpenTx, Tx
  <2>5. TablesDone("raw") = {}
    BY DEF TablesDone
  <2>6. result.startedAt >= now - SaveLag /\ result.startedAt <= now
    BY <1>3 DEF PollResults
  <2> QED
    BY <1>4, <1>6, <1>7, <2>1, <2>2, <2>3, <2>4, <2>5, <2>6 DEF OpenTx, tables
<1> QED
  <2> HIDE DEF t
  <2>1. nextId' \in Nat /\ nextId <= nextId' /\ failures' \in Nat
    BY <1>3, <1>6
  <2> QED
    BY <1>2, <1>5, <1>6, <1>8, <2>1, PrivateStep

\* Each statement of the transaction goes one step further.
LEMMA InsertRawCommandPayloadStep ==
    ASSUME IInv, NEW i \in Instances, InsertRawCommandPayload(i)
    PROVE  IInv'
<1>1. /\ tx \in [Instances -> Tx] /\ nextId \in Nat /\ failures \in Nat
      /\ tx[i].pc = "raw" /\ tx[i] \in Tx
  BY DEF IInv, TypeOK, InsertRawCommandPayload
<1>2. OpenTx(i)
  BY <1>1 DEF IInv, TransactionsOK
<1>3. UNCHANGED <<now, tables, nextId, acked, prune, failures>>
  BY DEF InsertRawCommandPayload
<1>4. TablesDone("hostmap_entries") = TablesDone("raw")
  BY DEF TablesDone
<1>5. ASSUME NEW c \in Commands, tx' = [tx EXCEPT ![i].raw = @ \cup {c}]
      PROVE  IInv'
  <2> DEFINE t == [tx[i] EXCEPT !.raw = @ \cup {c}]
  <2>1. t \in Tx /\ tx' = [tx EXCEPT ![i] = t] /\ t.pc = "raw"
    BY <1>1, <1>5 DEF Tx
  <2>2. OpenTx(i)'
    BY <1>1, <1>2, <1>3, <1>5 DEF OpenTx, Tx, tables
  <2> HIDE DEF t
  <2> QED
    BY <1>1, <1>3, <2>1, <2>2, StatementStep
<1>6. ASSUME tx[i].raw = Commands, tx' = [tx EXCEPT ![i].pc = "hostmap_entries"]
      PROVE  IInv'
  <2> DEFINE t == [tx[i] EXCEPT !.pc = "hostmap_entries"]
  <2>1. t \in Tx /\ tx' = [tx EXCEPT ![i] = t]
    BY <1>1, <1>6 DEF Tx, TxSteps
  <2>2. OpenTx(i)'
    BY <1>1, <1>2, <1>3, <1>4, <1>6 DEF OpenTx, Tx, tables
  <2> HIDE DEF t
  <2> QED
    BY <1>1, <1>3, <2>1, <2>2, StatementStep
<1> QED
  BY <1>5, <1>6 DEF InsertRawCommandPayload

\* The three tables are filled in the order that TablesDone follows.
LEMMA InsertEntriesStep ==
    ASSUME IInv, NEW i \in Instances,
           NEW table \in NormalizedTables, NEW then \in TxSteps \ {"idle", "raw", "commit"},
           TablesDone(then) = TablesDone(table) \cup {table},
           InsertEntries(i, table, then)
    PROVE  IInv'
<1>1. /\ tx \in [Instances -> Tx] /\ nextId \in Nat /\ failures \in Nat
      /\ tx[i].pc = table /\ tx[i] \in Tx /\ table \notin {"idle", "raw"}
  BY DEF IInv, TypeOK, InsertEntries, NormalizedTables
<1>2. OpenTx(i)
  BY <1>1 DEF IInv, TransactionsOK
<1>3. UNCHANGED <<now, tables, nextId, acked, prune, failures>>
  BY DEF InsertEntries
<1> DEFINE t == [tx[i] EXCEPT !.filled = @ \cup ({table} \cap tx[i].result.fills),
                              !.pc = then]
<1>4. t \in Tx /\ tx' = [tx EXCEPT ![i] = t]
  <2>1. tx[i].filled \cup ({table} \cap tx[i].result.fills) \in SUBSET NormalizedTables
    BY <1>1 DEF Tx
  <2>2. t \in Tx
    BY <1>1, <2>1 DEF Tx
  <2> QED
    BY <2>2 DEF InsertEntries
<1>5. /\ tx'[i].pc = then /\ then \notin {"idle", "raw", "commit"}
      /\ tx'[i].filled = tx[i].filled \cup ({table} \cap tx[i].result.fills)
      /\ tx'[i].id = tx[i].id /\ tx'[i].result = tx[i].result
      /\ tx'[i].raw = tx[i].raw
      /\ \A j \in Instances \ {i} : tx'[j] = tx[j]
  BY <1>1, <1>4 DEF Tx
<1>6. tx'[i].filled = TablesDone(then) \cap tx[i].result.fills
  BY <1>1, <1>2, <1>5 DEF OpenTx
<1>7. OpenTx(i)'
  BY <1>1, <1>2, <1>3, <1>5, <1>6 DEF OpenTx, tables
<1> HIDE DEF t
<1> QED
  BY <1>1, <1>3, <1>4, <1>7, StatementStep

LEMMA InsertTablesStep ==
    ASSUME IInv, NEW i \in Instances,
           \/ InsertHostmapEntries(i)
           \/ InsertLighthouseAddrmap(i)
           \/ InsertRelaySnapshot(i)
    PROVE  IInv'
<1>1. /\ TablesDone("hostmap_entries") = {}
      /\ TablesDone("lighthouse_addrmap_entries") = {"hostmap_entries"}
      /\ TablesDone("relay_snapshots") =
            {"hostmap_entries", "lighthouse_addrmap_entries"}
      /\ TablesDone("complete") = NormalizedTables
  BY DEF TablesDone
<1> QED
  BY <1>1, InsertEntriesStep
     DEF InsertHostmapEntries, InsertLighthouseAddrmap, InsertRelaySnapshot,
         NormalizedTables, TxSteps

LEMMA CompletePollRunStep ==
    ASSUME IInv, NEW i \in Instances, CompletePollRun(i)
    PROVE  IInv'
<1>1. /\ tx \in [Instances -> Tx] /\ nextId \in Nat /\ failures \in Nat
      /\ tx[i].pc = "complete" /\ tx[i] \in Tx
  BY DEF IInv, TypeOK, CompletePollRun
<1>2. OpenTx(i)
  BY <1>1 DEF IInv, TransactionsOK
<1>3. UNCHANGED <<now, tables, nextId, acked, prune, failures>>
  BY DEF CompletePollRun
<1> DEFINE t == [tx[i] EXCEPT !.success = tx[i].result.success, !.pc = "commit"]
<1>4. t \in Tx /\ tx' = [tx EXCEPT ![i] = t]
  BY <1>1, <1>2 DEF Tx, TxSteps, OpenTx, Result, CompletePollRun
<1>5. TablesDone("commit") = TablesDone("complete")
  BY DEF TablesDone
<1>6. OpenTx(i)'
  BY <1>1, <1>2, <1>3, <1>4, <1>5 DEF OpenTx, tables, Tx
<1> HIDE DEF t
<1> QED
  BY <1>1, <1>3, <1>4, <1>6, StatementStep

\* A rollback leaves no trace but the gap in the sequence.
LEMMA RollbackStep ==
    ASSUME IInv, NEW i \in Instances, Rollback(i)
    PROVE  IInv'
<1>1. nextId' \in Nat /\ nextId <= nextId' /\ failures' \in Nat
  BY DEF IInv, TypeOK, Rollback
<1>2. IdleTx \in Tx /\ IdleTx.pc = "idle"
  BY IdleTypes DEF IdleTx
<1> QED
  BY <1>1, <1>2, PrivateStep DEF Rollback

-----------------------------------------------------------------------------
(***************************************************************************)
(* The commit                                                              *)
(***************************************************************************)
\* What becomes visible is one complete poll under a fresh identifier.
LEMMA PublishedRun ==
    ASSUME IInv, NEW i \in Instances, Publish(i)
    PROVE  /\ TxRun(i) \in PollRun
           /\ TxRun(i).id \in Nat /\ TxRun(i).id < nextId
           /\ \A r \in pollRuns : r.id # TxRun(i).id
           /\ TxRun(i).success = TxRun(i).result.success
           /\ TxRun(i).result \in Result
           /\ TxRun(i).result.startedAt >= now - SaveLag
           /\ TxRun(i).result.startedAt <= now
           /\ pollRuns' = pollRuns \cup {TxRun(i)}
           /\ rawPayloads' = rawPayloads \cup
                 RawRows(TxRun(i).id, TxRun(i).result, Commands)
           /\ entries' = entries \cup
                 EntryRows(TxRun(i).id, TxRun(i).result, TxRun(i).result.fills)
<1>1. tx[i] \in Tx /\ tx[i].pc = "commit" /\ OpenTx(i)
  BY DEF IInv, TypeOK, TransactionsOK, Publish
<1>2. /\ TxRun(i).id = tx[i].id /\ TxRun(i).result = tx[i].result
      /\ TxRun(i).success = tx[i].success
      /\ TxRun(i) = [id |-> tx[i].id, success |-> tx[i].success,
                     result |-> tx[i].result]
  BY DEF TxRun
<1>3. tx[i].id \in Nat /\ tx[i].success \in BOOLEAN /\ tx[i].result \in Result
  BY <1>1 DEF Tx, OpenTx
<1>4. TablesDone("commit") = NormalizedTables
  BY DEF TablesDone
<1>5. tx[i].result.fills \subseteq NormalizedTables
  BY <1>3 DEF Result
<1>6. tx[i].raw = Commands /\ tx[i].filled = tx[i].result.fills
  BY <1>1, <1>4, <1>5 DEF OpenTx
<1>7. TxRun(i) \in PollRun
  BY <1>2, <1>3 DEF PollRun
<1> QED
  BY <1>1, <1>2, <1>3, <1>6, <1>7 DEF OpenTx, Publish

\* A commit keeps the invariant whether or not its answer arrives.
LEMMA PublishStep ==
    ASSUME IInv, NEW i \in Instances, Publish(i),
           UNCHANGED <<now, nextId, prune>>, failures' \in Nat,
           acked' = acked \/ acked' = acked \cup {TxRun(i)}
    PROVE  IInv'
<1> DEFINE run == TxRun(i)
<1>1. /\ run \in PollRun /\ run.id \in Nat /\ run.id < nextId
      /\ \A r \in pollRuns : r.id # run.id
      /\ run.success = run.result.success
      /\ run.result \in Result
      /\ run.result.startedAt >= now - SaveLag
      /\ pollRuns' = pollRuns \cup {run}
      /\ rawPayloads' = rawPayloads \cup RawRows(run.id, run.result, Commands)
      /\ entries' = entries \cup EntryRows(run.id, run.result, run.result.fills)
  BY PublishedRun
<1>2. /\ now \in Nat /\ nextId \in Nat
      /\ pollRuns \subseteq PollRun /\ rawPayloads \subseteq RawRow
      /\ entries \subseteq EntryRow /\ acked \subseteq PollRun
      /\ tx \in [Instances -> Tx] /\ prune \in [Instances -> Pruner]
  BY DEF IInv, TypeOK
<1>3. tx' = [tx EXCEPT ![i] = IdleTx] /\ run.id = tx[i].id /\ tx[i].pc = "commit"
  BY DEF Publish, TxRun
<1> HIDE DEF run
<1>4. TypeOK'
  <2>1. run.result.fills \subseteq NormalizedTables
    BY <1>1 DEF Result
  <2>2. /\ RawRows(run.id, run.result, Commands) \subseteq RawRow
        /\ EntryRows(run.id, run.result, run.result.fills) \subseteq EntryRow
    BY <1>1, <2>1, RowTypes
  <2>3. acked' \subseteq PollRun
    BY <1>1, <1>2 DEF run
  <2> QED
    BY <1>1, <1>2, <1>3, <2>2, <2>3, IdleTypes DEF TypeOK
<1>5. TransactionsOK'
  <2> SUFFICES ASSUME NEW j \in Instances, tx'[j].pc # "idle"
               PROVE  OpenTx(j)'
    BY DEF TransactionsOK
  <2>1. j # i
    BY <1>2, <1>3 DEF IdleTx
  <2>2. tx'[j] = tx[j] /\ OpenTx(j)
    BY <1>2, <1>3, <2>1 DEF IInv, TransactionsOK
  <2>3. tx[j].id # run.id
    BY <1>3, <2>1, <2>2 DEF OpenTx
  <2>4. \A k \in Instances \ {j} : tx'[k].pc # "idle" => tx'[k] = tx[k]
    BY <1>2, <1>3 DEF IdleTx
  <2> QED
    BY <1>1, <2>2, <2>3, <2>4 DEF OpenTx
<1>6. RunsOK'
  BY <1>1 DEF IInv, RunsOK
<1>7. NoOrphans'
  BY <1>1 DEF IInv, NoOrphans
<1>8. PrunersOK'
  <2> SUFFICES ASSUME NEW j \in Instances PROVE PrunerOK(prune[j])'
    BY DEF PrunersOK
  <2>1. PrunerOK(prune[j])
    BY DEF IInv, PrunersOK
  <2>2. run.id \notin prune[j].ids
    BY <1>3 DEF IInv, TransactionsOK, OpenTx
  <2>3. ASSUME NEW r \in pollRuns, r.id \in prune[j].ids
        PROVE  r.result.startedAt <= run.result.startedAt
    <3>1. /\ r.result.startedAt \in Nat /\ run.result.startedAt \in Nat
          /\ prune[j].startedAt \in Nat
      BY <1>1, <1>2 DEF PollRun, Result, Pruner
    <3>2. /\ Period > 0 /\ prune[j].startedAt <= now
          /\ r.result.startedAt < prune[j].startedAt - Period
      BY <2>1, <2>3 DEF PrunerOK
    <3> QED
      BY <1>1, <1>2, <3>1, <3>2
  <2> QED
    BY <1>1, <2>1, <2>2, <2>3 DEF PrunerOK
<1>9. UnexpiredRunsIntact'
  BY <1>1 DEF IInv, UnexpiredRunsIntact
<1>10. AckedRunsKept'
  BY <1>1 DEF IInv, AckedRunsKept, run
<1> QED
  BY <1>4, <1>5, <1>6, <1>7, <1>8, <1>9, <1>10 DEF IInv

LEMMA CommitStep ==
    ASSUME IInv, NEW i \in Instances, Commit(i) \/ CommitAnswerLost(i)
    PROVE  IInv'
<1>1. failures \in Nat
  BY DEF IInv, TypeOK
<1>2. CASE Commit(i)
  BY <1>1, <1>2, PublishStep DEF Commit
<1>3. CASE CommitAnswerLost(i)
  BY <1>1, <1>3, PublishStep DEF CommitAnswerLost
<1> QED
  BY <1>2, <1>3

\* Any step of a SavePollResult call.
LEMMA SavePollResultStep ==
    ASSUME IInv, NEW i \in Instances, SavePollResult(i)
    PROVE  IInv'
BY CreatePollRunStep, InsertRawCommandPayloadStep, InsertTablesStep,
   CompletePollRunStep, RollbackStep, CommitStep
   DEF SavePollResult

-----------------------------------------------------------------------------
(***************************************************************************)
(* Time, crashes                                                           *)
(***************************************************************************)
\* As the clock advances less and less is promised.
LEMMA TickStep == ASSUME IInv, Tick PROVE IInv'
<1>1. /\ now \in Nat /\ now' = now + 1 /\ nextId \in Nat
      /\ UNCHANGED <<tables, nextId, tx, acked, prune, failures>>
      /\ pollRuns \subseteq PollRun /\ acked \subseteq PollRun
  BY DEF Tick, IInv, TypeOK
<1>2. /\ \A r \in PollRun : r.id \in Nat /\ r.result \in Result
      /\ \A result \in Result : result.startedAt \in Nat
  BY DEF PollRun, Result
<1>3. TypeOK'
  BY <1>1 DEF IInv, TypeOK, tables
<1>4. TransactionsOK'
  <2> SUFFICES ASSUME NEW i \in Instances, tx[i].pc # "idle"
               PROVE  OpenTx(i)'
    BY <1>1 DEF TransactionsOK
  <2>1. OpenTx(i) /\ tx[i].result.startedAt \in Nat
    BY DEF IInv, TransactionsOK, OpenTx, Result
  <2>2. now - tx[i].result.startedAt < SaveLag
    BY DEF Tick
  <2>3. tx[i].result.startedAt >= now' - SaveLag /\ tx[i].result.startedAt <= now'
    BY <1>1, <2>1, <2>2 DEF OpenTx
  <2> QED
    BY <1>1, <2>1, <2>3 DEF OpenTx, tables
<1>5. RunsOK'
  BY <1>1, RunsFrame DEF tables
<1>6. NoOrphans'
  BY <1>1 DEF IInv, NoOrphans, tables
<1>7. PrunersOK'
  BY <1>1, PrunerFrame DEF PrunersOK, tables
<1>8. UnexpiredRunsIntact'
  <2> SUFFICES ASSUME NEW r \in pollRuns, ~Expired(r.result.startedAt, now + 1)
               PROVE  /\ r.success = r.result.success
                      /\ EntryRows(r.id, r.result, r.result.fills) \subseteq entries
                      /\ \A x \in RawRows(r.id, r.result, Commands) :
                            RawExpired(x.observedAt, now + 1) \/ x \in rawPayloads
    BY <1>1 DEF UnexpiredRunsIntact, tables
  <2>1. ~Expired(r.result.startedAt, now)
    BY <1>1, <1>2, ExpiredLater
  <2>2. RawRows(r.id, r.result, Commands) \subseteq RawRow
    BY <1>1, <1>2, RowTypes
  <2>3. \A x \in RawRows(r.id, r.result, Commands) :
           RawExpired(x.observedAt, now) => RawExpired(x.observedAt, now + 1)
    BY <1>1, <2>2, ExpiredLater DEF RawRow
  <2> QED
    BY <2>1, <2>3 DEF IInv, UnexpiredRunsIntact
<1>9. AckedRunsKept'
  BY <1>1, <1>2, ExpiredLater DEF IInv, AckedRunsKept, tables
<1> QED
  BY <1>3, <1>4, <1>5, <1>6, <1>7, <1>8, <1>9 DEF IInv

-----------------------------------------------------------------------------
(***************************************************************************)
(* The steps of Prune                                                      *)
(***************************************************************************)
\* A step of one pruner that only removes rows keeps everything but the
\* promises to readers, if the pruner's new state is a good one.
LEMMA PrunerMoves ==
    ASSUME IInv, NEW i \in Instances, NEW p \in Pruner,
           prune' = [prune EXCEPT ![i] = p],
           UNCHANGED <<now, nextId, tx, acked>>, failures' \in Nat,
           pollRuns' \subseteq pollRuns, rawPayloads' \subseteq rawPayloads,
           entries' \subseteq entries,
           PrunerOK(prune[i])',
           \A id \in p.ids : id \in prune[i].ids \/ \E r \in pollRuns : r.id = id
    PROVE  TypeOK' /\ TransactionsOK' /\ RunsOK' /\ PrunersOK'
<1>1. prune \in [Instances -> Pruner] /\ now \in Nat /\ nextId \in Nat
  BY DEF IInv, TypeOK
<1>2. TypeOK'
  BY DEF IInv, TypeOK
<1>3. TransactionsOK'
  <2>1. \A j \in Instances : \A id \in prune'[j].ids :
           id \in prune[j].ids \/ \E r \in pollRuns : r.id = id
    BY <1>1
  <2> QED
    BY <2>1, TransactionsFrame
<1>4. RunsOK'
  BY DEF IInv, RunsOK
<1>5. PrunersOK'
  <2> SUFFICES ASSUME NEW j \in Instances PROVE PrunerOK(prune[j])'
    BY DEF PrunersOK
  <2>1. CASE j = i
    BY <2>1
  <2>2. CASE j # i
    <3>1. prune'[j] = prune[j]
      BY <1>1, <2>2
    <3> QED
      BY <1>1, <3>1, PrunerFrame
  <2> QED
    BY <2>1, <2>2
<1> QED
  BY <1>2, <1>3, <1>4, <1>5

\* A step of one pruner that removes nothing keeps the invariant.
LEMMA PrunerOnly ==
    ASSUME IInv, NEW i \in Instances, NEW p \in Pruner,
           prune' = [prune EXCEPT ![i] = p],
           UNCHANGED <<now, tables, nextId, tx, acked>>, failures' \in Nat,
           PrunerOK(prune[i])',
           \A id \in p.ids : id \in prune[i].ids \/ \E r \in pollRuns : r.id = id
    PROVE  IInv'
<1>1. TypeOK' /\ TransactionsOK' /\ RunsOK' /\ PrunersOK'
  BY PrunerMoves DEF tables
<1> QED
  BY <1>1, ReadersFrame DEF IInv

\* The hypertables of the second part of Prune hold raw_command_payloads only
\* when that table has no period of its own.
LEMMA HypertablesOK ==
    /\ PollHypertables \in Seq(Tables)
    /\ RawPeriod > 0 =>
         \A k \in DOMAIN PollHypertables : PollHypertables[k] # "raw_command_payloads"
<1>1. CASE RawPeriod = 0
  <2> DEFINE first == <<"raw_command_payloads">>
             rest == <<"hostmap_entries", "lighthouse_addrmap_entries",
                       "relay_snapshots">>
  <2>1. PollHypertables = first \o rest
    BY <1>1 DEF PollHypertables, pollHypertables
  <2>2. first \in Seq(Tables) /\ rest \in Seq(Tables)
    BY DEF Tables, NormalizedTables
  <2> HIDE DEF first, rest
  <2> QED
    BY <1>1, <2>1, <2>2
<1>2. CASE RawPeriod # 0
  <2>1. PollHypertables =
           <<"hostmap_entries", "lighthouse_addrmap_entries", "relay_snapshots">>
    BY <1>2 DEF PollHypertables, pollHypertables
  <2> QED
    BY <2>1 DEF Tables, NormalizedTables
<1> QED
  BY <1>1, <1>2

\* Entering the second part of Prune, or returning because Period is 0.
LEMMA AtPeriodOK ==
    ASSUME NEW p \in Pruner
    PROVE  /\ AtPeriod(p) \in Pruner
           /\ AtPeriod(p).startedAt \in {0, p.startedAt}
           /\ AtPeriod(p).ids \in {{}, p.ids} /\ AtPeriod(p).payloads = {}
           /\ AtPeriod(p).pc \in {"idle", "drop", "list"}
           /\ AtPeriod(p).pc = "idle" => AtPeriod(p).ids = {}
           /\ AtPeriod(p).pc # "idle" => Period > 0 /\ AtPeriod(p).startedAt = p.startedAt
           /\ RawPeriod > 0 => \A k \in DOMAIN AtPeriod(p).todo :
                                  AtPeriod(p).todo[k] # "raw_command_payloads"
<1>1. CASE Period = 0
  <2>1. AtPeriod(p) = [pc |-> "idle", startedAt |-> 0, todo |-> <<>>, ids |-> {},
                       payloads |-> {}, last |-> "ok"]
    BY <1>1 DEF AtPeriod, Returned, PrunerAt
  <2> QED
    BY <2>1 DEF Pruner, PruneSteps
<1>2. CASE Period # 0
  <2> DEFINE pc == IF Timescale THEN "drop" ELSE "list"
             todo == IF Timescale THEN PollHypertables ELSE <<>>
  <2>1. AtPeriod(p) = [pc |-> pc, startedAt |-> p.startedAt, todo |-> todo,
                       ids |-> p.ids, payloads |-> {}, last |-> p.last]
    BY <1>2 DEF AtPeriod, Pruner
  <2>2. /\ pc \in {"drop", "list"} /\ todo \in Seq(Tables)
        /\ RawPeriod > 0 => \A k \in DOMAIN todo : todo[k] # "raw_command_payloads"
    BY HypertablesOK
  <2> HIDE DEF pc, todo
  <2> QED
    BY <1>2, <2>1, <2>2 DEF Pruner, PruneSteps
<1> QED
  BY <1>1, <1>2

\* A Prune call may return at any point without harm.
LEMMA ReturnedOK ==
    ASSUME IInv, NEW i \in Instances, NEW last \in {"none", "ok", "err"},
           prune' = [prune EXCEPT ![i] = Returned(last)], now' = now
    PROVE  PrunerOK(prune[i])' /\ Returned(last) \in Pruner /\ Returned(last).ids = {}
<1>1. prune'[i] = Returned(last) /\ now \in Nat
  BY DEF IInv, TypeOK
<1>2. /\ Returned(last).pc = "idle" /\ Returned(last).startedAt = 0
      /\ Returned(last).ids = {} /\ Returned(last).payloads = {}
      /\ Returned(last).todo = <<>>
  BY DEF Returned, PrunerAt
<1> QED
  BY <1>1, <1>2, IdleTypes DEF PrunerOK

LEMMA ReturnStep ==
    ASSUME IInv, NEW i \in Instances, NEW last \in {"none", "ok", "err"},
           prune' = [prune EXCEPT ![i] = Returned(last)],
           UNCHANGED <<now, tables, nextId, tx, acked>>, failures' \in Nat
    PROVE  IInv'
<1> DEFINE p == Returned(last)
<1>1. PrunerOK(prune[i])' /\ p \in Pruner /\ p.ids = {}
  BY ReturnedOK
<1> HIDE DEF p
<1>2. prune' = [prune EXCEPT ![i] = p]
  BY DEF p
<1> QED
  BY <1>1, <1>2, PrunerOnly

\* A Prune call starts with empty batches.
LEMMA PruneStartStep ==
    ASSUME IInv, NEW i \in Instances, PruneStart(i)
    PROVE  IInv'
<1>1. /\ now \in Nat /\ failures \in Nat /\ prune \in [Instances -> Pruner]
      /\ UNCHANGED <<now, tables, nextId, tx, acked, failures>>
  BY DEF IInv, TypeOK, PruneStart
<1>2. CASE RawPeriod = 0
  <2> DEFINE s == Started("list")
             p == AtPeriod(s)
  <2>1. prune' = [prune EXCEPT ![i] = p]
    BY <1>2 DEF PruneStart
  <2>2. s \in Pruner /\ s.startedAt = now /\ s.ids = {}
    BY <1>1 DEF Started, PrunerAt, Pruner, PruneSteps
  <2> HIDE DEF s
  <2>3. /\ p \in Pruner /\ p.ids = {} /\ p.payloads = {}
        /\ p.startedAt \in {0, now} /\ p.pc \in {"idle", "drop", "list"}
        /\ p.pc # "idle" => Period > 0
    BY <2>2, AtPeriodOK
  <2>4. PrunerOK(prune[i])'
    BY <1>1, <1>2, <2>1, <2>3 DEF PrunerOK
  <2> HIDE DEF p
  <2> QED
    BY <1>1, <2>1, <2>3, <2>4, PrunerOnly
<1>3. CASE RawPeriod # 0
  <2> DEFINE pc == IF Timescale THEN "raw_drop" ELSE "raw_list"
             p == Started(pc)
  <2>1. prune' = [prune EXCEPT ![i] = p]
    BY <1>3 DEF PruneStart
  <2>2. /\ p \in Pruner /\ p.ids = {} /\ p.payloads = {} /\ p.todo = <<>>
        /\ p.startedAt = now /\ p.pc \in {"raw_drop", "raw_list"}
    BY <1>1 DEF Started, PrunerAt, Pruner, PruneSteps
  <2> HIDE DEF p
  <2>3. PrunerOK(prune[i])'
    BY <1>1, <1>3, <2>1, <2>2 DEF PrunerOK
  <2> QED
    BY <1>1, <2>1, <2>2, <2>3, PrunerOnly
<1> QED
  BY <1>2, <1>3

\* Statements that choose a batch choose expired rows.
LEMMA ListRawPayloadsStep ==
    ASSUME IInv, NEW i \in Instances, ListRawPayloads(i)
    PROVE  IInv'
<1>1. /\ now \in Nat /\ failures \in Nat /\ prune \in [Instances -> Pruner]
      /\ prune[i] \in Pruner /\ rawPayloads \subseteq RawRow
      /\ UNCHANGED <<now, tables, nextId, tx, acked, failures>>
      /\ prune[i].pc = "raw_list" /\ PrunerOK(prune[i])
  BY DEF IInv, TypeOK, PrunersOK, ListRawPayloads
<1>2. PICK batch \in SUBSET {x \in rawPayloads : x.observedAt < RawCutoff(i)} :
         prune' = [prune EXCEPT ![i].pc = "raw_delete", ![i].payloads = batch]
  BY DEF ListRawPayloads, OldestBatches
<1> DEFINE p == [prune[i] EXCEPT !.pc = "raw_delete", !.payloads = batch]
<1>3. p \in Pruner /\ prune' = [prune EXCEPT ![i] = p] /\ p.ids = prune[i].ids
  BY <1>1, <1>2 DEF Pruner, PruneSteps
<1>4. PrunerOK(prune[i])'
  BY <1>1, <1>2, <1>3 DEF PrunerOK, RawCutoff, tables, Pruner
<1> HIDE DEF p
<1> QED
  BY <1>1, <1>3, <1>4, PrunerOnly

LEMMA ListExpiredPollRunIDsStep ==
    ASSUME IInv, NEW i \in Instances, ListExpiredPollRunIDs(i)
    PROVE  IInv'
<1>1. /\ now \in Nat /\ failures \in Nat /\ prune \in [Instances -> Pruner]
      /\ prune[i] \in Pruner /\ pollRuns \subseteq PollRun
      /\ UNCHANGED <<now, tables, nextId, tx, acked, failures>>
      /\ prune[i].pc = "list" /\ PrunerOK(prune[i])
  BY DEF IInv, TypeOK, PrunersOK, ListExpiredPollRunIDs
<1> DEFINE expired == {r \in pollRuns : r.result.startedAt < Cutoff(i)}
<1>2. PICK batch \in SUBSET expired :
         /\ \A r \in batch, s \in expired \ batch :
               r.result.startedAt <= s.result.startedAt
         /\ prune' = [prune EXCEPT ![i] =
                        IF batch = {} THEN Returned("ok")
                        ELSE [@ EXCEPT !.pc = "delete",
                                       !.ids = {r.id : r \in batch}]]
  BY DEF ListExpiredPollRunIDs, OldestBatches
<1>3. CASE batch = {}
  <2>1. prune' = [prune EXCEPT ![i] = Returned("ok")]
    BY <1>2, <1>3
  <2> QED
    BY <1>1, <2>1, ReturnStep
<1>4. CASE batch # {}
  <2> DEFINE ids == {r.id : r \in batch}
             p == [prune[i] EXCEPT !.pc = "delete", !.ids = ids]
  <2>1. ids \subseteq Nat /\ \A id \in ids : \E r \in batch : r.id = id
    BY <1>1, <1>2 DEF PollRun
  <2>2. p \in Pruner /\ prune' = [prune EXCEPT ![i] = p] /\ p.ids = ids
    BY <1>1, <1>2, <1>4, <2>1 DEF Pruner, PruneSteps
  <2>3. \A id \in ids : \E r \in pollRuns : r.id = id
    BY <1>2, <2>1
  <2>4. \A id \in ids : id < nextId
    BY <2>3 DEF IInv, RunsOK
  <2>5. \A r \in pollRuns : r.id \in ids => r.result.startedAt < Cutoff(i)
    BY <1>1, <1>2, <2>1 DEF IInv, RunsOK
  <2>6. \A r, s \in pollRuns :
           r.id \in ids /\ s.id \notin ids => r.result.startedAt <= s.result.startedAt
    <3> SUFFICES ASSUME NEW r \in pollRuns, NEW s \in pollRuns,
                        r.id \in ids, s.id \notin ids
                 PROVE  r.result.startedAt <= s.result.startedAt
      OBVIOUS
    <3>1. r \in batch /\ s \notin batch
      BY <1>2, <2>1 DEF IInv, RunsOK
    <3>2. /\ r.result.startedAt \in Nat /\ s.result.startedAt \in Nat
          /\ Cutoff(i) \in Int
      BY <1>1 DEF PollRun, Result, Cutoff, Pruner
    <3>3. CASE s.result.startedAt < Cutoff(i)
      BY <1>2, <3>1, <3>3
    <3>4. CASE ~(s.result.startedAt < Cutoff(i))
      BY <1>2, <3>1, <3>2, <3>4
    <3> QED
      BY <3>3, <3>4
  <2>7. /\ prune'[i].ids = ids /\ prune'[i].pc = "delete"
        /\ prune'[i].startedAt = prune[i].startedAt
        /\ prune'[i].payloads = prune[i].payloads
        /\ prune'[i].todo = prune[i].todo
    BY <1>1, <2>2 DEF Pruner
  <2>8. PrunerOK(prune[i])'
    BY <1>1, <2>4, <2>5, <2>7, <2>6 DEF PrunerOK, Cutoff, tables
  <2> HIDE DEF p, ids
  <2> QED
    BY <1>1, <2>2, <2>3, <2>8, PrunerOnly
<1> QED
  BY <1>3, <1>4

-----------------------------------------------------------------------------
(***************************************************************************)
(* What the deleting steps are to a reader: the actions of PollHistory     *)
(***************************************************************************)
\* The operators of PollSchema mean the same through PH.
LEMMA SchemaOfHistory ==
    /\ \A at, t : PH!Expired(at, t) <=> Expired(at, t)
    /\ \A at, t : PH!RawExpired(at, t) <=> RawExpired(at, t)
    /\ \A id, result, cs : PH!RawRows(id, result, cs) = RawRows(id, result, cs)
    /\ \A id, result, ts : PH!EntryRows(id, result, ts) = EntryRows(id, result, ts)
BY DEF PH!Expired, Expired, PH!RawExpired, RawExpired, PH!RawRows, RawRows,
       PH!EntryRows, EntryRows

\* drop_chunks with the payloads' own cutoff.
LEMMA DropRawChunksForgets ==
    ASSUME IInv, NEW i \in Instances, DropRawChunks(i)
    PROVE  PH!ForgetPayloads
<1>1. /\ prune[i] \in Pruner /\ now \in Nat /\ rawPayloads \subseteq RawRow
      /\ prune[i].pc = "raw_drop" /\ PrunerOK(prune[i])
  BY DEF IInv, TypeOK, PrunersOK, DropRawChunks
<1>2. RawPeriod > 0 /\ prune[i].startedAt \in Nat /\ prune[i].startedAt <= now
  BY <1>1 DEF PrunerOK, Pruner
<1>3. ASSUME NEW x \in rawPayloads, InDroppedChunk(x.observedAt, RawCutoff(i))
      PROVE  RawExpired(x.observedAt, now)
  <2>1. x.observedAt \in Nat /\ RawCutoff(i) \in Int
    BY <1>1, <1>2 DEF RawRow, RawCutoff
  <2>2. x.observedAt < RawCutoff(i)
    BY <1>3, <2>1, DroppedIsOlder
  <2> QED
    BY <1>1, <1>2, <2>1, <2>2 DEF RawExpired, RawCutoff
<1> QED
  BY <1>3, SchemaOfHistory DEF DropRawChunks, PH!ForgetPayloads

\* A batch of the payloads' DELETE.
LEMMA DeleteRawPayloadsForgets ==
    ASSUME IInv, NEW i \in Instances, DeleteRawPayloads(i)
    PROVE  PH!ForgetPayloads
<1>1. /\ prune[i] \in Pruner /\ now \in Nat /\ rawPayloads \subseteq RawRow
      /\ prune[i].pc = "raw_delete" /\ PrunerOK(prune[i])
  BY DEF IInv, TypeOK, PrunersOK, DeleteRawPayloads
<1>2. RawPeriod > 0 /\ prune[i].startedAt \in Nat /\ prune[i].startedAt <= now
  BY <1>1 DEF PrunerOK, Pruner
<1>3. \A x \in rawPayloads \cap prune[i].payloads : RawExpired(x.observedAt, now)
  BY <1>1, <1>2 DEF PrunerOK, RawRow, RawExpired
<1> QED
  BY <1>3, SchemaOfHistory DEF DeleteRawPayloads, PH!ForgetPayloads

\* drop_chunks with the cutoff of the history, on one hypertable.
LEMMA DropChunksForgets ==
    ASSUME IInv, NEW i \in Instances, DropChunks(i)
    PROVE  \/ PH!ForgetPayloads
           \/ PH!ForgetEntries
           \/ UNCHANGED PH!historyVars
<1>1. /\ prune[i] \in Pruner /\ now \in Nat /\ rawPayloads \subseteq RawRow
      /\ entries \subseteq EntryRow
      /\ prune[i].pc = "drop" /\ PrunerOK(prune[i]) /\ now' = now
  BY DEF IInv, TypeOK, PrunersOK, DropChunks
<1>2. Period > 0 /\ prune[i].startedAt \in Nat /\ prune[i].startedAt <= now
  BY <1>1 DEF PrunerOK, Pruner
<1>3. Cutoff(i) \in Int
  BY <1>2 DEF Cutoff
<1>4. ASSUME NEW at \in Nat, InDroppedChunk(at, Cutoff(i))
      PROVE  Expired(at, now)
  <2>1. at < Cutoff(i)
    BY <1>3, <1>4, DroppedIsOlder
  <2> QED
    BY <1>1, <1>2, <2>1 DEF Expired, Cutoff
<1> DEFINE table == Head(prune[i].todo)
<1>5. CASE prune[i].todo = <<>>
  BY <1>1, <1>5 DEF DropChunks, PH!historyVars, tables
<1>6. CASE prune[i].todo # <<>> /\ table = "raw_command_payloads"
  <2>1. RawPeriod = 0
    <3>1. 1 \in DOMAIN prune[i].todo /\ prune[i].todo[1] = "raw_command_payloads"
      BY <1>1, <1>6 DEF Pruner
    <3> QED
      BY <1>1, <3>1 DEF PrunerOK
  <2>2. \A x \in entries : x.table # "raw_command_payloads"
    BY <1>1 DEF EntryRow, NormalizedTables
  <2>3. /\ rawPayloads' =
              {x \in rawPayloads : ~InDroppedChunk(x.observedAt, Cutoff(i))}
        /\ entries' = entries /\ pollRuns' = pollRuns
    BY <1>6, <2>2 DEF DropChunks
  <2>4. \A x \in rawPayloads \ rawPayloads' : RawExpired(x.observedAt, now)
    BY <1>1, <1>4, <2>1, <2>3 DEF RawRow, RawExpired
  <2> QED
    BY <1>1, <2>3, <2>4, SchemaOfHistory DEF PH!ForgetPayloads
<1>7. CASE prune[i].todo # <<>> /\ table # "raw_command_payloads"
  <2>1. /\ rawPayloads' = rawPayloads /\ pollRuns' = pollRuns
        /\ entries' \subseteq entries
        /\ \A x \in entries \ entries' : InDroppedChunk(x.observedAt, Cutoff(i))
    BY <1>7 DEF DropChunks
  <2>2. \A x \in entries : x.observedAt \in Nat
    BY <1>1 DEF EntryRow
  <2> QED
    BY <1>1, <1>4, <2>1, <2>2, SchemaOfHistory DEF PH!ForgetEntries
<1> QED
  BY <1>5, <1>6, <1>7

\* A batch of poll runs, with the cascade.
LEMMA DeletePollRunsForgets ==
    ASSUME IInv, NEW i \in Instances, DeletePollRuns(i)
    PROVE  PH!ForgetRuns
<1> DEFINE ids == prune[i].ids
<1>1. /\ prune[i] \in Pruner /\ now \in Nat /\ pollRuns \subseteq PollRun
      /\ rawPayloads \subseteq RawRow /\ entries \subseteq EntryRow
      /\ prune[i].pc = "delete" /\ PrunerOK(prune[i])
  BY DEF IInv, TypeOK, PrunersOK, DeletePollRuns
<1>2. Period > 0 /\ prune[i].startedAt \in Nat /\ prune[i].startedAt <= now
  BY <1>1 DEF PrunerOK, Pruner
<1>3. /\ pollRuns' = {r \in pollRuns : r.id \notin ids}
      /\ rawPayloads' = {x \in rawPayloads : x.run \notin ids}
      /\ entries' = {x \in entries : x.run \notin ids}
      /\ now' = now
  BY DEF DeletePollRuns, Remaining
<1>4. \A r \in pollRuns \ pollRuns' : Expired(r.result.startedAt, now)
  BY <1>1, <1>2, <1>3 DEF PrunerOK, Expired, PollRun, Result
<1>5. \A x \in rawPayloads : \E r \in pollRuns : r.id = x.run
  BY DEF IInv, NoOrphans, RawRows
<1>6. \A x \in entries : \E r \in pollRuns : r.id = x.run
  BY DEF IInv, NoOrphans, EntryRows
<1>7. \A id : (\E r \in pollRuns : r.id = id)
                 => (id \notin ids <=> id \in PH!Ids(pollRuns'))
  BY <1>3 DEF PH!Ids
<1>8. \A r \in pollRuns \ pollRuns', s \in pollRuns' :
         r.result.startedAt <= s.result.startedAt
  BY <1>1, <1>3 DEF PrunerOK
<1> HIDE DEF ids
<1>9. /\ rawPayloads' = {x \in rawPayloads : x.run \in PH!Ids(pollRuns')}
      /\ entries' = {x \in entries : x.run \in PH!Ids(pollRuns')}
  BY <1>3, <1>5, <1>6, <1>7
<1> QED
  BY <1>3, <1>4, <1>9, <1>8, SchemaOfHistory DEF PH!ForgetRuns

\* The promises to readers survive what PollHistory allows to be forgotten.
LEMMA RowsForgotten ==
    ASSUME IInv, UNCHANGED acked, PH!ForgetPayloads \/ PH!ForgetEntries
    PROVE  NoOrphans' /\ UnexpiredRunsIntact' /\ AckedRunsKept'
<1>1. /\ UNCHANGED <<now, pollRuns, acked>>
      /\ rawPayloads' \subseteq rawPayloads /\ entries' \subseteq entries
      /\ \A x \in rawPayloads \ rawPayloads' : RawExpired(x.observedAt, now)
      /\ \A x \in entries \ entries' : Expired(x.observedAt, now)
  BY SchemaOfHistory DEF PH!ForgetPayloads, PH!ForgetEntries
<1>2. NoOrphans' /\ AckedRunsKept'
  BY <1>1 DEF IInv, NoOrphans, AckedRunsKept
<1>3. \A r \in pollRuns :
         \A x \in EntryRows(r.id, r.result, r.result.fills) :
            x.observedAt = r.result.startedAt
  BY DEF EntryRows
<1>4. UnexpiredRunsIntact'
  BY <1>1, <1>3 DEF IInv, UnexpiredRunsIntact
<1> QED
  BY <1>2, <1>4

LEMMA RunsForgotten ==
    ASSUME IInv, UNCHANGED acked, PH!ForgetRuns
    PROVE  NoOrphans' /\ UnexpiredRunsIntact' /\ AckedRunsKept'
<1>1. /\ UNCHANGED <<now, acked>> /\ pollRuns' \subseteq pollRuns
      /\ \A r \in pollRuns \ pollRuns' : Expired(r.result.startedAt, now)
      /\ rawPayloads' = {x \in rawPayloads : \E r \in pollRuns' : r.id = x.run}
      /\ entries' = {x \in entries : \E r \in pollRuns' : r.id = x.run}
  BY SchemaOfHistory DEF PH!ForgetRuns, PH!Ids
<1>2. /\ \A id, result, cs : \A x \in RawRows(id, result, cs) : x.run = id
      /\ \A id, result, ts : \A x \in EntryRows(id, result, ts) : x.run = id
  BY DEF RawRows, EntryRows
<1>3. NoOrphans'
  BY <1>1, <1>2 DEF IInv, NoOrphans, RunsOK
<1>4. UnexpiredRunsIntact'
  BY <1>1, <1>2 DEF IInv, UnexpiredRunsIntact
<1>5. AckedRunsKept'
  BY <1>1 DEF IInv, AckedRunsKept
<1> QED
  BY <1>3, <1>4, <1>5

-----------------------------------------------------------------------------
(***************************************************************************)
(* The deleting steps keep the invariant                                   *)
(***************************************************************************)
LEMMA DropRawChunksStep ==
    ASSUME IInv, NEW i \in Instances, DropRawChunks(i)
    PROVE  IInv'
<1>1. /\ now \in Nat /\ failures \in Nat /\ prune \in [Instances -> Pruner]
      /\ prune[i] \in Pruner /\ prune[i].pc = "raw_drop" /\ PrunerOK(prune[i])
      /\ UNCHANGED <<now, pollRuns, entries, nextId, tx, acked, failures>>
      /\ rawPayloads' \subseteq rawPayloads
  BY DEF IInv, TypeOK, PrunersOK, DropRawChunks
<1> DEFINE p == [prune[i] EXCEPT !.pc = "raw_list"]
<1>2. p \in Pruner /\ prune' = [prune EXCEPT ![i] = p] /\ p.ids = prune[i].ids
  BY <1>1 DEF Pruner, PruneSteps, DropRawChunks
<1>3. PrunerOK(prune[i])'
  BY <1>1, <1>2 DEF PrunerOK, Pruner
<1> HIDE DEF p
<1>4. TypeOK' /\ TransactionsOK' /\ RunsOK' /\ PrunersOK'
  BY <1>1, <1>2, <1>3, PrunerMoves
<1> QED
  BY <1>1, <1>4, DropRawChunksForgets, RowsForgotten DEF IInv

LEMMA DeleteRawPayloadsStep ==
    ASSUME IInv, NEW i \in Instances, DeleteRawPayloads(i)
    PROVE  IInv'
<1>1. /\ now \in Nat /\ failures \in Nat /\ prune \in [Instances -> Pruner]
      /\ prune[i] \in Pruner /\ prune[i].pc = "raw_delete" /\ PrunerOK(prune[i])
      /\ UNCHANGED <<now, pollRuns, entries, nextId, tx, acked, failures>>
      /\ rawPayloads' \subseteq rawPayloads
  BY DEF IInv, TypeOK, PrunersOK, DeleteRawPayloads
<1>2. prune[i].startedAt \in Nat /\ prune[i].ids \subseteq Nat
  BY <1>1 DEF Pruner
<1> DEFINE again == [prune[i] EXCEPT !.pc = "raw_list", !.payloads = {}]
<1>3. PICK p \in {AtPeriod(prune[i]), again} : prune' = [prune EXCEPT ![i] = p]
  BY DEF DeleteRawPayloads
<1>4. p \in Pruner /\ PrunerOK(prune[i])' /\ p.ids \subseteq prune[i].ids
  <2>1. prune[i].ids = {}
    BY <1>1 DEF PrunerOK
  <2>2. CASE p = again
    <3>1. p \in Pruner /\ p.ids = prune[i].ids
      BY <1>1, <2>2 DEF Pruner, PruneSteps
    <3>2. PrunerOK(prune[i])'
      BY <1>1, <1>3, <2>2 DEF PrunerOK, Pruner
    <3> QED
      BY <3>1, <3>2
  <2>3. CASE p = AtPeriod(prune[i])
    <3>1. /\ p \in Pruner /\ p.ids \in {{}, prune[i].ids} /\ p.payloads = {}
          /\ p.startedAt \in {0, prune[i].startedAt}
          /\ p.pc \in {"idle", "drop", "list"}
          /\ p.pc # "idle" => Period > 0 /\ p.startedAt = prune[i].startedAt
          /\ p.pc = "idle" => p.ids = {}
          /\ RawPeriod > 0 => \A k \in DOMAIN p.todo : p.todo[k] # "raw_command_payloads"
      BY <1>1, <2>3, AtPeriodOK
    <3>2. prune'[i] = p
      BY <1>1, <1>3
    <3>3. PrunerOK(prune[i])'
      BY <1>1, <1>2, <2>1, <3>1, <3>2 DEF PrunerOK
    <3> QED
      BY <3>1, <3>3
  <2> QED
    BY <2>2, <2>3
<1> HIDE DEF again
<1>5. TypeOK' /\ TransactionsOK' /\ RunsOK' /\ PrunersOK'
  BY <1>1, <1>3, <1>4, PrunerMoves
<1> QED
  BY <1>1, <1>5, DeleteRawPayloadsForgets, RowsForgotten DEF IInv

LEMMA DropChunksStep ==
    ASSUME IInv, NEW i \in Instances, DropChunks(i)
    PROVE  IInv'
<1>1. /\ now \in Nat /\ failures \in Nat /\ prune \in [Instances -> Pruner]
      /\ prune[i] \in Pruner /\ prune[i].pc = "drop" /\ PrunerOK(prune[i])
      /\ UNCHANGED <<now, pollRuns, nextId, tx, acked, failures>>
      /\ rawPayloads' \subseteq rawPayloads /\ entries' \subseteq entries
  BY DEF IInv, TypeOK, PrunersOK, DropChunks, tables
<1> DEFINE listing == [prune[i] EXCEPT !.pc = "list"]
           next    == [prune[i] EXCEPT !.todo = Tail(prune[i].todo)]
<1>2. \/ prune' = [prune EXCEPT ![i] = listing]
      \/ prune[i].todo # <<>> /\ prune' = [prune EXCEPT ![i] = next]
  BY <1>1 DEF DropChunks
<1>3. ASSUME prune' = [prune EXCEPT ![i] = listing]
      PROVE  TypeOK' /\ TransactionsOK' /\ RunsOK' /\ PrunersOK'
  <2>1. listing \in Pruner /\ listing.ids = prune[i].ids
    BY <1>1 DEF Pruner, PruneSteps
  <2>2. PrunerOK(prune[i])'
    BY <1>1, <1>3 DEF PrunerOK, Pruner
  <2> HIDE DEF listing
  <2> QED
    BY <1>1, <1>3, <2>1, <2>2, PrunerMoves
<1>4. ASSUME prune[i].todo # <<>>, prune' = [prune EXCEPT ![i] = next]
      PROVE  TypeOK' /\ TransactionsOK' /\ RunsOK' /\ PrunersOK'
  <2>1. /\ Tail(prune[i].todo) \in Seq(Tables)
        /\ \A k \in DOMAIN Tail(prune[i].todo) :
              /\ k + 1 \in DOMAIN prune[i].todo
              /\ Tail(prune[i].todo)[k] = prune[i].todo[k + 1]
    BY <1>1, <1>4 DEF Pruner
  <2>2. next \in Pruner /\ next.ids = prune[i].ids
    BY <1>1, <2>1 DEF Pruner
  <2>3. /\ prune'[i].todo = Tail(prune[i].todo)
        /\ prune'[i].pc = prune[i].pc /\ prune'[i].ids = prune[i].ids
        /\ prune'[i].startedAt = prune[i].startedAt
        /\ prune'[i].payloads = prune[i].payloads
    BY <1>1, <1>4 DEF Pruner
  <2>4. PrunerOK(prune[i])'
    BY <1>1, <2>1, <2>3 DEF PrunerOK
  <2> HIDE DEF next
  <2> QED
    BY <1>1, <1>4, <2>2, <2>4, PrunerMoves
<1>5. TypeOK' /\ TransactionsOK' /\ RunsOK' /\ PrunersOK'
  BY <1>2, <1>3, <1>4
<1>6. CASE UNCHANGED PH!historyVars
  BY <1>1, <1>5, <1>6, ReadersFrame DEF IInv, PH!historyVars, tables
<1>7. CASE PH!ForgetPayloads \/ PH!ForgetEntries
  BY <1>1, <1>5, <1>7, RowsForgotten DEF IInv
<1> QED
  BY <1>6, <1>7, DropChunksForgets

LEMMA DeletePollRunsStep ==
    ASSUME IInv, NEW i \in Instances, DeletePollRuns(i)
    PROVE  IInv'
<1>1. /\ now \in Nat /\ failures \in Nat /\ prune \in [Instances -> Pruner]
      /\ prune[i] \in Pruner /\ prune[i].pc = "delete" /\ PrunerOK(prune[i])
      /\ UNCHANGED <<now, nextId, tx, acked, failures>>
      /\ pollRuns' \subseteq pollRuns /\ rawPayloads' \subseteq rawPayloads
      /\ entries' \subseteq entries
  BY DEF IInv, TypeOK, PrunersOK, DeletePollRuns, Remaining
<1> DEFINE again == [prune[i] EXCEPT !.pc = "list", !.ids = {}]
<1>2. \/ prune' = [prune EXCEPT ![i] = again]
      \/ prune' = [prune EXCEPT ![i] = Returned("ok")]
  BY DEF DeletePollRuns
<1>3. ASSUME prune' = [prune EXCEPT ![i] = again]
      PROVE  TypeOK' /\ TransactionsOK' /\ RunsOK' /\ PrunersOK'
  <2>1. again \in Pruner /\ again.ids = {}
    BY <1>1 DEF Pruner, PruneSteps
  <2>2. PrunerOK(prune[i])'
    BY <1>1, <1>3 DEF PrunerOK, Pruner
  <2> HIDE DEF again
  <2> QED
    BY <1>1, <1>3, <2>1, <2>2, PrunerMoves
<1>4. ASSUME prune' = [prune EXCEPT ![i] = Returned("ok")]
      PROVE  TypeOK' /\ TransactionsOK' /\ RunsOK' /\ PrunersOK'
  BY <1>1, <1>4, ReturnedOK, PrunerMoves
<1> QED
  BY <1>1, <1>2, <1>3, <1>4, DeletePollRunsForgets, RunsForgotten DEF IInv

\* An error, or the death of the process, between any two steps.
LEMMA PruneFailStep ==
    ASSUME IInv, NEW i \in Instances, PruneFail(i)
    PROVE  IInv'
<1>1. failures' \in Nat
  BY DEF IInv, TypeOK, PruneFail
<1> QED
  BY <1>1, ReturnStep DEF PruneFail

LEMMA CrashStep ==
    ASSUME IInv, NEW i \in Instances, Crash(i)
    PROVE  IInv'
<1>1. /\ tx \in [Instances -> Tx] /\ prune \in [Instances -> Pruner]
      /\ now \in Nat /\ nextId \in Nat /\ failures' \in Nat
      /\ UNCHANGED <<now, tables, nextId, acked>>
      /\ tx' = [tx EXCEPT ![i] = IdleTx]
      /\ prune' = [prune EXCEPT ![i] = Returned("none")]
  BY DEF IInv, TypeOK, Crash
<1>2. TypeOK'
  BY <1>1, IdleTypes DEF IInv, TypeOK, tables
<1>3. TransactionsOK'
  <2> SUFFICES ASSUME NEW j \in Instances, tx'[j].pc # "idle"
               PROVE  OpenTx(j)'
    BY DEF TransactionsOK
  <2>1. \A k \in Instances : tx'[k].pc # "idle" => tx'[k] = tx[k]
    BY <1>1 DEF IdleTx
  <2>2. tx'[j] = tx[j] /\ OpenTx(j)
    BY <2>1 DEF IInv, TransactionsOK
  <2>3. \A k \in Instances : prune'[k].ids \subseteq prune[k].ids
    BY <1>1, ReturnedOK
  <2> QED
    BY <1>1, <2>1, <2>2, <2>3 DEF OpenTx, tables
<1>4. RunsOK'
  BY <1>1, RunsFrame DEF tables
<1>5. PrunersOK'
  <2> SUFFICES ASSUME NEW j \in Instances PROVE PrunerOK(prune[j])'
    BY DEF PrunersOK
  <2>1. CASE j = i
    BY <1>1, <2>1, ReturnedOK
  <2>2. CASE j # i
    <3>1. prune'[j] = prune[j]
      BY <1>1, <2>2
    <3> QED
      BY <1>1, <3>1, PrunerFrame DEF tables
  <2> QED
    BY <2>1, <2>2
<1> QED
  BY <1>1, <1>2, <1>3, <1>4, <1>5, ReadersFrame DEF IInv

-----------------------------------------------------------------------------
(***************************************************************************)
(* Theorems                                                                *)
(***************************************************************************)
\* Every step of the store, its failures included, keeps the invariant.
LEMMA NextStep == IInv /\ [Next]_vars => IInv'
<1> SUFFICES ASSUME IInv, [Next]_vars PROVE IInv'
  OBVIOUS
<1>1. CASE UNCHANGED vars
  <2>1. UNCHANGED <<now, tables, nextId, tx, acked, prune, failures>>
    BY <1>1 DEF vars
  <2> QED
    BY <2>1 DEF IInv, TypeOK, TransactionsOK, OpenTx, RunsOK, NoOrphans,
                PrunersOK, PrunerOK, UnexpiredRunsIntact, AckedRunsKept, tables
<1>2. CASE Tick
  BY <1>2, TickStep
<1>3. ASSUME NEW i \in Instances, SavePollResult(i) PROVE IInv'
  BY <1>3, SavePollResultStep
<1>4. ASSUME NEW i \in Instances, PruneStart(i) PROVE IInv'
  BY <1>4, PruneStartStep
<1>5. ASSUME NEW i \in Instances, PruneStep(i) PROVE IInv'
  BY <1>5, DropRawChunksStep, ListRawPayloadsStep, DeleteRawPayloadsStep,
     DropChunksStep, ListExpiredPollRunIDsStep, DeletePollRunsStep
     DEF PruneStep
<1>6. ASSUME NEW i \in Instances, PruneFail(i) \/ Crash(i) PROVE IInv'
  BY <1>6, PruneFailStep, CrashStep
<1> QED
  BY <1>1, <1>2, <1>3, <1>4, <1>5, <1>6 DEF Next

\* The inductive invariant holds in every reachable state.
THEOREM Invariance == Spec => []IInv
BY InitIInv, NextStep, PTL DEF Spec

\* The variables keep their types whatever the number of processes, the
\* batches, the periods and the failures.
THEOREM TypeCorrect == Spec => []TypeOK
<1>1. IInv => TypeOK
  BY DEF IInv
<1> QED
  BY <1>1, Invariance, PTL

\* A visible poll younger than the retention period is whole: SavePollResult
\* publishes it whole, and no pruner, chunk drop or crash takes part of it.
THEOREM NeverHalfAPoll == Spec => []UnexpiredRunsIntact
<1>1. IInv => UnexpiredRunsIntact
  BY DEF IInv
<1> QED
  BY <1>1, Invariance, PTL

\* What SavePollResult acknowledged stays until it expires.
THEOREM AckedIsDurable == Spec => []AckedRunsKept
<1>1. IInv => AckedRunsKept
  BY DEF IInv
<1> QED
  BY <1>1, Invariance, PTL

\* No child row outlives, or predates, the committed poll it belongs to.
THEOREM ForeignKeysHold == Spec => []NoOrphans
<1>1. IInv => NoOrphans
  BY DEF IInv
<1> QED
  BY <1>1, Invariance, PTL

\* A commit is, to a reader, the recording of one whole poll.
LEMMA PublishRecords ==
    ASSUME IInv, NEW i \in Instances, Publish(i), UNCHANGED now
    PROVE  \E run \in pollRuns' : PH!Record(run)
<1> DEFINE run == TxRun(i)
<1>1. /\ \A r \in pollRuns : r.id # run.id
      /\ run.success = run.result.success
      /\ run.result.startedAt \in Nat /\ run.result.startedAt >= now - SaveLag
      /\ run.result.startedAt <= now
      /\ pollRuns' = pollRuns \cup {run}
      /\ rawPayloads' = rawPayloads \cup RawRows(run.id, run.result, Commands)
      /\ entries' = entries \cup EntryRows(run.id, run.result, run.result.fills)
  BY PublishedRun DEF Result
<1> HIDE DEF run
<1>2. run \in pollRuns' /\ run.id \notin PH!Ids(pollRuns)
  BY <1>1 DEF PH!Ids
<1>3. now \in Nat
  BY DEF IInv, TypeOK
<1>4. ~Expired(run.result.startedAt, now)
  BY <1>1, <1>3 DEF Expired
<1> QED
  BY <1>1, <1>2, <1>4, SchemaOfHistory DEF PH!Record

\* Every step of the store is a step of the history or invisible in it.
LEMMA StepsOfHistory ==
    IInv /\ [Next]_vars => [PH!HistoryNext]_(PH!historyVars)
<1> SUFFICES ASSUME IInv, [Next]_vars
             PROVE  PH!HistoryNext \/ UNCHANGED PH!historyVars
  OBVIOUS
<1> USE DEF tables, PH!historyVars
<1>1. CASE UNCHANGED vars
  BY <1>1 DEF vars
<1>2. CASE Tick
  BY <1>2 DEF Tick, PH!HistoryNext, PH!TimePasses
<1>3. ASSUME NEW i \in Instances, SavePollResult(i)
      PROVE  PH!HistoryNext \/ UNCHANGED PH!historyVars
  <2>1. CASE Commit(i) \/ CommitAnswerLost(i)
    BY <2>1, PublishRecords DEF Commit, CommitAnswerLost, PH!HistoryNext
  <2>2. CASE ~(Commit(i) \/ CommitAnswerLost(i))
    BY <1>3, <2>2
       DEF SavePollResult, CreatePollRun, InsertRawCommandPayload,
           InsertHostmapEntries, InsertLighthouseAddrmap, InsertRelaySnapshot,
           InsertEntries, CompletePollRun, Rollback
  <2> QED
    BY <2>1, <2>2
<1>4. ASSUME NEW i \in Instances,
             \/ PruneStart(i) \/ ListRawPayloads(i) \/ ListExpiredPollRunIDs(i)
             \/ PruneFail(i) \/ Crash(i)
      PROVE  UNCHANGED PH!historyVars
  BY <1>4 DEF PruneStart, ListRawPayloads, ListExpiredPollRunIDs, PruneFail, Crash
<1>5. ASSUME NEW i \in Instances,
             DropRawChunks(i) \/ DeleteRawPayloads(i) \/ DropChunks(i) \/ DeletePollRuns(i)
      PROVE  PH!HistoryNext \/ UNCHANGED PH!historyVars
  BY <1>5, DropRawChunksForgets, DeleteRawPayloadsForgets, DropChunksForgets,
     DeletePollRunsForgets DEF PH!HistoryNext
<1> QED
  BY <1>1, <1>2, <1>3, <1>4, <1>5 DEF Next, PruneStep

\* The store implements the history that its readers are promised.
THEOREM StoreImplementsHistory == Spec => ImplementsHistory
<1>1. Init => PH!HistoryInit
  BY DEF Init, PH!HistoryInit
<1> QED
  BY <1>1, StepsOfHistory, Invariance, PTL DEF Spec, ImplementsHistory, PH!HistorySpec

\* Every step of the history keeps the newest successful poll of a lighthouse:
\* what is forgotten is no newer than what stays.
LEMMA HistoryKeepsNewest ==
    ASSUME IInv, PH!HistoryNext
    PROVE  PH!NewestStays
<1>1. \A r \in pollRuns : r.result.startedAt \in Int
  BY DEF IInv, TypeOK, PollRun, Result
<1>2. CASE pollRuns \subseteq pollRuns'
  BY <1>1, <1>2 DEF PH!NewestStays, PH!Successes
<1>3. CASE PH!ForgetRuns
  <2> SUFFICES ASSUME NEW l \in Lighthouses, NEW r \in PH!Successes(pollRuns, l),
                      NEW s \in PH!Successes(pollRuns', l)
               PROVE  \E t \in PH!Successes(pollRuns', l) :
                         t.result.startedAt >= r.result.startedAt
    BY DEF PH!NewestStays
  <2>1. s \in pollRuns /\ r \in pollRuns
    BY <1>3 DEF PH!ForgetRuns, PH!Successes
  <2>2. CASE r \in pollRuns'
    BY <1>1, <2>1, <2>2 DEF PH!Successes
  <2>3. CASE r \notin pollRuns'
    BY <1>1, <1>3, <2>1, <2>3 DEF PH!ForgetRuns, PH!Successes
  <2> QED
    BY <2>2, <2>3
<1> QED
  BY <1>2, <1>3 DEF PH!HistoryNext, PH!TimePasses, PH!Record, PH!ForgetPayloads,
                    PH!ForgetEntries

\* The poll that readers take for the present state of a lighthouse is never
\* replaced by an older one, with any number of pruners in any batch size.
THEOREM PresentStaysPresent == Spec => PresentPollNeverGoesBack
<1>1. IInv /\ [Next]_vars => [PH!NewestStays]_vars
  <2> SUFFICES ASSUME IInv, [Next]_vars, ~ UNCHANGED vars PROVE PH!NewestStays
    OBVIOUS
  <2>1. PH!HistoryNext \/ UNCHANGED PH!historyVars
    BY StepsOfHistory
  <2>2. CASE UNCHANGED PH!historyVars
    <3>1. \A r \in pollRuns : r.result.startedAt \in Int
      BY DEF IInv, TypeOK, PollRun, Result
    <3> QED
      BY <2>2, <3>1 DEF PH!historyVars, PH!NewestStays, PH!Successes
  <2> QED
    BY <2>1, <2>2, HistoryKeepsNewest
<1> QED
  BY <1>1, Invariance, PTL DEF Spec, PresentPollNeverGoesBack

-----------------------------------------------------------------------------
(***************************************************************************)
(* The only pruner of a database leaves nothing expired                    *)
(***************************************************************************)
\* An open transaction holds commands that started after their poll.
CommandsAfterStart ==
    \A j \in Instances : tx[j].pc # "idle" =>
        \A c \in Commands : tx[j].result.commandsAt[c] >= tx[j].result.startedAt

\* The batch about to be deleted is full, or holds every expired payload.
PayloadsDrain(i) ==
    prune[i].pc = "raw_delete" =>
        /\ prune[i].payloads \subseteq rawPayloads
        /\ \/ Cardinality(prune[i].payloads) = BatchSize
           \/ \A x \in rawPayloads :
                 x.observedAt < RawCutoff(i) => x \in prune[i].payloads

\* Prune turns to the history once the payloads have none left.
PayloadsDrained(i) ==
    prune[i].pc \in {"drop", "list", "delete"} /\ RawPeriod > 0 =>
        \A x \in rawPayloads : x.observedAt >= RawCutoff(i)

\* The same for a batch of poll runs.
RunsDrain(i) ==
    prune[i].pc = "delete" =>
        \/ Cardinality({r \in pollRuns : r.id \in prune[i].ids}) = BatchSize
        \/ \A r \in pollRuns :
              r.result.startedAt < Cutoff(i) => r.id \in prune[i].ids

DrainOK(i) == PayloadsDrain(i) /\ PayloadsDrained(i) /\ RunsDrain(i)

\* Only CreatePollRun hands a result to a transaction.
LEMMA ResultsStay ==
    ASSUME IInv, CommandsAfterStart, [Next]_vars
    PROVE  CommandsAfterStart'
<1>1. tx \in [Instances -> Tx] /\ now \in Nat
  BY DEF IInv, TypeOK
<1>2. ASSUME \A j \in Instances :
                tx'[j].pc # "idle" => tx[j].pc # "idle" /\ tx'[j].result = tx[j].result
      PROVE  CommandsAfterStart'
  BY <1>2 DEF CommandsAfterStart
<1>3. CASE UNCHANGED tx
  BY <1>2, <1>3
<1>4. ASSUME NEW i \in Instances, tx' = [tx EXCEPT ![i] = IdleTx]
      PROVE  CommandsAfterStart'
  <2>1. tx'[i].pc = "idle" /\ \A j \in Instances \ {i} : tx'[j] = tx[j]
    BY <1>1, <1>4 DEF IdleTx
  <2> QED
    BY <1>2, <2>1
<1>5. ASSUME NEW i \in Instances, CreatePollRun(i) PROVE CommandsAfterStart'
  <2>1. PICK result \in PollResults(now) :
           tx' = [tx EXCEPT ![i] = NewTx(nextId, result)]
    BY <1>5 DEF CreatePollRun
  <2>2. tx'[i] = NewTx(nextId, result) /\ \A j \in Instances \ {i} : tx'[j] = tx[j]
    BY <1>1, <2>1
  <2>3. NewTx(nextId, result).result = result
    BY DEF NewTx
  <2>4. \A c \in Commands : result.commandsAt[c] >= result.startedAt
    BY DEF PollResults
  <2> QED
    BY <2>2, <2>3, <2>4 DEF CommandsAfterStart
<1>6. ASSUME NEW i \in Instances,
             \/ InsertRawCommandPayload(i) \/ CompletePollRun(i)
             \/ InsertHostmapEntries(i) \/ InsertLighthouseAddrmap(i)
             \/ InsertRelaySnapshot(i)
      PROVE  CommandsAfterStart'
  <2>1. tx[i] \in Tx /\ tx[i].pc # "idle"
    BY <1>1, <1>6
       DEF InsertRawCommandPayload, CompletePollRun, InsertHostmapEntries,
           InsertLighthouseAddrmap, InsertRelaySnapshot, InsertEntries
  <2>2. tx'[i].result = tx[i].result /\ \A j \in Instances \ {i} : tx'[j] = tx[j]
    BY <1>1, <1>6
       DEF InsertRawCommandPayload, CompletePollRun, InsertHostmapEntries,
           InsertLighthouseAddrmap, InsertRelaySnapshot, InsertEntries, Tx
  <2> QED
    BY <1>2, <2>1, <2>2
<1>7. ASSUME NEW i \in Instances, SavePollResult(i) PROVE CommandsAfterStart'
  BY <1>4, <1>5, <1>6, <1>7
     DEF SavePollResult, Commit, CommitAnswerLost, Publish, Rollback
<1>8. CASE UNCHANGED vars
  BY <1>3, <1>8 DEF vars
<1>9. CASE Tick
  BY <1>3, <1>9 DEF Tick
<1>10. ASSUME NEW i \in Instances, PruneStart(i) \/ PruneStep(i) \/ PruneFail(i)
       PROVE  UNCHANGED tx
  BY <1>10 DEF PruneStart, PruneStep, PruneFail, DropRawChunks, ListRawPayloads,
               DeleteRawPayloads, DropChunks, ListExpiredPollRunIDs, DeletePollRuns
<1>11. ASSUME NEW i \in Instances, Crash(i) PROVE CommandsAfterStart'
  BY <1>4, <1>11 DEF Crash
<1> QED
  BY <1>3, <1>7, <1>8, <1>9, <1>10, <1>11 DEF Next

\* A step that leaves the pruner alone adds at most rows younger than every
\* cutoff: a save ends before the retention period is over.
LEMMA DrainFrame ==
    ASSUME IInv, TypeOK', NEW i \in Instances, DrainOK(i), prune'[i] = prune[i],
           rawPayloads \subseteq rawPayloads', pollRuns \subseteq pollRuns',
           RawPeriod > 0 => \A x \in rawPayloads' \ rawPayloads :
                               x.observedAt >= RawCutoff(i),
           \A r \in pollRuns' \ pollRuns :
              /\ r.id \notin prune[i].ids
              /\ Period > 0 => r.result.startedAt >= Cutoff(i)
    PROVE  DrainOK(i)'
<1>1. RawCutoff(i)' = RawCutoff(i) /\ Cutoff(i)' = Cutoff(i)
  BY DEF RawCutoff, Cutoff
<1>2. {r \in pollRuns' : r.id \in prune[i].ids} = {r \in pollRuns : r.id \in prune[i].ids}
  OBVIOUS
<1>3. PrunerOK(prune[i]) /\ prune[i].startedAt \in Nat
  BY DEF IInv, PrunersOK, TypeOK, Pruner
<1>4. /\ prune[i].pc = "raw_delete" => RawPeriod > 0
      /\ prune[i].pc = "delete" => Period > 0
  BY <1>3 DEF PrunerOK
<1>5. /\ \A x \in rawPayloads' : x.observedAt \in Nat
      /\ \A r \in pollRuns' : r.result.startedAt \in Nat
      /\ RawCutoff(i) \in Int /\ Cutoff(i) \in Int
  BY <1>3 DEF TypeOK, RawRow, PollRun, Result, RawCutoff, Cutoff
<1>6. PayloadsDrain(i)'
  BY <1>1, <1>4, <1>5 DEF DrainOK, PayloadsDrain
<1>7. PayloadsDrained(i)'
  BY <1>1 DEF DrainOK, PayloadsDrained
<1>8. RunsDrain(i)'
  <2> DEFINE chosen == {r \in pollRuns : r.id \in prune[i].ids}
  <2>1. chosen' = chosen
    BY <1>2
  <2>2. prune[i].pc = "delete" =>
           \/ Cardinality(chosen) = BatchSize
           \/ \A r \in pollRuns : r.result.startedAt < Cutoff(i) => r.id \in prune[i].ids
    BY DEF DrainOK, RunsDrain
  <2>3. prune'[i].pc = "delete" =>
           \/ Cardinality(chosen') = BatchSize
           \/ \A r \in pollRuns' : r.result.startedAt < Cutoff(i) => r.id \in prune[i].ids
    <3> HIDE DEF chosen
    <3> QED
      BY <1>4, <1>5, <2>1, <2>2
  <2> QED
    BY <1>1, <2>3 DEF RunsDrain
<1> QED
  BY <1>6, <1>7, <1>8 DEF DrainOK

\* The commit of a save that was under way.
LEMMA PublishDrains ==
    ASSUME IInv, TypeOK', CommandsAfterStart, NEW i \in Instances, DrainOK(i),
           NEW j \in Instances, Publish(j), UNCHANGED <<now, prune>>
    PROVE  DrainOK(i)'
<1> DEFINE run == TxRun(j)
<1>1. /\ run.result \in Result
      /\ run.result.startedAt >= now - SaveLag
      /\ pollRuns' = pollRuns \cup {run}
      /\ rawPayloads' = rawPayloads \cup RawRows(run.id, run.result, Commands)
  BY PublishedRun
<1>2. /\ now \in Nat /\ prune[i].startedAt \in Nat /\ prune[i].startedAt <= now
      /\ tx[j].pc # "idle" /\ run.id = tx[j].id /\ run.result = tx[j].result
  BY DEF IInv, TypeOK, Pruner, PrunersOK, PrunerOK, Publish, TxRun
<1>3. run.id \notin prune[i].ids
  BY <1>2 DEF IInv, TransactionsOK, OpenTx
<1>4. \A c \in Commands : run.result.commandsAt[c] >= run.result.startedAt
  BY <1>2 DEF CommandsAfterStart
<1> HIDE DEF run
<1>5. /\ run.result.startedAt \in Nat
      /\ \A c \in Commands : run.result.commandsAt[c] \in Nat
  BY <1>1 DEF Result
<1>6. Period > 0 => run.result.startedAt >= Cutoff(i)
  BY <1>1, <1>2, <1>5 DEF Cutoff
<1>7. RawPeriod > 0 => \A c \in Commands : run.result.commandsAt[c] >= RawCutoff(i)
  BY <1>1, <1>2, <1>4, <1>5 DEF RawCutoff
<1>8. RawPeriod > 0 => \A x \in RawRows(run.id, run.result, Commands) :
                          x.observedAt >= RawCutoff(i)
  BY <1>7 DEF RawRows
<1>9. prune'[i] = prune[i]
  OBVIOUS
<1> QED
  BY <1>1, <1>3, <1>6, <1>8, <1>9, DrainFrame

\* A call that is over, or at the payloads, has promised nothing yet.
LEMMA NothingPromised ==
    ASSUME NEW i \in Instances, prune'[i].pc \in {"idle", "raw_drop", "raw_list"}
    PROVE  DrainOK(i)'
BY DEF DrainOK, PayloadsDrain, PayloadsDrained, RunsDrain

\* A DrainOK that has to be shown only for the part that pc is at.
LEMMA DrainsAt ==
    ASSUME NEW i \in Instances
    PROVE  /\ prune'[i].pc = "raw_delete" /\ PayloadsDrain(i)' => DrainOK(i)'
           /\ prune'[i].pc \in {"drop", "list"} /\ PayloadsDrained(i)' => DrainOK(i)'
           /\ prune'[i].pc = "delete" /\ PayloadsDrained(i)' /\ RunsDrain(i)'
                 => DrainOK(i)'
BY DEF DrainOK, PayloadsDrain, PayloadsDrained, RunsDrain

\* A short batch of payloads is all that was expired: only then does Prune go
\* on, or return because there is no period for the rest.
LEMMA ListRawPayloadsDrains ==
    ASSUME IInv, NEW i \in Instances, ListRawPayloads(i)
    PROVE  DrainOK(i)' /\ prune'[i].pc # "idle"
<1> DEFINE expired == {x \in rawPayloads : x.observedAt < RawCutoff(i)}
<1>1. /\ prune \in [Instances -> Pruner] /\ prune[i] \in Pruner
      /\ rawPayloads' = rawPayloads
  BY DEF IInv, TypeOK, ListRawPayloads, tables
<1>2. PICK batch \in SUBSET expired :
         /\ batch = expired \/ Cardinality(batch) = BatchSize
         /\ prune' = [prune EXCEPT ![i].pc = "raw_delete", ![i].payloads = batch]
  BY DEF ListRawPayloads, OldestBatches
<1>3. /\ prune'[i].pc = "raw_delete" /\ prune'[i].payloads = batch
      /\ prune'[i].startedAt = prune[i].startedAt
  BY <1>1, <1>2 DEF Pruner
<1>4. RawCutoff(i)' = RawCutoff(i)
  BY <1>3 DEF RawCutoff
<1>5. PayloadsDrain(i)'
  BY <1>1, <1>2, <1>3, <1>4 DEF PayloadsDrain
<1> QED
  BY <1>3, <1>5, DrainsAt

LEMMA DeleteRawPayloadsDrains ==
    ASSUME IInv, NEW i \in Instances, DrainOK(i), DeleteRawPayloads(i)
    PROVE  DrainOK(i)' /\ (PruneReturnsOk(i) => NothingOlderLeft(i))
<1> DEFINE deleted == Cardinality(prune[i].payloads \cap rawPayloads)
           again == [prune[i] EXCEPT !.pc = "raw_list", !.payloads = {}]
<1>1. /\ prune \in [Instances -> Pruner] /\ prune[i] \in Pruner
      /\ prune[i].pc = "raw_delete" /\ rawPayloads \subseteq RawRow
      /\ prune[i].startedAt \in Nat
      /\ rawPayloads' = rawPayloads \ prune[i].payloads
      /\ prune' = [prune EXCEPT ![i] =
                     IF ShortBatch(deleted) THEN AtPeriod(prune[i]) ELSE again]
  BY DEF IInv, TypeOK, DeleteRawPayloads, Pruner
<1>2. CASE ~ShortBatch(deleted)
  <2>1. prune'[i].pc = "raw_list"
    BY <1>1, <1>2 DEF Pruner
  <2> QED
    BY <2>1, NothingPromised DEF PruneReturnsOk
<1>3. CASE ShortBatch(deleted)
  <2>1. prune[i].payloads \cap rawPayloads = prune[i].payloads
    BY <1>1 DEF DrainOK, PayloadsDrain
  <2>2. Cardinality(prune[i].payloads) # BatchSize
    <3>1. deleted = Cardinality(prune[i].payloads)
      BY <2>1
    <3> HIDE DEF deleted
    <3> QED
      BY <1>3, <3>1 DEF ShortBatch
  <2>3. \A x \in rawPayloads : x.observedAt < RawCutoff(i) => x \in prune[i].payloads
    BY <1>1, <2>2 DEF DrainOK, PayloadsDrain
  <2>4. \A x \in rawPayloads' : x.observedAt >= RawCutoff(i)
    BY <1>1, <2>3 DEF RawRow, RawCutoff
  <2> HIDE DEF deleted, again
  <2>5. prune'[i] = AtPeriod(prune[i])
    BY <1>1, <1>3
  <2>6. /\ prune'[i].pc \in {"idle", "drop", "list"}
        /\ prune'[i].pc # "idle" => prune'[i].startedAt = prune[i].startedAt
    BY <1>1, <2>5, AtPeriodOK
  <2>7. CASE prune'[i].pc # "idle"
    <3>1. PayloadsDrained(i)'
      BY <2>4, <2>6, <2>7 DEF PayloadsDrained, RawCutoff
    <3> QED
      BY <2>6, <2>7, <3>1, DrainsAt DEF PruneReturnsOk
  <2>8. CASE prune'[i].pc = "idle"
    <3>1. Period = 0
      <4>1. ASSUME Period # 0 PROVE AtPeriod(prune[i]).pc \in {"drop", "list"}
        BY <1>1, <4>1 DEF AtPeriod, Pruner
      <4> QED
        BY <2>5, <2>8, <4>1
    <3> QED
      BY <2>4, <2>8, <3>1, NothingPromised DEF NothingOlderLeft
  <2> QED
    BY <2>7, <2>8
<1> QED
  BY <1>2, <1>3

\* The chunks that go first leave nothing behind that was not there before.
LEMMA DropsDrain ==
    ASSUME IInv, NEW i \in Instances, DrainOK(i), DropRawChunks(i) \/ DropChunks(i)
    PROVE  DrainOK(i)' /\ prune'[i].pc # "idle"
<1>1. prune \in [Instances -> Pruner] /\ prune[i] \in Pruner
  BY DEF IInv, TypeOK
<1>2. CASE DropRawChunks(i)
  <2>1. prune'[i].pc = "raw_list"
    BY <1>1, <1>2 DEF DropRawChunks, Pruner
  <2> QED
    BY <2>1, NothingPromised
<1>3. CASE DropChunks(i)
  <2>1. /\ prune[i].pc = "drop" /\ rawPayloads' \subseteq rawPayloads
        /\ prune'[i].pc \in {"drop", "list"}
        /\ prune'[i].startedAt = prune[i].startedAt
    BY <1>1, <1>3 DEF DropChunks, tables, Pruner
  <2>2. PayloadsDrained(i)'
    BY <2>1 DEF DrainOK, PayloadsDrained, RawCutoff
  <2> QED
    BY <2>1, <2>2, DrainsAt
<1> QED
  BY <1>2, <1>3

\* An empty list ends Prune because nothing is expired.
LEMMA ListExpiredPollRunIDsDrains ==
    ASSUME IInv, NEW i \in Instances, DrainOK(i), ListExpiredPollRunIDs(i)
    PROVE  DrainOK(i)' /\ (PruneReturnsOk(i) => NothingOlderLeft(i))
<1> DEFINE expired == {r \in pollRuns : r.result.startedAt < Cutoff(i)}
<1>1. /\ prune \in [Instances -> Pruner] /\ prune[i] \in Pruner
      /\ prune[i].pc = "list" /\ prune[i].startedAt \in Nat
      /\ pollRuns \subseteq PollRun
      /\ pollRuns' = pollRuns /\ rawPayloads' = rawPayloads
  BY DEF IInv, TypeOK, ListExpiredPollRunIDs, tables, Pruner
<1>2. PICK batch \in SUBSET expired :
         /\ batch = expired \/ Cardinality(batch) = BatchSize
         /\ prune' = [prune EXCEPT ![i] =
                        IF batch = {} THEN Returned("ok")
                        ELSE [@ EXCEPT !.pc = "delete",
                                       !.ids = {r.id : r \in batch}]]
  BY DEF ListExpiredPollRunIDs, OldestBatches
<1>3. RawPeriod > 0 => \A x \in rawPayloads : x.observedAt >= RawCutoff(i)
  BY <1>1 DEF DrainOK, PayloadsDrained
<1>4. CASE batch = {}
  <2>1. expired = {}
    BY <1>2, <1>4, FS_EmptySet
  <2>2. \A r \in pollRuns : r.result.startedAt >= Cutoff(i)
    BY <1>1, <2>1 DEF PollRun, Result, Cutoff
  <2>3. prune'[i].pc = "idle"
    BY <1>1, <1>2, <1>4 DEF Returned, PrunerAt
  <2> QED
    BY <1>1, <1>3, <2>2, <2>3, NothingPromised DEF NothingOlderLeft
<1>5. CASE batch # {}
  <2> DEFINE ids == {r.id : r \in batch}
             chosen == {r \in pollRuns : r.id \in ids}
  <2>1. /\ prune'[i].pc = "delete" /\ prune'[i].ids = ids
        /\ prune'[i].startedAt = prune[i].startedAt
    BY <1>1, <1>2, <1>5 DEF Pruner
  <2>2. chosen = batch
    BY <1>2 DEF IInv, RunsOK
  <2>3. RawCutoff(i)' = RawCutoff(i) /\ Cutoff(i)' = Cutoff(i)
    BY <2>1 DEF RawCutoff, Cutoff
  <2>4. PayloadsDrained(i)'
    BY <1>1, <1>3, <2>3 DEF PayloadsDrained
  <2>5. {r \in pollRuns' : r.id \in prune'[i].ids} = batch
    BY <1>1, <2>1, <2>2
  <2>6. \/ Cardinality(batch) = BatchSize
        \/ \A r \in pollRuns : r.result.startedAt < Cutoff(i) => r.id \in ids
    BY <1>2
  <2>7. RunsDrain(i)'
    <3> HIDE DEF ids, chosen
    <3> QED
      BY <1>1, <2>1, <2>3, <2>5, <2>6 DEF RunsDrain
  <2> QED
    BY <2>1, <2>4, <2>7, DrainsAt DEF PruneReturnsOk
<1> QED
  BY <1>4, <1>5

\* A batch that was not full was the last of them.
LEMMA DeletePollRunsDrains ==
    ASSUME IInv, NEW i \in Instances, DrainOK(i), DeletePollRuns(i)
    PROVE  DrainOK(i)' /\ (PruneReturnsOk(i) => NothingOlderLeft(i))
<1> DEFINE chosen == {r \in pollRuns : r.id \in prune[i].ids}
           again == [prune[i] EXCEPT !.pc = "list", !.ids = {}]
<1>1. /\ prune \in [Instances -> Pruner] /\ prune[i] \in Pruner
      /\ prune[i].pc = "delete" /\ prune[i].startedAt \in Nat
      /\ pollRuns \subseteq PollRun
      /\ pollRuns' = {r \in pollRuns : r.id \notin prune[i].ids}
      /\ rawPayloads' \subseteq rawPayloads
      /\ prune' = [prune EXCEPT ![i] =
                     IF ShortBatch(Cardinality(chosen)) THEN Returned("ok") ELSE again]
  BY DEF IInv, TypeOK, DeletePollRuns, Remaining, Pruner
<1>2. RawPeriod > 0 => \A x \in rawPayloads' : x.observedAt >= RawCutoff(i)
  BY <1>1 DEF DrainOK, PayloadsDrained
<1>3. CASE ~ShortBatch(Cardinality(chosen))
  <2>1. prune'[i] = again
    BY <1>1, <1>3
  <2>2. again.pc = "list" /\ again.startedAt = prune[i].startedAt
    BY <1>1 DEF Pruner
  <2>3. PayloadsDrained(i)'
    BY <1>2, <2>1, <2>2 DEF PayloadsDrained, RawCutoff
  <2> QED
    BY <2>1, <2>2, <2>3, DrainsAt DEF PruneReturnsOk
<1>4. CASE ShortBatch(Cardinality(chosen))
  <2>1. Cardinality(chosen) # BatchSize
    BY <1>4 DEF ShortBatch
  <2>2. \A r \in pollRuns : r.result.startedAt < Cutoff(i) => r.id \in prune[i].ids
    BY <1>1, <2>1 DEF DrainOK, RunsDrain
  <2>3. \A r \in pollRuns' : r.result.startedAt >= Cutoff(i)
    BY <1>1, <2>2 DEF PollRun, Result, Cutoff
  <2>4. prune'[i] = Returned("ok")
    BY <1>1, <1>4
  <2>5. prune'[i].pc = "idle"
    BY <2>4 DEF Returned, PrunerAt
  <2> QED
    BY <1>2, <2>3, <2>5, NothingPromised DEF NothingOlderLeft
<1> QED
  BY <1>3, <1>4

\* What the only pruner of a database knows between its statements.
DrainInv ==
    /\ CommandsAfterStart
    /\ \A i \in Instances : Instances = {i} => DrainOK(i)

LEMMA NextDrains ==
    ASSUME IInv, CommandsAfterStart, [Next]_vars,
           NEW i \in Instances, Instances = {i}, DrainOK(i)
    PROVE  DrainOK(i)' /\ (PruneReturnsOk(i) => NothingOlderLeft(i))
<1>1. TypeOK'
  BY NextStep DEF IInv
<1>2. prune \in [Instances -> Pruner]
  BY DEF IInv, TypeOK
<1>4. ASSUME UNCHANGED <<prune, pollRuns, rawPayloads>>
      PROVE  DrainOK(i)' /\ ~PruneReturnsOk(i)
  BY <1>1, <1>2, <1>4, DrainFrame DEF PruneReturnsOk
<1>5. CASE UNCHANGED vars
  BY <1>4, <1>5 DEF vars, tables
<1>6. CASE Tick
  BY <1>4, <1>6 DEF Tick, tables
<1>7. CASE SavePollResult(i)
  <2>1. CASE Commit(i) \/ CommitAnswerLost(i)
    <3>1. Publish(i) /\ UNCHANGED <<now, prune>>
      BY <2>1 DEF Commit, CommitAnswerLost
    <3>2. ~PruneReturnsOk(i)
      BY <3>1 DEF PruneReturnsOk
    <3> QED
      BY <1>1, <1>2, <3>1, <3>2, PublishDrains
  <2>2. CASE ~(Commit(i) \/ CommitAnswerLost(i))
    BY <1>4, <1>7, <2>2
       DEF SavePollResult, CreatePollRun, InsertRawCommandPayload,
           InsertHostmapEntries, InsertLighthouseAddrmap, InsertRelaySnapshot,
           InsertEntries, CompletePollRun, Rollback, tables
  <2> QED
    BY <2>1, <2>2
<1>8. CASE PruneStart(i)
  <2>1. prune[i].pc = "idle" /\ UNCHANGED tables
    BY <1>8 DEF PruneStart
  <2>2. ~PruneReturnsOk(i)
    BY <2>1 DEF PruneReturnsOk
  <2>3. prune[i] \in Pruner /\ now \in Nat
    BY <1>2 DEF IInv, TypeOK
  <2>4. CASE RawPeriod = 0
    <3> DEFINE s == Started("list")
    <3>1. s \in Pruner
      BY <2>3 DEF Started, PrunerAt, Pruner, PruneSteps
    <3>2. prune'[i] = AtPeriod(s)
      BY <1>2, <1>8, <2>4 DEF PruneStart
    <3> HIDE DEF s
    <3>3. prune'[i].pc \in {"idle", "drop", "list"}
      BY <3>1, <3>2, AtPeriodOK
    <3>4. PayloadsDrained(i)'
      BY <2>4 DEF PayloadsDrained
    <3> QED
      BY <1>2, <2>2, <3>3, <3>4, NothingPromised, DrainsAt
  <2>5. CASE RawPeriod # 0
    <3>1. prune'[i].pc \in {"raw_drop", "raw_list"}
      BY <1>2, <1>8, <2>5 DEF PruneStart, Started, PrunerAt
    <3> QED
      BY <1>2, <2>2, <3>1, NothingPromised
  <2> QED
    BY <2>4, <2>5
<1>9. CASE PruneStep(i)
  BY <1>2, <1>9, DropsDrain, ListRawPayloadsDrains, DeleteRawPayloadsDrains,
     ListExpiredPollRunIDsDrains, DeletePollRunsDrains
     DEF PruneStep, PruneReturnsOk
<1>10. CASE PruneFail(i) \/ Crash(i)
  <2>1. prune'[i].pc = "idle" /\ prune'[i].last # "ok"
    BY <1>2, <1>10 DEF PruneFail, Crash, Returned, PrunerAt
  <2> QED
    BY <1>2, <2>1, NothingPromised DEF PruneReturnsOk
<1> QED
  BY <1>2, <1>5, <1>6, <1>7, <1>8, <1>9, <1>10 DEF Next

\* When a Prune call returns nil and no other process prunes the database,
\* nothing older than its cutoffs is left, in any batch size, with or without
\* TimescaleDB, and with saves committing between its statements.
THEOREM OnlyPrunerCompletes == Spec => PruneComplete
<1>1. Init => DrainInv
  BY DEF Init, DrainInv, CommandsAfterStart, DrainOK, PayloadsDrain,
         PayloadsDrained, RunsDrain, IdleTx, Returned, PrunerAt
<1>2. IInv /\ DrainInv /\ [Next]_vars => DrainInv'
  BY ResultsStay, NextDrains DEF DrainInv
<1>3. IInv /\ DrainInv /\ [Next]_vars
         => [\A i \in Instances :
                Instances = {i} /\ PruneReturnsOk(i) => NothingOlderLeft(i)]_vars
  BY NextDrains DEF DrainInv
<1> QED
  BY <1>1, <1>2, <1>3, Invariance, PTL DEF Spec, PruneComplete

=============================================================================
