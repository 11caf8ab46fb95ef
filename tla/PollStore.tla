------------------------------ MODULE PollStore ------------------------------
(***************************************************************************)
(* The store of nebula-mnemosina: SavePollResult writes one poll in one    *)
(* transaction (internal/storage/storage.go) while the pruner of the same  *)
(* process, and of any other process connected to the database during a    *)
(* rolling update, removes expired history in batches                      *)
(* (internal/retention/retention.go, db/queries/retention.sql).            *)
(*                                                                         *)
(* The granularity is the database's: one SQL statement, or one commit, is *)
(* one step.  Rows inserted by an open transaction live in tx and are      *)
(* invisible to every other session until Commit.                          *)
(***************************************************************************)
EXTENDS PollSchema

CONSTANTS
    Instances,      \* processes connected to one database
    Timescale,      \* --database-enable-timescale
    BatchSize,      \* retention.batchSize
    ChunkInterval,  \* chunk_time_interval of the hypertables
    SaveLag,        \* ticks from the start of a poll to the commit of its rows
    Fills,          \* which normalized tables a poll may have rows for
    NoResult,       \* no poll result is being saved
    MaxTime,        \* bound: ticks of the clock
    MaxRuns,        \* bound: identifiers drawn from the poll_runs sequence
    MaxFailures     \* bound: failed statements, lost connections and crashes

(***************************************************************************)
(* A save that starts before the retention period is over ends before it:  *)
(* poll timeouts and statements take seconds, retention periods hours.     *)
(***************************************************************************)
ASSUME StoreAssumption ==
    /\ Timescale \in BOOLEAN
    /\ BatchSize \in Nat \ {0}
    /\ ChunkInterval \in Nat \ {0}
    /\ SaveLag \in Nat
    /\ Period > 0 => SaveLag <= Period
    /\ RawPeriod > 0 => SaveLag <= RawPeriod
    /\ Fills \subseteq SUBSET NormalizedTables
    /\ NoResult \notin Result
    /\ {MaxTime, MaxRuns, MaxFailures} \subseteq Nat

VARIABLES
    now,            \* the wall clock
    pollRuns,       \* committed rows of poll_runs
    rawPayloads,    \* committed rows of raw_command_payloads
    entries,        \* committed rows of the normalized tables
    nextId,         \* the sequence behind poll_runs.id; rollbacks leave gaps
    tx,             \* the SavePollResult call of each instance
    acked,          \* runs for which SavePollResult returned nil
    prune,          \* the Pruner of each instance
    failures        \* failures injected so far

tables == <<pollRuns, rawPayloads, entries>>
vars == <<now, tables, nextId, tx, acked, prune, failures>>

PH == INSTANCE PollHistory

-----------------------------------------------------------------------------
(***************************************************************************)
(* State                                                                   *)
(***************************************************************************)
TxSteps == {"idle", "raw", "hostmap_entries", "lighthouse_addrmap_entries",
            "relay_snapshots", "complete", "commit"}

\* success is the column of the uncommitted row, raw and filled what the
\* transaction has inserted so far.
Tx == [pc : TxSteps, id : Nat, result : Result \cup {NoResult},
       success : BOOLEAN, raw : SUBSET Commands,
       filled : SUBSET NormalizedTables]

IdleTx == [pc |-> "idle", id |-> 0, result |-> NoResult, success |-> FALSE,
           raw |-> {}, filled |-> {}]

\* A transaction that holds nothing but its poll_runs row.
NewTx(id, result) ==
    [pc |-> "raw", id |-> id, result |-> result, success |-> FALSE,
     raw |-> {}, filled |-> {}]

PruneSteps ==
    {"idle", "raw_drop", "raw_list", "raw_delete", "drop", "list", "delete"}

\* startedAt is the now that Run hands to Prune, todo the hypertables whose
\* chunks are still to be dropped, ids and payloads the batch chosen by the
\* statement that is about to delete it, last the last return value.
Pruner == [pc : PruneSteps, startedAt : Nat, todo : Seq(Tables),
           ids : SUBSET Nat, payloads : SUBSET RawRow,
           last : {"none", "ok", "err"}]

PrunerAt(pc, startedAt, last) ==
    [pc |-> pc, startedAt |-> startedAt, todo |-> <<>>, ids |-> {},
     payloads |-> {}, last |-> last]

\* Prune has returned, or was never called.
Returned(last) == PrunerAt("idle", 0, last)

Init ==
    /\ now = 0
    /\ pollRuns = {} /\ rawPayloads = {} /\ entries = {}
    /\ nextId = 1
    /\ tx = [i \in Instances |-> IdleTx]
    /\ acked = {}
    /\ prune = [i \in Instances |-> Returned("none")]
    /\ failures = 0

-----------------------------------------------------------------------------
(***************************************************************************)
(* SavePollResult                                                          *)
(***************************************************************************)
\* What pollLighthouse can hand over at time t: commands start after the
\* poll does, and a poll without errors holds the relay snapshot, which is a
\* JSON value and so never empty.
PollResults(t) ==
    {r \in [lighthouse : Lighthouses, startedAt : 0..t, success : BOOLEAN,
            commandsAt : [Commands -> 0..t], fills : Fills] :
        /\ r.startedAt >= t - SaveLag
        /\ \A c \in Commands : r.commandsAt[c] >= r.startedAt
        /\ r.success => "relay_snapshots" \in r.fills}

\* Mutant: the row is committed by itself, as without the transaction.
CreatePollRunAutocommitted(i) ==
    /\ tx[i].pc = "idle"
    /\ nextId <= MaxRuns
    /\ \E result \in PollResults(now) :
          /\ tx' = [tx EXCEPT ![i] = NewTx(nextId, result)]
          /\ pollRuns' = pollRuns \cup
                {[id |-> nextId, success |-> FALSE, result |-> result]}
    /\ nextId' = nextId + 1
    /\ UNCHANGED <<now, rawPayloads, entries, acked, prune, failures>>

\* BeginTx and CreatePollRun.  The row's success column is false.
CreatePollRun(i) ==
    /\ tx[i].pc = "idle"
    /\ nextId <= MaxRuns
    /\ \E result \in PollResults(now) :
          tx' = [tx EXCEPT ![i] = NewTx(nextId, result)]
    /\ nextId' = nextId + 1
    /\ UNCHANGED <<now, tables, acked, prune, failures>>

\* Mutant: a payload that cannot be inserted is skipped.
InsertRawCommandPayloadOrSkip(i) ==
    /\ tx[i].pc = "raw"
    /\ \/ \E c \in Commands \ tx[i].raw : tx' = [tx EXCEPT ![i].raw = @ \cup {c}]
       \/ tx' = [tx EXCEPT ![i].pc = "hostmap_entries"]
    /\ UNCHANGED <<now, tables, nextId, acked, prune, failures>>

\* One iteration of the loop over result.Commands, or its end.
InsertRawCommandPayload(i) ==
    /\ tx[i].pc = "raw"
    /\ \/ \E c \in Commands \ tx[i].raw : tx' = [tx EXCEPT ![i].raw = @ \cup {c}]
       \/ /\ tx[i].raw = Commands
          /\ tx' = [tx EXCEPT ![i].pc = "hostmap_entries"]
    /\ UNCHANGED <<now, tables, nextId, acked, prune, failures>>

\* The rows of one normalized table, if the result has any.
InsertEntries(i, table, then) ==
    /\ tx[i].pc = table
    /\ tx' = [tx EXCEPT ![i].filled = @ \cup ({table} \cap tx[i].result.fills),
                        ![i].pc = then]
    /\ UNCHANGED <<now, tables, nextId, acked, prune, failures>>

\* insertHostmapEntries for the sources hostmap and pending.
InsertHostmapEntries(i) ==
    InsertEntries(i, "hostmap_entries", "lighthouse_addrmap_entries")

InsertLighthouseAddrmap(i) ==
    InsertEntries(i, "lighthouse_addrmap_entries", "relay_snapshots")

InsertRelaySnapshot(i) == InsertEntries(i, "relay_snapshots", "complete")

\* Mutant: the UPDATE leaves the success column alone.
CompletePollRunPartly(i) ==
    /\ tx[i].pc = "complete"
    /\ tx' = [tx EXCEPT ![i].pc = "commit"]
    /\ UNCHANGED <<now, tables, nextId, acked, prune, failures>>

\* The UPDATE that sets success from the result.
CompletePollRun(i) ==
    /\ tx[i].pc = "complete"
    /\ tx' = [tx EXCEPT ![i].success = tx[i].result.success, ![i].pc = "commit"]
    /\ UNCHANGED <<now, tables, nextId, acked, prune, failures>>

\* The poll_runs row of the open transaction of i.
TxRun(i) ==
    [id |-> tx[i].id, success |-> tx[i].success, result |-> tx[i].result]

\* The commit takes effect: every row of the transaction becomes visible.
Publish(i) ==
    /\ tx[i].pc = "commit"
    /\ pollRuns' = pollRuns \cup {TxRun(i)}
    /\ rawPayloads' = rawPayloads \cup RawRows(tx[i].id, tx[i].result, tx[i].raw)
    /\ entries' = entries \cup EntryRows(tx[i].id, tx[i].result, tx[i].filled)
    /\ tx' = [tx EXCEPT ![i] = IdleTx]

\* Commit succeeds and SavePollResult returns nil.
Commit(i) ==
    /\ Publish(i)
    /\ acked' = acked \cup {TxRun(i)}
    /\ UNCHANGED <<now, nextId, prune, failures>>

\* The server commits but the answer is lost: SavePollResult returns an error.
CommitAnswerLost(i) ==
    /\ Publish(i)
    /\ failures < MaxFailures
    /\ failures' = failures + 1
    /\ UNCHANGED <<now, nextId, acked, prune>>

\* A statement or the commit fails: the deferred Rollback discards the rows.
Rollback(i) ==
    /\ tx[i].pc # "idle"
    /\ failures < MaxFailures
    /\ failures' = failures + 1
    /\ tx' = [tx EXCEPT ![i] = IdleTx]
    /\ UNCHANGED <<now, tables, nextId, acked, prune>>

SavePollResult(i) ==
    \/ CreatePollRun(i) \/ InsertRawCommandPayload(i)
    \/ InsertHostmapEntries(i) \/ InsertLighthouseAddrmap(i)
    \/ InsertRelaySnapshot(i) \/ CompletePollRun(i)
    \/ Commit(i) \/ CommitAnswerLost(i) \/ Rollback(i)

-----------------------------------------------------------------------------
(***************************************************************************)
(* Pruner                                                                  *)
(***************************************************************************)
Enabled == Period > 0 \/ RawPeriod > 0

pollHypertables ==
    <<"hostmap_entries", "lighthouse_addrmap_entries", "relay_snapshots">>

\* The hypertables dropped with the poll runs, in the order of the loop.
PollHypertables ==
    IF RawPeriod = 0 THEN <<"raw_command_payloads">> \o pollHypertables
                     ELSE pollHypertables

\* Mutant: started_at <= cutoff.
CutoffIncluded(i) == prune[i].startedAt - Period + 1

\* Rows older than the cutoffs of the Prune call of i are to be removed.
Cutoff(i) == prune[i].startedAt - Period

RawCutoff(i) == prune[i].startedAt - RawPeriod

\* A row observed at `at' is in a chunk that ends at or before the cutoff.
InDroppedChunk(at, cutoff) ==
    \E k \in 0..at : /\ k * ChunkInterval <= at
                     /\ at < (k + 1) * ChunkInterval
                     /\ (k + 1) * ChunkInterval <= cutoff

\* The state of p at the start of the part of Prune governed by Period.
AtPeriod(p) ==
    IF Period = 0 THEN Returned("ok")
    ELSE [p EXCEPT !.pc = IF Timescale THEN "drop" ELSE "list",
                   !.todo = IF Timescale THEN PollHypertables ELSE <<>>,
                   !.payloads = {}]

\* Mutant: Run takes the time once, before its loop.
StartedAtBoot(pc) == PrunerAt(pc, 0, "none")

\* A Prune call that starts now, at pc.
Started(pc) == PrunerAt(pc, now, "none")

\* Mutant: a full last batch ends the loop.
ShortOrFull(deleted) == deleted <= BatchSize

\* The loop of deleteBatches breaks when the batch was not a full one.
ShortBatch(deleted) == deleted < BatchSize

\* The first tick of Run, and every later one, calls Prune.
PruneStart(i) ==
    /\ Enabled
    /\ prune[i].pc = "idle"
    /\ prune' = [prune EXCEPT ![i] =
                   IF RawPeriod = 0 THEN AtPeriod(Started("list"))
                   ELSE Started(IF Timescale THEN "raw_drop" ELSE "raw_list")]
    /\ UNCHANGED <<now, tables, nextId, tx, acked, failures>>

\* DropChunks on raw_command_payloads with the cutoff of RawPeriod.
DropRawChunks(i) ==
    /\ prune[i].pc = "raw_drop"
    /\ rawPayloads' = {x \in rawPayloads :
                          ~InDroppedChunk(x.observedAt, RawCutoff(i))}
    /\ prune' = [prune EXCEPT ![i].pc = "raw_list"]
    /\ UNCHANGED <<now, pollRuns, entries, nextId, tx, acked, failures>>

\* Mutant: no ORDER BY.
AnyBatches(S, at) ==
    {B \in SUBSET S : \/ B = S /\ Cardinality(S) <= BatchSize
                      \/ Cardinality(B) = BatchSize}

\* The rows of S that ORDER BY time LIMIT BatchSize may return, given the
\* time at[x] of a row.  Ties are broken arbitrarily.
OldestBatches(S, at) ==
    {B \in SUBSET S :
        /\ \/ B = S /\ Cardinality(S) <= BatchSize
           \/ Cardinality(B) = BatchSize
        /\ \A x \in B, y \in S \ B : at[x] <= at[y]}

\* The subquery of DeleteExpiredRawCommandPayloads chooses the rows.
ListRawPayloads(i) ==
    /\ prune[i].pc = "raw_list"
    /\ LET expired == {x \in rawPayloads : x.observedAt < RawCutoff(i)}
           at == [x \in expired |-> x.observedAt]
       IN \E batch \in OldestBatches(expired, at) :
             prune' = [prune EXCEPT ![i].pc = "raw_delete", ![i].payloads = batch]
    /\ UNCHANGED <<now, tables, nextId, tx, acked, failures>>

\* The DELETE locks them and skips those another session has deleted since.
\* A short batch ends the loop of deleteBatches.
DeleteRawPayloads(i) ==
    /\ prune[i].pc = "raw_delete"
    /\ rawPayloads' = rawPayloads \ prune[i].payloads
    /\ LET deleted == Cardinality(prune[i].payloads \cap rawPayloads)
       IN prune' = [prune EXCEPT ![i] =
                      IF ShortBatch(deleted) THEN AtPeriod(@)
                      ELSE [@ EXCEPT !.pc = "raw_list", !.payloads = {}]]
    /\ UNCHANGED <<now, pollRuns, entries, nextId, tx, acked, failures>>

\* One iteration of the loop over the hypertables, or its end.
DropChunks(i) ==
    /\ prune[i].pc = "drop"
    /\ \/ /\ prune[i].todo = <<>>
          /\ prune' = [prune EXCEPT ![i].pc = "list"]
          /\ UNCHANGED tables
       \/ /\ prune[i].todo # <<>>
          /\ prune' = [prune EXCEPT ![i].todo = Tail(@)]
          /\ rawPayloads' =
                {x \in rawPayloads :
                   ~ /\ Head(prune[i].todo) = "raw_command_payloads"
                     /\ InDroppedChunk(x.observedAt, Cutoff(i))}
          /\ entries' =
                {x \in entries :
                   ~ /\ Head(prune[i].todo) = x.table
                     /\ InDroppedChunk(x.observedAt, Cutoff(i))}
          /\ UNCHANGED pollRuns
    /\ UNCHANGED <<now, nextId, tx, acked, failures>>

\* ListExpiredPollRunIDs.  An empty list ends Prune.
ListExpiredPollRunIDs(i) ==
    /\ prune[i].pc = "list"
    /\ LET expired == {r \in pollRuns : r.result.startedAt < Cutoff(i)}
           at == [r \in expired |-> r.result.startedAt]
       IN \E batch \in OldestBatches(expired, at) :
             prune' = [prune EXCEPT ![i] =
                         IF batch = {} THEN Returned("ok")
                         ELSE [@ EXCEPT !.pc = "delete",
                                        !.ids = {r.id : r \in batch}]]
    /\ UNCHANGED <<now, tables, nextId, tx, acked, failures>>

\* The child rows that remain when the poll runs ids are deleted.
Remaining(rows, ids) == {x \in rows : x.run \notin ids}

\* DeletePollRuns, with ON DELETE CASCADE on every child table.
DeletePollRuns(i) ==
    /\ prune[i].pc = "delete"
    /\ pollRuns' = {r \in pollRuns : r.id \notin prune[i].ids}
    /\ rawPayloads' = Remaining(rawPayloads, prune[i].ids)
    /\ entries' = Remaining(entries, prune[i].ids)
    /\ LET deleted == Cardinality({r \in pollRuns : r.id \in prune[i].ids})
       IN prune' = [prune EXCEPT ![i] =
                      IF ShortBatch(deleted) THEN Returned("ok")
                      ELSE [@ EXCEPT !.pc = "list", !.ids = {}]]
    /\ UNCHANGED <<now, nextId, tx, acked, failures>>

\* A statement fails (a deadlock between two pruners included) or the
\* context is done: Prune returns the error, Run logs it and waits.
PruneFail(i) ==
    /\ prune[i].pc # "idle"
    /\ failures < MaxFailures
    /\ failures' = failures + 1
    /\ prune' = [prune EXCEPT ![i] = Returned("err")]
    /\ UNCHANGED <<now, tables, nextId, tx, acked>>

\* One step of a Prune call that is under way.
PruneStep(i) ==
    \/ DropRawChunks(i) \/ ListRawPayloads(i) \/ DeleteRawPayloads(i)
    \/ DropChunks(i) \/ ListExpiredPollRunIDs(i) \/ DeletePollRuns(i)

-----------------------------------------------------------------------------
\* The process dies and is started again; the server rolls back its
\* transaction, batches already deleted stay deleted.  Nothing is lost when
\* neither call is under way.
Crash(i) ==
    /\ tx[i].pc # "idle" \/ prune[i].pc # "idle"
    /\ failures < MaxFailures
    /\ failures' = failures + 1
    /\ tx' = [tx EXCEPT ![i] = IdleTx]
    /\ prune' = [prune EXCEPT ![i] = Returned("none")]
    /\ UNCHANGED <<now, tables, nextId, acked>>

\* The clock advances; an open save ends within SaveLag of its poll's start.
Tick ==
    /\ now < MaxTime
    /\ \A i \in Instances :
          tx[i].pc # "idle" => now - tx[i].result.startedAt < SaveLag
    /\ now' = now + 1
    /\ UNCHANGED <<tables, nextId, tx, acked, prune, failures>>

Next ==
    \/ Tick
    \/ \E i \in Instances :
          SavePollResult(i) \/ PruneStart(i) \/ PruneStep(i) \/ PruneFail(i) \/ Crash(i)

Spec == Init /\ [][Next]_vars

(***************************************************************************)
(* Run calls Prune on every tick of its ticker, and statements end.        *)
(***************************************************************************)
FairSpec ==
    /\ Spec
    /\ \A i \in Instances : WF_vars(PruneStart(i) \/ PruneStep(i))

-----------------------------------------------------------------------------
(***************************************************************************)
(* Properties                                                              *)
(***************************************************************************)
\* Every variable has its type.
TypeOK ==
    /\ now \in Nat
    /\ pollRuns \subseteq PollRun
    /\ rawPayloads \subseteq RawRow
    /\ entries \subseteq EntryRow
    /\ nextId \in Nat
    /\ tx \in [Instances -> Tx]
    /\ acked \subseteq PollRun
    /\ prune \in [Instances -> Pruner]
    /\ failures \in Nat

\* A poll that a reader can see and that is younger than the retention period
\* is complete: its success column is the result's, every normalized row is
\* there, and so is every payload younger than the payloads' own period.  This
\* is what the single transaction of SavePollResult and the order and cutoffs
\* of Prune are for, whatever fails in the middle of either.
UnexpiredRunsIntact ==
    \A r \in pollRuns :
        ~Expired(r.result.startedAt, now) =>
            /\ r.success = r.result.success
            /\ EntryRows(r.id, r.result, r.result.fills) \subseteq entries
            /\ \A x \in RawRows(r.id, r.result, Commands) :
                  RawExpired(x.observedAt, now) \/ x \in rawPayloads

\* A poll for which SavePollResult returned nil is in poll_runs until it
\* expires, across rollbacks, lost commit answers, crashes and the pruners of
\* other processes.
AckedRunsKept ==
    \A r \in acked : r \in pollRuns \/ Expired(r.result.startedAt, now)

\* The rows of the child tables refer to a committed poll (the foreign keys),
\* and to the one they were saved for: pruning never leaves orphans behind.
NoOrphans ==
    /\ \A x \in rawPayloads :
          \E r \in pollRuns : x \in RawRows(r.id, r.result, Commands)
    /\ \A x \in entries :
          \E r \in pollRuns : x \in EntryRows(r.id, r.result, r.result.fills)

\* The newest successful poll of a lighthouse, which the service discovery
\* presents as its current state, is never replaced by an older one.
\* ListExpiredPollRunIDs must therefore delete oldest first, also across
\* batches and pruners, and no save may commit a poll older than a batch.
PresentPollNeverGoesBack == [][PH!NewestStays]_vars

\* When a Prune call of the only pruner returns nil, nothing older than its
\* cutoffs is left: the loop over full batches does not stop early, and no
\* save that was under way can commit behind it.
PruneReturnsOk(i) ==
    /\ prune[i].pc # "idle"
    /\ prune'[i].pc = "idle"
    /\ prune'[i].last = "ok"

NothingOlderLeft(i) ==
    /\ Period > 0 => \A r \in pollRuns' : r.result.startedAt >= Cutoff(i)
    /\ RawPeriod > 0 => \A x \in rawPayloads' : x.observedAt >= RawCutoff(i)

PruneComplete ==
    [][\A i \in Instances :
          Instances = {i} /\ PruneReturnsOk(i) => NothingOlderLeft(i)]_vars

\* Every poll past the retention period is deleted in the end, although two
\* pruners take rows from each other's batches and stop early because of it,
\* and although calls fail or die half way.
ExpiredRunsDeleted ==
    \A id \in 1..MaxRuns :
        (\E r \in pollRuns : r.id = id /\ Expired(r.result.startedAt, now))
            ~> (\A r \in pollRuns : r.id # id)

\* Readers of the database see the history that PollHistory describes.
ImplementsHistory == PH!HistorySpec

-----------------------------------------------------------------------------
(***************************************************************************)
(* The inductive invariant behind the theorems of PollStoreProofs.         *)
(***************************************************************************)
\* The normalized tables an open transaction has been through.
TablesDone(pc) ==
    CASE pc \in {"raw", "hostmap_entries"}    -> {}
      [] pc = "lighthouse_addrmap_entries"    -> {"hostmap_entries"}
      [] pc = "relay_snapshots"               ->
            {"hostmap_entries", "lighthouse_addrmap_entries"}
      [] pc \in {"complete", "commit"}        -> NormalizedTables

\* An open transaction holds exactly what SavePollResult has got to, under an
\* identifier that nothing committed, open or about to be deleted carries.
OpenTx(i) ==
    /\ tx[i].result \in Result
    /\ tx[i].result.startedAt >= now - SaveLag
    /\ tx[i].result.startedAt <= now
    /\ tx[i].id < nextId
    /\ \A r \in pollRuns : r.id # tx[i].id
    /\ \A j \in Instances : tx[i].id \notin prune[j].ids
    /\ \A j \in Instances \ {i} : tx[j].pc # "idle" => tx[j].id # tx[i].id
    /\ tx[i].pc # "raw" => tx[i].raw = Commands
    /\ tx[i].filled = TablesDone(tx[i].pc) \cap tx[i].result.fills
    /\ tx[i].pc = "commit" => tx[i].success = tx[i].result.success

TransactionsOK == \A i \in Instances : tx[i].pc # "idle" => OpenTx(i)

\* poll_runs.id is a key below the sequence, and a visible run is completed.
RunsOK ==
    /\ \A r \in pollRuns : r.id < nextId /\ r.success = r.result.success
    /\ \A r, s \in pollRuns : r.id = s.id => r = s

\* What a pruner has chosen to delete stays expired and the oldest there is,
\* and cannot be reused.
PrunerOK(p) ==
    /\ p.startedAt <= now
    /\ p.pc \in {"raw_drop", "raw_list", "raw_delete"} => RawPeriod > 0
    /\ p.pc \in {"drop", "list", "delete"} => Period > 0
    /\ p.ids # {} => p.pc = "delete"
    /\ \A id \in p.ids : id < nextId
    /\ \A r \in pollRuns : r.id \in p.ids => r.result.startedAt < p.startedAt - Period
    /\ \A r, s \in pollRuns :
          r.id \in p.ids /\ s.id \notin p.ids => r.result.startedAt <= s.result.startedAt
    /\ \A x \in p.payloads : x.observedAt < p.startedAt - RawPeriod
    /\ RawPeriod > 0 => \A k \in DOMAIN p.todo : p.todo[k] # "raw_command_payloads"

PrunersOK ==
    \A i \in Instances : PrunerOK(prune[i])

\* What every reachable state satisfies and every step preserves: the visible
\* promises together with the private state of the calls that keep them.
IInv ==
    /\ TypeOK
    /\ TransactionsOK
    /\ RunsOK
    /\ NoOrphans
    /\ PrunersOK
    /\ UnexpiredRunsIntact
    /\ AckedRunsKept

=============================================================================
