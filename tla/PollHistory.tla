------------------------------ MODULE PollHistory ------------------------------
(***************************************************************************)
(* What the store promises to whoever reads the database (Grafana's views, *)
(* the service discovery endpoint): a poll appears in one step with every  *)
(* row it has, and a row disappears only after its retention period.       *)
(* Transactions, batches, chunks and processes are not visible here.       *)
(***************************************************************************)
EXTENDS PollSchema

VARIABLES
    now,            \* the wall clock
    pollRuns,       \* committed rows of poll_runs
    rawPayloads,    \* committed rows of raw_command_payloads
    entries         \* committed rows of the normalized tables

historyVars == <<now, pollRuns, rawPayloads, entries>>

Ids(runs) == {r.id : r \in runs}

HistoryInit ==
    /\ now = 0
    /\ pollRuns = {}
    /\ rawPayloads = {}
    /\ entries = {}

TimePasses ==
    /\ now' = now + 1
    /\ UNCHANGED <<pollRuns, rawPayloads, entries>>

\* One poll becomes visible, completed and with all its rows, before its
\* retention period is over.
Record(run) ==
    /\ run.id \notin Ids(pollRuns)
    /\ run.success = run.result.success
    /\ run.result.startedAt <= now /\ ~Expired(run.result.startedAt, now)
    /\ pollRuns' = pollRuns \cup {run}
    /\ rawPayloads' = rawPayloads \cup RawRows(run.id, run.result, Commands)
    /\ entries' = entries \cup EntryRows(run.id, run.result, run.result.fills)
    /\ UNCHANGED now

\* Some expired polls disappear, the oldest first, each with every row that
\* refers to it.
ForgetRuns ==
    /\ pollRuns' \in SUBSET pollRuns
    /\ \A run \in pollRuns \ pollRuns' :
          /\ Expired(run.result.startedAt, now)
          /\ \A kept \in pollRuns' : run.result.startedAt <= kept.result.startedAt
    /\ rawPayloads' = {x \in rawPayloads : x.run \in Ids(pollRuns')}
    /\ entries' = {x \in entries : x.run \in Ids(pollRuns')}
    /\ UNCHANGED now

\* Some expired payloads disappear; their polls stay.
ForgetPayloads ==
    /\ rawPayloads' \in SUBSET rawPayloads
    /\ \A x \in rawPayloads \ rawPayloads' : RawExpired(x.observedAt, now)
    /\ UNCHANGED <<now, pollRuns, entries>>

\* Some expired normalized rows disappear ahead of their polls.
ForgetEntries ==
    /\ entries' \in SUBSET entries
    /\ \A x \in entries \ entries' : Expired(x.observedAt, now)
    /\ UNCHANGED <<now, pollRuns, rawPayloads>>

HistoryNext ==
    \/ TimePasses
    \/ \E run \in pollRuns' : Record(run)
    \/ ForgetRuns \/ ForgetPayloads \/ ForgetEntries

HistorySpec == HistoryInit /\ [][HistoryNext]_historyVars

-----------------------------------------------------------------------------
Successes(runs, lighthouse) ==
    {r \in runs : r.success /\ r.result.lighthouse = lighthouse}

\* The newest successful poll of a lighthouse, which the service discovery
\* presents as its current state, is never replaced by an older one: while any
\* is left, the newest does not go back in time.
NewestStays ==
    \A lighthouse \in Lighthouses :
        \A r \in Successes(pollRuns, lighthouse) :
            Successes(pollRuns', lighthouse) # {} =>
                \E s \in Successes(pollRuns', lighthouse) :
                    s.result.startedAt >= r.result.startedAt

=============================================================================
