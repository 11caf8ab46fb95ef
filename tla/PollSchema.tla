------------------------------ MODULE PollSchema ------------------------------
(***************************************************************************)
(* The rows of the PostgreSQL history (db/migrations/core/001_schema.sql)  *)
(* and the age limits of the retention configuration.  Times are ticks of  *)
(* one wall clock; a duration is a number of ticks.                        *)
(*                                                                         *)
(* A poll_runs row also carries, as an auxiliary field, the poll result it *)
(* was saved from, so that what the tables hold can be compared with what  *)
(* the collector handed to SavePollResult.                                 *)
(***************************************************************************)
EXTENDS Integers, FiniteSets, Sequences

CONSTANTS
    Lighthouses,    \* names of the configured lighthouses
    Commands,       \* the SSH commands of one poll
    Period,         \* --retention-period, 0 keeps history forever
    RawPeriod       \* --retention-raw-period, 0 keeps payloads for Period

(***************************************************************************)
(* validateRetention refuses negative periods.                             *)
(***************************************************************************)
ASSUME PeriodAssumption == Period \in Nat /\ RawPeriod \in Nat

\* The tables whose rows are observed at the start of their poll.
NormalizedTables ==
    {"hostmap_entries", "lighthouse_addrmap_entries", "relay_snapshots"}

Tables == NormalizedTables \cup {"raw_command_payloads"}

(***************************************************************************)
(* model.PollResult: success is Err = nil, commandsAt the StartedAt of     *)
(* each entry of Commands, fills the normalized tables for which the       *)
(* result holds at least one row.                                          *)
(***************************************************************************)
Result == [lighthouse : Lighthouses, startedAt : Nat, success : BOOLEAN,
           commandsAt : [Commands -> Nat], fills : SUBSET NormalizedTables]

\* A poll_runs row.  The columns lighthouse_name and started_at are those of
\* the result; success is the column, false until CompletePollRun.
PollRun == [id : Nat, success : BOOLEAN, result : Result]

\* A raw_command_payloads row; (run, command) identifies it.
RawRow == [run : Nat, command : Commands, observedAt : Nat]

\* All the rows one poll left in a normalized table.
EntryRow == [table : NormalizedTables, run : Nat, observedAt : Nat]

\* The payload rows of the commands cs of a result saved under id.
RawRows(id, result, cs) ==
    {[run |-> id, command |-> c, observedAt |-> result.commandsAt[c]] : c \in cs}

\* The normalized rows of the tables ts of a result saved under id.
EntryRows(id, result, ts) ==
    {[table |-> t, run |-> id, observedAt |-> result.startedAt] : t \in ts}

-----------------------------------------------------------------------------
\* History of age at is past the retention period at time t.
Expired(at, t) == Period > 0 /\ at < t - Period

\* A payload of age at is past the period that governs payloads at time t.
RawExpired(at, t) ==
    IF RawPeriod > 0 THEN at < t - RawPeriod ELSE Expired(at, t)

=============================================================================
