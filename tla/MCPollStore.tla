------------------------------ MODULE MCPollStore ------------------------------
(***************************************************************************)
(* Instances of PollStore for TLC.                                         *)
(***************************************************************************)
EXTENDS PollStore

CONSTANTS i1, i2, lh1, lh2, noResult

\* Every poll has rows for every normalized table.
FullFills == {NormalizedTables}

\* A poll that got through to every table, and one that lost its relays.
SomeFills == {NormalizedTables, {"hostmap_entries"}}
=============================================================================
