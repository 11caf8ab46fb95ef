----------------------------- MODULE MCMigrations -----------------------------
(***************************************************************************)
(* A rolling update for TLC: two processes of the new binary, with the     *)
(* TimescaleDB set switched on, and the old one, which may be restarted at *)
(* any time.                                                               *)
(***************************************************************************)
EXTENDS Migrations

CONSTANTS old, new1, new2, noOne, dead

MCTimescale == [p \in Processes |-> p # old]

MCEmbedded ==
    [p \in Processes |->
        IF p = old THEN [core |-> 1, timescale |-> 1, views |-> 1]
                   ELSE [core |-> 2, timescale |-> 1, views |-> 2]]
=============================================================================
