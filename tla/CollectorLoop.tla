------------------------------ MODULE CollectorLoop ------------------------------
(***************************************************************************)
(* What the process relies on of Collector.Run: it goes through rounds, a  *)
(* round accounts for every lighthouse unless a signal cuts it short, and  *)
(* Run returns after its only round with --once, and otherwise when the    *)
(* root context is cancelled.  Goroutines, channels, connections and       *)
(* statements are not visible here; PollRound has those.                   *)
(***************************************************************************)
CONSTANTS
    Lighthouses     \* the configured lighthouses

VARIABLES
    once,           \* --once, which never changes
    phase,          \* "polling", "saving", "idle" between rounds, "returned"
    accounted,      \* lighthouses stored or reported in this round
    failed,         \* this round has an error to report
    cancelled,      \* the root context is done
    status          \* what run in main.go makes of the result of Run

loopVars == <<once, phase, accounted, failed, cancelled, status>>

LoopTypeOK ==
    /\ phase \in {"polling", "saving", "idle", "returned"}
    /\ accounted \subseteq Lighthouses
    /\ {once, failed, cancelled} \subseteq BOOLEAN
    /\ status \in {"running", "0", "1"}

LoopInit ==
    /\ once \in BOOLEAN
    /\ phase = "polling"
    /\ accounted = {}
    /\ failed = FALSE
    /\ cancelled = FALSE
    /\ status = "running"

\* wg.Wait returns: the goroutine of every lighthouse has.
PollsEnd ==
    /\ phase = "polling"
    /\ phase' = "saving"
    /\ UNCHANGED <<once, accounted, failed, cancelled, status>>

\* The result of l is stored, or its error is kept for the end of the round.
\* The signal may arrive during that.
Account(l) ==
    /\ phase = "saving"
    /\ l \notin accounted
    /\ accounted' = accounted \cup {l}
    /\ failed' \in {failed, TRUE}
    /\ cancelled' \in {cancelled, TRUE}
    /\ UNCHANGED <<once, phase, status>>

\* The exit status says whether anything failed, except that of an interrupted
\* round, which may be 0 in spite of errors.
Outcome == {s \in {"0", "1"} : (s = "1" => failed') /\ (s = "0" => ~failed' \/ cancelled)}

\* runRound returns, with an error of the refresh at most.
EndRound ==
    /\ phase = "saving"
    /\ accounted = Lighthouses \/ cancelled
    /\ failed' \in {failed, TRUE}
    /\ IF once THEN phase' = "returned" /\ status' \in Outcome
               ELSE phase' = "idle" /\ UNCHANGED status
    /\ UNCHANGED <<once, accounted, cancelled>>

NextRound ==
    /\ phase = "idle"
    /\ phase' = "polling"
    /\ accounted' = {}
    /\ failed' = FALSE
    /\ UNCHANGED <<once, cancelled, status>>

\* Run returns context.Canceled.
Return ==
    /\ phase = "idle"
    /\ cancelled
    /\ phase' = "returned"
    /\ status' = "0"
    /\ UNCHANGED <<once, accounted, failed, cancelled>>

Cancel ==
    /\ ~cancelled
    /\ cancelled' = TRUE
    /\ UNCHANGED <<once, phase, accounted, failed, status>>

LoopNext ==
    \/ PollsEnd
    \/ \E l \in Lighthouses : Account(l)
    \/ EndRound \/ NextRound \/ Return \/ Cancel

LoopSpec == LoopInit /\ [][LoopNext]_loopVars

=============================================================================
