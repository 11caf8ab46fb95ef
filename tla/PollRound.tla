------------------------------ MODULE PollRound ------------------------------
(***************************************************************************)
(* The collector (internal/collector/collector.go): Run starts a round at  *)
(* once and then on every tick; a round polls every lighthouse in its own  *)
(* goroutine, waits for all of them, saves the results one by one and      *)
(* refreshes the views.  A poll runs its commands one after the other, each *)
(* on a new SSH connection (internal/sshclient/client.go, Run).            *)
(*                                                                         *)
(* Timers are booleans: a deadline may pass at any moment while it is      *)
(* armed.  The lighthouse at the other end may answer, fail, or do nothing *)
(* in every phase of a connection.  The store is the two calls the round   *)
(* makes, each returning nil or an error.                                  *)
(***************************************************************************)
EXTENDS Integers, Sequences, FiniteSets

CONSTANTS
    Lighthouses,    \* the configured lighthouses
    NCommands,      \* commands of one poll
    RefreshViews,   \* --refresh-views
    Jitter,         \* --poll-jitter is positive
    NoView,         \* what errors of RefreshGrafanaViews are filed under
    MaxRounds       \* bound: rounds begun

ASSUME RoundAssumption ==
    /\ IsFiniteSet(Lighthouses)
    /\ NCommands \in Nat \ {0}
    /\ {RefreshViews, Jitter} \subseteq BOOLEAN
    /\ NoView \notin Lighthouses
    /\ MaxRounds \in Nat \ {0}

VARIABLES
    once,           \* --once, which never changes
    main,           \* where Run and runRound are
    round,          \* rounds begun
    poll,           \* the goroutine of each lighthouse
    orphans,        \* session.Run goroutines whose command was given up, and on
                    \* what client
    results,        \* the results channel
    closed,         \* close(results) was called
    errs,           \* errors joined by runRound, with what they are about
    stored,         \* results in the database, with their round
    refreshed,      \* rounds whose refresh returned nil
    ticker,         \* a tick waits in ticker.C
    cancelled,      \* SIGINT or SIGTERM has cancelled the root context
    exit            \* what run in main.go returned

vars == <<once, main, round, poll, orphans, results, closed, errs, stored,
          refreshed, ticker, cancelled, exit>>

roundVars == <<once, main, round, closed, errs, stored, refreshed, ticker, cancelled, exit>>

-----------------------------------------------------------------------------
PollSteps == {"none", "jitter", "dial", "handshake", "session", "exec", "send"}

\* expired and late: the deadline of --poll-timeout, of --ssh-timeout has
\* passed.  failed: errs is not empty.  cut: a command failed after the root
\* context was cancelled.  run: the session.Run goroutine of this command.
Poll == [pc : PollSteps, command : 0..NCommands, expired : BOOLEAN,
         late : BOOLEAN, failed : BOOLEAN, cut : BOOLEAN,
         run : {"none", "running", "ok", "error"}]

\* A goroutine to which nothing has happened yet.
PollAt(pc, command) ==
    [pc |-> pc, command |-> command, expired |-> FALSE, late |-> FALSE,
     failed |-> FALSE, cut |-> FALSE, run |-> "none"]

NoPoll == PollAt("none", 0)

Clients == {"open", "closed"}

OrphanCounts == [Lighthouses -> [Clients -> Nat]]

PollResult == [lighthouse : Lighthouses, success : BOOLEAN, cut : BOOLEAN]

StoredPoll == [round : 1..MaxRounds, result : PollResult]

Errors == (Lighthouses \cup {NoView}) \X {"canceled", "failed"}

\* make(chan model.PollResult, len(c.cfg.LighthouseTargets))
Capacity == Cardinality(Lighthouses)

\* pollLighthouse is called: the first command dials.
FirstCommand == PollAt("dial", 1)

\* A goroutine of runRound as the loop starts it.
Goroutine == IF Jitter THEN PollAt("jitter", 0) ELSE FirstCommand

Init ==
    /\ once \in BOOLEAN
    /\ main = "wait"
    /\ round = 1
    /\ poll = [l \in Lighthouses |-> Goroutine]
    /\ orphans = [l \in Lighthouses |-> [client \in Clients |-> 0]]
    /\ results = <<>>
    /\ closed = FALSE
    /\ errs = {}
    /\ stored = {}
    /\ refreshed = {}
    /\ ticker = FALSE
    /\ cancelled = FALSE
    /\ exit = "running"

-----------------------------------------------------------------------------
(***************************************************************************)
(* One goroutine: the jitter, then pollLighthouse                          *)
(***************************************************************************)
\* The context of the current command is done.
Done(l) == poll[l].late \/ poll[l].expired \/ cancelled

\* timer.C is ready.
JitterEnds(l) ==
    /\ poll[l].pc = "jitter"
    /\ poll' = [poll EXCEPT ![l] = FirstCommand]
    /\ UNCHANGED <<roundVars, orphans, results>>

\* ctx.Done is ready: the goroutine returns without a result.
JitterCancelled(l) ==
    /\ poll[l].pc = "jitter"
    /\ cancelled
    /\ poll' = [poll EXCEPT ![l] = NoPoll]
    /\ UNCHANGED <<roundVars, orphans, results>>

\* p has done with a command and goes on at pc with another one.  A new command
\* has a new deadline.
GoesOn(p, ok, pc, command) ==
    [pc |-> pc, command |-> command, expired |-> p.expired, late |-> FALSE,
     failed |-> p.failed \/ ~ok, cut |-> p.cut \/ (~ok /\ cancelled), run |-> "none"]

\* Mutant: one command too many.
AfterOneMore(p, ok) ==
    IF p.command <= NCommands THEN GoesOn(p, ok, "dial", p.command + 1)
                              ELSE GoesOn(p, ok, "send", p.command)

\* Run returns to pollLighthouse, which tries every command whatever became
\* of the earlier ones.
After(p, ok) ==
    IF p.command < NCommands THEN GoesOn(p, ok, "dial", p.command + 1)
                             ELSE GoesOn(p, ok, "send", p.command)

Return(l, ok) ==
    /\ poll' = [poll EXCEPT ![l] = After(@, ok)]
    /\ UNCHANGED <<roundVars, results>>

Proceed(l, pc) ==
    /\ poll' = [poll EXCEPT ![l].pc = pc]
    /\ UNCHANGED <<roundVars, orphans, results>>

\* DialContext does not connect once its context is done.
Connect(l) ==
    /\ poll[l].pc = "dial"
    /\ \/ ~Done(l) /\ Proceed(l, "handshake")
       \/ Return(l, FALSE) /\ UNCHANGED orphans

\* ssh.NewClientConn takes neither a context nor, when it is given a
\* connection, a timeout: it lasts until the peer answers or hangs up.
Handshake(l) ==
    /\ poll[l].pc = "handshake"
    /\ \/ Proceed(l, "session")
       \/ Return(l, FALSE) /\ UNCHANGED orphans

\* So does NewSession.  The session is run in a goroutine of its own.
OpenSession(l) ==
    /\ poll[l].pc = "session"
    /\ \/ /\ poll' = [poll EXCEPT ![l].pc = "exec", ![l].run = "running"]
          /\ UNCHANGED <<roundVars, orphans, results>>
       \/ Return(l, FALSE) /\ UNCHANGED orphans

\* session.Run returns and its outcome goes to done, while the select waits.
SessionRunEnds(l) ==
    /\ poll[l].run = "running"
    /\ \E outcome \in {"ok", "error"} : poll' = [poll EXCEPT ![l].run = outcome]
    /\ UNCHANGED <<roundVars, orphans, results>>

\* The select takes done.  An output that does not parse is an error too.
ReceiveDone(l) ==
    /\ poll[l].pc = "exec"
    /\ \/ poll[l].run = "ok" /\ Return(l, TRUE)
       \/ poll[l].run \in {"ok", "error"} /\ Return(l, FALSE)
    /\ UNCHANGED orphans

\* Mutant: the result of session.Run is awaited without a select.
NeverGiveUp(l) == FALSE /\ UNCHANGED vars

\* The select takes ctx.Done, closes the client and returns.  A session.Run that
\* has not returned is left behind.
GiveUp(l) ==
    /\ poll[l].pc = "exec"
    /\ Done(l)
    /\ orphans' = [orphans EXCEPT ![l]["closed"] =
                      @ + (IF poll[l].run = "running" THEN 1 ELSE 0)]
    /\ Return(l, FALSE)

\* Mutant: make(chan error).
Unbuffered == 0

\* make(chan error, 1)
DoneCapacity == 1

\* done <- session.Run(command): the call returns when the peer answers or the
\* client is closed, and its outcome, the first that is sent to this channel,
\* needs room there, because nobody receives any more.
OrphanEnds(l, client) ==
    /\ orphans[l][client] > 0
    /\ DoneCapacity > 0
    /\ orphans' = [orphans EXCEPT ![l][client] = @ - 1]
    /\ UNCHANGED <<roundVars, poll, results>>

\* The deadline of the poll, or of the command that is being run, passes.
PollExpires(l) ==
    /\ poll[l].pc \notin {"none", "jitter", "send"}
    /\ ~poll[l].expired
    /\ poll' = [poll EXCEPT ![l].expired = TRUE]
    /\ UNCHANGED <<roundVars, orphans, results>>

CommandExpires(l) ==
    /\ poll[l].pc \notin {"none", "jitter", "send"}
    /\ ~poll[l].late
    /\ poll' = [poll EXCEPT ![l].late = TRUE]
    /\ UNCHANGED <<roundVars, orphans, results>>

\* results <- ..., then wg.Done.
SendResult(l) ==
    /\ poll[l].pc = "send"
    /\ Len(results) < Capacity
    /\ results' = Append(results, [lighthouse |-> l, success |-> ~poll[l].failed,
                                   cut |-> poll[l].cut])
    /\ poll' = [poll EXCEPT ![l] = NoPoll]
    /\ UNCHANGED <<roundVars, orphans>>

PollLighthouse(l) ==
    \/ JitterEnds(l) \/ JitterCancelled(l)
    \/ Connect(l) \/ Handshake(l) \/ OpenSession(l)
    \/ SessionRunEnds(l) \/ ReceiveDone(l) \/ GiveUp(l)
    \/ \E client \in Clients : OrphanEnds(l, client)
    \/ PollExpires(l) \/ CommandExpires(l)
    \/ SendResult(l)

-----------------------------------------------------------------------------
(***************************************************************************)
(* runRound after the goroutines, and Run                                  *)
(***************************************************************************)
\* Mutant: wg.Done comes before the send.
AllPolled == \A l \in Lighthouses : poll[l].pc \in {"none", "send"}

\* wg.Wait returns: every goroutine has.
AllReturned == \A l \in Lighthouses : poll[l].pc = "none"

WaitEnds ==
    /\ main = "wait"
    /\ AllReturned
    /\ main' = "drain"
    /\ closed' = TRUE
    /\ UNCHANGED <<once, round, poll, orphans, results, errs, stored, refreshed,
                   ticker, cancelled, exit>>

\* A call of the store fails with ctx.Err once the context is cancelled.
Cause == IF cancelled THEN {"canceled", "failed"} ELSE {"failed"}

\* Mutant: the result is saved under a context of its own.
SaveDetached ==
    /\ main = "drain" /\ results # <<>>
    /\ stored' = stored \cup {[round |-> round, result |-> Head(results)]}
    /\ results' = Tail(results)
    /\ UNCHANGED <<once, main, round, poll, orphans, closed, errs, refreshed, ticker,
                   cancelled, exit>>

\* SavePollResult returns nil; it cannot begin under a cancelled context.
SaveOk ==
    /\ main = "drain" /\ results # <<>>
    /\ ~cancelled
    /\ stored' = stored \cup {[round |-> round, result |-> Head(results)]}
    /\ results' = Tail(results)
    /\ UNCHANGED <<once, main, round, poll, orphans, closed, errs, refreshed, ticker,
                   cancelled, exit>>

\* Mutant: the error is logged but not joined.
SaveErrorDropped ==
    /\ main = "drain" /\ results # <<>>
    /\ results' = Tail(results)
    /\ UNCHANGED <<once, main, round, poll, orphans, closed, errs, stored, refreshed,
                   ticker, cancelled, exit>>

\* SavePollResult returns an error; the result may be in the database all the
\* same when only the answer to the commit was lost.
SaveFails ==
    /\ main = "drain" /\ results # <<>>
    /\ \E cause \in Cause : errs' = errs \cup {<<Head(results).lighthouse, cause>>}
    /\ \/ UNCHANGED stored
       \/ /\ ~cancelled
          /\ stored' = stored \cup {[round |-> round, result |-> Head(results)]}
    /\ results' = Tail(results)
    /\ UNCHANGED <<once, main, round, poll, orphans, closed, refreshed, ticker,
                   cancelled, exit>>

\* A signal arrives during SavePollResult, which returns the cancellation
\* whether or not the server has already committed.
SaveInterrupted ==
    /\ main = "drain" /\ results # <<>>
    /\ ~cancelled
    /\ cancelled' = TRUE
    /\ errs' = errs \cup {<<Head(results).lighthouse, "canceled">>}
    /\ \/ UNCHANGED stored
       \/ stored' = stored \cup {[round |-> round, result |-> Head(results)]}
    /\ results' = Tail(results)
    /\ UNCHANGED <<once, main, round, poll, orphans, closed, refreshed, ticker, exit>>

\* saved: the results of this round whose save returned nil.
Saved ==
    {s \in stored : s.round = round /\ \A e \in errs : e[1] # s.result.lighthouse}

\* Mutant: any error of a round is only logged.
ExitZero(es) == "0"

\* What run in main.go makes of an error of Run: errors.Is finds a
\* cancellation anywhere among the joined errors.
ExitOf(es) ==
    IF es = {} \/ \E e \in es : e[2] = "canceled" THEN "0" ELSE "1"

\* runRound returns es: Run returns it with --once, or logs it and goes on.
RoundReturns(es) ==
    /\ errs' = es
    /\ main' = IF once THEN "returned" ELSE "select"
    /\ exit' = IF once THEN ExitOf(es) ELSE exit
    /\ UNCHANGED <<once, round, poll, orphans, results, closed, stored, ticker, cancelled>>

NothingToRefresh ==
    /\ main = "drain" /\ results = <<>>
    /\ Saved = {} \/ ~RefreshViews
    /\ RoundReturns(errs)
    /\ UNCHANGED refreshed

RefreshOk ==
    /\ main = "drain" /\ results = <<>>
    /\ Saved # {} /\ RefreshViews /\ ~cancelled
    /\ RoundReturns(errs)
    /\ refreshed' = refreshed \cup {round}

RefreshFails ==
    /\ main = "drain" /\ results = <<>>
    /\ Saved # {} /\ RefreshViews
    /\ \E cause \in Cause : RoundReturns(errs \cup {<<NoView, cause>>})
    /\ UNCHANGED refreshed

\* The ticker runs from the end of the first round and keeps one tick.
TickerFires ==
    /\ ~once /\ main # "returned"
    /\ round > 1 \/ main = "select"
    /\ ~ticker
    /\ ticker' = TRUE
    /\ UNCHANGED <<once, main, round, poll, orphans, results, closed, errs, stored,
                   refreshed, cancelled, exit>>

\* The select of Run takes the tick: a new round.
SelectTick ==
    /\ main = "select"
    /\ ticker
    /\ round < MaxRounds
    /\ ticker' = FALSE
    /\ main' = "wait"
    /\ round' = round + 1
    /\ poll' = [l \in Lighthouses |-> Goroutine]
    /\ closed' = FALSE
    /\ errs' = {}
    /\ UNCHANGED <<once, orphans, results, stored, refreshed, cancelled, exit>>

\* Mutant: the case of ctx.Done breaks out of the select, not of the loop.
SelectBreak == main = "select" /\ cancelled /\ UNCHANGED vars

\* The select of Run takes ctx.Done: Run returns context.Canceled.
SelectDone ==
    /\ main = "select"
    /\ cancelled
    /\ main' = "returned"
    /\ exit' = ExitOf({<<NoView, "canceled">>})
    /\ UNCHANGED <<once, round, poll, orphans, results, closed, errs, stored,
                   refreshed, ticker, cancelled>>

\* A signal arrives.
Cancel ==
    /\ ~cancelled /\ main # "returned"
    /\ cancelled' = TRUE
    /\ UNCHANGED <<once, main, round, poll, orphans, results, closed, errs, stored,
                   refreshed, ticker, exit>>

\* The process has ended.
Exited == main = "returned" /\ UNCHANGED vars

Collector ==
    \/ WaitEnds \/ SaveOk \/ SaveFails
    \/ NothingToRefresh \/ RefreshOk \/ RefreshFails

Next ==
    \/ \E l \in Lighthouses : main # "returned" /\ PollLighthouse(l)
    \/ Collector \/ SaveInterrupted \/ TickerFires \/ SelectTick \/ SelectDone
    \/ Cancel \/ Exited

Spec == Init /\ [][Next]_vars

(***************************************************************************)
(* Goroutines that can run do, timers fire, DialContext and the database   *)
(* answer or fail, and a select does not ignore a ready branch for ever    *)
(* (it chooses at random).  session.Run returns when its client is closed. *)
(* Nothing is assumed of the peer.                                         *)
(***************************************************************************)
LocalFairness ==
    /\ \A l \in Lighthouses :
          /\ WF_vars(main # "returned" /\ (JitterEnds(l) \/ JitterCancelled(l)))
          /\ WF_vars(main # "returned" /\ Connect(l))
          /\ WF_vars(main # "returned" /\ CommandExpires(l))
          /\ WF_vars(main # "returned" /\ PollExpires(l))
          /\ WF_vars(main # "returned" /\ (ReceiveDone(l) \/ GiveUp(l)))
          /\ WF_vars(main # "returned" /\ OrphanEnds(l, "closed"))
          /\ WF_vars(main # "returned" /\ SendResult(l))
    /\ WF_vars(Collector)
    /\ WF_vars(SelectTick)
    /\ SF_vars(SelectDone)

\* The peers answer the handshake and the request for a session, or hang up.
PeerFairness ==
    \A l \in Lighthouses :
       /\ WF_vars(main # "returned" /\ Handshake(l))
       /\ WF_vars(main # "returned" /\ OpenSession(l))

FairSpec == Spec /\ LocalFairness

ResponsiveSpec == FairSpec /\ PeerFairness

-----------------------------------------------------------------------------
(***************************************************************************)
(* Properties                                                              *)
(***************************************************************************)
\* Every variable has its type.
TypeOK ==
    /\ main \in {"wait", "drain", "select", "returned"}
    /\ round \in 1..MaxRounds
    /\ poll \in [Lighthouses -> Poll]
    /\ orphans \in OrphanCounts
    /\ results \in Seq(PollResult)
    /\ closed \in BOOLEAN
    /\ errs \subseteq Errors
    /\ stored \subseteq StoredPoll
    /\ refreshed \subseteq 1..MaxRounds
    /\ {once, ticker, cancelled} \subseteq BOOLEAN
    /\ exit \in {"running", "0", "1"}

\* Nobody sends on the closed channel, which would panic, and nobody who wants
\* to send finds the channel full, on which wg.Wait would wait for ever: the
\* goroutines of a round are gone before its results are closed, and there is
\* room for the result of each.
ChannelSafe ==
    /\ closed => AllReturned
    /\ \A l \in Lighthouses : poll[l].pc = "send" => Len(results) < Capacity

\* A poll that the shutdown of the collector cut short is never stored: it
\* would show a healthy lighthouse as failing.
ShutdownIsNoOutage == \A s \in stored : ~s.result.cut

RoundEnds == main = "drain" /\ main' # "drain"

ErrorAbout(x, es) == \E e \in es : e[1] = x

\* Lighthouses whose result of this round is in the database or among its errors.
Accounted ==
    {l \in Lighthouses :
        \/ \E s \in stored : s.round = round /\ s.result.lighthouse = l
        \/ ErrorAbout(l, errs)}

Loop == INSTANCE CollectorLoop WITH
    phase <- CASE main = "wait" -> "polling"
               [] main = "drain" -> "saving"
               [] main = "select" -> "idle"
               [] OTHER -> "returned",
    accounted <- Accounted,
    failed <- errs # {},
    status <- exit

\* The collector with its goroutines, channel, deadlines and saves is the loop
\* that the rest of the process relies on: no lighthouse is reported twice in a
\* round or left out of it, and the exit status hides no error unless a signal
\* came in.
ImplementsLoop == Loop!LoopSpec

\* A round accounts for every lighthouse: unless a signal came in, its result
\* is in the database or the error of the round names it, however the polls
\* of the others went; and views over new results are refreshed or the error
\* says that they are not.
RoundAccounts ==
    /\ \A l \in Lighthouses :
          \/ \E s \in stored : s.round = round /\ s.result.lighthouse = l
          \/ ErrorAbout(l, errs')
          \/ cancelled
    /\ RefreshViews /\ Saved # {} => round \in refreshed' \/ ErrorAbout(NoView, errs')

NoPollLost == [][RoundEnds => RoundAccounts]_vars

\* A round that is under way comes to its end.
RoundsEnd == main \in {"wait", "drain"} ~> main \in {"select", "returned"}

\* --poll-timeout, "Timeout for one lighthouse polling run": a poll past its
\* deadline ends without further events.
PollTimeoutHolds ==
    \A l \in Lighthouses :
        poll[l].expired ~> (~poll[l].expired \/ poll[l].pc = "send")

\* After a signal the collector returns and the process can exit.
CancelEndsRun == cancelled ~> main = "returned"

\* No session.Run goroutine outlives the command that gave up on it for ever,
\* although the peer may never answer and nobody receives its outcome.
OrphansEnd ==
    \A l \in Lighthouses :
        (\E client \in Clients : orphans[l][client] > 0)
        ~> ((\A client \in Clients : orphans[l][client] = 0) \/ main = "returned")

=============================================================================
