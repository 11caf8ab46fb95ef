--------------------------- MODULE KnownHostsProofs ---------------------------
(***************************************************************************)
(* Theorems about KnownHosts for every value of its constants.             *)
(***************************************************************************)
EXTENDS KnownHosts, TLAPS

USE KnownHostsAssumption

LEMMA NoCallType == NoCall \in Call
BY DEF NoCall, Call

\* The calls of the other goroutines are idle while one is learning, and the
\* one that is learning is about to be unlocked.
LEMMA UnlockIdles ==
    ASSUME TypeOK, NEW l \in Lighthouses, call[l].pc # "idle", Unlock(l)
    PROVE  /\ call' \in [Lighthouses -> Call]
           /\ \A k \in Lighthouses : call'[k].pc = "idle"
           /\ mu' = Nobody
BY NoCallType DEF TypeOK, Unlock, NoCall

\* The initial states satisfy the invariants.
LEMMA Initially == Init => PinInv
BY NoCallType DEF Init, PinInv, IInv, TypeOK, FromFile, AcceptedIsKnown, Learning,
                  UpToDate, OneLinePerHost, NoCall, Kinds

\* One step preserves what the process knows.
LEMMA Step ==
    ASSUME IInv, [Next]_vars
    PROVE  IInv'
<1> USE DEF IInv
<1>1. ASSUME NEW l \in Lighthouses, Check(l)
      PROVE  IInv'
  <2>1. /\ UNCHANGED <<file, tail, current, running, failures>>
        /\ running
        /\ accepted \subseteq accepted'
        /\ accepted' \subseteq current
    BY <1>1 DEF Check, Want, AcceptedIsKnown
  <2>2. HostOf[l] \in Hosts
    OBVIOUS
  <2>3. CASE UNCHANGED <<mu, call>>
    BY <2>1, <2>3 DEF TypeOK, FromFile, AcceptedIsKnown, Learning, Want
  <2>4. CASE ~UNCHANGED <<mu, call>>
    <3>1. /\ mu = Nobody /\ mu' = l /\ call[l].pc = "idle"
          /\ Want(HostOf[l]) = {}
          /\ UNCHANGED accepted
      BY <1>1, <2>4 DEF Check
    <3>2. PICK key \in Keys :
             call' = [call EXCEPT ![l].pc = "append", ![l].line = {<<HostOf[l], key>>}]
      BY <1>1, <2>4 DEF Check
    <3>3. call[l] \in Call /\ {<<HostOf[l], key>>} \in SUBSET Line
      BY <2>2 DEF TypeOK, Line
    <3>4. /\ call'[l].pc = "append"
          /\ call'[l].line = {<<HostOf[l], key>>}
          /\ call' \in [Lighthouses -> Call]
          /\ \A k \in Lighthouses \ {l} : call'[k] = call[k]
      BY <3>2, <3>3 DEF TypeOK, Call
    <3>5. TypeOK'
      BY <2>1, <3>1, <3>4 DEF TypeOK
    <3>6. Learning'
      BY <2>1, <3>1, <3>4 DEF Learning, Want
    <3> QED
      BY <2>1, <3>1, <3>5, <3>6 DEF FromFile, AcceptedIsKnown
  <2> QED
    BY <2>3, <2>4
<1>2. ASSUME NEW l \in Lighthouses, AppendLine(l)
      PROVE  IInv'
  <2>1. /\ call[l].pc = "append" /\ running
        /\ UNCHANGED <<current, accepted, running>>
        /\ call[l] \in Call
        /\ call[l].line \subseteq Line
    BY <1>2 DEF AppendLine, TypeOK, Learning, Call
  <2>2. \A k \in Lighthouses \ {l} : call[k].pc = "idle"
    BY <2>1 DEF TypeOK
  <2>3. /\ file \subseteq file'
        /\ file' \subseteq Line
        /\ tail' \in {"newline", "open", "garbled"}
        /\ tail = "garbled" => tail' = "garbled"
        /\ failures' \in [Kinds -> 0..MaxFailures]
    BY <1>2, <2>1 DEF AppendLine, Written, Fails, TypeOK
  <2>4. CASE Unlock(l)
    <3>1. /\ call' \in [Lighthouses -> Call]
          /\ \A k \in Lighthouses : call'[k].pc = "idle"
          /\ mu' = Nobody
      BY <2>1, <2>4, UnlockIdles
    <3> QED
      BY <2>1, <2>3, <3>1 DEF TypeOK, FromFile, AcceptedIsKnown, Learning
  <2>5. CASE ~Unlock(l)
    <3>1. /\ Written(call[l].line, "newline")
          /\ call' = [call EXCEPT ![l].pc = "reload"]
          /\ UNCHANGED <<mu, failures>>
      BY <1>2, <2>5 DEF AppendLine
    <3>2. /\ call' \in [Lighthouses -> Call]
          /\ call'[l].pc = "reload" /\ call'[l].line = call[l].line
          /\ \A k \in Lighthouses \ {l} : call'[k] = call[k]
      BY <2>1, <3>1 DEF TypeOK, Call
    <3>3. tail' = "garbled" \/ call[l].line \subseteq file'
      BY <3>1 DEF Written
    <3>4. TypeOK'
      BY <2>1, <2>3, <3>1, <3>2 DEF TypeOK
    <3>5. Learning'
      BY <2>1, <2>2, <3>2, <3>3 DEF Learning
    <3> QED
      BY <2>1, <2>3, <3>4, <3>5 DEF FromFile, AcceptedIsKnown
  <2> QED
    BY <2>4, <2>5
<1>3. ASSUME NEW l \in Lighthouses, Reload(l)
      PROVE  IInv'
  <2>1. /\ call[l].pc = "reload" /\ running
        /\ UNCHANGED <<file, tail, current, accepted, running>>
        /\ call[l] \in Call
        /\ failures' \in [Kinds -> 0..MaxFailures]
    BY <1>3 DEF Reload, Fails, TypeOK, Learning
  <2>2. \A k \in Lighthouses \ {l} : call[k].pc = "idle"
    BY <2>1 DEF TypeOK
  <2>3. CASE Unlock(l)
    <3>1. /\ call' \in [Lighthouses -> Call]
          /\ \A k \in Lighthouses : call'[k].pc = "idle"
          /\ mu' = Nobody
      BY <2>1, <2>3, UnlockIdles
    <3> QED
      BY <2>1, <3>1 DEF TypeOK, FromFile, AcceptedIsKnown, Learning
  <2>4. CASE ~Unlock(l)
    <3>1. /\ tail # "garbled"
          /\ call' = [call EXCEPT ![l].pc = "assign", ![l].reloaded = file]
          /\ UNCHANGED <<mu, failures>>
      BY <1>3, <2>4 DEF Reload
    <3>2. /\ call' \in [Lighthouses -> Call]
          /\ call'[l].pc = "assign" /\ call'[l].line = call[l].line
          /\ call'[l].reloaded = file
          /\ \A k \in Lighthouses \ {l} : call'[k] = call[k]
      BY <2>1, <3>1 DEF TypeOK, Call
    <3>3. TypeOK'
      BY <2>1, <3>1, <3>2 DEF TypeOK
    <3>4. Learning'
      BY <2>1, <2>2, <3>1, <3>2 DEF Learning
    <3> QED
      BY <2>1, <3>3, <3>4 DEF FromFile, AcceptedIsKnown
  <2> QED
    BY <2>3, <2>4
<1>4. ASSUME NEW l \in Lighthouses, Assign(l)
      PROVE  IInv'
  <2>1. /\ call[l].pc = "assign" /\ running
        /\ UNCHANGED <<file, tail, running, failures>>
        /\ current' = file
        /\ accepted' = accepted \cup call[l].line
        /\ call[l].line \subseteq file
        /\ Unlock(l)
    BY <1>4 DEF Assign, Learning
  <2>2. /\ call' \in [Lighthouses -> Call]
        /\ \A k \in Lighthouses : call'[k].pc = "idle"
        /\ mu' = Nobody
    BY <2>1, UnlockIdles
  <2> QED
    BY <2>1, <2>2 DEF TypeOK, FromFile, AcceptedIsKnown, Learning
<1>5. CASE Crash
  <2>1. /\ UNCHANGED <<file, tail, accepted>>
        /\ current' = {} /\ mu' = Nobody /\ ~running'
        /\ running' \in BOOLEAN
    BY <1>5 DEF Crash
  <2>2. failures' \in [Kinds -> 0..MaxFailures]
    BY <1>5 DEF Crash, Fails, TypeOK
  <2>3. /\ call' \in [Lighthouses -> Call]
        /\ \A l \in Lighthouses : call'[l].pc = "idle"
    BY <1>5, NoCallType DEF Crash, NoCall
  <2>4. TypeOK'
    BY <2>1, <2>2, <2>3 DEF TypeOK
  <2>5. FromFile' /\ AcceptedIsKnown'
    BY <2>1 DEF FromFile, AcceptedIsKnown
  <2>6. Learning'
    BY <2>3 DEF Learning
  <2> QED
    BY <2>4, <2>5, <2>6
<1>6. CASE Start
  <2>1. \A l \in Lighthouses : call[l].pc = "idle"
    BY <1>6 DEF Start, Learning
  <2>2. /\ UNCHANGED <<file, tail, mu, call, accepted, failures>>
        /\ \/ running' = TRUE /\ current' = file
           \/ UNCHANGED <<running, current>>
    BY <1>6 DEF Start
  <2>3. TypeOK'
    BY <2>2 DEF TypeOK
  <2>4. FromFile' /\ AcceptedIsKnown'
    BY <2>2 DEF FromFile, AcceptedIsKnown
  <2>5. Learning'
    BY <2>1, <2>2 DEF Learning
  <2> QED
    BY <2>3, <2>4, <2>5
<1>7. CASE UNCHANGED vars
  BY <1>7 DEF vars, TypeOK, FromFile, AcceptedIsKnown, Learning, Want
<1> QED
  BY <1>1, <1>2, <1>3, <1>4, <1>5, <1>6, <1>7 DEF Next, HostKeyCallback

\* A failure never makes the number of failed loads smaller, and a failed load
\* makes it positive.
LEMMA FailuresAdd ==
    ASSUME TypeOK, NEW kind \in Kinds, Fails(kind), failures'["reload"] = 0
    PROVE  failures["reload"] = 0 /\ kind # "reload"
BY DEF TypeOK, Fails, Kinds

\* As long as no load of a readable file has failed, one step also keeps the
\* process up to date and the hosts of the file apart.
LEMMA PinStep ==
    ASSUME PinInv, [Next]_vars
    PROVE  PinInv'
<1>1. IInv /\ IInv'
  BY Step DEF PinInv
<1> SUFFICES ASSUME failures'["reload"] = 0
             PROVE  UpToDate' /\ OneLinePerHost'
  BY <1>1 DEF PinInv
<1>10. \A kind \in Kinds : Fails(kind) => failures["reload"] = 0 /\ kind # "reload"
  BY <1>1, FailuresAdd DEF IInv
<1>11. failures["reload"] = 0
  BY <1>10 DEF Next, HostKeyCallback, Check, AppendLine, Reload, Assign, Crash, Start,
               Kinds, vars
<1>2. UpToDate /\ OneLinePerHost
  BY <1>11 DEF PinInv
<1>3. ASSUME NEW l \in Lighthouses, Check(l)
      PROVE  UpToDate' /\ OneLinePerHost'
  <2>1. UNCHANGED <<file, tail, current, running>>
    BY <1>3 DEF Check
  <2>2. \A k \in Lighthouses : call'[k].pc \notin {"reload", "assign"}
                                => call[k].pc \notin {"reload", "assign"}
    BY <1>1, <1>3 DEF Check, IInv, TypeOK
  <2> QED
    BY <1>2, <2>1, <2>2 DEF UpToDate, OneLinePerHost
<1>4. ASSUME NEW l \in Lighthouses, AppendLine(l)
      PROVE  UpToDate' /\ OneLinePerHost'
  <2>1. /\ call[l].pc = "append" /\ running /\ UNCHANGED <<current, running>>
        /\ \A k \in Lighthouses \ {l} : call[k].pc = "idle"
    BY <1>1, <1>4 DEF AppendLine, IInv, TypeOK, Learning
  <2>2. tail = "newline" => current = file
    BY <1>2, <2>1 DEF UpToDate
  <2>3. PICK key \in Keys : /\ call[l].line = {<<HostOf[l], key>>}
                            /\ Want(HostOf[l]) = {}
    BY <1>1, <2>1 DEF IInv, Learning
  <2>4. tail = "newline" => \A x \in file : x[1] # HostOf[l]
    <3> SUFFICES ASSUME tail = "newline", NEW x \in file, x[1] = HostOf[l]
                 PROVE  FALSE
      OBVIOUS
    <3>1. x \in current /\ x \in Hosts \X Keys
      BY <2>2, <1>1 DEF IInv, TypeOK, Line
    <3>2. x[2] \in Keys /\ x = <<HostOf[l], x[2]>>
      BY <3>1
    <3> QED
      BY <2>3, <3>1, <3>2 DEF Want
  <2>5. file' = file \/ (tail = "newline" /\ file' = file \cup call[l].line)
    BY <1>4 DEF AppendLine, Written
  <2>6. OneLinePerHost'
    BY <1>2, <2>3, <2>4, <2>5 DEF OneLinePerHost
  <2>7. \/ call'[l].pc = "reload"
        \/ tail' # "newline"
        \/ UNCHANGED <<file, tail>>
    <3>1. call \in [Lighthouses -> Call] /\ call[l] \in Call
      BY <1>1 DEF IInv, TypeOK
    <3>2. CASE call' = [call EXCEPT ![l].pc = "reload"]
      BY <3>1, <3>2 DEF Call
    <3>3. CASE call' # [call EXCEPT ![l].pc = "reload"]
      BY <1>4, <3>3 DEF AppendLine, Written
    <3> QED
      BY <3>2, <3>3
  <2> QED
    BY <2>1, <2>2, <2>6, <2>7 DEF UpToDate
<1>5. ASSUME NEW l \in Lighthouses, Reload(l)
      PROVE  UpToDate' /\ OneLinePerHost'
  <2>1. \/ tail' = "garbled"
        \/ call'[l].pc = "assign"
    <3>1. call \in [Lighthouses -> Call] /\ call[l] \in Call
      BY <1>1 DEF IInv, TypeOK
    <3>2. \/ tail' = "garbled"
          \/ call' = [call EXCEPT ![l].pc = "assign", ![l].reloaded = file]
      BY <1>5, <1>10 DEF Reload, Kinds
    <3> QED
      BY <3>1, <3>2 DEF Call
  <2> QED
    BY <1>2, <1>5, <2>1 DEF Reload, UpToDate, OneLinePerHost
<1>6. ASSUME NEW l \in Lighthouses, Assign(l)
      PROVE  UpToDate' /\ OneLinePerHost'
  BY <1>1, <1>2, <1>6 DEF Assign, IInv, Learning, UpToDate, OneLinePerHost
<1>7. ASSUME Crash
      PROVE  UpToDate' /\ OneLinePerHost'
  BY <1>2, <1>7 DEF Crash, UpToDate, OneLinePerHost
<1>8. ASSUME Start
      PROVE  UpToDate' /\ OneLinePerHost'
  <2>1. /\ UNCHANGED <<file, tail, call>>
        /\ \/ current' = file
           \/ UNCHANGED <<running, current>>
    BY <1>8 DEF Start
  <2> QED
    BY <1>2, <2>1 DEF UpToDate, OneLinePerHost
<1>9. ASSUME UNCHANGED vars
      PROVE  UpToDate' /\ OneLinePerHost'
  BY <1>2, <1>9 DEF vars, UpToDate, OneLinePerHost
<1> QED
  BY <1>1, <1>3, <1>4, <1>5, <1>6, <1>7, <1>8, <1>9 DEF PinInv, Next, HostKeyCallback

-----------------------------------------------------------------------------
(***************************************************************************)
(* Theorems                                                                *)
(***************************************************************************)
\* The invariant of the callback holds in every reachable state.
THEOREM Invariance == Spec => []IInv
<1>1. Init => IInv
  BY Initially DEF PinInv
<1>2. IInv /\ [Next]_vars => IInv'
  BY Step
<1> QED
  BY <1>1, <1>2, PTL DEF Spec

\* Types, and mutual exclusion of the goroutines that learn a key.
THEOREM TypeCorrect == Spec => []TypeOK
<1>1. IInv => TypeOK
  BY DEF IInv
<1> QED
  BY <1>1, Invariance, PTL

\* An accepted key is never forgotten: it is in the memory of the process that
\* runs and in the file that the next one loads, whatever fails.
THEOREM AcceptedStaysKnown == Spec => []AcceptedIsKnown
<1>1. IInv => AcceptedIsKnown
  BY DEF IInv
<1> QED
  BY <1>1, Invariance, PTL

\* Until a load of a readable known_hosts file fails, a host is pinned to the
\* first of its keys that is accepted, across goroutines, failed and torn writes,
\* crashes and restarts.
THEOREM KeysPinned == Spec => []OneKeyUnlessLoadFails
<1>1. Init => PinInv
  BY Initially
<1>2. PinInv /\ [Next]_vars => PinInv'
  BY PinStep
<1>3. PinInv => OneKeyUnlessLoadFails
  BY DEF PinInv, IInv, FromFile, OneLinePerHost, OneKeyPerHost, OneKeyUnlessLoadFails
<1> QED
  BY <1>1, <1>2, <1>3, PTL DEF Spec

=============================================================================
