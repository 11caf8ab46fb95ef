---------------------------- MODULE MigrationsProofs ----------------------------
(***************************************************************************)
(* Theorems about Migrations for any processes, flags and sizes of the     *)
(* migration sets.                                                         *)
(***************************************************************************)
EXTENDS Migrations, TLAPS

USE MigrationsAssumption

\* What may be left of SetsOf(p) while migrate.Run is under way.
Rests(p) ==
    IF EnableTimescale[p]
    THEN {<<"core", "timescale", "views">>, <<"timescale", "views">>, <<"views">>}
    ELSE {<<"core", "views">>, <<"views">>}

UnderWay == {"lock", "migrate"}

\* The sets that migrate.Run has left behind are there, down to the last migration
\* that the binary has.
ProgressOK ==
    \A p \in Processes : pc[p] \in UnderWay =>
        /\ todo[p] \in Rests(p)
        /\ Head(todo[p]) # "core" => version["core"] >= Embedded[p]["core"]
        /\ Head(todo[p]) = "views" /\ EnableTimescale[p]
           => version["timescale"] >= Embedded[p]["timescale"]

IInv == TypeOK /\ ProgressOK /\ ReadyMeansMigrated

\* The versions stay, or p takes the next one of its set.
Grows(p) ==
    \/ UNCHANGED version
    \/ /\ pc[p] = "migrate" /\ Behind(p)
       /\ version' = [version EXCEPT ![Head(todo[p])] = @ + 1]

-----------------------------------------------------------------------------
(***************************************************************************)
(* Lemmas about the operators                                              *)
(***************************************************************************)
\* Run begins with the core set, and with all of them left.
LEMMA SetsOfRests ==
    ASSUME NEW p \in Processes
    PROVE  SetsOf(p) \in Rests(p) /\ SetsOf(p) \in Seq(Sets) /\ Head(SetsOf(p)) = "core"
<1>1. CASE EnableTimescale[p]
  BY <1>1 DEF SetsOf, Rests, Sets
<1>2. CASE ~EnableTimescale[p]
  BY <1>2 DEF SetsOf, Rests, Sets
<1> QED
  BY <1>1, <1>2

\* One set is taken off what is left.
LEMMA RestsShrink ==
    ASSUME NEW p \in Processes, NEW rest \in Rests(p)
    PROVE  /\ rest \in Seq(Sets) /\ Head(rest) \in Sets /\ Tail(rest) \in Seq(Sets)
           /\ Len(rest) = 1 <=> rest = <<"views">>
           /\ Len(rest) # 1 => Tail(rest) \in Rests(p) /\ Head(Tail(rest)) # "core"
           /\ Head(rest) = "core" /\ EnableTimescale[p] => Head(Tail(rest)) # "views"
           /\ Head(rest) = "views" <=> rest = <<"views">>
<1>1. CASE rest = <<"core", "timescale", "views">> /\ EnableTimescale[p]
  BY <1>1 DEF Rests, Sets
<1>2. CASE rest = <<"timescale", "views">> /\ EnableTimescale[p]
  BY <1>2 DEF Rests, Sets
<1>3. CASE rest = <<"views">>
  BY <1>3 DEF Rests, Sets
<1>4. CASE rest = <<"core", "views">> /\ ~EnableTimescale[p]
  BY <1>4 DEF Rests, Sets
<1> QED
  BY <1>1, <1>2, <1>3, <1>4 DEF Rests

\* Nobody takes a migration back, and only p's current set moves.
LEMMA VersionsGrow ==
    ASSUME IInv, NEW p \in Processes, Grows(p)
    PROVE  /\ version' \in [Sets -> Nat]
           /\ \A s \in Sets : version'[s] >= version[s] /\ version[s] \in Nat
           /\ \A s \in Sets : version'[s] # version[s] => pc[p] = "migrate" /\ s = Head(todo[p])
<1>1. version \in [Sets -> Nat]
  BY DEF IInv, TypeOK
<1>2. CASE UNCHANGED version
  BY <1>1, <1>2
<1>3. CASE pc[p] = "migrate" /\ version' = [version EXCEPT ![Head(todo[p])] = @ + 1]
  <2>1. Head(todo[p]) \in Sets
    BY <1>3, RestsShrink DEF IInv, ProgressOK, UnderWay
  <2> HIDE DEF Sets
  <2> QED
    BY <1>1, <1>3, <2>1
<1> QED
  BY <1>2, <1>3 DEF Grows

-----------------------------------------------------------------------------
(***************************************************************************)
(* The inductive invariant                                                 *)
(***************************************************************************)
LEMMA InitInvariant == ASSUME Init PROVE IInv
<1>1. version \in [Sets -> Nat] /\ failures \in 0..MaxFailures /\ lock = NoOne
  BY DEF Init, MigrationsAssumption
<1>2. pc \in [Processes -> {"down", "lock", "migrate", "ready"}]
      /\ \A p \in Processes : pc[p] = "down" /\ lock # p
  BY DEF Init, MigrationsAssumption
<1>3. todo \in [Processes -> Seq(Sets)]
  BY DEF Init
<1> QED
  BY <1>1, <1>2, <1>3 DEF IInv, TypeOK, ProgressOK, UnderWay, ReadyMeansMigrated

\* The place of p and what it has to do are replaced; the versions do not fall.
\* It is then enough to look at p.
LEMMA OneProcessMoves ==
    ASSUME IInv, NEW p \in Processes, Grows(p),
           NEW place \in {"down", "lock", "migrate", "ready"}, NEW rest \in Seq(Sets),
           pc' = [pc EXCEPT ![p] = place], todo' = [todo EXCEPT ![p] = rest],
           failures' \in 0..MaxFailures,
           \/ lock' = lock /\ (place = "migrate" <=> lock = p)
           \/ lock' = p /\ place = "migrate" /\ lock = NoOne
           \/ lock' \in {NoOne, Dead} /\ lock = p /\ place # "migrate",
           place \in UnderWay =>
               /\ rest \in Rests(p)
               /\ Head(rest) # "core" => version'["core"] >= Embedded[p]["core"]
               /\ Head(rest) = "views" /\ EnableTimescale[p]
                  => version'["timescale"] >= Embedded[p]["timescale"],
           place = "ready" =>
               /\ version'["core"] >= Embedded[p]["core"]
               /\ version'["views"] >= Embedded[p]["views"]
               /\ EnableTimescale[p] => version'["timescale"] >= Embedded[p]["timescale"]
    PROVE  IInv'
<1>0. /\ pc \in [Processes -> {"down", "lock", "migrate", "ready"}]
      /\ todo \in [Processes -> Seq(Sets)] /\ lock \in Processes \cup {NoOne, Dead}
      /\ \A q \in Processes : pc[q] = "migrate" <=> lock = q
  BY DEF IInv, TypeOK
<1>1. /\ version' \in [Sets -> Nat]
      /\ \A s \in {"core", "timescale", "views"} :
            /\ version'[s] >= version[s] /\ version[s] \in Nat /\ version'[s] \in Nat
            /\ \A q \in Processes : Embedded[q][s] \in Nat
  BY VersionsGrow DEF Sets, MigrationsAssumption
<1>a. ASSUME NEW q \in Processes, NEW s \in {"core", "timescale", "views"},
             version[s] >= Embedded[q][s]
      PROVE  version'[s] >= Embedded[q][s]
  <2>1. /\ version'[s] >= version[s] /\ version[s] \in Nat /\ version'[s] \in Nat
        /\ Embedded[q][s] \in Nat
    BY <1>1
  <2> QED
    BY <1>a, <2>1
<1>2. /\ pc'[p] = place /\ todo'[p] = rest
      /\ \A q \in Processes \ {p} : pc'[q] = pc[q] /\ todo'[q] = todo[q]
  BY <1>0
<1>3. TypeOK'
  <2>1. pc' \in [Processes -> {"down", "lock", "migrate", "ready"}]
        /\ todo' \in [Processes -> Seq(Sets)]
    BY <1>0
  <2>2. lock' \in Processes \cup {NoOne, Dead}
    BY <1>0
  <2>3. \A q \in Processes : pc'[q] = "migrate" <=> lock' = q
    BY <1>0, <1>2 DEF MigrationsAssumption
  <2> QED
    BY <1>1, <2>1, <2>2, <2>3 DEF TypeOK
<1>4. ProgressOK'
  <2>1. ASSUME NEW q \in Processes \ {p}, pc'[q] \in UnderWay
        PROVE  /\ todo'[q] \in Rests(q)
               /\ Head(todo'[q]) # "core" => version'["core"] >= Embedded[q]["core"]
               /\ Head(todo'[q]) = "views" /\ EnableTimescale[q]
                  => version'["timescale"] >= Embedded[q]["timescale"]
    <3>1. /\ todo[q] \in Rests(q)
          /\ Head(todo[q]) # "core" => version["core"] >= Embedded[q]["core"]
          /\ Head(todo[q]) = "views" /\ EnableTimescale[q]
             => version["timescale"] >= Embedded[q]["timescale"]
      BY <1>2, <2>1 DEF IInv, ProgressOK
    <3>2. todo'[q] = todo[q]
      BY <1>2
    <3>3. /\ version["core"] >= Embedded[q]["core"] => version'["core"] >= Embedded[q]["core"]
          /\ version["timescale"] >= Embedded[q]["timescale"]
             => version'["timescale"] >= Embedded[q]["timescale"]
      BY <1>a
    <3> QED
      BY <3>1, <3>2, <3>3
  <2> QED
    BY <1>2, <2>1 DEF ProgressOK, UnderWay, Rests
<1>5. ReadyMeansMigrated'
  <2>1. ASSUME NEW q \in Processes \ {p}, pc'[q] = "ready"
        PROVE  /\ version'["core"] >= Embedded[q]["core"]
               /\ version'["views"] >= Embedded[q]["views"]
               /\ EnableTimescale[q] => version'["timescale"] >= Embedded[q]["timescale"]
    <3>1. /\ version["core"] >= Embedded[q]["core"]
          /\ version["views"] >= Embedded[q]["views"]
          /\ EnableTimescale[q] => version["timescale"] >= Embedded[q]["timescale"]
      BY <1>2, <2>1 DEF IInv, ReadyMeansMigrated
    <3>2. \A s \in {"core", "timescale", "views"} :
            version[s] >= Embedded[q][s] => version'[s] >= Embedded[q][s]
      BY <1>a
    <3> QED
      BY <3>1, <3>2
  <2> QED
    BY <1>2, <2>1 DEF ReadyMeansMigrated
<1> QED
  BY <1>3, <1>4, <1>5 DEF IInv

\* The process leaves migrate.Run, by an error or because it dies.
LEMMA LeaveInvariant ==
    ASSUME IInv, NEW p \in Processes, Grows(p),
           pc' = [pc EXCEPT ![p] = "down"], todo' = [todo EXCEPT ![p] = <<>>],
           failures' \in 0..MaxFailures,
           (lock' = lock /\ lock # p) \/ (lock' \in {NoOne, Dead} /\ lock = p)
    PROVE  IInv'
<1>1. <<>> \in Seq(Sets)
  OBVIOUS
<1> QED
  BY <1>1, OneProcessMoves DEF UnderWay

LEMMA ProcessInvariant ==
    ASSUME IInv, NEW p \in Processes, Run(p) \/ Fails(p) \/ Crash(p) PROVE IInv'
<1>0. /\ pc \in [Processes -> {"down", "lock", "migrate", "ready"}]
      /\ todo \in [Processes -> Seq(Sets)] /\ lock \in Processes \cup {NoOne, Dead}
      /\ pc[p] = "migrate" <=> lock = p
      /\ failures \in 0..MaxFailures /\ todo[p] \in Seq(Sets)
  BY DEF IInv, TypeOK
<1>1. pc[p] \in UnderWay =>
        /\ todo[p] \in Rests(p)
        /\ Head(todo[p]) # "core" => version["core"] >= Embedded[p]["core"]
        /\ Head(todo[p]) = "views" /\ EnableTimescale[p]
           => version["timescale"] >= Embedded[p]["timescale"]
  BY DEF IInv, ProgressOK
<1>2. CASE Start(p)
  <2>1. Grows(p) /\ UNCHANGED <<lock, failures>> /\ lock # p
    BY <1>0, <1>2 DEF Start, Grows
  <2>2. pc' = [pc EXCEPT ![p] = "lock"] /\ todo' = [todo EXCEPT ![p] = SetsOf(p)]
    BY <1>2 DEF Start
  <2> QED
    BY <1>0, <2>1, <2>2, SetsOfRests, OneProcessMoves
<1>3. CASE Lock(p)
  <2>1. Grows(p) /\ UNCHANGED <<version, failures>> /\ lock = NoOne /\ lock' = p
    BY <1>3 DEF Lock, Grows
  <2>2. pc' = [pc EXCEPT ![p] = "migrate"] /\ todo' = [todo EXCEPT ![p] = todo[p]]
    BY <1>0, <1>3 DEF Lock
  <2>3. pc[p] \in UnderWay
    BY <1>3 DEF Lock, UnderWay
  <2> QED
    BY <1>0, <1>1, <2>1, <2>2, <2>3, OneProcessMoves
<1>4. CASE Commit(p)
  <2>1. Grows(p) /\ UNCHANGED <<lock, failures>> /\ pc[p] = "migrate" /\ lock = p
    BY <1>0, <1>4 DEF Commit, Grows
  <2>2. pc' = [pc EXCEPT ![p] = "migrate"] /\ todo' = [todo EXCEPT ![p] = todo[p]]
    BY <1>0, <1>4 DEF Commit
  <2>3. \A s \in {"core", "timescale"} :
          version[s] >= Embedded[p][s] => version'[s] >= Embedded[p][s]
    BY <2>1, VersionsGrow DEF Sets, MigrationsAssumption
  <2> QED
    BY <1>0, <1>1, <2>1, <2>2, <2>3, OneProcessMoves DEF UnderWay
<1>5. CASE runSet(p)
  <2> DEFINE h == Head(todo[p])
             place == IF Len(todo[p]) = 1 THEN "ready" ELSE "lock"
  <2>1. Grows(p) /\ UNCHANGED <<version, failures>> /\ lock' = NoOne /\ lock = p
    BY <1>0, <1>5 DEF runSet, GoOn, Grows
  <2>2. pc' = [pc EXCEPT ![p] = place] /\ todo' = [todo EXCEPT ![p] = Tail(todo[p])]
    BY <1>0, <1>5 DEF runSet, GoOn
  <2>3. version[h] = Embedded[p][h] /\ todo[p] \in Rests(p) /\ pc[p] \in UnderWay
    BY <1>1, <1>5 DEF runSet, UnderWay
  <2>4. Tail(todo[p]) \in Seq(Sets) /\ h \in Sets
    BY <2>3, RestsShrink
  <2>5. version[h] >= Embedded[p][h]
    BY <2>3, <2>4 DEF IInv, TypeOK
  <2>6. version["core"] >= Embedded[p]["core"]
    BY <1>1, <2>3, <2>5
  <2>7. place = "ready" =>
          /\ version["views"] >= Embedded[p]["views"]
          /\ EnableTimescale[p] => version["timescale"] >= Embedded[p]["timescale"]
    BY <1>1, <2>3, <2>5, RestsShrink
  <2>8. place # "ready" =>
          /\ Tail(todo[p]) \in Rests(p)
          /\ Head(Tail(todo[p])) = "views" /\ EnableTimescale[p]
             => version["timescale"] >= Embedded[p]["timescale"]
    <3>1. ASSUME Len(todo[p]) # 1, EnableTimescale[p], Head(Tail(todo[p])) = "views"
          PROVE  h = "timescale"
      <4>1. CASE todo[p] = <<"core", "timescale", "views">>
        BY <3>1, <4>1
      <4>2. CASE todo[p] = <<"timescale", "views">>
        BY <4>2
      <4>3. CASE todo[p] = <<"views">>
        BY <3>1, <4>3
      <4> QED
        BY <2>3, <3>1, <4>1, <4>2, <4>3 DEF Rests
    <3> QED
      BY <2>3, <2>5, <3>1, RestsShrink
  <2>9. place \in {"ready", "lock"}
    OBVIOUS
  <2> HIDE DEF place, h
  <2>10. lock' \in {NoOne, Dead} /\ lock = p /\ place # "migrate" /\ failures' \in 0..MaxFailures
    BY <1>0, <2>1, <2>9
  <2>11. place \in UnderWay =>
           /\ Tail(todo[p]) \in Rests(p)
           /\ Head(Tail(todo[p])) # "core" => version'["core"] >= Embedded[p]["core"]
           /\ Head(Tail(todo[p])) = "views" /\ EnableTimescale[p]
              => version'["timescale"] >= Embedded[p]["timescale"]
    BY <2>1, <2>6, <2>8 DEF UnderWay
  <2>12. place = "ready" =>
           /\ version'["core"] >= Embedded[p]["core"]
           /\ version'["views"] >= Embedded[p]["views"]
           /\ EnableTimescale[p] => version'["timescale"] >= Embedded[p]["timescale"]
    BY <2>1, <2>6, <2>7
  <2>13. place \in {"down", "lock", "migrate", "ready"}
    BY <2>9
  <2> QED
    BY <2>1, <2>2, <2>4, <2>10, <2>11, <2>12, <2>13, OneProcessMoves
<1>6. CASE Refused(p) \/ Fails(p)
  <2>1. /\ UNCHANGED version /\ failures' \in 0..MaxFailures
        /\ pc' = [pc EXCEPT ![p] = "down"] /\ todo' = [todo EXCEPT ![p] = <<>>]
    BY <1>0, <1>6 DEF Refused, Fails, Exit, MigrationsAssumption
  <2>2. (lock' = lock /\ lock # p) \/ (lock' \in {NoOne, Dead} /\ lock = p)
    BY <1>6 DEF Refused, Fails, Exit
  <2>3. Grows(p)
    BY <2>1 DEF Grows
  <2> QED
    BY <2>1, <2>2, <2>3, LeaveInvariant
<1>7. CASE Crash(p)
  <2>1. /\ Grows(p) /\ failures' \in 0..MaxFailures
        /\ pc' = [pc EXCEPT ![p] = "down"] /\ todo' = [todo EXCEPT ![p] = <<>>]
    BY <1>0, <1>7 DEF Crash, Grows, MigrationsAssumption
  <2>2. (lock' = lock /\ lock # p) \/ (lock' \in {NoOne, Dead} /\ lock = p)
    BY <1>7 DEF Crash
  <2> QED
    BY <2>1, <2>2, LeaveInvariant
<1> QED
  BY <1>2, <1>3, <1>4, <1>5, <1>6, <1>7 DEF Run

\* IInv holds in every reachable state.
LEMMA InductiveInvariant == Spec => []IInv
<1>1. Init => IInv
  BY InitInvariant
<1>2. IInv /\ [Next]_vars => IInv'
  <2> SUFFICES ASSUME IInv, [Next]_vars PROVE IInv'
    OBVIOUS
  <2>1. ASSUME NEW p \in Processes, Run(p) \/ Fails(p) \/ Crash(p) PROVE IInv'
    BY <2>1, ProcessInvariant
  <2>2. CASE SessionEnds
    <3>1. TypeOK'
      BY <2>2 DEF SessionEnds, IInv, TypeOK, MigrationsAssumption
    <3> QED
      BY <2>2, <3>1 DEF SessionEnds, IInv, ProgressOK, ReadyMeansMigrated
  <2>3. CASE UNCHANGED vars
    BY <2>3 DEF vars, IInv, TypeOK, ProgressOK, ReadyMeansMigrated
  <2> QED
    BY <2>1, <2>2, <2>3 DEF Next, Serving
<1> QED
  BY <1>1, <1>2, PTL DEF Spec

-----------------------------------------------------------------------------
(***************************************************************************)
(* The properties of the run                                               *)
(***************************************************************************)
\* Every variable keeps its type, and only the holder of tern's lock migrates, for
\* any number of processes.
THEOREM TypeCorrect == Spec => []TypeOK
BY InductiveInvariant, PTL DEF IInv

\* When migrate.Run has returned nil, every set that it was asked to run is there
\* as far as the binary knows it, whatever other binaries, crashes and failures
\* went on around it.
THEOREM ReadyIsMigrated == Spec => []ReadyMeansMigrated
BY InductiveInvariant, PTL DEF IInv

\* The order of the sets in Run: no migration of hypertables or views is committed
\* before what it depends on.
THEOREM DependenciesComeFirst == Spec => DependenciesFirst
<1> DEFINE Ordered(p) ==
      pc[p] = "migrate" =>
         /\ version'["timescale"] # version["timescale"]
            => version["core"] >= Embedded[p]["core"]
         /\ version'["views"] # version["views"]
            => /\ version["core"] >= Embedded[p]["core"]
               /\ EnableTimescale[p] => version["timescale"] >= Embedded[p]["timescale"]
<1>1. ASSUME IInv, Next, NEW p \in Processes PROVE Ordered(p)
  <2> SUFFICES ASSUME pc[p] = "migrate", version' # version PROVE Ordered(p)
    OBVIOUS
  <2>1. PICK q \in Processes : Grows(q) /\ pc[q] = "migrate"
    BY <1>1 DEF Next, SessionEnds, Serving, vars, Run, Start, Lock, Commit, runSet, Refused,
                Fails, Crash, Grows
  <2>2. q = p
    BY <1>1, <2>1 DEF IInv, TypeOK
  <2>3. \A s \in Sets : version'[s] # version[s] => s = Head(todo[p])
    BY <1>1, <2>1, <2>2, VersionsGrow
  <2>4. /\ Head(todo[p]) # "core" => version["core"] >= Embedded[p]["core"]
        /\ Head(todo[p]) = "views" /\ EnableTimescale[p]
           => version["timescale"] >= Embedded[p]["timescale"]
    BY <1>1 DEF IInv, ProgressOK, UnderWay
  <2> QED
    BY <2>3, <2>4 DEF Sets
<1>2. IInv /\ [Next]_vars => [\A p \in Processes : Ordered(p)]_vars
  BY <1>1
<1> QED
  BY <1>2, InductiveInvariant, PTL DEF Spec, DependenciesFirst
=============================================================================
