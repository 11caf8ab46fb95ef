------------------------------ MODULE Migrations ------------------------------
(***************************************************************************)
(* migrate.Run (internal/migrate/migrate.go) in every process that starts  *)
(* on one database: the core set, then the timescale set if it is enabled, *)
(* then the views set.  The processes of a rolling update or of a roll     *)
(* back embed different numbers of migrations.                             *)
(*                                                                         *)
(* A set is run by the tern library, which is external: it holds one       *)
(* advisory lock of the database for the time of one set, applies the      *)
(* migrations past the version table each in a transaction with the new    *)
(* version, and refuses a database that is newer than the binary.          *)
(***************************************************************************)
EXTENDS Integers, Sequences

CONSTANTS
    Processes,      \* processes with the database in their configuration
    EnableTimescale,\* --database-enable-timescale of each
    Embedded,       \* how many migrations of each set each binary has
    NoOne, Dead,    \* the lock is free; it is held by the session of a dead process
    MaxFailures     \* bound: failed calls and crashes

Sets == {"core", "timescale", "views"}

ASSUME MigrationsAssumption ==
    /\ EnableTimescale \in [Processes -> BOOLEAN]
    /\ Embedded \in [Processes -> [Sets -> Nat]]
    /\ NoOne # Dead /\ {NoOne, Dead} \cap Processes = {}
    /\ MaxFailures \in Nat

VARIABLES
    version,        \* the version tables
    lock,           \* tern's advisory lock
    pc,             \* where each process is
    todo,           \* the sets that its migrate.Run has still to run
    failures        \* failures so far

vars == <<version, lock, pc, todo, failures>>

Init ==
    /\ version = [s \in Sets |-> 0]
    /\ lock = NoOne
    /\ pc = [p \in Processes |-> "down"]
    /\ todo = [p \in Processes |-> <<>>]
    /\ failures = 0

-----------------------------------------------------------------------------
\* Mutant: the views before what they are views of.
ViewsFirst(p) ==
    IF EnableTimescale[p] THEN <<"views", "core", "timescale">> ELSE <<"views", "core">>

\* The sets in the order of Run.
SetsOf(p) ==
    IF EnableTimescale[p] THEN <<"core", "timescale", "views">> ELSE <<"core", "views">>

Start(p) ==
    /\ pc[p] = "down"
    /\ pc' = [pc EXCEPT ![p] = "lock"]
    /\ todo' = [todo EXCEPT ![p] = SetsOf(p)]
    /\ UNCHANGED <<version, lock, failures>>

\* External: tern waits for the lock.
Lock(p) ==
    /\ pc[p] = "lock"
    /\ lock = NoOne
    /\ lock' = p
    /\ pc' = [pc EXCEPT ![p] = "migrate"]
    /\ UNCHANGED <<version, todo, failures>>

Behind(p) == version[Head(todo[p])] < Embedded[p][Head(todo[p])]

\* External: one migration and its version are committed.
Commit(p) ==
    /\ pc[p] = "migrate" /\ Behind(p)
    /\ version' = [version EXCEPT ![Head(todo[p])] = @ + 1]
    /\ UNCHANGED <<lock, pc, todo, failures>>

\* The rest of migrate.Run after its first set; then ready.Store(true).
GoOn(p) ==
    /\ todo' = [todo EXCEPT ![p] = Tail(@)]
    /\ pc' = [pc EXCEPT ![p] = IF Len(todo[p]) = 1 THEN "ready" ELSE "lock"]
    /\ lock' = NoOne

\* runSet returns nil.
runSet(p) ==
    /\ pc[p] = "migrate"
    /\ version[Head(todo[p])] = Embedded[p][Head(todo[p])]
    /\ GoOn(p)
    /\ UNCHANGED <<version, failures>>

\* Mutant: the error of a set is logged.
LogError(p) == GoOn(p)

\* Mutant: the process lives on without being ready, and its pooled connection
\* keeps the lock.
LiveOn(p) ==
    /\ pc' = [pc EXCEPT ![p] = "failed"]
    /\ UNCHANGED <<lock, todo>>

\* The error is returned from run and the process exits, which ends its
\* session; it is started again.
Exit(p) ==
    /\ pc' = [pc EXCEPT ![p] = "down"]
    /\ todo' = [todo EXCEPT ![p] = <<>>]
    /\ lock' = IF lock = p THEN NoOne ELSE lock

\* External: tern refuses a version that the binary does not know.
Refused(p) ==
    /\ pc[p] = "migrate"
    /\ version[Head(todo[p])] > Embedded[p][Head(todo[p])]
    /\ Exit(p)
    /\ UNCHANGED <<version, failures>>

\* Taking the connection or the lock, or a migration, fails.
Fails(p) ==
    /\ pc[p] \in {"lock", "migrate"}
    /\ failures < MaxFailures
    /\ failures' = failures + 1
    /\ Exit(p)
    /\ UNCHANGED version

\* The process dies, or exits because its connection is gone.  A commit on its
\* way may still take effect, and the server keeps the session, and the lock,
\* until it notices.
Crash(p) ==
    /\ pc[p] # "down"
    /\ failures < MaxFailures
    /\ failures' = failures + 1
    /\ pc' = [pc EXCEPT ![p] = "down"]
    /\ todo' = [todo EXCEPT ![p] = <<>>]
    /\ lock' = IF lock = p THEN Dead ELSE lock
    /\ \/ UNCHANGED version
       \/ /\ pc[p] = "migrate" /\ Behind(p)
          /\ version' = [version EXCEPT ![Head(todo[p])] = @ + 1]

SessionEnds ==
    /\ lock = Dead
    /\ lock' = NoOne
    /\ UNCHANGED <<version, pc, todo, failures>>

Run(p) == Start(p) \/ Lock(p) \/ Commit(p) \/ runSet(p) \/ Refused(p)

\* Every process serves.
Serving == (\A p \in Processes : pc[p] = "ready") /\ UNCHANGED vars

Next == SessionEnds \/ Serving \/ \E p \in Processes : Run(p) \/ Fails(p) \/ Crash(p)

Spec == Init /\ [][Next]_vars

(***************************************************************************)
(* A process that exits is started again; statements end; PostgreSQL       *)
(* notices a dead session and queues those who wait for an advisory lock.  *)
(***************************************************************************)
Fairness ==
    /\ WF_vars(SessionEnds)
    /\ \A p \in Processes :
          /\ WF_vars(Start(p))
          /\ WF_vars(Commit(p) \/ runSet(p) \/ Refused(p))
          /\ SF_vars(Lock(p))

FairSpec == Spec /\ Fairness

-----------------------------------------------------------------------------
(***************************************************************************)
(* Properties                                                              *)
(***************************************************************************)
\* Every variable has its type, and the lock belongs to the one who migrates.
TypeOK ==
    /\ version \in [Sets -> Nat]
    /\ lock \in Processes \cup {NoOne, Dead}
    /\ pc \in [Processes -> {"down", "lock", "migrate", "ready"}]
    /\ todo \in [Processes -> Seq(Sets)]
    /\ failures \in 0..MaxFailures
    /\ \A p \in Processes : pc[p] = "migrate" <=> lock = p

\* README, "/readyz returns 503 until migrations finish": whatever other
\* binaries did to the database, before, meanwhile or since, a ready process has
\* every migration it was built with.
ReadyMeansMigrated ==
    \A p \in Processes : pc[p] = "ready" =>
        /\ version["core"] >= Embedded[p]["core"]
        /\ version["views"] >= Embedded[p]["views"]
        /\ EnableTimescale[p] => version["timescale"] >= Embedded[p]["timescale"]

\* Hypertables and views are only made by a process that has made, or found,
\* the tables its binary was written for, hypertables before the views.
DependenciesFirst ==
    [][\A p \in Processes : pc[p] = "migrate" =>
         /\ version'["timescale"] # version["timescale"]
            => version["core"] >= Embedded[p]["core"]
         /\ version'["views"] # version["views"]
            => /\ version["core"] >= Embedded[p]["core"]
               /\ EnableTimescale[p] => version["timescale"] >= Embedded[p]["timescale"]]_vars

\* The processes with the newest binary.
Newest == {p \in Processes : \A q \in Processes, s \in Sets : Embedded[q][s] <= Embedded[p][s]}

\* However they wait for each other, fail halfway or die with the lock, the
\* processes of the newest binary become ready for good.
NewestReady == \A p \in Newest : <>[](pc[p] = "ready")

=============================================================================
