------------------------------ MODULE KnownHosts ------------------------------
(***************************************************************************)
(* Host keys in the mode accept-new (internal/sshclient/client.go): the    *)
(* callback that acceptNewHostKeyCallback returns is called during the     *)
(* handshake of every connection, by the goroutines of all lighthouses.    *)
(* Under a mutex it accepts a key that it knows, refuses another key for a *)
(* host that it knows, and learns the key of a new host: it appends a line *)
(* to the known_hosts file and loads the file again.                       *)
(*                                                                         *)
(* The file outlives the process.  Its steps may fail, and the process may *)
(* die between any two of them.                                            *)
(***************************************************************************)
EXTENDS Naturals

CONSTANTS
    Lighthouses,    \* one goroutine each
    Hosts,          \* addresses of lighthouses
    HostOf,         \* two lighthouses may share an address
    Keys,           \* host keys; a host may present any, its key may change
    Nobody,         \* the mutex is free
    Failures,       \* what may go wrong
    MaxFailures     \* bound: failures of each kind

Kinds == {"open", "write", "reload", "crash"}

ASSUME KnownHostsAssumption ==
    /\ HostOf \in [Lighthouses -> Hosts]
    /\ Nobody \notin Lighthouses
    /\ Failures \subseteq Kinds
    /\ MaxFailures \in Nat

VARIABLES
    file,           \* the lines of the file that are complete
    tail,           \* how the file ends
    current,        \* the lines the process has in memory
    mu,             \* who holds the mutex
    call,           \* the call of each goroutine
    accepted,       \* lines for which the callback has ever returned nil
    running,        \* the process is up
    failures        \* how often each kind of failure has happened

vars == <<file, tail, current, mu, call, accepted, running, failures>>

Line == Hosts \X Keys

\* line is what the host presented, reloaded what knownhosts.New returned.
Call == [pc : {"idle", "append", "reload", "assign"}, line : SUBSET Line,
         reloaded : SUBSET Line]

NoCall == [pc |-> "idle", line |-> {}, reloaded |-> {}]

\* A file that was never written, and a process that has loaded it.
Init ==
    /\ file = {}
    /\ tail = "newline"
    /\ current = {}
    /\ mu = Nobody
    /\ call = [l \in Lighthouses |-> NoCall]
    /\ accepted = {}
    /\ running = TRUE
    /\ failures = [kind \in Kinds |-> 0]

Fails(kind) ==
    /\ kind \in Failures
    /\ failures[kind] < MaxFailures
    /\ failures' = [failures EXCEPT ![kind] = @ + 1]

\* The callback returns and its deferred Unlock runs.
Unlock(l) ==
    /\ mu' = Nobody
    /\ call' = [call EXCEPT ![l] = NoCall]

-----------------------------------------------------------------------------
\* The keys that the process knows for a host: keyErr.Want.
Want(host) == {k \in Keys : <<host, k>> \in current}

\* Mutant: no mutex.
CheckUnlocked(l) ==
    /\ running /\ call[l].pc = "idle"
    /\ \E key \in Keys :
          \/ /\ key \in Want(HostOf[l])
             /\ accepted' = accepted \cup {<<HostOf[l], key>>}
             /\ UNCHANGED <<mu, call>>
          \/ /\ Want(HostOf[l]) = {}
             /\ call' = [call EXCEPT ![l].pc = "append",
                                     ![l].line = {<<HostOf[l], key>>}]
             /\ UNCHANGED <<mu, accepted>>
    /\ UNCHANGED <<file, tail, current, running, failures>>

\* A host presents a key.  A known key is accepted, another key of a known
\* host is refused, and a key of an unknown host is to be learned.
Check(l) ==
    /\ running /\ call[l].pc = "idle"
    /\ mu = Nobody
    /\ \E key \in Keys :
          \/ /\ key \in Want(HostOf[l])
             /\ accepted' = accepted \cup {<<HostOf[l], key>>}
             /\ UNCHANGED <<mu, call>>
          \/ /\ key \notin Want(HostOf[l])
             /\ Want(HostOf[l]) # {}
             /\ UNCHANGED <<mu, call, accepted>>
          \/ /\ Want(HostOf[l]) = {}
             /\ mu' = l
             /\ call' = [call EXCEPT ![l].pc = "append",
                                     ![l].line = {<<HostOf[l], key>>}]
             /\ UNCHANGED accepted
    /\ UNCHANGED <<file, tail, current, running, failures>>

\* The file after s has been written to its end.  A line without a newline
\* and what is appended to it become one line that does not parse.
Written(lines, end) ==
    IF tail = "newline" THEN file' = file \cup lines /\ tail' = end
                        ELSE tail' = "garbled" /\ UNCHANGED file

\* Mutant: the key is accepted although appendKnownHost failed.
AppendIgnored(l) ==
    /\ call[l].pc = "append"
    /\ \/ /\ Written(call[l].line, "newline")
          /\ UNCHANGED failures
       \/ Fails("open") /\ UNCHANGED <<file, tail>>
    /\ call' = [call EXCEPT ![l].pc = "assign", ![l].reloaded = current \cup call[l].line]
    /\ UNCHANGED <<mu, current, accepted, running>>

\* appendKnownHost.  A write that fails has written nothing, a part of the
\* line, or everything but the newline.
AppendLine(l) ==
    /\ call[l].pc = "append"
    /\ \/ /\ Written(call[l].line, "newline")
          /\ call' = [call EXCEPT ![l].pc = "reload"]
          /\ UNCHANGED <<mu, failures>>
       \/ Fails("open") /\ Unlock(l) /\ UNCHANGED <<file, tail>>
       \/ /\ Fails("write") /\ Unlock(l)
          /\ \/ UNCHANGED <<file, tail>>
             \/ Written({}, "garbled")
             \/ Written(call[l].line, "open")
    /\ UNCHANGED <<current, accepted, running>>

\* knownhosts.New: one line that does not parse fails the whole file.
Reload(l) ==
    /\ call[l].pc = "reload"
    /\ \/ /\ tail # "garbled"
          /\ call' = [call EXCEPT ![l].pc = "assign", ![l].reloaded = file]
          /\ UNCHANGED <<mu, failures>>
       \/ tail = "garbled" /\ Unlock(l) /\ UNCHANGED failures
       \/ Fails("reload") /\ Unlock(l)
    /\ UNCHANGED <<file, tail, current, accepted, running>>

\* Mutant: := instead of = shadows current and err, whose old value is returned.
AssignShadowed(l) ==
    /\ call[l].pc = "assign"
    /\ Unlock(l)
    /\ UNCHANGED <<file, tail, current, accepted, running, failures>>

\* current = reloaded, and the key is accepted.
Assign(l) ==
    /\ call[l].pc = "assign"
    /\ current' = call[l].reloaded
    /\ accepted' = accepted \cup call[l].line
    /\ Unlock(l)
    /\ UNCHANGED <<file, tail, running, failures>>

\* The process dies.
Crash ==
    /\ running
    /\ Fails("crash")
    /\ running' = FALSE
    /\ current' = {}
    /\ mu' = Nobody
    /\ call' = [l \in Lighthouses |-> NoCall]
    /\ UNCHANGED <<file, tail, accepted>>

\* A new process loads the file, or exits because it does not parse.
Start ==
    /\ ~running
    /\ \/ tail # "garbled" /\ running' = TRUE /\ current' = file
       \/ tail = "garbled" /\ UNCHANGED <<running, current>>
    /\ UNCHANGED <<file, tail, mu, call, accepted, failures>>

HostKeyCallback(l) == Check(l) \/ AppendLine(l) \/ Reload(l) \/ Assign(l)

Next == Crash \/ Start \/ \E l \in Lighthouses : HostKeyCallback(l)

Spec == Init /\ [][Next]_vars

(***************************************************************************)
(* A lighthouse is polled again and again, and a dead process restarted.   *)
(***************************************************************************)
FairSpec ==
    /\ Spec
    /\ WF_vars(Start)
    /\ \A l \in Lighthouses : WF_vars(HostKeyCallback(l))

-----------------------------------------------------------------------------
\* Every variable has its type, and the mutex is held by the goroutine that
\* is learning, so that there is at most one.
TypeOK ==
    /\ file \subseteq Line
    /\ tail \in {"newline", "open", "garbled"}
    /\ current \subseteq Line
    /\ call \in [Lighthouses -> Call]
    /\ \A l \in Lighthouses : mu = l <=> call[l].pc # "idle"
    /\ mu \in Lighthouses \cup {Nobody}
    /\ accepted \subseteq Line
    /\ running \in BOOLEAN
    /\ failures \in [Kinds -> 0..MaxFailures]

\* README: "changed keys fail future polls".  Once a key of a host has been
\* accepted no other key of that host ever is, by any goroutine and after any
\* restart.
OneKeyPerHost ==
    \A x, y \in accepted : x[1] = y[1] => x = y

\* What the code does of that: a host keeps the first of its keys that is accepted,
\* whichever goroutines learn at the same time and however appends fail and the
\* process dies, until a load of the file fails that could have been read.
OneKeyUnlessLoadFails == failures["reload"] = 0 => OneKeyPerHost

\* README: "unknown keys are accepted and persisted".  What was accepted is in
\* the file that the next process will load, and known to the one that runs.
AcceptedIsKnown ==
    /\ tail # "garbled" => accepted \subseteq file
    /\ running => accepted \subseteq current

\* README: "unknown keys are accepted".  Once failures are over the key of
\* every host is learned.
EveryHostLearned ==
    \A l \in Lighthouses : <>(\E k \in Keys : <<HostOf[l], k>> \in accepted)

\* What the code does of that: every host is learned in the end, after appends
\* that fail, loads that fail although the file is readable, and deaths of the
\* process, unless a write has left a line that does not parse.
ReadableFileLearns == [](tail # "garbled") => EveryHostLearned

-----------------------------------------------------------------------------
(***************************************************************************)
(* The inductive invariant behind the theorems of KnownHostsProofs.        *)
(***************************************************************************)
\* Memory and accepted lines come from the file.
FromFile == current \subseteq file /\ accepted \subseteq file

\* A call that is learning learns for a host that the process does not know;
\* its line is in the file once it has been appended.
Learning ==
    \A l \in Lighthouses :
        /\ call[l].pc = "append" =>
              \E k \in Keys : /\ call[l].line = {<<HostOf[l], k>>}
                             /\ Want(HostOf[l]) = {}
        /\ call[l].pc = "reload" => tail = "garbled" \/ call[l].line \subseteq file
        /\ call[l].pc = "assign" =>
              call[l].line \subseteq file /\ call[l].reloaded = file
        /\ call[l].pc # "idle" => running

\* While the file ends in a newline and nothing is being learned, the process
\* has all of it in memory, unless a load has failed.
UpToDate ==
    /\ running /\ tail = "newline"
    /\ \A l \in Lighthouses : call[l].pc \notin {"reload", "assign"}
    => current = file

\* The file names a host once, which is what makes keys unique.
OneLinePerHost == \A x, y \in file : x[1] = y[1] => x = y

IInv == TypeOK /\ FromFile /\ AcceptedIsKnown /\ Learning

PinInv == IInv /\ (failures["reload"] = 0 => UpToDate /\ OneLinePerHost)

=============================================================================
