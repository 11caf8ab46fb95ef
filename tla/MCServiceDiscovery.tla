-------------------------- MODULE MCServiceDiscovery --------------------------
(***************************************************************************)
(* Instances of ServiceDiscovery for TLC.  Lighthouses are 1 and 2, host 1 *)
(* is the address of a peer too, fingerprints are 21 and 22.               *)
(***************************************************************************)
EXTENDS ServiceDiscovery

Hosts == <<1, 3>>

FirstOnly == <<1>>

Entry(fingerprint, name, addr) ==
    [fingerprint |-> fingerprint, name |-> name, addr |-> addr]

\* A peer that has no address, and one without a certificate at the host of a
\* configured lighthouse; a peer with a certificate, and one without; the same
\* certificate at another address, next to a peer that has taken the first one.
SomeHostmaps ==
    {<<Entry(22, Null, Null), Entry(Null, Null, 1)>>,
     <<Entry(21, 11, 2), Entry(Null, Null, 3)>>,
     <<Entry(21, 11, 4), Entry(22, 10, 2)>>}

=============================================================================
