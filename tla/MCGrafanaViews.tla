---------------------------- MODULE MCGrafanaViews ----------------------------
(***************************************************************************)
(* Instances of GrafanaViews for TLC.  Fingerprint 21 is a peer with a     *)
(* certificate, addresses are 1 and 2, reporters 3 and 4, learned sets 7   *)
(* and 8.                                                                  *)
(***************************************************************************)
EXTENDS GrafanaViews

Peer(fingerprint, addr) == [fingerprint |-> fingerprint, name |-> 0, addr |-> addr]

Learned(reporter, learned) == [addr |-> 1, reporter |-> reporter, learned |-> learned]

\* The peer with its certificate in two tunnels; at another address, which a
\* peer without a certificate has, too, and what was learned has changed; the
\* same when a later command of the poll has failed.
SomeSightings ==
    {[success |-> TRUE, hostmap |-> <<Peer(21, 1), Peer(21, 2)>>, addrmap |-> {Learned(3, 7)}]}
    \cup [success : BOOLEAN, hostmap : {<<Peer(21, 2), Peer(0, 1)>>},
          addrmap : {{Learned(3, 8), Learned(4, 7)}}]
=============================================================================
