--------------------------- MODULE ServiceDiscovery ---------------------------
(***************************************************************************)
(* The endpoint /prometheus-sd (internal/httpserver/prometheus_sd.go) over *)
(* the history that PollHistory promises: a request reads the peers of the *)
(* newest successful poll of every lighthouse in one statement             *)
(* (ListPresentHostmapPeers) and answers with one target group per address *)
(* (prometheusTargetGroups).  Polls are recorded and forgotten between     *)
(* requests.                                                               *)
(*                                                                         *)
(* Texts (lighthouse names, certificate names, fingerprints, addresses)    *)
(* are numbers in their collation order; Null is NULL and the empty text.  *)
(* A host:port is its host, since the port is the same for all targets.    *)
(***************************************************************************)
EXTENDS PollHistory, SequencesExt

CONSTANTS
    Targets,        \* cfg.LighthouseTargets, in the order of the configuration
    HostOf,         \* the host in the address of each
    Hostmaps,       \* what list-hostmap may say
    PollIds,        \* bound: identifiers of polls
    MaxTime         \* bound: ticks of the clock

Null == 0

\* The columns of a row of hostmap_entries with source hostmap that the query
\* compares; the rows with source pending are not read.
HostmapEntry == [fingerprint : Nat, name : Nat, addr : Nat]

(***************************************************************************)
(* The history may hold lighthouses that are not configured any more.  No  *)
(* fingerprint, which is a digest, is the text of an address.              *)
(***************************************************************************)
ASSUME ServiceDiscoveryAssumption ==
    /\ Lighthouses \subseteq Nat \ {Null}
    /\ Targets \in Seq(Lighthouses)
    /\ HostOf \in [Lighthouses -> Nat \ {Null}]
    /\ PollIds \subseteq Nat /\ MaxTime \in Nat
    /\ Hostmaps \subseteq Seq(HostmapEntry)
    /\ \A seen, other \in Hostmaps : \A i \in DOMAIN seen, j \in DOMAIN other :
          seen[i].fingerprint # Null => seen[i].fingerprint # other[j].addr

VARIABLES
    hostmap,        \* what the hostmap of each poll says
    answer,         \* the target groups of an answer, until the history moves on,
                    \* each at its place among the peers and lighthouses
    shown           \* auxiliary: the newest poll of each lighthouse answered

sdVars == <<historyVars, hostmap, answer, shown>>

SDInit ==
    /\ HistoryInit
    /\ hostmap = [id \in PollIds |-> <<>>]
    /\ answer = <<>>
    /\ shown = [l \in Lighthouses |-> 0]

-----------------------------------------------------------------------------
(***************************************************************************)
(* ListPresentHostmapPeers                                                 *)
(***************************************************************************)
\* Mutant: the last poll to be inserted, not the last to be started.
LatestInserted ==
    {r \in pollRuns :
        /\ r.success
        /\ \A s \in Successes(pollRuns, r.result.lighthouse) : s.id <= r.id}

\* Mutant: no WHERE success.
LatestOfAny ==
    {r \in pollRuns :
        \A s \in pollRuns :
            s.result.lighthouse = r.result.lighthouse =>
                \/ s.result.startedAt < r.result.startedAt
                \/ s.result.startedAt = r.result.startedAt /\ s.id <= r.id}

\* latest_poll: ORDER BY started_at DESC, id DESC.
latest_poll ==
    {r \in pollRuns :
        /\ r.success
        /\ \A s \in Successes(pollRuns, r.result.lighthouse) :
              \/ s.result.startedAt < r.result.startedAt
              \/ s.result.startedAt = r.result.startedAt /\ s.id <= r.id}

Coalesce(x, y) == IF x # Null THEN x ELSE y

\* Mutant: COALESCE(h.cert_fingerprint), without the address.
fingerprint_key(entry) == entry.fingerprint

peer_key(entry) == Coalesce(entry.fingerprint, entry.addr)

\* JOIN hostmap_entries: what r has seen, while its rows are there.
Joined(r) ==
    {[key |-> peer_key(hostmap[r.id][k]), entry |-> hostmap[r.id][k], index |-> k,
      lighthouse |-> r.result.lighthouse, observedAt |-> r.result.startedAt] :
        k \in {k \in DOMAIN hostmap[r.id] :
                 \E x \in entries : x.run = r.id /\ x.table = "hostmap_entries"}}

\* Mutant: primary_vpn_addr is not looked at.
PeersWithoutAddress(r) == Joined(r)

\* WHERE primary_vpn_addr IS NOT NULL AND primary_vpn_addr <> ''.
PeersOf(r) == {x \in Joined(r) : x.entry.addr # Null}

\* ORDER BY observed_at DESC, lighthouse_name, entry_index.
RanksBefore(x, y) ==
    \/ x.observedAt > y.observedAt
    \/ x.observedAt = y.observedAt /\ x.lighthouse < y.lighthouse
    \/ /\ x.observedAt = y.observedAt /\ x.lighthouse = y.lighthouse
       /\ x.index < y.index

\* row_rank = 1: of each peer the row that ranks before its others.
FirstOfEachPeer ==
    LET ranked == UNION {PeersOf(r) : r \in latest_poll}
    IN {x \in ranked : \A y \in ranked : y.key = x.key => y = x \/ RanksBefore(x, y)}

Name(entry) == Coalesce(entry.name, entry.addr)

SortsBefore(x, y) ==
    \/ Name(x.entry) < Name(y.entry)
    \/ Name(x.entry) = Name(y.entry) /\ x.entry.addr < y.entry.addr

\* The row sequences the query may return; the order of ties is arbitrary.
ListPresentHostmapPeers ==
    {peers \in SetToSeqs(FirstOfEachPeer) :
        \A i, j \in DOMAIN peers : i < j => ~SortsBefore(peers[j], peers[i])}

-----------------------------------------------------------------------------
(***************************************************************************)
(* prometheusTargetGroups and the handler                                  *)
(***************************************************************************)
\* The labels that say where a target comes from.  observedAt is auxiliary.
PeerGroup(peer) ==
    [target |-> peer.entry.addr, source |-> "present_peer", name |-> Name(peer.entry),
     observedBy |-> peer.lighthouse, observedAt |-> peer.observedAt]

\* The address has a port: config.go builds it with net.JoinHostPort, so that
\* net.SplitHostPort fails on no address but one with a stray bracket, which a
\* request answers with status 500 and no groups, as it does a failed query.
LighthouseGroup(l) ==
    [target |-> HostOf[l], source |-> "configured_lighthouse", name |-> l,
     observedBy |-> Null, observedAt |-> 0]

\* Mutant: seenTargets is never looked up.
EveryGroup(groups) == groups

\* seenTargets: a group is left out when its target has one already.
FirstPerTarget(groups) ==
    LET seen(k) == {groups[j].target : j \in 1..(k - 1)}
    IN [k \in {i \in DOMAIN groups : groups[i].target \notin seen(i)} |-> groups[k]]

\* The peers first, then the configured lighthouses.
prometheusTargetGroups(peers) ==
    FirstPerTarget([k \in DOMAIN peers |-> PeerGroup(peers[k])]
                   \o [k \in DOMAIN Targets |-> LighthouseGroup(Targets[k])])

\* A GET request.  Nothing after the query reads shared state, so the request
\* is one step.  A query that fails is answered with status 500 and no groups,
\* upon which Prometheus keeps the targets it has: a stutter.
Serve ==
    /\ \E peers \in ListPresentHostmapPeers : answer' = prometheusTargetGroups(peers)
    /\ shown' = [l \in Lighthouses |->
                    Max({shown[l]} \cup {g.observedAt :
                        g \in {h \in ToSet(answer') : h.observedBy = l}})]
    /\ UNCHANGED <<historyVars, hostmap>>

-----------------------------------------------------------------------------
(***************************************************************************)
(* The steps of PollHistory.  Payloads and the other tables are not read.  *)
(***************************************************************************)
\* The polls there may be.  Those without peers have nothing to show.
Polls ==
    {[id |-> id, success |-> success,
      result |-> [lighthouse |-> l, startedAt |-> t, success |-> success,
                  commandsAt |-> [c \in Commands |-> t],
                  fills |-> {"hostmap_entries"}]] :
        id \in PollIds, l \in Lighthouses, t \in 0..now, success \in BOOLEAN}

HistoryStep ==
    /\ \/ now < MaxTime /\ TimePasses
       \/ ForgetRuns
       \/ ForgetEntries
    /\ answer' = <<>>
    /\ hostmap' = [id \in PollIds |-> IF id \in Ids(pollRuns') THEN hostmap[id] ELSE <<>>]
    /\ UNCHANGED shown

\* A poll is saved, with what its list-hostmap said.
SavePollResult ==
    /\ \E poll \in Polls, seen \in Hostmaps :
          Record(poll) /\ hostmap' = [hostmap EXCEPT ![poll.id] = seen]
    /\ answer' = <<>>
    /\ UNCHANGED shown

SDNext == SavePollResult \/ HistoryStep \/ Serve

SDSpec == SDInit /\ [][SDNext]_sdVars

-----------------------------------------------------------------------------
(***************************************************************************)
(* Properties                                                              *)
(***************************************************************************)
Group == [target : Nat \ {Null}, source : {"present_peer", "configured_lighthouse"},
          name : Nat \ {Null}, observedBy : Lighthouses \cup {Null}, observedAt : Nat]

\* Every variable has its type; every target has an address and a name.
TypeOK ==
    /\ now \in Nat
    /\ pollRuns \subseteq PollRun
    /\ entries \subseteq EntryRow
    /\ hostmap \in [PollIds -> Seq(HostmapEntry)]
    /\ DOMAIN answer \subseteq Nat \ {0} /\ ToSet(answer) \subseteq Group
    /\ shown \in [Lighthouses -> Nat]

\* An address is scraped once: peers that share an address, peers seen by
\* several lighthouses and lighthouses that are peers have one target.
OneTargetPerAddress ==
    \A i, j \in DOMAIN answer : answer[i].target = answer[j].target => i = j

\* No answer shows a lighthouse as it was before what an earlier answer showed,
\* although polls are committed out of order and history is being deleted.
AnswersNeverGoBack ==
    \A g \in ToSet(answer) :
        g.source = "present_peer" => g.observedAt >= shown[g.observedBy]

\* r is as new as any successful poll of its lighthouse.
Newest(r) ==
    /\ r.success
    /\ \A s \in Successes(pollRuns, r.result.lighthouse) :
          s.result.startedAt <= r.result.startedAt

\* r has seen a peer at the address a.
Seen(r, a) == \E k \in DOMAIN hostmap[r.id] : hostmap[r.id][k].addr = a

\* README: "target groups for present peers from the latest successful
\* lighthouse hostmap polls.  Configured lighthouses are also included [...]
\* when they are not already in the present peer set."  Whatever is answered is
\* one or the other, never what only a failed or an overtaken poll has seen.
Sound ==
    \A g \in ToSet(answer') :
        \/ /\ g.source = "present_peer"
           /\ \E r \in pollRuns :
                 Newest(r) /\ r.result.lighthouse = g.observedBy /\ Seen(r, g.target)
        \/ /\ g.source = "configured_lighthouse"
           /\ \E k \in DOMAIN Targets : HostOf[Targets[k]] = g.target
           /\ \A x \in FirstOfEachPeer : x.entry.addr # g.target

OnlyPresentPeersListed == [][Serve => Sound]_sdVars

\* Conversely every configured lighthouse is a target, and so is every address
\* in the newest poll of a lighthouse until that poll expires, unless its peer
\* has been seen at another address that is a target, no earlier.
Listed(a) == \E g \in ToSet(answer') : g.target = a

Complete ==
    /\ \A k \in DOMAIN Targets : Listed(HostOf[Targets[k]])
    /\ \A r \in pollRuns :
          /\ Newest(r) /\ ~Expired(r.result.startedAt, now)
          /\ \A s \in pollRuns \ {r} :
                Newest(s) => s.result.lighthouse # r.result.lighthouse
          => \A k \in DOMAIN hostmap[r.id] :
                LET e == hostmap[r.id][k] IN
                e.addr # Null =>
                   \/ Listed(e.addr)
                   \/ /\ e.fingerprint # Null
                      /\ \E s \in pollRuns :
                            /\ Newest(s) /\ s.result.startedAt >= r.result.startedAt
                            /\ \E j \in DOMAIN hostmap[s.id] :
                                  /\ hostmap[s.id][j].fingerprint = e.fingerprint
                                  /\ Listed(hostmap[s.id][j].addr)

PresentPeersListed == [][Serve => Complete]_sdVars

=============================================================================
