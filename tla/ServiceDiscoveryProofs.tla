------------------------- MODULE ServiceDiscoveryProofs -------------------------
(***************************************************************************)
(* Theorems about ServiceDiscovery for any lighthouses, targets, hostmaps, *)
(* polls and retention period.                                             *)
(***************************************************************************)
EXTENDS ServiceDiscovery, SetLemmas, SequenceTheorems

USE ServiceDiscoveryAssumption, PeriodAssumption

\* The history and the hostmaps fit together: polls have identifiers of their
\* own, and the rows of one go only when it has expired.
HistoryOK ==
    /\ IsFiniteSet(pollRuns)
    /\ \A r \in pollRuns : r.id \in PollIds /\ r.result.startedAt <= now
    /\ \A r, s \in pollRuns : r.id = s.id => r = s
    /\ \A id \in PollIds : hostmap[id] = <<>> \/ hostmap[id] \in Hostmaps
    /\ \A r \in pollRuns : ~Expired(r.result.startedAt, now) =>
          \E x \in entries : /\ x.run = r.id /\ x.table = "hostmap_entries"
                             /\ x.observedAt = r.result.startedAt

\* What an answer has shown of a lighthouse is still there, or has been replaced
\* by something newer, or has expired and left nothing behind.
ShownOK ==
    \A l \in Lighthouses :
        \/ shown[l] = 0
        \/ \E r \in Successes(pollRuns, l) : r.result.startedAt >= shown[l]
        \/ Successes(pollRuns, l) = {} /\ Expired(shown[l], now)

IInv == TypeOK /\ HistoryOK /\ ShownOK /\ OneTargetPerAddress /\ AnswersNeverGoBack

-----------------------------------------------------------------------------
(***************************************************************************)
(* The target groups                                                       *)
(***************************************************************************)
\* seenTargets: of the groups with a target exactly the first is kept.
LEMMA FirstPerTargetKeeps ==
    ASSUME NEW n \in Nat, NEW groups, DOMAIN groups = 1..n
    PROVE  LET kept == FirstPerTarget(groups) IN
           /\ DOMAIN kept \subseteq 1..n
           /\ \A k \in DOMAIN kept : kept[k] = groups[k]
           /\ \A i, j \in DOMAIN kept : groups[i].target = groups[j].target => i = j
           /\ \A k \in 1..n : \E i \in DOMAIN kept : i <= k /\ groups[i].target = groups[k].target
<1> DEFINE First == {i \in 1..n : \A j \in 1..(i - 1) : groups[j].target # groups[i].target}
           kept == FirstPerTarget(groups)
<1>1. kept = [k \in First |-> groups[k]]
  BY DEF FirstPerTarget
<1>2. DOMAIN kept = First /\ \A k \in First : kept[k] = groups[k]
  BY <1>1
<1>3. ASSUME NEW i \in First, NEW j \in First, groups[i].target = groups[j].target
      PROVE  i = j
  <2>1. ~(i < j) /\ ~(j < i)
    BY <1>3
  <2> QED
    BY <2>1
<1>4. ASSUME NEW k \in 1..n
      PROVE  \E i \in First : i <= k /\ groups[i].target = groups[k].target
  <2> DEFINE Same == {i \in 1..n : groups[i].target = groups[k].target}
  <2>1. Same \in SUBSET Nat /\ k \in Same
    OBVIOUS
  <2>2. PICK i \in Same : \A j \in Same : i <= j
    <3> HIDE DEF Same
    <3> QED
      BY <2>1, LeastNatural
  <2>3. i \in First
    <3>1. ASSUME NEW j \in 1..(i - 1) PROVE j \notin Same /\ j \in 1..n
      BY <2>2
    <3> QED
      BY <2>2, <3>1
  <2> QED
    BY <2>1, <2>2, <2>3
<1> HIDE DEF First
<1> QED
  BY <1>2, <1>3, <1>4 DEF First

-----------------------------------------------------------------------------
(***************************************************************************)
(* The rows of the query                                                   *)
(***************************************************************************)
\* The rows ListPresentHostmapPeers ranks, and what the entry at k of the poll
\* r looks like among them.
Ranked == UNION {PeersOf(r) : r \in latest_poll}

RowOf(r, k) ==
    [key |-> peer_key(hostmap[r.id][k]), entry |-> hostmap[r.id][k], index |-> k,
     lighthouse |-> r.result.lighthouse, observedAt |-> r.result.startedAt]

\* Every row comes from an entry with an address of a latest poll.
LEMMA RankedRow ==
    ASSUME NEW x \in Ranked
    PROVE  \E r \in latest_poll : \E k \in DOMAIN hostmap[r.id] :
              x = RowOf(r, k) /\ x.entry = hostmap[r.id][k] /\ x.entry.addr # Null
<1>1. PICK r \in latest_poll : x \in PeersOf(r)
  BY DEF Ranked
<1>2. x \in Joined(r) /\ x.entry.addr # Null
  BY <1>1 DEF PeersOf
<1>3. PICK k \in DOMAIN hostmap[r.id] : x = RowOf(r, k)
  BY <1>2 DEF Joined, RowOf
<1>4. x.entry = hostmap[r.id][k]
  BY <1>3 DEF RowOf
<1> QED
  BY <1>2, <1>3, <1>4

\* Conversely, while the rows of a latest poll are there, each of its entries
\* that has an address is ranked.
LEMMA EntryRanked ==
    ASSUME NEW r \in latest_poll, NEW k \in DOMAIN hostmap[r.id],
           hostmap[r.id][k].addr # Null,
           \E x \in entries : x.run = r.id /\ x.table = "hostmap_entries"
    PROVE  RowOf(r, k) \in Ranked
<1>1. RowOf(r, k) \in Joined(r)
  BY DEF Joined, RowOf
<1>2. RowOf(r, k).entry = hostmap[r.id][k]
  BY DEF RowOf
<1> QED
  BY <1>1, <1>2 DEF PeersOf, Ranked

\* The entries of the hostmaps are what the configuration of list-hostmap says,
\* and polls have the types of poll_runs.
LEMMA EntryTypes ==
    ASSUME TypeOK, HistoryOK, NEW r \in pollRuns, NEW k \in DOMAIN hostmap[r.id]
    PROVE  /\ r.id \in PollIds /\ r.result.startedAt \in Nat /\ r.result.startedAt <= now
           /\ r.result.lighthouse \in Lighthouses
           /\ hostmap[r.id] \in Hostmaps
           /\ k \in Nat \ {0}
           /\ hostmap[r.id][k] \in HostmapEntry
           /\ hostmap[r.id][k].addr \in Nat /\ hostmap[r.id][k].name \in Nat
           /\ hostmap[r.id][k].fingerprint \in Nat
<1>1. r \in PollRun /\ r.id \in PollIds /\ r.result.startedAt <= now
  BY DEF TypeOK, HistoryOK
<1>2. r.result \in Result
  BY <1>1 DEF PollRun
<1>3. hostmap[r.id] \in Seq(HostmapEntry)
  BY <1>1 DEF TypeOK
<1>4. k \in 1..Len(hostmap[r.id])
  BY <1>3
<1>5. hostmap[r.id] # <<>>
  BY <1>3, <1>4
<1>6. hostmap[r.id] \in Hostmaps
  BY <1>1, <1>5 DEF HistoryOK
<1>7. hostmap[r.id][k] \in HostmapEntry
  BY <1>3, <1>4
<1>8. r.result.startedAt \in Nat /\ r.result.lighthouse \in Lighthouses
  BY <1>2 DEF Result
<1>9. k \in Nat \ {0}
  <2>1. Len(hostmap[r.id]) \in Nat
    BY <1>3
  <2> QED
    BY <1>4, <2>1
<1>10. /\ hostmap[r.id][k].addr \in Nat /\ hostmap[r.id][k].name \in Nat
       /\ hostmap[r.id][k].fingerprint \in Nat
  BY <1>7 DEF HostmapEntry
<1> QED
  BY <1>1, <1>6, <1>7, <1>8, <1>9, <1>10

\* The types of the columns of a row.
LEMMA RowTypes ==
    ASSUME TypeOK, HistoryOK, NEW x \in Ranked
    PROVE  /\ x.observedAt \in Nat /\ x.observedAt <= now
           /\ x.lighthouse \in Lighthouses /\ x.index \in Nat
           /\ x.entry.addr \in Nat \ {Null}
           /\ Name(x.entry) \in Nat \ {Null}
<1>1. PICK r \in latest_poll : \E k \in DOMAIN hostmap[r.id] :
         x = RowOf(r, k) /\ x.entry = hostmap[r.id][k] /\ x.entry.addr # Null
  BY RankedRow
<1>2. PICK k \in DOMAIN hostmap[r.id] :
         x = RowOf(r, k) /\ x.entry = hostmap[r.id][k] /\ x.entry.addr # Null
  BY <1>1
<1>3. r \in pollRuns
  BY DEF latest_poll
<1>4. x.observedAt = r.result.startedAt /\ x.lighthouse = r.result.lighthouse /\ x.index = k
  BY <1>2 DEF RowOf
<1> QED
  BY <1>2, <1>3, <1>4, EntryTypes DEF Name, Coalesce, Null

\* A lighthouse has one latest poll, since the identifiers are a key.
LEMMA OneLatest ==
    ASSUME TypeOK, HistoryOK, NEW r \in latest_poll, NEW s \in latest_poll,
           r.result.lighthouse = s.result.lighthouse
    PROVE  r = s
<1>1. r \in pollRuns /\ s \in pollRuns /\ r.success /\ s.success
  BY DEF latest_poll
<1>2. r \in PollRun /\ s \in PollRun
  BY <1>1 DEF TypeOK
<1>3. r.result.startedAt \in Nat /\ s.result.startedAt \in Nat /\ r.id \in Nat /\ s.id \in Nat
  BY <1>2 DEF PollRun, Result
<1>4. r \in Successes(pollRuns, s.result.lighthouse) /\ s \in Successes(pollRuns, r.result.lighthouse)
  BY <1>1 DEF Successes
<1>5. /\ s.result.startedAt < r.result.startedAt
            \/ (s.result.startedAt = r.result.startedAt /\ s.id <= r.id)
      /\ r.result.startedAt < s.result.startedAt
            \/ (r.result.startedAt = s.result.startedAt /\ r.id <= s.id)
  BY <1>4 DEF latest_poll
<1>6. r.id = s.id
  BY <1>3, <1>5
<1> QED
  BY <1>1, <1>6 DEF HistoryOK

\* Ranking is by age, lighthouse and place in the hostmap, which no two rows
\* share: of the rows of each peer there is a first.
LEMMA SamePlaceSameRow ==
    ASSUME TypeOK, HistoryOK, NEW x \in Ranked, NEW y \in Ranked,
           x.lighthouse = y.lighthouse, x.index = y.index
    PROVE  x = y
<1>1. PICK r \in latest_poll : \E k \in DOMAIN hostmap[r.id] : x = RowOf(r, k)
  BY RankedRow
<1>2. PICK k \in DOMAIN hostmap[r.id] : x = RowOf(r, k)
  BY <1>1
<1>3. PICK s \in latest_poll : \E j \in DOMAIN hostmap[s.id] : y = RowOf(s, j)
  BY RankedRow
<1>4. PICK j \in DOMAIN hostmap[s.id] : y = RowOf(s, j)
  BY <1>3
<1>5. /\ x.lighthouse = r.result.lighthouse /\ x.index = k
      /\ y.lighthouse = s.result.lighthouse /\ y.index = j
  BY <1>2, <1>4 DEF RowOf
<1>6. r = s
  BY <1>5, OneLatest
<1> QED
  BY <1>2, <1>4, <1>5, <1>6

LEMMA FirstRowExists ==
    ASSUME TypeOK, HistoryOK, NEW y \in Ranked
    PROVE  \E x \in FirstOfEachPeer : x.key = y.key /\ x.observedAt >= y.observedAt
<1> DEFINE Same == {z \in Ranked : z.key = y.key}
           Ages == {now - z.observedAt : z \in Same}
<1>0. now \in Nat
  BY DEF TypeOK
<1>t. \A z \in Ranked : /\ z.observedAt \in Nat /\ z.observedAt <= now
                        /\ z.lighthouse \in Nat /\ z.index \in Nat
  BY RowTypes
<1>1. PICK a \in Same : \A z \in Same : a.observedAt >= z.observedAt
  <2>1. Ages \in SUBSET Nat
    BY <1>0, <1>t
  <2>2. Ages # {}
    OBVIOUS
  <2>3. PICK d \in Ages : \A e \in Ages : d <= e
    <3> HIDE DEF Ages
    <3> QED
      BY <2>1, <2>2, LeastNatural
  <2>4. PICK a \in Same : d = now - a.observedAt
    BY <2>3
  <2>5. \A z \in Same : now - a.observedAt <= now - z.observedAt
    BY <2>3, <2>4
  <2>6. \A z \in Same : a.observedAt >= z.observedAt
    BY <2>4, <2>5, <1>0, <1>t
  <2> QED
    BY <2>6
<1> DEFINE Newest2 == {z \in Same : z.observedAt = a.observedAt}
           Names == {z.lighthouse : z \in Newest2}
<1>2. PICK b \in Newest2 : \A z \in Newest2 : b.lighthouse <= z.lighthouse
  <2>1. Names \in SUBSET Nat /\ Names # {}
    BY <1>t, <1>1
  <2>2. PICK l \in Names : \A m \in Names : l <= m
    <3> HIDE DEF Names
    <3> QED
      BY <2>1, LeastNatural
  <2>3. PICK b \in Newest2 : l = b.lighthouse
    BY <2>2
  <2> QED
    BY <2>2, <2>3
<1> DEFINE Here == {z \in Newest2 : z.lighthouse = b.lighthouse}
           Places == {z.index : z \in Here}
<1>3. PICK x \in Here : \A z \in Here : x.index <= z.index
  <2>1. Places \in SUBSET Nat /\ Places # {}
    BY <1>t, <1>2
  <2>2. PICK i \in Places : \A j \in Places : i <= j
    <3> HIDE DEF Places
    <3> QED
      BY <2>1, LeastNatural
  <2>3. PICK x \in Here : i = x.index
    BY <2>2
  <2> QED
    BY <2>2, <2>3
<1>4. x \in Ranked /\ x.key = y.key /\ x.observedAt = a.observedAt /\ x.lighthouse = b.lighthouse
  BY <1>3
<1>5. ASSUME NEW z \in Ranked, z.key = x.key
      PROVE  z = x \/ RanksBefore(x, z)
  <2>1. z \in Same
    BY <1>4, <1>5
  <2>2. CASE z.observedAt # x.observedAt
    BY <1>1, <1>4, <1>t, <2>1, <2>2 DEF RanksBefore
  <2>3. CASE z.observedAt = x.observedAt /\ z.lighthouse # x.lighthouse
    <3>1. z \in Newest2
      BY <1>4, <2>1, <2>3
    <3>2. x.lighthouse <= z.lighthouse
      BY <1>2, <1>4, <3>1
    <3> QED
      BY <1>4, <1>t, <2>3, <3>2 DEF RanksBefore
  <2>4. CASE z.observedAt = x.observedAt /\ z.lighthouse = x.lighthouse /\ z.index # x.index
    <3>1. z \in Here
      BY <1>4, <2>1, <2>4
    <3>2. x.index <= z.index
      BY <1>3, <3>1
    <3> QED
      BY <1>4, <1>t, <2>4, <3>2 DEF RanksBefore
  <2>5. CASE z.lighthouse = x.lighthouse /\ z.index = x.index
    BY <1>4, <2>5, SamePlaceSameRow
  <2> QED
    BY <2>2, <2>3, <2>4, <2>5
<1>6. x \in FirstOfEachPeer
  BY <1>4, <1>5 DEF FirstOfEachPeer, Ranked
<1>7. y \in Same
  OBVIOUS
<1> QED
  BY <1>1, <1>4, <1>6, <1>7

\* The query returns finitely many rows.
LEMMA FiniteRows ==
    ASSUME TypeOK, HistoryOK
    PROVE  IsFiniteSet(FirstOfEachPeer)
<1>1. IsFiniteSet(latest_poll)
  <2>1. latest_poll \in SUBSET pollRuns /\ IsFiniteSet(pollRuns)
    BY DEF latest_poll, HistoryOK
  <2> QED
    BY <2>1, FS_Subset
<1>2. ASSUME NEW r \in latest_poll
      PROVE  IsFiniteSet(PeersOf(r))
  <2> DEFINE rows == [k \in DOMAIN hostmap[r.id] |-> RowOf(r, k)]
             image == {rows[k] : k \in DOMAIN rows}
  <2>1. r \in pollRuns
    BY DEF latest_poll
  <2>2. hostmap[r.id] \in Seq(HostmapEntry)
    BY <2>1 DEF TypeOK, HistoryOK
  <2>3. DOMAIN hostmap[r.id] = 1..Len(hostmap[r.id]) /\ Len(hostmap[r.id]) \in Nat
    BY <2>2
  <2>4. IsFiniteSet(DOMAIN hostmap[r.id])
    BY <2>3, FS_Interval
  <2>5. DOMAIN rows = DOMAIN hostmap[r.id] /\ rows = [k \in DOMAIN rows |-> rows[k]]
    OBVIOUS
  <2>6. IsFiniteSet(image)
    <3> HIDE DEF rows
    <3> QED
      BY <2>4, <2>5, FiniteImage
  <2>7. PeersOf(r) \in SUBSET image
    BY DEF PeersOf, Joined, RowOf
  <2> HIDE DEF image
  <2> QED
    BY <2>6, <2>7, FS_Subset
<1> DEFINE peersOf == [r \in latest_poll |-> PeersOf(r)]
           sets == {peersOf[r] : r \in DOMAIN peersOf}
<1>3. IsFiniteSet(sets)
  <2>1. DOMAIN peersOf = latest_poll /\ peersOf = [r \in DOMAIN peersOf |-> peersOf[r]]
    OBVIOUS
  <2> HIDE DEF peersOf
  <2> QED
    BY <1>1, <2>1, FiniteImage
<1>4. \A S \in sets : IsFiniteSet(S)
  BY <1>2
<1>5. Ranked = UNION sets
  BY DEF Ranked
<1>6. IsFiniteSet(Ranked)
  <2> HIDE DEF sets
  <2> QED
    BY <1>3, <1>4, <1>5, FS_UNION
<1>7. FirstOfEachPeer \in SUBSET Ranked
  BY DEF FirstOfEachPeer, Ranked
<1> QED
  BY <1>6, <1>7, FS_Subset

\* The sequences the query may return hold each row once.
LEMMA PeersAreRows ==
    ASSUME TypeOK, HistoryOK, NEW peers \in ListPresentHostmapPeers
    PROVE  /\ Cardinality(FirstOfEachPeer) \in Nat
           /\ peers \in [1..Cardinality(FirstOfEachPeer) -> FirstOfEachPeer]
           /\ \A x \in FirstOfEachPeer : \E k \in DOMAIN peers : peers[k] = x
<1> DEFINE n == Cardinality(FirstOfEachPeer)
           I == 1..n
<1>1. IsFiniteSet(FirstOfEachPeer) /\ n \in Nat
  BY FiniteRows, FS_CardinalityType
<1>2. peers \in [I -> FirstOfEachPeer] /\ \A i, j \in I : i # j => peers[i] # peers[j]
  BY DEF ListPresentHostmapPeers, SetToSeqs
<1>3. peers \in Injection(I, FirstOfEachPeer)
  <2> HIDE DEF I
  <2> QED
    BY <1>2 DEF Injection, IsInjective
<1>4. IsFiniteSet(I) /\ Cardinality(I) = n
  <2>1. 1 \in Int /\ n \in Int
    BY <1>1
  <2>2. IsFiniteSet(I) /\ Cardinality(I) = IF 1 > n THEN 0 ELSE n - 1 + 1
    <3> HIDE DEF n
    <3> QED
      BY <2>1, FS_Interval
  <2> HIDE DEF I, n
  <2> QED
    BY <1>1, <2>2
<1>5. peers \in Surjection(I, FirstOfEachPeer)
  <2> HIDE DEF I
  <2> QED
    BY <1>1, <1>3, <1>4, FS_Injection
<1> QED
  BY <1>1, <1>2, <1>5 DEF Surjection

-----------------------------------------------------------------------------
(***************************************************************************)
(* The answer                                                              *)
(***************************************************************************)
\* The labels of the two kinds of groups.
LEMMA GroupTypes ==
    /\ TypeOK /\ HistoryOK =>
         \A x \in FirstOfEachPeer :
            /\ PeerGroup(x) \in Group
            /\ PeerGroup(x).target = x.entry.addr
            /\ PeerGroup(x).source = "present_peer"
            /\ PeerGroup(x).observedBy = x.lighthouse
            /\ PeerGroup(x).observedAt = x.observedAt
    /\ \A l \in Lighthouses :
            /\ LighthouseGroup(l) \in Group
            /\ LighthouseGroup(l).target = HostOf[l]
            /\ LighthouseGroup(l).source = "configured_lighthouse"
            /\ LighthouseGroup(l).observedBy = Null
<1>1. ASSUME TypeOK, HistoryOK, NEW x \in FirstOfEachPeer
      PROVE  PeerGroup(x) \in Group
  <2>1. x \in Ranked
    BY DEF FirstOfEachPeer, Ranked
  <2>2. /\ x.observedAt \in Nat /\ x.lighthouse \in Lighthouses
        /\ x.entry.addr \in Nat \ {Null} /\ Name(x.entry) \in Nat \ {Null}
    BY <1>1, <2>1, RowTypes
  <2> QED
    BY <2>2 DEF PeerGroup, Group
<1>2. ASSUME NEW l \in Lighthouses
      PROVE  LighthouseGroup(l) \in Group
  <2>1. l \in Nat \ {Null} /\ HostOf[l] \in Nat \ {Null}
    OBVIOUS
  <2> QED
    BY <2>1 DEF LighthouseGroup, Group
<1> QED
  BY <1>1, <1>2 DEF PeerGroup, LighthouseGroup

\* prometheusTargetGroups: every group is that of a row, or that of a configured
\* lighthouse at an address no row has; every address has exactly one.
LEMMA AnswerOfRows ==
    ASSUME TypeOK, HistoryOK, NEW peers \in ListPresentHostmapPeers,
           NEW groups, groups = prometheusTargetGroups(peers)
    PROVE  /\ DOMAIN groups \subseteq Nat \ {0}
           /\ ToSet(groups) \subseteq Group
           /\ \A i, j \in DOMAIN groups : groups[i].target = groups[j].target => i = j
           /\ \A g \in ToSet(groups) :
                 \/ \E x \in FirstOfEachPeer : g = PeerGroup(x)
                 \/ \E k \in DOMAIN Targets :
                       /\ g = LighthouseGroup(Targets[k])
                       /\ \A x \in FirstOfEachPeer : x.entry.addr # g.target
           /\ \A x \in FirstOfEachPeer : \E g \in ToSet(groups) : g.target = x.entry.addr
           /\ \A k \in DOMAIN Targets : \E g \in ToSet(groups) : g.target = HostOf[Targets[k]]
<1> DEFINE n == Cardinality(FirstOfEachPeer)
           m == Len(Targets)
           P == [k \in DOMAIN peers |-> PeerGroup(peers[k])]
           Q == [k \in DOMAIN Targets |-> LighthouseGroup(Targets[k])]
           all == P \o Q
<1>1. /\ n \in Nat /\ peers \in [1..n -> FirstOfEachPeer]
      /\ \A x \in FirstOfEachPeer : \E k \in 1..n : peers[k] = x
  BY PeersAreRows
<1>2. m \in Nat /\ DOMAIN Targets = 1..m /\ \A k \in 1..m : Targets[k] \in Lighthouses
  OBVIOUS
<1>3. P \in [1..n -> Group] /\ \A k \in 1..n : P[k] = PeerGroup(peers[k])
  BY <1>1, GroupTypes
<1>4. Q \in [1..m -> Group] /\ \A k \in 1..m : Q[k] = LighthouseGroup(Targets[k])
  BY <1>2, GroupTypes
<1>5. P \in Seq(Group) /\ Len(P) = n /\ Q \in Seq(Group) /\ Len(Q) = m
  <2> HIDE DEF P, Q, n, m
  <2>1. P \in Seq(Group) /\ Q \in Seq(Group)
    BY <1>1, <1>2, <1>3, <1>4, SeqDef
  <2>2. DOMAIN P = 1..n /\ DOMAIN Q = 1..m
    BY <1>3, <1>4
  <2> QED
    BY <1>1, <1>2, <2>1, <2>2, LenProperties
<1>6. /\ all \in Seq(Group) /\ Len(all) = n + m
      /\ \A i \in 1..(n + m) : all[i] = IF i <= n THEN P[i] ELSE Q[i - n]
  <2> HIDE DEF P, Q, n, m
  <2> QED
    BY <1>5, ConcatProperties
<1>7. groups = FirstPerTarget(all)
  BY DEF prometheusTargetGroups
<1> HIDE DEF P, Q, all, n, m
<1>8. DOMAIN all = 1..(n + m) /\ n + m \in Nat /\ \A k \in 1..(n + m) : all[k] \in Group
  BY <1>1, <1>2, <1>6, LenProperties
<1>9. /\ DOMAIN groups \subseteq 1..(n + m)
      /\ \A k \in DOMAIN groups : groups[k] = all[k]
      /\ \A i, j \in DOMAIN groups : all[i].target = all[j].target => i = j
      /\ \A k \in 1..(n + m) : \E i \in DOMAIN groups :
            i <= k /\ all[i].target = all[k].target
  <2>1. n + m \in Nat /\ DOMAIN all = 1..(n + m)
    BY <1>8
  <2> QED
    BY <1>7, <2>1, FirstPerTargetKeeps
<1>10. \A k \in 1..n : k \in 1..(n + m) /\ all[k] = PeerGroup(peers[k])
  BY <1>1, <1>2, <1>3, <1>6
<1>11. \A k \in 1..m : n + k \in 1..(n + m) /\ all[n + k] = LighthouseGroup(Targets[k])
  <2> TAKE k \in 1..m
  <2>1. n + k \in 1..(n + m) /\ ~(n + k <= n) /\ (n + k) - n = k
    BY <1>1, <1>2
  <2> QED
    BY <1>4, <1>6, <2>1
<1>12. \A i \in 1..(n + m) : i \in 1..n \/ \E k \in 1..m : i = n + k
  <2> TAKE i \in 1..(n + m)
  <2>1. CASE i <= n
    BY <1>1, <1>2, <2>1
  <2>2. CASE ~(i <= n)
    <3>1. i - n \in 1..m /\ i = n + (i - n)
      BY <1>1, <1>2, <2>2
    <3> QED
      BY <3>1
  <2> QED
    BY <2>1, <2>2
<1>13. DOMAIN groups \subseteq Nat \ {0} /\ ToSet(groups) \subseteq Group
  <2>1. 1..(n + m) \subseteq Nat \ {0}
    BY <1>8
  <2> QED
    BY <1>8, <1>9, <2>1 DEF ToSet
<1>14. \A i, j \in DOMAIN groups : groups[i].target = groups[j].target => i = j
  BY <1>9
<1>15. ASSUME NEW k \in 1..(n + m)
       PROVE  \E g \in ToSet(groups) : g.target = all[k].target
  <2>1. PICK i \in DOMAIN groups : all[i].target = all[k].target
    BY <1>9
  <2>2. groups[i] \in ToSet(groups) /\ groups[i] = all[i]
    BY <1>9 DEF ToSet
  <2> QED
    BY <2>1, <2>2
<1>16. \A x \in FirstOfEachPeer : \E g \in ToSet(groups) : g.target = x.entry.addr
  <2> TAKE x \in FirstOfEachPeer
  <2>1. PICK k \in 1..n : peers[k] = x
    BY <1>1
  <2>2. all[k].target = x.entry.addr /\ k \in 1..(n + m)
    BY <1>10, <2>1, GroupTypes
  <2> QED
    BY <1>15, <2>2
<1>17. \A k \in DOMAIN Targets : \E g \in ToSet(groups) : g.target = HostOf[Targets[k]]
  <2> TAKE k \in DOMAIN Targets
  <2>1. k \in 1..m /\ Targets[k] \in Lighthouses
    BY <1>2
  <2>2. all[n + k].target = HostOf[Targets[k]] /\ n + k \in 1..(n + m)
    BY <1>11, <2>1, GroupTypes
  <2> QED
    BY <1>15, <2>2
<1>18. ASSUME NEW g \in ToSet(groups)
       PROVE  \/ \E x \in FirstOfEachPeer : g = PeerGroup(x)
              \/ \E k \in DOMAIN Targets :
                    /\ g = LighthouseGroup(Targets[k])
                    /\ \A x \in FirstOfEachPeer : x.entry.addr # g.target
  <2>1. PICK i \in DOMAIN groups : g = all[i]
    BY <1>9 DEF ToSet
  <2>2. i \in 1..(n + m)
    BY <1>9
  <2>3. CASE i \in 1..n
    BY <1>1, <1>10, <2>1, <2>3
  <2>4. ASSUME NEW k \in 1..m, i = n + k
        PROVE  /\ g = LighthouseGroup(Targets[k])
               /\ \A x \in FirstOfEachPeer : x.entry.addr # g.target
    <3>1. g = LighthouseGroup(Targets[k])
      BY <1>11, <2>1, <2>4
    <3>2. ASSUME NEW x \in FirstOfEachPeer, x.entry.addr = g.target
          PROVE  FALSE
      <4>1. PICK j \in 1..n : peers[j] = x
        BY <1>1
      <4>2. all[j].target = g.target /\ j \in 1..(n + m)
        BY <1>10, <3>2, <4>1, GroupTypes
      <4>3. PICK h \in DOMAIN groups : h <= j /\ all[h].target = all[j].target
        BY <1>9, <4>2
      <4>4. h = i
        BY <1>9, <2>1, <4>2, <4>3
      <4> QED
        BY <1>1, <2>4, <4>3, <4>4
    <3> QED
      BY <3>1, <3>2
  <2> QED
    BY <1>2, <1>12, <2>2, <2>3, <2>4
<1> QED
  BY <1>13, <1>14, <1>16, <1>17, <1>18

\* A row comes from the newest successful poll of its lighthouse.
LEMMA RowOfLatest ==
    ASSUME TypeOK, HistoryOK, NEW x \in FirstOfEachPeer
    PROVE  \E r \in latest_poll : \E k \in DOMAIN hostmap[r.id] :
              /\ r.result.lighthouse = x.lighthouse /\ r.result.startedAt = x.observedAt
              /\ x = RowOf(r, k) /\ x.entry = hostmap[r.id][k] /\ x.entry.addr # Null
<1>1. x \in Ranked
  BY DEF FirstOfEachPeer, Ranked
<1>2. PICK r \in latest_poll : \E k \in DOMAIN hostmap[r.id] :
         x = RowOf(r, k) /\ x.entry = hostmap[r.id][k] /\ x.entry.addr # Null
  BY <1>1, RankedRow
<1>3. PICK k \in DOMAIN hostmap[r.id] :
         x = RowOf(r, k) /\ x.entry = hostmap[r.id][k] /\ x.entry.addr # Null
  BY <1>2
<1>4. r.result.lighthouse = x.lighthouse /\ r.result.startedAt = x.observedAt
  BY <1>3 DEF RowOf
<1> QED
  BY <1>3, <1>4

LEMMA LatestIsNewest ==
    ASSUME TypeOK, NEW r \in latest_poll
    PROVE  r \in pollRuns /\ Newest(r)
<1>1. /\ r \in pollRuns /\ r.success
      /\ \A s \in Successes(pollRuns, r.result.lighthouse) :
            \/ s.result.startedAt < r.result.startedAt
            \/ s.result.startedAt = r.result.startedAt /\ s.id <= r.id
  BY DEF latest_poll
<1>2. \A s \in pollRuns : s.result.startedAt \in Nat
  BY DEF TypeOK, PollRun, Result
<1>3. \A s \in Successes(pollRuns, r.result.lighthouse) :
         s.result.startedAt <= r.result.startedAt
  BY <1>1, <1>2 DEF Successes
<1> QED
  BY <1>1, <1>3 DEF Newest

\* What an answer shows of a lighthouse is its newest poll, and no older than
\* what any answer has shown before.
LEMMA ShownGroups ==
    ASSUME IInv, Serve
    PROVE  /\ \A l \in Lighthouses :
                 /\ shown'[l] \in Nat
                 /\ \/ shown'[l] = shown[l]
                    \/ \E r \in latest_poll :
                          r.result.lighthouse = l /\ r.result.startedAt = shown'[l]
           /\ \A g \in ToSet(answer') :
                 g.source = "present_peer" => g.observedAt >= shown'[g.observedBy]
<1> USE DEF IInv
<1>1. PICK peers \in ListPresentHostmapPeers : answer' = prometheusTargetGroups(peers)
  BY DEF Serve
<1>2. \A g \in ToSet(answer') :
         \/ \E x \in FirstOfEachPeer : g = PeerGroup(x)
         \/ \E k \in DOMAIN Targets : g = LighthouseGroup(Targets[k])
  <2> DEFINE groups == answer'
  <2>1. groups = prometheusTargetGroups(peers)
    BY <1>1
  <2>2. \A g \in ToSet(groups) :
           \/ \E x \in FirstOfEachPeer : g = PeerGroup(x)
           \/ \E k \in DOMAIN Targets :
                 /\ g = LighthouseGroup(Targets[k])
                 /\ \A x \in FirstOfEachPeer : x.entry.addr # g.target
    <3> HIDE DEF groups
    <3> QED
      BY <2>1, AnswerOfRows
  <2> QED
    BY <2>2
<1> DEFINE S(l) == {g.observedAt : g \in {h \in ToSet(answer') : h.observedBy = l}}
<1>3. ASSUME NEW l \in Lighthouses, NEW r \in latest_poll, r.result.lighthouse = l
      PROVE  /\ S(l) \subseteq {r.result.startedAt}
             /\ r.result.startedAt \in Nat /\ shown[l] \in Nat
             /\ shown[l] <= r.result.startedAt
  <2>1. ASSUME NEW g \in ToSet(answer'), g.observedBy = l
        PROVE  g.observedAt = r.result.startedAt
    <3>1. ASSUME NEW x \in FirstOfEachPeer, g = PeerGroup(x)
          PROVE  g.observedAt = r.result.startedAt
      <4>1. x.lighthouse = l /\ g.observedAt = x.observedAt
        BY <2>1, <3>1, GroupTypes
      <4>2. PICK s \in latest_poll :
               s.result.lighthouse = x.lighthouse /\ s.result.startedAt = x.observedAt
        BY RowOfLatest
      <4>3. r = s
        BY <1>3, <4>1, <4>2, OneLatest
      <4> QED
        BY <4>1, <4>2, <4>3
    <3>2. ASSUME NEW k \in DOMAIN Targets, g = LighthouseGroup(Targets[k])
          PROVE  FALSE
      <4>1. Targets[k] \in Lighthouses
        OBVIOUS
      <4>2. g.observedBy = Null
        BY <3>2, <4>1, GroupTypes
      <4> QED
        BY <2>1, <4>2
    <3> QED
      BY <1>2, <3>1, <3>2
  <2>2. r \in pollRuns /\ Newest(r)
    BY LatestIsNewest
  <2>3. r.result.startedAt \in Nat /\ shown[l] \in Nat
    BY <2>2 DEF TypeOK, PollRun, Result
  <2>4. r \in Successes(pollRuns, l)
    BY <1>3, <2>2 DEF Successes, Newest
  <2>5. CASE shown[l] = 0
    BY <2>1, <2>3, <2>5
  <2>6. ASSUME NEW s \in Successes(pollRuns, l), s.result.startedAt >= shown[l]
        PROVE  shown[l] <= r.result.startedAt
    <3>1. s.result.startedAt <= r.result.startedAt
      BY <1>3, <2>2 DEF Newest
    <3>2. s.result.startedAt \in Nat
      BY DEF Successes, TypeOK, PollRun, Result
    <3> QED
      BY <2>3, <2>6, <3>1, <3>2
  <2>7. shown[l] <= r.result.startedAt
    BY <2>3, <2>4, <2>5, <2>6 DEF ShownOK
  <2> QED
    BY <2>1, <2>3, <2>7
<1>4. ASSUME NEW l \in Lighthouses, S(l) # {}
      PROVE  \E r \in latest_poll : r.result.lighthouse = l
  <2>1. PICK g \in ToSet(answer') : g.observedBy = l
    BY <1>4
  <2>2. ASSUME NEW k \in DOMAIN Targets, g = LighthouseGroup(Targets[k])
        PROVE  FALSE
    <3>1. Targets[k] \in Lighthouses
      OBVIOUS
    <3>2. g.observedBy = Null
      BY <2>2, <3>1, GroupTypes
    <3> QED
      BY <2>1, <3>2
  <2>3. PICK x \in FirstOfEachPeer : g = PeerGroup(x)
    BY <1>2, <2>2
  <2>4. x.lighthouse = l
    BY <2>1, <2>3, GroupTypes
  <2> QED
    BY <2>4, RowOfLatest
<1>5. ASSUME NEW l \in Lighthouses
      PROVE  shown'[l] = Max({shown[l]} \cup S(l))
  BY DEF Serve
<1>6. ASSUME NEW l \in Lighthouses, S(l) = {}
      PROVE  shown'[l] = shown[l] /\ shown[l] \in Nat
  <2>1. shown'[l] = Max({shown[l]})
    BY <1>5, <1>6
  <2>2. shown[l] \in Nat
    BY DEF TypeOK
  <2> QED
    BY <2>1, <2>2 DEF Max
<1>7. ASSUME NEW l \in Lighthouses, NEW r \in latest_poll, r.result.lighthouse = l,
             S(l) # {}
      PROVE  shown'[l] = r.result.startedAt
  <2> HIDE DEF S
  <2>1. S(l) = {r.result.startedAt} /\ r.result.startedAt \in Nat /\ shown[l] \in Nat
        /\ shown[l] <= r.result.startedAt
    BY <1>3, <1>7
  <2>2. shown'[l] = Max({shown[l], r.result.startedAt})
    BY <1>5, <2>1
  <2> QED
    BY <2>1, <2>2 DEF Max
<1>8. ASSUME NEW l \in Lighthouses
      PROVE  /\ shown'[l] \in Nat
             /\ \/ shown'[l] = shown[l]
                \/ \E r \in latest_poll :
                      r.result.lighthouse = l /\ r.result.startedAt = shown'[l]
  <2>1. CASE S(l) = {}
    BY <1>6, <2>1
  <2>2. CASE S(l) # {}
    BY <1>3, <1>4, <1>7, <2>2
  <2> QED
    BY <2>1, <2>2
<1>9. ASSUME NEW g \in ToSet(answer'), g.source = "present_peer"
      PROVE  g.observedAt >= shown'[g.observedBy]
  <2>1. ASSUME NEW k \in DOMAIN Targets, g = LighthouseGroup(Targets[k])
        PROVE  FALSE
    <3>1. Targets[k] \in Lighthouses
      OBVIOUS
    <3>2. g.source = "configured_lighthouse"
      BY <2>1, <3>1, GroupTypes
    <3> QED
      BY <1>9, <3>2
  <2>2. PICK x \in FirstOfEachPeer : g = PeerGroup(x)
    BY <1>2, <2>1
  <2>3. g.observedBy = x.lighthouse /\ g.observedAt = x.observedAt
    BY <2>2, GroupTypes
  <2>4. PICK r \in latest_poll :
           r.result.lighthouse = x.lighthouse /\ r.result.startedAt = x.observedAt
    BY RowOfLatest
  <2>5. x.lighthouse \in Lighthouses
    BY RowTypes DEF FirstOfEachPeer, Ranked
  <2>6. S(x.lighthouse) # {}
    BY <2>3
  <2>7. shown'[x.lighthouse] = r.result.startedAt /\ r.result.startedAt \in Nat
    BY <1>3, <1>7, <2>4, <2>5, <2>6
  <2> QED
    BY <2>3, <2>4, <2>7
<1> QED
  BY <1>8, <1>9

-----------------------------------------------------------------------------
(***************************************************************************)
(* The inductive invariant                                                 *)
(***************************************************************************)
LEMMA InitIInv == SDInit => IInv
<1> SUFFICES ASSUME SDInit PROVE IInv
  OBVIOUS
<1>1. TypeOK
  <2>1. answer = <<>> /\ DOMAIN answer = {}
    BY DEF SDInit
  <2>2. ToSet(answer) = {}
    BY <2>1 DEF ToSet
  <2>3. hostmap \in [PollIds -> Seq(HostmapEntry)]
    BY DEF SDInit
  <2> QED
    BY <2>1, <2>2, <2>3 DEF SDInit, HistoryInit, TypeOK
<1>2. HistoryOK
  BY FS_EmptySet DEF SDInit, HistoryInit, HistoryOK
<1>3. ShownOK /\ OneTargetPerAddress /\ AnswersNeverGoBack
  BY DEF SDInit, ShownOK, OneTargetPerAddress, AnswersNeverGoBack, ToSet
<1> QED
  BY <1>1, <1>2, <1>3 DEF IInv

\* An empty answer, as after every step of the history, shows nothing.
LEMMA EmptyAnswer ==
    ASSUME answer' = <<>>
    PROVE  /\ DOMAIN answer' \subseteq Nat \ {0} /\ ToSet(answer') \subseteq Group
           /\ OneTargetPerAddress' /\ AnswersNeverGoBack'
<1>1. DOMAIN answer' = {}
  OBVIOUS
<1>2. ToSet(answer') = {}
  BY <1>1 DEF ToSet
<1> QED
  BY <1>1, <1>2 DEF OneTargetPerAddress, AnswersNeverGoBack

LEMMA ServeStep == IInv /\ Serve => IInv'
<1> SUFFICES ASSUME IInv, Serve PROVE IInv'
  OBVIOUS
<1> USE DEF IInv
<1>1. PICK peers \in ListPresentHostmapPeers : answer' = prometheusTargetGroups(peers)
  BY DEF Serve
<1>2. UNCHANGED <<now, pollRuns, entries, hostmap>>
  BY DEF Serve, historyVars
<1>3. /\ DOMAIN answer' \subseteq Nat \ {0} /\ ToSet(answer') \subseteq Group
      /\ \A i, j \in DOMAIN answer' : answer'[i].target = answer'[j].target => i = j
  <2> DEFINE groups == answer'
  <2>1. groups = prometheusTargetGroups(peers)
    BY <1>1
  <2>2. /\ DOMAIN groups \subseteq Nat \ {0} /\ ToSet(groups) \subseteq Group
        /\ \A i, j \in DOMAIN groups : groups[i].target = groups[j].target => i = j
    <3> HIDE DEF groups
    <3> QED
      BY <2>1, AnswerOfRows
  <2> QED
    BY <2>2
<1>4. shown' \in [Lighthouses -> Nat]
  <2>1. shown' = [l \in Lighthouses |-> shown'[l]]
    BY DEF Serve
  <2> QED
    BY <2>1, ShownGroups
<1>5. TypeOK'
  BY <1>2, <1>3, <1>4 DEF TypeOK
<1>6. HistoryOK'
  BY <1>2 DEF HistoryOK
<1>7. ShownOK'
  <2> SUFFICES ASSUME NEW l \in Lighthouses
               PROVE  \/ shown'[l] = 0
                      \/ \E r \in Successes(pollRuns, l) : r.result.startedAt >= shown'[l]
                      \/ Successes(pollRuns, l) = {} /\ Expired(shown'[l], now)
    BY <1>2 DEF ShownOK
  <2>1. CASE shown'[l] = shown[l]
    BY <2>1 DEF ShownOK
  <2>2. ASSUME NEW r \in latest_poll,
               r.result.lighthouse = l, r.result.startedAt = shown'[l]
        PROVE  \E s \in Successes(pollRuns, l) : s.result.startedAt >= shown'[l]
    <3>1. r \in Successes(pollRuns, l)
      BY <2>2 DEF latest_poll, Successes
    <3>2. shown'[l] \in Nat
      BY ShownGroups
    <3> QED
      BY <2>2, <3>1, <3>2
  <2> QED
    BY <2>1, <2>2, ShownGroups
<1>8. OneTargetPerAddress'
  BY <1>3 DEF OneTargetPerAddress
<1>9. AnswersNeverGoBack'
  BY ShownGroups DEF AnswersNeverGoBack
<1> QED
  BY <1>5, <1>6, <1>7, <1>8, <1>9

\* A poll that is saved has not expired, and brings its hostmap and its rows.
LEMMA SavePollResultStep == IInv /\ SavePollResult => IInv'
<1> SUFFICES ASSUME IInv, SavePollResult PROVE IInv'
  OBVIOUS
<1> USE DEF IInv
<1>1. PICK poll \in Polls, seen \in Hostmaps :
         Record(poll) /\ hostmap' = [hostmap EXCEPT ![poll.id] = seen]
  BY DEF SavePollResult
<1>2. UNCHANGED shown /\ answer' = <<>>
  BY DEF SavePollResult
<1>3. PICK id \in PollIds, l \in Lighthouses, t \in 0..now, success \in BOOLEAN :
         poll = [id |-> id, success |-> success,
                 result |-> [lighthouse |-> l, startedAt |-> t, success |-> success,
                             commandsAt |-> [c \in Commands |-> t],
                             fills |-> {"hostmap_entries"}]]
  BY <1>1 DEF Polls
<1>4. now \in Nat /\ now' = now
  BY <1>1 DEF TypeOK, Record
<1>5. /\ poll.id = id /\ poll.success = success /\ poll.result.lighthouse = l
      /\ poll.result.startedAt = t /\ poll.result.fills = {"hostmap_entries"}
      /\ t \in Nat /\ t <= now /\ id \in Nat
  <2>1. poll.result = [lighthouse |-> l, startedAt |-> t, success |-> success,
                       commandsAt |-> [c \in Commands |-> t],
                       fills |-> {"hostmap_entries"}]
    BY <1>3
  <2>2. poll.id = id /\ poll.success = success
    BY <1>3
  <2>3. /\ poll.result.lighthouse = l /\ poll.result.startedAt = t
        /\ poll.result.fills = {"hostmap_entries"}
    BY <2>1
  <2> QED
    BY <1>4, <2>2, <2>3
<1>6. poll \in PollRun
  <2>1. [c \in Commands |-> t] \in [Commands -> Nat]
    BY <1>5
  <2>2. {"hostmap_entries"} \in SUBSET NormalizedTables
    BY DEF NormalizedTables
  <2>3. poll.result \in Result
    BY <1>3, <1>5, <2>1, <2>2 DEF Result
  <2> QED
    BY <1>3, <1>5, <2>3 DEF PollRun
<1>7. /\ poll.id \notin Ids(pollRuns) /\ ~Expired(t, now)
      /\ pollRuns' = pollRuns \cup {poll}
      /\ entries' = entries \cup EntryRows(id, poll.result, {"hostmap_entries"})
  BY <1>1, <1>5 DEF Record
<1>8. EntryRows(id, poll.result, {"hostmap_entries"})
         = {[table |-> "hostmap_entries", run |-> id, observedAt |-> t]}
  BY <1>5 DEF EntryRows
<1>9. [table |-> "hostmap_entries", run |-> id, observedAt |-> t] \in EntryRow
  BY <1>5 DEF EntryRow, NormalizedTables
<1>10. hostmap \in [PollIds -> Seq(HostmapEntry)] /\ seen \in Seq(HostmapEntry)
  BY DEF TypeOK
<1>11. /\ hostmap' \in [PollIds -> Seq(HostmapEntry)]
       /\ hostmap'[id] = seen /\ \A j \in PollIds \ {id} : hostmap'[j] = hostmap[j]
  BY <1>1, <1>5, <1>10
<1>12. TypeOK'
  BY <1>2, <1>4, <1>6, <1>7, <1>8, <1>9, <1>11, EmptyAnswer DEF TypeOK
<1>13. HistoryOK'
  <2>1. IsFiniteSet(pollRuns')
    BY <1>7, FS_AddElement DEF HistoryOK
  <2>2. \A r \in pollRuns' : r.id \in PollIds /\ r.result.startedAt <= now'
    BY <1>4, <1>5, <1>7 DEF HistoryOK
  <2>3. \A r, s \in pollRuns' : r.id = s.id => r = s
    BY <1>7 DEF HistoryOK, Ids
  <2>4. \A j \in PollIds : hostmap'[j] = <<>> \/ hostmap'[j] \in Hostmaps
    BY <1>11 DEF HistoryOK
  <2>5. ASSUME NEW r \in pollRuns', ~Expired(r.result.startedAt, now')
        PROVE  \E x \in entries' : /\ x.run = r.id /\ x.table = "hostmap_entries"
                                   /\ x.observedAt = r.result.startedAt
    <3>1. CASE r = poll
      <4> DEFINE row == [table |-> "hostmap_entries", run |-> id, observedAt |-> t]
      <4>1. row \in entries' /\ row.run = id /\ row.table = "hostmap_entries" /\ row.observedAt = t
        BY <1>7, <1>8
      <4> HIDE DEF row
      <4> QED
        BY <1>5, <3>1, <4>1
    <3>2. CASE r \in pollRuns
      BY <1>4, <1>7, <2>5, <3>2 DEF HistoryOK
    <3> QED
      BY <1>7, <3>1, <3>2
  <2> QED
    BY <2>1, <2>2, <2>3, <2>4, <2>5 DEF HistoryOK
<1>14. ShownOK'
  <2> SUFFICES ASSUME NEW m \in Lighthouses
               PROVE  \/ shown[m] = 0
                      \/ \E r \in Successes(pollRuns', m) : r.result.startedAt >= shown[m]
                      \/ Successes(pollRuns', m) = {} /\ Expired(shown[m], now)
    BY <1>2, <1>4 DEF ShownOK
  <2>1. shown[m] \in Nat
    BY DEF TypeOK
  <2>2. Successes(pollRuns, m) \subseteq Successes(pollRuns', m)
    BY <1>7 DEF Successes
  <2>3. CASE Successes(pollRuns, m) = {} /\ Expired(shown[m], now)
    <3>1. CASE poll \in Successes(pollRuns', m)
      <4>1. t >= shown[m]
        BY <1>4, <1>5, <1>7, <2>1, <2>3 DEF Expired
      <4> QED
        BY <1>5, <3>1, <4>1
    <3>2. CASE poll \notin Successes(pollRuns', m)
      <4>1. Successes(pollRuns', m) = {}
        BY <1>7, <2>3, <3>2 DEF Successes
      <4> QED
        BY <2>3, <4>1
    <3> QED
      BY <3>1, <3>2
  <2> QED
    BY <2>2, <2>3 DEF ShownOK
<1> QED
  BY <1>2, <1>12, <1>13, <1>14, EmptyAnswer

\* What is expired stays expired as time passes.
LEMMA ExpiredLater ==
    ASSUME NEW t \in Nat, NEW u \in Nat, t <= u
    PROVE  \A at \in Nat : Expired(at, t) => Expired(at, u)
<1>1. Period \in Nat
  BY PeriodAssumption
<1> QED
  BY <1>1 DEF Expired

\* The clock and retention: only what has expired is forgotten, the oldest first.
LEMMA HistoryStepStep == IInv /\ HistoryStep => IInv'
<1> SUFFICES ASSUME IInv, HistoryStep PROVE IInv'
  OBVIOUS
<1> USE DEF IInv
<1>1. UNCHANGED shown /\ answer' = <<>>
  BY DEF HistoryStep
<1>2. hostmap' = [id \in PollIds |-> IF id \in Ids(pollRuns') THEN hostmap[id] ELSE <<>>]
  BY DEF HistoryStep
<1>3. now \in Nat /\ now' \in Nat /\ now <= now'
  BY DEF TypeOK, HistoryStep, TimePasses, ForgetRuns, ForgetEntries
<1>4. pollRuns' \subseteq pollRuns /\ entries' \subseteq entries
  BY DEF HistoryStep, TimePasses, ForgetRuns, ForgetEntries
<1>5. \A at \in Nat : Expired(at, now) => Expired(at, now')
  BY <1>3, ExpiredLater
<1>6. \A r \in pollRuns : r.id \in Nat /\ r.result.startedAt \in Nat
  BY DEF TypeOK, PollRun, Result
<1>7. hostmap' \in [PollIds -> Seq(HostmapEntry)]
  BY <1>2 DEF TypeOK
<1>8. TypeOK'
  BY <1>1, <1>3, <1>4, <1>7, EmptyAnswer DEF TypeOK
<1>9. HistoryOK'
  <2>1. IsFiniteSet(pollRuns')
    BY <1>4, FS_Subset DEF HistoryOK
  <2>2. \A r \in pollRuns' : r.id \in PollIds /\ r.result.startedAt <= now'
    BY <1>3, <1>4, <1>6 DEF HistoryOK
  <2>3. \A r, s \in pollRuns' : r.id = s.id => r = s
    BY <1>4 DEF HistoryOK
  <2>4. \A id \in PollIds : hostmap'[id] = <<>> \/ hostmap'[id] \in Hostmaps
    BY <1>2 DEF HistoryOK
  <2>5. ASSUME NEW r \in pollRuns', ~Expired(r.result.startedAt, now')
        PROVE  \E x \in entries' : /\ x.run = r.id /\ x.table = "hostmap_entries"
                                   /\ x.observedAt = r.result.startedAt
    <3>1. r \in pollRuns /\ ~Expired(r.result.startedAt, now)
      BY <1>4, <1>5, <1>6, <2>5
    <3>2. PICK x \in entries : /\ x.run = r.id /\ x.table = "hostmap_entries"
                               /\ x.observedAt = r.result.startedAt
      BY <3>1 DEF HistoryOK
    <3>3. CASE TimePasses
      BY <3>2, <3>3 DEF TimePasses
    <3>4. CASE ForgetRuns
      BY <3>2, <3>4, <2>5 DEF ForgetRuns, Ids
    <3>5. CASE ForgetEntries
      BY <3>1, <3>2, <3>5 DEF ForgetEntries
    <3> QED
      BY <3>2, <3>3, <3>4, <3>5 DEF HistoryStep
  <2> QED
    BY <2>1, <2>2, <2>3, <2>4, <2>5 DEF HistoryOK
<1>10. ShownOK'
  <2> SUFFICES ASSUME NEW l \in Lighthouses
               PROVE  \/ shown[l] = 0
                      \/ \E r \in Successes(pollRuns', l) : r.result.startedAt >= shown[l]
                      \/ Successes(pollRuns', l) = {} /\ Expired(shown[l], now')
    BY <1>1 DEF ShownOK
  <2>1. shown[l] \in Nat
    BY DEF TypeOK
  <2>2. CASE Successes(pollRuns, l) = {} /\ Expired(shown[l], now)
    <3>1. Successes(pollRuns', l) = {}
      BY <1>4, <2>2 DEF Successes
    <3> QED
      BY <1>5, <2>1, <2>2, <3>1
  <2>3. ASSUME NEW r \in Successes(pollRuns, l), r.result.startedAt >= shown[l]
        PROVE  \/ \E s \in Successes(pollRuns', l) : s.result.startedAt >= shown[l]
               \/ Successes(pollRuns', l) = {} /\ Expired(shown[l], now')
    <3>1. r \in pollRuns /\ r.success /\ r.result.lighthouse = l /\ r.result.startedAt \in Nat
      BY <1>6 DEF Successes
    <3>2. CASE r \in pollRuns'
      BY <2>3, <3>1, <3>2 DEF Successes
    <3>3. CASE r \notin pollRuns'
      <4>1. /\ Expired(r.result.startedAt, now)
            /\ \A kept \in pollRuns' : r.result.startedAt <= kept.result.startedAt
        BY <3>1, <3>3 DEF HistoryStep, TimePasses, ForgetRuns, ForgetEntries
      <4>2. Expired(shown[l], now')
        BY <1>3, <2>1, <2>3, <3>1, <4>1 DEF Expired
      <4>3. ASSUME NEW s \in Successes(pollRuns', l)
            PROVE  s.result.startedAt >= shown[l]
        <5>1. s \in pollRuns'
          BY DEF Successes
        <5> QED
          BY <1>4, <1>6, <2>1, <2>3, <3>1, <4>1, <5>1
      <4> QED
        BY <4>2, <4>3
    <3> QED
      BY <3>2, <3>3
  <2> QED
    BY <2>2, <2>3 DEF ShownOK
<1> QED
  BY <1>1, <1>8, <1>9, <1>10, EmptyAnswer

LEMMA NextStep == IInv /\ [SDNext]_sdVars => IInv'
<1>1. IInv /\ UNCHANGED sdVars => IInv'
  BY DEF sdVars, historyVars, IInv, TypeOK, HistoryOK, ShownOK, OneTargetPerAddress,
         AnswersNeverGoBack
<1> QED
  BY <1>1, ServeStep, SavePollResultStep, HistoryStepStep DEF SDNext

-----------------------------------------------------------------------------
(***************************************************************************)
(* Theorems                                                                *)
(***************************************************************************)
\* The inductive invariant: polls and hostmaps fit together, and of what has
\* been shown something as new is left, or it has expired.
THEOREM Invariance == SDSpec => []IInv
<1> QED
  BY InitIInv, NextStep, PTL DEF SDSpec

\* Every variable has its type; every target has an address and a name.
THEOREM TypeCorrect == SDSpec => []TypeOK
<1>1. IInv => TypeOK
  BY DEF IInv
<1> QED
  BY Invariance, <1>1, PTL

\* prometheusTargetGroups lists no address twice, however many peers and
\* lighthouses share it.
THEOREM ScrapedOnce == SDSpec => []OneTargetPerAddress
<1>1. IInv => OneTargetPerAddress
  BY DEF IInv
<1> QED
  BY Invariance, <1>1, PTL

\* No answer shows a lighthouse as it was before what an earlier one showed,
\* whatever is saved late or deleted in between.
THEOREM NeverBackInTime == SDSpec => []AnswersNeverGoBack
<1>1. IInv => AnswersNeverGoBack
  BY DEF IInv
<1> QED
  BY Invariance, <1>1, PTL

\* Whatever is answered is in the newest successful poll of a lighthouse, or is
\* a configured lighthouse at an address where no peer is present.
LEMMA ServeSound == IInv /\ Serve => Sound
<1> SUFFICES ASSUME IInv, Serve PROVE Sound
  OBVIOUS
<1> USE DEF IInv
<1>1. PICK peers \in ListPresentHostmapPeers : answer' = prometheusTargetGroups(peers)
  BY DEF Serve
<1>2. \A g \in ToSet(answer') :
         \/ \E x \in FirstOfEachPeer : g = PeerGroup(x)
         \/ \E k \in DOMAIN Targets :
               /\ g = LighthouseGroup(Targets[k])
               /\ \A x \in FirstOfEachPeer : x.entry.addr # g.target
  <2> DEFINE groups == answer'
  <2>1. groups = prometheusTargetGroups(peers)
    BY <1>1
  <2>2. \A g \in ToSet(groups) :
           \/ \E x \in FirstOfEachPeer : g = PeerGroup(x)
           \/ \E k \in DOMAIN Targets :
                 /\ g = LighthouseGroup(Targets[k])
                 /\ \A x \in FirstOfEachPeer : x.entry.addr # g.target
    <3> HIDE DEF groups
    <3> QED
      BY <2>1, AnswerOfRows
  <2> QED
    BY <2>2
<1>3. ASSUME NEW g \in ToSet(answer'), NEW x \in FirstOfEachPeer, g = PeerGroup(x)
      PROVE  /\ g.source = "present_peer"
             /\ \E r \in pollRuns :
                   Newest(r) /\ r.result.lighthouse = g.observedBy /\ Seen(r, g.target)
  <2>1. g.source = "present_peer" /\ g.target = x.entry.addr /\ g.observedBy = x.lighthouse
    BY <1>3, GroupTypes
  <2>2. PICK r \in latest_poll : \E k \in DOMAIN hostmap[r.id] :
           r.result.lighthouse = x.lighthouse /\ x.entry = hostmap[r.id][k]
    BY RowOfLatest
  <2>3. Seen(r, g.target)
    BY <2>1, <2>2 DEF Seen
  <2> QED
    BY <2>1, <2>2, <2>3, LatestIsNewest
<1>4. ASSUME NEW g \in ToSet(answer'), NEW k \in DOMAIN Targets,
             g = LighthouseGroup(Targets[k])
      PROVE  g.source = "configured_lighthouse" /\ HostOf[Targets[k]] = g.target
  <2>1. Targets[k] \in Lighthouses
    OBVIOUS
  <2> QED
    BY <1>4, <2>1, GroupTypes
<1> QED
  BY <1>2, <1>3, <1>4 DEF Sound

THEOREM NothingElseListed == SDSpec => OnlyPresentPeersListed
<1>1. IInv /\ [SDNext]_sdVars => [Serve => Sound]_sdVars
  BY ServeSound
<1> QED
  BY Invariance, <1>1, PTL DEF SDSpec, OnlyPresentPeersListed

\* Every configured lighthouse is listed, and every address in the newest
\* unexpired poll of a lighthouse, unless its peer has moved to one that is.
LEMMA ServeComplete == IInv /\ Serve => Complete
<1> SUFFICES ASSUME IInv, Serve PROVE Complete
  OBVIOUS
<1> USE DEF IInv
<1>1. PICK peers \in ListPresentHostmapPeers : answer' = prometheusTargetGroups(peers)
  BY DEF Serve
<1>2. /\ \A x \in FirstOfEachPeer : Listed(x.entry.addr)
      /\ \A k \in DOMAIN Targets : Listed(HostOf[Targets[k]])
  <2> DEFINE groups == answer'
  <2>1. groups = prometheusTargetGroups(peers)
    BY <1>1
  <2>2. /\ \A x \in FirstOfEachPeer : \E g \in ToSet(groups) : g.target = x.entry.addr
        /\ \A k \in DOMAIN Targets : \E g \in ToSet(groups) : g.target = HostOf[Targets[k]]
    <3> HIDE DEF groups
    <3> QED
      BY <2>1, AnswerOfRows
  <2> QED
    BY <2>2 DEF Listed
<1>3. ASSUME NEW r \in pollRuns, Newest(r), ~Expired(r.result.startedAt, now),
             \A s \in pollRuns \ {r} :
                Newest(s) => s.result.lighthouse # r.result.lighthouse,
             NEW k \in DOMAIN hostmap[r.id], hostmap[r.id][k].addr # Null
      PROVE  LET e == hostmap[r.id][k] IN
             \/ Listed(e.addr)
             \/ /\ e.fingerprint # Null
                /\ \E s \in pollRuns :
                      /\ Newest(s) /\ s.result.startedAt >= r.result.startedAt
                      /\ \E j \in DOMAIN hostmap[s.id] :
                            /\ hostmap[s.id][j].fingerprint = e.fingerprint
                            /\ Listed(hostmap[s.id][j].addr)
  <2> DEFINE e == hostmap[r.id][k]
  <2>1. r \in latest_poll
    <3>1. \A s \in pollRuns : s.result.startedAt \in Nat /\ s.id \in Nat
      BY DEF TypeOK, PollRun, Result
    <3>2. ASSUME NEW s \in Successes(pollRuns, r.result.lighthouse)
          PROVE  \/ s.result.startedAt < r.result.startedAt
                 \/ s.result.startedAt = r.result.startedAt /\ s.id <= r.id
      <4>1. s \in pollRuns /\ s.success /\ s.result.lighthouse = r.result.lighthouse
        BY DEF Successes
      <4>2. s.result.startedAt <= r.result.startedAt
        BY <1>3 DEF Newest
      <4>3. CASE s.result.startedAt = r.result.startedAt
        <5>1. Newest(s)
          BY <1>3, <4>1, <4>3 DEF Newest
        <5>2. s = r
          BY <1>3, <4>1, <5>1
        <5> QED
          BY <3>1, <4>3, <5>2
      <4> QED
        BY <3>1, <4>1, <4>2, <4>3
    <3> QED
      BY <1>3, <3>2 DEF latest_poll, Newest
  <2>2. \E x \in entries : x.run = r.id /\ x.table = "hostmap_entries"
    BY <1>3 DEF HistoryOK
  <2>3. RowOf(r, k) \in Ranked
    BY <1>3, <2>1, <2>2, EntryRanked
  <2>4. RowOf(r, k).key = peer_key(e) /\ RowOf(r, k).observedAt = r.result.startedAt
    BY DEF RowOf
  <2>5. PICK x \in FirstOfEachPeer :
           x.key = peer_key(e) /\ x.observedAt >= r.result.startedAt
    BY <2>3, <2>4, FirstRowExists
  <2>6. PICK s \in latest_poll : \E j \in DOMAIN hostmap[s.id] :
           /\ s.result.lighthouse = x.lighthouse /\ s.result.startedAt = x.observedAt
           /\ x = RowOf(s, j) /\ x.entry = hostmap[s.id][j] /\ x.entry.addr # Null
    BY RowOfLatest
  <2>7. PICK j \in DOMAIN hostmap[s.id] :
           /\ s.result.lighthouse = x.lighthouse /\ s.result.startedAt = x.observedAt
           /\ x = RowOf(s, j) /\ x.entry = hostmap[s.id][j] /\ x.entry.addr # Null
    BY <2>6
  <2> DEFINE f == hostmap[s.id][j]
  <2>8. peer_key(f) = peer_key(e)
    BY <2>5, <2>7 DEF RowOf
  <2>9. s \in pollRuns /\ Newest(s) /\ s.result.startedAt >= r.result.startedAt
    BY <2>5, <2>7, LatestIsNewest
  <2>10. Listed(f.addr)
    BY <1>2, <2>7
  <2>11. /\ e.fingerprint # Null => e.fingerprint # f.addr
         /\ f.fingerprint # Null => f.fingerprint # e.addr
    <3>1. hostmap[r.id] \in Hostmaps /\ hostmap[s.id] \in Hostmaps
      BY <2>7, <2>9, EntryTypes
    <3> QED
      BY <3>1
  <2>12. CASE e.fingerprint = Null
    <3>1. f.addr = e.addr
      BY <2>8, <2>11, <2>12 DEF peer_key, Coalesce
    <3> QED
      BY <2>10, <3>1
  <2>13. CASE e.fingerprint # Null
    <3>1. f.fingerprint = e.fingerprint
      BY <2>8, <2>11, <2>13 DEF peer_key, Coalesce
    <3> QED
      BY <2>9, <2>10, <2>13, <3>1
  <2> QED
    BY <2>12, <2>13
<1> QED
  BY <1>2, <1>3 DEF Complete

THEOREM NobodyLeftOut == SDSpec => PresentPeersListed
<1>1. IInv /\ [SDNext]_sdVars => [Serve => Complete]_sdVars
  BY ServeComplete
<1> QED
  BY Invariance, <1>1, PTL DEF SDSpec, PresentPeersListed

=============================================================================
