--------------------------- MODULE TopologyProofs ---------------------------
(***************************************************************************)
(* Proofs about Topology, for any registry, any number of members, anchors,*)
(* exits and providers and any documents and answers of those that lie: the*)
(* node list is what the registry vouches for, members that stay are never *)
(* removed, late answers change nothing, and every call can be routed.     *)
(***************************************************************************)
EXTENDS Topology, FiniteSetTheorems, SequenceTheorems, WellFoundedInduction, TLAPS

\* Where a member was registered up to now.
Locations(m) == {Chain[b][m].url : b \in PinnedBlock..block}

\* A document an honest anchor may have served by now.
TrueDoc(d) ==
  /\ d.block \in PinnedBlock..block /\ Steady \subseteq d.online
  /\ d.lists = [m \in DOMAIN Chain[d.block] |->
                  [key |-> Chain[d.block][m].key, url |-> Chain[d.block][m].url]]
Vouched(d) == d.anchor \in Faulty \/ TrueDoc(d)

DocsOf(a, b) ==
  {DocAt(a, b, up) : up \in {Members, Steady \cup {a}}} \cup (IF a \in Faulty THEN Forged(a, b) ELSE {})
DocsAt(b) == UNION {DocsOf(a, b) : a \in Members}
AllDocs   == UNION {DocsAt(b) : b \in PinnedBlock..Len(Chain)}

ServedOK == \A d \in lastServed : Vouched(d)

\* What a refresh fetched, and what the boot gathered.
RefreshOK ==
  refresh.at # "idle" =>
    DOMAIN refresh = {"at", "anchors", "served"} /\ \A d \in refresh.served : Vouched(d)

BootSourcesOK(b) ==
  /\ DOMAIN b = {"left", "running", "sources", "staggered", "waiting"}
  /\ b.sources \in Seq(AllDocs) /\ \A i \in DOMAIN b.sources : Vouched(b.sources[i])

BootOK == BootSourcesOK(boot)

\* The membership: eligible members of the verified registry under their keys, the
\* others from the snapshot; nodes are members.
BaseVerified(members, registry) ==
  \A m \in DOMAIN members :
    IF m \in DOMAIN registry /\ registry[m].ok
      THEN members[m].key = registry[m].key
      ELSE m \in EligiblePinned /\ members[m].key = Pinned[m].key

\* Steady members are in it, where they were registered.
BaseSteady(members) ==
  /\ DOMAIN members \subseteq Members
  /\ \A m \in Steady : m \in DOMAIN members /\ members[m].key = Pinned[m].key
                         /\ members[m].url \in Locations(m)

WorkSteady(work) == \A m \in Steady : m \in DOMAIN work /\ work[m] \in Locations(m)

BlocksOK ==
  /\ block \in PinnedBlock..Len(Chain)
  /\ verified.block = 0 \/ verified.block \in PinnedBlock..block

MembersOK ==
  /\ BaseVerified(base, verified.registry) /\ BaseSteady(base)
  /\ DOMAIN working \subseteq DOMAIN base /\ WorkSteady(working)

\* A chain check reads a block that is not before the membership's, and one of its
\* pairs tells the truth.
CheckOK ==
  /\ check.at # "idle" =>
       /\ DOMAIN check = {"at", "attempt", "exits", "core", "candidates", "minBlock", "pairs",
                          "block", "read", "scanned"}
       /\ check.minBlock = MembershipBlock(verified) /\ check.exits \subseteq Exiting
  /\ check.at \in {"read", "logs"} =>
       /\ check.block \in PinnedBlock..block /\ check.block >= check.minBlock
       /\ \E x \in check.pairs : ~Lies(x)

\* The inductive invariant.
TopoInv == BlocksOK /\ MembersOK /\ ServedOK /\ BootOK /\ RefreshOK /\ CheckOK

-----------------------------------------------------------------------------
(* Induction over natural numbers, for a set of them                       *)

LEMMA LeastNatural ==
  ASSUME NEW T \in SUBSET Nat, T # {}
  PROVE  \E x \in T : \A y \in T : x <= y
<1>1. IsWellFoundedOn(OpToRel(<, Nat), Nat)
  BY NatLessThanWellFounded
<1>2. PICK x \in T : \A y \in T : ~(<<y, x>> \in OpToRel(<, Nat))
  BY <1>1, WFMin
<1>3. \A y \in T : ~(y < x)
  BY <1>2 DEF OpToRel
<1> QED
  BY <1>3

LEMMA NatSetInduction ==
  ASSUME NEW S \in SUBSET Nat, 0 \in S, \A n \in S : n + 1 \in S
  PROVE  S = Nat
<1> SUFFICES ASSUME Nat \ S # {}
             PROVE  FALSE
  OBVIOUS
<1>1. PICK x \in Nat \ S : \A y \in Nat \ S : x <= y
  BY LeastNatural
<1>2. x # 0 /\ x - 1 \in Nat
  BY <1>1
<1>3. x - 1 \in S
  BY <1>1, <1>2
<1> QED
  BY <1>1, <1>3

-----------------------------------------------------------------------------
(* The removal floor                                                       *)

\* What the floor passes may do to the members of a registry read: add members of
\* the snapshot, and nothing else.
FloorKept(members, read) ==
  /\ DOMAIN read \subseteq DOMAIN members /\ \A m \in DOMAIN read : members[m] = read[m]
  /\ \A m \in DOMAIN members \ DOMAIN read :
       m \in EligiblePinned /\ members[m] = Record(Pinned[m], TRUE, FALSE)

LEMMA KeepByFloorKeeps ==
  ASSUME NEW members, NEW read, NEW layer, NEW m, FloorKept(members, read)
  PROVE  FloorKept(KeepByFloor(members, layer, m), read)
<1> DEFINE more == [n \in DOMAIN members \cup {m} |-> IF n = m THEN Record(Pinned[m], TRUE, FALSE) ELSE members[n]]
<1>1. KeepByFloor(members, layer, m) = members
      \/ (KeepByFloor(members, layer, m) = more /\ m \in EligiblePinned /\ m \notin DOMAIN members)
  BY DEF KeepByFloor
<1>2. DOMAIN more = DOMAIN members \cup {m}
  OBVIOUS
<1>3. m \notin DOMAIN members => \A n \in DOMAIN members : more[n] = members[n]
  OBVIOUS
<1>4. more[m] = Record(Pinned[m], TRUE, FALSE)
  OBVIOUS
<1> HIDE DEF more
<1> QED
  BY <1>1, <1>2, <1>3, <1>4 DEF FloorKept

LEMMA FloorRounds ==
  ASSUME NEW start, NEW layer, NEW rounds \in Nat
  PROVE  \E f : f = [n \in 0..rounds |->
                     IF n = 0 THEN start ELSE KeepByFloor(f[n - 1], layer, PinnedOrder[n])]
<1> DEFINE S == {k \in Nat : \E f : f = [n \in 0..k |->
                     IF n = 0 THEN start ELSE KeepByFloor(f[n - 1], layer, PinnedOrder[n])]}
<1>1. 0 \in S
  <2> DEFINE g == [n \in 0..0 |-> start]
  <2>1. g = [n \in 0..0 |-> IF n = 0 THEN start ELSE KeepByFloor(g[n - 1], layer, PinnedOrder[n])]
    OBVIOUS
  <2> HIDE DEF g
  <2> QED
    BY <2>1
<1>2. ASSUME NEW k \in S
      PROVE  k + 1 \in S
  <2>1. PICK g : g = [n \in 0..k |->
                       IF n = 0 THEN start ELSE KeepByFloor(g[n - 1], layer, PinnedOrder[n])]
    OBVIOUS
  <2> DEFINE h == [n \in 0..k + 1 |->
                     IF n = k + 1 THEN KeepByFloor(g[k], layer, PinnedOrder[k + 1]) ELSE g[n]]
  <2>2. ASSUME NEW n \in 0..k + 1
        PROVE  h[n] = IF n = 0 THEN start ELSE KeepByFloor(h[n - 1], layer, PinnedOrder[n])
    <3>1. CASE n = 0
      BY <3>1, <2>1
    <3>2. CASE n \in 1..k
      BY <3>2, <2>1
    <3>3. CASE n = k + 1
      BY <3>3, <2>1
    <3> QED
      BY <3>1, <3>2, <3>3
  <2>3. h = [n \in 0..k + 1 |->
               IF n = 0 THEN start ELSE KeepByFloor(h[n - 1], layer, PinnedOrder[n])]
    BY <2>2
  <2> HIDE DEF h
  <2> QED
    BY <2>3
<1>3. S \in SUBSET Nat
  OBVIOUS
<1> HIDE DEF S
<1>4. S = Nat
  BY <1>1, <1>2, <1>3, NatSetInduction
<1> QED
  BY <1>4 DEF S

LEMMA FloorPassKeeps ==
  ASSUME NEW members, NEW read, NEW layer, FloorKept(members, read)
  PROVE  FloorKept(FloorPass(members, layer), read)
<1> DEFINE rounds == Len(PinnedOrder)
           f == CHOOSE g : g = [n \in 0..rounds |->
                  IF n = 0 THEN members ELSE KeepByFloor(g[n - 1], layer, PinnedOrder[n])]
<1>1. rounds \in Nat
  BY ChainAssumption
<1>2. f = [n \in 0..rounds |->
             IF n = 0 THEN members ELSE KeepByFloor(f[n - 1], layer, PinnedOrder[n])]
  BY <1>1, FloorRounds, SMTT(30)
<1>3. FloorPass(members, layer) = f[rounds]
  BY DEF FloorPass
<1> HIDE DEF f, rounds
<1> DEFINE S == {n \in Nat : n \in 0..rounds => FloorKept(f[n], read)}
<1>4. 0 \in S
  BY <1>1, <1>2
<1>5. ASSUME NEW n \in S
      PROVE  n + 1 \in S
  <2> SUFFICES ASSUME n + 1 \in 0..rounds
               PROVE  FloorKept(f[n + 1], read)
    OBVIOUS
  <2>1. n \in 0..rounds /\ (n + 1) - 1 = n /\ n + 1 # 0
    BY <1>1
  <2>2. f[n + 1] = KeepByFloor(f[n], layer, PinnedOrder[n + 1])
    BY <1>2, <2>1
  <2> QED
    BY <2>1, <2>2, KeepByFloorKeeps
<1>6. S \in SUBSET Nat
  OBVIOUS
<1> HIDE DEF S
<1>7. S = Nat
  BY <1>4, <1>5, <1>6, NatSetInduction
<1> QED
  BY <1>1, <1>3, <1>7 DEF S

LEMMA MembershipKept ==
  ASSUME NEW registry, NEW seen, NEW now
  PROVE  FloorKept(MembershipFromChain(registry, seen, now), EligibleRecords(registry, seen, now))
<1>1. FloorKept(EligibleRecords(registry, seen, now), EligibleRecords(registry, seen, now))
  BY DEF FloorKept
<1> QED
  BY <1>1, FloorPassKeeps DEF MembershipFromChain

-----------------------------------------------------------------------------
(* Served documents                                                        *)

\* Among documents of as many anchors as a removal needs, one is true.
LEMMA OneTrueDoc ==
  ASSUME NEW docs, \A d \in docs : d.anchor \in Members /\ Vouched(d),
         Cardinality(AnchorsOf(docs)) >= MinSources
  PROVE  \E d \in docs : TrueDoc(d)
<1> SUFFICES ASSUME \A d \in docs : d.anchor \in Faulty
             PROVE  FALSE
  BY DEF Vouched
<1>1. IsFiniteSet(Faulty \cap Members)
  BY FaultAssumption, FS_Intersection
<1>2. AnchorsOf(docs) \in SUBSET (Faulty \cap Members)
  BY DEF AnchorsOf
<1>3. /\ Cardinality(AnchorsOf(docs)) <= Cardinality(Faulty \cap Members)
      /\ IsFiniteSet(AnchorsOf(docs))
  BY <1>1, <1>2, FS_Subset
<1>4. Cardinality(AnchorsOf(docs)) \in Nat /\ Cardinality(Faulty \cap Members) \in Nat
  BY <1>1, <1>3, FS_CardinalityType
<1> QED
  BY <1>3, <1>4, FaultAssumption

\* What a true document says of a steady member.
LEMMA TrueDocSteady ==
  ASSUME BlocksOK, NEW d, TrueDoc(d), NEW m \in Steady, NEW record, record.key = Pinned[m].key
  PROVE  HasIdentity(d, m, record) /\ m \in d.online /\ d.lists[m].url \in Locations(m)
<1>1. d.block \in PinnedBlock..block /\ d.block \in PinnedBlock..Len(Chain) /\ m \in d.online
  BY ChainAssumption DEF TrueDoc, BlocksOK
<1>2. m \in DOMAIN Chain[d.block] /\ Chain[d.block][m].key = Pinned[m].key
  BY <1>1, SteadyAssumption
<1>3. /\ m \in DOMAIN d.lists /\ d.lists[m].key = Chain[d.block][m].key
      /\ d.lists[m].url = Chain[d.block][m].url
  BY <1>2 DEF TrueDoc
<1> QED
  BY <1>1, <1>2, <1>3 DEF HasIdentity, Locations

\* Anchors that move a steady member move it where it was registered.
LEMMA AgreedUrlTrue ==
  ASSUME BlocksOK, NEW m \in Steady, NEW record, record.key = Pinned[m].key,
         record.url \in Locations(m), NEW b,
         NEW docs, \A d \in docs : d.anchor \in Members /\ Vouched(d)
  PROVE  AgreedUrl(m, record, docs, b) \in Locations(m)
<1> DEFINE newer  == {d \in Present(m, record, docs) : d.block > b}
           other  == {d.lists[m].url : d \in newer} \ {record.url}
           agreed == {u \in other : Cardinality(AnchorsOf({d \in newer : d.lists[m].url = u}))
                                       >= MinSources}
<1>1. ASSUME NEW u \in agreed
      PROVE  u \in Locations(m)
  <2> DEFINE same == {d \in newer : d.lists[m].url = u}
  <2>1. Cardinality(AnchorsOf(same)) >= MinSources
    OBVIOUS
  <2>2. \A d \in same : d \in docs /\ d.lists[m].url = u
    BY DEF Present
  <2> HIDE DEF same
  <2>3. PICK d \in same : TrueDoc(d)
    BY <2>1, <2>2, OneTrueDoc
  <2> QED
    BY <2>2, <2>3, TrueDocSteady
<1>2. AgreedUrl(m, record, docs, b) = IF Cardinality(agreed) = 1 THEN CHOOSE u \in agreed : TRUE ELSE record.url
  BY DEF AgreedUrl
<1> HIDE DEF agreed
<1>3. CASE Cardinality(agreed) = 1
  <2>1. agreed # {}
    BY <1>3, FS_EmptySet
  <2>2. (CHOOSE u \in agreed : TRUE) \in agreed
    BY <2>1
  <2> QED
    BY <1>1, <1>2, <1>3, <2>2
<1>4. CASE Cardinality(agreed) # 1
  BY <1>2, <1>4
<1> QED
  BY <1>3, <1>4

\* applyServedTopologies never adds a member, never removes a steady one, and keeps
\* it where it was registered.
LEMMA ApplyServedSteady ==
  ASSUME BlocksOK, NEW members, BaseSteady(members), NEW b, NEW entries, NEW previous,
         NEW served, \A d \in served : Vouched(d)
  PROVE  /\ DOMAIN ApplyServed(members, b, entries, served, previous).members \subseteq DOMAIN members
         /\ WorkSteady(ApplyServed(members, b, entries, served, previous).members)
         /\ ApplyServed(members, b, entries, served, previous).accepted \subseteq served
<1> DEFINE docs     == Accepted(members, served)
           listed   == Listed(members, docs, b)
           online   == ReportedOnline(members, docs, b)
           layer(l) == {m \in DOMAIN members : InLayer(m, l, m \in entries)}
           serving  == {l \in RouteLayers : layer(l) # {}}
           floor(l) == IF MinPerLayer < Cardinality(layer(l)) THEN MinPerLayer ELSE Cardinality(layer(l))
           short    == {l \in serving : Cardinality(layer(l) \cap online) < floor(l)}
           kept     == online \cup UNION {Restored(layer(l), online, listed, previous) : l \in short}
           quorum   == Cardinality(AnchorsOf(docs)) >= MinSources
           result   == ApplyServed(members, b, entries, served, previous)
<1>1. /\ result.accepted = docs
      /\ result.members = IF quorum THEN [m \in kept |-> AgreedUrl(m, members[m], docs, b)]
                                    ELSE [m \in DOMAIN members |-> members[m].url]
  BY DEF ApplyServed
<1>2. docs \subseteq served /\ \A d \in docs : d.anchor \in Members /\ Vouched(d)
  BY DEF Accepted, BaseSteady
<1>3. kept \subseteq DOMAIN members
  <2>1. online \subseteq DOMAIN members
    BY DEF ReportedOnline
  <2>2. \A l : Restored(layer(l), online, listed, previous) \subseteq DOMAIN members
    BY DEF Restored
  <2> QED
    BY <2>1, <2>2
<1>4. ASSUME quorum, NEW m \in Steady
      PROVE  m \in kept /\ AgreedUrl(m, members[m], docs, b) \in Locations(m)
  <2>1. m \in DOMAIN members /\ members[m].key = Pinned[m].key /\ members[m].url \in Locations(m)
    BY DEF BaseSteady
  <2>2. PICK d \in docs : TrueDoc(d)
    BY <1>2, <1>4, OneTrueDoc
  <2>3. HasIdentity(d, m, members[m]) /\ m \in d.online
    BY <2>1, <2>2, TrueDocSteady
  <2>4. m \in online
    BY <2>1, <2>2, <2>3 DEF ReportedOnline, Present
  <2>5. AgreedUrl(m, members[m], docs, b) \in Locations(m)
    BY <1>2, <2>1, AgreedUrlTrue
  <2> QED
    BY <2>4, <2>5
<1> HIDE DEF docs, kept, quorum, result
<1>5. CASE quorum
  BY <1>1, <1>2, <1>3, <1>4, <1>5 DEF WorkSteady, result
<1>6. CASE ~quorum
  BY <1>1, <1>2, <1>6 DEF WorkSteady, BaseSteady, result
<1> QED
  BY <1>5, <1>6

-----------------------------------------------------------------------------
(* Pairs of an exit and a provider                                         *)

\* orderPreferred returns every item once.
LEMMA OrdersInjective ==
  ASSUME NEW items, IsFiniteSet(items), NEW e \in Orders(items)
  PROVE  /\ \A i \in 1..Cardinality(items) : e[i] \in items
         /\ \A i, j \in 1..Cardinality(items) : e[i] = e[j] => i = j
<1> DEFINE good == items \ avoid
           bad  == items \cap avoid
<1>1. IsFiniteSet(good) /\ IsFiniteSet(bad) /\ Cardinality(good) = Cardinality(items) - Cardinality(bad)
  BY FS_Difference, FS_Intersection
<1>2. Cardinality(good) \in Nat /\ Cardinality(bad) \in Nat /\ Cardinality(items) \in Nat
  BY <1>1, FS_CardinalityType
<1>3. PICK first \in SetToSeqs(good), last \in SetToSeqs(bad) : e = first \o last
  BY DEF Orders
<1>4. /\ first \in [1..Cardinality(good) -> good]
      /\ \A i, j \in 1..Cardinality(good) : i # j => first[i] # first[j]
  BY DEF SetToSeqs
<1>5. /\ last \in [1..Cardinality(bad) -> bad]
      /\ \A i, j \in 1..Cardinality(bad) : i # j => last[i] # last[j]
  BY DEF SetToSeqs
<1>6. good \subseteq items /\ bad \subseteq items /\ \A x \in good, y \in bad : x # y
  OBVIOUS
<1> HIDE DEF good, bad
<1>7. first \in Seq(items) /\ last \in Seq(items) /\ Len(first) = Cardinality(good) /\ Len(last) = Cardinality(bad)
  BY <1>2, <1>4, <1>5, <1>6
<1>8. \A i \in 1..Cardinality(items) :
        e[i] = IF i <= Cardinality(good) THEN first[i] ELSE last[i - Cardinality(good)]
  <2>1. Len(first) + Len(last) = Cardinality(items)
    BY <1>1, <1>2, <1>7
  <2>2. \A i \in 1..Len(first) + Len(last) :
          (first \o last)[i] = IF i <= Len(first) THEN first[i] ELSE last[i - Len(first)]
    BY <1>7, ConcatProperties
  <2> QED
    BY <1>3, <1>7, <2>1, <2>2
<1>9. \A i \in 1..Cardinality(items) :
        IF i <= Cardinality(good) THEN i \in 1..Cardinality(good)
                                  ELSE i - Cardinality(good) \in 1..Cardinality(bad)
  BY <1>1, <1>2
<1>10. ASSUME NEW i \in 1..Cardinality(items)
       PROVE  IF i <= Cardinality(good) THEN e[i] \in good ELSE e[i] \in bad
  BY <1>4, <1>5, <1>8, <1>9
<1>11. ASSUME NEW i \in 1..Cardinality(items), NEW j \in 1..Cardinality(items), e[i] = e[j]
       PROVE  i = j
  <2>1. CASE i <= Cardinality(good) /\ j <= Cardinality(good)
    BY <1>4, <1>8, <1>9, <1>11, <2>1
  <2>2. CASE ~(i <= Cardinality(good)) /\ ~(j <= Cardinality(good))
    <3>1. last[i - Cardinality(good)] = last[j - Cardinality(good)]
      BY <1>8, <1>11, <2>2
    <3>2. i - Cardinality(good) = j - Cardinality(good)
      BY <1>5, <1>9, <2>2, <3>1
    <3> QED
      BY <1>2, <3>2
  <2>3. CASE (i <= Cardinality(good)) # (j <= Cardinality(good))
    BY <1>6, <1>10, <1>11, <2>3
  <2> QED
    BY <2>1, <2>2, <2>3
<1> QED
  BY <1>6, <1>10, <1>11

\* Different exits and different providers: fewer liars than pairs leave a pair that
\* tells the truth.
LEMMA PairingsHonest ==
  ASSUME check.exits \subseteq Exiting, NEW p \in Pairings
  PROVE  \E x \in Range(p) : ~Lies(x)
<1> SUFFICES ASSUME \A x \in Range(p) : Lies(x)
             PROVE  FALSE
  OBVIOUS
<1>1. /\ ~(Cardinality(check.exits) < Quorum) /\ ~(Cardinality(Providers) < Quorum)
      /\ \E e \in Orders(check.exits), q \in Orders(Providers) : p = [i \in 1..Quorum |-> <<e[i], q[i]>>]
  BY DEF Pairings
<1>2. PICK e \in Orders(check.exits), q \in Orders(Providers) : p = [i \in 1..Quorum |-> <<e[i], q[i]>>]
  BY <1>1
<1>3. IsFiniteSet(check.exits) /\ IsFiniteSet(Providers) /\ Exiting \subseteq Members
  BY ChainAssumption, FS_Subset DEF Exiting
<1>4. 1..Quorum \subseteq 1..Cardinality(check.exits) /\ 1..Quorum \subseteq 1..Cardinality(Providers)
  BY <1>1, <1>3, FS_CardinalityType, FaultAssumption
<1>5. /\ \A i \in 1..Quorum : e[i] \in Exiting /\ q[i] \in Providers
      /\ \A i, j \in 1..Quorum : e[i] = e[j] => i = j
      /\ \A i, j \in 1..Quorum : q[i] = q[j] => i = j
  BY <1>3, <1>4, OrdersInjective
<1>6. \A i \in 1..Quorum : e[i] \in Faulty \/ q[i] \in Faulty
  <2> SUFFICES ASSUME NEW i \in 1..Quorum
               PROVE  e[i] \in Faulty \/ q[i] \in Faulty
    OBVIOUS
  <2>1. p[i] = <<e[i], q[i]>> /\ p[i] \in Range(p)
    BY <1>2 DEF Range
  <2> QED
    BY <2>1 DEF Lies
<1> DEFINE liars == Faulty \cap (Exiting \cup Providers)
           g     == [i \in 1..Quorum |-> IF e[i] \in Faulty THEN e[i] ELSE q[i]]
<1>7. g \in [1..Quorum -> liars]
  BY <1>5, <1>6
<1>8. \A i, j \in 1..Quorum : g[i] = g[j] => i = j
  BY <1>3, <1>5, ChainAssumption
<1>9. g \in Injection(1..Quorum, liars)
  BY <1>7, <1>8 DEF Injection, IsInjective
<1>10. IsFiniteSet(liars)
  BY FaultAssumption, FS_Intersection
<1> HIDE DEF g
<1>11. Cardinality(1..Quorum) <= Cardinality(liars)
  BY <1>9, <1>10, FS_Injection
<1>12. Cardinality(1..Quorum) = Quorum
  BY FS_Interval, FaultAssumption
<1> QED
  BY <1>10, <1>11, <1>12, FaultAssumption, FS_CardinalityType

-----------------------------------------------------------------------------
(* What the network answers                                                *)

LEMMA HonestDocsTrue ==
  ASSUME BlocksOK, NEW a, NEW d \in HonestDocs(a)
  PROVE  TrueDoc(d) /\ (a \in Members => d \in AllDocs)
<1>1. PICK b \in PinnedBlock..block, up \in {Members, Steady \cup {a}} : d = DocAt(a, b, up)
  BY DEF HonestDocs
<1>2. b \in PinnedBlock..Len(Chain)
  BY ChainAssumption DEF BlocksOK
<1>3. TrueDoc(d)
  BY <1>1, SteadyAssumption DEF TrueDoc, DocAt
<1>4. a \in Members => d \in AllDocs
  <2>1. d \in DocsOf(a, b)
    BY <1>1 DEF DocsOf
  <2> QED
    BY <1>2, <2>1 DEF DocsAt, AllDocs
<1> QED
  BY <1>3, <1>4

LEMMA FreshDocHonest ==
  ASSUME BlocksOK, NEW a, NEW up \in {Members, Steady \cup {a}}
  PROVE  FreshDoc(a, up) \in HonestDocs(a)
<1> DEFINE d == DocAt(a, block, up)
<1>1. block \in PinnedBlock..block
  BY ChainAssumption DEF BlocksOK
<1>2. d \in HonestDocs(a)
  BY <1>1 DEF HonestDocs
<1>3. d.block = block /\ d.online = up
  BY DEF DocAt
<1> HIDE DEF d
<1> QED
  BY <1>2, <1>3 DEF FreshDoc

\* Whatever a round of fetches brings comes from a liar or was true at some block.
LEMMA ServedVouched ==
  ASSUME BlocksOK, NEW asked, NEW s \in Served(asked), NEW d \in s.docs
  PROVE  Vouched(d) /\ (asked \subseteq Members => d \in AllDocs)
<1> DEFINE fresh     == [a \in asked |-> FreshDoc(a, Members)]
           others(a) == (HonestDocs(a) \ {fresh[a]}) \cup (IF a \in Faulty THEN Forged(a, block) ELSE {})
           odd(a)    == {{}} \cup {{e} : e \in others(a)}
<1>1. \A a \in asked : fresh[a] \in HonestDocs(a) /\ FreshDoc(a, Steady \cup {a}) \in HonestDocs(a)
  BY FreshDocHonest
<1>2. \/ s = [docs |-> Range(fresh), odd |-> 0]
      \/ s = [docs |-> {FreshDoc(a, Steady \cup {a}) : a \in asked}, odd |-> 1]
      \/ \E a \in asked : \E e \in odd(a) : s = [docs |-> e \cup {fresh[c] : c \in asked \ {a}}, odd |-> 1]
  BY DEF Served
<1>3. \E a \in asked : d \in HonestDocs(a) \/ (a \in Faulty /\ d \in Forged(a, block))
  <2>1. CASE s.docs = Range(fresh)
    BY <1>1, <2>1 DEF Range
  <2>2. CASE s.docs = {FreshDoc(a, Steady \cup {a}) : a \in asked}
    BY <1>1, <2>2
  <2>3. ASSUME NEW a \in asked, NEW e \in odd(a), s.docs = e \cup {fresh[c] : c \in asked \ {a}}
        PROVE  \E c \in asked : d \in HonestDocs(c) \/ (c \in Faulty /\ d \in Forged(c, block))
    <3>1. CASE d \in e
      BY <3>1
    <3>2. CASE d \in {fresh[c] : c \in asked \ {a}}
      BY <1>1, <3>2
    <3> QED
      BY <2>3, <3>1, <3>2
  <2>4. CASE \E a \in asked : \E e \in odd(a) : s = [docs |-> e \cup {fresh[c] : c \in asked \ {a}}, odd |-> 1]
    <3> HIDE DEF odd, fresh
    <3>1. PICK a \in asked : \E e \in odd(a) : s = [docs |-> e \cup {fresh[c] : c \in asked \ {a}}, odd |-> 1]
      BY <2>4
    <3>2. PICK e \in odd(a) : s = [docs |-> e \cup {fresh[c] : c \in asked \ {a}}, odd |-> 1]
      BY <3>1
    <3>3. s.docs = e \cup {fresh[c] : c \in asked \ {a}}
      BY <3>2
    <3> QED
      BY <2>3, <3>3
  <2>5. CASE s = [docs |-> Range(fresh), odd |-> 0]
    BY <2>1, <2>5
  <2>6. CASE s = [docs |-> {FreshDoc(a, Steady \cup {a}) : a \in asked}, odd |-> 1]
    BY <2>2, <2>6
  <2> HIDE DEF odd, fresh
  <2> QED
    BY <1>2, <2>4, <2>5, <2>6
<1>4. PICK a \in asked : d \in HonestDocs(a) \/ (a \in Faulty /\ d \in Forged(a, block))
  BY <1>3
<1>5. CASE d \in HonestDocs(a)
  BY <1>5, HonestDocsTrue DEF Vouched
<1>6. CASE a \in Faulty /\ d \in Forged(a, block)
  <2>1. block \in PinnedBlock..Len(Chain)
    BY DEF BlocksOK
  <2>2. d.anchor = a
    BY <1>6, <2>1, FaultAssumption
  <2>3. a \in Members => d \in AllDocs
    BY <1>6, <2>1 DEF DocsOf, DocsAt, AllDocs
  <2> QED
    BY <1>6, <2>2, <2>3 DEF Vouched
<1> QED
  BY <1>4, <1>5, <1>6

-----------------------------------------------------------------------------
(* The membership a registry read gives                                    *)

\* closeMembership: an answer that closes names every registered member.
LEMMA ClosedIsWhole ==
  ASSUME NEW registry, IsFiniteSet(DOMAIN registry), NEW read, Closes(Answer(registry, read))
  PROVE  /\ DOMAIN Answer(registry, read).members = DOMAIN registry
         /\ \A m \in DOMAIN registry : Answer(registry, read).members[m] = registry[m]
<1> DEFINE names == read \cap DOMAIN registry
<1>1. /\ Answer(registry, read).members = [m \in names |-> registry[m]]
      /\ Answer(registry, read).count = Cardinality(DOMAIN registry)
  BY DEF Answer
<1>2. Cardinality(names) = Cardinality(DOMAIN registry)
  BY <1>1 DEF Closes
<1>3. names = DOMAIN registry
  BY <1>2, FS_Subset
<1> QED
  BY <1>1, <1>3

LEMMA ReadMembership ==
  ASSUME BlocksOK, NEW b \in PinnedBlock..block, NEW registry, DOMAIN registry = DOMAIN Chain[b],
         \A m \in DOMAIN registry : registry[m] = Chain[b][m], NEW seen, NEW now
  PROVE  /\ BaseVerified(MembershipFromChain(registry, seen, now), registry)
         /\ BaseSteady(MembershipFromChain(registry, seen, now))
<1> DEFINE members == MembershipFromChain(registry, seen, now)
           read    == EligibleRecords(registry, seen, now)
<1>1. FloorKept(members, read)
  BY MembershipKept
<1>2. /\ DOMAIN read = {m \in DOMAIN registry : registry[m].ok}
      /\ \A m \in DOMAIN read : read[m].key = registry[m].key /\ read[m].url = registry[m].url
  BY DEF EligibleRecords, Record
<1> HIDE DEF members, read
<1>3. \A m \in EligiblePinned : Record(Pinned[m], TRUE, FALSE).key = Pinned[m].key
  BY DEF Record
<1>4. b \in PinnedBlock..Len(Chain) /\ PinnedBlock \in PinnedBlock..Len(Chain)
  BY ChainAssumption DEF BlocksOK
<1>5. BaseVerified(members, registry)
  BY <1>1, <1>2, <1>3 DEF BaseVerified, FloorKept
<1>6. DOMAIN members \subseteq Members
  <2>1. EligiblePinned \subseteq Members
    BY <1>4, ChainAssumption DEF EligiblePinned
  <2>2. DOMAIN registry \subseteq Members
    BY <1>4, ChainAssumption
  <2> QED
    BY <1>1, <1>2, <2>1, <2>2 DEF FloorKept
<1>7. ASSUME NEW m \in Steady
      PROVE  m \in DOMAIN members /\ members[m].key = Pinned[m].key /\ members[m].url \in Locations(m)
  <2>1. m \in DOMAIN Chain[b] /\ Chain[b][m].ok /\ Chain[b][m].key = Pinned[m].key
    BY <1>4, SteadyAssumption
  <2>2. m \in DOMAIN read /\ read[m].key = Pinned[m].key /\ read[m].url = Chain[b][m].url
    BY <1>2, <2>1
  <2> QED
    BY <1>1, <2>2 DEF FloorKept, Locations
<1> QED
  BY <1>5, <1>6, <1>7 DEF BaseSteady, members

\* _applyChainOutcome of a read that all pairs agree on, one of them honest.
LEMMA ChainOutcomeSound ==
  ASSUME TopoInv, block' = block, check.block \in PinnedBlock..block,
         NEW read, Closes(Answer(Chain[check.block], read)),
         ApplyChainOutcome(Answer(Chain[check.block], read).members)
  PROVE  BlocksOK' /\ MembersOK' /\ ServedOK' /\ verified'.block = check.block
<1> DEFINE registry == Answer(Chain[check.block], read).members
           seen     == FirstSeenAfter(registry, firstSeen, check.block)
           members  == MembershipFromChain(registry, seen, block)
           result   == ApplyServed(members, check.block, Endpoints(members, anchored), lastServed,
                                   DOMAIN working)
           work     == IF result.stale \/ result.accepted = {}
                         THEN [m \in DOMAIN members |-> members[m].url] ELSE result.members
<1>1. /\ base' = members /\ verified' = [block |-> check.block, registry |-> registry]
      /\ working' = work /\ lastServed' = lastServed
  BY DEF ApplyChainOutcome, SetNodes
<1>2. check.block \in PinnedBlock..Len(Chain) /\ IsFiniteSet(DOMAIN Chain[check.block])
  BY ChainAssumption, FS_Subset DEF TopoInv, BlocksOK
<1>3. DOMAIN registry = DOMAIN Chain[check.block] /\ \A m \in DOMAIN registry : registry[m] = Chain[check.block][m]
  BY <1>2, ClosedIsWhole
<1> HIDE DEF registry, seen
<1>4. BaseVerified(members, registry) /\ BaseSteady(members)
  BY <1>3, ReadMembership DEF TopoInv
<1> HIDE DEF members
<1>5. DOMAIN result.members \subseteq DOMAIN members /\ WorkSteady(result.members)
  BY <1>4, ApplyServedSteady DEF TopoInv, ServedOK
<1> HIDE DEF result
<1>6. DOMAIN work \subseteq DOMAIN members /\ WorkSteady(work)
  <2>1. CASE result.stale \/ result.accepted = {}
    <3>1. work = [m \in DOMAIN members |-> members[m].url]
      BY <2>1
    <3> QED
      BY <1>4, <3>1 DEF WorkSteady, BaseSteady
  <2>2. CASE ~(result.stale \/ result.accepted = {})
    BY <1>5, <2>2
  <2> QED
    BY <2>1, <2>2
<1> HIDE DEF work
<1>7. verified'.block = check.block /\ verified'.registry = registry
  BY <1>1
<1>8. BlocksOK'
  BY <1>7 DEF BlocksOK, TopoInv
<1>9. MembersOK'
  BY <1>1, <1>4, <1>6, <1>7 DEF MembersOK, BaseVerified, BaseSteady, WorkSteady, Locations
<1>10. ServedOK'
  BY <1>1 DEF TopoInv, ServedOK, Vouched, TrueDoc
<1> QED
  BY <1>7, <1>8, <1>9, <1>10

-----------------------------------------------------------------------------
(* What a step leaves alone                                                *)

LEMMA KeepMembers ==
  ASSUME TopoInv, UNCHANGED block, UNCHANGED kps
  PROVE  BlocksOK' /\ MembersOK' /\ ServedOK' /\ verified' = verified
<1>1. block' = block /\ base' = base /\ verified' = verified /\ working' = working /\ lastServed' = lastServed
  BY DEF kps
<1>2. BlocksOK'
  BY <1>1 DEF TopoInv, BlocksOK
<1>3. MembersOK'
  BY <1>1 DEF TopoInv, MembersOK, BaseVerified, BaseSteady, WorkSteady, Locations
<1>4. ServedOK'
  BY <1>1 DEF TopoInv, ServedOK, Vouched, TrueDoc
<1> QED
  BY <1>1, <1>2, <1>3, <1>4

LEMMA KeepBoot ==
  ASSUME TopoInv, UNCHANGED <<block, boot>>
  PROVE  BootOK'
BY DEF TopoInv, BootOK, BootSourcesOK, Vouched, TrueDoc

LEMMA KeepRefresh ==
  ASSUME TopoInv, UNCHANGED <<block, refresh>>
  PROVE  RefreshOK'
BY DEF TopoInv, RefreshOK, Vouched, TrueDoc

LEMMA KeepCheck ==
  ASSUME TopoInv, UNCHANGED <<block, check, verified>>
  PROVE  CheckOK'
BY DEF TopoInv, CheckOK, MembershipBlock, Lies

LEMMA IdleRefresh ==
  ASSUME refresh' = Idle
  PROVE  RefreshOK'
BY DEF RefreshOK, Idle

-----------------------------------------------------------------------------
(* The chain check                                                         *)

LEMMA CheckExitsExit ==
  ASSUME TopoInv
  PROVE  CheckExits \subseteq Exiting
<1>1. ASSUME NEW m \in SettledExits
      PROVE  m \in Exiting
  <2>1. PICK n \in Settled(Exits(Nodes)) : m = n.id
    BY DEF SettledExits
  <2>2. n \in Nodes /\ n.role \in {2, 3}
    BY <2>1 DEF Settled, Exits
  <2>3. PICK x \in DOMAIN working : n = [id |-> x, role |-> Role[x],
                                         entry |-> x \in Endpoints(base, anchored),
                                         probation |-> base[x].probation]
    BY <2>2 DEF Nodes, RoutingNodes
  <2>4. m = x /\ Role[x] \in {2, 3} /\ x \in Members
    BY <2>1, <2>2, <2>3 DEF TopoInv, MembersOK, BaseSteady
  <2> QED
    BY <2>4 DEF Exiting
<1> QED
  BY <1>1 DEF CheckExits

LEMMA RunChainCheckSound ==
  ASSUME TopoInv, RunChainCheck \/ UNCHANGED check, UNCHANGED <<block, verified>>
  PROVE  CheckOK'
<1>1. CASE UNCHANGED check
  BY <1>1, KeepCheck
<1>2. CASE check' \in Started
  <2>1. PICK c : check' = [at |-> "pin", attempt |-> 1, exits |-> CheckExits, core |-> CoreMembers,
                           candidates |-> c, minBlock |-> MembershipBlock(verified), pairs |-> {},
                           block |-> 0, read |-> c, scanned |-> FALSE]
    BY <1>2 DEF Started
  <2>2. /\ check'.at = "pin" /\ check'.exits = CheckExits /\ check'.minBlock = MembershipBlock(verified)
        /\ DOMAIN check' = {"at", "attempt", "exits", "core", "candidates", "minBlock", "pairs",
                            "block", "read", "scanned"}
    BY <2>1
  <2>3. MembershipBlock(verified)' = MembershipBlock(verified)
    BY DEF MembershipBlock
  <2> QED
    BY <2>2, <2>3, CheckExitsExit DEF CheckOK
<1> QED
  BY <1>1, <1>2 DEF RunChainCheck

LEMMA CheckOverSound ==
  ASSUME TopoInv, CheckOver, UNCHANGED block
  PROVE  RefreshOK' /\ CheckOK'
<1>1. CheckOK'
  BY DEF CheckOver, Idle, CheckOK
<1>2. CASE refresh.at = "stale"
  <2>1. /\ refresh' = [refresh EXCEPT !.at = "woken"] /\ DOMAIN refresh = {"at", "anchors", "served"}
        /\ \A d \in refresh.served : Vouched(d)
    BY <1>2 DEF CheckOver, TopoInv, RefreshOK
  <2>2. DOMAIN refresh' = {"at", "anchors", "served"} /\ refresh'.served = refresh.served
    BY <2>1
  <2> QED
    BY <1>1, <2>1, <2>2 DEF RefreshOK, Vouched, TrueDoc
<1>3. CASE refresh.at # "stale"
  BY <1>1, <1>3, KeepRefresh DEF CheckOver
<1> QED
  BY <1>2, <1>3

LEMMA CheckFailsSound ==
  ASSUME TopoInv, CheckFails, UNCHANGED <<block, boot>>
  PROVE  TopoInv' /\ UNCHANGED kps
<1>1. CheckOver /\ UNCHANGED kps
  BY DEF CheckFails
<1> QED
  BY <1>1, CheckOverSound, KeepMembers, KeepBoot DEF TopoInv

LEMMA NextPairingSound ==
  ASSUME TopoInv, check.at # "idle", NextPairing, UNCHANGED <<block, boot>>
  PROVE  TopoInv' /\ UNCHANGED kps
<1>1. CASE check.attempt = PairingBudget
  BY <1>1, CheckFailsSound DEF NextPairing
<1>2. CASE check.attempt # PairingBudget
  <2>1. /\ check' = [check EXCEPT !.at = "pin", !.attempt = @ + 1, !.read = check.candidates,
                                  !.scanned = FALSE, !.pairs = {}, !.block = 0]
        /\ UNCHANGED refresh /\ UNCHANGED kps
    BY <1>2 DEF NextPairing
  <2>2. /\ DOMAIN check = {"at", "attempt", "exits", "core", "candidates", "minBlock", "pairs",
                           "block", "read", "scanned"}
        /\ check.minBlock = MembershipBlock(verified) /\ check.exits \subseteq Exiting
    BY DEF TopoInv, CheckOK
  <2>3. DOMAIN check' = DOMAIN check /\ check'.at = "pin" /\ check'.exits = check.exits
        /\ check'.minBlock = check.minBlock
    BY <2>1, <2>2
  <2>4. verified' = verified
    BY <2>1, KeepMembers
  <2>5. CheckOK'
    BY <2>2, <2>3, <2>4 DEF CheckOK, MembershipBlock
  <2> QED
    BY <2>1, <2>5, KeepMembers, KeepBoot, KeepRefresh DEF TopoInv
<1> QED
  BY <1>1, <1>2

\* The step condition of LateAnswersHarmless.
Harmless ==
  /\ verified'.block >= verified.block
  /\ phase = "closed" => UNCHANGED kps

LEMMA SameVerifiedHarmless ==
  ASSUME TopoInv, UNCHANGED verified, phase = "closed" => UNCHANGED kps
  PROVE  Harmless
<1>1. verified.block \in Int
  BY ChainAssumption DEF TopoInv, BlocksOK
<1> QED
  BY <1>1 DEF Harmless

LEMMA SameKpsHarmless ==
  ASSUME TopoInv, UNCHANGED kps
  PROVE  Harmless
BY SameVerifiedHarmless DEF kps

\* Every pairing is over, or has a pair that tells the truth.
LEMMA PinsSound ==
  ASSUME TopoInv, CheckPins
  PROVE  TopoInv' /\ Harmless
<1>1. PICK p \in Pairings, b \in PinnedBlock..block :
        IF b < check.minBlock
          THEN NextPairing
          ELSE /\ check' = [check EXCEPT !.at = "read", !.pairs = Range(p), !.block = b]
               /\ UNCHANGED refresh /\ UNCHANGED kps
  BY DEF CheckPins
<1>2. check.at = "pin" /\ UNCHANGED <<block, boot>>
  BY DEF CheckPins
<1>3. CASE b < check.minBlock
  BY <1>1, <1>2, <1>3, NextPairingSound, SameKpsHarmless
<1>4. CASE ~(b < check.minBlock)
  <2>1. /\ DOMAIN check = {"at", "attempt", "exits", "core", "candidates", "minBlock", "pairs",
                           "block", "read", "scanned"}
        /\ check.minBlock = MembershipBlock(verified) /\ check.exits \subseteq Exiting
    BY <1>2 DEF TopoInv, CheckOK
  <2>2. /\ DOMAIN check' = DOMAIN check /\ check'.at = "read" /\ check'.exits = check.exits
        /\ check'.minBlock = check.minBlock /\ check'.pairs = Range(p) /\ check'.block = b
    BY <1>1, <1>4, <2>1
  <2>3. \E x \in Range(p) : ~Lies(x)
    BY <2>1, PairingsHonest
  <2>4. verified' = verified
    BY <1>1, <1>4 DEF kps
  <2>5. check.minBlock \in Int /\ b \in Int
    BY <2>1, ChainAssumption DEF MembershipBlock, TopoInv, BlocksOK
  <2>6. check'.block >= check'.minBlock /\ check'.block \in PinnedBlock..block'
    BY <1>2, <1>4, <2>2, <2>5
  <2>7. CheckOK'
    BY <2>1, <2>2, <2>3, <2>4, <2>6 DEF CheckOK, MembershipBlock, Lies
  <2> QED
    BY <1>1, <1>2, <1>4, <2>7, KeepMembers, KeepBoot, KeepRefresh, SameKpsHarmless DEF TopoInv
<1> QED
  BY <1>3, <1>4

\* The pairs agree on the registry of the block, and a client that is no longer
\* connected drops it.
LEMMA AgreesSound ==
  ASSUME TopoInv, CheckAgrees
  PROVE  TopoInv' /\ Harmless
<1>1. check.at = "read" /\ UNCHANGED <<block, boot>> /\ phase' = phase
  BY DEF CheckAgrees, env
<1>2. /\ check.block \in PinnedBlock..block /\ check.block >= check.minBlock
      /\ \E x \in check.pairs : ~Lies(x) /\ check.minBlock = MembershipBlock(verified)
  BY <1>1 DEF TopoInv, CheckOK
<1>3. Agreed = {Chain[check.block]}
  BY <1>2 DEF Agreed
<1> DEFINE answer == Answer(Chain[check.block], check.read)
<1>4. \/ Closes(answer) /\ CheckVerified(answer.members)
      \/ check' = [check EXCEPT !.at = "logs"] /\ UNCHANGED <<kps, refresh, error>>
      \/ CheckFails
  BY <1>3 DEF CheckAgrees
<1>5. CASE CheckFails
  BY <1>1, <1>5, CheckFailsSound, SameKpsHarmless
<1>6. CASE check' = [check EXCEPT !.at = "logs"] /\ UNCHANGED <<kps, refresh, error>>
  <2>1. /\ DOMAIN check = {"at", "attempt", "exits", "core", "candidates", "minBlock", "pairs",
                           "block", "read", "scanned"}
        /\ check.minBlock = MembershipBlock(verified) /\ check.exits \subseteq Exiting
    BY <1>1 DEF TopoInv, CheckOK
  <2>2. /\ DOMAIN check' = DOMAIN check /\ check'.at = "logs" /\ check'.exits = check.exits
        /\ check'.minBlock = check.minBlock /\ check'.pairs = check.pairs /\ check'.block = check.block
    BY <1>6, <2>1
  <2>3. verified' = verified
    BY <1>6 DEF kps
  <2>4. CheckOK'
    BY <1>1, <1>2, <2>1, <2>2, <2>3 DEF CheckOK, MembershipBlock, Lies
  <2> QED
    BY <1>1, <1>6, <2>4, KeepMembers, KeepBoot, KeepRefresh, SameKpsHarmless DEF TopoInv
<1>7. CASE Closes(answer) /\ CheckVerified(answer.members) /\ phase = "ready"
  <2>1. CheckOver /\ ApplyChainOutcome(answer.members)
    BY <1>7 DEF CheckVerified
  <2>2. RefreshOK' /\ CheckOK'
    BY <1>1, <2>1, CheckOverSound
  <2>3. BlocksOK' /\ MembersOK' /\ ServedOK' /\ verified'.block = check.block
    BY <1>1, <1>2, <1>7, <2>1, ChainOutcomeSound
  <2>4. check.block >= verified.block
    BY <1>2, ChainAssumption DEF MembershipBlock, TopoInv, BlocksOK
  <2> QED
    BY <1>1, <1>7, <2>2, <2>3, <2>4, KeepBoot DEF TopoInv, Harmless
<1>8. CASE Closes(answer) /\ CheckVerified(answer.members) /\ phase # "ready"
  <2>1. CheckOver /\ UNCHANGED kps
    BY <1>8 DEF CheckVerified
  <2> QED
    BY <1>1, <2>1, CheckOverSound, KeepMembers, KeepBoot, SameKpsHarmless DEF TopoInv
<1> QED
  BY <1>4, <1>5, <1>6, <1>7, <1>8

LEMMA ScansLogsSound ==
  ASSUME TopoInv, CheckScansLogs
  PROVE  TopoInv' /\ Harmless
<1>1. check.at = "logs" /\ UNCHANGED <<block, boot>>
  BY DEF CheckScansLogs, env
<1> DEFINE completed == check.core \cup Registrations(check.block)
<1>2. \/ CheckFails
      \/ /\ check' = [check EXCEPT !.at = "read", !.read = completed, !.scanned = TRUE]
         /\ UNCHANGED <<kps, refresh, error>>
  BY DEF CheckScansLogs
<1> HIDE DEF completed
<1>3. CASE CheckFails
  BY <1>1, <1>3, CheckFailsSound, SameKpsHarmless
<1>4. CASE /\ check' = [check EXCEPT !.at = "read", !.read = completed, !.scanned = TRUE]
           /\ UNCHANGED <<kps, refresh, error>>
  <2>1. /\ DOMAIN check = {"at", "attempt", "exits", "core", "candidates", "minBlock", "pairs",
                           "block", "read", "scanned"}
        /\ check.minBlock = MembershipBlock(verified) /\ check.exits \subseteq Exiting
        /\ check.block \in PinnedBlock..block /\ check.block >= check.minBlock
        /\ \E x \in check.pairs : ~Lies(x)
    BY <1>1 DEF TopoInv, CheckOK
  <2>2. /\ DOMAIN check' = DOMAIN check /\ check'.at = "read" /\ check'.exits = check.exits
        /\ check'.minBlock = check.minBlock /\ check'.pairs = check.pairs /\ check'.block = check.block
    BY <1>4, <2>1
  <2>3. verified' = verified
    BY <1>4 DEF kps
  <2>4. CheckOK'
    BY <1>1, <2>1, <2>2, <2>3 DEF CheckOK, MembershipBlock, Lies
  <2> QED
    BY <1>1, <1>4, <2>4, KeepMembers, KeepBoot, KeepRefresh, SameKpsHarmless DEF TopoInv
<1> QED
  BY <1>2, <1>3, <1>4

LEMMA CheckStepSound ==
  ASSUME TopoInv, CheckStep
  PROVE  TopoInv' /\ Harmless
<1>1. CASE CheckInsufficient \/ CheckScanFails
  BY <1>1, CheckFailsSound, SameKpsHarmless DEF CheckInsufficient, CheckScanFails, env
<1>2. CASE CheckPinFails \/ CheckDisagrees \/ CheckReadFails
  <2>1. check.at # "idle" /\ NextPairing /\ UNCHANGED <<block, boot>>
    BY <1>2 DEF CheckPinFails, CheckDisagrees, CheckReadFails
  <2> QED
    BY <2>1, NextPairingSound, SameKpsHarmless
<1> QED
  BY <1>1, <1>2, PinsSound, AgreesSound, ScansLogsSound DEF CheckStep

-----------------------------------------------------------------------------
(* Boot                                                                    *)

LEMMA ConnectSound ==
  ASSUME TopoInv, NEW b, BootSourcesOK(b), Connect(b), phase = "boot", UNCHANGED block
  PROVE  BlocksOK' /\ MembersOK' /\ ServedOK' /\ BootOK' /\ verified' = verified
<1> DEFINE docs   == {b.sources[i] : i \in DOMAIN b.sources}
           result == ApplyServed(base, PinnedBlock, Endpoints(base, AnchorsOf(docs)), docs, DOMAIN base)
<1>1. boot' = [b EXCEPT !.running = {}, !.left = {}, !.staggered = 0, !.waiting = FALSE, !.sources = <<>>]
  BY DEF Connect
<1>2. \/ UNCHANGED kps
      \/ /\ working' = result.members /\ lastServed' = result.accepted
         /\ UNCHANGED <<base, verified, firstSeen>>
  BY DEF Connect
<1>3. BootOK'
  <2>1. DOMAIN boot' = DOMAIN b /\ boot'.sources = <<>>
    BY <1>1 DEF BootSourcesOK
  <2>2. <<>> \in Seq(AllDocs) /\ DOMAIN <<>> = {}
    OBVIOUS
  <2> QED
    BY <2>1, <2>2 DEF BootOK, BootSourcesOK
<1>4. CASE UNCHANGED kps
  BY <1>3, <1>4, KeepMembers
<1>5. CASE /\ working' = result.members /\ lastServed' = result.accepted
           /\ UNCHANGED <<base, verified, firstSeen>>
  <2>1. \A d \in docs : Vouched(d)
    BY DEF BootSourcesOK
  <2>2. DOMAIN result.members \subseteq DOMAIN base /\ WorkSteady(result.members) /\ result.accepted \subseteq docs
    BY <2>1, ApplyServedSteady DEF TopoInv, MembersOK
  <2> HIDE DEF result, docs
  <2>3. BlocksOK'
    BY <1>5 DEF TopoInv, BlocksOK
  <2>4. MembersOK'
    BY <1>5, <2>2 DEF TopoInv, MembersOK, BaseVerified, BaseSteady, WorkSteady, Locations
  <2>5. ServedOK'
    BY <1>5, <2>1, <2>2 DEF ServedOK, Vouched, TrueDoc
  <2> QED
    BY <1>3, <1>5, <2>3, <2>4, <2>5
<1> QED
  BY <1>2, <1>4, <1>5

LEMMA BootContinuesSound ==
  ASSUME TopoInv, NEW b, BootSourcesOK(b), BootContinues(b), phase = "boot",
         UNCHANGED <<block, refresh, check>>
  PROVE  TopoInv' /\ Harmless
<1>1. CASE Connect(b)
  BY <1>1, ConnectSound, KeepRefresh, KeepCheck, SameVerifiedHarmless DEF TopoInv
<1>2. CASE boot' = b /\ UNCHANGED kps
  <2>1. BootOK'
    BY <1>2 DEF BootOK, BootSourcesOK, Vouched, TrueDoc
  <2>2. UNCHANGED verified
    BY <1>2 DEF kps
  <2> QED
    BY <1>2, <2>1, <2>2, KeepMembers, KeepRefresh, KeepCheck, SameKpsHarmless DEF TopoInv
<1> QED
  BY <1>1, <1>2 DEF BootContinues

LEMMA BootLaunchesSources ==
  ASSUME NEW b, BootSourcesOK(b), NEW c \in BootLaunches(b)
  PROVE  BootSourcesOK(c)
<1>1. CASE c = b
  BY <1>1
<1>2. ASSUME NEW a \in b.left, c = [b EXCEPT !.left = @ \ {a}, !.running = @ \cup {a}]
      PROVE  BootSourcesOK(c)
  <2>1. DOMAIN c = DOMAIN b /\ c.sources = b.sources
    BY <1>2 DEF BootSourcesOK
  <2> QED
    BY <2>1 DEF BootSourcesOK
<1> QED
  BY <1>1, <1>2 DEF BootLaunches

\* Every step of the boot goes on, or connects, with what anchors served.
LEMMA BootGathers ==
  ASSUME TopoInv, BootStep
  PROVE  /\ phase = "boot" /\ UNCHANGED <<block, refresh, check>>
         /\ \E b : BootSourcesOK(b) /\ (BootContinues(b) \/ Connect(b))
<1>1. CASE BootLaunch
  <2> DEFINE next == [boot EXCEPT !.staggered = @ - 1]
  <2>1. PICK b \in BootLaunches(next) : BootContinues(b)
    BY <1>1 DEF BootLaunch
  <2>2. phase = "boot" /\ UNCHANGED <<block, refresh, check>>
    BY <1>1 DEF BootLaunch, env
  <2>3. DOMAIN next = DOMAIN boot /\ next.sources = boot.sources
    BY DEF TopoInv, BootOK, BootSourcesOK
  <2>4. BootSourcesOK(next)
    BY <2>3 DEF TopoInv, BootOK, BootSourcesOK
  <2> HIDE DEF next
  <2>5. BootSourcesOK(b)
    BY <2>4, BootLaunchesSources
  <2> QED
    BY <2>1, <2>2, <2>5
<1>2. ASSUME NEW a \in Anchors, BootAnchorEnds(a)
      PROVE  /\ phase = "boot" /\ UNCHANGED <<block, refresh, check>>
             /\ \E b : BootSourcesOK(b) /\ (BootContinues(b) \/ Connect(b))
  <2> DEFINE left   == [boot EXCEPT !.running = @ \ {a}]
             got(s) == IF s.docs = {} THEN left
                       ELSE [left EXCEPT !.sources = Append(@, CHOOSE d \in s.docs : TRUE), !.waiting = TRUE]
  <2>1. PICK s \in Served({a}) : \E b \in IF BootDone(got(s)) THEN {got(s)} ELSE BootLaunches(got(s)) :
                                   BootContinues(b)
    BY <1>2 DEF BootAnchorEnds
  <2>2. phase = "boot" /\ UNCHANGED <<block, refresh, check>>
    BY <1>2 DEF BootAnchorEnds
  <2>3. a \in Members
    <3>1. PinnedBlock \in PinnedBlock..Len(Chain)
      BY ChainAssumption
    <3> QED
      BY <3>1, ChainAssumption DEF Anchors, EligiblePinned
  <2>4. /\ DOMAIN left = {"left", "running", "sources", "staggered", "waiting"}
        /\ left.sources = boot.sources /\ BootSourcesOK(left)
    BY DEF TopoInv, BootOK, BootSourcesOK
  <2> HIDE DEF left
  <2>5. BootSourcesOK(got(s))
    <3>1. CASE s.docs = {}
      BY <2>4, <3>1
    <3>2. CASE s.docs # {}
      <4>1. PICK d \in s.docs : d = CHOOSE e \in s.docs : TRUE
        BY <3>2
      <4>2. Vouched(d) /\ d \in AllDocs
        BY <2>3, ServedVouched DEF TopoInv
      <4>3. got(s) = [left EXCEPT !.sources = Append(@, d), !.waiting = TRUE]
        BY <3>2, <4>1
      <4>4. DOMAIN got(s) = DOMAIN left /\ got(s).sources = Append(left.sources, d)
        BY <2>4, <4>3
      <4>5. /\ left.sources \in Seq(AllDocs) /\ \A i \in DOMAIN left.sources : Vouched(left.sources[i])
        BY <2>4 DEF BootSourcesOK
      <4> HIDE DEF got
      <4>6. /\ Append(left.sources, d) \in Seq(AllDocs)
            /\ \A i \in DOMAIN Append(left.sources, d) : Vouched(Append(left.sources, d)[i])
        BY <4>2, <4>5, AppendProperties
      <4> QED
        BY <2>4, <4>4, <4>6 DEF BootSourcesOK
    <3> QED
      BY <3>1, <3>2
  <2> HIDE DEF got
  <2>6. PICK b : BootContinues(b) /\ (b = got(s) \/ b \in BootLaunches(got(s)))
    BY <2>1
  <2>7. BootSourcesOK(b)
    BY <2>5, <2>6, BootLaunchesSources
  <2> QED
    BY <2>2, <2>6, <2>7
<1>3. CASE BootWaitOver
  <2>1. Connect(boot) /\ phase = "boot" /\ UNCHANGED <<block, refresh, check>>
    BY <1>3 DEF BootWaitOver, env
  <2>2. BootSourcesOK(boot)
    BY DEF TopoInv, BootOK
  <2> QED
    BY <2>1, <2>2
<1> QED
  BY <1>1, <1>2, <1>3 DEF BootStep

LEMMA BootStepSound ==
  ASSUME TopoInv, BootStep
  PROVE  TopoInv' /\ Harmless
<1>1. phase = "boot" /\ UNCHANGED <<block, refresh, check>>
  BY BootGathers
<1>2. PICK b : BootSourcesOK(b) /\ (BootContinues(b) \/ Connect(b))
  BY BootGathers
<1>3. CASE BootContinues(b)
  BY <1>1, <1>2, <1>3, BootContinuesSound
<1>4. CASE Connect(b)
  BY <1>1, <1>2, <1>4, ConnectSound, KeepRefresh, KeepCheck, SameVerifiedHarmless DEF TopoInv
<1> QED
  BY <1>2, <1>3, <1>4

-----------------------------------------------------------------------------
(* Refresh                                                                 *)

\* Documents that a liar served or that were true at some block, applied to the
\* membership.
LEMMA RefreshAppliesSound ==
  ASSUME TopoInv, NEW served, \A d \in served : Vouched(d), RefreshApplies(ServedNow(served)),
         ServedNow(served).accepted # {}, MayTrigger(ServedNow(served).accepted),
         UNCHANGED <<block, boot>>, phase = "ready"
  PROVE  TopoInv' /\ Harmless
<1> DEFINE result == ServedNow(served)
<1>1. /\ lastServed' = result.accepted /\ working' = result.members /\ refresh' = Idle
      /\ UNCHANGED <<base, verified, firstSeen>>
  BY DEF RefreshApplies, SetNodes
<1>2. DOMAIN result.members \subseteq DOMAIN base /\ WorkSteady(result.members) /\ result.accepted \subseteq served
  BY ApplyServedSteady DEF ServedNow, TopoInv, MembersOK
<1>3. RunChainCheck \/ UNCHANGED check
  BY DEF MayTrigger
<1> HIDE DEF result
<1>4. BlocksOK'
  BY <1>1 DEF TopoInv, BlocksOK
<1>5. MembersOK'
  BY <1>1, <1>2 DEF TopoInv, MembersOK, BaseVerified, BaseSteady, WorkSteady, Locations
<1>6. ServedOK'
  BY <1>1, <1>2 DEF ServedOK, Vouched, TrueDoc
<1> QED
  BY <1>1, <1>3, <1>4, <1>5, <1>6, KeepBoot, IdleRefresh, RunChainCheckSound, SameVerifiedHarmless
  DEF TopoInv

\* Nothing applied: the refresh is over, or waits for a chain check.
LEMMA RefreshKeepsKps ==
  ASSUME TopoInv, UNCHANGED <<block, boot>>, UNCHANGED kps, RunChainCheck \/ UNCHANGED check, RefreshOK'
  PROVE  TopoInv' /\ Harmless
<1>1. UNCHANGED verified
  BY DEF kps
<1> QED
  BY <1>1, KeepMembers, KeepBoot, RunChainCheckSound, SameKpsHarmless DEF TopoInv

LEMMA RefreshStepSound ==
  ASSUME TopoInv, RefreshStep
  PROVE  TopoInv' /\ Harmless
<1>1. CASE RefreshStart
  <2>1. PICK anchors : refresh' = [at |-> "fetch", anchors |-> anchors, served |-> {}]
    BY <1>1 DEF RefreshStart
  <2>2. DOMAIN refresh' = {"at", "anchors", "served"} /\ refresh'.served = {}
    BY <2>1
  <2>3. RefreshOK'
    BY <2>2 DEF RefreshOK
  <2>4. UNCHANGED <<block, boot>> /\ UNCHANGED kps /\ UNCHANGED check
    BY <1>1 DEF RefreshStart, env
  <2> QED
    BY <2>3, <2>4, RefreshKeepsKps
<1>2. CASE RefreshFetched
  <2>1. PICK s \in Served(refresh.anchors) :
          \/ refresh' = Idle /\ UNCHANGED <<kps, check>>
          \/ /\ refresh' = [refresh EXCEPT !.at = "stale", !.served = s.docs]
             /\ RunChainCheck /\ UNCHANGED kps
          \/ /\ phase = "ready" /\ RefreshApplies(ServedNow(s.docs))
             /\ ServedNow(s.docs).accepted # {} => MayTrigger(ServedNow(s.docs).accepted)
    BY <1>2 DEF RefreshFetched, RefreshError
  <2>2. UNCHANGED <<block, boot>> /\ refresh.at = "fetch"
    BY <1>2 DEF RefreshFetched
  <2>3. \A d \in s.docs : Vouched(d)
    BY ServedVouched DEF TopoInv
  <2>4. CASE refresh' = Idle /\ UNCHANGED <<kps, check>>
    BY <2>2, <2>4, IdleRefresh, RefreshKeepsKps
  <2>5. CASE /\ refresh' = [refresh EXCEPT !.at = "stale", !.served = s.docs]
             /\ RunChainCheck /\ UNCHANGED kps
    <3>1. DOMAIN refresh = {"at", "anchors", "served"}
      BY <2>2 DEF TopoInv, RefreshOK
    <3>2. DOMAIN refresh' = {"at", "anchors", "served"} /\ refresh'.served = s.docs
      BY <2>5, <3>1
    <3>3. RefreshOK'
      BY <2>2, <2>3, <3>2 DEF RefreshOK, Vouched, TrueDoc
    <3> QED
      BY <2>2, <2>5, <3>3, RefreshKeepsKps
  <2>6. CASE /\ phase = "ready" /\ RefreshApplies(ServedNow(s.docs))
             /\ ServedNow(s.docs).accepted # {} => MayTrigger(ServedNow(s.docs).accepted)
    <3>1. CASE ServedNow(s.docs).accepted = {}
      <4>1. refresh' = Idle /\ UNCHANGED <<kps, check>>
        BY <2>6, <3>1 DEF RefreshApplies, RefreshError
      <4> QED
        BY <2>4, <4>1
    <3>2. CASE ServedNow(s.docs).accepted # {}
      BY <2>2, <2>3, <2>6, <3>2, RefreshAppliesSound
    <3> QED
      BY <3>1, <3>2
  <2> QED
    BY <2>1, <2>4, <2>5, <2>6
<1>3. CASE RefreshRetries
  <2>1. \/ refresh' = Idle /\ UNCHANGED <<kps, check>>
        \/ /\ phase = "ready" /\ RefreshApplies(ServedNow(refresh.served))
           /\ ServedNow(refresh.served).accepted # {} => MayTrigger(ServedNow(refresh.served).accepted)
    BY <1>3 DEF RefreshRetries, RefreshError
  <2>2. UNCHANGED <<block, boot>> /\ refresh.at = "woken"
    BY <1>3 DEF RefreshRetries, env
  <2>3. \A d \in refresh.served : Vouched(d)
    BY <2>2 DEF TopoInv, RefreshOK
  <2>4. CASE refresh' = Idle /\ UNCHANGED <<kps, check>>
    BY <2>2, <2>4, IdleRefresh, RefreshKeepsKps
  <2>5. CASE /\ phase = "ready" /\ RefreshApplies(ServedNow(refresh.served))
             /\ ServedNow(refresh.served).accepted # {} => MayTrigger(ServedNow(refresh.served).accepted)
    <3>1. CASE ServedNow(refresh.served).accepted = {}
      <4>1. refresh' = Idle /\ UNCHANGED <<kps, check>>
        BY <2>5, <3>1 DEF RefreshApplies, RefreshError
      <4> QED
        BY <2>4, <4>1
    <3>2. CASE ServedNow(refresh.served).accepted # {}
      BY <2>2, <2>3, <2>5, <3>2, RefreshAppliesSound
    <3> QED
      BY <3>1, <3>2
  <2> QED
    BY <2>1, <2>4, <2>5
<1> QED
  BY <1>1, <1>2, <1>3 DEF RefreshStep

-----------------------------------------------------------------------------
(* The whole client                                                        *)

LEMMA NewBlockSound ==
  ASSUME TopoInv, NewBlock
  PROVE  TopoInv' /\ Harmless
<1>1. /\ block' = block + 1 /\ block < Len(Chain) /\ base' = base /\ verified' = verified
      /\ working' = working /\ lastServed' = lastServed /\ boot' = boot /\ refresh' = refresh
      /\ check' = check /\ UNCHANGED kps
  BY DEF NewBlock, kps
<1>2. block' \in PinnedBlock..Len(Chain) /\ PinnedBlock..block \subseteq PinnedBlock..block'
  BY <1>1, ChainAssumption DEF TopoInv, BlocksOK
<1>3. \A m : Locations(m) \subseteq Locations(m)'
  BY <1>2 DEF Locations
<1>4. \A d : Vouched(d) => Vouched(d)'
  BY <1>2 DEF Vouched, TrueDoc
<1>5. BlocksOK'
  BY <1>1, <1>2 DEF TopoInv, BlocksOK
<1>6. MembersOK'
  BY <1>1, <1>3 DEF TopoInv, MembersOK, BaseVerified, BaseSteady, WorkSteady
<1>7. ServedOK' /\ RefreshOK' /\ BootOK'
  BY <1>1, <1>4 DEF TopoInv, ServedOK, RefreshOK, BootOK, BootSourcesOK
<1>8. CheckOK'
  BY <1>1, <1>2 DEF TopoInv, CheckOK, MembershipBlock, Lies
<1> QED
  BY <1>1, <1>5, <1>6, <1>7, <1>8, SameKpsHarmless DEF TopoInv

LEMMA EntrySwitchSound ==
  ASSUME TopoInv, EntrySwitch
  PROVE  TopoInv' /\ Harmless
<1>1. /\ block' = block /\ base' = base /\ verified' = verified /\ working' = working
      /\ lastServed' = lastServed /\ boot' = boot /\ refresh' = refresh /\ phase = "ready"
      /\ RunChainCheck \/ UNCHANGED check
  BY DEF EntrySwitch
<1>2. BlocksOK' /\ ServedOK'
  BY <1>1 DEF TopoInv, BlocksOK, ServedOK, Vouched, TrueDoc
<1>3. MembersOK'
  BY <1>1 DEF TopoInv, MembersOK, BaseVerified, BaseSteady, WorkSteady, Locations
<1> QED
  BY <1>1, <1>2, <1>3, KeepBoot, KeepRefresh, RunChainCheckSound, SameVerifiedHarmless DEF TopoInv

LEMMA TopoInit ==
  ASSUME Init
  PROVE  TopoInv
<1>1. /\ block = PinnedBlock /\ base = FloorRecords /\ verified = [block |-> 0, registry |-> Pinned]
      /\ working = [m \in EligiblePinned |-> Pinned[m].url] /\ lastServed = {}
      /\ refresh = Idle /\ check = Idle
      /\ boot = [left |-> Anchors, running |-> {}, sources |-> <<>>, staggered |-> Parallelism,
                 waiting |-> FALSE]
  BY DEF Init
<1>2. PinnedBlock \in PinnedBlock..Len(Chain) /\ Chain[PinnedBlock] = Pinned /\ PinnedBlock \in PinnedBlock..PinnedBlock
  BY ChainAssumption
<1>3. /\ DOMAIN base = EligiblePinned /\ DOMAIN working = EligiblePinned
      /\ \A m \in EligiblePinned : base[m].key = Pinned[m].key /\ base[m].url = Pinned[m].url
                                     /\ working[m] = Pinned[m].url
  BY <1>1 DEF FloorRecords, Record
<1>4. \A m \in Steady : m \in EligiblePinned /\ Pinned[m].url \in Locations(m)
  BY <1>1, <1>2, SteadyAssumption DEF EligiblePinned, Locations
<1>5. EligiblePinned \subseteq Members
  BY <1>2, ChainAssumption DEF EligiblePinned
<1>6. BlocksOK
  BY <1>1, <1>2 DEF BlocksOK
<1>7. MembersOK
  BY <1>1, <1>3, <1>4, <1>5 DEF MembersOK, BaseVerified, BaseSteady, WorkSteady, EligiblePinned
<1>8. ServedOK /\ RefreshOK /\ CheckOK
  BY <1>1 DEF ServedOK, RefreshOK, CheckOK, Idle
<1>9. BootOK
  <2>1. DOMAIN boot = {"left", "running", "sources", "staggered", "waiting"} /\ boot.sources = <<>>
    BY <1>1
  <2>2. <<>> \in Seq(AllDocs) /\ DOMAIN <<>> = {}
    OBVIOUS
  <2> QED
    BY <2>1, <2>2 DEF BootOK, BootSourcesOK
<1> QED
  BY <1>6, <1>7, <1>8, <1>9 DEF TopoInv

LEMMA TopoStep ==
  ASSUME TopoInv, [Next]_vars
  PROVE  TopoInv' /\ Harmless
<1>1. CASE CheckTimer
  <2>1. /\ UNCHANGED <<block, boot>> /\ UNCHANGED kps /\ UNCHANGED refresh
        /\ RunChainCheck \/ UNCHANGED check
    BY <1>1 DEF CheckTimer, env
  <2> QED
    BY <2>1, KeepRefresh, RefreshKeepsKps
<1>2. CASE Disconnect \/ UNCHANGED vars
  <2>1. /\ UNCHANGED <<block, boot>> /\ UNCHANGED kps /\ UNCHANGED refresh /\ UNCHANGED check
    BY <1>2 DEF Disconnect, env, kps, vars
  <2> QED
    BY <2>1, KeepRefresh, RefreshKeepsKps
<1> QED
  BY <1>1, <1>2, NewBlockSound, BootStepSound, RefreshStepSound, CheckStepSound, EntrySwitchSound
  DEF Next

\* The inductive invariant holds in every reachable state of the client.
THEOREM TopologyInvariant == Spec => []TopoInv
<1>1. Init => TopoInv
  BY TopoInit
<1>2. TopoInv /\ [Next]_vars => TopoInv'
  BY TopoStep
<1> QED
  BY <1>1, <1>2, PTL DEF Spec

\* Whoever lies, as long as too few do for a quorum, the client routes by what the
\* registry says: members that stay are in the node list where they were registered,
\* and every node is a member the registry vouches for, under its key.
THEOREM MembershipIsSound == Spec => []MembershipSound
<1>1. TopoInv => MembershipSound
  <2>1. TopoInv => SteadyKept
    BY DEF TopoInv, MembersOK, WorkSteady, SteadyKept, Locations
  <2>2. TopoInv => IdentityVerified
    BY DEF TopoInv, MembersOK, BaseVerified, IdentityVerified
  <2> QED
    BY <2>1, <2>2 DEF MembershipSound
<1> QED
  BY <1>1, TopologyInvariant, PTL

\* The verified block never goes back, and after disconnect nothing the client
\* routes by changes.
THEOREM LateAnswersAreHarmless == Spec => LateAnswersHarmless
<1>1. TopoInv /\ [Next]_vars => [Harmless]_vars
  BY TopoStep
<1>2. [Harmless]_vars => [/\ verified'.block >= verified.block
                          /\ phase = "closed" => UNCHANGED kps]_vars
  BY DEF Harmless
<1> QED
  BY <1>1, <1>2, TopologyInvariant, PTL DEF Spec, LateAnswersHarmless

-----------------------------------------------------------------------------
(* Routes                                                                  *)

\* The exits stay: the second case of RouteAssumption.
ExitsStay ==
  \A b, c \in PinnedBlock..Len(Chain) : b <= c =>
    \A m \in DOMAIN Chain[b] \cap Exiting : Chain[b][m].ok => m \in DOMAIN Chain[c] /\ Chain[c][m].ok

TwoOf(set) == \E x, y \in set : x # y

\* The registry the client verified is that of its block.
RegistryTrue(v) ==
  /\ DOMAIN v.registry = DOMAIN Chain[MembershipBlock(v)]
  /\ \A m \in DOMAIN v.registry : v.registry[m] = Chain[MembershipBlock(v)][m]

\* A steady member that always publishes a KPS location is one of the entries.
EntriesStay(members) ==
  \A m \in Steady : (\A b \in PinnedBlock..Len(Chain) : Chain[b][m].kps) => members[m].kps

CanEnter(e, members, work, served) == e \in DOMAIN work /\ e \in Endpoints(members, served)

\* The inductive invariant on top of TopoInv: the list has two exits, and the entry
\* is a node of it that can be one.
RouteInv ==
  /\ RegistryTrue(verified) /\ EntriesStay(base) /\ TwoOf(DOMAIN working \cap Exiting)
  /\ Connected => CanEnter(entry, base, working, anchored)

\* The preferences of topology.ts choose among the candidates, and choose one.
LEMMA ChoiceMade ==
  ASSUME NEW S, NEW shunned, NEW budget
  PROVE  /\ PreferNotAvoided(WithinProbation(S, budget), shunned) \subseteq S
         /\ S # {} => PreferNotAvoided(WithinProbation(S, budget), shunned) # {}
<1>1. /\ WithinProbation(S, budget) \subseteq S
      /\ S # {} => WithinProbation(S, budget) # {}
  BY DEF WithinProbation, PreferSettled, Prefer, Settled
<1>2. ASSUME NEW T
      PROVE  PreferNotAvoided(T, shunned) \subseteq T /\ (T # {} => PreferNotAvoided(T, shunned) # {})
  BY DEF PreferNotAvoided, Prefer
<1> QED
  BY <1>1, <1>2

\* A mix: any node but the entry and a selected exit, and one that is no exit when
\* there is one.
LEMMA MixFound ==
  ASSUME NEW nodes, NEW e, NEW exit, NEW shunned, NEW max, nodes \ (exit \cup {e}) # {}
  PROVE  /\ MixChoices(nodes, e, exit, shunned, max) # {}
         /\ MixChoices(nodes, e, exit, shunned, max) \subseteq nodes \ (exit \cup {e})
         /\ \A r \in nodes \ (exit \cup {e}) :
              r \notin Exits(nodes) => MixChoices(nodes, e, exit, shunned, max) \cap Exits(nodes) = {}
<1> DEFINE eligible == Mixes(nodes) \ (exit \cup {e})
           budget   == max - OnProbation(exit \cup {e})
           relays   == PreferNotAvoided(WithinProbation(eligible \ Exits(nodes), budget), shunned)
           all      == PreferNotAvoided(WithinProbation(eligible, budget), shunned)
<1>1. MixChoices(nodes, e, exit, shunned, max) = IF relays # {} THEN relays ELSE all
  BY DEF MixChoices, Prefer
<1>2. eligible = nodes \ (exit \cup {e})
  BY DEF Mixes, LayersForRole
<1>3. relays \subseteq eligible \ Exits(nodes) /\ (eligible \ Exits(nodes) # {} => relays # {})
  BY ChoiceMade
<1>4. all \subseteq eligible /\ (eligible # {} => all # {})
  BY ChoiceMade
<1> HIDE DEF eligible, budget, relays, all
<1> QED
  BY <1>1, <1>2, <1>3, <1>4

LEMMA RouteChosen ==
  ASSUME NEW nodes, NEW pins, NEW chosen, NEW shunned, NEW max, ~PinsRefused(nodes, pins, chosen, max),
         NEW exit, exit = ById(Exits(nodes), chosen), NEW e \in EntryChoices(nodes, pins, exit, max),
         NEW k \in MixChoices(nodes, e, exit, shunned, max),
         NEW z \in ExitChoices(nodes, e, k, exit, shunned, max)
  PROVE  [entry |-> e, mix |-> k, exit |-> z] \in SelectRoute(nodes, pins, chosen, shunned, max)
BY DEF SelectRoute

\* Two exits and a relay are enough: selectRoute() then finds a route from any
\* entry, whatever is avoided or on probation.
LEMMA RouteFound ==
  ASSUME NEW nodes, \A n, k \in nodes : n.id = k.id => n = k, NEW e \in Entries(nodes),
         NEW x \in Exits(nodes), NEW y \in Exits(nodes), x # y, NEW r \in nodes, r.role = 1,
         NEW shunned, NEW max
  PROVE  SelectRoute(nodes, {e.id}, {}, shunned, max) # {}
<1>1. /\ e \in nodes /\ x \in nodes /\ y \in nodes /\ r \notin Exits(nodes)
      /\ ById(Entries(nodes), {e.id}) = {e} /\ ById(Exits(nodes), {}) = {}
  BY DEF Entries, Exits, ById
<1>2. OnProbation({}) = 0
  BY FS_EmptySet DEF OnProbation
<1>3. ~PinsRefused(nodes, {e.id}, {}, max)
  BY <1>1, <1>2 DEF PinsRefused
<1>4. EntryChoices(nodes, {e.id}, {}, max) = {e}
  BY <1>1 DEF EntryChoices
<1>5. PICK k \in MixChoices(nodes, e, {}, shunned, max) :
        k \in nodes \ {e} /\ (r # e => k \notin Exits(nodes))
  <2>1. nodes \ ({} \cup {e}) # {}
    BY <1>1
  <2> QED
    BY <1>1, <2>1, MixFound
<1>6. Exits(nodes) \ {e, k} # {}
  <2>1. CASE r = e
    BY <1>1, <2>1
  <2>2. CASE r # e
    BY <1>5, <2>2
  <2> QED
    BY <2>1, <2>2
<1>7. PICK z : z \in ExitChoices(nodes, e, k, {}, shunned, max)
  <2>1. ExitChoices(nodes, e, k, {}, shunned, max) =
          PreferNotAvoided(WithinProbation(Exits(nodes) \ {e, k}, max - OnProbation({e, k})), shunned)
    BY DEF ExitChoices
  <2> QED
    BY <1>6, <2>1, ChoiceMade
<1>8. [entry |-> e, mix |-> k, exit |-> z] \in SelectRoute(nodes, {e.id}, {}, shunned, max)
  <2>1. e \in EntryChoices(nodes, {e.id}, {}, max) /\ {} = ById(Exits(nodes), {})
    BY <1>1, <1>4
  <2> QED
    BY <1>3, <1>5, <1>7, <2>1, RouteChosen
<1> QED
  BY <1>8

\* A selected exit other than the entry is reached too, unless a settled exit could
\* be selected instead.
LEMMA ExitReached ==
  ASSUME NEW nodes, \A n, k \in nodes : n.id = k.id => n = k, NEW e \in Entries(nodes),
         NEW x \in Exits(nodes), x # e, nodes \ {x, e} # {}, NEW shunned, NEW max,
         x.probation => \A n \in Settled(Exits(nodes)) : n = e
  PROVE  SelectRoute(nodes, {e.id}, {x.id}, shunned, max) # {}
<1>1. /\ e \in nodes /\ x \in nodes
      /\ ById(Entries(nodes), {e.id}) = {e} /\ ById(Exits(nodes), {x.id}) = {x}
  BY DEF Entries, Exits, ById
<1>2. ~x.probation => OnProbation({x}) = 0
  <2>1. ~x.probation => {n \in {x} : n.probation} = {}
    OBVIOUS
  <2> QED
    BY <2>1, FS_EmptySet DEF OnProbation
<1>3. ~PinsRefused(nodes, {e.id}, {x.id}, max)
  <2>1. ~(OnProbation({x}) = 1 /\ \E n \in Settled(Exits(nodes)) : n.id \notin {e.id})
    BY <1>2
  <2> QED
    BY <1>1, <2>1 DEF PinsRefused
<1>4. EntryChoices(nodes, {e.id}, {x}, max) = {e}
  BY <1>1 DEF EntryChoices
<1>5. PICK k : k \in MixChoices(nodes, e, {x}, shunned, max)
  <2>1. nodes \ ({x} \cup {e}) # {}
    OBVIOUS
  <2> QED
    BY <2>1, MixFound
<1>6. x \in ExitChoices(nodes, e, k, {x}, shunned, max)
  BY DEF ExitChoices
<1>7. [entry |-> e, mix |-> k, exit |-> x] \in SelectRoute(nodes, {e.id}, {x.id}, shunned, max)
  BY <1>1, <1>3, <1>4, <1>5, <1>6, RouteChosen
<1> QED
  BY <1>7

\* And a paid call finds an exit.
LEMMA PaidExitFound ==
  ASSUME NEW nodes, \A n, k \in nodes : n.id = k.id => n = k, NEW e \in Entries(nodes),
         NEW x \in Exits(nodes), NEW y \in Exits(nodes), x # y, NEW r \in nodes, r.role = 1,
         NEW capable, \A n \in nodes : n.id \in capable, NEW max
  PROVE  PickPaidExit(nodes, capable, {e.id}, {}, max) # {}
<1> DEFINE preferred == PreferNotAvoided(ById(Exits(nodes), capable), {})
           served    == {z \in preferred : SelectRoute(nodes, {e.id}, {z.id}, {}, max) # {}}
<1>1. e \in nodes /\ x \in nodes /\ y \in nodes /\ r \notin Exits(nodes) /\ Exits(nodes) \subseteq nodes
  BY DEF Entries, Exits
<1>2. preferred = Exits(nodes)
  <2>1. ById(Exits(nodes), capable) = Exits(nodes)
    BY <1>1 DEF ById
  <2> QED
    BY <2>1 DEF PreferNotAvoided, Prefer
<1>3. PICK z \in Exits(nodes) : z # e /\ (z.probation => \A n \in Settled(Exits(nodes)) : n = e)
  <2>1. CASE \E n \in Settled(Exits(nodes)) : n # e
    BY <2>1 DEF Settled
  <2>2. CASE ~(\E n \in Settled(Exits(nodes)) : n # e)
    BY <2>2
  <2> QED
    BY <2>1, <2>2
<1>4. nodes \ {z, e} # {}
  BY <1>1
<1>5. z \in served
  BY <1>2, <1>3, <1>4, ExitReached
<1>6. PickPaidExit(nodes, capable, {e.id}, {}, max) =
        IF OnProbation(ById(nodes, {e.id})) > 0 THEN PreferSettled(served) ELSE served
  BY DEF PickPaidExit
<1> HIDE DEF served, preferred
<1> QED
  BY <1>5, <1>6 DEF PreferSettled, Prefer, Settled

LEMMA TwoCounted ==
  ASSUME NEW S, IsFiniteSet(S)
  PROVE  TwoOf(S) <=> Cardinality(S) >= 2
<1>1. Cardinality(S) \in Nat
  BY FS_CardinalityType
<1>2. ASSUME NEW x \in S, NEW y \in S, x # y
      PROVE  Cardinality(S) >= 2
  <2>1. Cardinality(S \ {x}) = Cardinality(S) - 1 /\ IsFiniteSet(S \ {x})
    BY FS_RemoveElement
  <2>2. Cardinality(S \ {x}) # 0 /\ Cardinality(S \ {x}) \in Nat
    BY <1>2, <2>1, FS_EmptySet, FS_CardinalityType
  <2> QED
    BY <1>1, <2>1, <2>2
<1>3. ASSUME ~TwoOf(S), S # {}
      PROVE  Cardinality(S) = 1
  <2>1. PICK x \in S : S = {x}
    BY <1>3 DEF TwoOf
  <2> QED
    BY <2>1, FS_Singleton
<1>4. S = {} => Cardinality(S) = 0
  BY FS_EmptySet
<1> QED
  BY <1>1, <1>2, <1>3, <1>4 DEF TwoOf

\* applyServedTopologies leaves two exits when the previous working set had two
\* that the membership still has: either two are online, or those come back.
LEMMA ApplyServedExits ==
  ASSUME NEW members, DOMAIN members \subseteq Members, NEW b, NEW entries, NEW previous, NEW served,
         TwoOf(previous \cap Exiting), previous \cap Exiting \subseteq DOMAIN members
  PROVE  TwoOf(DOMAIN ApplyServed(members, b, entries, served, previous).members \cap Exiting)
<1> DEFINE docs     == Accepted(members, served)
           listed   == Listed(members, docs, b)
           online   == ReportedOnline(members, docs, b)
           layer(l) == {m \in DOMAIN members : InLayer(m, l, m \in entries)}
           serving  == {l \in RouteLayers : layer(l) # {}}
           floor(l) == IF MinPerLayer < Cardinality(layer(l)) THEN MinPerLayer ELSE Cardinality(layer(l))
           short    == {l \in serving : Cardinality(layer(l) \cap online) < floor(l)}
           kept     == online \cup UNION {Restored(layer(l), online, listed, previous) : l \in short}
           quorum   == Cardinality(AnchorsOf(docs)) >= MinSources
           result   == ApplyServed(members, b, entries, served, previous)
           exits    == layer("exit")
<1>1. result.members = IF quorum THEN [m \in kept |-> AgreedUrl(m, members[m], docs, b)]
                                 ELSE [m \in DOMAIN members |-> members[m].url]
  BY DEF ApplyServed
<1>2. exits = DOMAIN members \cap Exiting
  BY DEF InLayer, Exiting
<1>3. previous \cap Exiting \subseteq exits /\ TwoOf(exits)
  BY <1>2 DEF TwoOf
<1>4. IsFiniteSet(exits) /\ IsFiniteSet(exits \cap online)
  BY <1>2, ChainAssumption, FS_Subset
<1>5. Cardinality(exits) \in Nat /\ Cardinality(exits) >= 2 /\ Cardinality(exits \cap online) \in Nat
  BY <1>3, <1>4, TwoCounted, FS_CardinalityType
<1>6. floor("exit") \in Nat /\ floor("exit") >= 2
  BY <1>5, RouteAssumption
<1>7. "exit" \in serving
  BY <1>3 DEF RouteLayers, TwoOf
<1> HIDE DEF docs, online, listed, layer, serving, floor, quorum, exits
<1>8. ASSUME quorum
      PROVE  TwoOf(kept \cap Exiting)
  <2>1. CASE Cardinality(exits \cap online) < floor("exit")
    <3>1. "exit" \in short
      BY <1>7, <2>1 DEF exits
    <3>2. Restored(exits, online, listed, previous) \subseteq kept
      BY <3>1 DEF exits
    <3>3. Restored(exits, online, listed, previous) = exits \cap previous
      BY <1>3 DEF Restored, TwoOf
    <3> QED
      BY <1>2, <1>3, <3>2, <3>3 DEF TwoOf
  <2>2. CASE ~(Cardinality(exits \cap online) < floor("exit"))
    <3>1. TwoOf(exits \cap online)
      BY <1>4, <1>5, <1>6, <2>2, TwoCounted
    <3> QED
      BY <1>2, <3>1 DEF TwoOf
  <2> QED
    BY <2>1, <2>2
<1> HIDE DEF kept, result
<1>9. DOMAIN result.members = IF quorum THEN kept ELSE DOMAIN members
  BY <1>1
<1>10. TwoOf(DOMAIN members \cap Exiting)
  BY <1>2, <1>3 DEF TwoOf
<1> QED
  BY <1>8, <1>9, <1>10 DEF result

\* Steady exits are in every node list; otherwise the exits of the last one have
\* not left the registry.
LEMMA ServedExits ==
  ASSUME BlocksOK, NEW members, BaseSteady(members), NEW b, NEW entries, NEW previous,
         NEW served, \A d \in served : Vouched(d), TwoOf(previous \cap Exiting),
         ExitsStay => previous \cap Exiting \subseteq DOMAIN members
  PROVE  TwoOf(DOMAIN ApplyServed(members, b, entries, served, previous).members \cap Exiting)
<1>1. CASE \E x, y \in Steady \cap Exiting : x # y
  BY <1>1, ApplyServedSteady DEF TwoOf, WorkSteady
<1>2. CASE ExitsStay
  BY <1>2, ApplyServedExits DEF BaseSteady
<1> QED
  BY <1>1, <1>2, RouteAssumption DEF ExitsStay

\* What a node list says of its members.
LEMMA NodesListed ==
  ASSUME NEW members, NEW work, NEW served
  PROVE  /\ \A n, k \in RoutingNodes(members, work, served) : n.id = k.id => n = k
         /\ \A m \in DOMAIN work : \E n \in RoutingNodes(members, work, served) :
              /\ n.id = m /\ n.role = Role[m]
              /\ n \in Entries(RoutingNodes(members, work, served)) <=> m \in Endpoints(members, served)
              /\ n \in Exits(RoutingNodes(members, work, served)) <=> Role[m] \in {2, 3}
         /\ \A n \in RoutingNodes(members, work, served) : n.id \in DOMAIN work
         /\ \A n \in Entries(RoutingNodes(members, work, served)) :
              n \in RoutingNodes(members, work, served) /\ CanEnter(n.id, members, work, served)
<1> DEFINE nodes == RoutingNodes(members, work, served)
           node(m) == [id |-> m, role |-> Role[m], entry |-> m \in Endpoints(members, served),
                       probation |-> members[m].probation]
<1>1. nodes = {node(m) : m \in DOMAIN work}
  BY DEF RoutingNodes
<1>2. \A m : /\ node(m).id = m /\ node(m).role = Role[m]
             /\ node(m).entry <=> m \in Endpoints(members, served)
  OBVIOUS
<1> HIDE DEF nodes, node
<1>3. \A n \in nodes : n \in Entries(nodes) <=> n.entry
  BY DEF Entries, LayersForRole
<1>4. \A n \in nodes : n \in Exits(nodes) <=> n.role \in {2, 3}
  BY DEF Exits, LayersForRole
<1>5. \A n \in nodes : \E m \in DOMAIN work : n = node(m)
  BY <1>1
<1>6. \A n, k \in nodes : n.id = k.id => n = k
  BY <1>2, <1>5
<1>7. \A m \in DOMAIN work : node(m) \in nodes
  BY <1>1
<1>8. \A m \in DOMAIN work : \E n \in nodes :
        /\ n.id = m /\ n.role = Role[m]
        /\ n \in Entries(nodes) <=> m \in Endpoints(members, served)
        /\ n \in Exits(nodes) <=> Role[m] \in {2, 3}
  BY <1>2, <1>3, <1>4, <1>7
<1>9. \A n \in Entries(nodes) : n \in nodes /\ n.id \in DOMAIN work /\ n.id \in Endpoints(members, served)
  <2>1. Entries(nodes) \subseteq nodes
    BY DEF Entries
  <2> QED
    BY <1>2, <1>3, <1>5, <2>1
<1>10. \A n \in nodes : n.id \in DOMAIN work
  BY <1>2, <1>5
<1> QED
  BY <1>6, <1>8, <1>9, <1>10 DEF nodes, CanEnter

\* The invariant makes every call routable.
LEMMA RoutableNow ==
  ASSUME TopoInv, RouteInv
  PROVE  CallsRoutable
<1> SUFFICES ASSUME Connected
             PROVE  /\ \A m \in DOMAIN working : SelectRoute(Nodes, {entry}, {}, {m}, MaxProbation) # {}
                    /\ PickPaidExit(Nodes, Members, {entry}, {}, MaxProbation) # {}
  BY DEF CallsRoutable
<1>1. PICK r \in Steady : Role[r] = 1
  BY RouteAssumption
<1>2. r \in DOMAIN working /\ DOMAIN working \subseteq Members
  BY DEF TopoInv, MembersOK, WorkSteady, BaseSteady
<1>3. PICK v, w \in DOMAIN working \cap Exiting : v # w
  BY DEF RouteInv, TwoOf
<1>4. entry \in DOMAIN working /\ entry \in Endpoints(base, anchored)
  BY DEF RouteInv, CanEnter
<1>5. Role[v] \in {2, 3} /\ Role[w] \in {2, 3}
  BY <1>3 DEF Exiting
<1>6. PICK e \in Entries(Nodes) : e.id = entry
  BY <1>4, NodesListed DEF Nodes
<1>7. PICK x \in Exits(Nodes) : x.id = v
  BY <1>3, <1>5, NodesListed DEF Nodes
<1>8. PICK y \in Exits(Nodes) : y.id = w
  BY <1>3, <1>5, NodesListed DEF Nodes
<1>9. PICK n \in Nodes : n.role = 1
  BY <1>1, <1>2, NodesListed DEF Nodes
<1>10. /\ \A k, l \in Nodes : k.id = l.id => k = l
       /\ \A k \in Nodes : k.id \in Members
  BY <1>2, NodesListed DEF Nodes
<1>11. x # y
  BY <1>3, <1>7, <1>8
<1>12. \A m \in DOMAIN working : SelectRoute(Nodes, {entry}, {}, {m}, MaxProbation) # {}
  BY <1>6, <1>9, <1>10, <1>11, RouteFound
<1>13. PickPaidExit(Nodes, Members, {entry}, {}, MaxProbation) # {}
  BY <1>6, <1>9, <1>10, <1>11, PaidExitFound
<1> QED
  BY <1>12, <1>13

-----------------------------------------------------------------------------
(* The entry and the exits, step by step                                   *)

\* A steady relay that publishes a KPS location can always be the entry.
LEMMA EntriesLeft ==
  ASSUME NEW members, NEW work, NEW served, BaseSteady(members), EntriesStay(members), WorkSteady(work)
  PROVE  /\ PickEntry(RoutingNodes(members, work, served)) # {}
         /\ \A e \in PickEntry(RoutingNodes(members, work, served)) : CanEnter(e, members, work, served)
<1> DEFINE nodes == RoutingNodes(members, work, served)
<1>1. PICK r \in Steady : \A b \in PinnedBlock..Len(Chain) : Chain[b][r].kps
  BY RouteAssumption
<1>2. r \in DOMAIN work /\ r \in Endpoints(members, served)
  BY <1>1 DEF WorkSteady, BaseSteady, EntriesStay, Endpoints
<1>3. Entries(nodes) # {}
  BY <1>2, NodesListed
<1>4. PreferSettled(Entries(nodes)) # {} /\ PreferSettled(Entries(nodes)) \subseteq Entries(nodes)
  BY <1>3 DEF PreferSettled, Prefer, Settled
<1>5. PickEntry(nodes) = {n.id : n \in PreferSettled(Entries(nodes))}
  BY DEF PickEntry
<1>6. \A n \in Entries(nodes) : CanEnter(n.id, members, work, served)
  BY NodesListed
<1> HIDE DEF nodes
<1>7. PickEntry(nodes) # {} /\ \A e \in PickEntry(nodes) : CanEnter(e, members, work, served)
  BY <1>4, <1>5, <1>6
<1> QED
  BY <1>7 DEF nodes

\* The entry stays while it can, else one that can is drawn.
LEMMA SetNodesEntry ==
  ASSUME NEW members, NEW work, BaseSteady(members), EntriesStay(members), WorkSteady(work),
         SetNodes(members, work)
  PROVE  CanEnter(entry', members, work, anchored)
<1> DEFINE nodes == RoutingNodes(members, work, anchored)
<1>1. entry' \in EntryAfter(nodes)
  BY DEF SetNodes
<1>2. PickEntry(nodes) # {} /\ \A e \in PickEntry(nodes) : CanEnter(e, members, work, anchored)
  BY EntriesLeft
<1>3. \A n \in nodes : n.entry => n \in Entries(nodes)
  BY DEF Entries, LayersForRole
<1>4. \A n \in Entries(nodes) : CanEnter(n.id, members, work, anchored)
  BY NodesListed
<1> HIDE DEF nodes
<1>5. CASE \E n \in nodes : n.id = entry /\ n.entry
  BY <1>1, <1>3, <1>4, <1>5 DEF EntryAfter
<1>6. CASE ~(\E n \in nodes : n.id = entry /\ n.entry)
  BY <1>1, <1>2, <1>6 DEF EntryAfter
<1> QED
  BY <1>5, <1>6

\* What a verified read leaves of the exits and the entries.
LEMMA ReadRoutes ==
  ASSUME TopoInv, RouteInv, NEW b \in PinnedBlock..block, b >= MembershipBlock(verified),
         NEW registry, DOMAIN registry = DOMAIN Chain[b],
         \A m \in DOMAIN registry : registry[m] = Chain[b][m], NEW seen, NEW now
  PROVE  /\ EntriesStay(MembershipFromChain(registry, seen, now))
         /\ ExitsStay => DOMAIN working \cap Exiting \subseteq DOMAIN MembershipFromChain(registry, seen, now)
<1> DEFINE members == MembershipFromChain(registry, seen, now)
           read    == EligibleRecords(registry, seen, now)
<1>1. FloorKept(members, read)
  BY MembershipKept
<1>2. /\ DOMAIN read = {m \in DOMAIN registry : registry[m].ok}
      /\ \A m \in DOMAIN read : read[m].kps = registry[m].kps
  BY DEF EligibleRecords, Record
<1> HIDE DEF members, read
<1>3. /\ b \in PinnedBlock..Len(Chain) /\ PinnedBlock \in PinnedBlock..Len(Chain)
      /\ MembershipBlock(verified) \in PinnedBlock..Len(Chain) /\ PinnedBlock <= b /\ MembershipBlock(verified) <= b
  BY ChainAssumption DEF BlocksOK, TopoInv, MembershipBlock
<1>4. EntriesStay(members)
  <2>1. \A m \in Steady : m \in DOMAIN Chain[b] /\ Chain[b][m].ok
    BY <1>3, SteadyAssumption
  <2>2. \A m \in Steady : m \in DOMAIN read /\ members[m].kps = Chain[b][m].kps
    BY <1>1, <1>2, <2>1 DEF FloorKept
  <2> QED
    BY <1>3, <2>2 DEF EntriesStay
<1>5. ASSUME ExitsStay, NEW m \in DOMAIN working \cap Exiting
      PROVE  m \in DOMAIN members
  <2>1. m \in DOMAIN base
    BY DEF TopoInv, MembersOK
  <2>2. \/ m \in DOMAIN verified.registry /\ verified.registry[m].ok
        \/ m \in EligiblePinned
    BY <2>1 DEF TopoInv, MembersOK, BaseVerified
  <2>3. PICK c \in PinnedBlock..Len(Chain) : c <= b /\ m \in DOMAIN Chain[c] /\ Chain[c][m].ok
    <3>1. CASE m \in DOMAIN verified.registry /\ verified.registry[m].ok
      BY <1>3, <3>1 DEF RouteInv, RegistryTrue
    <3>2. CASE m \in EligiblePinned
      BY <1>3, <3>2, ChainAssumption DEF EligiblePinned
    <3> QED
      BY <2>2, <3>1, <3>2
  <2>4. m \in DOMAIN Chain[b] /\ Chain[b][m].ok
    BY <1>3, <1>5, <2>3 DEF ExitsStay
  <2> QED
    BY <1>1, <1>2, <2>4 DEF FloorKept
<1> QED
  BY <1>4, <1>5 DEF members

LEMMA ChainOutcomeRoutes ==
  ASSUME TopoInv, RouteInv, check.block \in PinnedBlock..block, check.block >= MembershipBlock(verified),
         NEW read, Closes(Answer(Chain[check.block], read)),
         ApplyChainOutcome(Answer(Chain[check.block], read).members), UNCHANGED anchored
  PROVE  RouteInv'
<1> DEFINE registry == Answer(Chain[check.block], read).members
           seen     == FirstSeenAfter(registry, firstSeen, check.block)
           members  == MembershipFromChain(registry, seen, block)
           result   == ApplyServed(members, check.block, Endpoints(members, anchored), lastServed,
                                   DOMAIN working)
           work     == IF result.stale \/ result.accepted = {}
                         THEN [m \in DOMAIN members |-> members[m].url] ELSE result.members
<1>1. /\ base' = members /\ verified' = [block |-> check.block, registry |-> registry]
      /\ working' = work /\ SetNodes(members, work)
  BY DEF ApplyChainOutcome, SetNodes
<1>2. check.block \in PinnedBlock..Len(Chain) /\ IsFiniteSet(DOMAIN Chain[check.block])
  BY ChainAssumption, FS_Subset DEF TopoInv, BlocksOK
<1>3. DOMAIN registry = DOMAIN Chain[check.block] /\ \A m \in DOMAIN registry : registry[m] = Chain[check.block][m]
  BY <1>2, ClosedIsWhole
<1> HIDE DEF registry, seen
<1>4. BaseSteady(members)
  BY <1>3, ReadMembership DEF TopoInv
<1>5. EntriesStay(members) /\ (ExitsStay => DOMAIN working \cap Exiting \subseteq DOMAIN members)
  BY <1>3, ReadRoutes
<1> HIDE DEF members
<1>6. TwoOf(DOMAIN working \cap Exiting)
  BY DEF RouteInv
<1>7. TwoOf(DOMAIN result.members \cap Exiting) /\ WorkSteady(result.members)
  BY <1>4, <1>5, <1>6, ServedExits, ApplyServedSteady DEF TopoInv, ServedOK
<1>8. TwoOf(DOMAIN members \cap Exiting)
  <2>1. CASE \E x, y \in Steady \cap Exiting : x # y
    BY <1>4, <2>1 DEF BaseSteady, TwoOf
  <2>2. CASE ExitsStay
    BY <1>5, <1>6, <2>2 DEF TwoOf
  <2> QED
    BY <2>1, <2>2, RouteAssumption DEF ExitsStay
<1> HIDE DEF result
<1>9. TwoOf(DOMAIN work \cap Exiting) /\ WorkSteady(work)
  <2>1. CASE result.stale \/ result.accepted = {}
    <3>1. work = [m \in DOMAIN members |-> members[m].url]
      BY <2>1
    <3> QED
      BY <1>4, <1>8, <3>1 DEF WorkSteady, BaseSteady
  <2>2. CASE ~(result.stale \/ result.accepted = {})
    BY <1>7, <2>2
  <2> QED
    BY <2>1, <2>2
<1> HIDE DEF work
<1>10. CanEnter(entry', members, work, anchored)
  BY <1>1, <1>4, <1>5, <1>9, SetNodesEntry
<1>11. RegistryTrue(verified')
  <2>1. verified'.block = check.block /\ verified'.registry = registry /\ check.block # 0
    BY <1>1, ChainAssumption
  <2> QED
    BY <1>3, <2>1 DEF RegistryTrue, MembershipBlock
<1> QED
  BY <1>1, <1>5, <1>9, <1>10, <1>11 DEF RouteInv, RegistryTrue, EntriesStay, MembershipBlock, CanEnter, Endpoints

\* A refresh applies documents to the membership.
LEMMA RefreshRoutes ==
  ASSUME TopoInv, RouteInv, NEW served, \A d \in served : Vouched(d), RefreshApplies(ServedNow(served)),
         ServedNow(served).accepted # {}, UNCHANGED anchored
  PROVE  RouteInv'
<1> DEFINE result == ServedNow(served)
<1>1. /\ working' = result.members /\ SetNodes(base, result.members)
      /\ base' = base /\ verified' = verified
  BY DEF RefreshApplies, SetNodes
<1>2. BaseSteady(base) /\ DOMAIN working \subseteq DOMAIN base /\ BlocksOK
  BY DEF TopoInv, MembersOK
<1>3. EntriesStay(base) /\ TwoOf(DOMAIN working \cap Exiting) /\ RegistryTrue(verified)
  BY DEF RouteInv
<1>4. TwoOf(DOMAIN result.members \cap Exiting) /\ WorkSteady(result.members)
  BY <1>2, <1>3, ServedExits, ApplyServedSteady DEF ServedNow
<1> HIDE DEF result
<1>5. CanEnter(entry', base, result.members, anchored)
  BY <1>1, <1>2, <1>3, <1>4, SetNodesEntry
<1> QED
  BY <1>1, <1>3, <1>4, <1>5 DEF RouteInv, RegistryTrue, EntriesStay, MembershipBlock, CanEnter, Endpoints

\* Nothing the client routes by changes, and it stays connected or not.
LEMMA SameRoutes ==
  ASSUME RouteInv, UNCHANGED kps, UNCHANGED anchored, Connected' => Connected
  PROVE  RouteInv'
BY DEF RouteInv, RegistryTrue, EntriesStay, MembershipBlock, CanEnter, Endpoints, kps

\* The boot connects.
LEMMA ConnectRoutes ==
  ASSUME TopoInv, RouteInv, NEW b, BootSourcesOK(b), Connect(b), phase = "boot"
  PROVE  RouteInv'
<1> DEFINE docs   == {b.sources[i] : i \in DOMAIN b.sources}
           served == AnchorsOf(docs)
           result == ApplyServed(base, PinnedBlock, Endpoints(base, served), docs, DOMAIN base)
           nodes  == RoutingNodes(base, result.members, served)
           order  == SelectSeq(b.sources, LAMBDA d : d \in result.accepted)
<1>1. \/ phase' = "failed" /\ UNCHANGED <<kps, anchored>>
      \/ /\ anchored' = served /\ working' = result.members
         /\ entry' \in IF \E n \in Entries(nodes) : n.id = order[1].anchor
                         THEN {order[1].anchor} ELSE PickEntry(nodes)
         /\ UNCHANGED <<base, verified, firstSeen>>
  BY DEF Connect
<1>2. CASE phase' = "failed" /\ UNCHANGED <<kps, anchored>>
  BY <1>2, SameRoutes DEF Connected
<1>3. CASE /\ anchored' = served /\ working' = result.members
           /\ entry' \in IF \E n \in Entries(nodes) : n.id = order[1].anchor
                           THEN {order[1].anchor} ELSE PickEntry(nodes)
           /\ UNCHANGED <<base, verified, firstSeen>>
  <2>1. \A d \in docs : Vouched(d)
    BY DEF BootSourcesOK
  <2>2. /\ BaseSteady(base) /\ BlocksOK /\ DOMAIN working \subseteq DOMAIN base
        /\ EntriesStay(base) /\ TwoOf(DOMAIN working \cap Exiting) /\ RegistryTrue(verified)
    BY DEF TopoInv, MembersOK, RouteInv
  <2>3. TwoOf(DOMAIN base \cap Exiting)
    BY <2>2 DEF TwoOf
  <2>4. TwoOf(DOMAIN result.members \cap Exiting) /\ WorkSteady(result.members)
    BY <2>1, <2>2, <2>3, ServedExits, ApplyServedSteady
  <2>5. \A n \in Entries(nodes) : CanEnter(n.id, base, result.members, served)
    BY NodesListed
  <2>6. \A e \in PickEntry(nodes) : CanEnter(e, base, result.members, served)
    BY <2>2, <2>4, EntriesLeft
  <2> HIDE DEF docs, served, result, nodes, order
  <2>7. CanEnter(entry', base, result.members, served)
    BY <1>3, <2>5, <2>6
  <2> QED
    BY <1>3, <2>2, <2>4, <2>7 DEF RouteInv, RegistryTrue, EntriesStay, MembershipBlock, CanEnter, Endpoints
<1> QED
  BY <1>1, <1>2, <1>3

\* A check or a refresh that applies nothing, and a boot that fails, change nothing
\* either; the others are the lemmas above.
LEMMA CheckRoutes ==
  ASSUME TopoInv, RouteInv, CheckStep
  PROVE  RouteInv'
<1>1. UNCHANGED anchored /\ UNCHANGED phase
  BY DEF CheckStep, CheckInsufficient, CheckPins, CheckPinFails, CheckAgrees, CheckDisagrees,
         CheckReadFails, CheckScansLogs, CheckScanFails
<1>2. Connected' => Connected
  BY <1>1 DEF Connected
<1>3. CheckFails => UNCHANGED kps
  BY DEF CheckFails
<1>4. NextPairing => UNCHANGED kps
  BY <1>3 DEF NextPairing
<1>5. CASE CheckAgrees
  <2>1. /\ check.block \in PinnedBlock..block /\ check.block >= check.minBlock
        /\ \E x \in check.pairs : ~Lies(x) /\ check.minBlock = MembershipBlock(verified)
    BY <1>5 DEF CheckAgrees, TopoInv, CheckOK
  <2>2. Agreed = {Chain[check.block]}
    BY <2>1 DEF Agreed
  <2> DEFINE answer == Answer(Chain[check.block], check.read)
  <2>3. \/ Closes(answer) /\ CheckVerified(answer.members)
        \/ UNCHANGED kps
    BY <1>3, <1>5, <2>2 DEF CheckAgrees
  <2>4. CASE UNCHANGED kps
    BY <1>1, <1>2, <2>4, SameRoutes
  <2>5. CASE Closes(answer) /\ CheckVerified(answer.members)
    <3>1. CASE phase = "ready"
      BY <1>1, <2>1, <2>5, <3>1, ChainOutcomeRoutes DEF CheckVerified
    <3>2. CASE phase # "ready"
      BY <2>4, <2>5, <3>2 DEF CheckVerified
    <3> QED
      BY <3>1, <3>2
  <2> QED
    BY <2>3, <2>4, <2>5
<1>6. CASE ~CheckAgrees
  <2>1. CheckInsufficient \/ CheckScanFails => UNCHANGED kps
    BY <1>3 DEF CheckInsufficient, CheckScanFails
  <2>2. CheckPinFails \/ CheckDisagrees \/ CheckReadFails => UNCHANGED kps
    BY <1>4 DEF CheckPinFails, CheckDisagrees, CheckReadFails
  <2>3. CheckPins => UNCHANGED kps
    BY <1>4 DEF CheckPins
  <2>4. CheckScansLogs => UNCHANGED kps
    BY <1>3 DEF CheckScansLogs
  <2>5. UNCHANGED kps
    BY <1>6, <2>1, <2>2, <2>3, <2>4 DEF CheckStep
  <2> QED
    BY <1>1, <1>2, <2>5, SameRoutes
<1> QED
  BY <1>5, <1>6

LEMMA BootRoutes ==
  ASSUME TopoInv, RouteInv, BootStep
  PROVE  RouteInv'
<1>1. phase = "boot"
  BY BootGathers
<1>2. PICK b : BootSourcesOK(b) /\ (BootContinues(b) \/ Connect(b))
  BY BootGathers
<1>3. CASE Connect(b)
  BY <1>1, <1>2, <1>3, ConnectRoutes
<1>4. CASE UNCHANGED <<phase, kps, anchored>>
  BY <1>4, SameRoutes DEF Connected
<1> QED
  BY <1>2, <1>3, <1>4 DEF BootContinues

LEMMA RefreshStepRoutes ==
  ASSUME TopoInv, RouteInv, RefreshStep
  PROVE  RouteInv'
<1>1. UNCHANGED anchored /\ UNCHANGED phase
  BY DEF RefreshStep, RefreshStart, RefreshFetched, RefreshRetries
<1>2. Connected' => Connected
  BY <1>1 DEF Connected
<1>3. \A result : RefreshApplies(result) => result.accepted # {} \/ UNCHANGED kps
  BY DEF RefreshApplies, RefreshError
<1>4. CASE UNCHANGED kps
  BY <1>1, <1>2, <1>4, SameRoutes
<1>5. CASE RefreshStart
  BY <1>4, <1>5 DEF RefreshStart
<1>6. CASE RefreshFetched
  <2>1. PICK s \in Served(refresh.anchors) : UNCHANGED kps \/ RefreshApplies(ServedNow(s.docs))
    BY <1>6 DEF RefreshFetched, RefreshError
  <2>2. \A d \in s.docs : Vouched(d)
    BY ServedVouched DEF TopoInv
  <2> QED
    BY <1>1, <1>3, <1>4, <2>1, <2>2, RefreshRoutes
<1>7. CASE RefreshRetries
  <2>1. UNCHANGED kps \/ RefreshApplies(ServedNow(refresh.served))
    BY <1>7 DEF RefreshRetries, RefreshError
  <2>2. \A d \in refresh.served : Vouched(d)
    BY <1>7 DEF RefreshRetries, TopoInv, RefreshOK
  <2> QED
    BY <1>1, <1>3, <1>4, <2>1, <2>2, RefreshRoutes
<1> QED
  BY <1>5, <1>6, <1>7 DEF RefreshStep

LEMMA EntrySwitchRoutes ==
  ASSUME TopoInv, RouteInv, EntrySwitch
  PROVE  RouteInv'
<1>1. /\ UNCHANGED <<base, verified, working, anchored, phase>>
      /\ entry' = entry \/ \E n \in Entries(Nodes) : entry' = n.id
  BY DEF EntrySwitch, OtherEntries
<1>2. \A n \in Entries(Nodes) : CanEnter(n.id, base, working, anchored)
  BY NodesListed DEF Nodes
<1>3. Connected => CanEnter(entry, base, working, anchored)
  BY DEF RouteInv
<1>4. Connected => CanEnter(entry', base, working, anchored)
  BY <1>1, <1>2, <1>3
<1> QED
  BY <1>1, <1>4 DEF RouteInv, RegistryTrue, EntriesStay, MembershipBlock, CanEnter, Endpoints, Connected

LEMMA RouteInit ==
  ASSUME Init
  PROVE  RouteInv
<1>1. /\ base = FloorRecords /\ verified = [block |-> 0, registry |-> Pinned] /\ phase = "boot"
      /\ working = [m \in EligiblePinned |-> Pinned[m].url]
  BY DEF Init
<1>2. PinnedBlock \in PinnedBlock..Len(Chain) /\ Chain[PinnedBlock] = Pinned
  BY ChainAssumption
<1>3. RegistryTrue(verified) /\ ~Connected
  BY <1>1, <1>2 DEF RegistryTrue, MembershipBlock, Connected
<1>4. \A m \in Steady : m \in EligiblePinned
  BY <1>2, SteadyAssumption DEF EligiblePinned
<1>5. EntriesStay(base)
  BY <1>1, <1>2, <1>4 DEF EntriesStay, FloorRecords, Record
<1>6. DOMAIN working = EligiblePinned
  BY <1>1
<1>7. TwoOf(DOMAIN working \cap Exiting)
  BY <1>4, <1>6, RouteAssumption DEF TwoOf
<1> QED
  BY <1>3, <1>5, <1>7 DEF RouteInv

LEMMA RouteStep ==
  ASSUME TopoInv, RouteInv, [Next]_vars
  PROVE  RouteInv'
<1>1. CASE NewBlock \/ CheckTimer \/ Disconnect \/ UNCHANGED vars
  <2>1. UNCHANGED kps /\ UNCHANGED anchored
    BY <1>1 DEF NewBlock, CheckTimer, Disconnect, kps, vars
  <2>2. Connected' => Connected
    BY <1>1 DEF NewBlock, CheckTimer, Disconnect, vars, Connected
  <2> QED
    BY <2>1, <2>2, SameRoutes
<1> QED
  BY <1>1, BootRoutes, RefreshStepRoutes, CheckRoutes, EntrySwitchRoutes DEF Next

\* While connected every call is routable through the entry around any one node, and
\* a paid call finds an exit, whatever is offline, whoever lies and however the
\* registry changes within RouteAssumption: refreshes, chain checks and entry
\* switches never leave the client without an entry or with a single exit.
THEOREM CallsAreRoutable == Spec => []CallsRoutable
<1>1. Init => RouteInv
  BY RouteInit
<1>2. TopoInv /\ RouteInv /\ [Next]_vars => RouteInv'
  BY RouteStep
<1>3. TopoInv /\ RouteInv => CallsRoutable
  BY RoutableNow
<1> QED
  BY <1>1, <1>2, <1>3, TopologyInvariant, PTL DEF Spec

=============================================================================
