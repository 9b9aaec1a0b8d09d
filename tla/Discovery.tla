----------------------------- MODULE Discovery -----------------------------
(***************************************************************************)
(* What the client concludes from the two sources it has on the members of *)
(* the network, neither of which it trusts alone: topology documents that  *)
(* anchors serve (nox-client/src/kps/pinned.ts), which may only remove and *)
(* relocate members, and registry reads through pairs of an exit and a     *)
(* provider (nox-client/src/kps/discovery.ts), which replace the           *)
(* membership.                                                             *)
(*                                                                         *)
(* A registry is a function from the registered members to profiles        *)
(* [key, url, kps, ok]: the identity, the routing location, whether a KPS  *)
(* entry address is published, and eligibility (status, not frozen).  A    *)
(* document is [anchor, block, sound, lists, online]: lists maps members   *)
(* to [key, url], online is the set reported online with a fresh           *)
(* observation, sound stands for self-consistency, complete liveness and a *)
(* timestamp in the window.                                                *)
(***************************************************************************)
EXTENDS Routes, Sequences, SequencesExt

CONSTANTS
  Members,          \* every registry address that occurs
  Role,             \* role of each member (part of its identity)
  Pinned,           \* registry of the bundle's snapshot
  PinnedOrder,      \* its members in address order
  PinnedBlock,      \* block of the snapshot
  MinSources,       \* policy.minRemovalSources
  MinPerLayer,      \* policy.minMembersPerLayer
  ProbationTime,    \* policy.probationSeconds
  MaxCandidates     \* DISCOVERY_LIMITS.maxCandidates

RouteLayers == {"entry", "mix", "exit"}

\* isInLayer and FLOOR_LAYERS: who can serve a layer; only entries need a KPS location.
InLayer(m, layer, kps) ==
  CASE layer = "entry" -> 0 \in LayersForRole(Role[m]) /\ kps
    [] layer = "mix"   -> 1 \in LayersForRole(Role[m])
    [] layer = "exit"  -> Role[m] \in {2, 3}

EligiblePinned == {m \in DOMAIN Pinned : Pinned[m].ok}

\* A member record: its registry profile, floor flag and probation flag.
Record(profile, floor, probation) ==
  [key |-> profile.key, url |-> profile.url, kps |-> profile.kps,
   floor |-> floor, probation |-> probation]

FloorRecords == [m \in EligiblePinned |-> Record(Pinned[m], TRUE, FALSE)]

-----------------------------------------------------------------------------
(* Served documents. *)

HasIdentity(doc, m, record) == m \in DOMAIN doc.lists /\ doc.lists[m].key = record.key

\* rejectionReason: the anchor must be a known member that its own document lists.
Accepted(base, served) ==
  {d \in served : /\ Cardinality(DOMAIN d.lists) <= MaxCandidates
                  /\ d.sound
                  /\ d.block >= PinnedBlock
                  /\ d.anchor \in DOMAIN base
                  /\ HasIdentity(d, d.anchor, base[d.anchor])}

AnchorsOf(docs) == {d.anchor : d \in docs}

\* Documents that all predate the membership say nothing on a member none of them lists.
Unknown(m, docs, block) == \A d \in docs : d.block < block /\ m \notin DOMAIN d.lists

Present(m, record, docs) == {d \in docs : HasIdentity(d, m, record)}

Listed(base, docs, block) ==
  {m \in DOMAIN base : Present(m, base[m], docs) # {} \/ Unknown(m, docs, block)}

ReportedOnline(base, docs, block) ==
  {m \in DOMAIN base : \/ \E d \in Present(m, base[m], docs) : m \in d.online
                       \/ Unknown(m, docs, block)}

\* Bug: one newer document moves a member.
AgreedUrlOfOne(m, record, docs, block) ==
  LET other == {d.lists[m].url : d \in {e \in Present(m, record, docs) : e.block > block}} \ {record.url}
  IN IF Cardinality(other) = 1 THEN CHOOSE u \in other : TRUE ELSE record.url

\* agreedNewUrl: the one other location that enough anchors list in newer
\* documents; with none, or with two, the known location stays.
AgreedUrl(m, record, docs, block) ==
  LET newer    == {d \in Present(m, record, docs) : d.block > block}
      other    == {d.lists[m].url : d \in newer} \ {record.url}
      agreed   == {u \in other : Cardinality(AnchorsOf({d \in newer : d.lists[m].url = u}))
                                   >= MinSources}
  IN IF Cardinality(agreed) = 1 THEN CHOOSE u \in agreed : TRUE ELSE record.url

\* Bug: a layer that is offline gets nobody back.
RestoredNobody(inLayer, online, listed, previous) == {}

\* The members a layer gets back when too few of it are online: those of the
\* previous working set, or, when that leaves it empty, those still listed.
Restored(inLayer, online, listed, previous) ==
  IF inLayer \cap (online \cup previous) = {} THEN inLayer \cap listed ELSE inLayer \cap previous

\* applyServedTopologies: base is the known membership, block its block,
\* entries the members with an entry location, previous the working set so far.
ApplyServed(base, block, entries, served, previous) ==
  LET docs     == Accepted(base, served)
      listed   == Listed(base, docs, block)
      online   == ReportedOnline(base, docs, block)
      layer(l) == {m \in DOMAIN base : InLayer(m, l, m \in entries)}
      serving  == {l \in RouteLayers : layer(l) # {}}
      floor(l) == IF MinPerLayer < Cardinality(layer(l)) THEN MinPerLayer ELSE Cardinality(layer(l))
      short    == {l \in serving : Cardinality(layer(l) \cap online) < floor(l)}
      kept     == online \cup UNION {Restored(layer(l), online, listed, previous) : l \in short}
      quorum   == Cardinality(AnchorsOf(docs)) >= MinSources
  IN [stale    |-> quorum /\ \E l \in serving : layer(l) \cap listed = {},
      accepted |-> docs,
      quorum   |-> quorum,
      members  |-> IF quorum
                     THEN [m \in kept |-> AgreedUrl(m, base[m], docs, block)]
                     ELSE [m \in DOMAIN base |-> base[m].url]]

-----------------------------------------------------------------------------
(* Registry reads. *)

\* rankChainCandidates: the core set, then what several anchors list, then the
\* rest; within the tier that does not fit, any choice.
RankCandidates(core, docs) ==
  LET by(m)   == AnchorsOf({d \in docs : m \in DOMAIN d.lists})
      others  == UNION {DOMAIN d.lists : d \in docs} \ core
      multi   == {m \in others : Cardinality(by(m)) >= MinSources}
      fill(set, tier) ==
        LET room == MaxCandidates - Cardinality(set)
        IN IF Cardinality(tier) <= room
             THEN {set \cup tier}
             ELSE {set \cup t : t \in {u \in SUBSET tier : Cardinality(u) = room}}
  IN UNION {UNION {fill(t, others \ multi) : t \in fill(s, multi)} : s \in fill({}, core)}

\* parseRegistryAnswer for a provider that sees registry: what one read of
\* the candidates returns, the count and the fingerprint covering everybody.
Answer(registry, candidates) ==
  [count       |-> Cardinality(DOMAIN registry),
   fingerprint |-> [m \in DOMAIN registry |-> registry[m].key],
   members     |-> [m \in candidates \cap DOMAIN registry |-> registry[m]]]

\* closeMembership: an answer is used only when it accounts for every
\* registered member.
Incomplete(answer) == Cardinality(DOMAIN answer.members) < answer.count

Closes(answer) ==
  /\ Cardinality(DOMAIN answer.members) = answer.count
  /\ answer.fingerprint = [m \in DOMAIN answer.members |-> answer.members[m].key]

IsFloor(m, profile) == m \in EligiblePinned /\ Pinned[m].key = profile.key

\* When the client first saw on chain each eligible member that is not a floor member.
FirstSeenAfter(registry, firstSeen, block) ==
  [m \in {n \in DOMAIN registry : registry[n].ok /\ ~IsFloor(n, registry[n])} |->
     IF m \in DOMAIN firstSeen THEN firstSeen[m] ELSE block]

EligibleRecords(registry, seen, now) ==
  [m \in {n \in DOMAIN registry : registry[n].ok} |->
     LET floor == IsFloor(m, registry[m])
     IN Record(registry[m], floor, ~floor /\ now - seen[m] < ProbationTime)]

\* One step of the removal floor: while a layer has too few floor members, the
\* next snapshot member that the read left out comes back as the snapshot has it.
KeepByFloor(base, layer, m) ==
  LET inLayer == {n \in EligiblePinned : InLayer(n, layer, Pinned[n].kps)}
      target  == IF MinPerLayer < Cardinality(inLayer) THEN MinPerLayer ELSE Cardinality(inLayer)
      have    == {n \in DOMAIN base : base[n].floor /\ InLayer(n, layer, base[n].kps)}
  IN IF m \in inLayer /\ m \notin DOMAIN base /\ Cardinality(have) < target
       THEN [n \in DOMAIN base \cup {m} |-> IF n = m THEN Record(Pinned[m], TRUE, FALSE) ELSE base[n]]
       ELSE base

\* The floor of one layer: the snapshot members in address order.
FloorPass(base, layer) ==
  LET f[n \in 0..Len(PinnedOrder)] ==
        IF n = 0 THEN base ELSE KeepByFloor(f[n - 1], layer, PinnedOrder[n])
  IN f[Len(PinnedOrder)]

\* membershipFromChain: the membership a verified read gives, and what the floors
\* of the three layers keep in it.
MembershipFromChain(registry, seen, now) ==
  FloorPass(FloorPass(FloorPass(EligibleRecords(registry, seen, now), "entry"), "mix"), "exit")
=============================================================================
