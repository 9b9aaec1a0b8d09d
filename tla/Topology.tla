------------------------------ MODULE Topology ------------------------------
(***************************************************************************)
(* The client's view of the network in KPS mode with chain discovery       *)
(* (nox-client/src/client.ts): the boot that gathers the first documents,  *)
(* the refresh that asks anchors again, the chain check that reads the     *)
(* registry through the mixnet, the switch of the entry, and disconnect,   *)
(* interleaved at the awaits of the code.  The environment is a registry   *)
(* that changes block by block, anchors that serve documents of any block  *)
(* up to the last one, and one party, an anchor, an exit or a provider,    *)
(* whose answers may be anything the constants Forged and ForgedRegistry   *)
(* allow.                                                                  *)
(***************************************************************************)
EXTENDS Discovery

CONSTANTS
  Chain,             \* registry at each finalized block, a sequence
  Providers,         \* RPC providers, by organisation
  Faulty,            \* anchors, exits and providers that may lie
  Forged(_, _),      \* documents a faulty anchor may serve when the last block is b
  ForgedRegistry,    \* registries a faulty pair may report
  Steady,            \* members every honest document reports online
  Parallelism,       \* kps.anchorParallelism
  TopologySources,   \* kps.topologySources
  Quorum,            \* policy.chainQuorum
  PairingBudget,     \* DISCOVERY_PAIRING_BUDGET
  MaxProbation,      \* policy.probationMaxPerRoute
  MaxMishaps         \* bound on failed, lagging or forged answers

ASSUME ChainAssumption ==
  /\ PinnedBlock \in 1..Len(Chain) /\ Chain[PinnedBlock] = Pinned /\ Len(Chain) \in Nat
  /\ Len(PinnedOrder) \in Nat
  /\ IsFiniteSet(Members) /\ \A b \in PinnedBlock..Len(Chain) : DOMAIN Chain[b] \subseteq Members
  /\ IsFiniteSet(Providers) /\ Members \cap Providers = {}

\* Who may lie: fewer anchors than a removal or a move needs, and fewer exits and
\* providers than the pairs of a registry read.  A forged document names its anchor.
Exiting == {m \in Members : Role[m] \in {2, 3}}
ASSUME FaultAssumption ==
  /\ MinSources \in Nat /\ Quorum \in Nat /\ IsFiniteSet(Faulty)
  /\ Cardinality(Faulty \cap Members) < MinSources
  /\ Cardinality(Faulty \cap (Exiting \cup Providers)) < Quorum
  /\ \A a \in Faulty, b \in PinnedBlock..Len(Chain) : \A d \in Forged(a, b) : d.anchor = a

\* A steady member stays registered and eligible under its key; it may move.
ASSUME SteadyAssumption ==
  /\ Steady \subseteq Members
  /\ \A b \in PinnedBlock..Len(Chain), m \in Steady :
       m \in DOMAIN Chain[b] /\ Chain[b][m].ok /\ Chain[b][m].key = Pinned[m].key

\* What calls can be routed by whatever is offline: floors of at least two members
\* (the default of minMembersPerLayer); two exits that are steady, or two exits in
\* the snapshot and none that leaves the registry; and a steady relay that publishes
\* a KPS location.
ASSUME RouteAssumption ==
  /\ MinPerLayer \in Nat \ {0, 1}
  /\ \/ \E x, y \in Steady \cap Exiting : x # y
     \/ /\ \E x, y \in EligiblePinned \cap Exiting : x # y
        /\ \A b, c \in PinnedBlock..Len(Chain) : b <= c =>
             \A m \in DOMAIN Chain[b] \cap Exiting :
               Chain[b][m].ok => m \in DOMAIN Chain[c] /\ Chain[c][m].ok
  /\ \E m \in Steady : Role[m] = 1 /\ \A b \in PinnedBlock..Len(Chain) : Chain[b][m].kps

VARIABLES
  block,       \* last finalized block
  phase,       \* "boot", "failed", "ready" or "closed"
  boot,        \* gatherServedTopologies: left, running, sources, staggered, waiting
  base,        \* kps.membership
  verified,    \* kps.verified: block and registry; block 0 before the first check
  firstSeen,   \* kps.firstSeen
  anchored,    \* kps.anchorMembers: members whose anchor served at boot
  working,     \* kps.members: member -> routing url
  lastServed,  \* kps.lastServed
  entry,       \* member of _entryUrl
  refresh,     \* _refreshInFlight: at, anchors asked, documents they served
  check,       \* kps.chainInFlight: at, attempt, exits, core, candidates, ...
  avoid,       \* kps.avoid: exits and providers that misbehaved
  error,       \* _topologyRefreshError: "none", "failed" or "stale"
  mishaps      \* failed, lagging or forged answers so far

env    == <<block, mishaps>>
kps    == <<base, verified, firstSeen, working, lastServed, entry>>
vars   == <<block, phase, boot, base, verified, firstSeen, anchored, working, lastServed,
            entry, refresh, check, avoid, error, mishaps>>

Anchors == {m \in EligiblePinned : Pinned[m].kps}

\* discoveryEndpoints: members with an entry location.
Endpoints(members, served) == {m \in DOMAIN members : members[m].kps \/ m \in served}

\* routingNodes: the node list of a working set.
RoutingNodes(members, work, served) ==
  {[id |-> m, role |-> Role[m], entry |-> m \in Endpoints(members, served),
    probation |-> members[m].probation] : m \in DOMAIN work}

Nodes == RoutingNodes(base, working, anchored)

MembershipBlock(v) == IF v.block = 0 THEN PinnedBlock ELSE v.block

KnownFingerprint(v) ==
  [m \in DOMAIN v.registry |-> v.registry[m].key]

Idle == [at |-> "idle"]

Init ==
  /\ block = PinnedBlock
  /\ phase = "boot"
  /\ boot = [left |-> Anchors, running |-> {}, sources |-> <<>>,
             staggered |-> Parallelism, waiting |-> FALSE]
  /\ base = FloorRecords
  /\ verified = [block |-> 0, registry |-> Pinned]
  /\ firstSeen = << >>
  /\ anchored = {}
  /\ working = [m \in EligiblePinned |-> Pinned[m].url]
  /\ lastServed = {}
  /\ entry = "none"
  /\ refresh = Idle
  /\ check = Idle
  /\ avoid = {}
  /\ error = "none"
  /\ mishaps = 0

-----------------------------------------------------------------------------
(* What the network answers. *)

\* A document an honest anchor serves: the registry of some block, with the
\* steady members online and the others online or all offline.
DocAt(a, b, up) ==
  [anchor |-> a, block |-> b, sound |-> TRUE,
   lists  |-> [m \in DOMAIN Chain[b] |-> [key |-> Chain[b][m].key, url |-> Chain[b][m].url]],
   online |-> up]

HonestDocs(a) ==
  UNION {{DocAt(a, b, up) : up \in {Members, Steady \cup {a}}} : b \in PinnedBlock..block}

FreshDoc(a, up) == CHOOSE d \in HonestDocs(a) : d.block = block /\ d.online = up

\* The documents a round of fetches may bring: the latest ones, or with one
\* mishap an outage that takes all but the steady members offline, or from one
\* of the anchors any other document, or none.
Served(asked) ==
  LET fresh     == [a \in asked |-> FreshDoc(a, Members)]
      others(a) == (HonestDocs(a) \ {fresh[a]}) \cup (IF a \in Faulty THEN Forged(a, block) ELSE {})
      odd(a)    == {{}} \cup {{d} : d \in others(a)}
  IN {[docs |-> Range(fresh), odd |-> 0],
      [docs |-> {FreshDoc(a, Steady \cup {a}) : a \in asked}, odd |-> 1]}
       \cup UNION {{[docs |-> d \cup {fresh[c] : c \in asked \ {a}}, odd |-> 1] : d \in odd(a)} :
                   a \in asked}

Mishap(n) == mishaps + n <= MaxMishaps /\ mishaps' = mishaps + n

NewBlock ==
  /\ block < Len(Chain)
  /\ phase \in {"boot", "ready"}
  /\ block' = block + 1
  /\ UNCHANGED <<phase, boot, kps, anchored, refresh, check, avoid, error, mishaps>>

-----------------------------------------------------------------------------
(* The entry. *)

\* pickEntryUrl, and what _setNodes does to the entry: it stays while a node
\* has its address, else a settled entry is drawn; with none, it throws and stays.
PickEntry(nodes) == {n.id : n \in PreferSettled(Entries(nodes))}

EntryAfter(nodes) ==
  LET drawn == PickEntry(nodes)
  IN IF (\E n \in nodes : n.id = entry /\ n.entry) \/ drawn = {} THEN {entry} ELSE drawn

\* _setNodes with the working set of a refresh or a chain check.
SetNodes(members, work) ==
  /\ working' = work
  /\ error' = "none"
  /\ entry' \in EntryAfter(RoutingNodes(members, work, anchored))

OtherEntries == {n \in Entries(Nodes) : n.id # entry}

-----------------------------------------------------------------------------
(* Chain checks. *)

SettledExits == {n.id : n \in Settled(Exits(Nodes))}

\* The exits of the reads: the entry is left out while enough others remain.
CheckExits ==
  LET others == SettledExits \ {entry}
  IN IF Cardinality(others) >= Quorum THEN others ELSE SettledExits

CoreMembers == DOMAIN Pinned \cup DOMAIN base \cup DOMAIN verified.registry

\* What a chain check takes along when it starts; the block it reads may not be
\* older than the membership.
Started ==
  {[at |-> "pin", attempt |-> 1, exits |-> CheckExits, core |-> CoreMembers, candidates |-> c,
    minBlock |-> MembershipBlock(verified), pairs |-> {}, block |-> 0, read |-> c,
    scanned |-> FALSE] : c \in RankCandidates(CoreMembers, lastServed)}

\* _runChainCheck: single flight.
RunChainCheck == IF check.at = "idle" THEN check' \in Started ELSE UNCHANGED check

CheckTimer ==
  /\ phase = "ready"
  /\ check.at = "idle"
  /\ RunChainCheck
  /\ UNCHANGED <<env, phase, boot, kps, anchored, refresh, avoid, error>>

\* orderPreferred: what misbehaved comes last.
Orders(items) ==
  UNION {{first \o last : last \in SetToSeqs(items \cap avoid)} : first \in SetToSeqs(items \ avoid)}

\* choosePairs: different exits and different providers; none when there are too few.
Pairings ==
  IF Cardinality(check.exits) < Quorum \/ Cardinality(Providers) < Quorum
    THEN {}
    ELSE {[i \in 1..Quorum |-> <<e[i], p[i]>>] : e \in Orders(check.exits), p \in Orders(Providers)}

Blame(pairs) == avoid' = avoid \cup {x[1] : x \in pairs} \cup {x[2] : x \in pairs}

\* _applyChainOutcome: the membership read, and the last documents applied to it;
\* the whole membership when they say nothing or would declare it stale.
ApplyChainOutcome(registry) ==
  LET seen    == FirstSeenAfter(registry, firstSeen, check.block)
      members == MembershipFromChain(registry, seen, block)
      result  == ApplyServed(members, check.block, Endpoints(members, anchored), lastServed,
                             DOMAIN working)
      work    == IF result.stale \/ result.accepted = {}
                   THEN [m \in DOMAIN members |-> members[m].url]
                   ELSE result.members
  IN /\ base' = members
     /\ firstSeen' = seen
     /\ verified' = [block |-> check.block, registry |-> registry]
     /\ SetNodes(members, work)
     /\ UNCHANGED lastServed

CheckOver ==
  /\ check' = Idle
  /\ refresh' = IF refresh.at = "stale" THEN [refresh EXCEPT !.at = "woken"] ELSE refresh

\* A result that comes after disconnect is dropped.
CheckFails ==
  /\ CheckOver
  /\ error' = IF phase = "ready" /\ error = "none" THEN "failed" ELSE error
  /\ UNCHANGED kps

\* Bug: a read that ends after disconnect is applied.
CheckVerifiedLate(registry) == CheckOver /\ ApplyChainOutcome(registry)

CheckVerified(registry) ==
  /\ CheckOver
  /\ IF phase = "ready" THEN ApplyChainOutcome(registry) ELSE UNCHANGED <<kps, error>>

\* Another pairing, unless the budget is spent.
NextPairing ==
  IF check.attempt = PairingBudget
    THEN CheckFails
    ELSE /\ check' = [check EXCEPT !.at = "pin", !.attempt = @ + 1, !.read = check.candidates,
                                   !.scanned = FALSE, !.pairs = {}, !.block = 0]
         /\ UNCHANGED <<refresh, error, kps>>

\* Too few exits or providers.
CheckInsufficient ==
  /\ check.at = "pin"
  /\ Pairings = {}
  /\ CheckFails
  /\ UNCHANGED <<env, phase, boot, anchored, avoid>>

\* An exit serves a read only while it is in the node list (_postViaExit).
Reachable(pair) == pair[1] \in DOMAIN working

\* The first pair names the finalized block, b; it may lag.
CheckPins ==
  /\ check.at = "pin"
  /\ \E p \in Pairings, b \in PinnedBlock..block :
       /\ Reachable(p[1])
       /\ Mishap(IF b = block THEN 0 ELSE 1)
       /\ IF b < check.minBlock
            THEN Blame({p[1]}) /\ NextPairing
            ELSE /\ check' = [check EXCEPT !.at = "read", !.pairs = Range(p), !.block = b]
                 /\ UNCHANGED <<avoid, refresh, error, kps>>
  /\ UNCHANGED <<block, phase, boot, anchored>>

\* The block read fails, or its block is too old or in the future.
CheckPinFails ==
  /\ check.at = "pin"
  /\ \E p \in Pairings :
       /\ Mishap(IF Reachable(p[1]) THEN 1 ELSE 0)
       /\ Blame({p[1]})
  /\ NextPairing
  /\ UNCHANGED <<block, phase, boot, anchored>>

Lies(pair) == pair[1] \in Faulty \/ pair[2] \in Faulty

\* Registry answers of all pairs that are byte for byte the same.
Agreed ==
  IF \A x \in check.pairs : Lies(x)
    THEN {Chain[check.block]} \cup ForgedRegistry
    ELSE {Chain[check.block]}

AllReachable == \A x \in check.pairs : Reachable(x)

\* The pairs agree: the answer closes, or is rejected, or hides a member, which
\* the registration logs complete once.
CheckAgrees ==
  /\ check.at = "read"
  /\ AllReachable
  /\ \E registry \in Agreed :
       LET answer == Answer(registry, check.read)
       IN CASE Closes(answer) -> CheckVerified(answer.members)
            [] Incomplete(answer) /\ ~check.scanned ->
                 /\ check' = [check EXCEPT !.at = "logs"]
                 /\ UNCHANGED <<kps, refresh, error>>
            [] OTHER -> CheckFails
  /\ UNCHANGED <<env, phase, boot, anchored, avoid>>

\* A pair answers something else than the others.
CheckDisagrees ==
  /\ check.at \in {"read", "logs"}
  /\ AllReachable
  /\ \E x \in check.pairs : Lies(x)
  /\ \E x \in check.pairs : ~Lies(x)
  /\ Mishap(1)
  /\ Blame(check.pairs)
  /\ NextPairing
  /\ UNCHANGED <<block, phase, boot, anchored>>

\* Some pairs fail to answer: a registry read tries another pairing.
CheckReadFails ==
  /\ check.at = "read"
  /\ \E failed \in SUBSET check.pairs \ {{}} :
       /\ {x \in check.pairs : ~Reachable(x)} \subseteq failed
       /\ Mishap(IF AllReachable THEN 1 ELSE 0)
       /\ Blame(failed)
  /\ NextPairing
  /\ UNCHANGED <<block, phase, boot, anchored>>

\* Members registered after the snapshot, up to block b.
Registrations(b) ==
  UNION {DOMAIN Chain[c] \ DOMAIN Chain[c - 1] : c \in PinnedBlock + 1..b}

\* The registration logs name every member the core set misses; over the
\* bound the set cannot close.
CheckScansLogs ==
  /\ check.at = "logs"
  /\ AllReachable
  /\ LET completed == check.core \cup Registrations(check.block)
     IN IF Cardinality(completed) > MaxCandidates
          THEN CheckFails
          ELSE /\ check' = [check EXCEPT !.at = "read", !.read = completed, !.scanned = TRUE]
               /\ UNCHANGED <<kps, refresh, error>>
  /\ UNCHANGED <<env, phase, boot, anchored, avoid>>

CheckScanFails ==
  /\ check.at = "logs"
  /\ Mishap(IF AllReachable THEN 1 ELSE 0)
  /\ CheckFails
  /\ UNCHANGED <<block, phase, boot, anchored, avoid>>

CheckStep ==
  \/ CheckInsufficient \/ CheckPins \/ CheckPinFails \/ CheckAgrees \/ CheckDisagrees
  \/ CheckReadFails \/ CheckScansLogs \/ CheckScanFails

-----------------------------------------------------------------------------
(* Boot. *)

BootLaunches(b) ==
  IF b.left # {} /\ Cardinality(b.running) < Parallelism
    THEN {[b EXCEPT !.left = @ \ {a}, !.running = @ \cup {a}] : a \in b.left}
    ELSE {b}

\* Bug: only enough documents end the boot.
BootDoneServed(b) == Len(b.sources) >= TopologySources

\* Every candidate was tried, or enough of them served.
BootDone(b) ==
  \/ Len(b.sources) >= TopologySources
  \/ b.left = {} /\ b.running = {}

\* _connectKps with the documents gathered: it fails when none is acceptable,
\* when they declare the snapshot stale, or when no entry is left.  The entry
\* is the first anchor whose document was accepted, if it can be one.
Connect(b) ==
  LET docs    == {b.sources[i] : i \in DOMAIN b.sources}
      served  == AnchorsOf(docs)
      result  == ApplyServed(base, PinnedBlock, Endpoints(base, served), docs, DOMAIN base)
      nodes   == RoutingNodes(base, result.members, served)
      order   == SelectSeq(b.sources, LAMBDA d : d \in result.accepted)
      refused == result.stale \/ result.accepted = {} \/ PickEntry(nodes) = {}
  IN /\ boot' = [b EXCEPT !.running = {}, !.left = {}, !.staggered = 0, !.waiting = FALSE,
                          !.sources = <<>>]
     /\ IF refused
          THEN /\ phase' = "failed"
               /\ UNCHANGED <<kps, anchored>>
          ELSE /\ phase' = "ready"
               /\ anchored' = served
               /\ working' = result.members
               /\ lastServed' = result.accepted
               /\ entry' \in IF \E n \in Entries(nodes) : n.id = order[1].anchor
                               THEN {order[1].anchor}
                               ELSE PickEntry(nodes)
               /\ UNCHANGED <<base, verified, firstSeen>>

BootContinues(b) ==
  IF BootDone(b)
    THEN Connect(b)
    ELSE /\ boot' = b
         /\ UNCHANGED <<phase, kps, anchored>>

\* One of the staggered first launches.
BootLaunch ==
  /\ phase = "boot"
  /\ boot.staggered > 0
  /\ \E b \in BootLaunches([boot EXCEPT !.staggered = @ - 1]) : BootContinues(b)
  /\ UNCHANGED <<env, refresh, check, avoid, error>>

\* An anchor serves its document, or fails, or names the wrong member.
BootAnchorEnds(a) ==
  /\ phase = "boot"
  /\ a \in boot.running
  /\ \E s \in Served({a}) :
       LET left == [boot EXCEPT !.running = @ \ {a}]
           got  == IF s.docs = {} THEN left
                   ELSE [left EXCEPT !.sources = Append(@, CHOOSE d \in s.docs : TRUE),
                                     !.waiting = TRUE]
       IN /\ Mishap(IF s.docs = {} THEN 0 ELSE s.odd)
          /\ \E b \in IF BootDone(got) THEN {got} ELSE BootLaunches(got) : BootContinues(b)
  /\ UNCHANGED <<block, refresh, check, avoid, error>>

\* KPS_SECOND_SOURCE_WAIT_MS after the first document.
BootWaitOver ==
  /\ phase = "boot"
  /\ boot.waiting
  /\ Connect(boot)
  /\ UNCHANGED <<env, refresh, check, avoid, error>>

-----------------------------------------------------------------------------
(* Refresh. *)

\* _kpsRefreshAnchors: the current entry, then others drawn from the entry
\* locations of the membership, never of the working set.
RefreshAnchors ==
  LET pool   == Endpoints(base, anchored)
      wanted == IF MinSources > TopologySources THEN MinSources ELSE TopologySources
      full   == {s \in SUBSET (pool \cup {entry}) : entry \in s /\ Cardinality(s) = wanted}
  IN IF full = {} THEN {pool \cup {entry}} ELSE full

\* The timer, or a paid call that needs a fresh topology; one refresh at a time.
RefreshStart ==
  /\ phase = "ready"
  /\ refresh.at = "idle"
  /\ \E anchors \in RefreshAnchors :
       refresh' = [at |-> "fetch", anchors |-> anchors, served |-> {}]
  /\ UNCHANGED <<env, phase, boot, kps, anchored, check, avoid, error>>

\* Bug: the documents apply to the previous working set.
ServedNowFromWorking(served) ==
  ApplyServed([m \in DOMAIN working |-> base[m]], MembershipBlock(verified),
              Endpoints(base, anchored), served, DOMAIN working)

ServedNow(served) ==
  ApplyServed(base, MembershipBlock(verified), Endpoints(base, anchored), served, DOMAIN working)

\* _triggerChainCheck, when the last check is long enough ago.
MayTrigger(docs) ==
  IF \E d \in docs : [m \in DOMAIN d.lists |-> d.lists[m].key] # KnownFingerprint(verified)
    THEN RunChainCheck \/ UNCHANGED check
    ELSE UNCHANGED check

RefreshError(e) ==
  /\ error' = e
  /\ refresh' = Idle
  /\ UNCHANGED <<kps, check>>

RefreshApplies(result) ==
  IF result.accepted = {}
    THEN RefreshError("failed")
    ELSE /\ lastServed' = result.accepted
         /\ SetNodes(base, result.members)
         /\ refresh' = Idle
         /\ UNCHANGED <<base, verified, firstSeen>>

\* The fetches are over.  Documents that would declare the snapshot stale first
\* get a chain check.
RefreshFetched ==
  /\ refresh.at = "fetch"
  /\ \E s \in Served(refresh.anchors) :
       LET result == ServedNow(s.docs)
       IN /\ Mishap(s.odd)
          /\ CASE phase # "ready" ->
                    refresh' = Idle /\ UNCHANGED <<kps, check, error>>
               [] phase = "ready" /\ s.docs = {} ->
                    RefreshError("failed")
               [] phase = "ready" /\ s.docs # {} /\ result.stale ->
                    /\ refresh' = [refresh EXCEPT !.at = "stale", !.served = s.docs]
                    /\ RunChainCheck
                    /\ UNCHANGED <<kps, error>>
               [] OTHER ->
                    /\ RefreshApplies(result)
                    /\ result.accepted # {} => MayTrigger(result.accepted)
  /\ UNCHANGED <<block, phase, boot, anchored, avoid>>

\* The chain check it waited for is over: the same documents once more.
RefreshRetries ==
  /\ refresh.at = "woken"
  /\ LET result == ServedNow(refresh.served)
     IN CASE phase # "ready" ->
               refresh' = Idle /\ UNCHANGED <<kps, check, error>>
          [] phase = "ready" /\ result.stale ->
               RefreshError("stale")
          [] OTHER ->
               /\ RefreshApplies(result)
               /\ result.accepted # {} => MayTrigger(result.accepted)
  /\ UNCHANGED <<env, phase, boot, anchored, avoid>>

-----------------------------------------------------------------------------
(* Entry switches and disconnect. *)

\* Two transport failures, or with standby a closed connection, move the entry;
\* with no other entry the chain may know where members moved.
EntrySwitch ==
  /\ phase = "ready"
  /\ Mishap(1)
  /\ IF OtherEntries = {}
       THEN (RunChainCheck \/ UNCHANGED check) /\ UNCHANGED entry
       ELSE entry' \in {n.id : n \in OtherEntries} /\ UNCHANGED check
  /\ UNCHANGED <<block, phase, boot, base, verified, firstSeen, anchored, working, lastServed,
                 refresh, avoid, error>>

Disconnect ==
  /\ phase = "ready"
  /\ phase' = "closed"
  /\ UNCHANGED <<env, boot, kps, anchored, refresh, check, avoid, error>>

BootStep == BootLaunch \/ (\E a \in Anchors : BootAnchorEnds(a)) \/ BootWaitOver

RefreshStep == RefreshStart \/ RefreshFetched \/ RefreshRetries

Next ==
  \/ NewBlock \/ BootStep \/ RefreshStep \/ CheckTimer \/ CheckStep
  \/ EntrySwitch \/ Disconnect

Spec == Init /\ [][Next]_vars

-----------------------------------------------------------------------------
(* Properties. *)

TypeOK ==
  /\ phase \in {"boot", "failed", "ready", "closed"}
  /\ block \in 1..Len(Chain)
  /\ DOMAIN working \subseteq DOMAIN base
  /\ entry \in Members \cup {"none"}

Connected == phase \in {"ready", "closed"}

\* A member that stays registered and that every honest anchor reports online
\* is always in the node list, at a location the registry gave for it, although
\* an anchor, an exit or a provider lies (single-source rule of
\* applyServedTopologies, quorum of runChainCheck, removal floor).
SteadyKept ==
  Connected => \A m \in Steady :
                 /\ m \in DOMAIN working
                 /\ working[m] \in {Chain[b][m].url : b \in PinnedBlock..block}

\* The client routes to an eligible member of the registry it verified under the
\* key it has there, never an older one, and to nobody else but the members the
\* removal floor keeps from the snapshot (membershipFromChain, ApplyServed).
IdentityVerified ==
  \A m \in DOMAIN working :
    IF m \in DOMAIN verified.registry /\ verified.registry[m].ok
      THEN base[m].key = verified.registry[m].key
      ELSE m \in EligiblePinned /\ base[m].key = Pinned[m].key

\* What the client routes by is what the registry says, whoever lies: steady
\* members stay, and every node is one the registry vouches for, under its key
\* (applyServedTopologies, runChainCheck, membershipFromChain).
MembershipSound == SteadyKept /\ IdentityVerified

\* While connected the entry is a node of the list that can be an entry, and
\* a call can always be routed through it, whatever node is avoided, and a paid
\* call finds an exit.
CallsRoutable ==
  Connected =>
    /\ \A m \in DOMAIN working : SelectRoute(Nodes, {entry}, {}, {m}, MaxProbation) # {}
    /\ PickPaidExit(Nodes, Members, {entry}, {}, MaxProbation) # {}

\* A late answer changes nothing it should not: the verified block never goes
\* back, although providers lag and checks overlap with refreshes, and after
\* disconnect neither the membership nor the nodes nor the entry change.
LateAnswersHarmless ==
  [][/\ verified'.block >= verified.block
     /\ phase = "closed" => UNCHANGED kps]_vars

\* The boot ends, ready or with an error, whichever anchors hang, refuse or lie:
\* stagger, parallelism and the grace period do not wait for each other
\* (gatherServedTopologies).
BootEnds == <>(phase # "boot")

\* A client that stays connected while the registry no longer changes ends up
\* with every eligible member of it in the node list, at its current location:
\* removals, probation, floors and refused answers along the way leave no trace
\* (_refreshKpsTopology: "recovered members return").
Converges ==
  \A b \in 1..Len(Chain) :
    <>[](phase = "ready" /\ block = b)
      => <>[](\A m \in DOMAIN Chain[b] :
                Chain[b][m].ok => m \in DOMAIN working /\ working[m] = Chain[b][m].url)

\* A stale verdict stands only when the registry no longer lists a route layer
\* (comment on _refreshKpsTopology); the code also lets it stand when the check it
\* waits for was in flight already, and read an older block.
StaleOnlyByRegistry ==
  error = "stale" =>
    \E l \in RouteLayers :
      \A m \in DOMAIN Chain[block] :
        ~(Chain[block][m].ok /\ InLayer(m, l, Chain[block][m].kps))

\* Probation ends probationSeconds after the client first saw the member
\* (README of nox-client); in the code only a chain check ends it, and a chain
\* check needs exits that are not on probation.
ProbationEnds ==
  <>[](phase = "ready" /\ block = Len(Chain))
    => <>[](\A m \in DOMAIN base :
              base[m].probation => block - firstSeen[m] < ProbationTime)

\* The timers run, and every await of the client ends (fetches and reads have
\* timeouts): weak fairness of BootStep, RefreshStep, CheckTimer and CheckStep.  For
\* three of them the condition that enables them is spelled out, and the step is
\* told by the variable it changes, which no other step changes meanwhile.
Fairness ==
  /\ []<>(phase # "boot" \/ (boot.staggered = 0 /\ boot.running = {} /\ ~boot.waiting))
       \/ []<><<TRUE>>_boot
  /\ []<>(phase # "ready" /\ refresh.at = "idle") \/ []<>(refresh.at = "stale")
       \/ []<><<TRUE>>_refresh
  /\ WF_vars(CheckTimer)
  /\ []<>(check.at = "idle") \/ []<><<TRUE>>_check

FairSpec == Spec /\ Fairness
=============================================================================
