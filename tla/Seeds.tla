------------------------------- MODULE Seeds -------------------------------
(***************************************************************************)
(* The node list of the classic mode (nox-client/src/client.ts and         *)
(* topology.ts): topology documents are fetched over HTTP from seeds, or,  *)
(* when every seed fails, from verified nodes, and each document is checked*)
(* against the registry at the block it names before any of it is used.    *)
(*                                                                         *)
(* One document is loaded at a time: at connect() and then by a refresh    *)
(* that its callers (the timer, a paid call) share.  load.at is where      *)
(* loadTopology() waits: for the head of the answer ("fetch"), for its body*)
(* ("body"), for the registry reads sent as a batch ("batch") or one by one*)
(* ("single").  An ingress URL is <<member, version>>; version 0 is a URL  *)
(* the client cannot use.  Only chain-verified clients are modelled.       *)
(*                                                                         *)
(* Bounds: Chain has one registry per block, MaxMishaps bounds failed      *)
(* fetches, reads and false documents.                                     *)
(***************************************************************************)
EXTENDS Integers, FiniteSets, Sequences, SequencesExt

CONSTANTS
  SeedUrls,        \* the configured seeds in order, then the default one
  Chain,           \* block -> registered member -> [key, ingress, eligible]
  Seen,            \* sets of members a source may report online
  Forged,          \* documents a faulty source may serve
  NodeFallbacks,   \* NODE_TOPOLOGY_FALLBACKS
  MayStall,        \* a source may send the head of an answer and no body
  MaxMishaps

Blocks == 1..Len(Chain)
EveryMember == UNION {DOMAIN Chain[b] : b \in Blocks}

ASSUME SeedsAssumption ==
  /\ Len(SeedUrls) > 0 /\ NodeFallbacks \in Nat /\ MaxMishaps \in Nat /\ MayStall \in BOOLEAN
  /\ \A b \in Blocks, m \in EveryMember :
       m \in DOMAIN Chain[b] => DOMAIN Chain[b][m] = {"key", "ingress", "eligible"}

VARIABLES
  head,            \* the registry's latest block
  life,            \* "connecting", "up", "failed" or "closed"
  nodes,           \* _nodes: member -> [key, ingress]
  entryUrl,        \* _entryUrl
  seedUrl,         \* _seedUrl, the seed that worked last
  seedBlock,       \* _seedBlock
  online,          \* history: whom the last document of a seed reported online
  verified,        \* _topologyVerifiedAtMs is at most topologyRefreshMs old
  load,            \* the document being loaded
  paidCall,        \* "none", "waiting", "allowed" or "refused"
  seedMishaps

seedVars == <<head, life, nodes, entryUrl, seedUrl, seedBlock, online, verified, load,
              paidCall, seedMishaps>>

\* What a document says of a registered member.
Profile(p) == [key |-> p.key, ingress |-> p.ingress]

\* A true document: the registry at a block, and whom the source saw online.
DocOf(b, seen) ==
  [block |-> b, lists |-> [m \in DOMAIN Chain[b] |-> Profile(Chain[b][m])], seen |-> seen,
   sound |-> TRUE, old |-> FALSE]
Honest == {DocOf(b, seen \cap DOMAIN Chain[b]) : b \in 1..head, seen \in Seen}
NoDoc == [block |-> 0, lists |-> <<>>, seen |-> {}, sound |-> FALSE, old |-> FALSE]

NotLoading == [at |-> "idle", use |-> "routing", queue |-> <<>>, doc |-> NoDoc]
Ask(queue, use) == [at |-> "fetch", use |-> use, queue |-> queue, doc |-> NoDoc]

UsableIngress(url) == url[2] # 0
UrlsOf(list) == {list[m].ingress : m \in DOMAIN list}
EntryUrls(list) == {url \in UrlsOf(list) : UsableIngress(url)}

\* Seeds in the order they are tried, the last that worked first.
TryFirst(seed) == <<seed>> \o SelectSeq(SeedUrls, LAMBDA s : s # seed)

SeedInit ==
  /\ head = 1 /\ life = "connecting" /\ nodes = <<>> /\ entryUrl = <<"none", 0>>
  /\ seedUrl = SeedUrls[1] /\ seedBlock = 0 /\ online = {} /\ verified = FALSE
  /\ paidCall = "none" /\ seedMishaps = 0
  /\ load = Ask(SeedUrls, "routing")

SeedMishap(n) == seedMishaps + n <= MaxMishaps /\ seedMishaps' = seedMishaps + n

-----------------------------------------------------------------------------
(* What follows an answer *)

\* The gate of a paid call behind the refresh it waits for (_requireFreshPaidTopology).
WakePaid(fresh) ==
  paidCall' = CASE paidCall # "waiting" -> paidCall [] fresh -> "allowed" [] OTHER -> "refused"

\* Ingress URLs of nodes asked when every seed failed: the entry first, then others at random.
Fallbacks(list, entry) ==
  LET ingress == EntryUrls(list) \ Range(SeedUrls)
      first   == IF entry \in ingress THEN <<entry>> ELSE <<>>
      others  == ingress \ {entry}
      wanted  == NodeFallbacks - Len(first)
      more    == IF Cardinality(others) < wanted THEN Cardinality(others) ELSE wanted
  IN {first \o s : s \in Injection(1..more, others)}

\* The catch block of a source: the next one of its kind, then the nodes, then
\* the refresh or connect() fails.  list, entry and fresh are what the client has by now.
SourceFails(list, entry, fresh) ==
  LET rest  == Tail(load.queue)
      ended == /\ load' = NotLoading /\ WakePaid(fresh)
               /\ life' = IF life = "connecting" THEN "failed" ELSE life
  IN IF rest # <<>>
       THEN load' = Ask(rest, load.use) /\ UNCHANGED <<paidCall, life>>
       ELSE \E more \in IF load.use = "membership" \/ life = "connecting" THEN {<<>>}
                        ELSE Fallbacks(list, entry) :
              IF more = <<>> THEN ended
              ELSE load' = Ask(more, "membership") /\ UNCHANGED <<paidCall, life>>

\* _setNodes: the list and its time are replaced before an entry is looked for,
\* and a list without one throws into the loop over the sources.
SetNodes(list) ==
  /\ nodes' = list /\ verified' = TRUE
  /\ IF entryUrl \in UrlsOf(list) \/ EntryUrls(list) # {}
       THEN /\ entryUrl' \in IF entryUrl \in UrlsOf(list) THEN {entryUrl} ELSE EntryUrls(list)
            /\ load' = NotLoading /\ WakePaid(TRUE) /\ UNCHANGED life
       ELSE UNCHANGED entryUrl /\ SourceFails(list, entryUrl, TRUE)

SourceRefused ==
  SourceFails(nodes, entryUrl, verified) /\
  UNCHANGED <<nodes, entryUrl, seedUrl, seedBlock, online, verified>>

-----------------------------------------------------------------------------
(* Loading one document *)

\* The head of an answer: an error or the timeout, or HTTP 200.
FetchFails ==
  /\ load.at = "fetch" /\ SeedMishap(1)
  /\ SourceRefused /\ UNCHANGED head
FetchAnswers ==
  /\ load.at = "fetch"
  /\ load' = [load EXCEPT !.at = "body"]
  /\ UNCHANGED <<head, life, nodes, entryUrl, seedUrl, seedBlock, online, verified, paidCall,
                  seedMishaps>>

\* fetchTopology clears its timer once the head has come: for a body that does
\* not come the client has no timeout.
BodyStalls ==
  /\ MayStall /\ load.at = "body" /\ SeedMishap(1)
  /\ load' = [load EXCEPT !.at = "stalled"]
  /\ UNCHANGED <<head, life, nodes, entryUrl, seedUrl, seedBlock, online, verified, paidCall>>

\* A document whose fields, fingerprint and liveness agree goes on to the registry.
BodyArrives ==
  /\ load.at = "body"
  /\ \E doc \in Honest \cup Forged :
       /\ SeedMishap(IF doc \in Forged THEN 1 ELSE 0)
       /\ IF doc.sound
            THEN /\ load' = [load EXCEPT !.at = "batch", !.doc = doc]
                 /\ UNCHANGED <<life, nodes, entryUrl, seedUrl, seedBlock, online, verified, paidCall>>
            ELSE SourceRefused
  /\ UNCHANGED head

\* An endpoint that takes no batches gets the same reads one by one; any other
\* failure of a read rejects the document.
BatchRefused ==
  /\ load.at = "batch" /\ SeedMishap(1)
  /\ load' = [load EXCEPT !.at = "single"]
  /\ UNCHANGED <<head, life, nodes, entryUrl, seedUrl, seedBlock, online, verified, paidCall>>
ReadsFail ==
  /\ load.at \in {"batch", "single"} /\ SeedMishap(1)
  /\ SourceRefused /\ UNCHANGED head

\* verifyOnChainWithEligibility: the fingerprint, the count and every profile at
\* the document's block; a member also has to be active and not frozen to be used.
MatchesRegistry(doc) ==
  /\ doc.block \in 1..head
  /\ doc.lists = [m \in DOMAIN Chain[doc.block] |-> Profile(Chain[doc.block][m])]
Eligible(doc) == {m \in DOMAIN doc.lists : Chain[doc.block][m].eligible}

Usable(doc) ==
  LET members == IF load.use = "routing" THEN Eligible(doc) \cap doc.seen ELSE Eligible(doc)
  IN Restrict(doc.lists, members)

\* connect() with the first document that passes every check: it still needs an
\* entry, and the WASM module may fail to load.
Connects(doc) ==
  /\ load' = NotLoading
  /\ \/ /\ life' = "failed"
        /\ UNCHANGED <<nodes, entryUrl, seedUrl, seedBlock, online, verified>>
     \/ /\ life' = "up" /\ nodes' = Usable(doc) /\ entryUrl' \in EntryUrls(Usable(doc))
        /\ seedUrl' = Head(load.queue) /\ seedBlock' = doc.block /\ online' = doc.seen
        /\ verified' = TRUE
  /\ UNCHANGED paidCall

\* _applyTopology: a seed decides who is online.
ApplyTopology(doc) ==
  /\ seedUrl' = Head(load.queue) /\ seedBlock' = doc.block /\ online' = doc.seen
  /\ SetNodes(Usable(doc))

\* Bug: a node's document of any block is taken.
ApplyNodeMembershipAnyBlock(doc) ==
  LET kept == DOMAIN nodes \cap DOMAIN Usable(doc)
  IN IF kept = {}
       THEN SourceRefused
       ELSE SetNodes(Restrict(doc.lists, kept)) /\ UNCHANGED <<seedUrl, seedBlock, online>>

\* _applyNodeMembership: a node's document, not older than the last seed's, only
\* removes nodes and updates the profiles of the others.
ApplyNodeMembership(doc) ==
  LET kept == DOMAIN nodes \cap DOMAIN Usable(doc)
  IN IF doc.block < seedBlock \/ kept = {}
       THEN SourceRefused
       ELSE SetNodes(Restrict(doc.lists, kept)) /\ UNCHANGED <<seedUrl, seedBlock, online>>

\* The registry reads are all there.
ReadsArrive ==
  /\ load.at \in {"batch", "single"}
  /\ LET doc == load.doc
     IN IF ~MatchesRegistry(doc) \/ doc.old \/ DOMAIN Usable(doc) = {}
          THEN SourceRefused
          ELSE CASE life = "connecting"     -> Connects(doc)
                 [] load.use = "routing"    -> ApplyTopology(doc)
                 [] load.use = "membership" -> ApplyNodeMembership(doc)
  /\ UNCHANGED <<head, seedMishaps>>

-----------------------------------------------------------------------------
(* Who asks for a refresh *)

\* The registry changes; a verification becomes older than topologyRefreshMs.
RegistryChanges ==
  /\ head < Len(Chain) /\ head' = head + 1
  /\ UNCHANGED <<life, nodes, entryUrl, seedUrl, seedBlock, online, verified, load, paidCall,
                  seedMishaps>>
VerificationAges ==
  /\ verified /\ verified' = FALSE
  /\ UNCHANGED <<head, life, nodes, entryUrl, seedUrl, seedBlock, online, load, paidCall,
                  seedMishaps>>

\* _refreshTopology: one at a time, which later callers join.
RefreshTopology == load' = IF load.at = "idle" THEN Ask(TryFirst(seedUrl), "routing") ELSE load

TimerRefreshes ==
  /\ life = "up" /\ load.at = "idle" /\ RefreshTopology
  /\ UNCHANGED <<head, life, nodes, entryUrl, seedUrl, seedBlock, online, verified, paidCall,
                  seedMishaps>>

\* A paid quote or submission needs a topology verified within the interval.
PaidCallStarts ==
  /\ life \in {"up", "closed"} /\ paidCall # "waiting"
  /\ IF verified THEN paidCall' = "allowed" /\ UNCHANGED load
                 ELSE paidCall' = "waiting" /\ RefreshTopology
  /\ UNCHANGED <<head, life, nodes, entryUrl, seedUrl, seedBlock, online, verified, seedMishaps>>

\* disconnect() clears the timer; a refresh under way goes on.
TimerStops ==
  /\ life = "up" /\ life' = "closed"
  /\ UNCHANGED <<head, nodes, entryUrl, seedUrl, seedBlock, online, verified, load, paidCall,
                  seedMishaps>>

LoadStep == FetchFails \/ FetchAnswers \/ BodyArrives \/ BatchRefused \/ ReadsFail \/ ReadsArrive

SeedNext == LoadStep \/ BodyStalls \/ RegistryChanges \/ VerificationAges \/ TimerRefreshes
              \/ PaidCallStarts \/ TimerStops

ClassicSpec == SeedInit /\ [][SeedNext]_seedVars

\* Fetches and reads end by their timeouts; a body that has begun to come ends too.
SeedFairness == WF_seedVars(LoadStep)

-----------------------------------------------------------------------------
(* Properties *)

\* Every node the client may route through was registered and eligible at one
\* block, under the key and URL it has there, and that block is not before the one
\* the last seed answered with; and that seed reported it online, however many
\* nodes have answered since and whichever documents were half applied.
SeedNodesVouched ==
  life \in {"up", "closed"} =>
    /\ nodes # <<>> /\ DOMAIN nodes \subseteq online
    /\ \E b \in seedBlock..head : \A m \in DOMAIN nodes :
         m \in DOMAIN Chain[b] /\ Chain[b][m].eligible /\ nodes[m] = Profile(Chain[b][m])

\* A paid call that waits for a refresh is answered (client.ts: the gate of paid
\* quotes and submissions).  It is not when a body stalls.
PaidAnswered == (paidCall = "waiting") ~> (paidCall # "waiting")

\* The entry is one of the nodes.  A seed whose document lists no entry leaves
\* a list without it.
EntryListed == life \in {"up", "closed"} => entryUrl \in UrlsOf(nodes)
=============================================================================
