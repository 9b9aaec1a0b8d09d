---------------------------- MODULE ReplyClaims ----------------------------
(***************************************************************************)
(* The reply claim scheduler of nox-client (reply_claims.ts) for one entry *)
(* node, with the part of the client it calls back into (pending requests  *)
(* and the SURB registry) and the entry's reply mailbox, which is external.*)
(*                                                                         *)
(* The scheduler keeps one independent state per entry URL and runs the    *)
(* same code on each, so one entry shows every behaviour.  Requests are    *)
(* numbered in the order they are tracked, which is the order of their     *)
(* sentAt stamps.  Time is abstracted to the comparisons the code makes:   *)
(* parityDue[r] says parityFallbackMs has passed since r was sent, and     *)
(* suspect[r] is "grace" once lostReplyGraceMs has passed since it was set.*)
(***************************************************************************)
EXTENDS Naturals, FiniteSets

CONSTANTS
  NumRequests,       \* bound: requests tracked in a behaviour
  Initial,           \* reply blocks sent with a request
  Extra,             \* reply blocks a replenishment adds
  DataShards,        \* fragments that complete a reply
  Streams,           \* requests that are tunnel streams
  Kinds,             \* what a reply block may carry
  EntryKinds,        \* what the entry may be, see entry below
  SkipChoices,       \* may the WebSocket serve the entry at first
  MaxIds, MaxClaims,           \* maxIdsPerClaim, maxClaimsInFlight
  JsonMaxIds, JsonMaxClaims,   \* jsonMaxIdsPerClaim, jsonMaxClaimsInFlight
  LongPoll,          \* waitMs > 0
  Retain, FirstArrival,
  Probes,            \* the host has probeWaitMaxMs (KPS mode)
  MaxPendingAcks, MaxAcksPerClaim,
  MaxFailures        \* bound: claims that fail in a behaviour

ASSUME SizesAssumption ==
  /\ NumRequests \in Nat /\ Initial \in Nat /\ Extra \in Nat
  /\ DataShards \in Nat \ {0} /\ MaxFailures \in Nat
\* resolveReplyClaimSettings refuses a limit below 1
ASSUME LimitsAssumption ==
  /\ MaxIds \in Nat \ {0} /\ MaxClaims \in Nat \ {0}
  /\ JsonMaxIds \in Nat \ {0} /\ JsonMaxClaims \in Nat \ {0}
  /\ MaxPendingAcks \in Nat \ {0} /\ MaxAcksPerClaim \in Nat \ {0}
ASSUME FlagsAssumption ==
  /\ LongPoll \in BOOLEAN /\ Retain \in BOOLEAN /\ FirstArrival \in BOOLEAN
  /\ Probes \in BOOLEAN /\ SkipChoices \subseteq BOOLEAN
  /\ Streams \subseteq 1..NumRequests
  /\ Kinds \subseteq {"fragment", "need_more", "corrupt", "invalid", "oversize"}
  /\ EntryKinds \subseteq [v2 : BOOLEAN, wait : {"zero", "some"}]

Requests == 1..NumRequests
Ids == Requests \X (1..(Initial + Extra))
BlocksOf(r) == {r} \X (1..Initial)          \* a target's initialIds
AllBlocksOf(r) == {r} \X (1..(Initial + Extra))

BiggerOf(a, b) == IF a >= b THEN a ELSE b
SmallerOf(a, b) == IF a <= b THEN a ELSE b

\* A claim exchange: an async frame of claim() between its first line and the
\* end of its try block.  served and items are the entry's side of it.  There
\* is a slot more than the limits allow, so that the slots bound nothing.
Slots == 1..(BiggerOf(MaxClaims, JsonMaxClaims) + 1)
Claim == [live : BOOLEAN, ids : SUBSET Ids, acks : SUBSET Ids,
          held : BOOLEAN, served : BOOLEAN, items : SUBSET Ids]
Idle == [live |-> FALSE, ids |-> {}, acks |-> {},
         held |-> FALSE, served |-> FALSE, items |-> {}]

VARIABLES
  \* ReplyClaimScheduler
  tracked, dataWanted, suspect, lostReported, parityDue,   \* targets
  timer, kickQueued, closed,
  \* EntryState
  inFlight, claims, waiting, cursor, longPoll, v2, waitMax, probe, acks,
  \* the claim() frames
  open, failures,
  \* the client: last request sent, pending and _streams, surbPool.registry,
  \* fragments in the reassemblers, whether the WebSocket serves the entry
  sent, pending, active, got, skipped,
  \* the entry, the replies the mix network brought it, and those it holds
  entry, kind, mail,
  \* history: IDs of pending requests whose replies a claim brought back
  received

targetVars == <<tracked, dataWanted, suspect, lostReported, parityDue>>
loopVars == <<timer, kickQueued, closed>>
entryStateVars == <<inFlight, claims, waiting, cursor, longPoll, v2, waitMax,
                    probe, acks>>
hostVars == <<sent, pending, active, got, skipped>>
netVars == <<entry, kind, mail>>
vars == <<targetVars, loopVars, entryStateVars, open, failures, hostVars,
          netVars, received>>

Init ==
  /\ tracked = {}
  /\ dataWanted = [r \in Requests |-> 1]
  /\ suspect = [r \in Requests |-> "no"]
  /\ lostReported = [r \in Requests |-> FALSE]
  /\ parityDue = [r \in Requests |-> FALSE]
  /\ timer = FALSE /\ kickQueued = FALSE /\ closed = FALSE
  /\ inFlight = {} /\ claims = 0 /\ waiting = 0 /\ cursor = 0
  /\ longPoll = "unknown" /\ v2 = "unknown" /\ waitMax = "unknown"
  /\ probe = "none" /\ acks = {}
  /\ open = [k \in Slots |-> Idle] /\ failures = 0
  /\ sent = 0 /\ pending = {} /\ active = {} /\ got = {}
  /\ skipped \in SkipChoices
  /\ entry \in EntryKinds
  /\ kind = [id \in Ids |-> "absent"] /\ mail = {}
  /\ received = {}

-----------------------------------------------------------------------------
(* Sending and settling requests, in the client                            *)

\* _sendOnRoute or tunnelSend: the request becomes pending and is tracked in
\* one synchronous step.  track() starts the timer and queues a kick.
Track ==
  /\ ~closed
  /\ sent < NumRequests
  /\ LET r == sent + 1 IN
     /\ sent' = r
     /\ pending' = pending \cup {r}
     /\ active' = active \cup BlocksOf(r)
     /\ tracked' = tracked \cup {r}
     /\ dataWanted' = [dataWanted EXCEPT ![r] = IF r \in Streams THEN Initial ELSE 1]
  /\ timer' = TRUE
  /\ kickQueued' = TRUE
  /\ UNCHANGED <<suspect, lostReported, parityDue, closed, entryStateVars, open,
                 failures, got, skipped, netVars, received>>

\* A request ends without its reply (timeout, abort, failed upload, a sibling
\* copy's success, the end of a stream).  The scheduler learns of it on a tick.
Settle(r) ==
  /\ r \in pending
  /\ pending' = pending \ {r}
  /\ active' = active \ AllBlocksOf(r)
  /\ got' = got \ AllBlocksOf(r) /\ received' = received \ AllBlocksOf(r)
  /\ UNCHANGED <<targetVars, loopVars, entryStateVars, open, failures, sent,
                 skipped, netVars>>

\* The deferred surbPool.cleanup of a request that completed.
CleanUp(r) ==
  /\ r \notin pending
  /\ active \cap AllBlocksOf(r) # {}
  /\ active' = active \ AllBlocksOf(r)
  /\ UNCHANGED <<targetVars, loopVars, entryStateVars, open, failures, sent,
                 pending, got, skipped, netVars, received>>

\* A burst replenishment registers more reply blocks for the request.
Replenish(r) ==
  /\ r \in pending \ Streams
  /\ \E i \in 1..Initial : kind[<<r, i>>] = "need_more" /\ <<r, i>> \in received
  /\ LET added == AllBlocksOf(r) \ BlocksOf(r) IN
     /\ added # {} /\ added \cap (active \cup received) = {}
     /\ active' = active \cup added
  /\ UNCHANGED <<targetVars, loopVars, entryStateVars, open, failures, sent,
                 pending, got, skipped, netVars, received>>

\* A topology change moves the WebSocket to another entry; this one is claimed.
WebSocketMoves ==
  /\ skipped /\ ~closed
  /\ skipped' = FALSE
  /\ UNCHANGED <<targetVars, loopVars, entryStateVars, open, failures, sent,
                 pending, active, got, netVars, received>>

-----------------------------------------------------------------------------
(* Time                                                                    *)

\* parityFallbackMs has passed and some block is still deferred
ParityFallback(r) ==
  /\ r \in tracked /\ ~parityDue[r] /\ dataWanted[r] < Initial
  /\ parityDue' = [parityDue EXCEPT ![r] = TRUE]
  /\ UNCHANGED <<tracked, dataWanted, suspect, lostReported, loopVars,
                 entryStateVars, open, failures, hostVars, netVars, received>>

\* lostReplyGraceMs has passed for a request not reported before
LostGrace(r) ==
  /\ r \in tracked /\ suspect[r] = "since" /\ ~lostReported[r]
  /\ suspect' = [suspect EXCEPT ![r] = "grace"]
  /\ UNCHANGED <<tracked, dataWanted, lostReported, parityDue, loopVars,
                 entryStateVars, open, failures, hostVars, netVars, received>>

-----------------------------------------------------------------------------
(* The capability probe: started when the entry state is created, retried   *)
(* after a backoff when it failed.                                         *)

UsesProbe == Probes /\ LongPoll /\ Retain

\* entryState() and reprobe(), both at the head of claimFrom
ProbeAfterClaimFrom ==
  IF UsesProbe /\ probe \in {"none", "retry"} THEN "running" ELSE probe

ProbeStep(from, to) ==
  /\ probe = from
  /\ probe' \in to
  /\ UNCHANGED <<targetVars, loopVars, inFlight, claims, waiting, cursor, longPoll,
                 v2, waitMax, acks, open, failures, hostVars, netVars, received>>

ProbeAnswers == ProbeStep("running", {"hold", "nohold"})
ProbeFails == ProbeStep("running", {"backoff"})
ProbeBackoffEnds == ProbeStep("backoff", {"retry"})

-----------------------------------------------------------------------------
(* Limits and long-polls                                                   *)

\* limits()
ClaimLimit == IF v2 = "yes" THEN MaxClaims ELSE JsonMaxClaims
IdLimit == IF v2 = "yes" THEN MaxIds ELSE JsonMaxIds

\* waitFor(state, true) > 0: the path relays long-polls
CanHold ==
  /\ LongPoll /\ Retain
  /\ IF Probes THEN probe = "hold" ELSE waitMax = "some"
  /\ waitMax # "zero"

\* mutant: held claims may take every slot
HoldsIgnoringSlots(b) == CanHold

\* waitFor(state) > 0 for the claim that b others of this tick precede
Holds(b) == CanHold /\ waiting + b < BiggerOf(1, ClaimLimit - 1)

FirstArrivalFront ==
  IF FirstArrival /\ v2 = "yes" /\ longPoll # "no" /\ CanHold THEN 2 ELSE 1

-----------------------------------------------------------------------------
(* tick()                                                                  *)

Live == tracked \cap pending

\* mutant: IDs of open claims are claimed again
WantedInFlightToo(r) == active \cap AllBlocksOf(r)

\* wantedIds() of one target: data blocks first, the rest once the parity
\* fallback is due or a claim failed; never an ID that is in flight
Wanted(r) ==
  LET front == BiggerOf(dataWanted[r], FirstArrivalFront)
      fallback == suspect[r] # "no" \/ parityDue[r]
      deferred == IF fallback THEN {} ELSE {id \in BlocksOf(r) : id[2] > front}
  IN (active \cap AllBlocksOf(r)) \ (deferred \cup inFlight)

\* claimFrom() takes the live targets in sentAt order, rotated from the cursor
Position(r) == Cardinality({q \in Live : q < r})
\* mutant: the oldest target always goes first
NoRotation == 0
RotationStart == cursor % Cardinality(Live)
Turn(r) == (Position(r) + Cardinality(Live) - RotationStart) % Cardinality(Live)
Ahead(a, b) == \/ Turn(a[1]) < Turn(b[1])
               \/ a[1] = b[1] /\ a[2] < b[2]

\* and cuts their wanted IDs into batches 0, 1, ... of at most IdLimit, as many
\* as claims are free
AllWanted == UNION {Wanted(r) : r \in Live}
FreeClaims == IF claims < ClaimLimit THEN ClaimLimit - claims ELSE 0
Batches ==
  LET wanted == AllWanted
      number == [id \in wanted |-> Cardinality({x \in wanted : Ahead(x, id)}) \div IdLimit]
      full == (Cardinality(wanted) + IdLimit - 1) \div IdLimit
  IN [b \in 0..(SmallerOf(FreeClaims, full) - 1) |-> {id \in wanted : number[id] = b}]

\* queueAcks(): only for a known v2 entry; past the bound the oldest go (their
\* age is abstracted: any may)
AfterQueueAcks(known, queue, ids) ==
  IF known # "yes" \/ ~Retain \/ ids = {} THEN {queue}
  ELSE LET all == queue \cup ids IN
       IF Cardinality(all) <= MaxPendingAcks THEN {all}
       ELSE {kept \in SUBSET all :
               Cardinality(kept) \in MaxPendingAcks..BiggerOf(MaxPendingAcks, Cardinality(queue))}

\* takeAcks() of n claims in a row, share[a] = n: the ack stays queued
AckShares(queue, n) ==
  {share \in [queue -> 0..n] :
     \A b \in 0..(n - 1) :
       Cardinality({a \in queue : share[a] = b}) =
         IF Cardinality(queue) <= b * MaxAcksPerClaim THEN 0
         ELSE SmallerOf(MaxAcksPerClaim, Cardinality(queue) - b * MaxAcksPerClaim)}

\* n claims take the lowest idle slots; slot[k] = n: the slot is left alone
SlotChoices(n) ==
  {slot \in [Slots -> 0..n] :
     /\ \A k \in Slots : slot[k] # n => ~open[k].live
     /\ \A b \in 0..(n - 1) : \E k \in Slots : slot[k] = b
     /\ \A k, j \in Slots : /\ (slot[k] = slot[j] /\ slot[k] # n) => k = j
                            /\ (k < j /\ slot[k] # n /\ slot[j] # n) => slot[k] < slot[j]
                            /\ (k < j /\ slot[j] # n /\ ~open[k].live) => slot[k] # n}

\* The synchronous part of n claims, ids[b] being the IDs of claim b
StartClaims(n, ids, queue) ==
  \E slot \in SlotChoices(n), share \in AckShares(queue, n) :
    /\ open' = [k \in Slots |->
                 IF slot[k] = n THEN open[k]
                 ELSE [live |-> TRUE, ids |-> ids[slot[k]],
                       acks |-> {a \in queue : share[a] = slot[k]},
                       held |-> ids[slot[k]] # {} /\ Holds(slot[k]),
                       served |-> FALSE, items |-> {}]]
    /\ inFlight' = inFlight \cup UNION {ids[b] : b \in 0..(n - 1)}
    /\ claims' = claims + n
    /\ waiting' = waiting + Cardinality({b \in 0..(n - 1) : ids[b] # {} /\ Holds(b)})
    /\ acks' = {a \in queue : share[a] = n}

\* claimFrom() and the claims it starts
ClaimFrom(queue) ==
  /\ probe' = ProbeAfterClaimFrom
  /\ cursor' = IF FreeClaims = 0 THEN cursor
               ELSE (RotationStart + 1) % Cardinality(Live)
  /\ \E ids \in {Batches} : StartClaims(Cardinality(DOMAIN ids), ids, queue)

\* mutant: acks wait for a claim with IDs
FlushAcksNever(queue) ==
  StartClaims(0, [b \in {} |-> {}], queue) /\ UNCHANGED <<probe, cursor>>

\* flushAcks(): an ack-only claim
FlushAcks(queue) ==
  LET n == IF queue # {} /\ v2 = "yes" /\ claims < ClaimLimit THEN 1 ELSE 0
  IN /\ StartClaims(n, [b \in 0..(n - 1) |-> {}], queue)
     /\ UNCHANGED <<probe, cursor>>

\* nothing left for the interval to serve
NothingLeft(targets, queue, count) == targets = {} /\ queue = {} /\ count = 0

\* One pass: settled targets go and their blocks are acked, lost replies are
\* reported (checkLost), claims start, and the timer stops when nothing is left.
Tick ==
  /\ ~closed
  /\ tracked' = Live
  /\ dataWanted' = [r \in Requests |-> IF r \in Live THEN dataWanted[r] ELSE 1]
  /\ suspect' = [r \in Requests |-> IF r \in Live THEN suspect[r] ELSE "no"]
  /\ lostReported' = [r \in Requests |->
                       r \in Live /\ (lostReported[r] \/ suspect[r] = "grace")]
  /\ parityDue' = [r \in Requests |-> r \in Live /\ parityDue[r]]
  /\ \E queue \in AfterQueueAcks(v2, acks, UNION {BlocksOf(r) : r \in tracked \ pending}) :
       IF Live # {} /\ ~skipped THEN ClaimFrom(queue) ELSE FlushAcks(queue)
  /\ timer' = (timer /\ ~NothingLeft(tracked', acks', claims'))
  /\ UNCHANGED <<closed, longPoll, v2, waitMax, failures, hostVars, netVars, received>>

TimerTick == timer /\ Tick /\ UNCHANGED kickQueued
KickTick == kickQueued /\ Tick /\ kickQueued' = FALSE

-----------------------------------------------------------------------------
(* The entry (external) and the mix network behind it                      *)

\* A reply reaches the entry on one of the request's blocks.  (One that no
\* claim can still ask for would stay there unseen.)
ReplyArrives(id) ==
  /\ kind[id] = "absent"
  /\ id \in active \cup inFlight
  /\ \E what \in Kinds : kind' = [kind EXCEPT ![id] = what]
  /\ mail' = mail \cup {id}
  /\ UNCHANGED <<targetVars, loopVars, entryStateVars, open, failures, hostVars,
                 entry, received>>

\* The entry answers: a v2 entry drops what is acked and, asked to retain,
\* keeps what it returns; any other deletes what it returns.
ClaimServed(k) ==
  /\ open[k].live /\ ~open[k].served
  /\ LET kept == IF entry.v2 THEN mail \ open[k].acks ELSE mail
         items == open[k].ids \cap kept
     IN /\ open' = [open EXCEPT ![k].served = TRUE, ![k].items = items]
        /\ mail' = IF entry.v2 /\ Retain THEN kept ELSE kept \ items
  /\ UNCHANGED <<targetVars, loopVars, entryStateVars, failures, hostVars, entry,
                 kind, received>>

-----------------------------------------------------------------------------
(* The end of claim()                                                      *)

\* the finally block; after close() the entry state it counts in is an orphan
ClaimEnds(k) ==
  /\ open' = [open EXCEPT ![k] = Idle]
  /\ inFlight' = IF closed THEN inFlight ELSE inFlight \ open[k].ids
  /\ claims' = IF closed THEN claims ELSE claims - 1
  /\ waiting' = IF closed \/ ~open[k].held THEN waiting ELSE waiting - 1

\* The exchange failed or timed out, before or after the entry answered: its
\* acks are queued again and its tracked requests are suspect.
ClaimFails(k) ==
  /\ open[k].live
  /\ failures < MaxFailures
  /\ failures' = failures + 1
  /\ ClaimEnds(k)
  /\ acks' = IF closed THEN acks ELSE acks \cup open[k].acks
  /\ suspect' = [r \in Requests |->
                  IF r \in tracked /\ suspect[r] = "no" /\ open[k].ids \cap AllBlocksOf(r) # {}
                  THEN "since" ELSE suspect[r]]
  /\ UNCHANGED <<tracked, dataWanted, lostReported, parityDue, loopVars, cursor,
                 longPoll, v2, waitMax, probe, hostVars, netVars, received>>

\* v2 and waitMaxMs as the answer shows them: with the v2 headers, or only by
\* its body; noteOutcome() learns from an empty answer whether it was held
Learn(k) ==
  LET v2Seen == IF entry.v2 THEN "yes" ELSE "no" IN
  /\ \/ v2' = v2Seen /\ waitMax' = IF entry.v2 THEN entry.wait ELSE waitMax
     \/ v2' = (IF open[k].items # {} THEN v2Seen ELSE v2) /\ waitMax' = waitMax
  /\ IF open[k].ids # {} /\ open[k].items = {} /\ open[k].held /\ longPoll = "unknown"
     THEN longPoll' \in {"yes", "no"} ELSE longPoll' = longPoll

\* host.deliver for each item: the SURB registry matches it once; a fragment of
\* a pending request clears the suspicion, names the data shard count and may
\* complete the reply, or fail the request when it is too large
Deliver(items) ==
  LET matched == {id \in items \cap active : kind[id] # "corrupt"}
      frags == {id \in matched : kind[id] # "need_more" /\ id[1] \in pending \ Streams}
      hit == {id[1] : id \in frags} \cap tracked
      tooBig == {id[1] : id \in {x \in frags : kind[x] = "oversize"}}
      filled == got \cup {id \in frags : kind[id] = "fragment"}
  IN /\ pending' = {r \in pending \ tooBig :
                      Cardinality(filled \cap AllBlocksOf(r)) < DataShards}
     /\ got' = {id \in filled : id[1] \in pending'}
     /\ received' = {id \in received \cup items : id[1] \in pending'}
     /\ active' = (active \ matched) \ UNION {AllBlocksOf(r) : r \in tooBig}
     /\ suspect' = [r \in Requests |-> IF r \in hit THEN "no" ELSE suspect[r]]
     /\ dataWanted' = [r \in Requests |->
                        IF r \in hit THEN BiggerOf(dataWanted[r], DataShards) ELSE dataWanted[r]]

\* mutant: every ID asked for is acked, answered or not
AskedIds(k) == open[k].ids

\* the IDs of the items that came back, to be acked
ReceivedIds(k) == open[k].items

\* The answer arrived: everything from the end of the await to the return.
ClaimReturns(k) ==
  /\ open[k].live /\ open[k].served
  /\ ClaimEnds(k)
  /\ IF closed
     THEN UNCHANGED <<targetVars, loopVars, longPoll, v2, waitMax, acks, hostVars,
                      received>>
     ELSE /\ Learn(k)
          /\ Deliver(open[k].items)
          /\ acks' \in AfterQueueAcks(v2', acks, ReceivedIds(k))
          /\ timer' = (timer \/ acks' # {})
          /\ UNCHANGED <<tracked, lostReported, parityDue, kickQueued, closed, sent,
                         skipped>>
  /\ UNCHANGED <<cursor, probe, failures, netVars>>

\* disconnect(): close() drops the targets and every entry state, and the
\* client rejects what is pending.  A queued kick then finds nothing to do.
Close ==
  /\ ~closed
  /\ closed' = TRUE /\ timer' = FALSE /\ kickQueued' = FALSE
  /\ tracked' = {}
  /\ dataWanted' = [r \in Requests |-> 1] /\ suspect' = [r \in Requests |-> "no"]
  /\ lostReported' = [r \in Requests |-> FALSE] /\ parityDue' = [r \in Requests |-> FALSE]
  /\ inFlight' = {} /\ claims' = 0 /\ waiting' = 0 /\ cursor' = 0
  /\ longPoll' = "unknown" /\ v2' = "unknown" /\ waitMax' = "unknown"
  /\ probe' = "none" /\ acks' = {}
  /\ pending' = {} /\ active' = active \ UNION {AllBlocksOf(r) : r \in pending}
  /\ got' = {} /\ received' = {}
  /\ UNCHANGED <<open, failures, sent, skipped, netVars>>

-----------------------------------------------------------------------------
Next ==
  \/ Track
  \/ \E r \in Requests : Settle(r)
  \/ \E r \in Requests : CleanUp(r)
  \/ \E r \in Requests : Replenish(r)
  \/ WebSocketMoves
  \/ \E r \in Requests : ParityFallback(r)
  \/ \E r \in Requests : LostGrace(r)
  \/ ProbeAnswers
  \/ ProbeFails
  \/ ProbeBackoffEnds
  \/ TimerTick
  \/ KickTick
  \/ \E id \in Ids : ReplyArrives(id)
  \/ \E k \in Slots : ClaimServed(k)
  \/ \E k \in Slots : ClaimFails(k)
  \/ \E k \in Slots : ClaimReturns(k)
  \/ Close

Spec == Init /\ [][Next]_vars

\* The interval runs, an entry answers a claim and the answer arrives (the
\* failures it may suffer instead are bounded), and time passes.  Nothing
\* obliges a request to be sent, settled or closed, or a kick to run.
ClaimProgress(k) == ClaimServed(k) \/ ClaimReturns(k)
TimePasses == \E r \in Requests : ParityFallback(r) \/ LostGrace(r)
Fairness ==
  /\ WF_vars(TimerTick)
  /\ \A k \in Slots : WF_vars(ClaimProgress(k))
  /\ WF_vars(TimePasses)

FairSpec == Spec /\ Fairness

-----------------------------------------------------------------------------
(* Properties                                                              *)

\* The type of every variable.
TypeOK ==
  /\ tracked \subseteq Requests
  /\ dataWanted \in [Requests -> Nat]
  /\ suspect \in [Requests -> {"no", "since", "grace"}]
  /\ lostReported \in [Requests -> BOOLEAN] /\ parityDue \in [Requests -> BOOLEAN]
  /\ timer \in BOOLEAN /\ kickQueued \in BOOLEAN /\ closed \in BOOLEAN
  /\ inFlight \subseteq Ids /\ claims \in Nat /\ waiting \in Nat /\ cursor \in Nat
  /\ longPoll \in {"unknown", "yes", "no"} /\ v2 \in {"unknown", "yes", "no"}
  /\ waitMax \in {"unknown", "zero", "some"}
  /\ probe \in {"none", "running", "backoff", "retry", "hold", "nohold"}
  /\ acks \subseteq Ids
  /\ open \in [Slots -> Claim] /\ failures \in Nat
  /\ sent \in 0..NumRequests /\ pending \subseteq Requests
  /\ active \subseteq Ids /\ got \subseteq Ids /\ skipped \in BOOLEAN
  /\ entry \in EntryKinds
  /\ kind \in [Ids -> Kinds \cup {"absent"}] /\ mail \subseteq Ids
  /\ received \subseteq Ids

\* "An ID is never in two claims at once" (reply_claims.ts), and inFlight is
\* exactly the IDs of the open claims, however claims overlap, fail and return.
OneClaimPerId ==
  /\ \A j, k \in Slots : j # k => open[j].ids \cap open[k].ids = {}
  /\ ~closed => inFlight = UNION {open[k].ids : k \in Slots}

\* The counters claim() keeps beside its async frames count those frames.
CountsMatch ==
  ~closed => /\ claims = Cardinality({k \in Slots : open[k].live})
             /\ waiting = Cardinality({k \in Slots : open[k].held})

\* Claims are disjoint and counted, whatever overlaps.
ClaimsExact == OneClaimPerId /\ CountsMatch

\* "One claim slot always stays free of long-polls" (waitFor), so a new request
\* is never kept waiting by held claims.
HeldLeavesASlot == waiting < ClaimLimit

\* An ack, queued or on its way, names a reply that a claim brought back or a
\* request that no longer waits: no ack discards a reply somebody needs.
AckedAreDone ==
  \A id \in acks \cup UNION {open[k].acks : k \in Slots} :
    id \in received \/ id[1] \notin pending

\* A v2 entry asked to retain still holds every reply that reached it for a
\* pending request and was not brought back, whatever claims failed.
RepliesKept ==
  entry.v2 /\ Retain =>
    \A id \in Ids :
      (kind[id] # "absent" /\ id[1] \in pending /\ id \notin received) => id \in mail

\* A fragment a retaining v2 entry holds for a pending request is brought back,
\* however many requests share the claims and whichever claims fail first.
ReplyDelivered ==
  \A id \in Ids :
    (entry.v2 /\ Retain /\ ~skipped /\ id \in mail \cap active /\ id[1] \in pending)
      ~> (id \in received \/ id[1] \notin pending)

\* Once the last request has settled the scheduler stops: acks drain, claims
\* end, the interval is cleared.
Quiesces == (sent = NumRequests /\ pending = {}) ~> ~timer
=============================================================================
