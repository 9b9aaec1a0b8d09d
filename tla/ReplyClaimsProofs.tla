------------------------- MODULE ReplyClaimsProofs -------------------------
(***************************************************************************)
(* Proofs about ReplyClaims: for every number of requests, blocks, claims, *)
(* failures and every setting, the types hold, the counters of the entry   *)
(* state count the open claims, an ID is in at most one of them, acks lose *)
(* no reply, and long-polls leave a claim slot free.                       *)
(***************************************************************************)
EXTENDS ReplyClaims, FiniteSetTheorems, TLAPS

\* A slot without a claim holds nothing.
IdleSlotsEmpty == \A k \in Slots : ~open[k].live => open[k] = Idle

ClaimInv == TypeOK /\ IdleSlotsEmpty /\ OneClaimPerId /\ CountsMatch

LiveSlots == {k \in Slots : open[k].live}
HeldSlots == {k \in Slots : open[k].held}

-----------------------------------------------------------------------------

\* The claim limits are positive, so the slots are a finite set.
LEMMA SlotsFinite == IsFiniteSet(Slots)
BY LimitsAssumption, FS_Interval DEF Slots, BiggerOf

\* The tracked requests are a finite set.
LEMMA RequestsFinite == IsFiniteSet(Requests)
BY SizesAssumption, FS_Interval DEF Requests

\* queueAcks() never queues more than the IDs it is given.
LEMMA QueueAcksAdds ==
  ASSUME NEW known, NEW queue, NEW ids, NEW kept \in AfterQueueAcks(known, queue, ids)
  PROVE  kept \subseteq queue \cup ids
BY DEF AfterQueueAcks

\* Dividing the slots between n claims: the slots that change were idle, and
\* they correspond one to one to the claims.
LEMMA SlotsTaken ==
  ASSUME NEW n \in Nat, NEW slot \in SlotChoices(n), NEW P \in SUBSET (0..(n - 1))
  PROVE  LET S == {k \in Slots : slot[k] \in P}
         IN  IsFiniteSet(S) /\ Cardinality(S) = Cardinality(P)
<1> DEFINE S == {k \in Slots : slot[k] \in P}
           f == [k \in S |-> slot[k]]
<1>1. slot \in [Slots -> 0..n]
  BY DEF SlotChoices
<1>2. f \in [S -> P]
  OBVIOUS
<1>3. ASSUME NEW j \in S, NEW k \in S, f[j] = f[k]
      PROVE  j = k
  BY <1>1, <1>3 DEF SlotChoices
<1>4. ASSUME NEW b \in P
      PROVE  \E k \in S : f[k] = b
  <2>1. PICK k \in Slots : slot[k] = b
    BY DEF SlotChoices
  <2> QED
    BY <2>1
<1>5. f \in Bijection(S, P)
  BY <1>2, <1>3, <1>4 DEF Bijection, Injection, Surjection, IsInjective
<1>6. IsFiniteSet(S)
  BY SlotsFinite, FS_Subset
<1> QED
  BY <1>5, <1>6, FS_Bijection DEF ExistsBijection

-----------------------------------------------------------------------------
(* Starting claims                                                         *)

\* What starting n claims on disjoint sets of IDs that are not in flight does
\* to the claim invariant.
LEMMA StartClaimsKeepsInv ==
  ASSUME ClaimInv, ~closed,
         NEW n \in Nat, NEW ids \in [0..(n - 1) -> SUBSET Ids], NEW queue \in SUBSET Ids,
         \A b \in 0..(n - 1) : ids[b] \cap inFlight = {},
         \A a, b \in 0..(n - 1) : a # b => ids[a] \cap ids[b] = {},
         StartClaims(n, ids, queue), closed' = closed
  PROVE  /\ open' \in [Slots -> Claim]
         /\ inFlight' \subseteq Ids /\ claims' \in Nat /\ waiting' \in Nat
         /\ acks' \subseteq queue
         /\ IdleSlotsEmpty' /\ OneClaimPerId' /\ CountsMatch'
<1>1. PICK slot \in SlotChoices(n), share \in AckShares(queue, n) :
        /\ open' = [k \in Slots |->
                     IF slot[k] = n THEN open[k]
                     ELSE [live |-> TRUE, ids |-> ids[slot[k]],
                           acks |-> {a \in queue : share[a] = slot[k]},
                           held |-> ids[slot[k]] # {} /\ Holds(slot[k]),
                           served |-> FALSE, items |-> {}]]
        /\ inFlight' = inFlight \cup UNION {ids[b] : b \in 0..(n - 1)}
        /\ claims' = claims + n
        /\ waiting' = waiting + Cardinality({b \in 0..(n - 1) : ids[b] # {} /\ Holds(b)})
        /\ acks' = {a \in queue : share[a] = n}
  BY DEF StartClaims
<1> DEFINE held == {b \in 0..(n - 1) : ids[b] # {} /\ Holds(b)}
           taken == {k \in Slots : slot[k] \in 0..(n - 1)}
           takenHeld == {k \in Slots : slot[k] \in held}
<1>2. /\ slot \in [Slots -> 0..n]
      /\ \A k \in Slots : slot[k] # n => ~open[k].live
      /\ \A b \in 0..(n - 1) : \E k \in Slots : slot[k] = b
      /\ \A k, j \in Slots : (slot[k] = slot[j] /\ slot[k] # n) => k = j
  BY DEF SlotChoices
<1>3. \A k \in Slots : slot[k] # n <=> slot[k] \in 0..(n - 1)
  BY <1>2
<1>4. \A k \in Slots : slot[k] # n => open[k] = Idle
  BY <1>2 DEF ClaimInv, IdleSlotsEmpty
<1>5. open \in [Slots -> Claim] /\ inFlight \subseteq Ids /\ claims \in Nat /\ waiting \in Nat
  BY DEF ClaimInv, TypeOK
<1>6. open' \in [Slots -> Claim]
  <2> SUFFICES ASSUME NEW k \in Slots
               PROVE  open'[k] \in Claim
    BY <1>1
  <2>1. CASE slot[k] = n
    BY <2>1, <1>1, <1>5
  <2>2. CASE slot[k] # n
    <3>1. ids[slot[k]] \in SUBSET Ids
      BY <2>2, <1>3
    <3>2. (ids[slot[k]] # {} /\ Holds(slot[k])) \in BOOLEAN
      OBVIOUS
    <3> HIDE DEF held, taken, takenHeld
    <3>3. open'[k] = [live |-> TRUE, ids |-> ids[slot[k]],
                      acks |-> {a \in queue : share[a] = slot[k]},
                      held |-> ids[slot[k]] # {} /\ Holds(slot[k]),
                      served |-> FALSE, items |-> {}]
      BY <2>2, <1>1
    <3> QED
      BY <3>1, <3>2, <3>3 DEF Claim
  <2> QED
    BY <2>1, <2>2
<1>7. inFlight' \subseteq Ids
  BY <1>1, <1>5
<1>8. acks' \subseteq queue
  BY <1>1
<1>9. IdleSlotsEmpty'
  BY <1>1, <1>5 DEF ClaimInv, IdleSlotsEmpty, Claim
<1>10. OneClaimPerId'
  <2>1. ASSUME NEW j \in Slots, NEW k \in Slots, j # k
        PROVE  open'[j].ids \cap open'[k].ids = {}
    <3>1. \A i \in Slots : slot[i] = n => open'[i].ids = open[i].ids
      BY <1>1
    <3>2. \A i \in Slots : slot[i] # n => open'[i].ids = ids[slot[i]]
      BY <1>1
    <3>3. \A i \in Slots : open[i].ids \subseteq inFlight
      BY DEF ClaimInv, OneClaimPerId
    <3>4. CASE slot[j] = n /\ slot[k] = n
      BY <3>4, <3>1, <2>1 DEF ClaimInv, OneClaimPerId
    <3>5. CASE slot[j] # n /\ slot[k] # n
      BY <3>5, <3>2, <2>1, <1>2, <1>3
    <3>6. CASE slot[j] # n /\ slot[k] = n
      BY <3>6, <3>1, <3>2, <3>3, <1>3
    <3>7. CASE slot[j] = n /\ slot[k] # n
      BY <3>7, <3>1, <3>2, <3>3, <1>3
    <3> QED
      BY <3>4, <3>5, <3>6, <3>7
  <2>2. inFlight' = UNION {open'[k].ids : k \in Slots}
    <3>1. ASSUME NEW id \in inFlight'
          PROVE  \E k \in Slots : id \in open'[k].ids
      <4>1. CASE id \in inFlight
        <5>1. PICK k \in Slots : id \in open[k].ids
          BY <4>1 DEF ClaimInv, OneClaimPerId
        <5>2. slot[k] = n
          BY <5>1, <1>4 DEF Idle
        <5> QED
          BY <5>1, <5>2, <1>1
      <4>2. CASE id \in UNION {ids[b] : b \in 0..(n - 1)}
        <5>1. PICK b \in 0..(n - 1) : id \in ids[b]
          BY <4>2
        <5>2. PICK k \in Slots : slot[k] = b
          BY <1>2
        <5>3. slot[k] # n
          BY <5>2
        <5> QED
          BY <5>1, <5>2, <5>3, <1>1
      <4> QED
        BY <4>1, <4>2, <1>1
    <3>2. ASSUME NEW k \in Slots, NEW id \in open'[k].ids
          PROVE  id \in inFlight'
      <4>1. CASE slot[k] = n
        BY <4>1, <3>2, <1>1 DEF ClaimInv, OneClaimPerId
      <4>2. CASE slot[k] # n
        BY <4>2, <3>2, <1>1, <1>3
      <4> QED
        BY <4>1, <4>2
    <3> QED
      BY <3>1, <3>2
  <2> QED
    BY <2>1, <2>2 DEF OneClaimPerId
<1>11. claims' = Cardinality(LiveSlots') /\ claims' \in Nat
  <2>1. LiveSlots' = LiveSlots \cup taken
    BY <1>1, <1>3, <1>5 DEF LiveSlots, Claim
  <2>2. LiveSlots \cap taken = {}
    BY <1>2, <1>3 DEF LiveSlots
  <2>3. IsFiniteSet(taken) /\ Cardinality(taken) = Cardinality(0..(n - 1))
    BY SlotsTaken, 0..(n - 1) \in SUBSET (0..(n - 1)), ZenonT(40)
  <2>4. Cardinality(0..(n - 1)) = n
    BY FS_Interval
  <2>5. IsFiniteSet(LiveSlots)
    BY SlotsFinite, FS_Subset DEF LiveSlots
  <2>6. Cardinality(LiveSlots') = Cardinality(LiveSlots) + n - Cardinality({})
    BY <2>1, <2>2, <2>3, <2>4, <2>5, FS_Union
  <2>7. claims = Cardinality(LiveSlots)
    BY DEF ClaimInv, CountsMatch, LiveSlots
  <2> QED
    BY <2>6, <2>7, <1>1, <1>5, FS_EmptySet
<1>12. waiting' = Cardinality(HeldSlots') /\ waiting' \in Nat
  <2>1. HeldSlots' = HeldSlots \cup takenHeld
    <3>1. ASSUME NEW k \in Slots, slot[k] = n
          PROVE  open'[k].held = open[k].held /\ k \notin takenHeld
      BY <3>1, <1>1
    <3>2. ASSUME NEW k \in Slots, slot[k] # n
          PROVE  /\ open'[k].held <=> k \in takenHeld
                 /\ ~open[k].held
      <4>1. open'[k].held = (ids[slot[k]] # {} /\ Holds(slot[k]))
        BY <3>2, <1>1
      <4>2. slot[k] \in 0..(n - 1)
        BY <3>2, <1>3
      <4>3. k \in takenHeld <=> (ids[slot[k]] # {} /\ Holds(slot[k]))
        BY <4>2, Zenon
      <4>4. open'[k].held <=> k \in takenHeld
        BY <4>1, <4>3, Zenon
      <4>5. ~open[k].held
        BY <3>2, <1>4 DEF Idle
      <4> QED
        BY <4>4, <4>5
    <3> QED
      BY <3>1, <3>2 DEF HeldSlots
  <2>2. HeldSlots \cap takenHeld = {}
    BY <1>3, <1>4 DEF HeldSlots, Idle
  <2>3. IsFiniteSet(takenHeld) /\ Cardinality(takenHeld) = Cardinality(held)
    BY SlotsTaken, held \in SUBSET (0..(n - 1)), ZenonT(40)
  <2>4. Cardinality(takenHeld) \in Nat
    BY <2>3, FS_CardinalityType
  <2>5. IsFiniteSet(HeldSlots)
    BY SlotsFinite, FS_Subset DEF HeldSlots
  <2>6. Cardinality(HeldSlots') = Cardinality(HeldSlots) + Cardinality(takenHeld) - Cardinality({})
    BY <2>1, <2>2, <2>3, <2>5, FS_Union
  <2>7. waiting = Cardinality(HeldSlots)
    BY DEF ClaimInv, CountsMatch, HeldSlots
  <2>8. waiting' = waiting + Cardinality(held)
    BY <1>1
  <2> HIDE DEF held, takenHeld
  <2> QED
    BY <2>3, <2>4, <2>6, <2>7, <2>8, <1>5, FS_EmptySet
<1> QED
  BY <1>6, <1>7, <1>8, <1>9, <1>10, <1>11, <1>12 DEF CountsMatch, LiveSlots, HeldSlots

\* The end of a claim removes it from every count.
LEMMA ClaimEndsKeepsInv ==
  ASSUME ClaimInv, NEW k \in Slots, open[k].live, ClaimEnds(k), closed' = closed
  PROVE  /\ open' \in [Slots -> Claim]
         /\ inFlight' \subseteq Ids /\ claims' \in Nat /\ waiting' \in Nat
         /\ IdleSlotsEmpty' /\ OneClaimPerId' /\ CountsMatch'
<1>1. open \in [Slots -> Claim] /\ inFlight \subseteq Ids /\ claims \in Nat /\ waiting \in Nat
      /\ closed \in BOOLEAN
  BY DEF ClaimInv, TypeOK
<1>2. Idle \in Claim
  BY DEF Idle, Claim
<1>3. open' = [open EXCEPT ![k] = Idle]
  BY DEF ClaimEnds
<1>4. open' \in [Slots -> Claim] /\ IdleSlotsEmpty'
  BY <1>1, <1>2, <1>3 DEF ClaimInv, IdleSlotsEmpty
<1>5. inFlight' \subseteq Ids
  BY <1>1 DEF ClaimEnds
<1>6. OneClaimPerId'
  <2>1. \A i \in Slots : open'[i].ids = IF i = k THEN {} ELSE open[i].ids
    BY <1>1, <1>3 DEF Idle
  <2>2. \A i, j \in Slots : i # j => open'[i].ids \cap open'[j].ids = {}
    BY <2>1 DEF ClaimInv, OneClaimPerId
  <2>3. ASSUME ~closed
        PROVE  inFlight' = UNION {open'[i].ids : i \in Slots}
    <3>1. inFlight' = inFlight \ open[k].ids
      BY <2>3 DEF ClaimEnds
    <3>2. \A id \in inFlight' : \E i \in Slots : id \in open'[i].ids
      BY <3>1, <2>1, <2>3 DEF ClaimInv, OneClaimPerId
    <3>3. \A i \in Slots : open'[i].ids \subseteq inFlight'
      BY <3>1, <2>1, <2>3 DEF ClaimInv, OneClaimPerId
    <3> QED
      BY <3>2, <3>3
  <2> QED
    BY <2>2, <2>3 DEF OneClaimPerId
<1>7. CASE closed
  BY <1>1, <1>4, <1>5, <1>6, <1>7 DEF ClaimEnds, CountsMatch
<1>8. CASE ~closed
  <2>1. claims = Cardinality(LiveSlots) /\ waiting = Cardinality(HeldSlots)
    BY <1>8 DEF ClaimInv, CountsMatch, LiveSlots, HeldSlots
  <2>2. IsFiniteSet(LiveSlots) /\ IsFiniteSet(HeldSlots)
    BY SlotsFinite, FS_Subset DEF LiveSlots, HeldSlots
  <2>3. LiveSlots' = LiveSlots \ {k} /\ k \in LiveSlots
    BY <1>1, <1>3 DEF LiveSlots, Idle
  <2>4. HeldSlots' = HeldSlots \ {k} /\ (k \in HeldSlots <=> open[k].held)
    BY <1>1, <1>3 DEF HeldSlots, Idle
  <2>5. Cardinality(LiveSlots') = claims - 1 /\ Cardinality(LiveSlots') \in Nat
    BY <2>1, <2>2, <2>3, FS_RemoveElement, FS_CardinalityType
  <2>6. /\ Cardinality(HeldSlots') = IF open[k].held THEN waiting - 1 ELSE waiting
        /\ Cardinality(HeldSlots') \in Nat
    BY <2>1, <2>2, <2>4, FS_RemoveElement, FS_CardinalityType
  <2>7. claims' = claims - 1 /\ waiting' = IF open[k].held THEN waiting - 1 ELSE waiting
    BY <1>8 DEF ClaimEnds
  <2> QED
    BY <1>4, <1>5, <1>6, <2>5, <2>6, <2>7 DEF CountsMatch, LiveSlots, HeldSlots
<1> QED
  BY <1>7, <1>8

-----------------------------------------------------------------------------
(* One pass of the scheduler                                               *)

\* The reply-block IDs of finitely many requests are finitely many.
LEMMA IdsFinite == IsFiniteSet(Ids)
<1>1. IsFiniteSet(1..(Initial + Extra))
  BY SizesAssumption, FS_Interval
<1> QED
  BY <1>1, RequestsFinite, FS_Product DEF Ids

\* An integer division by a positive number is a natural number.
LEMMA DivNat ==
  ASSUME NEW a \in Nat, NEW b \in Nat \ {0}
  PROVE  a \div b \in Nat
OBVIOUS

\* The batches of claimFrom(): disjoint sets of IDs, none of them in flight.
LEMMA BatchesDisjoint ==
  ASSUME TypeOK
  PROVE  \E n \in Nat :
           /\ Cardinality(DOMAIN Batches) = n
           /\ Batches \in [0..(n - 1) -> SUBSET Ids]
           /\ \A b \in 0..(n - 1) : Batches[b] \cap inFlight = {}
           /\ \A a, b \in 0..(n - 1) : a # b => Batches[a] \cap Batches[b] = {}
<1> DEFINE wanted == AllWanted
           number == [id \in wanted |-> Cardinality({x \in wanted : Ahead(x, id)}) \div IdLimit]
           full == (Cardinality(wanted) + IdLimit - 1) \div IdLimit
           n == SmallerOf(FreeClaims, full)
<1>1. wanted \subseteq Ids /\ wanted \cap inFlight = {}
  BY DEF AllWanted, Wanted, TypeOK
<1>2. IdLimit \in Nat \ {0} /\ ClaimLimit \in Nat \ {0}
  BY LimitsAssumption DEF IdLimit, ClaimLimit
<1>3. Cardinality(wanted) \in Nat
  BY <1>1, IdsFinite, FS_Subset, FS_CardinalityType
<1>4. full \in Nat
  <2>1. Cardinality(wanted) + IdLimit - 1 \in Nat
    BY <1>2, <1>3
  <2> QED
    BY <2>1, <1>2, DivNat
<1>5. FreeClaims \in Nat
  BY <1>2 DEF FreeClaims, TypeOK
<1>6. n \in Nat
  <2> HIDE DEF full
  <2> QED
    BY <1>4, <1>5 DEF SmallerOf
<1>7. Batches = [b \in 0..(n - 1) |-> {id \in wanted : number[id] = b}]
  BY DEF Batches
<1> HIDE DEF wanted, number, full, n
<1>8. Cardinality(DOMAIN Batches) = n
  <2>1. DOMAIN Batches = 0..(n - 1)
    BY <1>7
  <2> QED
    BY <2>1, <1>6, FS_Interval
<1>9. Batches \in [0..(n - 1) -> SUBSET Ids]
  BY <1>7, <1>1
<1>10. \A b \in 0..(n - 1) : Batches[b] \cap inFlight = {}
  BY <1>7, <1>1
<1>11. \A a, b \in 0..(n - 1) : a # b => Batches[a] \cap Batches[b] = {}
  BY <1>7
<1> QED
  BY <1>6, <1>8, <1>9, <1>10, <1>11

\* A tick keeps the claim invariant and queues acks only of IDs.
LEMMA TickKeepsInv ==
  ASSUME ClaimInv, Tick, kickQueued' \in BOOLEAN
  PROVE  ClaimInv'
<1> USE DEF ClaimInv
<1>1. PICK queue \in AfterQueueAcks(v2, acks, UNION {BlocksOf(r) : r \in tracked \ pending}) :
        IF Live # {} /\ ~skipped THEN ClaimFrom(queue) ELSE FlushAcks(queue)
  BY DEF Tick
<1>2. queue \in SUBSET Ids
  <2>1. \A r \in tracked : BlocksOf(r) \subseteq Ids
    BY SizesAssumption DEF TypeOK, BlocksOf, Ids
  <2> QED
    BY <2>1, QueueAcksAdds DEF TypeOK
<1>3. closed' = closed /\ ~closed
  BY DEF Tick
<1>4. /\ open' \in [Slots -> Claim]
      /\ inFlight' \subseteq Ids /\ claims' \in Nat /\ waiting' \in Nat
      /\ acks' \subseteq queue
      /\ IdleSlotsEmpty' /\ OneClaimPerId' /\ CountsMatch'
      /\ probe' \in {"none", "running", "backoff", "retry", "hold", "nohold"}
      /\ cursor' \in Nat
  <2>1. CASE Live # {} /\ ~skipped
    <3>1. /\ probe' = ProbeAfterClaimFrom
          /\ cursor' = IF FreeClaims = 0 THEN cursor
                       ELSE (RotationStart + 1) % Cardinality(Live)
          /\ StartClaims(Cardinality(DOMAIN Batches), Batches, queue)
      BY <1>1, <2>1 DEF ClaimFrom
    <3>2. PICK n \in Nat :
            /\ Cardinality(DOMAIN Batches) = n
            /\ Batches \in [0..(n - 1) -> SUBSET Ids]
            /\ \A b \in 0..(n - 1) : Batches[b] \cap inFlight = {}
            /\ \A a, b \in 0..(n - 1) : a # b => Batches[a] \cap Batches[b] = {}
      BY BatchesDisjoint
    <3>3. StartClaims(n, Batches, queue)
      BY <3>1, <3>2
    <3>4. /\ open' \in [Slots -> Claim]
          /\ inFlight' \subseteq Ids /\ claims' \in Nat /\ waiting' \in Nat
          /\ acks' \subseteq queue
          /\ IdleSlotsEmpty' /\ OneClaimPerId' /\ CountsMatch'
      BY <3>2, <3>3, <1>2, <1>3, StartClaimsKeepsInv
    <3>5. cursor' \in Nat
      <4>1. IsFiniteSet(Live)
        BY RequestsFinite, FS_Subset DEF Live, TypeOK
      <4>2. Cardinality(Live) \in Nat \ {0}
        BY <4>1, <2>1, FS_CardinalityType, FS_EmptySet
      <4>3. RotationStart \in Nat
        BY <4>2 DEF RotationStart, TypeOK
      <4> QED
        BY <3>1, <4>2, <4>3 DEF TypeOK
    <3>6. probe' \in {"none", "running", "backoff", "retry", "hold", "nohold"}
      BY <3>1 DEF ProbeAfterClaimFrom, TypeOK
    <3> QED
      BY <3>4, <3>5, <3>6
  <2>2. CASE ~(Live # {} /\ ~skipped)
    <3>1. PICK n \in {0, 1} :
            StartClaims(n, [b \in 0..(n - 1) |-> {}], queue) /\ UNCHANGED <<probe, cursor>>
      BY <1>1, <2>2 DEF FlushAcks
    <3> DEFINE none == [b \in 0..(n - 1) |-> {}]
    <3>2. /\ none \in [0..(n - 1) -> SUBSET Ids]
          /\ \A b \in 0..(n - 1) : none[b] \cap inFlight = {}
          /\ \A a, b \in 0..(n - 1) : a # b => none[a] \cap none[b] = {}
      OBVIOUS
    <3>3. n \in Nat /\ StartClaims(n, none, queue)
      BY <3>1
    <3> HIDE DEF none
    <3>4. /\ open' \in [Slots -> Claim]
          /\ inFlight' \subseteq Ids /\ claims' \in Nat /\ waiting' \in Nat
          /\ acks' \subseteq queue
          /\ IdleSlotsEmpty' /\ OneClaimPerId' /\ CountsMatch'
      BY <3>2, <3>3, <1>2, <1>3, StartClaimsKeepsInv
    <3> QED
      BY <3>1, <3>4 DEF TypeOK
  <2> QED
    BY <2>1, <2>2
<1>5. /\ tracked' \subseteq Requests
      /\ dataWanted' \in [Requests -> Nat]
      /\ suspect' \in [Requests -> {"no", "since", "grace"}]
      /\ lostReported' \in [Requests -> BOOLEAN] /\ parityDue' \in [Requests -> BOOLEAN]
      /\ timer' \in BOOLEAN
  BY DEF Tick, TypeOK, Live
<1>6. UNCHANGED <<closed, longPoll, v2, waitMax, failures, hostVars, netVars, received>>
  BY DEF Tick
<1> QED
  BY <1>2, <1>4, <1>5, <1>6 DEF TypeOK, hostVars, netVars

-----------------------------------------------------------------------------
(* The claim invariant is inductive                                        *)

\* A claimer that tracks nothing satisfies the claim invariant.
LEMMA InitClaimInv == Init => ClaimInv
<1> SUFFICES ASSUME Init PROVE ClaimInv
  OBVIOUS
<1>1. TypeOK
  <2>1. Idle \in Claim
    BY DEF Idle, Claim
  <2>2. open \in [Slots -> Claim]
    BY <2>1 DEF Init
  <2>3. /\ dataWanted \in [Requests -> Nat]
        /\ suspect \in [Requests -> {"no", "since", "grace"}]
        /\ lostReported \in [Requests -> BOOLEAN] /\ parityDue \in [Requests -> BOOLEAN]
        /\ kind \in [Ids -> Kinds \cup {"absent"}]
    BY DEF Init
  <2>4. skipped \in BOOLEAN /\ sent \in 0..NumRequests
    BY SizesAssumption, FlagsAssumption DEF Init
  <2> QED
    BY <2>2, <2>3, <2>4 DEF Init, TypeOK
<1>2. IdleSlotsEmpty /\ OneClaimPerId
  BY DEF Init, IdleSlotsEmpty, OneClaimPerId, Idle
<1>3. {k \in Slots : open[k].live} = {} /\ {k \in Slots : open[k].held} = {}
  BY DEF Init, Idle
<1>4. CountsMatch
  BY <1>3, FS_EmptySet DEF Init, CountsMatch
<1> QED
  BY <1>1, <1>2, <1>4 DEF ClaimInv

\* Steps that leave the claims and their counts alone
LEMMA OtherStepsKeepCounts ==
  ASSUME ClaimInv, TypeOK', UNCHANGED <<open, closed, inFlight, claims, waiting>>
  PROVE  ClaimInv'
<1>1. IdleSlotsEmpty'
  BY DEF ClaimInv, IdleSlotsEmpty
<1>2. OneClaimPerId'
  BY DEF ClaimInv, OneClaimPerId
<1>3. CountsMatch'
  BY DEF ClaimInv, CountsMatch
<1> QED
  BY <1>1, <1>2, <1>3 DEF ClaimInv

\* The reply blocks of requests are IDs.
LEMMA BlocksAreIds ==
  ASSUME NEW r \in Requests
  PROVE  BlocksOf(r) \subseteq Ids /\ AllBlocksOf(r) \subseteq Ids
BY SizesAssumption DEF BlocksOf, AllBlocksOf, Ids

\* Every step of the claimer, the client and the entry keeps the claim invariant.
LEMMA StepClaimInv == ClaimInv /\ [Next]_vars => ClaimInv'
<1> SUFFICES ASSUME ClaimInv, [Next]_vars PROVE ClaimInv'
  OBVIOUS
<1>0. TypeOK
  BY DEF ClaimInv
<1>1. CASE Track
  <2>1. sent + 1 \in Requests
    BY <1>1, <1>0, SizesAssumption DEF Track, TypeOK, Requests
  <2>2. BlocksOf(sent + 1) \subseteq Ids
    BY <2>1, BlocksAreIds
  <2>3. TypeOK'
    BY <1>0, <1>1, <2>1, <2>2, SizesAssumption
    DEF Track, TypeOK, entryStateVars, netVars, Requests
  <2> QED
    BY <2>3, <1>1, OtherStepsKeepCounts DEF Track, entryStateVars
<1>2. ASSUME NEW r \in Requests, Settle(r)
      PROVE  ClaimInv'
  <2>1. TypeOK'
    BY <1>0, <1>2
    DEF Settle, TypeOK, targetVars, loopVars, entryStateVars, netVars
  <2> QED
    BY <2>1, <1>2, OtherStepsKeepCounts DEF Settle, entryStateVars, loopVars
<1>3. ASSUME NEW r \in Requests, CleanUp(r)
      PROVE  ClaimInv'
  <2>1. TypeOK'
    BY <1>0, <1>3
    DEF CleanUp, TypeOK, targetVars, loopVars, entryStateVars, netVars
  <2> QED
    BY <2>1, <1>3, OtherStepsKeepCounts DEF CleanUp, entryStateVars, loopVars
<1>4. ASSUME NEW r \in Requests, Replenish(r)
      PROVE  ClaimInv'
  <2>1. active' \subseteq Ids
    BY <1>0, <1>4, BlocksAreIds DEF Replenish, TypeOK
  <2>2. TypeOK'
    BY <1>0, <1>4, <2>1
    DEF Replenish, TypeOK, targetVars, loopVars, entryStateVars, netVars
  <2> QED
    BY <2>2, <1>4, OtherStepsKeepCounts DEF Replenish, entryStateVars, loopVars
<1>5. CASE WebSocketMoves
  <2>1. TypeOK'
    BY <1>0, <1>5
    DEF WebSocketMoves, TypeOK, targetVars, loopVars, entryStateVars, netVars
  <2> QED
    BY <2>1, <1>5, OtherStepsKeepCounts DEF WebSocketMoves, entryStateVars, loopVars
<1>6. ASSUME NEW r \in Requests, ParityFallback(r) \/ LostGrace(r)
      PROVE  ClaimInv'
  <2>1. /\ suspect' \in [Requests -> {"no", "since", "grace"}]
        /\ parityDue' \in [Requests -> BOOLEAN]
        /\ UNCHANGED <<tracked, dataWanted, lostReported, loopVars, entryStateVars,
                       open, failures, hostVars, netVars, received>>
    BY <1>0, <1>6 DEF ParityFallback, LostGrace, TypeOK
  <2>2. TypeOK'
    BY <1>0, <2>1 DEF TypeOK, loopVars, entryStateVars, hostVars, netVars
  <2> QED
    BY <2>1, <2>2, OtherStepsKeepCounts DEF entryStateVars, loopVars
<1>7. CASE ProbeAnswers \/ ProbeFails \/ ProbeBackoffEnds
  <2> USE DEF ProbeAnswers, ProbeFails, ProbeBackoffEnds, ProbeStep
  <2>1. TypeOK'
    BY <1>0, <1>7 DEF TypeOK, targetVars, loopVars, hostVars, netVars
  <2> QED
    BY <2>1, <1>7, OtherStepsKeepCounts DEF loopVars
<1>8. CASE TimerTick
  BY <1>0, <1>8, TickKeepsInv DEF TimerTick, TypeOK
<1>9. CASE KickTick
  BY <1>9, TickKeepsInv DEF KickTick
<1>10. ASSUME NEW id \in Ids, ReplyArrives(id)
       PROVE  ClaimInv'
  <2>1. TypeOK'
    BY <1>0, <1>10
    DEF ReplyArrives, TypeOK, targetVars, loopVars, entryStateVars, hostVars
  <2> QED
    BY <2>1, <1>10, OtherStepsKeepCounts DEF ReplyArrives, entryStateVars, loopVars
<1>11. ASSUME NEW k \in Slots, ClaimServed(k)
       PROVE  ClaimInv'
  <2>1. PICK items \in SUBSET Ids :
          open' = [open EXCEPT ![k].served = TRUE, ![k].items = items]
    BY <1>0, <1>11 DEF ClaimServed, TypeOK, Claim
  <2>2. open \in [Slots -> Claim]
    BY <1>0 DEF TypeOK
  <2>3. /\ open' \in [Slots -> Claim]
        /\ \A i \in Slots : /\ open'[i].ids = open[i].ids /\ open'[i].live = open[i].live
                            /\ open'[i].held = open[i].held
                            /\ i # k => open'[i] = open[i]
    BY <2>1, <2>2, ZenonT(40) DEF Claim
  <2>4. mail' \subseteq Ids
    BY <1>0, <1>11 DEF ClaimServed, TypeOK
  <2>5. UNCHANGED <<targetVars, loopVars, entryStateVars, failures, hostVars, entry,
                    kind, received>>
    BY <1>11 DEF ClaimServed
  <2>6. TypeOK'
    BY <1>0, <2>3, <2>4, <2>5
    DEF TypeOK, targetVars, loopVars, entryStateVars, hostVars
  <2>7. IdleSlotsEmpty'
    BY <1>11, <2>3 DEF ClaimServed, ClaimInv, IdleSlotsEmpty
  <2>8. OneClaimPerId'
    BY <2>3, <2>5 DEF ClaimInv, OneClaimPerId, loopVars, entryStateVars
  <2>9. CountsMatch'
    <3>1. /\ {i \in Slots : open'[i].live} = {i \in Slots : open[i].live}
          /\ {i \in Slots : open'[i].held} = {i \in Slots : open[i].held}
      BY <2>3
    <3>2. UNCHANGED <<closed, claims, waiting>>
      BY <2>5 DEF loopVars, entryStateVars
    <3>3. CountsMatch
      BY DEF ClaimInv
    <3> QED
      BY <3>1, <3>2, <3>3, Zenon DEF CountsMatch
  <2> QED
    BY <2>6, <2>7, <2>8, <2>9 DEF ClaimInv
<1>12. ASSUME NEW k \in Slots, ClaimFails(k)
       PROVE  ClaimInv'
  <2>1. closed' = closed /\ open[k].live /\ ClaimEnds(k)
    BY <1>12 DEF ClaimFails, loopVars
  <2>2. /\ open' \in [Slots -> Claim]
        /\ inFlight' \subseteq Ids /\ claims' \in Nat /\ waiting' \in Nat
        /\ IdleSlotsEmpty' /\ OneClaimPerId' /\ CountsMatch'
    BY <2>1, ClaimEndsKeepsInv
  <2>3. acks' \subseteq Ids
    BY <1>0, <1>12 DEF ClaimFails, TypeOK, Claim
  <2>4. suspect' \in [Requests -> {"no", "since", "grace"}]
    BY <1>0, <1>12 DEF ClaimFails, TypeOK
  <2>5. TypeOK'
    BY <1>0, <1>12, <2>2, <2>3, <2>4
    DEF ClaimFails, TypeOK, loopVars, hostVars, netVars
  <2> QED
    BY <2>2, <2>5 DEF ClaimInv
<1>13. ASSUME NEW k \in Slots, ClaimReturns(k)
       PROVE  ClaimInv'
  <2>1. closed' = closed /\ open[k].live /\ ClaimEnds(k)
    BY <1>13 DEF ClaimReturns, loopVars
  <2>2. /\ open' \in [Slots -> Claim]
        /\ inFlight' \subseteq Ids /\ claims' \in Nat /\ waiting' \in Nat
        /\ IdleSlotsEmpty' /\ OneClaimPerId' /\ CountsMatch'
    BY <2>1, ClaimEndsKeepsInv
  <2>3. CASE closed
    <3>1. UNCHANGED <<targetVars, loopVars, longPoll, v2, waitMax, acks, hostVars,
                      received, cursor, probe, failures, netVars>>
      BY <1>13, <2>3 DEF ClaimReturns
    <3> QED
      BY <1>0, <2>2, <3>1 DEF ClaimInv, TypeOK, targetVars, loopVars, hostVars, netVars
  <2>4. CASE ~closed
    <3>1. /\ Learn(k) /\ Deliver(open[k].items)
          /\ acks' \in AfterQueueAcks(v2', acks, ReceivedIds(k))
          /\ timer' = (timer \/ acks' # {})
          /\ UNCHANGED <<tracked, lostReported, parityDue, kickQueued, closed, sent,
                         skipped, cursor, probe, failures, netVars>>
      BY <1>13, <2>4 DEF ClaimReturns
    <3>2. open[k].items \subseteq Ids
      BY <1>0 DEF TypeOK, Claim
    <3>3. acks' \subseteq Ids
      BY <1>0, <3>1, <3>2, QueueAcksAdds DEF ReceivedIds, TypeOK
    <3>4. /\ longPoll' \in {"unknown", "yes", "no"} /\ v2' \in {"unknown", "yes", "no"}
          /\ waitMax' \in {"unknown", "zero", "some"}
      BY <1>0, <3>1, FlagsAssumption DEF Learn, TypeOK
    <3>5. /\ pending' \subseteq Requests /\ active' \subseteq Ids
          /\ got' \subseteq Ids /\ received' \subseteq Ids
      BY <1>0, <3>1, <3>2 DEF Deliver, TypeOK
    <3>6. /\ suspect' \in [Requests -> {"no", "since", "grace"}]
          /\ dataWanted' \in [Requests -> Nat]
      BY <1>0, <3>1, SizesAssumption DEF Deliver, TypeOK, BiggerOf
    <3>7. timer' \in BOOLEAN
      BY <3>1
    <3>8. TypeOK'
      BY <1>0, <2>2, <3>1, <3>3, <3>4, <3>5, <3>6, <3>7 DEF TypeOK, netVars
    <3> QED
      BY <2>2, <3>8 DEF ClaimInv
  <2> QED
    BY <2>3, <2>4
<1>14. CASE Close
  <2>1. TypeOK'
    BY <1>0, <1>14 DEF Close, TypeOK, netVars
  <2>2. IdleSlotsEmpty' /\ OneClaimPerId' /\ CountsMatch'
    BY <1>14 DEF Close, ClaimInv, IdleSlotsEmpty, OneClaimPerId, CountsMatch
  <2> QED
    BY <2>1, <2>2 DEF ClaimInv
<1>15. CASE UNCHANGED vars
  <2> USE DEF vars, targetVars, loopVars, entryStateVars, hostVars, netVars
  <2>1. TypeOK'
    BY <1>0, <1>15 DEF TypeOK
  <2> QED
    BY <2>1, <1>15, OtherStepsKeepCounts
<1> QED
  BY <1>1, <1>2, <1>3, <1>4, <1>5, <1>6, <1>7, <1>8, <1>9, <1>10, <1>11, <1>12,
     <1>13, <1>14, <1>15 DEF Next

\* Every variable of the scheduler keeps its type; in particular the claim and
\* long-poll counters never go below zero, however claims fail and return.
THEOREM TypeCorrect == Spec => []TypeOK
<1>1. Spec => []ClaimInv
  BY InitClaimInv, StepClaimInv, PTL DEF Spec
<1> QED
  BY <1>1, PTL DEF ClaimInv

\* No interleaving of ticks, answers, failures and close() puts an ID in two
\* claims at once, and inFlight is always the IDs of the open claims.
THEOREM IdInOneClaim == Spec => []OneClaimPerId
<1>1. Spec => []ClaimInv
  BY InitClaimInv, StepClaimInv, PTL DEF Spec
<1> QED
  BY <1>1, PTL DEF ClaimInv

\* The counters that bound an entry's claims and long-polls are exact.
THEOREM CountersExact == Spec => []CountsMatch
<1>1. Spec => []ClaimInv
  BY InitClaimInv, StepClaimInv, PTL DEF Spec
<1> QED
  BY <1>1, PTL DEF ClaimInv

\* Both at once: no ID is claimed twice, and no claim is miscounted.
THEOREM ClaimsAreExact == Spec => []ClaimsExact
BY IdInOneClaim, CountersExact, PTL DEF ClaimsExact

-----------------------------------------------------------------------------
(* Acks never discard a reply that is needed                               *)

\* What the scheduler, the claims and the entry know concerns requests sent.
KnownIds == active \cup inFlight \cup acks
              \cup (UNION {open[k].ids \cup open[k].acks \cup open[k].items : k \in Slots})
              \cup {id \in Ids : kind[id] # "absent"}
OnlySentKnown ==
  tracked \subseteq 1..sent /\ \A id \in KnownIds : id[1] <= sent

AckInv == OnlySentKnown /\ AckedAreDone /\ RepliesKept

\* A claimer that tracks nothing satisfies the ack invariant.
LEMMA InitAckInv == Init => AckInv
<1> SUFFICES ASSUME Init PROVE AckInv
  OBVIOUS
<1>1. KnownIds = {}
  BY DEF Init, KnownIds, Idle
<1>2. AckedAreDone
  BY DEF Init, AckedAreDone, Idle
<1>3. RepliesKept
  BY DEF Init, RepliesKept
<1> QED
  BY <1>1, <1>2, <1>3 DEF Init, AckInv, OnlySentKnown

\* A step that queues and sends only acks of IDs that are done, and takes
\* nothing else from the entry, keeps the ack invariant.
LEMMA AckStep ==
  ASSUME TypeOK, TypeOK', AckInv, sent' = sent, entry' = entry,
         tracked' \subseteq tracked,
         pending' \subseteq pending,
         \A id \in received : id \in received' \/ id[1] \notin pending',
         \A id \in KnownIds' : id \in KnownIds \/ id[1] <= sent,
         \A id \in acks' \cup UNION {open'[k].acks : k \in Slots} :
           \/ id \in acks \cup UNION {open[k].acks : k \in Slots}
           \/ id \in received' \/ id[1] \notin pending',
         \A id \in Ids : kind'[id] # "absent" =>
           \/ id \in mail'
           \/ id \notin mail /\ kind[id] # "absent"
           \/ ~entry.v2 \/ ~Retain \/ id \in acks \cup UNION {open[k].acks : k \in Slots}
           \/ id \in received' \/ id[1] \notin pending'
  PROVE  AckInv'
<1>1. OnlySentKnown'
  BY DEF AckInv, OnlySentKnown
<1>2. AckedAreDone'
  BY DEF AckInv, AckedAreDone
<1>3. RepliesKept'
  <2> SUFFICES ASSUME entry.v2, Retain,
                      NEW id \in Ids, kind'[id] # "absent", id[1] \in pending', id \notin received'
               PROVE  id \in mail'
    BY DEF RepliesKept
  <2>1. id[1] \in pending /\ id \notin received
    OBVIOUS
  <2>2. id \notin acks \cup UNION {open[k].acks : k \in Slots}
    BY <2>1 DEF AckInv, AckedAreDone
  <2>3. ~(id \notin mail /\ kind[id] # "absent")
    BY <2>1 DEF AckInv, RepliesKept
  <2> QED
    BY <2>2, <2>3
<1> QED
  BY <1>1, <1>2, <1>3 DEF AckInv

\* Steps that leave the acks, the claims and the entry alone
LEMMA QuietAckStep ==
  ASSUME TypeOK, TypeOK', AckInv,
         UNCHANGED <<sent, entry, kind, mail, open, acks>>,
         tracked' \subseteq tracked, pending' \subseteq pending,
         inFlight' \subseteq inFlight,
         \A id \in active' : id \in active \/ id[1] <= sent,
         \A id \in received : id \in received' \/ id[1] \notin pending'
  PROVE  AckInv'
<1>1. \A id \in KnownIds' : id \in KnownIds \/ id[1] <= sent
  BY DEF KnownIds
<1> QED
  BY <1>1, AckStep

\* The IDs and acks of the claims a tick starts
LEMMA StartClaimsTakes ==
  ASSUME TypeOK, NEW n \in Nat, NEW ids \in [0..(n - 1) -> SUBSET active], NEW queue,
         StartClaims(n, ids, queue)
  PROVE  /\ inFlight' \subseteq inFlight \cup active
         /\ acks' \subseteq queue
         /\ \A k \in Slots : /\ open'[k].ids \subseteq open[k].ids \cup active
                             /\ open'[k].acks \subseteq open[k].acks \cup queue
                             /\ open'[k].items \subseteq open[k].items
<1>1. PICK slot \in SlotChoices(n), share \in AckShares(queue, n) :
        /\ open' = [k \in Slots |->
                     IF slot[k] = n THEN open[k]
                     ELSE [live |-> TRUE, ids |-> ids[slot[k]],
                           acks |-> {a \in queue : share[a] = slot[k]},
                           held |-> ids[slot[k]] # {} /\ Holds(slot[k]),
                           served |-> FALSE, items |-> {}]]
        /\ inFlight' = inFlight \cup UNION {ids[b] : b \in 0..(n - 1)}
        /\ acks' = {a \in queue : share[a] = n}
  BY DEF StartClaims
<1>2. slot \in [Slots -> 0..n]
  BY DEF SlotChoices
<1>3. ASSUME NEW k \in Slots
      PROVE  /\ open'[k].ids \subseteq open[k].ids \cup active
             /\ open'[k].acks \subseteq open[k].acks \cup queue
             /\ open'[k].items \subseteq open[k].items
  <2>1. CASE slot[k] = n
    BY <2>1, <1>1
  <2>2. CASE slot[k] # n
    <3>1. slot[k] \in 0..(n - 1)
      BY <2>2, <1>2
    <3>2. /\ open'[k].ids = ids[slot[k]]
          /\ open'[k].acks = {a \in queue : share[a] = slot[k]}
          /\ open'[k].items = {}
      BY <2>2, <1>1
    <3> QED
      BY <3>1, <3>2
  <2> QED
    BY <2>1, <2>2
<1> QED
  BY <1>1, <1>3

\* A tick keeps the ack invariant: an ack it sends leaves the queue for a claim.
LEMMA TickKeepsAckInv ==
  ASSUME TypeOK, TypeOK', AckInv, Tick
  PROVE  AckInv'
<1> DEFINE settled == UNION {BlocksOf(r) : r \in tracked \ pending}
<1>1. PICK queue \in AfterQueueAcks(v2, acks, settled) :
        IF Live # {} /\ ~skipped THEN ClaimFrom(queue) ELSE FlushAcks(queue)
  BY DEF Tick
<1>2. queue \subseteq acks \cup settled
  BY QueueAcksAdds
<1>3. \A id \in settled : id[1] \in tracked \ pending
  BY DEF BlocksOf
<1>4. /\ inFlight' \subseteq inFlight \cup active
      /\ acks' \subseteq queue
      /\ \A k \in Slots : /\ open'[k].ids \subseteq open[k].ids \cup active
                          /\ open'[k].acks \subseteq open[k].acks \cup queue
                          /\ open'[k].items \subseteq open[k].items
  <2>1. CASE Live # {} /\ ~skipped
    <3>1. StartClaims(Cardinality(DOMAIN Batches), Batches, queue)
      BY <1>1, <2>1 DEF ClaimFrom
    <3>2. PICK n \in Nat : /\ Cardinality(DOMAIN Batches) = n
                           /\ Batches \in [0..(n - 1) -> SUBSET Ids]
      BY BatchesDisjoint
    <3>3. \A b \in 0..(n - 1) : Batches[b] \subseteq AllWanted
      BY <3>2 DEF Batches
    <3>4. AllWanted \subseteq active
      BY DEF AllWanted, Wanted
    <3>5. Batches \in [0..(n - 1) -> SUBSET active]
      BY <3>2, <3>3, <3>4
    <3> QED
      BY <3>1, <3>2, <3>5, StartClaimsTakes
  <2>2. CASE ~(Live # {} /\ ~skipped)
    <3>1. PICK n \in {0, 1} : StartClaims(n, [b \in 0..(n - 1) |-> {}], queue)
      BY <1>1, <2>2 DEF FlushAcks
    <3>2. n \in Nat /\ [b \in 0..(n - 1) |-> {}] \in [0..(n - 1) -> SUBSET active]
      OBVIOUS
    <3> QED
      BY <3>1, <3>2, StartClaimsTakes
  <2> QED
    BY <2>1, <2>2
<1>5. UNCHANGED <<sent, pending, active, received, entry, kind, mail>> /\ tracked' \subseteq tracked
  BY DEF Tick, Live, hostVars, netVars
<1>6. \A id \in settled : id[1] <= sent
  <2>1. tracked \subseteq 1..sent /\ sent \in Nat
    BY SizesAssumption DEF AckInv, OnlySentKnown, TypeOK
  <2>2. \A q \in tracked : q <= sent
    BY <2>1
  <2> HIDE DEF settled
  <2> QED
    BY <1>3, <2>2, Zenon
<1>7. \A id \in KnownIds' : id \in KnownIds \/ id[1] <= sent
  <2> HIDE DEF settled
  <2>1. ASSUME NEW id \in KnownIds'
        PROVE  id \in KnownIds \/ id \in settled
    <3>1. CASE id \in active' \cup inFlight' \cup acks'
      BY <3>1, <1>2, <1>4, <1>5 DEF KnownIds
    <3>2. ASSUME NEW k \in Slots, id \in open'[k].ids \cup open'[k].acks \cup open'[k].items
          PROVE  id \in KnownIds \/ id \in settled
      <4>1. id \in open[k].ids \cup open[k].acks \cup open[k].items \cup active \cup queue
        BY <3>2, <1>4
      <4> QED
        BY <4>1, <1>2 DEF KnownIds
    <3>3. CASE id \in {i \in Ids : kind'[i] # "absent"}
      <4>1. id \in {i \in Ids : kind[i] # "absent"}
        BY <3>3, <1>5
      <4> QED
        BY <4>1 DEF KnownIds
    <3>4. \/ id \in active' \cup inFlight' \cup acks'
          \/ \E k \in Slots : id \in open'[k].ids \cup open'[k].acks \cup open'[k].items
          \/ id \in {i \in Ids : kind'[i] # "absent"}
      BY <2>1 DEF KnownIds
    <3> QED
      BY <3>1, <3>2, <3>3, <3>4
  <2> QED
    BY <2>1, <1>6
<1>8. \A id \in acks' \cup UNION {open'[k].acks : k \in Slots} :
        \/ id \in acks \cup UNION {open[k].acks : k \in Slots}
        \/ id[1] \notin pending'
  <2> HIDE DEF settled
  <2> QED
    BY <1>2, <1>3, <1>4, <1>5
<1> QED
  BY <1>5, <1>7, <1>8, AckStep

\* Every step keeps the ack invariant.
LEMMA StepAckInv == ClaimInv /\ AckInv /\ [Next]_vars => AckInv'
<1> SUFFICES ASSUME ClaimInv, AckInv, [Next]_vars PROVE AckInv'
  OBVIOUS
<1>0. TypeOK /\ TypeOK'
  BY StepClaimInv DEF ClaimInv
<1>a. sent \in Nat /\ \A r \in Requests : r \in Nat
  BY <1>0, SizesAssumption DEF TypeOK, Requests
<1>1. CASE Track
  <2>1. /\ sent' = sent + 1 /\ pending' = pending \cup {sent + 1}
        /\ active' = active \cup BlocksOf(sent + 1) /\ tracked' = tracked \cup {sent + 1}
        /\ UNCHANGED <<entry, kind, mail, open, acks, inFlight, received>>
    BY <1>1 DEF Track, entryStateVars, netVars
  <2>2. \A id \in BlocksOf(sent + 1) : id[1] = sent + 1
    BY DEF BlocksOf
  <2>3. \A id \in KnownIds : id[1] <= sent /\ id \in Ids
    BY <1>0 DEF AckInv, OnlySentKnown, KnownIds, TypeOK, Claim
  <2>4. \A id \in KnownIds' : id \in KnownIds \/ id \in BlocksOf(sent + 1)
    BY <2>1 DEF KnownIds
  <2>5. \A id \in KnownIds : id[1] \in Nat /\ id[1] # sent + 1 /\ id[1] <= sent + 1
    BY <2>3, <1>a DEF Ids
  <2>6. OnlySentKnown'
    <3>1. \A id \in KnownIds' : id[1] <= sent + 1
      BY <2>2, <2>4, <2>5, <1>a
    <3> QED
      BY <3>1, <2>1, <1>a DEF AckInv, OnlySentKnown
  <2>7. AckedAreDone'
    <3>1. ASSUME NEW id \in acks \cup UNION {open[k].acks : k \in Slots}
          PROVE  id \in received \/ id[1] \notin pending \cup {sent + 1}
      BY <2>5 DEF KnownIds, AckInv, AckedAreDone
    <3> QED
      BY <3>1, <2>1 DEF AckedAreDone
  <2>8. RepliesKept'
    BY <2>1, <2>5 DEF KnownIds, AckInv, RepliesKept
  <2> QED
    BY <2>6, <2>7, <2>8 DEF AckInv
<1>2. ASSUME NEW r \in Requests, Settle(r)
      PROVE  AckInv'
  <2>1. \A id \in received : id \in received' \/ id[1] \notin pending'
    <3>1. \A id \in AllBlocksOf(r) : id[1] = r
      BY DEF AllBlocksOf
    <3> QED
      BY <1>2, <3>1 DEF Settle
  <2> QED
    BY <1>0, <1>2, <2>1, QuietAckStep
    DEF Settle, targetVars, entryStateVars, netVars
<1>3. ASSUME NEW r \in Requests, CleanUp(r)
      PROVE  AckInv'
  BY <1>0, <1>3, QuietAckStep DEF CleanUp, targetVars, entryStateVars, netVars
<1>4. ASSUME NEW r \in Requests, Replenish(r)
      PROVE  AckInv'
  <2>1. PICK i \in 1..Initial : kind[<<r, i>>] = "need_more"
    BY <1>4 DEF Replenish
  <2>2. <<r, i>> \in Ids
    BY SizesAssumption DEF Ids
  <2>3. <<r, i>> \in KnownIds
    BY <2>1, <2>2 DEF KnownIds
  <2>4. r <= sent
    BY <2>3 DEF AckInv, OnlySentKnown
  <2>5. \A id \in active' : id \in active \/ id[1] <= sent
    BY <1>4, <2>4 DEF Replenish, AllBlocksOf
  <2> QED
    BY <1>0, <1>4, <2>5, QuietAckStep DEF Replenish, targetVars, entryStateVars, netVars
<1>5. CASE WebSocketMoves
  BY <1>0, <1>5, QuietAckStep DEF WebSocketMoves, targetVars, entryStateVars, netVars
<1>6. ASSUME NEW r \in Requests, ParityFallback(r) \/ LostGrace(r)
      PROVE  AckInv'
  BY <1>0, <1>6, QuietAckStep
  DEF ParityFallback, LostGrace, entryStateVars, hostVars, netVars
<1>7. CASE ProbeAnswers \/ ProbeFails \/ ProbeBackoffEnds
  BY <1>0, <1>7, QuietAckStep
  DEF ProbeAnswers, ProbeFails, ProbeBackoffEnds, ProbeStep, targetVars, hostVars, netVars
<1>8. CASE TimerTick \/ KickTick
  BY <1>0, <1>8, TickKeepsAckInv DEF TimerTick, KickTick
<1>9. ASSUME NEW id \in Ids, ReplyArrives(id)
      PROVE  AckInv'
  <2>1. id \in KnownIds
    BY <1>9 DEF ReplyArrives, KnownIds
  <2>2. /\ \A i \in Ids : i # id => kind'[i] = kind[i]
        /\ mail' = mail \cup {id}
        /\ UNCHANGED <<sent, tracked, pending, received, entry, acks, open, active, inFlight>>
    BY <1>0, <1>9 DEF ReplyArrives, TypeOK, targetVars, entryStateVars, hostVars
  <2>3. KnownIds' \subseteq KnownIds
    BY <2>1, <2>2 DEF KnownIds
  <2> QED
    BY <1>0, <2>2, <2>3, AckStep
<1>10. ASSUME NEW k \in Slots, ClaimServed(k)
       PROVE  AckInv'
  <2> DEFINE kept == IF entry.v2 THEN mail \ open[k].acks ELSE mail
             items == open[k].ids \cap kept
  <2>1. /\ open' = [open EXCEPT ![k].served = TRUE, ![k].items = items]
        /\ mail' = IF entry.v2 /\ Retain THEN kept ELSE kept \ items
        /\ UNCHANGED <<sent, tracked, pending, received, entry, kind, acks, active, inFlight>>
    BY <1>10 DEF ClaimServed, targetVars, entryStateVars, hostVars
  <2>2. \A j \in Slots : /\ open'[j].ids = open[j].ids /\ open'[j].acks = open[j].acks
                         /\ open'[j].items \subseteq open[j].items \cup open[j].ids
    BY <1>0, <2>1 DEF TypeOK, Claim
  <2>3. KnownIds' \subseteq KnownIds
    <3>1. UNCHANGED <<active, inFlight, acks, kind>>
      BY <2>1
    <3>2. ASSUME NEW j \in Slots
          PROVE  open'[j].ids \cup open'[j].acks \cup open'[j].items
                   \subseteq open[j].ids \cup open[j].acks \cup open[j].items
      BY <2>2
    <3> HIDE DEF kept, items
    <3> QED
      BY <3>1, <3>2 DEF KnownIds
  <2>4. \A i \in mail : i \in mail' \/ i \in open[k].acks \/ ~entry.v2 \/ ~Retain
    BY <2>1
  <2>5. /\ \A i \in acks' \cup UNION {open'[j].acks : j \in Slots} :
             i \in acks \cup UNION {open[j].acks : j \in Slots}
        /\ open[k].acks \subseteq acks \cup UNION {open[j].acks : j \in Slots}
    BY <2>1, <2>2, ZenonT(40)
  <2> HIDE DEF kept, items
  <2>6. \A i \in Ids : kind'[i] # "absent" =>
          \/ i \in mail'
          \/ i \notin mail /\ kind[i] # "absent"
          \/ ~entry.v2 \/ ~Retain \/ i \in acks \cup UNION {open[j].acks : j \in Slots}
    BY <2>1, <2>4, <2>5
  <2> QED
    BY <1>0, <2>1, <2>3, <2>5, <2>6, AckStep
<1>11. ASSUME NEW k \in Slots, ClaimFails(k)
       PROVE  AckInv'
  <2>1. /\ open' = [open EXCEPT ![k] = Idle] /\ inFlight' \subseteq inFlight
        /\ acks' \subseteq acks \cup open[k].acks
        /\ UNCHANGED <<sent, tracked, pending, received, entry, kind, mail, active>>
    BY <1>11 DEF ClaimFails, ClaimEnds, hostVars, netVars
  <2>2. \A j \in Slots : /\ open'[j].ids \subseteq open[j].ids
                         /\ open'[j].acks \subseteq open[j].acks
                         /\ open'[j].items \subseteq open[j].items
    BY <1>0, <2>1 DEF TypeOK, Claim, Idle
  <2>3. KnownIds' \subseteq KnownIds
    BY <2>1, <2>2 DEF KnownIds
  <2> QED
    BY <1>0, <2>1, <2>2, <2>3, AckStep
<1>12. ASSUME NEW k \in Slots, ClaimReturns(k)
       PROVE  AckInv'
  <2>1. /\ open' = [open EXCEPT ![k] = Idle] /\ inFlight' \subseteq inFlight
        /\ UNCHANGED <<sent, tracked, entry, kind, mail>>
    BY <1>12 DEF ClaimReturns, ClaimEnds, hostVars, netVars, targetVars
  <2>2. \A j \in Slots : /\ open'[j].ids \subseteq open[j].ids
                         /\ open'[j].acks \subseteq open[j].acks
                         /\ open'[j].items \subseteq open[j].items
    BY <1>0, <2>1 DEF TypeOK, Claim, Idle
  <2>3. /\ acks' \subseteq acks \cup open[k].items
        /\ active' \subseteq active
        /\ pending' \subseteq pending
        /\ \A id \in received : id \in received' \/ id[1] \notin pending'
        /\ \A id \in acks' : id \in acks \/ id \in received' \/ id[1] \notin pending'
    <3>1. CASE closed
      BY <1>12, <3>1 DEF ClaimReturns, hostVars
    <3>2. CASE ~closed
      <4>1. Deliver(open[k].items) /\ acks' \in AfterQueueAcks(v2', acks, ReceivedIds(k))
        BY <1>12, <3>2 DEF ClaimReturns
      <4>2. acks' \subseteq acks \cup open[k].items
        BY <4>1, QueueAcksAdds DEF ReceivedIds
      <4>3. /\ active' \subseteq active /\ pending' \subseteq pending
            /\ received' = {id \in received \cup open[k].items : id[1] \in pending'}
        BY <4>1 DEF Deliver
      <4> QED
        BY <4>2, <4>3
    <3> QED
      BY <3>1, <3>2
  <2>4. KnownIds' \subseteq KnownIds
    BY <2>1, <2>2, <2>3 DEF KnownIds
  <2> QED
    BY <1>0, <2>1, <2>2, <2>3, <2>4, AckStep
<1>13. CASE Close
  <2>1. /\ tracked' = {} /\ pending' = {} /\ acks' = {} /\ inFlight' = {}
        /\ active' \subseteq active /\ UNCHANGED <<sent, entry, kind, mail, open>>
    BY <1>13 DEF Close, netVars
  <2>2. KnownIds' \subseteq KnownIds
    BY <2>1 DEF KnownIds
  <2> QED
    BY <1>0, <2>1, <2>2, AckStep
<1>14. CASE UNCHANGED vars
  BY <1>0, <1>14, QuietAckStep
  DEF vars, targetVars, entryStateVars, hostVars, netVars
<1> QED
  BY <1>1, <1>2, <1>3, <1>4, <1>5, <1>6, <1>7, <1>8, <1>9, <1>10, <1>11, <1>12,
     <1>13, <1>14 DEF Next

\* An ack never names a reply that a pending request has yet to receive.
THEOREM AcksAreSafe == Spec => []AckedAreDone
<1>1. Spec => [](ClaimInv /\ AckInv)
  BY InitClaimInv, StepClaimInv, InitAckInv, StepAckInv, PTL DEF Spec
<1> QED
  BY <1>1, PTL DEF AckInv

\* A retaining v2 entry keeps every reply of a pending request until a claim has
\* brought it back, through any number of failed claims.
THEOREM NoReplyLost == Spec => []RepliesKept
<1>1. Spec => [](ClaimInv /\ AckInv)
  BY InitClaimInv, StepClaimInv, InitAckInv, StepAckInv, PTL DEF Spec
<1> QED
  BY <1>1, PTL DEF AckInv

-----------------------------------------------------------------------------
(* Held claims leave a slot                                                *)

\* The settings for which "one claim slot always stays free" can be true: at least two
\* claims, and no fewer once the entry is known to be v2 (as the defaults of both modes
\* have it: with a single claim waitFor() lets that one be held).
LimitsOrdered == 2 <= JsonMaxClaims /\ JsonMaxClaims <= MaxClaims

\* An entry taken for v2 is one.
HeldInv == (v2 = "yes" => entry.v2) /\ (LimitsOrdered => HeldLeavesASlot)

\* The held claims of one tick leave a slot, counted with those open already.
LEMMA StartClaimsLeaveASlot ==
  ASSUME ClaimInv, LimitsOrdered, HeldLeavesASlot, NEW n \in Nat, NEW ids, NEW queue,
         StartClaims(n, ids, queue), v2' = v2
  PROVE  HeldLeavesASlot'
<1> DEFINE held == {b \in 0..(n - 1) : ids[b] # {} /\ Holds(b)}
<1>1. waiting' = waiting + Cardinality(held)
  BY DEF StartClaims
<1>2. waiting \in Nat /\ ClaimLimit \in Nat /\ ClaimLimit >= 2 /\ waiting < ClaimLimit
  BY LimitsAssumption DEF ClaimInv, TypeOK, ClaimLimit, LimitsOrdered, HeldLeavesASlot
<1>3. held \subseteq 0..(ClaimLimit - 2 - waiting)
  <2> SUFFICES ASSUME NEW b \in 0..(n - 1), Holds(b)
               PROVE  b \in 0..(ClaimLimit - 2 - waiting)
    OBVIOUS
  <2>1. waiting + b < BiggerOf(1, ClaimLimit - 1)
    BY DEF Holds
  <2> QED
    BY <1>2, <2>1 DEF BiggerOf
<1> HIDE DEF held
<1>4. /\ IsFiniteSet(0..(ClaimLimit - 2 - waiting))
      /\ Cardinality(0..(ClaimLimit - 2 - waiting)) = ClaimLimit - 1 - waiting
  <2>1. 0 \in Int /\ ClaimLimit - 2 - waiting \in Int /\ ClaimLimit - 2 - waiting >= -1
    BY <1>2
  <2> QED
    BY <1>2, <2>1, FS_Interval
<1>5. IsFiniteSet(held) /\ Cardinality(held) <= ClaimLimit - 1 - waiting
  BY <1>3, <1>4, FS_Subset
<1>6. Cardinality(held) \in Nat
  BY <1>5, FS_CardinalityType
<1>7. ClaimLimit' = ClaimLimit
  BY DEF ClaimLimit
<1> QED
  BY <1>1, <1>2, <1>5, <1>6, <1>7 DEF HeldLeavesASlot

\* Steps that start no claim, and learn nothing new of the entry.
LEMMA QuietHeldStep ==
  ASSUME ClaimInv, HeldInv, UNCHANGED <<v2, entry>>, waiting' \in {waiting, waiting - 1}
  PROVE  HeldInv'
<1>1. waiting \in Nat /\ ClaimLimit \in Nat /\ ClaimLimit' = ClaimLimit
  BY LimitsAssumption DEF ClaimInv, TypeOK, ClaimLimit
<1>2. LimitsOrdered => HeldLeavesASlot'
  BY <1>1 DEF HeldInv, HeldLeavesASlot
<1> QED
  BY <1>2 DEF HeldInv

LEMMA StepHeldInv == ClaimInv /\ HeldInv /\ [Next]_vars => HeldInv'
<1> SUFFICES ASSUME ClaimInv, HeldInv, [Next]_vars
             PROVE  HeldInv'
  OBVIOUS
<1>1. CASE TimerTick \/ KickTick
  <2>1. Tick /\ UNCHANGED <<v2, entry>>
    BY <1>1 DEF TimerTick, KickTick, Tick, netVars
  <2>2. PICK queue : IF Live # {} /\ ~skipped THEN ClaimFrom(queue) ELSE FlushAcks(queue)
    BY <2>1 DEF Tick
  <2>3. \E n \in Nat : \E ids : StartClaims(n, ids, queue)
    <3>1. CASE ClaimFrom(queue)
      <4>1. StartClaims(Cardinality(DOMAIN Batches), Batches, queue)
        BY <3>1 DEF ClaimFrom
      <4>2. PICK n \in Nat : Cardinality(DOMAIN Batches) = n
        BY BatchesDisjoint DEF ClaimInv
      <4>3. StartClaims(n, Batches, queue)
        BY <4>1, <4>2
      <4> QED
        BY <4>3
    <3>2. CASE FlushAcks(queue)
      <4> DEFINE n == IF queue # {} /\ v2 = "yes" /\ claims < ClaimLimit THEN 1 ELSE 0
      <4>1. StartClaims(n, [b \in 0..(n - 1) |-> {}], queue)
        BY <3>2 DEF FlushAcks
      <4>2. n \in Nat
        OBVIOUS
      <4> QED
        BY <4>1, <4>2
    <3> QED
      BY <2>2, <3>1, <3>2
  <2>4. PICK n \in Nat : \E ids : StartClaims(n, ids, queue)
    BY <2>3
  <2> QED
    BY <2>1, <2>4, StartClaimsLeaveASlot DEF HeldInv
<1>2. ASSUME NEW k \in Slots, ClaimFails(k)
      PROVE  HeldInv'
  BY <1>2, QuietHeldStep DEF ClaimFails, ClaimEnds, netVars
<1>3. ASSUME NEW k \in Slots, ClaimReturns(k)
      PROVE  HeldInv'
  <2>1. waiting' \in {waiting, waiting - 1} /\ entry' = entry
    BY <1>3 DEF ClaimReturns, ClaimEnds, netVars
  <2>2. v2' = v2 \/ v2' = IF entry.v2 THEN "yes" ELSE "no"
    BY <1>3 DEF ClaimReturns, Learn
  <2>3. CASE v2' = v2
    BY <2>1, <2>3, QuietHeldStep
  <2>4. CASE v2' = IF entry.v2 THEN "yes" ELSE "no"
    <3>1. v2' = "yes" => entry'.v2
      BY <2>1, <2>4
    <3>2. v2 = "yes" => v2' = "yes"
      BY <2>4 DEF HeldInv
    <3>3. ASSUME LimitsOrdered
          PROVE  waiting \in Nat /\ ClaimLimit <= ClaimLimit' /\ ClaimLimit \in Nat /\ ClaimLimit' \in Nat
      BY <3>2, <3>3, LimitsAssumption DEF ClaimLimit, LimitsOrdered, ClaimInv, TypeOK
    <3>4. LimitsOrdered => HeldLeavesASlot'
      BY <2>1, <3>3 DEF HeldInv, HeldLeavesASlot
    <3> QED
      BY <3>1, <3>4 DEF HeldInv
  <2> QED
    BY <2>2, <2>3, <2>4
<1>4. CASE Close
  <2>1. waiting' = 0 /\ v2' = "unknown"
    BY <1>4 DEF Close
  <2> QED
    BY <2>1, LimitsAssumption DEF HeldInv, HeldLeavesASlot, ClaimLimit
<1>5. CASE \/ Track \/ WebSocketMoves \/ ProbeAnswers \/ ProbeFails \/ ProbeBackoffEnds
           \/ \E r \in Requests : Settle(r) \/ CleanUp(r) \/ Replenish(r) \/ ParityFallback(r) \/ LostGrace(r)
           \/ \E id \in Ids : ReplyArrives(id)
           \/ \E k \in Slots : ClaimServed(k)
           \/ UNCHANGED vars
  <2>1. UNCHANGED <<v2, entry, waiting>>
    BY <1>5 DEF Track, WebSocketMoves, ProbeAnswers, ProbeFails, ProbeBackoffEnds, ProbeStep, Settle, CleanUp,
                Replenish, ParityFallback, LostGrace, ReplyArrives, ClaimServed, vars, entryStateVars, netVars
  <2> QED
    BY <2>1, QuietHeldStep
<1> QED
  BY <1>1, <1>2, <1>3, <1>4, <1>5 DEF Next

\* Long-polls never take every claim slot, so that a new request always finds one,
\* through ticks that hold several claims at once and an entry that turns out to be v2.
THEOREM HeldClaimsLeaveASlot == Spec => [](LimitsOrdered => HeldLeavesASlot)
<1>1. Init => HeldInv
  BY LimitsAssumption DEF Init, HeldInv, HeldLeavesASlot, ClaimLimit, LimitsOrdered
<1>2. HeldInv => (LimitsOrdered => HeldLeavesASlot)
  BY DEF HeldInv
<1> QED
  BY <1>1, <1>2, InitClaimInv, StepClaimInv, StepHeldInv, PTL DEF Spec

=============================================================================
