-------------------------- MODULE TransportProofs ---------------------------
(***************************************************************************)
(* Proofs about the client's transports and what it keeps up beside the    *)
(* calls.  KPS mode, for any number of exchanges, slots and dials: stream  *)
(* slots are counted exactly and handed on, and no connection leaks        *)
(* (KpsPool).  Classic mode, for any registry, any requests and entries:   *)
(* the node list is vouched for (Seeds) and the response WebSocket hears of*)
(* every block nobody claims (ReplySocket).  Both: restarts do not multiply*)
(* cover traffic (Cover).                                                  *)
(***************************************************************************)
EXTENDS KpsPool, Cover, ReplySocket, Seeds, FiniteSetTheorems, SequenceTheorems, TLAPS

-----------------------------------------------------------------------------
(* The connection pool                                                     *)

\* Where an exchange uses its stream, and where it is about to give it back.
Streaming == {"opening", "write", "read"}
Leaving == {"failing", "ending"}

\* A slot is held from the grant to the finally block; only an exchange whose
\* stream opened can be torn down.
PhasesOK ==
  \A x \in Exchanges :
    /\ acquired[x] => phase[x] \in Streaming \cup Leaving
    /\ phase[x] \in Streaming => acquired[x]
    /\ (doomed[x] \/ x \in teardowns) => phase[x] \in {"write", "read"} \cup Leaving

\* A dial is in progress only while the entry has no connection.
DialOK == dial = "pending" => conn = NoConn /\ dialNo \in Conns

\* The inductive invariant.
PoolInv == TypeOK /\ PhasesOK /\ DialOK /\ SlotsExact /\ NoSlotLost /\ NoLeakedConnection

QueueOf(s) == {s[i] : i \in DOMAIN s}
Distinct(s) == \A i, j \in DOMAIN s : s[i] = s[j] => i = j

-----------------------------------------------------------------------------
(* The waiters                                                             *)

\* acquire() pushes an exchange that does not wait yet.
LEMMA QueueAppend ==
  ASSUME NEW s \in Seq(Exchanges), NEW x \in Exchanges, x \notin QueueOf(s), Distinct(s)
  PROVE  /\ Append(s, x) \in Seq(Exchanges) /\ Distinct(Append(s, x))
         /\ QueueOf(Append(s, x)) = QueueOf(s) \cup {x}
<1>1. /\ Append(s, x) \in Seq(Exchanges)
      /\ DOMAIN s = 1..Len(s) /\ DOMAIN Append(s, x) = 1..(Len(s) + 1) /\ Len(s) \in Nat
      /\ \A i \in 1..Len(s) : Append(s, x)[i] = s[i]
      /\ Append(s, x)[Len(s) + 1] = x
  OBVIOUS
<1>2. \A i \in 1..(Len(s) + 1) : i \in 1..Len(s) \/ i = Len(s) + 1
  BY <1>1
<1>3. Distinct(Append(s, x))
  BY <1>1, <1>2 DEF Distinct, QueueOf
<1>4. QueueOf(Append(s, x)) = QueueOf(s) \cup {x}
  BY <1>1, <1>2 DEF QueueOf
<1> QED
  BY <1>1, <1>3, <1>4

\* release() shifts the first waiter off the queue.
LEMMA QueueTail ==
  ASSUME NEW s \in Seq(Exchanges), s # <<>>, Distinct(s)
  PROVE  /\ Tail(s) \in Seq(Exchanges) /\ Distinct(Tail(s))
         /\ Head(s) \in QueueOf(s) /\ Head(s) \in Exchanges
         /\ QueueOf(Tail(s)) = QueueOf(s) \ {Head(s)}
<1>1. /\ Tail(s) \in Seq(Exchanges) /\ Len(s) \in Nat /\ Len(s) >= 1
      /\ DOMAIN s = 1..Len(s) /\ DOMAIN Tail(s) = 1..(Len(s) - 1)
      /\ \A i \in 1..(Len(s) - 1) : Tail(s)[i] = s[i + 1]
      /\ Head(s) = s[1] /\ Head(s) \in Exchanges
  OBVIOUS
<1>2. Distinct(Tail(s))
  BY <1>1 DEF Distinct
<1>3. Head(s) \in QueueOf(s)
  BY <1>1 DEF QueueOf
<1>4. QueueOf(Tail(s)) \subseteq QueueOf(s) \ {Head(s)}
  BY <1>1 DEF QueueOf, Distinct
<1>5. ASSUME NEW y \in QueueOf(s) \ {Head(s)}
      PROVE  y \in QueueOf(Tail(s))
  <2>1. PICK i \in 1..Len(s) : y = s[i] /\ i # 1
    BY <1>1 DEF QueueOf
  <2>2. i - 1 \in 1..(Len(s) - 1) /\ Tail(s)[i - 1] = y
    BY <1>1, <2>1
  <2> QED
    BY <1>1, <2>2 DEF QueueOf
<1> QED
  BY <1>1, <1>2, <1>3, <1>4, <1>5

\* An aborted waiter is spliced out of the queue.
LEMMA QueueWithout ==
  ASSUME waiters \in Seq(Exchanges), Distinct(waiters), NEW x \in QueueOf(waiters)
  PROVE  /\ Without(x) \in Seq(Exchanges) /\ Distinct(Without(x))
         /\ QueueOf(Without(x)) = QueueOf(waiters) \ {x}
<1> DEFINE n == Len(waiters)
           at == CHOOSE i \in DOMAIN waiters : waiters[i] = x
           w == [i \in 1..(n - 1) |-> waiters[IF i < at THEN i ELSE i + 1]]
<1>1. n \in Nat /\ DOMAIN waiters = 1..n /\ \A i \in 1..n : waiters[i] \in Exchanges
  OBVIOUS
<1>2. at \in 1..n /\ waiters[at] = x
  BY <1>1 DEF QueueOf
<1>3. Without(x) = w
  BY DEF Without, QueuedExchanges, QueueOf
<1> HIDE DEF at
<1>4. \A i \in 1..(n - 1) : /\ (IF i < at THEN i ELSE i + 1) \in 1..n
                            /\ (IF i < at THEN i ELSE i + 1) # at
  BY <1>1, <1>2
<1>5. DOMAIN w = 1..(n - 1) /\ \A i \in 1..(n - 1) : w[i] = waiters[IF i < at THEN i ELSE i + 1]
  OBVIOUS
<1>6. w \in Seq(Exchanges)
  <2>1. n - 1 \in Nat
    BY <1>1, <1>2
  <2>2. w \in [1..(n - 1) -> Exchanges]
    BY <1>1, <1>4
  <2> QED
    BY <2>1, <2>2, SeqDef
<1> HIDE DEF w
<1>7. Distinct(w)
  BY <1>1, <1>2, <1>4, <1>5 DEF Distinct
<1>8. QueueOf(w) \subseteq QueueOf(waiters) \ {x}
  <2> SUFFICES ASSUME NEW i \in 1..(n - 1)
               PROVE  w[i] \in QueueOf(waiters) \ {x}
    BY <1>5 DEF QueueOf
  <2> DEFINE j == IF i < at THEN i ELSE i + 1
  <2>1. j \in 1..n /\ j # at /\ w[i] = waiters[j]
    BY <1>4, <1>5
  <2> HIDE DEF j
  <2> QED
    BY <1>1, <1>2, <2>1 DEF QueueOf, Distinct
<1>9. ASSUME NEW y \in QueueOf(waiters) \ {x}
      PROVE  y \in QueueOf(w)
  <2>1. PICK i \in 1..n : y = waiters[i] /\ i # at
    BY <1>1, <1>2 DEF QueueOf
  <2>2. CASE i < at
    <3>1. i \in 1..(n - 1) /\ w[i] = y
      BY <1>1, <1>2, <1>5, <2>1, <2>2
    <3> QED
      BY <3>1, <1>5 DEF QueueOf
  <2>3. CASE i > at
    <3>1. i - 1 \in 1..(n - 1) /\ w[i - 1] = y
      BY <1>1, <1>2, <1>5, <2>1, <2>3
    <3> QED
      BY <3>1, <1>5 DEF QueueOf
  <2> QED
    BY <1>1, <1>2, <2>1, <2>2, <2>3
<1> QED
  BY <1>3, <1>6, <1>7, <1>8, <1>9

-----------------------------------------------------------------------------
(* What a step leaves alone                                                *)

\* A step that changes neither who holds a slot nor who waits keeps the slot
\* invariants.
LEMMA SlotsKept ==
  ASSUME PoolInv, UNCHANGED <<active, waiters>>, Holding' = Holding,
         \A x \in Exchanges : phase'[x] = "waiting" <=> phase[x] = "waiting"
  PROVE  SlotsExact' /\ NoSlotLost'
<1>1. SlotsExact'
  BY DEF PoolInv, SlotsExact
<1>2. QueuedExchanges' = QueuedExchanges
  BY DEF QueuedExchanges
<1> QED
  BY <1>1, <1>2 DEF PoolInv, NoSlotLost

\* A step of an exchange that leaves dials and connections alone.
LEMMA ConnectionsKept ==
  ASSUME PoolInv, UNCHANGED <<dial, dialNo, conn, link, closed>>
  PROVE  DialOK' /\ NoLeakedConnection'
BY DEF PoolInv, DialOK, NoLeakedConnection

\* One exchange moves to another phase and neither holds, gains nor loses a slot.
LEMMA MoveKeepsSlots ==
  ASSUME PoolInv, NEW x \in Exchanges, NEW p \in Phases, To(x, p),
         UNCHANGED <<acquired, active, waiters>>,
         phase[x] \notin {"granted", "waiting"}, p \notin {"granted", "waiting"}
  PROVE  SlotsExact' /\ NoSlotLost'
<1>1. phase \in [Exchanges -> Phases]
  BY DEF PoolInv, TypeOK
<1>2. \A y \in Exchanges : phase'[y] = IF y = x THEN p ELSE phase[y]
  BY <1>1 DEF To
<1>3. Holding' = Holding
  BY <1>2 DEF Holding
<1> QED
  BY <1>2, <1>3, SlotsKept

\* Aborting exchanges that are not in the queue: they go to "failing" and keep
\* the slots they hold.
LEMMA AbortKeepsSlots ==
  ASSUME PoolInv, NEW xs \in SUBSET Exchanges, AbortAll(xs),
         UNCHANGED <<acquired, active, waiters>>,
         \A x \in xs : phase[x] # "waiting"
  PROVE  /\ SlotsExact' /\ NoSlotLost'
         /\ phase' \in [Exchanges -> Phases] /\ aborted' \in [Exchanges -> BOOLEAN]
<1>1. phase \in [Exchanges -> Phases] /\ aborted \in [Exchanges -> BOOLEAN]
  BY DEF PoolInv, TypeOK
<1>2. \A y \in Exchanges :
        \/ phase'[y] = phase[y]
        \/ phase'[y] = "failing" /\ phase[y] \in Listening /\ phase[y] # "waiting"
  BY DEF AbortAll
<1>3. Holding' = Holding
  BY <1>2 DEF Holding, Listening
<1>4. \A y \in Exchanges : phase'[y] = "waiting" <=> phase[y] = "waiting"
  BY <1>2
<1>5. phase' \in [Exchanges -> Phases]
  BY <1>1 DEF AbortAll, Phases
<1>6. aborted' \in [Exchanges -> BOOLEAN]
  BY <1>1 DEF AbortAll
<1> QED
  BY <1>3, <1>4, <1>5, <1>6, SlotsKept

\* The phases that PhasesOK speaks of after exchanges were aborted.
LEMMA AbortKeepsPhases ==
  ASSUME PoolInv, NEW xs \in SUBSET Exchanges, AbortAll(xs), UNCHANGED acquired,
         teardowns' \subseteq teardowns,
         \A x \in Exchanges : doomed'[x] => doomed[x]
  PROVE  PhasesOK'
<1>1. \A y \in Exchanges :
        \/ phase'[y] = phase[y]
        \/ phase'[y] = "failing" /\ phase[y] \in Listening
  BY DEF AbortAll
<1> QED
  BY <1>1 DEF PoolInv, PhasesOK, Streaming, Leaving, Listening

-----------------------------------------------------------------------------
(* Dials                                                                   *)

\* A new pool entry satisfies the invariant.
LEMMA InitPoolInv == Init => PoolInv
<1> SUFFICES ASSUME Init PROVE PoolInv
  OBVIOUS
<1>1. TypeOK
  <2>1. 0 \in 0..MaxConns
    BY PoolAssumption
  <2>2. waiters \in Seq(Exchanges)
    BY DEF Init
  <2> QED
    BY <2>1, <2>2 DEF Init, TypeOK, Phases, NoConn
<1>2. PhasesOK /\ DialOK /\ NoLeakedConnection
  BY DEF Init, PhasesOK, DialOK, NoLeakedConnection, Streaming, Leaving
<1>3. Holding = {}
  BY DEF Init, Holding
<1>4. SlotsExact
  BY <1>3, FS_EmptySet, PoolAssumption DEF Init, SlotsExact
<1>5. NoSlotLost
  <2>1. DOMAIN waiters = {}
    BY DEF Init
  <2>2. QueuedExchanges = {}
    BY <2>1 DEF QueuedExchanges
  <2> QED
    BY <2>1, <2>2 DEF Init, NoSlotLost
<1> QED
  BY <1>1, <1>2, <1>4, <1>5 DEF PoolInv

\* request() up to its first await.
LEMMA RequestStep ==
  ASSUME PoolInv, NEW x \in Exchanges, Request(x)
  PROVE  PoolInv'
<1>1. TypeOK /\ phase[x] = "idle"
  BY DEF PoolInv, Request
<1>2. PICK p \in {"dialled", "dial", "failing"} : To(x, p)
  BY DEF Request
<1>3. /\ \/ UNCHANGED <<dial, dialNo, link>>
         \/ /\ conn = NoConn /\ dialNo < MaxConns
            /\ dial' = "pending" /\ dialNo' = dialNo + 1
            /\ link' = [link EXCEPT ![dialNo + 1] = "dialling"]
      /\ UNCHANGED <<acquired, aborted, doomed, conn, cooling, active, waiters, teardowns,
                     closed>>
  BY DEF Request
<1>4. connOf' \in [Exchanges -> 0..MaxConns]
  BY <1>1 DEF Request, TypeOK
<1>5. phase' \in [Exchanges -> Phases]
      /\ \A y \in Exchanges : phase'[y] = IF y = x THEN p ELSE phase[y]
  BY <1>1, <1>2 DEF To, TypeOK, Phases
<1>6. /\ dial' \in {"none", "pending", "failed"} /\ dialNo' \in 0..MaxConns
      /\ link' \in [Conns -> {"none", "dialling", "late", "up", "closing", "unused", "gone"}]
  <2>1. dial' \in {"none", "pending", "failed"}
    BY <1>1, <1>3 DEF TypeOK
  <2>2. dialNo' \in 0..MaxConns
    BY <1>1, <1>3, PoolAssumption DEF TypeOK
  <2>3. link' \in [Conns -> {"none", "dialling", "late", "up", "closing", "unused", "gone"}]
    BY <1>1, <1>3 DEF TypeOK
  <2> QED
    BY <2>1, <2>2, <2>3
<1>7. TypeOK'
  BY <1>1, <1>3, <1>4, <1>5, <1>6 DEF TypeOK
<1>8. PhasesOK'
  BY <1>1, <1>3, <1>5 DEF PoolInv, PhasesOK, Streaming, Leaving
<1>9. DialOK' /\ NoLeakedConnection'
  <2>1. CASE UNCHANGED <<dial, dialNo, link>>
    BY <1>3, <2>1, ConnectionsKept
  <2>2. CASE /\ conn = NoConn /\ dialNo < MaxConns
             /\ dial' = "pending" /\ dialNo' = dialNo + 1
             /\ link' = [link EXCEPT ![dialNo + 1] = "dialling"]
    <3>1. dialNo' \in Conns
      BY <1>1, <2>2, PoolAssumption DEF TypeOK, Conns
    <3>2. \A k \in Conns : link'[k] = "up" => link[k] = "up"
      BY <1>1, <2>2 DEF TypeOK
    <3> QED
      BY <1>3, <2>2, <3>1, <3>2 DEF PoolInv, DialOK, NoLeakedConnection
  <2> QED
    BY <1>3, <2>1, <2>2
<1>10. SlotsExact' /\ NoSlotLost'
  BY <1>1, <1>2, <1>3, MoveKeepsSlots DEF Phases
<1> QED
  BY <1>7, <1>8, <1>9, <1>10 DEF PoolInv

\* prewarm() starts a dial for nobody.
LEMMA PrewarmStep ==
  ASSUME PoolInv, Prewarm
  PROVE  PoolInv'
<1>1. TypeOK /\ dialNo' \in Conns /\ dialNo' = dialNo + 1
  BY PoolAssumption DEF PoolInv, TypeOK, Prewarm, Conns
<1>2. TypeOK'
  BY <1>1, PoolAssumption DEF TypeOK, Prewarm, exchangeVars, Conns
<1>3. PhasesOK'
  BY DEF PoolInv, PhasesOK, Prewarm, exchangeVars
<1>4. \A k \in Conns : link'[k] = "up" => link[k] = "up"
  BY <1>1 DEF TypeOK, Prewarm
<1>5. DialOK' /\ NoLeakedConnection'
  BY <1>1, <1>4 DEF PoolInv, DialOK, NoLeakedConnection, Prewarm
<1>6. Holding' = Holding
  BY DEF Holding, Prewarm, exchangeVars
<1>7. SlotsExact' /\ NoSlotLost'
  BY <1>6, SlotsKept DEF Prewarm, exchangeVars
<1> QED
  BY <1>2, <1>3, <1>5, <1>7 DEF PoolInv

\* The exchanges that awaited the dial move on; none of them has a slot.
LEMMA DialEndsKeeps ==
  ASSUME PoolInv, NEW p \in {"dialled", "failing"}, NEW k \in 0..MaxConns, DialEnds(p, k),
         UNCHANGED <<acquired, doomed, active, waiters, teardowns>>
  PROVE  /\ phase' \in [Exchanges -> Phases] /\ connOf' \in [Exchanges -> 0..MaxConns]
         /\ PhasesOK' /\ SlotsExact' /\ NoSlotLost'
<1>1. TypeOK
  BY DEF PoolInv
<1>2. /\ phase' \in [Exchanges -> Phases] /\ connOf' \in [Exchanges -> 0..MaxConns]
      /\ \A y \in Exchanges : phase'[y] = IF phase[y] = "dial" THEN p ELSE phase[y]
  BY <1>1 DEF TypeOK, DialEnds, Phases
<1>3. PhasesOK'
  BY <1>2 DEF PoolInv, PhasesOK, Streaming, Leaving
<1>4. Holding' = Holding /\ \A y \in Exchanges : phase'[y] = "waiting" <=> phase[y] = "waiting"
  BY <1>2 DEF Holding
<1> QED
  BY <1>2, <1>3, <1>4, SlotsKept

\* The dial brings the entry's connection.
LEMMA DialSucceedsStep ==
  ASSUME PoolInv, DialSucceeds
  PROVE  PoolInv'
<1>1. TypeOK /\ dialNo \in 0..MaxConns /\ dialNo \in Conns /\ conn = NoConn
  BY DEF PoolInv, TypeOK, DialOK, DialSucceeds
<1>2. /\ phase' \in [Exchanges -> Phases] /\ connOf' \in [Exchanges -> 0..MaxConns]
      /\ PhasesOK' /\ SlotsExact' /\ NoSlotLost'
  BY <1>1, DialEndsKeeps DEF DialSucceeds
<1>3. link' \in [Conns -> {"none", "dialling", "late", "up", "closing", "unused", "gone"}]
  BY <1>1 DEF TypeOK, DialSucceeds
<1>4. TypeOK'
  BY <1>1, <1>2, <1>3 DEF TypeOK, DialSucceeds
<1>5. \A k \in Conns : link[k] # "up"
  BY <1>1 DEF PoolInv, NoLeakedConnection, NoConn, Conns
<1>6. DialOK' /\ NoLeakedConnection'
  BY <1>1, <1>5 DEF DialOK, NoLeakedConnection, DialSucceeds, TypeOK
<1> QED
  BY <1>2, <1>4, <1>6 DEF PoolInv

\* The dial fails, is refused or completes too late.
LEMMA DialFailsStep ==
  ASSUME PoolInv, DialFails \/ DialRefused
  PROVE  PoolInv'
<1>1. TypeOK /\ NoConn \in 0..MaxConns
  BY PoolAssumption DEF PoolInv, NoConn
<1>2. /\ phase' \in [Exchanges -> Phases] /\ connOf' \in [Exchanges -> 0..MaxConns]
      /\ PhasesOK' /\ SlotsExact' /\ NoSlotLost'
  BY <1>1, DialEndsKeeps DEF DialFails, DialRefused
<1>3. PICK after \in {"gone", "late"} : link' = [link EXCEPT ![dialNo] = after]
  BY DEF DialFails, DialRefused
<1>4. TypeOK'
  <2>1. link' \in [Conns -> {"none", "dialling", "late", "up", "closing", "unused", "gone"}]
    BY <1>1, <1>3 DEF TypeOK
  <2> QED
    BY <1>1, <1>2, <2>1 DEF TypeOK, DialFails, DialRefused
<1>5. \A k \in Conns : link'[k] = "up" => link[k] = "up"
  BY <1>1, <1>3 DEF TypeOK
<1>6. DialOK' /\ NoLeakedConnection'
  BY <1>5 DEF PoolInv, DialOK, NoLeakedConnection, DialFails, DialRefused
<1> QED
  BY <1>2, <1>4, <1>6 DEF PoolInv

\* A late connection is closed, and a cooldown ends: no exchange takes part.
LEMMA BackgroundStep ==
  ASSUME PoolInv, CooldownEnds \/ \E k \in Conns : LateDial(k)
  PROVE  PoolInv'
<1>1. TypeOK
  BY DEF PoolInv
<1>2. /\ \A k \in Conns : link'[k] = "up" => link[k] = "up"
      /\ link' \in [Conns -> {"none", "dialling", "late", "up", "closing", "unused", "gone"}]
  BY <1>1 DEF TypeOK, LateDial, AfterLateDial, CooldownEnds
<1>3. /\ UNCHANGED <<phase, connOf, acquired, aborted, doomed, dial, dialNo, conn, active,
                     waiters, teardowns, closed>>
      /\ cooling' \in {cooling, FALSE}
  BY DEF LateDial, CooldownEnds, exchangeVars, entryVars
<1>4. TypeOK' /\ PhasesOK' /\ DialOK' /\ NoLeakedConnection'
  BY <1>1, <1>2, <1>3 DEF TypeOK, PoolInv, PhasesOK, DialOK, NoLeakedConnection
<1>5. SlotsExact' /\ NoSlotLost'
  BY <1>3, SlotsKept DEF Holding
<1> QED
  BY <1>4, <1>5 DEF PoolInv

-----------------------------------------------------------------------------
(* Slots                                                                   *)

\* acquire(): a free slot is taken, or the exchange queues.
LEMMA AcquireStep ==
  ASSUME PoolInv, NEW x \in Exchanges, Acquire(x)
  PROVE  PoolInv'
<1>1. /\ TypeOK /\ SlotsExact /\ NoSlotLost /\ phase[x] = "dialled" /\ active \in Nat
      /\ waiters \in Seq(Exchanges) /\ MaxStreams \in Nat
      /\ UNCHANGED <<connOf, acquired, aborted, doomed, dial, dialNo, conn, cooling,
                     teardowns, link, closed>>
  BY PoolAssumption DEF PoolInv, TypeOK, Acquire
<1>2. DialOK' /\ NoLeakedConnection'
  BY <1>1, ConnectionsKept
<1>3. IsFiniteSet(Holding) /\ x \notin Holding /\ x \notin QueueOf(waiters)
  <2>1. IsFiniteSet(Holding)
    BY PoolAssumption, FS_Subset DEF Holding
  <2>2. ~acquired[x]
    BY <1>1 DEF PoolInv, PhasesOK, Streaming, Leaving
  <2> QED
    BY <1>1, <2>1, <2>2 DEF Holding, NoSlotLost, QueueOf, QueuedExchanges
<1>4. CASE active < MaxStreams
  <2>1. To(x, "granted") /\ active' = active + 1 /\ UNCHANGED waiters
    BY <1>4 DEF Acquire, SlotFree
  <2>2. \A y \in Exchanges : phase'[y] = IF y = x THEN "granted" ELSE phase[y]
    BY <1>1, <2>1 DEF TypeOK, To
  <2>3. phase' \in [Exchanges -> Phases]
    BY <1>1, <2>1 DEF TypeOK, To, Phases
  <2>4. TypeOK'
    BY <1>1, <2>1, <2>3 DEF TypeOK
  <2>5. PhasesOK'
    BY <1>1, <2>2 DEF PoolInv, PhasesOK, Streaming, Leaving
  <2>6. Holding' = Holding \cup {x}
    BY <1>1, <2>2 DEF Holding
  <2>7. Cardinality(Holding') = Cardinality(Holding) + 1
    BY <1>3, <2>6, FS_AddElement
  <2>8. SlotsExact'
    BY <1>1, <1>4, <2>1, <2>7 DEF SlotsExact
  <2>9. waiters = <<>>
    BY <1>1, <1>4 DEF NoSlotLost
  <2>10. NoSlotLost'
    BY <1>1, <2>1, <2>2, <2>9 DEF NoSlotLost, QueuedExchanges
  <2> QED
    BY <1>2, <2>4, <2>5, <2>8, <2>10 DEF PoolInv
<1>5. CASE ~(active < MaxStreams)
  <2>1. To(x, "waiting") /\ waiters' = Append(waiters, x) /\ active' = active
    BY <1>5 DEF Acquire, SlotFree
  <2>2. \A y \in Exchanges : phase'[y] = IF y = x THEN "waiting" ELSE phase[y]
    BY <1>1, <2>1 DEF TypeOK, To
  <2>3. phase' \in [Exchanges -> Phases]
    BY <1>1, <2>1 DEF TypeOK, To, Phases
  <2>4. /\ waiters' \in Seq(Exchanges) /\ Distinct(waiters')
        /\ QueueOf(waiters') = QueueOf(waiters) \cup {x}
    <3>1. Distinct(waiters)
      BY <1>1 DEF NoSlotLost, Distinct
    <3> QED
      BY <1>1, <1>3, <2>1, <3>1, QueueAppend
  <2>5. TypeOK'
    BY <1>1, <2>1, <2>3, <2>4 DEF TypeOK
  <2>6. PhasesOK'
    BY <1>1, <2>2 DEF PoolInv, PhasesOK, Streaming, Leaving
  <2>7. Holding' = Holding
    BY <1>1, <2>2 DEF Holding
  <2>8. SlotsExact' /\ active' = MaxStreams
    BY <1>1, <1>5, <2>1, <2>7 DEF SlotsExact
  <2>9. NoSlotLost'
    BY <1>1, <2>2, <2>4, <2>8 DEF NoSlotLost, QueuedExchanges, QueueOf, Distinct
  <2> QED
    BY <1>2, <2>5, <2>6, <2>8, <2>9 DEF PoolInv
<1> QED
  BY <1>4, <1>5

\* The finally block of an exchange without a slot.
LEMMA FinallyWithoutSlot ==
  ASSUME PoolInv, NEW x \in Exchanges, Finally(x), ~acquired[x]
  PROVE  PoolInv'
<1>1. /\ TypeOK /\ phase[x] \in {"failing", "ending"} /\ To(x, "over")
      /\ acquired' = [acquired EXCEPT ![x] = FALSE] /\ doomed' = [doomed EXCEPT ![x] = FALSE]
      /\ teardowns' = teardowns \ {x}
      /\ UNCHANGED <<active, waiters, connOf, aborted, dial, dialNo, conn, cooling, link, closed>>
  BY DEF PoolInv, Finally
<1>2. acquired' = acquired
  BY <1>1 DEF TypeOK
<1>3. /\ phase' \in [Exchanges -> Phases] /\ doomed' \in [Exchanges -> BOOLEAN]
      /\ \A y \in Exchanges : phase'[y] = IF y = x THEN "over" ELSE phase[y]
      /\ \A y \in Exchanges : doomed'[y] = (y # x /\ doomed[y])
  BY <1>1 DEF TypeOK, To, Phases
<1>4. TypeOK'
  BY <1>1, <1>2, <1>3 DEF TypeOK
<1>5. PhasesOK'
  BY <1>1, <1>2, <1>3 DEF PoolInv, PhasesOK, Streaming, Leaving
<1>6. SlotsExact' /\ NoSlotLost'
  BY <1>1, <1>2, MoveKeepsSlots DEF Phases
<1> QED
  BY <1>1, <1>4, <1>5, <1>6, ConnectionsKept DEF PoolInv

\* The finally block of an exchange with a slot: release() passes the slot to
\* the first waiter, or frees it when nobody waits.
LEMMA FinallyWithSlot ==
  ASSUME PoolInv, NEW x \in Exchanges, Finally(x), acquired[x]
  PROVE  PoolInv'
<1>1. /\ TypeOK /\ SlotsExact /\ NoSlotLost
      /\ phase[x] \in {"failing", "ending"} /\ Release(x)
      /\ acquired' = [acquired EXCEPT ![x] = FALSE] /\ doomed' = [doomed EXCEPT ![x] = FALSE]
      /\ teardowns' = teardowns \ {x}
      /\ UNCHANGED <<connOf, aborted, dial, dialNo, conn, cooling, link, closed>>
  BY DEF PoolInv, Finally
<1>2. /\ acquired' \in [Exchanges -> BOOLEAN] /\ doomed' \in [Exchanges -> BOOLEAN]
      /\ \A y \in Exchanges : acquired'[y] = (y # x /\ acquired[y])
      /\ \A y \in Exchanges : doomed'[y] = (y # x /\ doomed[y])
  BY <1>1 DEF TypeOK
<1>3. DialOK' /\ NoLeakedConnection'
  BY <1>1, ConnectionsKept
<1>4. IsFiniteSet(Holding) /\ x \in Holding /\ active \in Nat /\ MaxStreams \in Nat
  BY <1>1, PoolAssumption, FS_Subset DEF Holding, TypeOK
<1>5. Cardinality(Holding \ {x}) = active - 1 /\ IsFiniteSet(Holding \ {x}) /\ active - 1 \in Nat
  <2>1. Cardinality(Holding \ {x}) = Cardinality(Holding) - 1 /\ IsFiniteSet(Holding \ {x})
    BY <1>4, FS_RemoveElement
  <2>2. Cardinality(Holding \ {x}) \in Nat
    BY <2>1, FS_CardinalityType
  <2> QED
    BY <1>1, <2>1, <2>2 DEF SlotsExact
<1>6. CASE waiters = <<>>
  <2>1. active' = active - 1 /\ waiters' = waiters /\ To(x, "over")
    BY <1>1, <1>6 DEF Release
  <2>2. /\ phase' \in [Exchanges -> Phases]
        /\ \A y \in Exchanges : phase'[y] = IF y = x THEN "over" ELSE phase[y]
    BY <1>1, <2>1 DEF TypeOK, To, Phases
  <2>3. TypeOK'
    BY <1>1, <1>2, <1>5, <2>1, <2>2 DEF TypeOK
  <2>4. PhasesOK'
    BY <1>1, <1>2, <2>2 DEF PoolInv, PhasesOK, Streaming, Leaving
  <2>5. Holding' = Holding \ {x}
    BY <1>2, <2>2 DEF Holding
  <2>6. SlotsExact'
    BY <1>1, <1>4, <1>5, <2>1, <2>5 DEF SlotsExact
  <2>7. NoSlotLost'
    BY <1>1, <1>6, <2>1, <2>2 DEF NoSlotLost, QueuedExchanges
  <2> QED
    BY <1>3, <2>3, <2>4, <2>6, <2>7 DEF PoolInv
<1>7. CASE waiters # <<>>
  <2> DEFINE h == Head(waiters)
  <2>1. /\ active' = active - 1 + 1 /\ waiters' = Tail(waiters)
        /\ phase' = [phase EXCEPT ![x] = "over", ![h] = "granted"]
    BY <1>1, <1>7 DEF Release
  <2>2. /\ waiters' \in Seq(Exchanges) /\ Distinct(waiters')
        /\ h \in QueueOf(waiters) /\ h \in Exchanges
        /\ QueueOf(waiters') = QueueOf(waiters) \ {h}
    <3>1. Distinct(waiters) /\ waiters \in Seq(Exchanges)
      BY <1>1 DEF NoSlotLost, Distinct, TypeOK
    <3> QED
      BY <1>7, <2>1, <3>1, QueueTail
  <2> HIDE DEF h
  <2>3. phase[h] = "waiting" /\ h # x /\ active' = active /\ active = MaxStreams
    BY <1>1, <1>4, <1>7, <2>1, <2>2 DEF NoSlotLost, QueuedExchanges, QueueOf
  <2>4. /\ phase' \in [Exchanges -> Phases]
        /\ \A y \in Exchanges :
             phase'[y] = IF y = x THEN "over" ELSE IF y = h THEN "granted" ELSE phase[y]
    BY <1>1, <2>1, <2>2, <2>3 DEF TypeOK, Phases
  <2>5. TypeOK'
    BY <1>1, <1>2, <2>2, <2>3, <2>4 DEF TypeOK
  <2>6. PhasesOK'
    <3>1. ~acquired[h] /\ ~doomed[h] /\ h \notin teardowns
      BY <2>2, <2>3 DEF PoolInv, PhasesOK, Streaming, Leaving
    <3> QED
      BY <1>1, <1>2, <2>4, <3>1 DEF PoolInv, PhasesOK, Streaming, Leaving
  <2>7. Holding' = (Holding \ {x}) \cup {h} /\ h \notin Holding \ {x}
    <3>1. ~acquired[h]
      BY <2>2, <2>3 DEF PoolInv, PhasesOK, Streaming, Leaving
    <3> QED
      BY <1>2, <2>2, <2>3, <2>4, <3>1 DEF Holding
  <2>8. Cardinality(Holding') = active - 1 + 1
    BY <1>5, <2>7, FS_AddElement
  <2>9. SlotsExact'
    BY <1>1, <1>4, <2>3, <2>8 DEF SlotsExact
  <2>10. NoSlotLost'
    BY <1>1, <2>2, <2>3, <2>4 DEF NoSlotLost, QueuedExchanges, QueueOf, Distinct
  <2> QED
    BY <1>3, <2>5, <2>6, <2>9, <2>10 DEF PoolInv
<1> QED
  BY <1>6, <1>7

\* The exchange resumes with its slot.
LEMMA CallOpenStreamStep ==
  ASSUME PoolInv, NEW x \in Exchanges, CallOpenStream(x)
  PROVE  PoolInv'
<1>1. /\ TypeOK /\ phase[x] = "granted"
      /\ UNCHANGED <<connOf, aborted, doomed, entryVars, link, closed>>
  BY DEF PoolInv, CallOpenStream
<1>2. /\ phase' \in [Exchanges -> Phases] /\ acquired' \in [Exchanges -> BOOLEAN]
      /\ \A y \in Exchanges : phase'[y] = IF y = x THEN "opening" ELSE phase[y]
      /\ \A y \in Exchanges : acquired'[y] = (y = x \/ acquired[y])
  BY <1>1 DEF TypeOK, CallOpenStream, To, Phases
<1>3. TypeOK'
  BY <1>1, <1>2 DEF TypeOK, entryVars
<1>4. PhasesOK'
  BY <1>1, <1>2 DEF PoolInv, PhasesOK, Streaming, Leaving, entryVars
<1>5. Holding' = Holding /\ \A y \in Exchanges : phase'[y] = "waiting" <=> phase[y] = "waiting"
  BY <1>1, <1>2 DEF Holding
<1>6. SlotsExact' /\ NoSlotLost'
  BY <1>1, <1>5, SlotsKept DEF entryVars
<1> QED
  BY <1>1, <1>3, <1>4, <1>6, ConnectionsKept DEF PoolInv, entryVars

-----------------------------------------------------------------------------
(* Streams                                                                 *)

\* openStream brought a stream; the exchange registers its teardown.
LEMMA StreamOpensStep ==
  ASSUME PoolInv, NEW x \in Exchanges, StreamOpens(x)
  PROVE  PoolInv'
<1>1. /\ TypeOK /\ phase[x] = "opening"
      /\ UNCHANGED <<connOf, acquired, aborted, dial, dialNo, conn, cooling, active, waiters,
                     link, closed>>
  BY DEF PoolInv, StreamOpens
<1>2. PICK p \in {"failing", "write"} : To(x, p)
  BY DEF StreamOpens
<1>3. /\ phase' \in [Exchanges -> Phases]
      /\ \A y \in Exchanges : phase'[y] = IF y = x THEN p ELSE phase[y]
  BY <1>1, <1>2 DEF TypeOK, To, Phases
<1>4. /\ teardowns' \subseteq Exchanges /\ doomed' \in [Exchanges -> BOOLEAN]
      /\ teardowns' \subseteq teardowns \cup {x}
      /\ \A y \in Exchanges : y # x => doomed'[y] = doomed[y]
  BY <1>1 DEF TypeOK, StreamOpens
<1>5. TypeOK'
  BY <1>1, <1>3, <1>4 DEF TypeOK
<1>6. PhasesOK'
  <2> SUFFICES ASSUME NEW y \in Exchanges
               PROVE  /\ acquired[y] => phase'[y] \in Streaming \cup Leaving
                      /\ phase'[y] \in Streaming => acquired[y]
                      /\ (doomed'[y] \/ y \in teardowns')
                           => phase'[y] \in {"write", "read"} \cup Leaving
    BY <1>1 DEF PhasesOK
  <2>1. CASE y = x
    BY <1>1, <1>3, <2>1 DEF PoolInv, PhasesOK, Streaming, Leaving
  <2>2. CASE y # x
    BY <1>1, <1>3, <1>4, <2>2 DEF PoolInv, PhasesOK
  <2> QED
    BY <2>1, <2>2
<1>7. SlotsExact' /\ NoSlotLost'
  BY <1>1, <1>2, MoveKeepsSlots DEF Phases
<1> QED
  BY <1>1, <1>5, <1>6, <1>7, ConnectionsKept DEF PoolInv

\* The other events of a stream move one exchange on.
LEMMA StreamStep ==
  ASSUME PoolInv, NEW x \in Exchanges,
         OpenFails(x) \/ Written(x) \/ Answered(x) \/ StreamFails(x)
  PROVE  PoolInv'
<1>1. /\ TypeOK /\ phase[x] \in Streaming
      /\ UNCHANGED <<connOf, acquired, aborted, doomed, entryVars, link, closed>>
  BY DEF PoolInv, OpenFails, Written, Answered, StreamFails, Streaming
<1>2. PICK p \in {"failing", "read", "ending"} : To(x, p) /\ (p = "read" => phase[x] = "write")
  BY DEF OpenFails, Written, Answered, StreamFails
<1>3. /\ phase' \in [Exchanges -> Phases]
      /\ \A y \in Exchanges : phase'[y] = IF y = x THEN p ELSE phase[y]
  BY <1>1, <1>2 DEF TypeOK, To, Phases
<1>4. TypeOK'
  BY <1>1, <1>3 DEF TypeOK, entryVars
<1>5. PhasesOK'
  BY <1>1, <1>3 DEF PoolInv, PhasesOK, Streaming, Leaving, entryVars
<1>6. SlotsExact' /\ NoSlotLost'
  BY <1>1, <1>2, MoveKeepsSlots DEF Phases, Streaming, entryVars
<1> QED
  BY <1>1, <1>4, <1>5, <1>6, ConnectionsKept DEF PoolInv, entryVars

\* A wedged connection is evicted.
LEMMA OpenTimesOutStep ==
  ASSUME PoolInv, NEW x \in Exchanges, OpenTimesOut(x)
  PROVE  PoolInv'
<1>1. /\ TypeOK /\ phase[x] = "opening" /\ To(x, "failing")
      /\ UNCHANGED <<connOf, acquired, aborted, doomed, dial, dialNo, cooling, active, waiters,
                     teardowns, closed>>
  BY DEF PoolInv, OpenTimesOut
<1>2. /\ phase' \in [Exchanges -> Phases]
      /\ \A y \in Exchanges : phase'[y] = IF y = x THEN "failing" ELSE phase[y]
  BY <1>1 DEF TypeOK, To, Phases
<1>3. PhasesOK'
  BY <1>1, <1>2 DEF PoolInv, PhasesOK, Streaming, Leaving
<1>4. SlotsExact' /\ NoSlotLost'
  BY <1>1, MoveKeepsSlots DEF Phases
<1>5. CASE conn' = NoConn /\ link' = [link EXCEPT ![connOf[x]] = "closing"] /\ conn = connOf[x]
  <2>1. TypeOK'
    <3>1. conn' \in 0..MaxConns
      BY <1>5, PoolAssumption DEF NoConn
    <3>2. link' \in [Conns -> {"none", "dialling", "late", "up", "closing", "unused", "gone"}]
      BY <1>1, <1>5 DEF TypeOK
    <3> QED
      BY <1>1, <1>2, <3>1, <3>2 DEF TypeOK
  <2>2. \A k \in Conns : link'[k] # "up"
    BY <1>1, <1>5 DEF PoolInv, NoLeakedConnection, TypeOK
  <2>3. DialOK' /\ NoLeakedConnection'
    BY <1>1, <1>5, <2>2 DEF PoolInv, DialOK, NoLeakedConnection
  <2> QED
    BY <1>3, <1>4, <2>1, <2>3 DEF PoolInv
<1>6. CASE UNCHANGED <<conn, link>>
  <2>1. TypeOK'
    BY <1>1, <1>2, <1>6 DEF TypeOK
  <2> QED
    BY <1>1, <1>3, <1>4, <1>6, <2>1, ConnectionsKept DEF PoolInv
<1> QED
  BY <1>5, <1>6 DEF OpenTimesOut

-----------------------------------------------------------------------------
(* Aborts and closes                                                       *)

\* The exchange timer or the caller's signal; a waiter leaves the queue.
LEMMA AbortStep ==
  ASSUME PoolInv, NEW x \in Exchanges, Abort(x)
  PROVE  PoolInv'
<1>1. /\ TypeOK /\ NoSlotLost /\ AbortAll({x}) /\ ~aborted[x] /\ waiters' = Without(x)
      /\ waiters \in Seq(Exchanges)
      /\ UNCHANGED <<connOf, acquired, doomed, dial, dialNo, conn, cooling, active, teardowns,
                     link, closed>>
  BY DEF PoolInv, TypeOK, Abort
<1>2. DialOK' /\ NoLeakedConnection'
  BY <1>1, ConnectionsKept
<1>3. PhasesOK'
  BY <1>1, AbortKeepsPhases
<1>4. /\ phase' \in [Exchanges -> Phases] /\ aborted' \in [Exchanges -> BOOLEAN]
  BY <1>1 DEF TypeOK, AbortAll, Phases
<1>5. CASE phase[x] # "waiting"
  <2>1. waiters' = waiters
    BY <1>1, <1>5 DEF NoSlotLost, Without
  <2>2. TypeOK'
    BY <1>1, <1>4, <2>1 DEF TypeOK
  <2>3. SlotsExact' /\ NoSlotLost'
    BY <1>1, <1>5, <2>1, AbortKeepsSlots
  <2> QED
    BY <1>2, <1>3, <2>2, <2>3 DEF PoolInv
<1>6. CASE phase[x] = "waiting"
  <2>1. /\ waiters' \in Seq(Exchanges) /\ Distinct(waiters')
        /\ QueueOf(waiters') = QueueOf(waiters) \ {x}
    <3>1. Distinct(waiters) /\ x \in QueueOf(waiters)
      BY <1>1, <1>6 DEF NoSlotLost, Distinct, QueueOf, QueuedExchanges
    <3> QED
      BY <1>1, <3>1, QueueWithout
  <2>2. \A y \in Exchanges : phase'[y] = IF y = x THEN "failing" ELSE phase[y]
    BY <1>1, <1>6 DEF AbortAll, Listening
  <2>3. TypeOK'
    BY <1>1, <1>4, <2>1 DEF TypeOK
  <2>4. Holding' = Holding
    BY <1>1, <1>6, <2>2 DEF Holding
  <2>5. SlotsExact'
    BY <1>1, <2>4 DEF PoolInv, SlotsExact
  <2>6. active' = MaxStreams
    <3>1. waiters # <<>>
      BY <1>1, <1>6 DEF NoSlotLost, QueuedExchanges
    <3> QED
      BY <1>1, <3>1 DEF NoSlotLost
  <2>7. NoSlotLost'
    BY <1>1, <2>1, <2>2, <2>6 DEF NoSlotLost, QueuedExchanges, QueueOf, Distinct
  <2> QED
    BY <1>2, <1>3, <2>3, <2>5, <2>7 DEF PoolInv
<1> QED
  BY <1>5, <1>6

\* A stream that opened on a connection the entry has left is torn down.
LEMMA TearDownDoomedStep ==
  ASSUME PoolInv, NEW x \in Exchanges, TearDownDoomed(x)
  PROVE  PoolInv'
<1>1. /\ TypeOK /\ doomed[x] /\ doomed' = [doomed EXCEPT ![x] = FALSE] /\ AbortAll({x})
      /\ UNCHANGED <<connOf, acquired, entryVars, link, closed>>
  BY DEF PoolInv, TearDownDoomed
<1>2. doomed' \in [Exchanges -> BOOLEAN] /\ \A y \in Exchanges : doomed'[y] => doomed[y]
  BY <1>1 DEF TypeOK
<1>3. phase[x] # "waiting"
  BY <1>1 DEF PoolInv, PhasesOK, Leaving
<1>4. PhasesOK'
  BY <1>1, <1>2, AbortKeepsPhases DEF entryVars
<1>5. /\ SlotsExact' /\ NoSlotLost'
      /\ phase' \in [Exchanges -> Phases] /\ aborted' \in [Exchanges -> BOOLEAN]
  BY <1>1, <1>3, AbortKeepsSlots DEF entryVars
<1>6. TypeOK'
  BY <1>1, <1>2, <1>5 DEF TypeOK, entryVars
<1> QED
  BY <1>1, <1>4, <1>5, <1>6, ConnectionsKept DEF PoolInv, entryVars

\* The exchanges that are torn down with a connection do not wait for a slot.
LEMMA TeardownsNotWaiting ==
  ASSUME PoolInv
  PROVE  teardowns \in SUBSET Exchanges /\ \A x \in teardowns : phase[x] # "waiting"
BY DEF PoolInv, TypeOK, PhasesOK, Leaving

\* onClosed().
LEMMA ConnClosesStep ==
  ASSUME PoolInv, NEW k \in Conns, ConnCloses(k)
  PROVE  PoolInv'
<1>1. /\ TypeOK /\ AbortAll(teardowns) /\ teardowns' = {}
      /\ link' = [link EXCEPT ![k] = "gone"] /\ conn' = (IF conn = k THEN NoConn ELSE conn)
      /\ UNCHANGED <<connOf, acquired, doomed, dial, dialNo, cooling, active, waiters, closed>>
  BY DEF PoolInv, ConnCloses
<1>2. /\ SlotsExact' /\ NoSlotLost'
      /\ phase' \in [Exchanges -> Phases] /\ aborted' \in [Exchanges -> BOOLEAN]
  BY <1>1, TeardownsNotWaiting, AbortKeepsSlots
<1>3. PhasesOK'
  BY <1>1, TeardownsNotWaiting, AbortKeepsPhases
<1>4. TypeOK'
  <2>1. conn' \in 0..MaxConns
    BY <1>1, PoolAssumption DEF TypeOK, NoConn
  <2>2. link' \in [Conns -> {"none", "dialling", "late", "up", "closing", "unused", "gone"}]
    BY <1>1 DEF TypeOK
  <2> QED
    BY <1>1, <1>2, <2>1, <2>2 DEF TypeOK
<1>5. DialOK'
  BY <1>1 DEF PoolInv, DialOK
<1>6. NoLeakedConnection'
  BY <1>1 DEF PoolInv, NoLeakedConnection, TypeOK
<1> QED
  BY <1>2, <1>3, <1>4, <1>5, <1>6 DEF PoolInv

\* maintain() gives up an idle connection.
LEMMA IdleCloseStep ==
  ASSUME PoolInv, IdleClose
  PROVE  PoolInv'
<1>1. /\ TypeOK /\ conn' = NoConn /\ link' = [link EXCEPT ![conn] = "unused"]
      /\ UNCHANGED <<phase, connOf, acquired, aborted, doomed, dial, dialNo, cooling, active,
                     waiters, teardowns, closed>>
  BY DEF PoolInv, IdleClose, exchangeVars
<1>2. TypeOK'
  <2>1. conn' \in 0..MaxConns
    BY <1>1, PoolAssumption DEF NoConn
  <2>2. link' \in [Conns -> {"none", "dialling", "late", "up", "closing", "unused", "gone"}]
    BY <1>1 DEF TypeOK
  <2> QED
    BY <1>1, <2>1, <2>2 DEF TypeOK
<1>3. PhasesOK'
  BY <1>1 DEF PoolInv, PhasesOK
<1>4. \A k \in Conns : link'[k] # "up"
  BY <1>1 DEF PoolInv, NoLeakedConnection, TypeOK
<1>5. DialOK' /\ NoLeakedConnection'
  BY <1>1, <1>4 DEF PoolInv, DialOK, NoLeakedConnection
<1>6. SlotsExact' /\ NoSlotLost'
  BY <1>1, SlotsKept DEF Holding
<1> QED
  BY <1>2, <1>3, <1>5, <1>6 DEF PoolInv

\* close(): the queue is emptied, and what holds a slot keeps it until its
\* finally block.
LEMMA CloseStep ==
  ASSUME PoolInv, Close
  PROVE  PoolInv'
<1>1. /\ TypeOK /\ NoSlotLost /\ conn' = NoConn /\ waiters' = <<>> /\ teardowns' = {}
      /\ closed' = TRUE
      /\ aborted' = [x \in Exchanges |-> aborted[x] \/ x \in teardowns]
      /\ link' = (IF conn = NoConn THEN link ELSE [link EXCEPT ![conn] = "closing"])
      /\ UNCHANGED <<connOf, acquired, doomed, dial, dialNo, cooling, active>>
  BY DEF PoolInv, Close
<1>2. /\ phase' \in [Exchanges -> Phases]
      /\ \A y \in Exchanges : phase[y] = "waiting" => phase'[y] = "failing"
      /\ \A y \in Exchanges :
           \/ phase'[y] = phase[y]
           \/ phase'[y] = "failing" /\ phase[y] = "waiting"
           \/ phase'[y] = "failing" /\ y \in teardowns
  <2>1. phase \in [Exchanges -> Phases]
    BY <1>1 DEF TypeOK
  <2>2. phase' = [x \in Exchanges |->
                   IF \/ x \in QueuedExchanges
                      \/ x \in teardowns /\ ~aborted[x] /\ phase[x] \in Listening
                   THEN "failing" ELSE phase[x]]
    BY DEF Close
  <2>3. phase' \in [Exchanges -> Phases]
    BY <2>1, <2>2 DEF Phases
  <2> QED
    BY <1>1, <2>2, <2>3 DEF NoSlotLost
<1>3. TypeOK'
  <2>1. conn' \in 0..MaxConns
    BY <1>1, PoolAssumption DEF NoConn
  <2>2. link' \in [Conns -> {"none", "dialling", "late", "up", "closing", "unused", "gone"}]
    BY <1>1 DEF TypeOK
  <2>3. aborted' \in [Exchanges -> BOOLEAN]
    BY <1>1 DEF TypeOK
  <2>4. waiters' \in Seq(Exchanges)
    BY <1>1
  <2> QED
    BY <1>1, <1>2, <2>1, <2>2, <2>3, <2>4 DEF TypeOK
<1>4. \A y \in teardowns : phase[y] \in {"write", "read"} \cup Leaving
  BY <1>1 DEF PoolInv, PhasesOK, TypeOK
<1>5. PhasesOK'
  BY <1>1, <1>2, <1>4 DEF PoolInv, PhasesOK, Streaming, Leaving
<1>6. DialOK' /\ NoLeakedConnection'
  <2>1. \A k \in Conns : link[k] = "up" => conn = k /\ k # NoConn
    BY DEF PoolInv, NoLeakedConnection, Conns, NoConn
  <2>2. \A k \in Conns : link'[k] # "up"
    BY <1>1, <2>1 DEF TypeOK
  <2> QED
    BY <1>1, <2>2 DEF PoolInv, DialOK, NoLeakedConnection
<1>7. Holding' = Holding
  BY <1>1, <1>2, <1>4 DEF Holding, Leaving
<1>8. SlotsExact'
  BY <1>1, <1>7 DEF PoolInv, SlotsExact
<1>9. NoSlotLost'
  <2>1. DOMAIN waiters' = {} /\ QueuedExchanges' = {}
    BY <1>1 DEF QueuedExchanges
  <2>2. \A y \in Exchanges : phase'[y] # "waiting"
    BY <1>2
  <2> QED
    BY <1>1, <2>1, <2>2 DEF NoSlotLost
<1> QED
  BY <1>3, <1>5, <1>6, <1>8, <1>9 DEF PoolInv

-----------------------------------------------------------------------------
(* The theorems                                                            *)

\* Every step of the pool keeps the invariant.
LEMMA NextPoolInv ==
  ASSUME PoolInv, [Next]_vars
  PROVE  PoolInv'
<1>1. CASE UNCHANGED vars
  <2>1. UNCHANGED <<phase, connOf, acquired, aborted, doomed, dial, dialNo, conn, cooling,
                    active, waiters, teardowns, link, closed>>
    BY <1>1 DEF vars, exchangeVars, entryVars
  <2> QED
    BY <2>1 DEF PoolInv, TypeOK, PhasesOK, DialOK, SlotsExact, NoSlotLost,
                NoLeakedConnection, Holding, QueuedExchanges
<1>2. ASSUME NEW x \in Exchanges, Finally(x)
      PROVE  PoolInv'
  BY <1>2, FinallyWithSlot, FinallyWithoutSlot
<1> QED
  BY <1>1, <1>2, RequestStep, PrewarmStep, DialSucceedsStep, DialFailsStep, BackgroundStep,
     AcquireStep, CallOpenStreamStep, StreamOpensStep, StreamStep, OpenTimesOutStep,
     AbortStep, TearDownDoomedStep, ConnClosesStep, IdleCloseStep, CloseStep DEF Next

\* The invariant of the pool entry holds in every reachable state.
THEOREM PoolInvariant == Spec => []PoolInv
BY InitPoolInv, NextPoolInv, PTL DEF Spec

\* The type invariant; the count of active streams never goes below zero
\* although release() lowers it from every finally block.
THEOREM PoolTypeCorrect == Spec => []TypeOK
<1>1. PoolInv => TypeOK
  BY DEF PoolInv
<1> QED
  BY <1>1, PoolInvariant, PTL

\* active is the number of exchanges between acquire() and release(), at most
\* maxStreamsPerConnection; an exchange waits only while every slot is taken, and
\* the queue of acquire() is exactly the exchanges that wait.
THEOREM SlotsCounted == Spec => []SlotsSound
<1>1. PoolInv => SlotsSound
  BY DEF PoolInv, SlotsSound
<1> QED
  BY <1>1, PoolInvariant, PTL

\* A connection that is up belongs to the entry, and none is up after close().
THEOREM NoConnectionLeaks == Spec => []NoLeakedConnection
<1>1. PoolInv => NoLeakedConnection
  BY DEF PoolInv
<1> QED
  BY <1>1, PoolInvariant, PTL

-----------------------------------------------------------------------------
(* Cover traffic                                                           *)

CoverCounts ==
  /\ timers \in SUBSET (1..MaxStarts + 1) /\ timerId \in 0..MaxStarts + 1
  /\ sending \in Nat /\ starts \in Nat /\ overtook \in Nat

\* stop() forgets the timer it clears.
StoppedForgets == ~running => timerId = 0

\* A start() that finds neither its timer nor a dummy on its way adds a loop
\* without counting as one that overtook: then there is room for it.
RoomForStart == sending = 0 /\ timerId \notin timers => Loops <= overtook

\* The inductive invariant.
CoverInv == CoverCounts /\ StoppedForgets /\ RoomForStart /\ LoopsBounded

\* Timers are counted one by one as they are set and as they fire.
LEMMA TimersCounted ==
  ASSUME NEW S \in SUBSET (1..MaxStarts + 1)
  PROVE  /\ Cardinality(S) \in Nat
         /\ \A t \in S : Cardinality(S \ {t}) = Cardinality(S) - 1
         /\ \A t : t \notin S => Cardinality(S \cup {t}) = Cardinality(S) + 1 /\ S \ {t} = S
<1>1. MaxStarts + 1 \in Int
  BY CoverAssumption
<1>2. IsFiniteSet(1..MaxStarts + 1)
  BY <1>1, FS_Interval
<1>3. IsFiniteSet(S)
  BY <1>2, FS_Subset
<1>4. Cardinality(S) \in Nat
  BY <1>3, FS_CardinalityType
<1>5. \A t \in S : Cardinality(S \ {t}) = Cardinality(S) - 1
  BY <1>3, FS_RemoveElement
<1>6. \A t : t \notin S => Cardinality(S \cup {t}) = Cardinality(S) + 1 /\ S \ {t} = S
  BY <1>3, FS_AddElement
<1> QED
  BY <1>4, <1>5, <1>6

\* _scheduleNext() adds one loop, whose timer is the one the controller knows.
LEMMA ScheduleNextAdds ==
  ASSUME NEW set \in SUBSET (1..MaxStarts + 1), ScheduleNext(set)
  PROVE  /\ timers' \in SUBSET (1..MaxStarts + 1) /\ timerId' \in 1..MaxStarts + 1
         /\ timerId' \in timers' /\ Cardinality(timers') = Cardinality(set) + 1
         /\ Cardinality(set) \in Nat
<1>1. PICK t \in 1..MaxStarts + 1 : t \notin set /\ timers' = set \cup {t} /\ timerId' = t
  BY DEF ScheduleNext
<1>2. Cardinality(set \cup {t}) = Cardinality(set) + 1 /\ Cardinality(set) \in Nat
  BY <1>1, TimersCounted
<1> QED
  BY <1>1, <1>2

LEMMA CoverStep == CoverInv /\ [CoverNext]_coverVars => CoverInv'
<1> SUFFICES ASSUME CoverInv, [CoverNext]_coverVars
             PROVE  CoverInv'
  OBVIOUS
<1> USE DEF CoverInv, CoverCounts, StoppedForgets, RoomForStart, LoopsBounded, Loops
<1>n. MaxStarts \in Nat /\ 0 \notin timers
  BY CoverAssumption
<1>t. /\ Cardinality(timers) \in Nat
      /\ \A t \in timers : Cardinality(timers \ {t}) = Cardinality(timers) - 1
  BY TimersCounted
<1>c. /\ Cleared \in SUBSET (1..MaxStarts + 1)
      /\ timerId \in timers => Cardinality(Cleared) = Cardinality(timers) - 1
      /\ timerId \notin timers => Cleared = timers
      /\ timerId \notin Cleared /\ 0 \notin Cleared
      /\ Cardinality(Cleared) \in Nat
  <2>1. Cleared \in SUBSET (1..MaxStarts + 1)
    BY DEF Cleared
  <2>2. Cardinality(Cleared) \in Nat
    BY <2>1, TimersCounted
  <2> QED
    BY <2>1, <2>2, <1>n, <1>t DEF Cleared
<1>1. CASE CoverStop
  <2>1. running' = FALSE /\ timers' = Cleared /\ timerId' = 0 /\ UNCHANGED <<sending, starts, overtook>>
    BY <1>1 DEF CoverStop
  <2>2. Cardinality(timers') = Cardinality(Cleared)
    BY <2>1
  <2>3. CoverCounts' /\ StoppedForgets'
    BY <2>1, <1>n, <1>c
  <2>4. RoomForStart' /\ LoopsBounded'
    BY <2>1, <2>2, <1>t, <1>c
  <2> QED
    BY <2>3, <2>4
<1>2. CASE DummyEnds
  <2>1. sending > 0 /\ sending' = sending - 1 /\ UNCHANGED <<running, starts, overtook>>
    BY <1>2 DEF DummyEnds
  <2>2. CASE running
    <3>1. ScheduleNext(timers)
      BY <1>2, <2>2 DEF DummyEnds
    <3>2. /\ timers' \in SUBSET (1..MaxStarts + 1) /\ timerId' \in 1..MaxStarts + 1
          /\ timerId' \in timers' /\ Cardinality(timers') = Cardinality(timers) + 1
      BY <3>1, ScheduleNextAdds
    <3>3. CoverCounts' /\ StoppedForgets'
      BY <2>1, <2>2, <3>2, <1>n
    <3>4. RoomForStart' /\ LoopsBounded'
      BY <2>1, <3>2, <1>t
    <3> QED
      BY <3>3, <3>4
  <2>3. CASE ~running
    <3>1. timers' = timers /\ timerId' = timerId /\ timerId \notin timers
      BY <1>2, <2>3, <1>n DEF DummyEnds
    <3>2. CoverCounts' /\ StoppedForgets'
      BY <2>1, <2>3, <3>1
    <3>3. RoomForStart' /\ LoopsBounded'
      BY <2>1, <3>1, <1>t
    <3> QED
      BY <3>2, <3>3
  <2> QED
    BY <2>2, <2>3
<1>3. ASSUME NEW rate \in {0, 1}, CoverStart(rate)
      PROVE  CoverInv'
  <2>r. running' = (rate > 0)
    BY <1>3, Zenon DEF CoverStart
  <2>1. CASE rate = 1
    <3>0. rate > 0
      BY <2>1
    <3>5. running'
      BY <3>0, <2>r, Zenon
    <3>1. /\ ScheduleNext(Cleared) /\ sending' = sending
          /\ starts' = starts + 1 /\ overtook' = IF sending > 0 THEN overtook + 1 ELSE overtook
      BY <1>3, <2>1 DEF CoverStart
    <3>2. /\ timers' \in SUBSET (1..MaxStarts + 1) /\ timerId' \in 1..MaxStarts + 1
          /\ timerId' \in timers' /\ Cardinality(timers') = Cardinality(Cleared) + 1
      BY <3>1, <1>c, ScheduleNextAdds
    <3>3. CoverCounts' /\ StoppedForgets'
      BY <3>1, <3>2, <3>5, <1>n
    <3>4. RoomForStart' /\ LoopsBounded'
      BY <3>1, <3>2, <1>t, <1>c
    <3> QED
      BY <3>3, <3>4
  <2>2. CASE rate = 0
    <3>1. /\ timers' = Cleared /\ timerId' = 0 /\ sending' = sending
          /\ starts' = starts + 1 /\ overtook' = overtook
      BY <1>3, <2>2 DEF CoverStart
    <3>2. CoverCounts' /\ StoppedForgets'
      BY <3>1, <1>n, <1>c
    <3>3. RoomForStart' /\ LoopsBounded'
      BY <3>1, <1>t, <1>c
    <3> QED
      BY <3>2, <3>3
  <2> QED
    BY <2>1, <2>2
<1>4. ASSUME NEW t \in timers, Fire(t)
      PROVE  CoverInv'
  <2>1. /\ timers' = timers \ {t} /\ UNCHANGED <<running, timerId, starts, overtook>>
        /\ sending' = IF running THEN sending + 1 ELSE sending
        /\ Cardinality(timers') = Cardinality(timers) - 1
    BY <1>4, <1>t DEF Fire
  <2>2. CoverCounts' /\ StoppedForgets'
    BY <2>1
  <2>3. CASE running
    <3>1. sending' = sending + 1
      BY <2>1, <2>3
    <3>2. RoomForStart' /\ LoopsBounded'
      BY <2>1, <3>1, <1>t
    <3> QED
      BY <2>2, <3>2
  <2>4. CASE ~running
    <3>1. sending' = sending /\ timerId \notin timers
      BY <2>1, <2>4, <1>n
    <3>2. RoomForStart' /\ LoopsBounded'
      BY <2>1, <3>1, <1>t
    <3> QED
      BY <2>2, <3>2
  <2> QED
    BY <2>3, <2>4
<1>5. CASE UNCHANGED coverVars
  BY <1>5 DEF coverVars
<1> QED
  BY <1>1, <1>2, <1>3, <1>4, <1>5 DEF CoverNext

\* Restarts do not multiply the cover traffic, for any number of them: start() and
\* stop() leave as many loops behind as starts came while a dummy was on its way,
\* and no more (cover.ts: start, stop, _fire, _scheduleNext).
THEOREM CoverLoopsBounded == CoverSpec => []LoopsBounded
<1>1. CoverInit => CoverInv
  <2> SUFFICES ASSUME CoverInit
               PROVE  CoverInv
    OBVIOUS
  <2>1. Cardinality(timers) = 0
    BY FS_EmptySet DEF CoverInit
  <2>2. CoverCounts /\ StoppedForgets
    BY CoverAssumption DEF CoverInit, CoverCounts, StoppedForgets
  <2>3. RoomForStart /\ LoopsBounded
    BY <2>1 DEF CoverInit, RoomForStart, LoopsBounded, Loops
  <2> QED
    BY <2>2, <2>3 DEF CoverInv
<1>2. CoverInv => LoopsBounded
  BY DEF CoverInv
<1> QED
  BY <1>1, <1>2, CoverStep, PTL DEF CoverSpec

-----------------------------------------------------------------------------
(* The response WebSocket                                                  *)

SocketTypeOK ==
  /\ ws \in [at : SocketEntries, state : {"connecting", "open", "closed", "dead", "none"}]
  /\ sentTo \in [Senders -> SocketEntries \cup {"none", "over"}]
  /\ burst \in [Senders -> {"none", "running", "failed", "done"}]
  /\ waitsOn \subseteq SocketBlocks

\* The client subscribes no block twice: one it counts as subscribed is queued, or
\* known to the entry, or was known on a connection that dropped.
SubscribedReached == subscribed \subseteq queued \cup heard \cup lost

\* Only an open connection has subscriptions at the entry.
HeardWhileOpen == ws.state # "open" => heard = {}

\* A request that has not gone out waits on nothing and has no burst.
UnsentWaitsOnNothing ==
  \A r \in Senders : sentTo[r] = "none" =>
    burst[r] = "none" /\ <<r, 1>> \notin waitsOn /\ <<r, 2>> \notin waitsOn

\* The inductive invariant.
SocketInv ==
  /\ SocketTypeOK /\ SubscribedReached /\ HeardWhileOpen /\ UnsentWaitsOnNothing /\ SocketHears

\* After _wsSubscribe, every block asked for is queued, known or was known; nothing
\* that was is forgotten.
LEMMA WsSubscribeReaches ==
  ASSUME NEW ids, WsSubscribe(ids), SubscribedReached, HeardWhileOpen, HasSocket, lost' = lost,
         ws' = ws
  PROVE  /\ ids \subseteq queued' \cup heard' \cup lost'
         /\ queued \cup heard \cup lost \subseteq queued' \cup heard' \cup lost'
         /\ SubscribedReached' /\ HeardWhileOpen'
<1>1. subscribed' = subscribed \cup (ids \ subscribed)
  BY DEF WsSubscribe
<1>2. CASE ws.state = "open"
  BY <1>1, <1>2 DEF WsSubscribe, SubscribedReached, HeardWhileOpen
<1>3. CASE ws.state # "open"
  BY <1>1, <1>3 DEF WsSubscribe, SubscribedReached, HeardWhileOpen
<1> QED
  BY <1>2, <1>3

LEMMA SocketStep == SocketInv /\ [SocketNext]_socketVars => SocketInv'
<1> SUFFICES ASSUME SocketInv, [SocketNext]_socketVars
             PROVE  SocketInv'
  OBVIOUS
<1> USE SocketAssumption DEF SocketInv
<1>1. ASSUME NEW r \in Senders, RequestGoesOut(r)
      PROVE  SocketInv'
  <2>1. PICK e \in SocketEntries :
          /\ sentTo' = [sentTo EXCEPT ![r] = e]
          /\ WsSubscribe(IF e = ws.at THEN {<<r, 1>>} ELSE {})
    BY <1>1 DEF RequestGoesOut
  <2>2. /\ sentTo[r] = "none" /\ HasSocket /\ waitsOn' = waitsOn \cup {<<r, 1>>}
        /\ UNCHANGED <<ws, lost, burst, drops, moves>>
    BY <1>1 DEF RequestGoesOut
  <2>3. /\ e = ws.at => <<r, 1>> \in queued' \cup heard' \cup lost'
        /\ queued \cup heard \cup lost \subseteq queued' \cup heard' \cup lost'
        /\ SubscribedReached' /\ HeardWhileOpen'
    BY <2>1, <2>2, WsSubscribeReaches
  <2>4. SocketTypeOK'
    BY <2>1, <2>2 DEF SocketTypeOK, SocketBlocks
  <2>5. UnsentWaitsOnNothing'
    BY <2>1, <2>2 DEF UnsentWaitsOnNothing, SocketTypeOK
  <2>6. ASSUME NEW id \in IdsAt(ws.at, waitsOn)'
        PROVE  \/ id \in queued' \cup heard' \cup lost'
               \/ id[2] = 2 /\ burst'[id[1]] \in {"running", "failed"}
    <3>1. PICK q \in Senders, k \in {1, 2} : id = <<q, k>>
      BY <2>4 DEF IdsAt, SocketTypeOK, SocketBlocks
    <3>2. CASE q = r
      <4>1. id = <<r, 1>> /\ e = ws.at
        BY <2>1, <2>2, <3>1, <3>2 DEF IdsAt, UnsentWaitsOnNothing, SocketTypeOK
      <4> QED
        BY <4>1, <2>3
    <3>3. CASE q # r
      <4>1. id \in IdsAt(ws.at, waitsOn)
        BY <2>1, <2>2, <3>1, <3>3 DEF IdsAt, SocketTypeOK
      <4> QED
        BY <4>1, <2>2, <2>3 DEF SocketHears
    <3> QED
      BY <3>2, <3>3
  <2> QED
    BY <2>2, <2>3, <2>4, <2>5, <2>6 DEF SocketHears
<1>2. ASSUME NEW r \in Senders, RequestEnds(r)
      PROVE  SocketInv'
  <2>1. IdsAt(ws.at, waitsOn)' \subseteq IdsAt(ws.at, waitsOn)
    BY <1>2 DEF RequestEnds, IdsAt, SocketTypeOK, SocketBlocks
  <2>2. SocketTypeOK' /\ UnsentWaitsOnNothing'
    BY <1>2 DEF RequestEnds, SocketTypeOK, UnsentWaitsOnNothing
  <2>3. SubscribedReached' /\ HeardWhileOpen'
    BY <1>2 DEF RequestEnds, SubscribedReached, HeardWhileOpen
  <2> QED
    BY <1>2, <2>1, <2>2, <2>3 DEF RequestEnds, SocketHears, HasSocket
<1>3. ASSUME NEW r \in Senders, BurstStarts(r)
      PROVE  SocketInv'
  <2>1. SocketTypeOK' /\ UnsentWaitsOnNothing'
    BY <1>3 DEF BurstStarts, SocketTypeOK, UnsentWaitsOnNothing, SocketBlocks
  <2>2. SubscribedReached' /\ HeardWhileOpen'
    BY <1>3 DEF BurstStarts, SubscribedReached, HeardWhileOpen
  <2>3. ASSUME NEW id \in IdsAt(ws.at, waitsOn)', HasSocket
        PROVE  \/ id \in queued' \cup heard' \cup lost'
               \/ id[2] = 2 /\ burst'[id[1]] \in {"running", "failed"}
    <3>1. PICK q \in Senders, k \in {1, 2} : id = <<q, k>>
      BY <2>1 DEF IdsAt, SocketTypeOK, SocketBlocks
    <3>2. CASE id = <<r, 2>>
      BY <1>3, <3>2 DEF BurstStarts, SocketTypeOK
    <3>3. CASE id # <<r, 2>>
      <4>1. id \in IdsAt(ws.at, waitsOn)
        BY <1>3, <3>3 DEF IdsAt, BurstStarts
      <4> QED
        BY <1>3, <2>3, <4>1, <3>1 DEF SocketHears, BurstStarts, SocketTypeOK
    <3> QED
      BY <3>2, <3>3
  <2> QED
    BY <1>3, <2>1, <2>2, <2>3 DEF BurstStarts, SocketHears, HasSocket
<1>4. ASSUME NEW r \in Senders, BurstEnds(r)
      PROVE  SocketInv'
  <2>1. burst[r] = "running" /\ UNCHANGED <<ws, lost, sentTo, waitsOn, drops, moves>>
    BY <1>4 DEF BurstEnds
  <2>2. CASE /\ burst' = [burst EXCEPT ![r] = "done"]
             /\ WsSubscribe(IdsAt(ws.at, waitsOn))
    <3>1. SocketTypeOK' /\ UnsentWaitsOnNothing'
      BY <2>1, <2>2 DEF SocketTypeOK, UnsentWaitsOnNothing
    <3>2. CASE HasSocket
      <4>1. /\ IdsAt(ws.at, waitsOn) \subseteq queued' \cup heard' \cup lost'
            /\ SubscribedReached' /\ HeardWhileOpen'
        BY <2>1, <2>2, <3>2, WsSubscribeReaches
      <4>2. IdsAt(ws.at, waitsOn)' = IdsAt(ws.at, waitsOn)
        BY <2>1 DEF IdsAt
      <4> QED
        BY <3>1, <4>1, <4>2 DEF SocketHears
    <3>3. CASE ~HasSocket
      <4>1. subscribed' = subscribed /\ heard' = heard /\ queued' = queued
        BY <2>2, <3>3 DEF WsSubscribe, HasSocket
      <4> QED
        BY <2>1, <3>1, <3>3, <4>1
           DEF SocketHears, HasSocket, SubscribedReached, HeardWhileOpen
    <3> QED
      BY <3>2, <3>3
  <2>3. CASE /\ burst' = [burst EXCEPT ![r] = "failed"]
             /\ UNCHANGED <<queued, subscribed, heard>>
    <3>1. SocketTypeOK' /\ UnsentWaitsOnNothing'
      BY <2>1, <2>3 DEF SocketTypeOK, UnsentWaitsOnNothing
    <3>2. SubscribedReached' /\ HeardWhileOpen'
      BY <2>1, <2>3 DEF SubscribedReached, HeardWhileOpen
    <3>3. ASSUME NEW id \in IdsAt(ws.at, waitsOn)', HasSocket
          PROVE  \/ id \in queued' \cup heard' \cup lost'
                 \/ id[2] = 2 /\ burst'[id[1]] \in {"running", "failed"}
      <4>1. id \in IdsAt(ws.at, waitsOn)
        BY <2>1 DEF IdsAt
      <4>2. PICK q \in Senders, k \in {1, 2} : id = <<q, k>>
        BY <4>1 DEF IdsAt, SocketTypeOK, SocketBlocks
      <4> QED
        BY <2>1, <2>3, <3>3, <4>1, <4>2 DEF SocketHears, SocketTypeOK
    <3> QED
      BY <2>1, <3>1, <3>2, <3>3 DEF SocketHears, HasSocket
  <2> QED
    BY <1>4, <2>2, <2>3 DEF BurstEnds
<1>5. ASSUME NEW id \in SocketBlocks, ReplyPushed(id)
      PROVE  SocketInv'
  <2>1. IdsAt(ws.at, waitsOn)' = IdsAt(ws.at, waitsOn) \ {id}
    BY <1>5 DEF ReplyPushed, IdsAt
  <2>2. SocketTypeOK' /\ UnsentWaitsOnNothing'
    BY <1>5 DEF ReplyPushed, SocketTypeOK, UnsentWaitsOnNothing
  <2>3. SubscribedReached' /\ HeardWhileOpen'
    BY <1>5 DEF ReplyPushed, SubscribedReached, HeardWhileOpen
  <2> QED
    BY <1>5, <2>1, <2>2, <2>3 DEF ReplyPushed, SocketHears, HasSocket
<1>6. CASE SocketOpens
  <2>1. ws' \in [at : SocketEntries, state : {"open"}] /\ ws'.at = ws.at
    BY <1>6 DEF SocketOpens, SocketTypeOK
  <2>2. IdsAt(ws.at, waitsOn)' = IdsAt(ws.at, waitsOn)
    BY <1>6, <2>1 DEF SocketOpens, IdsAt
  <2>3. SocketTypeOK' /\ UnsentWaitsOnNothing'
    BY <1>6, <2>1 DEF SocketOpens, SocketTypeOK, UnsentWaitsOnNothing
  <2>4. SubscribedReached' /\ HeardWhileOpen'
    BY <1>6, <2>1 DEF SocketOpens, SubscribedReached, HeardWhileOpen
  <2> QED
    BY <1>6, <2>1, <2>2, <2>3, <2>4 DEF SocketOpens, SocketHears, HasSocket, HeardWhileOpen
<1>7. CASE SocketDrops
  <2>1. ws' \in [at : SocketEntries, state : {"closed"}] /\ ws'.at = ws.at
    BY <1>7 DEF SocketDrops, SocketTypeOK
  <2>2. IdsAt(ws.at, waitsOn)' = IdsAt(ws.at, waitsOn)
    BY <1>7, <2>1 DEF SocketDrops, IdsAt
  <2>3. SocketTypeOK' /\ UnsentWaitsOnNothing'
    BY <1>7, <2>1 DEF SocketDrops, SocketTypeOK, UnsentWaitsOnNothing
  <2>4. SubscribedReached' /\ HeardWhileOpen'
    BY <1>7, <2>1 DEF SocketDrops, SubscribedReached, HeardWhileOpen
  <2> QED
    BY <1>7, <2>1, <2>2, <2>3, <2>4 DEF SocketDrops, SocketHears, HasSocket
<1>8. CASE SocketReconnects
  <2>1. /\ ws' \in [at : SocketEntries, state : {"connecting", "dead"}] /\ ws'.at = ws.at
        /\ ws.state = "closed"
    BY <1>8 DEF SocketReconnects, SocketTypeOK
  <2>2. IdsAt(ws.at, waitsOn)' = IdsAt(ws.at, waitsOn)
    BY <1>8, <2>1 DEF SocketReconnects, IdsAt
  <2>3. SocketTypeOK' /\ UnsentWaitsOnNothing'
    BY <1>8, <2>1 DEF SocketReconnects, SocketTypeOK, UnsentWaitsOnNothing
  <2>4. SubscribedReached' /\ HeardWhileOpen'
    BY <1>8, <2>1 DEF SocketReconnects, SubscribedReached, HeardWhileOpen
  <2> QED
    BY <1>8, <2>1, <2>2, <2>3, <2>4 DEF SocketReconnects, SocketHears, HasSocket
<1>9. CASE SocketMoves
  <2>1. ws' \in [at : SocketEntries, state : {"connecting", "dead"}]
    BY <1>9 DEF SocketMoves
  <2>2. IdsAt(ws.at, waitsOn)' = queued' /\ subscribed' = queued'
    BY <1>9 DEF SocketMoves, IdsAt
  <2>3. SocketTypeOK' /\ UnsentWaitsOnNothing'
    BY <1>9, <2>1 DEF SocketMoves, SocketTypeOK, UnsentWaitsOnNothing
  <2>4. SubscribedReached' /\ HeardWhileOpen'
    BY <1>9, <2>1, <2>2 DEF SocketMoves, SubscribedReached, HeardWhileOpen
  <2> QED
    BY <2>2, <2>3, <2>4 DEF SocketHears
<1>10. CASE SocketCloses
  <2>1. ws' \in [at : SocketEntries, state : {"none"}]
    BY <1>10 DEF SocketCloses, SocketTypeOK
  <2>2. SocketTypeOK' /\ UnsentWaitsOnNothing'
    BY <1>10, <2>1 DEF SocketCloses, SocketTypeOK, UnsentWaitsOnNothing
  <2> QED
    BY <1>10, <2>1, <2>2
       DEF SocketCloses, SubscribedReached, HeardWhileOpen, SocketHears, HasSocket
<1>11. CASE UNCHANGED socketVars
  BY <1>11 DEF socketVars, SocketTypeOK, SubscribedReached, HeardWhileOpen,
               UnsentWaitsOnNothing, SocketHears, HasSocket, IdsAt
<1> QED
  BY <1>1, <1>2, <1>3, <1>4, <1>5, <1>6, <1>7, <1>8, <1>9, <1>10, <1>11 DEF SocketNext

\* Every block that is waited for at the socket's entry, where the claim scheduler
\* does not ask, is subscribed or queued for it, for any number of requests, bursts,
\* drops and changes of the entry; the exceptions are the blocks lost with a
\* connection and those of a burst that has not ended well (transport.ts:
\* ResponseWebSocket; client.ts: _wsSubscribe, _setNodes).
THEOREM SocketHearsEveryBlock == SocketSpec => []SocketHears
<1>1. SocketInit => SocketInv
  BY DEF SocketInit, SocketInv, SocketTypeOK, SubscribedReached, HeardWhileOpen,
         UnsentWaitsOnNothing, SocketHears, IdsAt
<1>2. SocketInv => SocketHears
  BY DEF SocketInv
<1> QED
  BY <1>1, <1>2, SocketStep, PTL DEF SocketSpec

-----------------------------------------------------------------------------
(* The node list                                                           *)

\* Blocks are counted; a load is of one of two kinds, and connect() asks seeds only.
LoadOK ==
  /\ head \in Nat /\ seedBlock \in Nat
  /\ load.use \in {"routing", "membership"}
  /\ life = "connecting" => load.use = "routing"

\* The inductive invariant.
SeedInv == LoadOK /\ SeedNodesVouched

\* A client's list taken from one document the registry confirms at its block.
TakenFrom(doc, list) ==
  /\ doc.block \in 1..head /\ DOMAIN list # {}
  /\ \A m \in DOMAIN list :
       m \in DOMAIN Chain[doc.block] /\ Chain[doc.block][m].eligible
         /\ list[m] = Profile(Chain[doc.block][m])

\* A failing source changes which source is asked and ends a connect() or a paid
\* call, but never the list.
LEMMA SourceFailsKeeps ==
  ASSUME NEW list, NEW entry, NEW fresh, SourceFails(list, entry, fresh), LoadOK,
         head' \in Nat, seedBlock' \in Nat
  PROVE  /\ life' \in {"up", "closed"} => life' = life
         /\ life' = life \/ life' = "failed"
         /\ LoadOK'
<1>1. /\ life' = life \/ life' = "failed"
      /\ life' = "connecting" => life = "connecting"
  BY DEF SourceFails
<1>2. \/ load' = Ask(Tail(load.queue), load.use)
      \/ load' = NotLoading
      \/ life # "connecting" /\ \E more : load' = Ask(more, "membership")
  BY DEF SourceFails
<1>3. load'.use \in {"routing", "membership"} /\ (life = "connecting" => load'.use = "routing")
  BY <1>2 DEF Ask, NotLoading, LoadOK
<1> QED
  BY <1>1, <1>3 DEF LoadOK

\* A refused document leaves the list that was vouched for.
LEMMA SourceRefusedKeeps ==
  ASSUME SeedInv, SourceRefused, head' = head
  PROVE  SeedInv'
<1>1. UNCHANGED <<nodes, seedBlock, online>> /\ SourceFails(nodes, entryUrl, verified)
  BY DEF SourceRefused
<1>2. LoadOK' /\ (life' \in {"up", "closed"} => life' = life)
  BY <1>1, SourceFailsKeeps DEF SeedInv, LoadOK
<1> QED
  BY <1>1, <1>2 DEF SeedInv, SeedNodesVouched

\* What _setNodes does to the list and to the load.
LEMMA SetNodesTakes ==
  ASSUME NEW list, SetNodes(list), LoadOK, head' \in Nat, seedBlock' \in Nat
  PROVE  /\ nodes' = list /\ LoadOK'
         /\ life' \in {"up", "closed"} => life' = life
<1>1. nodes' = list
  BY DEF SetNodes
<1>2. CASE SourceFails(list, entryUrl, TRUE)
  BY <1>1, <1>2, SourceFailsKeeps
<1>3. CASE load' = NotLoading /\ UNCHANGED life
  BY <1>1, <1>3 DEF LoadOK, NotLoading
<1> QED
  BY <1>2, <1>3 DEF SetNodes

\* The members a document is used for are eligible in it, and seen when the
\* document is a seed's.
LEMMA UsableTaken ==
  ASSUME NEW doc, MatchesRegistry(doc), NEW kept \in SUBSET DOMAIN Usable(doc), kept # {}
  PROVE  /\ TakenFrom(doc, Restrict(doc.lists, kept)) /\ DOMAIN Restrict(doc.lists, kept) = kept
         /\ Usable(doc) = Restrict(doc.lists, DOMAIN Usable(doc))
         /\ load.use = "routing" => DOMAIN Usable(doc) \subseteq doc.seen
<1>1. DOMAIN Usable(doc) \subseteq Eligible(doc)
  BY DEF Usable, Restrict
<1>2. /\ Usable(doc) = Restrict(doc.lists, DOMAIN Usable(doc))
      /\ load.use = "routing" => DOMAIN Usable(doc) \subseteq doc.seen
  BY DEF Usable, Restrict
<1>3. /\ DOMAIN doc.lists = DOMAIN Chain[doc.block] /\ doc.block \in 1..head
      /\ \A m \in DOMAIN doc.lists : doc.lists[m] = Profile(Chain[doc.block][m])
  BY DEF MatchesRegistry
<1>4. \A m \in kept : m \in DOMAIN doc.lists /\ Chain[doc.block][m].eligible
  BY <1>1 DEF Eligible
<1>5. DOMAIN Restrict(doc.lists, kept) = kept
      /\ \A m \in kept : Restrict(doc.lists, kept)[m] = doc.lists[m]
  BY DEF Restrict
<1> QED
  BY <1>2, <1>3, <1>4, <1>5 DEF TakenFrom

\* A list taken from a document whose block is not before the last seed's, with
\* members that seed reported online, is vouched for.
LEMMA TakenVouched ==
  ASSUME NEW doc, NEW list, TakenFrom(doc, list), nodes' = list, head' = head, head \in Nat,
         seedBlock' \in Nat, seedBlock' <= doc.block, DOMAIN list \subseteq online'
  PROVE  SeedNodesVouched'
<1>1. doc.block \in seedBlock'..head'
  BY DEF TakenFrom
<1>2. nodes' # <<>>
  BY DEF TakenFrom
<1> QED
  BY <1>1, <1>2 DEF TakenFrom, SeedNodesVouched

LEMMA SeedStep == SeedInv /\ [SeedNext]_seedVars => SeedInv'
<1> SUFFICES ASSUME SeedInv, [SeedNext]_seedVars
             PROVE  SeedInv'
  OBVIOUS
<1>0. LoadOK /\ SeedNodesVouched
  BY DEF SeedInv
<1>1. CASE FetchFails
  BY <1>1, SourceRefusedKeeps DEF FetchFails
<1>2. CASE FetchAnswers \/ BodyStalls \/ BatchRefused
  <2>1. UNCHANGED <<head, life, nodes, seedBlock, online>> /\ load'.use = load.use
    <3>1. /\ UNCHANGED <<head, life, nodes, seedBlock, online>>
          /\ \E at \in {"body", "stalled", "single"} : load' = [load EXCEPT !.at = at]
      BY <1>2 DEF FetchAnswers, BodyStalls, BatchRefused
    <3> QED
      BY <3>1
  <2> QED
    BY <1>0, <2>1 DEF SeedInv, LoadOK, SeedNodesVouched
<1>3. CASE BodyArrives
  <2>1. CASE SourceRefused
    BY <1>3, <2>1, SourceRefusedKeeps DEF BodyArrives
  <2>2. CASE ~SourceRefused
    <3>1. UNCHANGED <<head, life, nodes, seedBlock, online>>
          /\ \E doc : load' = [load EXCEPT !.at = "batch", !.doc = doc]
      BY <1>3, <2>2 DEF BodyArrives
    <3>2. load'.use = load.use
      BY <3>1
    <3> QED
      BY <1>0, <3>1, <3>2 DEF SeedInv, LoadOK, SeedNodesVouched
  <2> QED
    BY <2>1, <2>2
<1>4. CASE ReadsFail
  BY <1>4, SourceRefusedKeeps DEF ReadsFail
<1>5. CASE ReadsArrive
  <2> DEFINE doc == load.doc
  <2>1. head' = head
    BY <1>5 DEF ReadsArrive
  <2>2. CASE SourceRefused
    BY <2>1, <2>2, SourceRefusedKeeps
  <2>3. CASE /\ MatchesRegistry(doc) /\ DOMAIN Usable(doc) # {}
             /\ life = "connecting" /\ Connects(doc)
    <3>1. LoadOK'
      BY <1>0, <2>1, <2>3 DEF Connects, LoadOK, NotLoading, MatchesRegistry
    <3>2. CASE life' = "failed"
      BY <3>1, <3>2 DEF SeedInv, SeedNodesVouched
    <3>3. CASE nodes' = Usable(doc) /\ seedBlock' = doc.block /\ online' = doc.seen
      <4>1. TakenFrom(doc, Usable(doc)) /\ DOMAIN Usable(doc) \subseteq doc.seen
        BY <1>0, <2>3, UsableTaken DEF LoadOK
      <4>2. SeedNodesVouched'
        BY <1>0, <2>1, <3>1, <3>3, <4>1, TakenVouched DEF LoadOK
      <4> QED
        BY <3>1, <4>2 DEF SeedInv
    <3> QED
      BY <2>3, <3>2, <3>3 DEF Connects
  <2>4. CASE /\ MatchesRegistry(doc) /\ DOMAIN Usable(doc) # {}
             /\ load.use = "routing" /\ ApplyTopology(doc)
    <3>1. /\ seedBlock' = doc.block /\ online' = doc.seen /\ SetNodes(Usable(doc))
          /\ doc.block \in Nat
      BY <1>0, <2>4 DEF ApplyTopology, MatchesRegistry, LoadOK
    <3>2. nodes' = Usable(doc) /\ LoadOK'
      BY <1>0, <2>1, <3>1, SetNodesTakes DEF LoadOK
    <3>3. TakenFrom(doc, Usable(doc)) /\ DOMAIN Usable(doc) \subseteq doc.seen
      BY <2>4, UsableTaken
    <3>4. SeedNodesVouched'
      BY <1>0, <2>1, <3>1, <3>2, <3>3, TakenVouched DEF LoadOK
    <3> QED
      BY <3>2, <3>4 DEF SeedInv
  <2>5. CASE /\ MatchesRegistry(doc) /\ DOMAIN Usable(doc) # {} /\ life # "connecting"
             /\ load.use = "membership" /\ ApplyNodeMembership(doc) /\ ~SourceRefused
    <3> DEFINE kept == DOMAIN nodes \cap DOMAIN Usable(doc)
    <3>1. /\ ~(doc.block < seedBlock) /\ kept # {} /\ SetNodes(Restrict(doc.lists, kept))
          /\ UNCHANGED <<seedBlock, online>>
      BY <2>5 DEF ApplyNodeMembership
    <3>2. doc.block \in Nat /\ seedBlock' \in Nat /\ seedBlock' <= doc.block
      BY <1>0, <2>5, <3>1 DEF MatchesRegistry, LoadOK
    <3>3. nodes' = Restrict(doc.lists, kept) /\ LoadOK' /\ (life' \in {"up", "closed"} => life' = life)
      BY <1>0, <2>1, <3>1, <3>2, SetNodesTakes DEF LoadOK
    <3>4. TakenFrom(doc, Restrict(doc.lists, kept)) /\ DOMAIN Restrict(doc.lists, kept) = kept
      BY <2>5, <3>1, UsableTaken
    <3>5. CASE life' \in {"up", "closed"}
      <4>1. kept \subseteq online'
        BY <1>0, <3>1, <3>3, <3>5 DEF SeedNodesVouched
      <4>2. SeedNodesVouched'
        BY <1>0, <2>1, <3>2, <3>3, <3>4, <4>1, TakenVouched DEF LoadOK
      <4> QED
        BY <3>3, <4>2 DEF SeedInv
    <3>6. CASE life' \notin {"up", "closed"}
      BY <3>3, <3>6 DEF SeedInv, SeedNodesVouched
    <3> QED
      BY <3>5, <3>6
  <2> QED
    BY <1>0, <1>5, <2>2, <2>3, <2>4, <2>5 DEF ReadsArrive, LoadOK
<1>6. CASE RegistryChanges
  <2>1. UNCHANGED <<life, nodes, seedBlock, online, load>> /\ head' = head + 1
    BY <1>6 DEF RegistryChanges
  <2>2. seedBlock..head \subseteq seedBlock'..head'
    BY <1>0, <2>1 DEF LoadOK
  <2>3. LoadOK'
    BY <1>0, <2>1 DEF LoadOK
  <2>4. SeedNodesVouched'
    BY <1>0, <2>1, <2>2 DEF SeedNodesVouched
  <2> QED
    BY <2>3, <2>4 DEF SeedInv
<1>7. CASE VerificationAges \/ TimerRefreshes \/ PaidCallStarts \/ TimerStops
  <2>1. /\ UNCHANGED <<head, nodes, seedBlock, online>>
        /\ life' = life \/ (life = "up" /\ life' = "closed")
        /\ load'.use = load.use \/ load'.use = "routing"
    BY <1>7 DEF VerificationAges, TimerRefreshes, PaidCallStarts, TimerStops, RefreshTopology, Ask
  <2> QED
    BY <1>0, <2>1 DEF SeedInv, LoadOK, SeedNodesVouched
<1>8. CASE UNCHANGED seedVars
  BY <1>0, <1>8 DEF seedVars, SeedInv, LoadOK, SeedNodesVouched
<1> QED
  BY <1>1, <1>2, <1>3, <1>4, <1>5, <1>6, <1>7, <1>8 DEF SeedNext, LoadStep

\* For any registry, any seeds and any documents, forged ones included: every node
\* a connected client may route through was registered and eligible, with its key
\* and URL, at one block that is not before the last seed's, and that seed reported
\* it online (client.ts: connect, _applyTopology, _applyNodeMembership, _setNodes;
\* topology.ts: verifyOnChainWithEligibility).
THEOREM NodesVouched == ClassicSpec => []SeedNodesVouched
<1>1. SeedInit => SeedInv
  BY DEF SeedInit, SeedInv, LoadOK, SeedNodesVouched, Ask
<1>2. SeedInv => SeedNodesVouched
  BY DEF SeedInv
<1> QED
  BY <1>1, <1>2, SeedStep, PTL DEF ClassicSpec
=============================================================================
