------------------------------ MODULE KpsPool ------------------------------
(***************************************************************************)
(* One entry of the KPS connection pool (kps/transport.ts): the dial, the  *)
(* connection that exchanges share, the stream slots and their waiters,    *)
(* and the life of each exchange from request() to its finally block.      *)
(*                                                                         *)
(* Pool entries share no state but the idle sweep's ranking, so one entry  *)
(* shows every behaviour; whether the sweep keeps it is left open.  Every  *)
(* await is a point where other steps may run.  An abort of the exchange   *)
(* (its timer, the caller, a teardown) only ends an await that listens to  *)
(* the signal and started before it.                                       *)
(***************************************************************************)
EXTENDS Naturals, Sequences, FiniteSets

CONSTANTS
  Exchanges,         \* exchanges that a behaviour may make
  MaxStreams,        \* maxStreamsPerConnection
  MaxConns           \* bound: dials that a behaviour may start

ASSUME PoolAssumption ==
  /\ IsFiniteSet(Exchanges)
  /\ MaxStreams \in Nat \ {0} /\ MaxConns \in Nat

Conns == 1..MaxConns
NoConn == 0

\* Where an exchange awaits: the dial, its turn after it, a stream slot, its
\* turn after the slot was granted, openStream, the write, the response; then
\* "failing" and "ending" before its finally block, and "over".
Phases == {"idle", "dial", "dialled", "waiting", "granted", "opening", "write", "read",
           "failing", "ending", "over"}

VARIABLES
  phase, connOf, acquired, aborted, doomed,    \* the exchanges
  dial, dialNo, conn, cooling, active, waiters, teardowns,   \* PoolEntry
  link,              \* what became of each connection dialled ("closing" evicted
                     \* or closed by close(), "unused" closed by the idle sweep:
                     \* their closed promise is pending)
  closed             \* the transport is closed

exchangeVars == <<phase, connOf, acquired, aborted, doomed>>
entryVars == <<dial, dialNo, conn, cooling, active, waiters, teardowns>>
vars == <<exchangeVars, entryVars, link, closed>>

Init ==
  /\ phase = [x \in Exchanges |-> "idle"]
  /\ connOf = [x \in Exchanges |-> NoConn]
  /\ acquired = [x \in Exchanges |-> FALSE]
  /\ aborted = [x \in Exchanges |-> FALSE]
  /\ doomed = [x \in Exchanges |-> FALSE]
  /\ dial = "none" /\ dialNo = 0 /\ conn = NoConn /\ cooling = FALSE
  /\ active = 0 /\ waiters = <<>> /\ teardowns = {}
  /\ link = [k \in Conns |-> "none"]
  /\ closed = FALSE

To(x, p) == phase' = [phase EXCEPT ![x] = p]
QueuedExchanges == {waiters[i] : i \in DOMAIN waiters}

\* indexOf and splice of the waiter
Without(x) ==
  IF x \notin QueuedExchanges THEN waiters
  ELSE LET at == CHOOSE i \in DOMAIN waiters : waiters[i] = x
       IN [i \in 1..(Len(waiters) - 1) |-> waiters[IF i < at THEN i ELSE i + 1]]

-----------------------------------------------------------------------------
(* connection(): the shared connection, the dial in progress, or a new dial *)

\* request() up to its first await
Request(x) ==
  /\ phase[x] = "idle"
  /\ \/ /\ ~closed /\ conn # NoConn
        /\ To(x, "dialled") /\ connOf' = [connOf EXCEPT ![x] = conn]
        /\ UNCHANGED <<dial, dialNo, link>>
     \/ /\ ~closed /\ conn = NoConn /\ dial = "pending"
        /\ To(x, "dial") /\ UNCHANGED <<connOf, dial, dialNo, link>>
     \/ /\ ~closed /\ conn = NoConn /\ dial = "none" /\ ~cooling
        /\ dialNo < MaxConns
        /\ To(x, "dial")
        /\ dial' = "pending" /\ dialNo' = dialNo + 1
        /\ link' = [link EXCEPT ![dialNo + 1] = "dialling"]
        /\ UNCHANGED connOf
     \/ \* closed, cooling down, or a dial that failed for good
        /\ closed \/ (conn = NoConn /\ (dial = "failed" \/ (dial = "none" /\ cooling)))
        /\ To(x, "failing") /\ UNCHANGED <<connOf, dial, dialNo, link>>
  /\ UNCHANGED <<acquired, aborted, doomed, conn, cooling, active, waiters, teardowns,
                 closed>>

\* prewarm(): a dial in the background
Prewarm ==
  /\ ~closed /\ conn = NoConn /\ dial = "none" /\ ~cooling /\ dialNo < MaxConns
  /\ dial' = "pending" /\ dialNo' = dialNo + 1
  /\ link' = [link EXCEPT ![dialNo + 1] = "dialling"]
  /\ UNCHANGED <<exchangeVars, conn, cooling, active, waiters, teardowns, closed>>

\* The exchanges that await the dial go on or fail.
DialEnds(p, k) ==
  /\ phase' = [x \in Exchanges |-> IF phase[x] = "dial" THEN p ELSE phase[x]]
  /\ connOf' = [x \in Exchanges |-> IF phase[x] = "dial" THEN k ELSE connOf[x]]

DialSucceeds ==
  /\ dial = "pending" /\ ~closed
  /\ DialEnds("dialled", dialNo)
  /\ dial' = "none" /\ conn' = dialNo /\ cooling' = FALSE
  /\ link' = [link EXCEPT ![dialNo] = "up"]
  /\ UNCHANGED <<acquired, aborted, doomed, dialNo, active, waiters, teardowns, closed>>

\* The dial fails, or times out and may still complete later.
DialFails ==
  /\ dial = "pending"
  /\ DialEnds("failing", NoConn)
  /\ dial' = "none" /\ cooling' = TRUE
  /\ \E after \in {"gone", "late"} : link' = [link EXCEPT ![dialNo] = after]
  /\ UNCHANGED <<acquired, aborted, doomed, dialNo, conn, active, waiters, teardowns,
                 closed>>

\* The dial brings a connection after close(), which is closed at once, or an
\* object that is none: entry.dial stays a rejected promise.
DialRefused ==
  /\ dial = "pending"
  /\ DialEnds("failing", NoConn)
  /\ dial' = "failed"
  /\ link' = [link EXCEPT ![dialNo] = "gone"]
  /\ UNCHANGED <<acquired, aborted, doomed, dialNo, conn, cooling, active, waiters,
                 teardowns, closed>>

\* mutant: a late connection is kept
AfterLateDialOpen(k) == "up"
\* "A dial that completes after its deadline (or after close) is closed"; nobody
\* listens for the end of such a connection
AfterLateDial(k) == "gone"
LateDial(k) ==
  /\ link[k] = "late"
  /\ link' = [link EXCEPT ![k] = AfterLateDial(k)]
  /\ UNCHANGED <<exchangeVars, entryVars, closed>>

CooldownEnds ==
  /\ cooling /\ cooling' = FALSE
  /\ UNCHANGED <<exchangeVars, dial, dialNo, conn, active, waiters, teardowns, link,
                 closed>>

-----------------------------------------------------------------------------
(* acquire() and release()                                                 *)

SlotFree == active < MaxStreams

Acquire(x) ==
  /\ phase[x] = "dialled"
  /\ IF SlotFree THEN To(x, "granted") /\ active' = active + 1 /\ UNCHANGED waiters
     ELSE To(x, "waiting") /\ waiters' = Append(waiters, x) /\ UNCHANGED active
  /\ UNCHANGED <<connOf, acquired, aborted, doomed, dial, dialNo, conn, cooling, teardowns,
                 link, closed>>

\* The exchange resumes after acquire() and calls openStream.
CallOpenStream(x) ==
  /\ phase[x] = "granted"
  /\ To(x, "opening")
  /\ acquired' = [acquired EXCEPT ![x] = TRUE]
  /\ UNCHANGED <<connOf, aborted, doomed, entryVars, link, closed>>

\* mutant: the freed slot is not handed on
ReleaseOnly(x) ==
  /\ active' = active - 1 /\ UNCHANGED waiters
  /\ To(x, "over")

\* release(): the slot goes to the waiter that came first
Release(x) ==
  IF waiters = <<>>
  THEN active' = active - 1 /\ UNCHANGED waiters /\ To(x, "over")
  ELSE /\ active' = active - 1 + 1
       /\ waiters' = Tail(waiters)
       /\ phase' = [phase EXCEPT ![x] = "over", ![Head(waiters)] = "granted"]

\* The finally block.
Finally(x) ==
  /\ phase[x] \in {"failing", "ending"}
  /\ teardowns' = teardowns \ {x}
  /\ IF acquired[x] THEN Release(x) ELSE To(x, "over") /\ UNCHANGED <<active, waiters>>
  /\ acquired' = [acquired EXCEPT ![x] = FALSE]
  /\ doomed' = [doomed EXCEPT ![x] = FALSE]
  /\ UNCHANGED <<connOf, aborted, dial, dialNo, conn, cooling, link, closed>>

-----------------------------------------------------------------------------
(* openStream(), the write and the response                                *)

\* The stream opened.  addTeardown: registered for its connection, or torn down
\* in a microtask when the entry has moved on.  An exchange that was aborted
\* before fails here, its first bytes already written.
StreamOpens(x) ==
  /\ phase[x] = "opening" /\ link[connOf[x]] \in {"up", "closing", "unused"}
  /\ To(x, IF aborted[x] THEN "failing" ELSE "write")
  /\ IF conn = connOf[x]
     THEN teardowns' = teardowns \cup {x} /\ UNCHANGED doomed
     ELSE doomed' = [doomed EXCEPT ![x] = TRUE] /\ UNCHANGED teardowns
  /\ UNCHANGED <<connOf, acquired, aborted, dial, dialNo, conn, cooling, active, waiters,
                 link, closed>>

OpenFails(x) ==
  /\ phase[x] = "opening"
  /\ To(x, "failing")
  /\ UNCHANGED <<connOf, acquired, aborted, doomed, entryVars, link, closed>>

\* openStreamTimeoutMs: the connection is wedged and evicted
OpenTimesOut(x) ==
  /\ phase[x] = "opening"
  /\ To(x, "failing")
  /\ IF ~aborted[x] /\ conn = connOf[x]
     THEN conn' = NoConn /\ link' = [link EXCEPT ![connOf[x]] = "closing"]
     ELSE UNCHANGED <<conn, link>>
  /\ UNCHANGED <<connOf, acquired, aborted, doomed, dial, dialNo, cooling, active, waiters,
                 teardowns, closed>>

Written(x) ==
  /\ phase[x] = "write" /\ To(x, "read")
  /\ UNCHANGED <<connOf, acquired, aborted, doomed, entryVars, link, closed>>

Answered(x) ==
  /\ phase[x] = "read" /\ To(x, "ending")
  /\ UNCHANGED <<connOf, acquired, aborted, doomed, entryVars, link, closed>>

\* The stream breaks, or the response cannot be read.
StreamFails(x) ==
  /\ phase[x] \in {"write", "read"} /\ To(x, "failing")
  /\ UNCHANGED <<connOf, acquired, aborted, doomed, entryVars, link, closed>>

-----------------------------------------------------------------------------
(* Aborting exchanges                                                      *)

Listening == {"dial", "waiting", "opening", "write", "read"}

\* fail() of the exchanges in xs; a waiter leaves the queue at once
AbortAll(xs) ==
  /\ aborted' = [x \in Exchanges |-> aborted[x] \/ x \in xs]
  /\ phase' = [x \in Exchanges |->
                IF x \in xs /\ ~aborted[x] /\ phase[x] \in Listening THEN "failing" ELSE phase[x]]

\* The exchange timer or the caller's signal
Abort(x) ==
  /\ phase[x] \notin {"idle", "failing", "ending", "over"} /\ ~aborted[x]
  /\ AbortAll({x})
  /\ waiters' = Without(x)
  /\ UNCHANGED <<connOf, acquired, doomed, dial, dialNo, conn, cooling, active, teardowns,
                 link, closed>>

\* The microtask addTeardown queued
TearDownDoomed(x) ==
  /\ doomed[x] /\ doomed' = [doomed EXCEPT ![x] = FALSE]
  /\ AbortAll({x})
  /\ UNCHANGED <<connOf, acquired, entryVars, link, closed>>

\* onClosed(): every registered exchange of the entry is torn down, whatever
\* connection it runs on.  (The listeners told of the close are the client's.)
ConnCloses(k) ==
  /\ link[k] \in {"up", "closing", "unused"}
  /\ link' = [link EXCEPT ![k] = "gone"]
  /\ conn' = IF conn = k THEN NoConn ELSE conn
  /\ AbortAll(teardowns)
  /\ teardowns' = {}
  /\ UNCHANGED <<connOf, acquired, doomed, dial, dialNo, cooling, active, waiters, closed>>

\* maintain() closes an idle connection it does not keep.
IdleClose ==
  /\ ~closed /\ conn # NoConn /\ active = 0 /\ waiters = <<>>
  /\ conn' = NoConn
  /\ link' = [link EXCEPT ![conn] = "unused"]
  /\ UNCHANGED <<exchangeVars, dial, dialNo, cooling, active, waiters, teardowns, closed>>

\* close(): waiting and registered exchanges fail, the connection is closed
Close ==
  /\ ~closed /\ closed' = TRUE
  /\ aborted' = [x \in Exchanges |-> aborted[x] \/ x \in teardowns]
  /\ phase' = [x \in Exchanges |->
                IF \/ x \in QueuedExchanges
                   \/ x \in teardowns /\ ~aborted[x] /\ phase[x] \in Listening
                THEN "failing" ELSE phase[x]]
  /\ waiters' = <<>> /\ teardowns' = {}
  /\ conn' = NoConn
  /\ link' = IF conn = NoConn THEN link ELSE [link EXCEPT ![conn] = "closing"]
  /\ UNCHANGED <<connOf, acquired, doomed, dial, dialNo, cooling, active>>

-----------------------------------------------------------------------------
Next ==
  \/ \E x \in Exchanges : Request(x)
  \/ Prewarm
  \/ DialSucceeds
  \/ DialFails
  \/ DialRefused
  \/ \E k \in Conns : LateDial(k)
  \/ CooldownEnds
  \/ \E x \in Exchanges : Acquire(x)
  \/ \E x \in Exchanges : CallOpenStream(x)
  \/ \E x \in Exchanges : StreamOpens(x)
  \/ \E x \in Exchanges : OpenFails(x)
  \/ \E x \in Exchanges : OpenTimesOut(x)
  \/ \E x \in Exchanges : Written(x)
  \/ \E x \in Exchanges : Answered(x)
  \/ \E x \in Exchanges : StreamFails(x)
  \/ \E x \in Exchanges : Abort(x)
  \/ \E x \in Exchanges : TearDownDoomed(x)
  \/ \E x \in Exchanges : Finally(x)
  \/ \E k \in Conns : ConnCloses(k)
  \/ IdleClose
  \/ Close

Spec == Init /\ [][Next]_vars

\* Microtasks run and timers fire: an exchange resumes, is ended by its timer
\* or by the openStream timer, and reaches its finally block.  (The network
\* owes nothing: dials, streams and responses may hang.)
ExchangeRuns(x) ==
  \/ Acquire(x) \/ CallOpenStream(x) \/ Finally(x) \/ Abort(x) \/ OpenTimesOut(x)
FairSpec == Spec /\ \A x \in Exchanges : WF_vars(ExchangeRuns(x))

-----------------------------------------------------------------------------
(* Properties                                                              *)

\* The type of every variable.
TypeOK ==
  /\ phase \in [Exchanges -> Phases]
  /\ connOf \in [Exchanges -> 0..MaxConns]
  /\ acquired \in [Exchanges -> BOOLEAN] /\ aborted \in [Exchanges -> BOOLEAN]
  /\ doomed \in [Exchanges -> BOOLEAN]
  /\ dial \in {"none", "pending", "failed"} /\ dialNo \in 0..MaxConns
  /\ conn \in 0..MaxConns /\ cooling \in BOOLEAN
  /\ active \in Nat /\ waiters \in Seq(Exchanges) /\ teardowns \subseteq Exchanges
  /\ link \in [Conns -> {"none", "dialling", "late", "up", "closing", "unused", "gone"}]
  /\ closed \in BOOLEAN

Holding == {x \in Exchanges : phase[x] = "granted" \/ acquired[x]}

SlotsExact == active = Cardinality(Holding) /\ active <= MaxStreams

NoSlotLost ==
  /\ waiters # <<>> => active = MaxStreams
  /\ \A x \in Exchanges : phase[x] = "waiting" <=> x \in QueuedExchanges
  /\ \A i, j \in DOMAIN waiters : waiters[i] = waiters[j] => i = j

\* "Streams open at once per connection, below nox-kps's 64": active counts the
\* exchanges that hold a slot, through every abort and failure, up to the bound.
\* No slot is lost to a waiter: while one waits, every slot is taken, and the
\* queue is exactly the exchanges that wait, each once.
SlotsSound == SlotsExact /\ NoSlotLost

\* "A dial that completes after its deadline (or after close) is closed, not
\* leaked": an open connection is the entry's, and none is open after close().
NoLeakedConnection == \A k \in Conns : link[k] = "up" => conn = k /\ ~closed

\* Every exchange ends, by its timer at the latest, even one that was aborted
\* while it could not listen and then had to wait for a slot.
ExchangesEnd == \A x \in Exchanges : (phase[x] # "idle") ~> (phase[x] = "over")
=============================================================================
