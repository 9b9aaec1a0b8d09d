------------------------------- MODULE Worker -------------------------------
(***************************************************************************)
(* The anon-rpc worker (core.ts) over its TLS pool: boot with retries, the *)
(* accept loop and its call slots, calls that arrive before the client is  *)
(* ready, the hops of a call (fetch-map.ts, tls/transport.ts), the answers *)
(* kept in memory (local-answers.ts) and the one permanent failure.        *)
(*                                                                         *)
(* A call's request and reply are abstracted to what the worker decides    *)
(* on: whether the URL can use a tunnel, whether the hop failed, redirects *)
(* and, for a memo method, which of two results came back.                 *)
(***************************************************************************)
EXTENDS TlsPool

CONSTANTS
  WalletCalls,       \* calls of the host; the rest of Calls are verifications
  MemoCalls,         \* wallet calls that may ask for the memo key
  MaxSlots,          \* cfg.maxConcurrentCalls is 1..MaxSlots
  MaxHops,           \* MAX_REDIRECT_HOPS
  TrapLimit,         \* WASM_TRAP_LIMIT
  MaxLies,           \* bound: wrong results that exits return
  MaxAcquires        \* bound: sessions that calls ask the pool for, after which
                     \* no tunnel hop is retried or redirected to another tunnel

ASSUME WorkerAssumption ==
  /\ WalletCalls \subseteq Calls /\ MemoCalls \subseteq WalletCalls
  /\ MaxSlots \in Nat \ {0} /\ MaxHops \in Nat /\ TrapLimit \in Nat \ {0}
  /\ MaxLies \in Nat /\ MaxAcquires \in Nat

Verifications == Calls \ WalletCalls

VARIABLES
  tls,               \* cfg.tls: "off", "preferred" or "required"
  memoCalls,         \* the wallet calls that do
  callHost,          \* per call: the host of its URL (and of its redirects)
  limit, slots,      \* cfg.maxConcurrentCalls, and the semaphore's count
  boot,              \* where boot() is
  link,              \* the client: "none", "booting" (known to boot() only),
                     \* "serving" (this.client), "gone" (disconnected)
  failed, signals,   \* this.failed, and what was signalled to the host
  loop,              \* acceptLoop(): "none", "slot", "accept", "over"
  call,              \* per call: where it is
  hop, onTunnel,     \* per call: redirects followed, an earlier hop used a tunnel
  tunnels,           \* per call: sendPrepared() was given a TlsTransport
  attempt,           \* per call: attempts of the tunnel hop
  traps,             \* trapTimes.length
  memo,              \* the LocalAnswers entry of the one memo key
  lies, acquires     \* counts for the bounds

workerVars == <<tls, memoCalls, callHost, limit, slots, boot, link, failed, signals, loop, call, hop, onTunnel,
                tunnels, attempt, traps, memo, lies, acquires>>
vars == <<poolVars, workerVars>>

NoMemo == [value |-> "none", confirmations |-> 0]

Init ==
  /\ PoolInit
  /\ tls \in {"off", "preferred", "required"} /\ (tls = "off" => mode = "per-call")
  /\ memoCalls \in SUBSET MemoCalls /\ callHost \in [Calls -> Hosts]
  /\ limit \in 1..MaxSlots /\ slots = limit
  /\ boot = "start" /\ link = "none" /\ failed = FALSE /\ signals = <<>> /\ loop = "none"
  /\ call = [c \in Calls |-> "none"] /\ hop = [c \in Calls |-> 0]
  /\ onTunnel = [c \in Calls |-> FALSE] /\ tunnels = [c \in Calls |-> FALSE]
  /\ attempt = [c \in Calls |-> 0]
  /\ traps = 0 /\ memo = NoMemo /\ lies = 0 /\ acquires = 0

\* Not yet answered: it holds a slot
Unfinished == {c \in WalletCalls : call[c] \notin {"none", "answered"}}

-----------------------------------------------------------------------------
(* fail() and shutdown() *)

\* The calls after shutdown() rejected the waiters of waitReady()
WaitersRejected(f) == [c \in Calls |-> IF f[c] = "waiting" THEN "failing" ELSE f[c]]

\* fail() once: signalFailed, close the pool, disconnect the client, reject the
\* waiters; nothing when the worker has already failed
Fail(callsNow) ==
  IF failed
  THEN /\ call' = callsNow
       /\ UNCHANGED <<poolVars, failed, signals, link>>
  ELSE /\ failed' = TRUE
       /\ signals' = Append(signals, "failed")
       /\ link' = IF link = "serving" THEN "gone" ELSE link
       /\ call' = WaitersRejected(callsNow)
       /\ IF link = "serving" /\ tls # "off" THEN ClosePool ELSE UNCHANGED poolVars

\* topology.stale after ready
StaleEvent ==
  /\ Quiet /\ link = "serving"
  /\ Fail(call)
  /\ UNCHANGED <<tls, memoCalls, callHost, limit, slots, boot, loop, hop, onTunnel, tunnels, attempt, traps, memo,
                 lies, acquires>>

-----------------------------------------------------------------------------
(* boot() *)

bootRest == <<tls, memoCalls, callHost, limit, slots, hop, onTunnel, tunnels, attempt, traps, memo, lies, acquires>>

BootFails(at) ==
  /\ Quiet /\ boot = at
  /\ boot' = "over"
  /\ Fail(call)
  /\ UNCHANGED <<bootRest, loop>>

\* Snapshot, bootstrap, config and platform are checked without an await
BootChecks ==
  /\ boot = "start"
  /\ boot' = "wasm"
  /\ UNCHANGED <<poolVars, bootRest, link, failed, signals, loop, call>>

\* The modules are loaded; acceptLoop() starts before the client connects
ModulesLoad ==
  /\ boot = "wasm" \/ boot = "tls"
  /\ IF boot = "wasm" /\ tls # "off"
     THEN boot' = "tls" /\ UNCHANGED loop
     ELSE boot' = "storage" /\ loop' = "slot"
  /\ UNCHANGED <<poolVars, bootRest, link, failed, signals, call>>

\* The caches are read (a bad cache is ignored), or a back-off ended: the top of
\* the loop of connectWithRetries()
ConnectStarts ==
  /\ Quiet /\ boot \in {"storage", "sleeping"}
  /\ boot' = IF failed THEN "over" ELSE "connecting"
  /\ UNCHANGED <<poolVars, bootRest, link, failed, signals, loop, call>>

\* A transient connect error; one that returns after the worker failed
ConnectFails ==
  /\ Quiet /\ boot = "connecting"
  /\ boot' = IF failed THEN "over" ELSE "sleeping"
  /\ UNCHANGED <<poolVars, bootRest, link, failed, signals, loop, call>>

\* connect() resolves: a client that nobody wants any more is disconnected
Connected(warmup) ==
  /\ Quiet /\ boot = "connecting" /\ (failed \/ warmup)
  /\ IF failed THEN link' = "gone" /\ boot' = "over" ELSE link' = "booting" /\ boot' = "warming"
  /\ UNCHANGED <<poolVars, bootRest, failed, signals, loop, call>>

\* A defect: the worker that failed during the warm-up becomes ready
ReadyUnchecked ==
  /\ Quiet /\ (boot = "warming" \/ (boot = "connecting" /\ ~failed))
  /\ link' = "serving" /\ boot' = "ready"
  /\ signals' = Append(signals, "ready")
  /\ call' = [c \in Calls |-> IF call[c] = "waiting" THEN "woken" ELSE call[c]]
  /\ UNCHANGED <<poolVars, bootRest, failed, loop>>

\* The end of boot(), after the warm-up echo or at once
Ready ==
  /\ Quiet /\ (boot = "warming" \/ (boot = "connecting" /\ ~failed))
  /\ IF failed
     THEN link' = "gone" /\ boot' = "over" /\ UNCHANGED <<signals, call>>
     ELSE /\ link' = "serving" /\ boot' = "ready"
          /\ signals' = Append(signals, "ready")
          /\ call' = [c \in Calls |-> IF call[c] = "waiting" THEN "woken" ELSE call[c]]
  /\ UNCHANGED <<poolVars, bootRest, failed, loop>>

BootStep ==
  \/ BootChecks \/ ModulesLoad \/ ConnectStarts \/ ConnectFails \/ Ready
  \/ \E warmup \in BOOLEAN : Connected(warmup)
  \/ \E at \in {"start", "wasm", "tls"} : BootFails(at)
  \/ (~failed /\ BootFails("connecting"))

-----------------------------------------------------------------------------
(* acceptLoop() *)

loopRest == <<tls, memoCalls, callHost, limit, boot, hop, onTunnel, tunnels, attempt, traps, memo, lies, acquires>>

LoopTakesSlot ==
  /\ Quiet /\ loop = "slot" /\ slots > 0
  /\ slots' = slots - 1
  /\ loop' = IF failed THEN "over" ELSE "accept"
  /\ UNCHANGED <<poolVars, loopRest, link, failed, signals, call>>

\* acceptCall() brings a fetch (even after the worker failed), or an unknown kind
CallArrives(c) ==
  /\ Quiet /\ loop = "accept" /\ call[c] = "none"
  /\ call' = [call EXCEPT ![c] = "preparing"]
  /\ loop' = "slot"
  /\ UNCHANGED <<poolVars, loopRest, slots, link, failed, signals>>

UnknownKind ==
  /\ Quiet /\ loop = "accept"
  /\ slots' = slots + 1 /\ loop' = "slot"
  /\ UNCHANGED <<poolVars, loopRest, link, failed, signals, call>>

\* acceptCall() rejects: the worker can serve no more and fails
AcceptRejects ==
  /\ Quiet /\ loop = "accept"
  /\ slots' = slots + 1 /\ loop' = "over"
  /\ Fail(call)
  /\ UNCHANGED loopRest

-----------------------------------------------------------------------------
(* handleFetch() *)

To(c, p) == call' = [call EXCEPT ![c] = p]
callRest == <<tls, memoCalls, callHost, limit, slots, boot, link, failed, signals, loop, traps, memo>>

\* A memo answer that two requests agreed on is served at once; else waitReady()
Prepared(c) ==
  /\ Quiet /\ call[c] = "preparing"
  /\ To(c, IF c \in memoCalls /\ memo.confirmations >= 2 THEN "local"
           ELSE IF link = "serving" THEN "woken"
           ELSE IF failed THEN "failing" ELSE "waiting")
  /\ UNCHANGED <<poolVars, callRest, hop, onTunnel, tunnels, attempt, lies, acquires>>

callFailRest == <<poolVars, callRest, hop, onTunnel, tunnels, attempt, lies, acquires>>

\* prepareRequest() rejects: its URL, method, header or body is refused
RequestRefused(c) ==
  /\ Quiet /\ call[c] = "preparing"
  /\ To(c, "failing")
  /\ UNCHANGED callFailRest

\* The host aborts, or the deadline passes, before the first hop
CallGivenUp(c) ==
  /\ Quiet /\ call[c] \in {"preparing", "waiting", "woken"}
  /\ To(c, "failing")
  /\ UNCHANGED callFailRest

\* The SDK client rejects a plaintext hop (mapClientError), or its signal aborts
HopFails(c) ==
  /\ Quiet /\ call[c] = "http"
  /\ To(c, "failing")
  /\ UNCHANGED callFailRest

\* finishResponse() refuses the reply: truncated, too large, or corrupt when
\* inflated; or a redirect is refused
ReplyRefused(c) ==
  /\ Quiet /\ call[c] = "replied"
  /\ To(c, "failing")
  /\ UNCHANGED callFailRest

\* A defect: a hop after a tunnel hop is chosen like the first
TransportAnew(c, url, given) ==
  IF ~given \/ tls = "off" THEN "http"
  ELSE IF url = "https" /\ exits # {} THEN "tunnel"
  ELSE IF tls = "preferred" THEN "http"
  ELSE "failing"

\* chooseTransport(); url: what tunnelTarget() says of the hop's URL
Transport(c, url, given) ==
  IF ~given \/ (tls = "off" /\ ~onTunnel[c]) THEN "http"
  ELSE IF url = "https" /\ exits # {} THEN "tunnel"
  ELSE IF ~onTunnel[c] /\ tls = "preferred" THEN "http"
  ELSE "failing"

\* sendPrepared() up to the first await of a hop; the first hop takes the
\* TlsTransport that the worker has now
Hop(c, url) ==
  /\ Quiet /\ call[c] \in {"woken", "redirect"}
  /\ LET given == IF call[c] = "woken" THEN link = "serving" /\ tls # "off" ELSE tunnels[c]
     IN /\ tunnels' = [tunnels EXCEPT ![c] = given]
        /\ To(c, Transport(c, url, given))
  /\ attempt' = [attempt EXCEPT ![c] = 0]
  /\ UNCHANGED <<poolVars, callRest, hop, onTunnel, lies, acquires>>

\* The SDK client answers a plaintext hop; a disconnected one never does
HttpReplies(c) ==
  /\ Quiet /\ call[c] = "http" /\ link = "serving"
  /\ To(c, "replied")
  /\ UNCHANGED <<poolVars, callRest, hop, onTunnel, tunnels, attempt, lies, acquires>>

\* TlsTransport.exchange(): pool.acquire() ...
AcquireStarts(c) ==
  /\ call[c] = "tunnel"
  /\ Acquire(c, callHost[c])
  /\ To(c, "acquiring")
  /\ acquires' = acquires + 1
  /\ UNCHANGED <<callRest, hop, onTunnel, tunnels, attempt, lies>>

\* ... rejects ...
AcquireRejects(c) ==
  /\ Quiet /\ call[c] = "acquiring" /\ stage[c] = "idle"
  /\ To(c, "failing")
  /\ UNCHANGED <<poolVars, callRest, hop, onTunnel, tunnels, attempt, lies, acquires>>

\* ... or the request has its reply on the session ...
TunnelReplies(c, usable) ==
  /\ call[c] = "acquiring" /\ stage[c] = "using" /\ ses[chan[c]].st = "open"
  /\ Release(c, usable)
  /\ To(c, "replied")
  /\ onTunnel' = [onTunnel EXCEPT ![c] = TRUE]
  /\ UNCHANGED <<callRest, hop, tunnels, attempt, lies, acquires>>

\* ... or fails: once, a request that may be repeated gets a new session
TunnelFails(c, again) ==
  /\ call[c] = "acquiring"
  /\ again => attempt[c] = 0 /\ acquires < MaxAcquires
  /\ Release(c, FALSE)
  /\ To(c, IF again THEN "tunnel" ELSE "failing")
  /\ attempt' = [attempt EXCEPT ![c] = 1]
  /\ UNCHANGED <<callRest, hop, onTunnel, tunnels, lies, acquires>>

\* The reply is a redirect: the next hop, or too many
Redirected(c) ==
  /\ Quiet /\ call[c] = "replied" /\ acquires < MaxAcquires
  /\ IF hop[c] < MaxHops
     THEN To(c, "redirect") /\ hop' = [hop EXCEPT ![c] = @ + 1]
     ELSE To(c, "failing") /\ UNCHANGED hop
  /\ UNCHANGED <<poolVars, callRest, onTunnel, tunnels, attempt, lies, acquires>>

-----------------------------------------------------------------------------
(* The end of a call, and LocalAnswers *)

\* A defect: any second answer confirms the first
ObservedAny(v) ==
  IF memo = NoMemo THEN [value |-> v, confirmations |-> 1]
  ELSE [memo EXCEPT !.confirmations = IF @ < 2 THEN @ + 1 ELSE @]

\* observe(): a second matching answer confirms, a different one removes
Observed(v) ==
  IF memo = NoMemo THEN [value |-> v, confirmations |-> 1]
  ELSE IF memo.value = v THEN [memo EXCEPT !.confirmations = IF @ < 2 THEN @ + 1 ELSE @]
  ELSE NoMemo

Results == IF lies < MaxLies THEN {"right", "wrong"} ELSE {"right"}

\* What a call knew of its hops is gone with it
Forget(c) ==
  /\ hop' = [hop EXCEPT ![c] = 0] /\ attempt' = [attempt EXCEPT ![c] = 0]
  /\ onTunnel' = [onTunnel EXCEPT ![c] = FALSE] /\ tunnels' = [tunnels EXCEPT ![c] = FALSE]

\* finally of handleFetch(): the slot is free, and the pool may open spares
CallEnds(c, poolLives) ==
  /\ slots' = slots + 1
  /\ IF poolLives /\ tls # "off" THEN EnableBackground ELSE UNCHANGED poolVars

\* A call is answered from memory
AnswerLocally(c) ==
  /\ Quiet /\ call[c] = "local"
  /\ To(c, "answered")
  /\ CallEnds(c, link = "serving")
  /\ UNCHANGED <<tls, memoCalls, callHost, limit, boot, link, failed, signals, loop, hop, onTunnel, tunnels, attempt,
                 traps, memo, lies, acquires>>

\* The final reply; the first answer of a memo method is verified by another
\* request in the background
Answer(c, v) ==
  /\ Quiet /\ call[c] = "replied"
  /\ LET verify == c \in memoCalls /\ memo = NoMemo
     IN /\ IF verify
           THEN \E d \in Verifications :
                  /\ call[d] \in {"none", "answered"}
                  /\ call' = [call EXCEPT ![c] = "answered", ![d] = "woken"]
           ELSE To(c, "answered")
        /\ IF c \in memoCalls \cup Verifications
           THEN memo' = Observed(v) /\ lies' = IF v = "wrong" THEN lies + 1 ELSE lies
           ELSE v = "right" /\ UNCHANGED <<memo, lies>>
  /\ IF c \in WalletCalls THEN CallEnds(c, link = "serving") ELSE UNCHANGED <<poolVars, slots>>
  /\ Forget(c)
  /\ UNCHANGED <<tls, memoCalls, callHost, limit, boot, link, failed, signals, loop, traps, acquires>>

\* The call rejects; a WebAssembly trap counts within its window, and the third
\* fails the worker
Reject(c, trap) ==
  /\ Quiet /\ call[c] = "failing"
  /\ c \in Verifications => ~trap
  /\ LET now == [call EXCEPT ![c] = "answered"]
     IN \E kept \in IF trap /\ ~failed THEN 0..traps ELSE {traps} :
          /\ traps' = IF trap /\ ~failed THEN kept + 1 ELSE traps
          /\ IF trap /\ kept + 1 >= TrapLimit /\ ~failed
             THEN Fail(now) /\ slots' = slots + 1
             ELSE /\ call' = now /\ UNCHANGED <<link, failed, signals>>
                  /\ IF c \in WalletCalls THEN CallEnds(c, link = "serving")
                     ELSE UNCHANGED <<poolVars, slots>>
  /\ Forget(c)
  /\ UNCHANGED <<tls, memoCalls, callHost, limit, boot, loop, memo, lies, acquires>>

-----------------------------------------------------------------------------

\* A topology refresh changes which exits relay tunnels
ExitsChange ==
  /\ Quiet /\ link = "serving"
  /\ \E new \in SUBSET Exits : exits' = new
  /\ UNCHANGED <<mode, background, poolClosed, skipped, ses, stage, chan, spares, spareHosts,
                 lastCalled, deferred, pooled, workerVars>>

CallStep(c) ==
  \/ Prepared(c) \/ RequestRefused(c) \/ CallGivenUp(c) \/ HopFails(c) \/ ReplyRefused(c)
  \/ HttpReplies(c) \/ AcquireRejects(c) \/ Redirected(c)
  \/ AnswerLocally(c) \/ AcquireStarts(c)
  \/ \E url \in {"https", "other"} : Hop(c, url)
  \/ \E usable \in BOOLEAN : TunnelReplies(c, usable)
  \/ \E again \in BOOLEAN : TunnelFails(c, again)
  \/ \E v \in Results : Answer(c, v)
  \/ \E trap \in BOOLEAN : Reject(c, trap)

LoopStep ==
  \/ LoopTakesSlot \/ UnknownKind \/ AcceptRejects
  \/ \E c \in WalletCalls : CallArrives(c)

Next ==
  \/ BootStep \/ LoopStep \/ StaleEvent \/ ExitsChange
  \/ \E c \in Calls : CallStep(c)
  \/ PoolStep /\ UNCHANGED workerVars

Spec == Init /\ [][Next]_vars

\* Every await of a call ends by its deadline, every open it waits for by its
\* timeouts, and the microtask of a landed open runs.  Nothing is assumed of the
\* host (calls, aborts), of timers that only tidy up, of spares nobody waits for,
\* or of what an exit answers.  A call takes finitely many steps, so that weak
\* fairness of all calls together is weak fairness of each.
CallProgress ==
  \/ \E c \in Calls : CallStep(c)
  \/ /\ \E c \in Calls : \/ OwnOpened(c) \/ WaitResumes(c)
                         \/ stage[c] \in {"opening", "waiting"} /\ OpenFails(chan[c])
                         \/ stage[c] \in {"opening", "waiting"} /\ HandshakeFails(chan[c], "fatal")
     /\ UNCHANGED workerVars
Fairness == WF_vars(CallProgress)
FairSpec == Spec /\ Fairness

-----------------------------------------------------------------------------

SlotsExact ==
  slots + Cardinality(Unfinished)
        + (IF loop = "accept" \/ (loop = "over" /\ slots + Cardinality(Unfinished) < limit)
           THEN 1 ELSE 0) = limit

\* Sessions and slots are accounted for.  Every handshaken TLS session has exactly
\* one owner that will end it (the call that uses it, the spares of its host, the
\* keep-alive map), and the spares keep their limits: see SessionsOwned and
\* SparesBounded.  Slots are counted exactly: one per unfinished call and one while
\* the loop waits in acceptCall(); one lost on an exit of handleFetch() would stop
\* the worker after maxConcurrentCalls such calls
ResourcesCounted == SessionsOwned /\ SparesBounded /\ SlotsExact

\* A failed worker leaves nothing behind: no call waits for a client that will
\* not come, no client serves or outlives boot(), and the host hears of the
\* failure once, never followed by ready, whichever of boot(), the accept loop,
\* a stale topology or a trap failed it
FailedLeavesNothing ==
  /\ failed => /\ \A c \in Calls : call[c] # "waiting"
               /\ link # "serving"
               /\ boot \in {"over", "ready"} => link # "booting"
  /\ signals \in {<<>>, <<"ready">>, <<"failed">>, <<"ready", "failed">>}
  /\ failed <=> "failed" \in ToSet(signals)

\* A hop leaves in plaintext only where the TLS setting allows it, and never
\* after a hop of the same call used a tunnel, whatever exits come and go between
\* the hops; a worker that failed meanwhile has no client to send it on
NoDowngrade ==
  [][\A c \in Calls : call[c] # "http" /\ call'[c] = "http" /\ link' = "serving"
                        => tls # "required" /\ ~onTunnel[c]]_vars

\* With one wrong result among the exits' answers, a result that is served from
\* memory is the right one: it takes two requests that agree, and the
\* verification, other calls and disagreements arrive in any order
MemoTrue == memo.confirmations >= 2 /\ MaxLies <= 1 => memo.value = "right"

\* Every call that was accepted is answered, before and after the worker is
\* ready, failing or failed, and whatever becomes of the sessions it waits for
\* (each of finitely many calls comes once, so from some time on none is open)
CallsAnswered == <>[](Unfinished = {})

=============================================================================
