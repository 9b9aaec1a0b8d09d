---------------------------- MODULE WorkerProofs ----------------------------
(***************************************************************************)
(* Proofs about Worker, for any number of calls, hosts and exits, any TLS  *)
(* setting and any limit: what a failed worker leaves behind, which hops   *)
(* may leave in plaintext, which memo answers are served, that no call     *)
(* slot is lost, and, of its TLS pool, that every session has one owner    *)
(* and the spares keep their limits.  All but the last rest on the         *)
(* worker's own control alone: the pool may do anything there.             *)
(***************************************************************************)
EXTENDS Worker, FiniteSetTheorems, SequenceTheorems, WellFoundedInduction, TLAPS

\* The calls that have done nothing yet, and those that have a client to use.
FreshStages == {"none", "preparing", "local", "waiting", "woken", "answered"}
HopStages == {"http", "tunnel", "acquiring", "replied", "redirect"}
CallStages == FreshStages \cup HopStages \cup {"failing"}

WorkerTyped ==
  /\ call \in [Calls -> CallStages]
  /\ onTunnel \in [Calls -> BOOLEAN] /\ tunnels \in [Calls -> BOOLEAN]
  /\ tls \in {"off", "preferred", "required"} /\ memoCalls \subseteq MemoCalls
  /\ link \in {"none", "booting", "serving", "gone"} /\ failed \in BOOLEAN
  /\ loop \in {"none", "slot", "accept", "over"}
  /\ slots \in Nat /\ limit \in Nat

\* Where boot() is, what became of the client, and what the host was told.
LinkInv ==
  /\ boot = "warming" <=> link = "booting"
  /\ boot = "ready" => link \in {"serving", "gone"}
  /\ link = "serving" => boot = "ready" /\ ~failed
  /\ link = "gone" => boot \in {"ready", "over"} /\ failed
  /\ signals = IF boot = "ready" THEN (IF failed THEN <<"ready", "failed">> ELSE <<"ready">>)
               ELSE (IF failed THEN <<"failed">> ELSE <<>>)

\* A call waits only for a worker that may still become ready; it goes on only
\* with a client; it uses tunnels only when it was given them, and is denied
\* them only without TLS or once the client is gone.
Fits(c, at, used, given, client, isFailed) ==
  /\ at = "waiting" => ~isFailed
  /\ at \in HopStages \cup {"woken"} => client \in {"serving", "gone"}
  /\ at \in FreshStages => ~used /\ ~given
  /\ at \in {"tunnel", "acquiring"} \/ used => given
  /\ at \in HopStages /\ ~given => tls = "off" \/ client = "gone"
  /\ at = "local" => c \in memoCalls
CallOK(c) == Fits(c, call[c], onTunnel[c], tunnels[c], link, failed)
CallsOK == \A c \in Calls : CallOK(c)

\* A wrong result has no more confirmations than wrong results were returned.
MemoInv ==
  /\ memo \in [value : {"none", "right", "wrong"}, confirmations : Nat]
  /\ memo.value = "none" <=> memo = NoMemo
  /\ lies \in Nat /\ lies <= MaxLies
  /\ memo.value = "wrong" => memo.confirmations <= lies

WorkerInv == WorkerTyped /\ LinkInv /\ CallsOK

-----------------------------------------------------------------------------
(* What a step may do to the client                                        *)

\* fail() once.
FailsNow ==
  /\ ~failed /\ failed' = TRUE /\ signals' = Append(signals, "failed")
  /\ link' = IF link = "serving" THEN "gone" ELSE link

\* A client that served serves or is gone for good.
LinkMove ==
  /\ failed' \in BOOLEAN /\ link' \in {"none", "booting", "serving", "gone"}
  /\ LinkInv'
  /\ link \in {"serving", "gone"} => link' \in {"serving", "gone"}
  /\ link = "gone" => link' = "gone"

\* fail(), in the words of the two definitions above.
LEMMA FailCases ==
  ASSUME NEW now, Fail(now)
  PROVE  \/ failed /\ UNCHANGED <<failed, signals, link>> /\ call' = now
         \/ FailsNow /\ call' = WaitersRejected(now)
BY DEF Fail, FailsNow

\* Where boot() is while it has no client.
Clientless == {"start", "wasm", "tls", "storage", "connecting", "sleeping"}

\* A step that leaves the client alone.
LEMMA LinkStays ==
  ASSUME WorkerInv, UNCHANGED <<link, failed, signals>>,
         boot' = boot \/ (boot \in Clientless /\ boot' \in Clientless \cup {"over"})
  PROVE  LinkMove
BY DEF WorkerInv, WorkerTyped, LinkInv, LinkMove, Clientless

\* fail(), from boot() itself or from elsewhere.
LEMMA FailMoves ==
  ASSUME WorkerInv, FailsNow,
         boot' = boot \/ (boot \in Clientless /\ boot' = "over")
  PROVE  LinkMove
<1>1. ~failed /\ failed' = TRUE /\ link \in {"none", "booting", "serving", "gone"}
  BY DEF FailsNow, WorkerInv, WorkerTyped
<1>2. signals' = IF boot = "ready" THEN <<"ready", "failed">> ELSE <<"failed">>
  BY DEF FailsNow, WorkerInv, LinkInv
<1> QED
  BY <1>1, <1>2 DEF FailsNow, WorkerInv, LinkInv, LinkMove, Clientless

-----------------------------------------------------------------------------
(* The calls                                                               *)

bystanders == <<tls, memoCalls, limit, boot, link, failed, signals, loop>>

\* A step keeps what fits, unless it fails the worker while the call waits.
LEMMA FitsOn ==
  ASSUME WorkerInv, LinkMove, UNCHANGED <<tls, memoCalls>>, NEW c \in Calls,
         NEW at, NEW used, NEW given, Fits(c, at, used, given, link, failed), at = "waiting" => ~failed'
  PROVE  Fits(c, at, used, given, link', failed')
BY DEF Fits, LinkMove

\* A step of one call that leaves the client, the loop and the slots alone.
LEMMA OneCallStep ==
  ASSUME WorkerInv, UNCHANGED <<bystanders, slots>>, NEW c \in Calls,
         NEW at \in CallStages, NEW used \in BOOLEAN, NEW given \in BOOLEAN,
         Fits(c, at, used, given, link, failed),
         call' = [call EXCEPT ![c] = at], onTunnel' = [onTunnel EXCEPT ![c] = used],
         tunnels' = [tunnels EXCEPT ![c] = given]
  PROVE  WorkerInv'
<1>1. LinkMove
  BY LinkStays DEF bystanders
<1>2. WorkerTyped'
  BY DEF WorkerInv, WorkerTyped, bystanders
<1>3. ASSUME NEW d \in Calls PROVE CallOK(d)'
  <2>1. Fits(d, call'[d], onTunnel'[d], tunnels'[d], link, failed)
    BY DEF WorkerInv, WorkerTyped, CallsOK, CallOK
  <2> QED
    BY <2>1 DEF Fits, CallOK, bystanders
<1> QED
  BY <1>1, <1>2, <1>3 DEF WorkerInv, CallsOK, LinkMove

\* The same, when the call's hops keep their record.
LEMMA OneCallMoves ==
  ASSUME WorkerInv, UNCHANGED <<bystanders, slots, onTunnel, tunnels>>, NEW c \in Calls,
         NEW at \in CallStages, Fits(c, at, onTunnel[c], tunnels[c], link, failed),
         call' = [call EXCEPT ![c] = at]
  PROVE  WorkerInv'
<1>1. /\ onTunnel' = [onTunnel EXCEPT ![c] = onTunnel[c]] /\ onTunnel[c] \in BOOLEAN
      /\ tunnels' = [tunnels EXCEPT ![c] = tunnels[c]] /\ tunnels[c] \in BOOLEAN
  BY DEF WorkerInv, WorkerTyped
<1> QED
  BY <1>1, OneCallStep

\* A failing call needs nothing.
LEMMA FailingFits ==
  ASSUME WorkerInv, NEW c \in Calls
  PROVE  Fits(c, "failing", onTunnel[c], tunnels[c], link, failed) /\ "failing" \in CallStages
BY DEF WorkerInv, CallsOK, CallOK, Fits, FreshStages, HopStages, CallStages

\* The steps of a call between its arrival and its end.
LEMMA CallMoves ==
  ASSUME WorkerInv, NEW c \in Calls,
         \/ Prepared(c) \/ RequestRefused(c) \/ CallGivenUp(c) \/ HopFails(c) \/ ReplyRefused(c)
         \/ HttpReplies(c) \/ AcquireRejects(c) \/ Redirected(c) \/ AcquireStarts(c)
         \/ \E again \in BOOLEAN : TunnelFails(c, again)
  PROVE  WorkerInv'
<1> USE DEF FreshStages, HopStages, CallStages
<1>1. UNCHANGED <<bystanders, slots, onTunnel, tunnels>>
  BY DEF Prepared, RequestRefused, CallGivenUp, HopFails, ReplyRefused, HttpReplies,
     AcquireRejects, Redirected, AcquireStarts, TunnelFails, callRest, callFailRest, bystanders
<1>2. CallOK(c) /\ onTunnel[c] \in BOOLEAN /\ tunnels[c] \in BOOLEAN
  BY DEF WorkerInv, CallsOK, WorkerTyped
<1>3. ASSUME To(c, "failing") PROVE WorkerInv'
  BY <1>1, <1>3, FailingFits, OneCallMoves DEF To
<1>4. CASE Prepared(c)
  <2>1. PICK at \in {"local", "woken", "failing", "waiting"} :
          /\ To(c, at)
          /\ at = "local" => c \in memoCalls
          /\ at = "woken" => link = "serving"
          /\ at = "waiting" => ~failed
    BY <1>4 DEF Prepared
  <2>2. Fits(c, at, onTunnel[c], tunnels[c], link, failed)
    BY <1>2, <1>4, <2>1 DEF Prepared, CallOK, Fits
  <2> QED
    BY <1>1, <2>1, <2>2, OneCallMoves DEF To
<1>5. CASE HttpReplies(c) \/ Redirected(c)
  <2>1. PICK at \in {"replied", "redirect", "failing"} : To(c, at)
    BY <1>5 DEF HttpReplies, Redirected
  <2>2. call[c] \in {"http", "replied"}
    BY <1>5 DEF HttpReplies, Redirected
  <2>3. Fits(c, at, onTunnel[c], tunnels[c], link, failed)
    BY <1>2, <2>1, <2>2 DEF CallOK, Fits
  <2> QED
    BY <1>1, <2>1, <2>3, OneCallMoves DEF To
<1>6. CASE AcquireStarts(c) \/ \E again \in BOOLEAN : TunnelFails(c, again)
  <2>1. PICK at \in {"tunnel", "acquiring", "failing"} : To(c, at)
    BY <1>6 DEF AcquireStarts, TunnelFails
  <2>2. call[c] \in {"tunnel", "acquiring"}
    BY <1>6 DEF AcquireStarts, TunnelFails
  <2>3. Fits(c, at, onTunnel[c], tunnels[c], link, failed)
    BY <1>2, <2>1, <2>2 DEF CallOK, Fits
  <2> QED
    BY <1>1, <2>1, <2>3, OneCallMoves DEF To
<1> QED
  BY <1>3, <1>4, <1>5, <1>6 DEF RequestRefused, CallGivenUp, HopFails, ReplyRefused, AcquireRejects

\* The reply of a tunnel hop.
LEMMA TunnelRepliesMoves ==
  ASSUME WorkerInv, NEW c \in Calls, NEW usable, TunnelReplies(c, usable)
  PROVE  WorkerInv'
<1> USE DEF FreshStages, HopStages, CallStages
<1>1. CallOK(c) /\ tunnels[c] \in BOOLEAN /\ call[c] = "acquiring"
  BY DEF WorkerInv, CallsOK, WorkerTyped, TunnelReplies
<1>2. Fits(c, "replied", TRUE, tunnels[c], link, failed)
  BY <1>1 DEF CallOK, Fits
<1>3. /\ UNCHANGED <<bystanders, slots>> /\ call' = [call EXCEPT ![c] = "replied"]
      /\ onTunnel' = [onTunnel EXCEPT ![c] = TRUE] /\ tunnels' = [tunnels EXCEPT ![c] = tunnels[c]]
  BY DEF TunnelReplies, To, callRest, bystanders, WorkerInv, WorkerTyped
<1> QED
  BY <1>1, <1>2, <1>3, OneCallStep

\* sendPrepared(): the hop's transport.
LEMMA HopMoves ==
  ASSUME WorkerInv, NEW c \in Calls, NEW url, Hop(c, url)
  PROVE  WorkerInv'
<1> USE DEF FreshStages, HopStages, CallStages
<1> DEFINE given == IF call[c] = "woken" THEN link = "serving" /\ tls # "off" ELSE tunnels[c]
           at == Transport(c, url, given)
<1>1. CallOK(c) /\ tunnels[c] \in BOOLEAN /\ onTunnel[c] \in BOOLEAN /\ call[c] \in {"woken", "redirect"}
  BY DEF WorkerInv, CallsOK, WorkerTyped, Hop
<1>2. given \in BOOLEAN /\ at \in {"http", "tunnel", "failing"} /\ (at = "tunnel" => given)
  BY <1>1 DEF Transport
<1>3. /\ UNCHANGED <<bystanders, slots>> /\ call' = [call EXCEPT ![c] = at]
      /\ onTunnel' = [onTunnel EXCEPT ![c] = onTunnel[c]] /\ tunnels' = [tunnels EXCEPT ![c] = given]
  <2>1. onTunnel' = [onTunnel EXCEPT ![c] = onTunnel[c]]
    BY DEF Hop, WorkerInv, WorkerTyped
  <2> QED
    BY <2>1 DEF Hop, To, callRest, bystanders
<1>4. /\ link \in {"serving", "gone"} /\ (onTunnel[c] => given)
      /\ ~given => tls = "off" \/ link = "gone"
  BY <1>1 DEF CallOK, Fits
<1> HIDE DEF given, at
<1>5. Fits(c, at, onTunnel[c], given, link, failed)
  BY <1>1, <1>2, <1>4 DEF Fits
<1> QED
  BY <1>1, <1>2, <1>3, <1>5, OneCallStep

-----------------------------------------------------------------------------
(* The end of a call                                                       *)

\* CallEnds and Forget leave the rest of the worker alone.
LEMMA AnswerMoves ==
  ASSUME WorkerInv, NEW c \in Calls, NEW v, AnswerLocally(c) \/ Answer(c, v)
  PROVE  WorkerInv'
<1> USE DEF FreshStages, HopStages, CallStages
<1>1. UNCHANGED bystanders /\ LinkMove
  <2>1. UNCHANGED bystanders
    BY DEF AnswerLocally, Answer, bystanders
  <2> QED
    BY <2>1, LinkStays DEF bystanders
<1>2. slots' = slots \/ slots' = slots + 1
  BY DEF AnswerLocally, Answer, CallEnds
<1>3. /\ call \in [Calls -> CallStages] /\ onTunnel \in [Calls -> BOOLEAN]
      /\ tunnels \in [Calls -> BOOLEAN] /\ slots \in Nat
  BY DEF WorkerInv, WorkerTyped
<1>4. \A d \in Calls : Fits(d, call[d], onTunnel[d], tunnels[d], link, failed)
  BY DEF WorkerInv, CallsOK, CallOK
<1>5. CASE AnswerLocally(c)
  <2>1. call' = [call EXCEPT ![c] = "answered"] /\ UNCHANGED <<onTunnel, tunnels>> /\ call[c] = "local"
    BY <1>5 DEF AnswerLocally, To
  <2>2. WorkerTyped'
    BY <1>1, <1>2, <1>3, <2>1 DEF WorkerInv, WorkerTyped, bystanders
  <2>3. \A d \in Calls : Fits(d, call'[d], onTunnel'[d], tunnels'[d], link, failed)
    BY <1>3, <1>4, <2>1 DEF Fits
  <2>4. CallsOK'
    BY <1>1, <2>3 DEF CallsOK, CallOK, Fits, bystanders
  <2> QED
    BY <1>1, <2>2, <2>4 DEF WorkerInv, LinkMove
<1>6. CASE Answer(c, v)
  <2>1. /\ onTunnel' = [onTunnel EXCEPT ![c] = FALSE] /\ tunnels' = [tunnels EXCEPT ![c] = FALSE]
        /\ call[c] = "replied"
    BY <1>6 DEF Answer, Forget
  <2>2. \/ call' = [call EXCEPT ![c] = "answered"]
        \/ \E d \in Calls \ {c} : /\ call[d] \in {"none", "answered"}
                                  /\ call' = [call EXCEPT ![c] = "answered", ![d] = "woken"]
    <3>1. memoCalls \cap Verifications = {} /\ Verifications \subseteq Calls
      BY WorkerAssumption DEF WorkerInv, WorkerTyped, Verifications
    <3> QED
      BY <1>6, <3>1 DEF Answer, To
  <2>3. link \in {"serving", "gone"}
    BY <1>4, <2>1 DEF Fits
  <2>4. WorkerTyped'
    <3>1. call' \in [Calls -> CallStages]
      BY <1>3, <2>2
    <3>2. onTunnel' \in [Calls -> BOOLEAN] /\ tunnels' \in [Calls -> BOOLEAN]
      BY <1>3, <2>1
    <3>3. slots' \in Nat
      BY <1>2, <1>3
    <3> QED
      BY <1>1, <3>1, <3>2, <3>3 DEF WorkerInv, WorkerTyped, bystanders
  <2>5. ASSUME NEW d \in Calls PROVE Fits(d, call'[d], onTunnel'[d], tunnels'[d], link, failed)
    <3>1. CASE d = c
      BY <1>3, <2>1, <2>2, <3>1 DEF Fits
    <3>2. CASE d # c
      <4>1. onTunnel'[d] = onTunnel[d] /\ tunnels'[d] = tunnels[d]
        BY <1>3, <2>1, <3>2
      <4>2. \/ call'[d] = call[d]
            \/ call'[d] = "woken" /\ call[d] \in {"none", "answered"}
        BY <1>3, <2>2, <3>2
      <4> QED
        BY <1>4, <2>3, <4>1, <4>2 DEF Fits
    <3> QED
      BY <3>1, <3>2
  <2>6. CallsOK'
    BY <1>1, <2>5 DEF CallsOK, CallOK, Fits, bystanders
  <2> QED
    BY <1>1, <2>4, <2>6 DEF WorkerInv, LinkMove
<1> QED
  BY <1>5, <1>6

\* fail() with the calls as they are now: what fitted them fits them still.
LEMMA FailFits ==
  ASSUME WorkerInv, NEW now \in [Calls -> CallStages], Fail(now), LinkMove,
         UNCHANGED <<tls, memoCalls>>, NEW used, NEW given, NEW c \in Calls,
         Fits(c, now[c], used, given, link, failed)
  PROVE  call'[c] \in CallStages /\ Fits(c, call'[c], used, given, link', failed')
<1> USE DEF FreshStages, HopStages, CallStages
<1>1. CASE failed /\ UNCHANGED <<failed, signals, link>> /\ call' = now
  <2>1. now[c] # "waiting"
    BY <1>1 DEF Fits
  <2> QED
    BY <1>1, <2>1, FitsOn
<1>2. CASE FailsNow /\ call' = WaitersRejected(now)
  <2>1. call'[c] = IF now[c] = "waiting" THEN "failing" ELSE now[c]
    BY <1>2 DEF WaitersRejected
  <2>2. Fits(c, call'[c], used, given, link, failed) /\ call'[c] \in CallStages
    BY <2>1 DEF Fits
  <2> QED
    BY <2>1, <2>2, FitsOn
<1> QED
  BY <1>1, <1>2, FailCases

\* fail() by a step that touches no call, or only one that ends.
LEMMA FailStep ==
  ASSUME WorkerInv, NEW now \in [Calls -> CallStages], Fail(now),
         boot' = boot \/ (boot \in Clientless /\ boot' = "over"),
         UNCHANGED <<tls, memoCalls, limit>>, loop' \in {loop, "over"},
         slots' \in {slots, slots + 1},
         onTunnel' \in [Calls -> BOOLEAN], tunnels' \in [Calls -> BOOLEAN],
         \A c \in Calls : Fits(c, now[c], onTunnel'[c], tunnels'[c], link, failed)
  PROVE  WorkerInv'
<1>1. LinkMove
  BY FailCases, FailMoves, LinkStays
<1>2. \A c \in Calls : call'[c] \in CallStages /\ CallOK(c)'
  <2> SUFFICES ASSUME NEW c \in Calls PROVE call'[c] \in CallStages /\ CallOK(c)'
    OBVIOUS
  <2>1. call'[c] \in CallStages /\ Fits(c, call'[c], onTunnel'[c], tunnels'[c], link', failed')
    BY <1>1, FailFits
  <2> QED
    BY <2>1 DEF CallOK, Fits
<1>3. call' = [c \in Calls |-> call'[c]]
  BY FailCases DEF WaitersRejected
<1>4. call' \in [Calls -> CallStages]
  BY <1>2, <1>3
<1>5. WorkerTyped'
  BY <1>1, <1>4 DEF WorkerInv, WorkerTyped, LinkMove
<1> QED
  BY <1>1, <1>2, <1>5 DEF WorkerInv, CallsOK, LinkMove


\* A call rejects, with or without a trap.
LEMMA RejectMoves ==
  ASSUME WorkerInv, NEW c \in Calls, NEW trap, Reject(c, trap)
  PROVE  WorkerInv'
<1> USE DEF FreshStages, HopStages, CallStages
<1> DEFINE now == [call EXCEPT ![c] = "answered"]
<1>1. UNCHANGED <<tls, memoCalls, limit, boot, loop>>
  BY DEF Reject
<1>2. slots' \in {slots, slots + 1}
  BY DEF Reject, CallEnds
<1>3. /\ call \in [Calls -> CallStages] /\ onTunnel \in [Calls -> BOOLEAN]
      /\ tunnels \in [Calls -> BOOLEAN] /\ slots \in Nat
  BY DEF WorkerInv, WorkerTyped
<1>4. onTunnel' = [onTunnel EXCEPT ![c] = FALSE] /\ tunnels' = [tunnels EXCEPT ![c] = FALSE]
  BY DEF Reject, Forget
<1>5. now \in [Calls -> CallStages] /\ onTunnel' \in [Calls -> BOOLEAN] /\ tunnels' \in [Calls -> BOOLEAN]
  BY <1>3, <1>4
<1>6. ASSUME NEW d \in Calls PROVE Fits(d, now[d], onTunnel'[d], tunnels'[d], link, failed)
  <2>1. Fits(d, call[d], onTunnel[d], tunnels[d], link, failed)
    BY DEF WorkerInv, CallsOK, CallOK
  <2>2. CASE d = c
    BY <1>3, <1>4, <2>2 DEF Fits
  <2>3. CASE d # c
    BY <1>3, <1>4, <2>1, <2>3
  <2> QED
    BY <2>2, <2>3
<1>7. Fail(now) \/ (call' = now /\ UNCHANGED <<link, failed, signals>>)
  BY DEF Reject
<1> HIDE DEF now
<1>8. CASE Fail(now)
  BY <1>1, <1>2, <1>5, <1>6, <1>8, FailStep
<1>9. CASE call' = now /\ UNCHANGED <<link, failed, signals>>
  <2>1. LinkMove
    BY <1>1, <1>9, LinkStays
  <2>2. slots' \in Nat
    BY <1>2, <1>3
  <2>3. WorkerTyped'
    BY <1>1, <1>5, <1>9, <2>1, <2>2 DEF WorkerInv, WorkerTyped, LinkMove
  <2>4. CallsOK'
    BY <1>1, <1>6, <1>9 DEF CallsOK, CallOK, Fits
  <2> QED
    BY <2>1, <2>3, <2>4 DEF WorkerInv, LinkMove
<1> QED
  BY <1>7, <1>8, <1>9

-----------------------------------------------------------------------------
(* boot(), the accept loop and the events                                  *)

\* The three ways in which the worker fails between calls.
LEMMA FailureMoves ==
  ASSUME WorkerInv, StaleEvent \/ AcceptRejects \/ \E at \in Clientless : BootFails(at)
  PROVE  WorkerInv'
<1>1. Fail(call) /\ UNCHANGED <<tls, memoCalls, limit, onTunnel, tunnels>>
  BY DEF StaleEvent, AcceptRejects, BootFails, bootRest, loopRest
<1>2. boot' = boot \/ (boot \in Clientless /\ boot' = "over")
  BY DEF StaleEvent, AcceptRejects, BootFails, loopRest
<1>3. loop' \in {loop, "over"} /\ slots' \in {slots, slots + 1}
  BY DEF StaleEvent, AcceptRejects, BootFails, bootRest
<1>4. call \in [Calls -> CallStages] /\ onTunnel' \in [Calls -> BOOLEAN] /\ tunnels' \in [Calls -> BOOLEAN]
  BY <1>1 DEF WorkerInv, WorkerTyped
<1>5. \A c \in Calls : Fits(c, call[c], onTunnel'[c], tunnels'[c], link, failed)
  BY <1>1 DEF WorkerInv, CallsOK, CallOK
<1> QED
  BY <1>1, <1>2, <1>3, <1>4, <1>5, FailStep

\* A step that moves only boot(), the loop or the slots.
LEMMA NoCallMoves ==
  ASSUME WorkerInv, LinkMove, UNCHANGED <<tls, memoCalls, limit, failed, call, onTunnel, tunnels>>,
         loop' \in {"none", "slot", "accept", "over"}, slots' \in Nat
  PROVE  WorkerInv'
<1>1. WorkerTyped'
  BY DEF WorkerInv, WorkerTyped, LinkMove
<1>2. ASSUME NEW c \in Calls PROVE Fits(c, call[c], onTunnel[c], tunnels[c], link', failed')
  <2>1. Fits(c, call[c], onTunnel[c], tunnels[c], link, failed) /\ (call[c] = "waiting" => ~failed')
    BY DEF WorkerInv, CallsOK, CallOK, Fits
  <2> QED
    BY <2>1, FitsOn
<1>3. CallsOK'
  BY <1>2 DEF CallsOK, CallOK, Fits
<1> QED
  BY <1>1, <1>3 DEF WorkerInv, LinkMove

\* boot() becomes ready: the calls that waited go on.
LEMMA ReadyMoves ==
  ASSUME WorkerInv, Ready
  PROVE  WorkerInv'
<1> USE DEF FreshStages, HopStages, CallStages
<1>1. LinkMove /\ UNCHANGED <<tls, memoCalls, limit, failed, onTunnel, tunnels, loop, slots>>
  <2>1. UNCHANGED <<tls, memoCalls, limit, failed, onTunnel, tunnels, loop, slots>>
    BY DEF Ready, bootRest
  <2>2. failed \in BOOLEAN /\ boot \in {"warming", "connecting"} /\ link \notin {"serving", "gone"}
    BY DEF Ready, WorkerInv, WorkerTyped, LinkInv
  <2>3. signals = IF failed THEN <<"failed">> ELSE <<>>
    BY <2>2 DEF WorkerInv, LinkInv
  <2>4. CASE failed
    BY <2>1, <2>2, <2>3, <2>4 DEF Ready, LinkInv, LinkMove
  <2>5. CASE ~failed
    BY <2>1, <2>2, <2>3, <2>5 DEF Ready, LinkInv, LinkMove
  <2> QED
    BY <2>1, <2>4, <2>5
<1>2. CASE failed
  BY <1>1, <1>2, NoCallMoves DEF Ready, WorkerInv, WorkerTyped
<1>3. CASE ~failed
  <2>1. link' = "serving" /\ call' = [c \in Calls |-> IF call[c] = "waiting" THEN "woken" ELSE call[c]]
    BY <1>3 DEF Ready
  <2>2. WorkerTyped'
    BY <1>1, <2>1 DEF WorkerInv, WorkerTyped, LinkMove
  <2>3. ASSUME NEW c \in Calls PROVE Fits(c, call'[c], onTunnel[c], tunnels[c], link', failed')
    <3>1. Fits(c, call[c], onTunnel[c], tunnels[c], link', failed')
      <4>1. Fits(c, call[c], onTunnel[c], tunnels[c], link, failed) /\ (call[c] = "waiting" => ~failed')
        BY <1>1 DEF WorkerInv, CallsOK, CallOK, Fits
      <4> QED
        BY <1>1, <4>1, FitsOn
    <3>2. call'[c] = IF call[c] = "waiting" THEN "woken" ELSE call[c]
      BY <2>1
    <3> QED
      BY <2>1, <3>1, <3>2 DEF Fits
  <2>4. CallsOK'
    BY <1>1, <2>3 DEF CallsOK, CallOK, Fits
  <2> QED
    BY <1>1, <2>2, <2>4 DEF WorkerInv, LinkMove
<1> QED
  BY <1>2, <1>3

\* The other steps of boot() and of the loop, and a change of the exits.
LEMMA QuietMoves ==
  ASSUME WorkerInv,
         \/ BootChecks \/ ModulesLoad \/ ConnectStarts \/ ConnectFails
         \/ \E warmup \in BOOLEAN : Connected(warmup)
         \/ LoopTakesSlot \/ UnknownKind
  PROVE  WorkerInv'
<1>1. UNCHANGED <<tls, memoCalls, limit, failed, call, onTunnel, tunnels>>
  BY DEF BootChecks, ModulesLoad, ConnectStarts, ConnectFails, Connected, LoopTakesSlot, UnknownKind,
     bootRest, loopRest
<1>2. loop' \in {"none", "slot", "accept", "over"} /\ slots' \in Nat
  <2>1. loop \in {"none", "slot", "accept", "over"} /\ slots \in Nat
    BY DEF WorkerInv, WorkerTyped
  <2>2. loop' \in {loop, "slot", "accept", "over"}
    BY DEF BootChecks, ModulesLoad, ConnectStarts, ConnectFails, Connected, LoopTakesSlot, UnknownKind
  <2>3. slots' = slots \/ slots' = slots + 1 \/ (slots > 0 /\ slots' = slots - 1)
    BY DEF BootChecks, ModulesLoad, ConnectStarts, ConnectFails, Connected, LoopTakesSlot, UnknownKind,
       bootRest
  <2>4. slots' \in Nat
    BY <2>1, <2>3
  <2> QED
    BY <2>1, <2>2, <2>4
<1>3. LinkMove
  <2>1. CASE \E warmup \in BOOLEAN : Connected(warmup)
    <3>1. failed \in BOOLEAN /\ boot = "connecting" /\ link \notin {"serving", "gone"}
      BY <2>1 DEF Connected, WorkerInv, WorkerTyped, LinkInv
    <3>2. signals' = signals /\ signals = IF failed THEN <<"failed">> ELSE <<>>
      BY <2>1, <3>1 DEF Connected, WorkerInv, LinkInv
    <3> QED
      BY <1>1, <2>1, <3>1, <3>2 DEF Connected, LinkInv, LinkMove
  <2>2. CASE BootChecks \/ ModulesLoad \/ ConnectStarts \/ ConnectFails \/ LoopTakesSlot \/ UnknownKind
    <3>1. UNCHANGED <<link, failed, signals>>
      BY <2>2 DEF BootChecks, ModulesLoad, ConnectStarts, ConnectFails, LoopTakesSlot, UnknownKind
    <3>2. boot' = boot \/ (boot \in Clientless /\ boot' \in Clientless \cup {"over"})
      BY <2>2 DEF BootChecks, ModulesLoad, ConnectStarts, ConnectFails, LoopTakesSlot, UnknownKind,
         loopRest, Clientless
    <3> QED
      BY <3>1, <3>2, LinkStays
  <2> QED
    BY <2>1, <2>2
<1> QED
  BY <1>1, <1>2, <1>3, NoCallMoves

\* A call arrives.
LEMMA ArrivalMoves ==
  ASSUME WorkerInv, NEW c \in Calls, CallArrives(c)
  PROVE  WorkerInv'
<1> USE DEF FreshStages, HopStages, CallStages
<1>1. /\ UNCHANGED <<tls, memoCalls, limit, boot, link, failed, signals, slots, onTunnel, tunnels>>
      /\ call' = [call EXCEPT ![c] = "preparing"] /\ call[c] = "none" /\ loop' = "slot"
  BY DEF CallArrives, loopRest
<1>2. LinkMove
  BY <1>1, LinkStays
<1>3. WorkerTyped'
  BY <1>1 DEF WorkerInv, WorkerTyped
<1>4. ASSUME NEW d \in Calls PROVE Fits(d, call'[d], onTunnel[d], tunnels[d], link, failed)
  <2>1. Fits(d, call[d], onTunnel[d], tunnels[d], link, failed)
    BY DEF WorkerInv, CallsOK, CallOK
  <2>2. call'[d] = IF d = c THEN "preparing" ELSE call[d]
    BY <1>1 DEF WorkerInv, WorkerTyped
  <2> QED
    BY <1>1, <2>1, <2>2 DEF Fits
<1>5. CallsOK'
  BY <1>1, <1>4 DEF CallsOK, CallOK, Fits
<1> QED
  BY <1>2, <1>3, <1>5 DEF WorkerInv, LinkMove

-----------------------------------------------------------------------------
(* The invariant                                                           *)

LEMMA InitWorkerInv ==
  ASSUME Init
  PROVE  WorkerInv
<1> USE DEF FreshStages, HopStages, CallStages
<1>1. WorkerTyped
  <2>1. slots \in Nat /\ limit \in Nat
    BY WorkerAssumption DEF Init
  <2> QED
    BY <2>1 DEF Init, WorkerTyped
<1>2. LinkInv
  BY DEF Init, LinkInv
<1>3. CallsOK
  BY DEF Init, CallsOK, CallOK, Fits
<1> QED
  BY <1>1, <1>2, <1>3 DEF WorkerInv

\* The rest of the worker when only the pool or the exits move.
LEMMA WorkerStands ==
  ASSUME WorkerInv, UNCHANGED workerVars
  PROVE  WorkerInv'
<1>1. UNCHANGED <<bystanders, slots, call, onTunnel, tunnels>>
  BY DEF workerVars, bystanders
<1>2. LinkMove
  BY <1>1, LinkStays DEF bystanders
<1> QED
  BY <1>1, <1>2, NoCallMoves DEF WorkerInv, WorkerTyped, bystanders

LEMMA NextWorkerInv ==
  ASSUME WorkerInv, [Next]_vars
  PROVE  WorkerInv'
<1>1. CASE BootStep
  BY <1>1, QuietMoves, ReadyMoves, FailureMoves DEF BootStep, Clientless
<1>2. CASE LoopStep
  BY <1>2, WorkerAssumption, QuietMoves, FailureMoves, ArrivalMoves DEF LoopStep
<1>3. CASE StaleEvent
  BY <1>3, FailureMoves
<1>4. CASE ExitsChange \/ (PoolStep /\ UNCHANGED workerVars) \/ UNCHANGED vars
  BY <1>4, WorkerStands DEF ExitsChange, vars, workerVars
<1>5. ASSUME NEW c \in Calls, CallStep(c) PROVE WorkerInv'
  <2>1. CASE \E url \in {"https", "other"} : Hop(c, url)
    BY <2>1, HopMoves
  <2>2. CASE \E usable \in BOOLEAN : TunnelReplies(c, usable)
    BY <2>2, TunnelRepliesMoves
  <2>3. CASE AnswerLocally(c) \/ \E v \in Results : Answer(c, v)
    BY <2>3, AnswerMoves
  <2>4. CASE \E trap \in BOOLEAN : Reject(c, trap)
    BY <2>4, RejectMoves
  <2> QED
    BY <1>5, <2>1, <2>2, <2>3, <2>4, CallMoves DEF CallStep
<1> QED
  BY <1>1, <1>2, <1>3, <1>4, <1>5 DEF Next

\* Where boot(), the client, the signals and every call stand, in every state.
THEOREM WorkerInvariant == Spec => []WorkerInv
<1>1. Init => WorkerInv
  BY InitWorkerInv
<1>2. WorkerInv /\ [Next]_vars => WorkerInv'
  BY NextWorkerInv
<1> QED
  BY <1>1, <1>2, PTL DEF Spec

\* fail(), shutdown() and boot(): a failed worker has no waiting call and no
\* client that serves or that boot() forgot, and the host hears of the failure
\* once and never of ready after it.
THEOREM FailureIsClean == Spec => []FailedLeavesNothing
<1>1. ASSUME WorkerInv PROVE FailedLeavesNothing
  <2>1. failed => \A c \in Calls : call[c] # "waiting"
    BY <1>1 DEF WorkerInv, CallsOK, CallOK, Fits
  <2>2. failed => link # "serving" /\ (boot \in {"over", "ready"} => link # "booting")
    BY <1>1 DEF WorkerInv, LinkInv
  <2>3. failed \in BOOLEAN
    BY <1>1 DEF WorkerInv, WorkerTyped
  <2>4. \/ failed /\ signals \in {<<"failed">>, <<"ready", "failed">>}
        \/ ~failed /\ signals \in {<<>>, <<"ready">>}
    BY <1>1, <2>3 DEF WorkerInv, LinkInv
  <2>5. /\ ToSet(<<>>) = {} /\ ToSet(<<"ready">>) = {"ready"} /\ "failed" \in ToSet(<<"failed">>)
        /\ "failed" \in ToSet(<<"ready", "failed">>)
    BY DEF ToSet
  <2>6. failed <=> "failed" \in ToSet(signals)
    <3>1. CASE failed
      BY <2>4, <2>5, <3>1
    <3>2. CASE ~failed
      <4>1. "failed" # "ready"
        OBVIOUS
      <4> QED
        BY <2>4, <2>5, <3>2, <4>1
    <3> QED
      BY <3>1, <3>2
  <2> QED
    BY <2>1, <2>2, <2>4, <2>6 DEF FailedLeavesNothing
<1> QED
  BY <1>1, WorkerInvariant, PTL

-----------------------------------------------------------------------------
(* Plaintext hops                                                          *)

\* Only a hop whose transport is chosen makes a call leave in plaintext.
LEMMA OnlyHopsSend ==
  ASSUME WorkerInv, [Next]_vars, NEW c \in Calls, call[c] # "http", call'[c] = "http"
  PROVE  \E url \in {"https", "other"} : Hop(c, url)
<1>1. call \in [Calls -> CallStages]
  BY DEF WorkerInv, WorkerTyped
<1>2. ASSUME UNCHANGED call PROVE FALSE
  BY <1>2
<1>3. ASSUME NEW now \in [Calls -> CallStages], Fail(now), now[c] # "http" PROVE FALSE
  BY <1>3, FailCases DEF WaitersRejected
<1>4. CASE BootStep
  BY <1>1, <1>2, <1>3, <1>4 DEF BootStep, BootChecks, ModulesLoad, ConnectStarts, ConnectFails, Connected,
     Ready, BootFails
<1>5. CASE LoopStep
  BY <1>1, <1>2, <1>3, <1>5 DEF LoopStep, LoopTakesSlot, UnknownKind, AcceptRejects, CallArrives
<1>6. CASE StaleEvent
  BY <1>1, <1>3, <1>6 DEF StaleEvent
<1>7. CASE ExitsChange \/ (PoolStep /\ UNCHANGED workerVars) \/ UNCHANGED vars
  BY <1>2, <1>7 DEF ExitsChange, vars, workerVars
<1>8. ASSUME NEW d \in Calls, CallStep(d) PROVE \E url \in {"https", "other"} : Hop(c, url)
  <2>1. ASSUME NEW p, call' = [call EXCEPT ![d] = p], p # "http" PROVE FALSE
    BY <1>1, <2>1
  <2>2. CASE \E url \in {"https", "other"} : Hop(d, url)
    <3>1. d = c
      BY <1>1, <2>2 DEF Hop, To
    <3> QED
      BY <2>2, <3>1
  <2>3. CASE \/ Prepared(d) \/ RequestRefused(d) \/ CallGivenUp(d) \/ HopFails(d) \/ ReplyRefused(d)
             \/ HttpReplies(d) \/ AcquireRejects(d) \/ Redirected(d) \/ AnswerLocally(d)
             \/ AcquireStarts(d) \/ \E usable \in BOOLEAN : TunnelReplies(d, usable)
             \/ \E again \in BOOLEAN : TunnelFails(d, again)
    <3>1. \E p \in CallStages : call' = [call EXCEPT ![d] = p] /\ p # "http"
      BY <2>3 DEF Prepared, RequestRefused, CallGivenUp, HopFails, ReplyRefused, HttpReplies,
         AcquireRejects, Redirected, AnswerLocally, AcquireStarts, TunnelReplies, TunnelFails, To,
         CallStages, FreshStages, HopStages
    <3> QED
      BY <2>1, <3>1
  <2>4. CASE \E v \in Results : Answer(d, v)
    <3>1. \/ call' = [call EXCEPT ![d] = "answered"]
          \/ \E e \in Verifications : call' = [call EXCEPT ![d] = "answered", ![e] = "woken"]
      BY <2>4 DEF Answer, To
    <3> QED
      BY <1>1, <3>1
  <2>5. CASE \E trap \in BOOLEAN : Reject(d, trap)
    <3>1. Fail([call EXCEPT ![d] = "answered"]) \/ call' = [call EXCEPT ![d] = "answered"]
      BY <2>5 DEF Reject
    <3>2. [call EXCEPT ![d] = "answered"] \in [Calls -> CallStages] /\ [call EXCEPT ![d] = "answered"][c] # "http"
      BY <1>1 DEF CallStages, FreshStages
    <3> QED
      BY <1>3, <2>1, <3>1, <3>2
  <2> QED
    BY <1>8, <2>2, <2>3, <2>4, <2>5 DEF CallStep
<1> QED
  BY <1>4, <1>5, <1>6, <1>7, <1>8 DEF Next

\* chooseTransport() over a call's hops: whatever exits come and go between them,
\* a hop that leaves in plaintext on a client that serves was allowed to by the
\* TLS setting, and no earlier hop of the call used a tunnel.
THEOREM PlaintextIsAllowed == Spec => NoDowngrade
<1> DEFINE A == \A c \in Calls : call[c] # "http" /\ call'[c] = "http" /\ link' = "serving"
                                   => tls # "required" /\ ~onTunnel[c]
<1>1. ASSUME WorkerInv, [Next]_vars PROVE [A]_vars
  <2> SUFFICES ASSUME NEW c \in Calls, call[c] # "http", call'[c] = "http", link' = "serving"
               PROVE  tls # "required" /\ ~onTunnel[c]
    OBVIOUS
  <2>1. PICK url \in {"https", "other"} : Hop(c, url)
    BY <1>1, OnlyHopsSend
  <2> DEFINE given == IF call[c] = "woken" THEN link = "serving" /\ tls # "off" ELSE tunnels[c]
  <2>2. Transport(c, url, given) = "http" /\ link = "serving" /\ call[c] \in {"woken", "redirect"}
    <3>1. call' = [call EXCEPT ![c] = Transport(c, url, given)]
      BY <2>1 DEF Hop, To
    <3> QED
      BY <1>1, <2>1, <3>1 DEF Hop, callRest, WorkerInv, WorkerTyped
  <2>3. /\ Fits(c, call[c], onTunnel[c], tunnels[c], link, failed)
        /\ onTunnel[c] \in BOOLEAN /\ tunnels[c] \in BOOLEAN /\ tls \in {"off", "preferred", "required"}
    BY <1>1 DEF WorkerInv, CallsOK, CallOK, WorkerTyped
  <2>4. (onTunnel[c] => given) /\ (~given => tls = "off")
    BY <2>2, <2>3 DEF Fits, FreshStages, HopStages
  <2> HIDE DEF given
  <2>5. given \in BOOLEAN
    BY <2>3 DEF given
  <2> QED
    BY <2>2, <2>3, <2>4, <2>5 DEF Transport
<1>2. WorkerInv /\ [Next]_vars => [A]_vars
  BY <1>1
<1> QED
  BY <1>2, WorkerInvariant, PTL DEF Spec, NoDowngrade

-----------------------------------------------------------------------------
(* The memo answers                                                        *)

\* observe(): a wrong result gains a confirmation only from a wrong result.
LEMMA ObservedKeeps ==
  ASSUME MemoInv, NEW v \in Results, memo' = Observed(v),
         lies' = IF v = "wrong" THEN lies + 1 ELSE lies
  PROVE  MemoInv'
<1> USE WorkerAssumption
<1>1. v \in {"right", "wrong"} /\ (v = "wrong" => lies < MaxLies)
  BY DEF Results
<1>2. /\ memo \in [value : {"none", "right", "wrong"}, confirmations : Nat] /\ lies \in Nat /\ lies <= MaxLies
      /\ memo.value = "wrong" => memo.confirmations <= lies
      /\ memo.value = "none" => memo = NoMemo
  BY DEF MemoInv
<1>3. lies' \in Nat /\ lies' <= MaxLies /\ lies <= lies' /\ (v = "wrong" => lies' = lies + 1)
  BY <1>1, <1>2
<1>4. CASE memo = NoMemo
  BY <1>1, <1>2, <1>3, <1>4 DEF MemoInv, Observed, NoMemo
<1>5. CASE memo # NoMemo /\ memo.value = v
  <2>1. PICK n \in Nat : n <= memo.confirmations + 1 /\ memo' = [memo EXCEPT !.confirmations = n]
    <3> DEFINE m == IF memo.confirmations < 2 THEN memo.confirmations + 1 ELSE memo.confirmations
    <3>1. m \in Nat /\ m <= memo.confirmations + 1
      BY <1>2
    <3>2. memo' = [memo EXCEPT !.confirmations = m]
      BY <1>5 DEF Observed
    <3> QED
      BY <3>1, <3>2
  <2>2. memo'.value = v /\ memo'.confirmations = n /\ memo' \in [value : {"none", "right", "wrong"}, confirmations : Nat]
    BY <1>1, <1>2, <1>5, <2>1
  <2>3. memo' # NoMemo
    BY <1>1, <2>2 DEF NoMemo
  <2> QED
    BY <1>1, <1>2, <1>3, <1>5, <2>1, <2>2, <2>3 DEF MemoInv
<1>6. CASE memo # NoMemo /\ memo.value # v
  <2>1. memo' = NoMemo
    BY <1>6 DEF Observed
  <2> QED
    BY <1>3, <2>1 DEF MemoInv, NoMemo
<1> QED
  BY <1>4, <1>5, <1>6

LEMMA NextMemoInv ==
  ASSUME MemoInv, [Next]_vars
  PROVE  MemoInv'
<1>1. ASSUME UNCHANGED <<memo, lies>> PROVE MemoInv'
  BY <1>1 DEF MemoInv
<1>2. CASE BootStep
  BY <1>1, <1>2 DEF BootStep, BootChecks, ModulesLoad, ConnectStarts, ConnectFails, Connected, Ready,
     BootFails, bootRest
<1>3. CASE LoopStep
  BY <1>1, <1>3 DEF LoopStep, LoopTakesSlot, UnknownKind, AcceptRejects, CallArrives, loopRest
<1>4. CASE StaleEvent \/ ExitsChange \/ (PoolStep /\ UNCHANGED workerVars) \/ UNCHANGED vars
  BY <1>1, <1>4 DEF StaleEvent, ExitsChange, vars, workerVars
<1>5. ASSUME NEW c \in Calls, CallStep(c) PROVE MemoInv'
  <2>1. CASE \E v \in Results : Answer(c, v)
    BY <1>1, <2>1, ObservedKeeps DEF Answer
  <2>2. CASE \/ Prepared(c) \/ RequestRefused(c) \/ CallGivenUp(c) \/ HopFails(c) \/ ReplyRefused(c)
             \/ HttpReplies(c) \/ AcquireRejects(c) \/ Redirected(c) \/ AnswerLocally(c) \/ AcquireStarts(c)
             \/ \E url \in {"https", "other"} : Hop(c, url)
             \/ \E usable \in BOOLEAN : TunnelReplies(c, usable)
             \/ \E again \in BOOLEAN : TunnelFails(c, again)
             \/ \E trap \in BOOLEAN : Reject(c, trap)
    BY <1>1, <2>2 DEF Prepared, RequestRefused, CallGivenUp, HopFails, ReplyRefused, HttpReplies,
       AcquireRejects, Redirected, AnswerLocally, AcquireStarts, Hop, TunnelReplies, TunnelFails, Reject,
       callRest, callFailRest
  <2> QED
    BY <1>5, <2>1, <2>2 DEF CallStep
<1> QED
  BY <1>2, <1>3, <1>4, <1>5 DEF Next

\* LocalAnswers: however the answers of calls and verifications are ordered, one
\* wrong result among them is never the one that is served from memory.
THEOREM MemoIsTrue == Spec => []MemoTrue
<1>1. Init => MemoInv
  BY WorkerAssumption DEF Init, MemoInv, NoMemo
<1>2. MemoInv /\ [Next]_vars => MemoInv'
  BY NextMemoInv
<1>3. MemoInv => MemoTrue
  BY WorkerAssumption DEF MemoInv, MemoTrue, NoMemo
<1> QED
  BY <1>1, <1>2, <1>3, PTL DEF Spec

-----------------------------------------------------------------------------
(* The call slots                                                          *)

\* The loop starts once, when boot() has its modules.
SlotInv == SlotsExact /\ (boot \in {"start", "wasm", "tls"} => loop = "none")

LEMMA UnfinishedFinite ==
  IsFiniteSet(Unfinished) /\ Cardinality(Unfinished) \in Nat
<1>1. Unfinished \subseteq Calls
  BY WorkerAssumption DEF Unfinished
<1> QED
  BY <1>1, TlsPoolAssumption, FS_Subset, FS_CardinalityType

\* A step that begins and ends no call.
LEMMA NoneEnds ==
  ASSUME \A c \in WalletCalls : call'[c] \in {"none", "answered"} <=> call[c] \in {"none", "answered"}
  PROVE  Unfinished' = Unfinished
BY DEF Unfinished

\* The finally of handleFetch(): the call's slot is the one that is freed.
LEMMA OneEnds ==
  ASSUME SlotsExact, slots \in Nat, limit \in Nat, UNCHANGED <<loop, limit>>, NEW c \in Unfinished,
         Unfinished' = Unfinished \ {c}, slots' = slots + 1
  PROVE  SlotsExact'
<1>1. /\ Cardinality(Unfinished) \in Nat /\ Cardinality(Unfinished') \in Nat
      /\ Cardinality(Unfinished') = Cardinality(Unfinished) - 1
  BY UnfinishedFinite, FS_RemoveElement, FS_CardinalityType
<1> QED
  BY <1>1 DEF SlotsExact

\* A step that keeps the slots, the calls that hold one and the loop.
LEMMA SlotsStay ==
  ASSUME SlotsExact, UNCHANGED <<loop, limit, slots>>, Unfinished' = Unfinished
  PROVE  SlotsExact'
BY DEF SlotsExact

\* fail() ends no call: it makes the waiting ones fail.
LEMMA FailEndsNone ==
  ASSUME WorkerInv, NEW now \in [Calls -> CallStages], Fail(now)
  PROVE  Unfinished' = {c \in WalletCalls : now[c] \notin {"none", "answered"}}
<1>1. call' = now \/ call' = WaitersRejected(now)
  BY FailCases
<1>2. \A c \in WalletCalls : call'[c] \in {"none", "answered"} <=> now[c] \in {"none", "answered"}
  BY <1>1, WorkerAssumption DEF WaitersRejected
<1> QED
  BY <1>2 DEF Unfinished

\* The accept loop: a slot is taken, given to a call or given back.
LEMMA LoopKeepsSlots ==
  ASSUME WorkerInv, SlotInv, LoopStep
  PROVE  SlotInv'
<1>1. /\ slots \in Nat /\ limit \in Nat /\ Cardinality(Unfinished) \in Nat /\ SlotsExact
      /\ call \in [Calls -> CallStages]
  BY UnfinishedFinite DEF WorkerInv, WorkerTyped, SlotInv
<1>2. UNCHANGED <<limit, boot>> /\ loop \in {"slot", "accept"}
  BY DEF LoopStep, LoopTakesSlot, UnknownKind, AcceptRejects, CallArrives, loopRest
<1>3. boot' \notin {"start", "wasm", "tls"}
  BY <1>2 DEF SlotInv
<1>4. CASE LoopTakesSlot
  <2>1. Unfinished' = Unfinished
    BY <1>4 DEF LoopTakesSlot, Unfinished
  <2>2. loop = "slot" /\ loop' \in {"accept", "over"} /\ slots' = slots - 1
    BY <1>4 DEF LoopTakesSlot
  <2> QED
    BY <1>1, <1>2, <1>3, <2>1, <2>2 DEF SlotInv, SlotsExact
<1>5. CASE UnknownKind \/ AcceptRejects
  <2>1. Unfinished' = Unfinished
    BY <1>1, <1>5, FailEndsNone DEF UnknownKind, AcceptRejects, Unfinished
  <2>2. loop = "accept" /\ loop' \in {"slot", "over"} /\ slots' = slots + 1
    BY <1>5 DEF UnknownKind, AcceptRejects
  <2> QED
    BY <1>1, <1>2, <1>3, <2>1, <2>2 DEF SlotInv, SlotsExact
<1>6. ASSUME NEW c \in WalletCalls, CallArrives(c) PROVE SlotInv'
  <2>1. c \notin Unfinished /\ Unfinished' = Unfinished \cup {c}
    <3>1. call' = [call EXCEPT ![c] = "preparing"] /\ call[c] = "none"
      BY <1>6 DEF CallArrives
    <3>2. \A d \in WalletCalls : call'[d] = IF d = c THEN "preparing" ELSE call[d]
      BY <1>1, <3>1, WorkerAssumption
    <3> QED
      BY <3>1, <3>2 DEF Unfinished
  <2>2. Cardinality(Unfinished') = Cardinality(Unfinished) + 1
    BY <2>1, UnfinishedFinite, FS_AddElement
  <2>3. loop = "accept" /\ loop' = "slot" /\ slots' = slots
    BY <1>6 DEF CallArrives
  <2> QED
    BY <1>1, <1>2, <1>3, <2>2, <2>3 DEF SlotInv, SlotsExact
<1> QED
  BY <1>4, <1>5, <1>6 DEF LoopStep

\* boot() and a stale topology.
LEMMA BootKeepsSlots ==
  ASSUME WorkerInv, SlotInv, BootStep \/ StaleEvent
  PROVE  SlotInv'
<1>1. /\ slots \in Nat /\ limit \in Nat /\ Cardinality(Unfinished) \in Nat /\ SlotsExact
      /\ call \in [Calls -> CallStages]
  BY UnfinishedFinite DEF WorkerInv, WorkerTyped, SlotInv
<1>2. UNCHANGED <<slots, limit>>
  BY DEF BootStep, BootChecks, ModulesLoad, ConnectStarts, ConnectFails, Connected, Ready, BootFails,
     StaleEvent, bootRest
<1>3. Unfinished' = Unfinished
  <2>1. CASE Ready
    <3>1. \A c \in WalletCalls : call'[c] \in {"none", "answered"} <=> call[c] \in {"none", "answered"}
      BY <2>1, WorkerAssumption DEF Ready
    <3> QED
      BY <3>1, NoneEnds
  <2>2. CASE StaleEvent \/ \E at \in {"start", "wasm", "tls", "connecting"} : BootFails(at)
    BY <1>1, <2>2, FailEndsNone DEF StaleEvent, BootFails, Unfinished
  <2>3. CASE BootChecks \/ ModulesLoad \/ ConnectStarts \/ ConnectFails
             \/ \E warmup \in BOOLEAN : Connected(warmup)
    BY <2>3 DEF BootChecks, ModulesLoad, ConnectStarts, ConnectFails, Connected, Unfinished
  <2> QED
    BY <2>1, <2>2, <2>3 DEF BootStep
<1>4. CASE ModulesLoad
  <2>1. loop = "none" /\ ((loop' = "slot" /\ boot' = "storage") \/ loop' = "none")
    BY <1>4 DEF ModulesLoad, SlotInv
  <2> QED
    BY <1>1, <1>2, <1>3, <2>1 DEF SlotInv, SlotsExact
<1>5. CASE ~ModulesLoad
  <2>1. loop' = loop /\ (boot' \in {"start", "wasm", "tls"} => boot \in {"start", "wasm", "tls"})
    BY <1>5 DEF BootStep, BootChecks, ConnectStarts, ConnectFails, Connected, Ready, BootFails, StaleEvent
  <2> QED
    BY <1>1, <1>2, <1>3, <2>1, SlotsStay DEF SlotInv
<1> QED
  BY <1>4, <1>5

\* The steps of a call: the one that ends it frees its slot, the others none.
LEMMA CallKeepsSlots ==
  ASSUME WorkerInv, SlotInv, NEW c \in Calls, CallStep(c)
  PROVE  SlotInv'
<1> DEFINE over == {"none", "answered"}
<1>1. /\ slots \in Nat /\ limit \in Nat /\ SlotsExact /\ call \in [Calls -> CallStages]
      /\ memoCalls \subseteq WalletCalls /\ WalletCalls \subseteq Calls
  BY WorkerAssumption DEF WorkerInv, WorkerTyped, SlotInv
<1>2. UNCHANGED <<limit, loop, boot>>
  BY DEF CallStep, Prepared, RequestRefused, CallGivenUp, HopFails, ReplyRefused, HttpReplies,
     AcquireRejects, Redirected, AnswerLocally, AcquireStarts, Hop, TunnelReplies, TunnelFails, Answer,
     Reject, callRest, callFailRest
<1>3. SUFFICES SlotsExact'
  BY <1>2 DEF SlotInv
<1>4. ASSUME NEW p, To(c, p), p \notin over, call[c] \notin over, UNCHANGED slots PROVE SlotsExact'
  <2>1. \A d \in WalletCalls : call'[d] \in over <=> call[d] \in over
    BY <1>1, <1>4 DEF To
  <2> QED
    BY <1>1, <1>2, <1>4, <2>1, NoneEnds, SlotsStay
<1>5. ASSUME NEW now, now = [call EXCEPT ![c] = "answered"], call[c] \notin over,
             Unfinished' = {d \in WalletCalls : now[d] \notin over},
             IF c \in WalletCalls THEN slots' = slots + 1 ELSE UNCHANGED slots
      PROVE  SlotsExact'
  <2>1. \A d \in WalletCalls : now[d] = IF d = c THEN "answered" ELSE call[d]
    BY <1>1, <1>5
  <2>2. Unfinished' = Unfinished \ {c}
    BY <1>5, <2>1 DEF Unfinished
  <2>3. CASE c \in WalletCalls
    <3>1. c \in Unfinished
      BY <1>5, <2>3 DEF Unfinished
    <3> QED
      BY <1>1, <1>2, <1>5, <2>2, <2>3, <3>1, OneEnds
  <2>4. CASE c \notin WalletCalls
    <3>1. Unfinished' = Unfinished
      BY <2>2, <2>4 DEF Unfinished
    <3> QED
      BY <1>1, <1>2, <1>5, <2>4, <3>1, SlotsStay
  <2> QED
    BY <2>3, <2>4
<1>6. CASE \/ Prepared(c) \/ RequestRefused(c) \/ CallGivenUp(c) \/ HopFails(c) \/ ReplyRefused(c)
           \/ HttpReplies(c) \/ AcquireRejects(c) \/ Redirected(c) \/ AcquireStarts(c)
           \/ \E usable \in BOOLEAN : TunnelReplies(c, usable)
           \/ \E again \in BOOLEAN : TunnelFails(c, again)
           \/ \E url \in {"https", "other"} : Hop(c, url)
  <2>1. slots' = slots /\ call[c] \notin over
    BY <1>6 DEF Prepared, RequestRefused, CallGivenUp, HopFails, ReplyRefused, HttpReplies,
       AcquireRejects, Redirected, AcquireStarts, Hop, TunnelReplies, TunnelFails, callRest, callFailRest
  <2>2. \E p \in CallStages : To(c, p) /\ p \notin over
    <3> USE DEF CallStages, FreshStages, HopStages
    <3>1. CASE Prepared(c)
      BY <3>1 DEF Prepared
    <3>2. CASE \/ RequestRefused(c) \/ CallGivenUp(c) \/ HopFails(c) \/ ReplyRefused(c)
               \/ HttpReplies(c) \/ AcquireRejects(c) \/ AcquireStarts(c)
      BY <3>2 DEF RequestRefused, CallGivenUp, HopFails, ReplyRefused, HttpReplies, AcquireRejects,
         AcquireStarts
    <3>3. CASE Redirected(c) \/ \E usable \in BOOLEAN : TunnelReplies(c, usable)
      BY <3>3 DEF Redirected, TunnelReplies
    <3>4. ASSUME NEW again \in BOOLEAN, TunnelFails(c, again) PROVE \E p \in CallStages : To(c, p) /\ p \notin over
      <4>1. To(c, IF again THEN "tunnel" ELSE "failing")
        BY <3>4 DEF TunnelFails
      <4> QED
        BY <4>1
    <3>5. ASSUME NEW url, Hop(c, url) PROVE \E p \in CallStages : To(c, p) /\ p \notin over
      <4>1. PICK given : To(c, Transport(c, url, given))
        BY <3>5 DEF Hop
      <4>2. Transport(c, url, given) \in {"http", "tunnel", "failing"}
        BY DEF Transport
      <4> QED
        BY <4>1, <4>2
    <3> QED
      BY <1>6, <3>1, <3>2, <3>3, <3>4, <3>5
  <2> QED
    BY <1>4, <2>1, <2>2
<1>7. CASE AnswerLocally(c)
  <2>1. c \in memoCalls
    BY <1>7 DEF AnswerLocally, WorkerInv, CallsOK, CallOK, Fits
  <2>2. slots' = slots + 1 /\ call' = [call EXCEPT ![c] = "answered"] /\ call[c] = "local"
    BY <1>7 DEF AnswerLocally, CallEnds, To
  <2>3. Unfinished' = {d \in WalletCalls : call'[d] \notin over}
    BY DEF Unfinished
  <2> QED
    BY <1>1, <1>5, <2>1, <2>2, <2>3
<1>8. CASE \E v \in Results : Answer(c, v)
  <2> DEFINE now == [call EXCEPT ![c] = "answered"]
  <2>1. (IF c \in WalletCalls THEN slots' = slots + 1 ELSE UNCHANGED slots) /\ call[c] = "replied"
    BY <1>8 DEF Answer, CallEnds
  <2>2. \/ call' = now
        \/ \E d \in Verifications : call' = [call EXCEPT ![c] = "answered", ![d] = "woken"]
    BY <1>8 DEF Answer, To
  <2>3. \A d \in WalletCalls : call'[d] = now[d]
    BY <1>1, <2>2 DEF Verifications
  <2>4. Unfinished' = {d \in WalletCalls : now[d] \notin over}
    BY <2>3 DEF Unfinished
  <2> QED
    BY <1>5, <2>1, <2>4
<1>9. CASE \E trap \in BOOLEAN : Reject(c, trap)
  <2> DEFINE now == [call EXCEPT ![c] = "answered"]
  <2>1. call[c] = "failing"
    BY <1>9 DEF Reject
  <2>2. IF c \in WalletCalls THEN slots' = slots + 1 ELSE UNCHANGED slots
    BY <1>9 DEF Reject, CallEnds, Verifications
  <2>3. now \in [Calls -> CallStages]
    BY <1>1 DEF CallStages, FreshStages
  <2>4. Fail(now) \/ call' = now
    BY <1>9 DEF Reject
  <2>5. Unfinished' = {d \in WalletCalls : now[d] \notin over}
    BY <2>3, <2>4, FailEndsNone DEF Unfinished
  <2> QED
    BY <1>5, <2>1, <2>2, <2>5
<1> QED
  BY <1>6, <1>7, <1>8, <1>9 DEF CallStep

\* acceptLoop() and the finally of handleFetch(): on every way a call can end, and
\* whenever the worker fails, no call slot is lost and none is freed twice.
THEOREM SlotsAreExact == Spec => []SlotsExact
<1>1. Init => SlotInv
  <2> SUFFICES ASSUME Init PROVE SlotInv
    OBVIOUS
  <2>1. Unfinished = {}
    BY WorkerAssumption DEF Init, Unfinished
  <2>2. Cardinality(Unfinished) = 0
    BY <2>1, FS_EmptySet
  <2>3. limit \in Nat
    BY WorkerAssumption DEF Init
  <2> QED
    BY <2>2, <2>3 DEF Init, SlotInv, SlotsExact
<1>2. ASSUME WorkerInv, SlotInv, [Next]_vars PROVE SlotInv'
  <2>1. CASE ExitsChange \/ (PoolStep /\ UNCHANGED workerVars) \/ UNCHANGED vars
    <3>1. UNCHANGED <<call, boot, loop, limit, slots>>
      BY <2>1 DEF ExitsChange, vars, workerVars
    <3> QED
      BY <1>2, <3>1, SlotsStay DEF SlotInv, Unfinished
  <2> QED
    BY <1>2, <2>1, BootKeepsSlots, LoopKeepsSlots, CallKeepsSlots DEF Next
<1>3. SlotInv => SlotsExact
  BY DEF SlotInv
<1> QED
  BY <1>1, <1>2, <1>3, WorkerInvariant, PTL DEF Spec

-----------------------------------------------------------------------------
(* The TLS pool: who holds which session                                   *)

Stages == {"idle", "waiting", "opening", "using"}

\* What a call that is on the pool holds, in table T.
HoldsOK(T, at, s) ==
  /\ at = "waiting" => T[s].st \in {"shaking", "landed"} /\ T[s].spare
  /\ at = "opening" => T[s].st = "shaking" /\ ~T[s].spare
  /\ at = "using" => T[s].st = "dead" \/ (T[s].st = "open" /\ ~T[s].spare /\ T[s].flag # "idle")

\* The session s in table T, with spare lists P, calls at stg with chn and shared
\* sessions pl: a spare is in its host's list once open, any other open session
\* idles in the shared map or is used, a landed one is waited for.
SessionOK(T, P, stg, chn, pl, s) ==
  /\ T[s].st # "free" => T[s].host \in Hosts
  /\ T[s].st \in {"free", "dead"} => ~T[s].spare
  /\ T[s].st \in {"scheduled", "landed"} => T[s].spare
  /\ T[s].flag = "superseded" => T[s].st = "open" /\ T[s].spare
  /\ \A h \in Hosts : s \in ToSet(P[h]) <=> T[s].spare /\ T[s].st = "open" /\ T[s].host = h
  /\ T[s].st = "landed" => \E c \in Calls : stg[c] = "waiting" /\ chn[c] = s
  /\ T[s].st = "open" /\ ~T[s].spare =>
       IF T[s].flag = "idle" THEN s \in pl ELSE \E c \in Calls : stg[c] = "using" /\ chn[c] = s
  /\ s \in pl => T[s].st = "open" /\ ~T[s].spare

NoRepeats(q) == \A i, j \in DOMAIN q : q[i] = q[j] => i = j

PoolOK(T, P, stg, chn, pl) ==
  /\ T \in [Ids -> Session] /\ P \in [Hosts -> Seq(Ids)] /\ pl \subseteq Ids
  /\ stg \in [Calls -> Stages] /\ chn \in [Calls -> Ids \cup {NoId}]
  /\ \A c \in Calls : stg[c] # "idle" => chn[c] \in Ids /\ HoldsOK(T, stg[c], chn[c])
  /\ \A c, d \in Calls : stg[c] # "idle" /\ stg[d] # "idle" /\ chn[c] = chn[d] => c = d
  /\ \A s \in Ids : SessionOK(T, P, stg, chn, pl, s)
  /\ \A s, t \in Ids : T[s].st = "landed" /\ T[t].st = "landed" => s = t
  /\ \A h \in Hosts : NoRepeats(P[h])

\* The spares of a host that count, opens and landed ones included; at most one
\* more is being replaced.
LiveSpares(T, h) == {s \in Ids : T[s].spare /\ T[s].host = h /\ T[s].flag # "superseded"}
CountOK(T) ==
  \A h \in Hosts :
    /\ Cardinality(LiveSpares(T, h)) <= Spares
    /\ \A s, t \in Ids : T[s].spare /\ T[t].spare /\ T[s].host = h /\ T[t].host = h
                           /\ T[s].flag = "superseded" /\ T[t].flag = "superseded" => s = t
HostsOK(P, q) ==
  /\ q \in Seq(Hosts) /\ NoRepeats(q) /\ Len(q) <= MaxSpareHosts
  /\ \A h \in Hosts : P[h] # <<>> => h \in ToSet(q)

PoolSettings == exits \subseteq Exits /\ skipped \subseteq Exits /\ deferred \subseteq Hosts
PoolInv ==
  /\ PoolSettings /\ PoolOK(ses, spares, stage, chan, pooled)
  /\ CountOK(ses) /\ HostsOK(spares, spareHosts)

-----------------------------------------------------------------------------
(* Lists without repeats                                                   *)

LEMMA AppendFacts ==
  ASSUME NEW S, NEW q \in Seq(S), NEW x \in S
  PROVE  /\ Append(q, x) \in Seq(S) /\ Len(Append(q, x)) = Len(q) + 1
         /\ ToSet(Append(q, x)) = ToSet(q) \cup {x}
         /\ NoRepeats(q) /\ x \notin ToSet(q) => NoRepeats(Append(q, x))
<1>1. /\ Append(q, x) \in Seq(S) /\ Len(Append(q, x)) = Len(q) + 1 /\ Len(q) \in Nat
      /\ DOMAIN q = 1..Len(q) /\ DOMAIN Append(q, x) = 1..Len(q) + 1
      /\ \A i \in 1..Len(q) : Append(q, x)[i] = q[i]
      /\ Append(q, x)[Len(q) + 1] = x
  OBVIOUS
<1>2. ToSet(Append(q, x)) = ToSet(q) \cup {x}
  BY <1>1 DEF ToSet
<1>3. ASSUME NoRepeats(q), x \notin ToSet(q) PROVE NoRepeats(Append(q, x))
  BY <1>1, <1>3 DEF NoRepeats, ToSet
<1> QED
  BY <1>1, <1>2, <1>3

LEMMA TailFacts ==
  ASSUME NEW S, NEW q \in Seq(S), q # <<>>, NoRepeats(q)
  PROVE  /\ Head(q) \in S /\ Tail(q) \in Seq(S) /\ Len(Tail(q)) = Len(q) - 1
         /\ Head(q) \in ToSet(q) /\ ToSet(Tail(q)) = ToSet(q) \ {Head(q)} /\ NoRepeats(Tail(q))
<1>1. /\ Tail(q) \in Seq(S) /\ Len(Tail(q)) = Len(q) - 1 /\ Len(q) \in Nat \ {0}
      /\ DOMAIN q = 1..Len(q) /\ DOMAIN Tail(q) = 1..Len(q) - 1 /\ Head(q) = q[1]
      /\ \A i \in 1..Len(q) - 1 : Tail(q)[i] = q[i + 1]
      /\ \A i \in 1..Len(q) : q[i] \in S
  OBVIOUS
<1>2. Head(q) \in S /\ Head(q) \in ToSet(q)
  BY <1>1 DEF ToSet
<1>3. ToSet(Tail(q)) \subseteq ToSet(q) \ {Head(q)}
  BY <1>1 DEF ToSet, NoRepeats
<1>4. ASSUME NEW y \in ToSet(q) \ {Head(q)} PROVE y \in ToSet(Tail(q))
  <2>1. PICK i \in 1..Len(q) : q[i] = y
    BY <1>1 DEF ToSet
  <2>2. i - 1 \in 1..Len(q) - 1 /\ Tail(q)[i - 1] = y
    BY <1>1, <1>4, <2>1
  <2> QED
    BY <1>1, <2>2 DEF ToSet
<1>5. NoRepeats(Tail(q))
  BY <1>1 DEF NoRepeats
<1> QED
  BY <1>1, <1>2, <1>3, <1>4, <1>5

LEMMA DropFacts ==
  ASSUME NEW S, NEW q \in Seq(S), NEW x, NoRepeats(q)
  PROVE  /\ Drop(q, x) \in Seq(S) /\ ToSet(Drop(q, x)) = ToSet(q) \ {x} /\ NoRepeats(Drop(q, x))
         /\ Len(Drop(q, x)) = IF x \in ToSet(q) THEN Len(q) - 1 ELSE Len(q)
<1>1. CASE x \notin ToSet(q)
  BY <1>1 DEF Drop
<1>2. CASE x \in ToSet(q)
  <2> DEFINE i == CHOOSE j \in DOMAIN q : q[j] = x
             r == RemoveAt(q, i)
  <2>1. i \in 1..Len(q) /\ q[i] = x /\ Drop(q, x) = r /\ Len(q) \in Nat \ {0} /\ DOMAIN q = 1..Len(q)
    <3>1. \E j \in DOMAIN q : q[j] = x
      BY <1>2 DEF ToSet
    <3> QED
      BY <1>2, <3>1 DEF Drop
  <2> HIDE DEF i
  <2> DEFINE s1 == SubSeq(q, 1, i - 1)
             s2 == SubSeq(q, i + 1, Len(q))
  <2>2. /\ s1 \in Seq(S) /\ Len(s1) = i - 1 /\ s2 \in Seq(S) /\ Len(s2) = Len(q) - i
        /\ \A j \in 1..i - 1 : s1[j] = q[j]
        /\ \A j \in 1..Len(q) - i : s2[j] = q[j + i]
    <3>1. i \in Int /\ i - 1 \in Int /\ i + 1 \in Int /\ Len(q) \in Int
      BY <2>1
    <3>2. (\A j \in 1..i - 1 : q[j] \in S) /\ (\A j \in i + 1..Len(q) : q[j] \in S)
      BY <2>1
    <3>3. /\ s1 \in Seq(S) /\ Len(s1) = IF 1 <= i - 1 THEN i - 1 - 1 + 1 ELSE 0
          /\ \A j \in 1..i - 1 - 1 + 1 : s1[j] = q[1 + j - 1]
      BY <3>1, <3>2, SubSeqProperties
    <3>4. /\ s2 \in Seq(S) /\ Len(s2) = IF i + 1 <= Len(q) THEN Len(q) - (i + 1) + 1 ELSE 0
          /\ \A j \in 1..Len(q) - (i + 1) + 1 : s2[j] = q[i + 1 + j - 1]
      BY <3>1, <3>2, SubSeqProperties
    <3> HIDE DEF s1, s2
    <3>5. \A j \in 1..i - 1 : s1[j] = q[j]
      BY <2>1, <3>3
    <3>6. ASSUME NEW j \in 1..Len(q) - i PROVE s2[j] = q[j + i]
      <4>1. j \in 1..Len(q) - (i + 1) + 1 /\ i + 1 + j - 1 = j + i
        BY <2>1
      <4>2. s2[j] = q[i + 1 + j - 1]
        BY <3>4, <4>1
      <4> QED
        BY <4>1, <4>2
    <3>7. Len(s1) = i - 1
      BY <2>1, <3>3
    <3>8. Len(s2) = Len(q) - i
      <4>1. Len(s2) = IF i + 1 <= Len(q) THEN Len(q) - (i + 1) + 1 ELSE 0
        BY <3>4
      <4>2. i \in Int /\ Len(q) \in Int /\ i <= Len(q)
        BY <2>1
      <4> QED
        BY <4>1, <4>2
    <3> QED
      BY <3>3, <3>4, <3>5, <3>6, <3>7, <3>8
  <2>4. /\ r \in Seq(S) /\ Len(r) = Len(q) - 1 /\ DOMAIN r = 1..Len(q) - 1
        /\ \A j \in 1..Len(q) - 1 : r[j] = IF j < i THEN q[j] ELSE q[j + 1]
    <3>1. r = s1 \o s2
      BY DEF RemoveAt
    <3> HIDE DEF r, s1, s2
    <3>2. /\ r \in Seq(S) /\ Len(r) = Len(s1) + Len(s2)
          /\ \A j \in 1..Len(s1) + Len(s2) : r[j] = IF j <= Len(s1) THEN s1[j] ELSE s2[j - Len(s1)]
      BY <2>2, <3>1, ConcatProperties
    <3>3. ASSUME NEW j \in 1..Len(q) - 1 PROVE r[j] = IF j < i THEN q[j] ELSE q[j + 1]
      <4>1. CASE j < i
        <5>1. j \in 1..Len(s1) + Len(s2) /\ j <= Len(s1) /\ j \in 1..i - 1
          BY <2>1, <2>2, <4>1
        <5> QED
          BY <2>2, <3>2, <4>1, <5>1
      <4>2. CASE ~(j < i)
        <5>1. j \in 1..Len(s1) + Len(s2) /\ ~(j <= Len(s1)) /\ j - (i - 1) \in 1..Len(q) - i
          BY <2>1, <2>2, <4>2
        <5>2. r[j] = s2[j - (i - 1)]
          BY <2>2, <3>2, <5>1
        <5>3. j - (i - 1) + i = j + 1
          BY <2>1
        <5> QED
          BY <2>2, <4>2, <5>1, <5>2, <5>3
      <4> QED
        BY <4>1, <4>2
    <3> QED
      BY <2>1, <2>2, <3>2, <3>3
  <2> HIDE DEF r
  <2>5. NoRepeats(r)
    <3> SUFFICES ASSUME NEW j \in 1..Len(q) - 1, NEW k \in 1..Len(q) - 1, r[j] = r[k]
                 PROVE  j = k
      BY <2>4 DEF NoRepeats
    <3> DEFINE up(n) == IF n < i THEN n ELSE n + 1
    <3>1. up(j) \in 1..Len(q) /\ up(k) \in 1..Len(q) /\ (up(j) = up(k) => j = k)
      BY <2>1
    <3>2. q[up(j)] = q[up(k)]
      BY <2>4
    <3> QED
      BY <2>1, <3>1, <3>2 DEF NoRepeats
  <2>6. ToSet(r) \subseteq ToSet(q) \ {x}
    BY <2>1, <2>4, SMTT(30) DEF ToSet, NoRepeats
  <2>7. ASSUME NEW y \in ToSet(q) \ {x} PROVE y \in ToSet(r)
    <3>1. PICK k \in 1..Len(q) : q[k] = y
      BY <2>1, <2>7 DEF ToSet
    <3>2. k # i
      BY <2>1, <2>7, <3>1
    <3>3. CASE k < i
      <4>1. k \in 1..Len(q) - 1 /\ r[k] = y
        BY <2>1, <2>4, <3>1, <3>3
      <4> QED
        BY <2>4, <4>1 DEF ToSet
    <3>4. CASE k > i
      <4>1. k - 1 \in 1..Len(q) - 1 /\ r[k - 1] = y
        BY <2>1, <2>4, <3>1, <3>4
      <4> QED
        BY <2>4, <4>1 DEF ToSet
    <3> QED
      BY <2>1, <3>2, <3>3, <3>4
  <2> QED
    BY <1>2, <2>1, <2>4, <2>5, <2>6, <2>7
<1> QED
  BY <1>1, <1>2

LEMMA MovedLastFacts ==
  ASSUME NEW S, NEW q \in Seq(S), NEW x \in S, NoRepeats(q)
  PROVE  /\ MovedLast(q, x) \in Seq(S) /\ ToSet(MovedLast(q, x)) = ToSet(q) \cup {x}
         /\ NoRepeats(MovedLast(q, x))
         /\ Len(MovedLast(q, x)) = IF x \in ToSet(q) THEN Len(q) ELSE Len(q) + 1
         /\ Len(q) \in Nat /\ (Len(MovedLast(q, x)) > 1 => Head(MovedLast(q, x)) # x)
<1>1. /\ Drop(q, x) \in Seq(S) /\ ToSet(Drop(q, x)) = ToSet(q) \ {x} /\ NoRepeats(Drop(q, x))
      /\ Len(Drop(q, x)) = IF x \in ToSet(q) THEN Len(q) - 1 ELSE Len(q)
  BY DropFacts
<1>2. /\ MovedLast(q, x) \in Seq(S) /\ ToSet(MovedLast(q, x)) = (ToSet(q) \ {x}) \cup {x}
      /\ NoRepeats(MovedLast(q, x)) /\ Len(MovedLast(q, x)) = Len(Drop(q, x)) + 1
  BY <1>1, AppendFacts DEF MovedLast
<1>3. Len(q) \in Nat /\ Len(Drop(q, x)) \in Nat
  BY <1>1
<1>4. ASSUME Len(MovedLast(q, x)) > 1 PROVE Head(MovedLast(q, x)) # x
  <2>1. Head(MovedLast(q, x)) = Drop(q, x)[1] /\ 1 \in DOMAIN Drop(q, x)
    BY <1>1, <1>2, <1>3, <1>4 DEF MovedLast
  <2> QED
    BY <1>1, <2>1 DEF ToSet
<1> QED
  BY <1>1, <1>2, <1>3, <1>4

-----------------------------------------------------------------------------
(* One session changes                                                     *)

\* A step changes nothing of any session but x: not the lists, the calls or the
\* shared map that others are in.
OnlyOf(x, P, stg, chn, pl, P2, stg2, chn2, pl2) ==
  /\ P2 \in [Hosts -> Seq(Ids)] /\ pl2 \subseteq Ids
  /\ stg2 \in [Calls -> Stages] /\ chn2 \in [Calls -> Ids \cup {NoId}]
  /\ \A h \in Hosts : NoRepeats(P2[h]) /\ ToSet(P2[h]) \ {x} = ToSet(P[h]) \ {x}
  /\ pl2 \ {x} = pl \ {x}
  /\ \A c \in Calls : \/ stg2[c] = stg[c] /\ chn2[c] = chn[c]
                      \/ /\ stg[c] = "idle" \/ chn[c] = x
                         /\ stg2[c] = "idle" \/ chn2[c] = x
  /\ \A c, d \in Calls : stg2[c] # "idle" /\ stg2[d] # "idle" /\ chn2[c] = x /\ chn2[d] = x => c = d
HeldOK(T, stg, chn, x) == \A c \in Calls : stg[c] # "idle" /\ chn[c] = x => HoldsOK(T, stg[c], x)
Alone(T, x) == T[x].st = "landed" => \A t \in Ids \ {x} : T[t].st # "landed"

LEMMA OneSession ==
  ASSUME NEW T, NEW P, NEW stg, NEW chn, NEW pl, PoolOK(T, P, stg, chn, pl),
         NEW x \in Ids, NEW r \in Session, NEW P2, NEW stg2, NEW chn2, NEW pl2, NEW T2,
         T2 = [T EXCEPT ![x] = r], OnlyOf(x, P, stg, chn, pl, P2, stg2, chn2, pl2),
         HeldOK(T2, stg2, chn2, x), SessionOK(T2, P2, stg2, chn2, pl2, x), Alone(T2, x)
  PROVE  PoolOK(T2, P2, stg2, chn2, pl2)
<1>1. T \in [Ids -> Session] /\ T2 \in [Ids -> Session] /\ T2[x] = r /\ \A s \in Ids \ {x} : T2[s] = T[s]
  BY DEF PoolOK
<1> USE DEF OnlyOf
<1>2. /\ \A c \in Calls : stg[c] # "idle" => chn[c] \in Ids /\ HoldsOK(T, stg[c], chn[c])
      /\ \A c, d \in Calls : stg[c] # "idle" /\ stg[d] # "idle" /\ chn[c] = chn[d] => c = d
      /\ \A s \in Ids : SessionOK(T, P, stg, chn, pl, s)
      /\ \A s, t \in Ids : T[s].st = "landed" /\ T[t].st = "landed" => s = t
  BY DEF PoolOK
<1>3. ASSUME NEW c \in Calls, stg2[c] # "idle"
      PROVE  chn2[c] \in Ids /\ HoldsOK(T2, stg2[c], chn2[c])
  <2>1. CASE chn2[c] = x
    BY <1>3, <2>1 DEF HeldOK
  <2>2. CASE chn2[c] # x
    <3>1. stg2[c] = stg[c] /\ chn2[c] = chn[c]
      BY <1>3, <2>2
    <3>2. chn[c] \in Ids \ {x} /\ HoldsOK(T, stg[c], chn[c])
      BY <1>2, <1>3, <2>2, <3>1
    <3> QED
      BY <1>1, <3>1, <3>2 DEF HoldsOK
  <2> QED
    BY <2>1, <2>2
<1>4. ASSUME NEW c \in Calls, NEW d \in Calls, stg2[c] # "idle", stg2[d] # "idle", chn2[c] = chn2[d]
      PROVE  c = d
  <2>1. CASE chn2[c] = x
    BY <1>4, <2>1
  <2>2. CASE chn2[c] # x
    <3>1. stg2[c] = stg[c] /\ chn2[c] = chn[c] /\ stg2[d] = stg[d] /\ chn2[d] = chn[d]
      BY <1>4, <2>2
    <3> QED
      BY <1>2, <1>4, <3>1
  <2> QED
    BY <2>1, <2>2
<1>5. ASSUME NEW s \in Ids PROVE SessionOK(T2, P2, stg2, chn2, pl2, s)
  <2>1. CASE s = x
    BY <2>1
  <2>2. CASE s # x
    <3>1. T2[s] = T[s] /\ (s \in pl2 <=> s \in pl) /\ SessionOK(T, P, stg, chn, pl, s)
      BY <1>1, <1>2, <2>2
    <3>2. \A h \in Hosts : s \in ToSet(P2[h]) <=> s \in ToSet(P[h])
      BY <2>2
    <3>3. ASSUME NEW c \in Calls, NEW at, at # "idle", stg[c] = at, chn[c] = s PROVE stg2[c] = at /\ chn2[c] = s
      BY <2>2, <3>3
    <3>5. /\ (\E c \in Calls : stg[c] = "waiting" /\ chn[c] = s) => \E c \in Calls : stg2[c] = "waiting" /\ chn2[c] = s
          /\ (\E c \in Calls : stg[c] = "using" /\ chn[c] = s) => \E c \in Calls : stg2[c] = "using" /\ chn2[c] = s
      BY <3>3
    <3> QED
      BY <3>1, <3>2, <3>5 DEF SessionOK
  <2> QED
    BY <2>1, <2>2
<1>6. \A s, t \in Ids : T2[s].st = "landed" /\ T2[t].st = "landed" => s = t
  BY <1>1, <1>2 DEF Alone
<1> QED
  BY <1>1, <1>3, <1>4, <1>5, <1>6 DEF PoolOK

\* Nobody holds x, before or after, and the calls stay where they are.
LEMMA LoneSession ==
  ASSUME NEW T, NEW P, NEW stg, NEW chn, NEW pl, PoolOK(T, P, stg, chn, pl),
         NEW x \in Ids, NEW r \in Session, NEW P2 \in [Hosts -> Seq(Ids)], NEW pl2 \in SUBSET Ids,
         \A h \in Hosts : NoRepeats(P2[h]) /\ ToSet(P2[h]) \ {x} = ToSet(P[h]) \ {x},
         pl2 \ {x} = pl \ {x},
         \A c \in Calls : stg[c] # "idle" => chn[c] # x,
         NEW T2, T2 = [T EXCEPT ![x] = r], SessionOK(T2, P2, stg, chn, pl2, x), r.st # "landed"
  PROVE  PoolOK(T2, P2, stg, chn, pl2)
<1>1. stg \in [Calls -> Stages] /\ chn \in [Calls -> Ids \cup {NoId}] /\ T2[x] = r
  BY DEF PoolOK
<1>2. OnlyOf(x, P, stg, chn, pl, P2, stg, chn, pl2)
  BY <1>1 DEF OnlyOf
<1>3. HeldOK(T2, stg, chn, x) /\ Alone(T2, x)
  BY <1>1 DEF HeldOK, Alone
<1> QED
  BY <1>2, <1>3, OneSession

\* What the invariant says of a session, by where it is.
LEMMA SessionFacts ==
  ASSUME NEW T, NEW P, NEW stg, NEW chn, NEW pl, PoolOK(T, P, stg, chn, pl), NEW x \in Ids
  PROVE  /\ T \in [Ids -> Session] /\ T[x] \in Session /\ P \in [Hosts -> Seq(Ids)] /\ pl \in SUBSET Ids
         /\ \A h \in Hosts : NoRepeats(P[h]) /\ (T[x].st # "open" => x \notin ToSet(P[h]))
         /\ T[x].st # "open" => x \notin pl
         /\ T[x].st \in {"free", "scheduled"} => \A c \in Calls : stg[c] # "idle" => chn[c] # x
         /\ SessionOK(T, P, stg, chn, pl, x)
<1>1. /\ SessionOK(T, P, stg, chn, pl, x) /\ T \in [Ids -> Session] /\ stg \in [Calls -> Stages]
      /\ P \in [Hosts -> Seq(Ids)] /\ pl \in SUBSET Ids /\ \A h \in Hosts : NoRepeats(P[h])
      /\ \A c \in Calls : stg[c] # "idle" => HoldsOK(T, stg[c], chn[c])
  BY DEF PoolOK
<1>2. \A h \in Hosts : T[x].st # "open" => x \notin ToSet(P[h])
  BY <1>1 DEF SessionOK
<1>3. T[x].st # "open" => x \notin pl
  BY <1>1 DEF SessionOK
<1>4. ASSUME T[x].st \in {"free", "scheduled"}, NEW c \in Calls, stg[c] # "idle" PROVE chn[c] # x
  BY <1>1, <1>4 DEF HoldsOK, Stages
<1> QED
  BY <1>1, <1>2, <1>3, <1>4

-----------------------------------------------------------------------------
(* Counting spares                                                         *)

LEMMA LiveSparesFinite ==
  ASSUME NEW T, NEW h
  PROVE  /\ IsFiniteSet(LiveSpares(T, h)) /\ LiveSpares(T, h) \subseteq Ids
         /\ Cardinality(LiveSpares(T, h)) \in Nat
<1>1. LiveSpares(T, h) \subseteq Ids /\ IsFiniteSet(Ids)
  BY TlsPoolAssumption DEF LiveSpares
<1> QED
  BY <1>1, FS_Subset, FS_CardinalityType

LEMMA CountShrinks ==
  ASSUME NEW T, NEW T2, CountOK(T),
         \A s \in Ids : T2[s].spare =>
           T[s].spare /\ T[s].host = T2[s].host /\ (T2[s].flag = "superseded" <=> T[s].flag = "superseded")
  PROVE  CountOK(T2)
<1> SUFFICES ASSUME NEW h \in Hosts
             PROVE  /\ Cardinality(LiveSpares(T2, h)) <= Spares
                    /\ \A s, t \in Ids : T2[s].spare /\ T2[t].spare /\ T2[s].host = h /\ T2[t].host = h
                         /\ T2[s].flag = "superseded" /\ T2[t].flag = "superseded" => s = t
  BY DEF CountOK
<1>1. LiveSpares(T2, h) \subseteq LiveSpares(T, h)
  BY DEF LiveSpares
<1>2. Cardinality(LiveSpares(T2, h)) <= Cardinality(LiveSpares(T, h))
  BY <1>1, LiveSparesFinite, FS_Subset
<1>3. Cardinality(LiveSpares(T, h)) <= Spares
  BY DEF CountOK
<1>4. Cardinality(LiveSpares(T2, h)) <= Spares
  BY <1>2, <1>3, LiveSparesFinite, TlsPoolAssumption
<1> QED
  BY <1>4 DEF CountOK

LEMMA CountGrows ==
  ASSUME NEW T \in [Ids -> Session], CountOK(T), NEW x \in Ids, NEW h \in Hosts, NEW r \in Session,
         r.spare, r.host = h, r.flag # "superseded", Cardinality(LiveSpares(T, h)) < Spares
  PROVE  CountOK([T EXCEPT ![x] = r])
<1> DEFINE T2 == [T EXCEPT ![x] = r]
<1>1. T2[x] = r /\ \A s \in Ids \ {x} : T2[s] = T[s]
  OBVIOUS
<1> HIDE DEF T2
<1>2. ASSUME NEW g \in Hosts PROVE Cardinality(LiveSpares(T2, g)) <= Spares
  <2>1. CASE g = h
    <3>1. LiveSpares(T2, g) \subseteq LiveSpares(T, h) \cup {x}
      BY <1>1, <2>1 DEF LiveSpares
    <3>2. /\ IsFiniteSet(LiveSpares(T, h) \cup {x})
          /\ Cardinality(LiveSpares(T, h) \cup {x}) <= Cardinality(LiveSpares(T, h)) + 1
          /\ Cardinality(LiveSpares(T, h) \cup {x}) \in Nat
      <4> DEFINE S == LiveSpares(T, h)
      <4>1. IsFiniteSet(S) /\ Cardinality(S) \in Nat
        BY LiveSparesFinite
      <4> HIDE DEF S
      <4>2. IsFiniteSet(S \cup {x}) /\ Cardinality(S \cup {x}) = IF x \in S THEN Cardinality(S) ELSE Cardinality(S) + 1
        BY <4>1, FS_AddElement
      <4>3. IsFiniteSet(S \cup {x}) /\ Cardinality(S \cup {x}) <= Cardinality(S) + 1 /\ Cardinality(S \cup {x}) \in Nat
        BY <4>1, <4>2
      <4> QED
        BY <4>3 DEF S
    <3>3. Cardinality(LiveSpares(T2, g)) <= Cardinality(LiveSpares(T, h) \cup {x})
      BY <3>1, <3>2, FS_Subset
    <3> QED
      BY <3>2, <3>3, LiveSparesFinite, TlsPoolAssumption
  <2>2. CASE g # h
    <3>1. LiveSpares(T2, g) \subseteq LiveSpares(T, g)
      BY <1>1, <2>2 DEF LiveSpares
    <3>2. Cardinality(LiveSpares(T2, g)) <= Cardinality(LiveSpares(T, g))
      BY <3>1, LiveSparesFinite, FS_Subset
    <3>3. Cardinality(LiveSpares(T, g)) <= Spares
      BY DEF CountOK
    <3> QED
      BY <3>2, <3>3, LiveSparesFinite, TlsPoolAssumption
  <2> QED
    BY <2>1, <2>2
<1>3. ASSUME NEW g \in Hosts, NEW s \in Ids, NEW t \in Ids, T2[s].spare, T2[t].spare, T2[s].host = g, T2[t].host = g,
             T2[s].flag = "superseded", T2[t].flag = "superseded"
      PROVE  s = t
  <2>1. s # x /\ t # x
    BY <1>1, <1>3
  <2> QED
    BY <1>1, <1>3, <2>1 DEF CountOK
<1> QED
  BY <1>2, <1>3 DEF CountOK, T2

\* A spare that is being replaced makes room for one that counts.
LEMMA CountSuperseded ==
  ASSUME NEW T \in [Ids -> Session], CountOK(T), NEW x \in Ids, NEW h \in Hosts, T[x].spare, T[x].host = h,
         \A s \in Ids : T[s].spare /\ T[s].host = h => T[s].flag # "superseded"
  PROVE  /\ CountOK([T EXCEPT ![x].flag = "superseded"])
         /\ Cardinality(LiveSpares([T EXCEPT ![x].flag = "superseded"], h)) < Spares
<1> DEFINE T2 == [T EXCEPT ![x].flag = "superseded"]
<1>1. /\ T2[x].flag = "superseded" /\ T2[x].host = h /\ T2[x].spare
      /\ \A s \in Ids \ {x} : T2[s] = T[s]
  BY DEF Session
<1> HIDE DEF T2
<1>2. LiveSpares(T2, h) = LiveSpares(T, h) \ {x} /\ x \in LiveSpares(T, h)
  BY <1>1 DEF LiveSpares
<1>3. Cardinality(LiveSpares(T2, h)) = Cardinality(LiveSpares(T, h)) - 1
  <2>1. IsFiniteSet(LiveSpares(T, h))
    BY LiveSparesFinite
  <2>2. Cardinality(LiveSpares(T, h) \ {x}) = IF x \in LiveSpares(T, h) THEN Cardinality(LiveSpares(T, h)) - 1
                                                ELSE Cardinality(LiveSpares(T, h))
    BY <2>1, FS_RemoveElement
  <2> QED
    BY <1>2, <2>2
<1>4. ASSUME NEW g \in Hosts PROVE Cardinality(LiveSpares(T, g)) <= Spares /\ Cardinality(LiveSpares(T, g)) \in Nat
  BY LiveSparesFinite DEF CountOK
<1>5. Cardinality(LiveSpares(T2, h)) < Spares
  BY <1>3, <1>4, TlsPoolAssumption
<1>6. ASSUME NEW g \in Hosts PROVE Cardinality(LiveSpares(T2, g)) <= Spares
  <2>1. LiveSpares(T2, g) \subseteq LiveSpares(T, g)
    BY <1>1 DEF LiveSpares
  <2>2. Cardinality(LiveSpares(T2, g)) <= Cardinality(LiveSpares(T, g))
    BY <2>1, LiveSparesFinite, FS_Subset
  <2> QED
    BY <1>4, <2>2, LiveSparesFinite, TlsPoolAssumption
<1>7. ASSUME NEW g \in Hosts, NEW s \in Ids, NEW t \in Ids, T2[s].spare, T2[t].spare, T2[s].host = g, T2[t].host = g,
             T2[s].flag = "superseded", T2[t].flag = "superseded"
      PROVE  s = t
  <2>1. CASE g = h
    <3>1. s = x /\ t = x
      BY <1>1, <1>7, <2>1
    <3> QED
      BY <3>1
  <2>2. CASE g # h
    <3>1. s # x /\ t # x
      BY <1>1, <1>7, <2>2
    <3> QED
      BY <1>1, <1>7, <3>1 DEF CountOK
  <2> QED
    BY <2>1, <2>2
<1> QED
  BY <1>5, <1>6, <1>7 DEF CountOK, T2

\* spareCount() of the code leaves out only an open that landed for a call.
LEMMA SpareCountFacts ==
  ASSUME NEW T, NEW P, NEW stg, NEW chn, NEW pl, PoolOK(T, P, stg, chn, pl), NEW h \in Hosts
  PROVE  /\ SpareCount(T, P, h) \in Nat
         /\ SpareCount(T, P, h) <= Cardinality(LiveSpares(T, h))
         /\ (\A s \in Ids : T[s].st # "landed") => SpareCount(T, P, h) = Cardinality(LiveSpares(T, h))
         /\ CountOK(T) => Len(P[h]) <= Spares + 1
<1> DEFINE q == P[h]
           D == {i \in DOMAIN q : T[q[i]].flag # "superseded"}
           A == {s \in ToSet(q) : T[s].flag # "superseded"}
           B == {s \in Ids : T[s].spare /\ T[s].host = h /\ T[s].st \in {"scheduled", "shaking"}}
           L == LiveSpares(T, h)
<1>1. /\ q \in Seq(Ids) /\ NoRepeats(q) /\ DOMAIN q = 1..Len(q) /\ Len(q) \in Nat
      /\ \A i \in DOMAIN q : q[i] \in Ids
      /\ \A s \in Ids : SessionOK(T, P, stg, chn, pl, s) /\ T[s] \in Session
  BY DEF PoolOK
<1>2. ToSet(q) \subseteq Ids /\ IsFiniteSet(ToSet(q)) /\ IsFiniteSet(Ids)
  <2>1. ToSet(q) \subseteq Ids
    BY <1>1 DEF ToSet
  <2> QED
    BY <2>1, TlsPoolAssumption, FS_Subset
<1>3. \A s \in Ids : /\ s \in ToSet(q) <=> T[s].spare /\ T[s].st = "open" /\ T[s].host = h
                     /\ T[s].flag = "superseded" => T[s].st = "open"
                     /\ T[s].st \in {"free", "dead"} => ~T[s].spare
  BY <1>1 DEF SessionOK
<1>4. IsFiniteSet(DOMAIN q) /\ Cardinality(DOMAIN q) = Len(q)
  <2> HIDE DEF q
  <2>1. Len(q) \in Int /\ 1 \in Int
    BY <1>1
  <2>2. /\ IsFiniteSet(1..Len(q))
        /\ Cardinality(1..Len(q)) = IF 1 > Len(q) THEN 0 ELSE Len(q) - 1 + 1
    BY <2>1, FS_Interval
  <2>3. (IF 1 > Len(q) THEN 0 ELSE Len(q) - 1 + 1) = Len(q)
    BY <1>1
  <2> QED
    BY <1>1, <2>2, <2>3
<1>5. ASSUME NEW E \in SUBSET DOMAIN q, NEW R, R = {q[i] : i \in E}
      PROVE  IsFiniteSet(E) /\ IsFiniteSet(R) /\ Cardinality(R) = Cardinality(E) /\ Cardinality(E) \in Nat
  <2> DEFINE f == [i \in E |-> q[i]]
  <2>1. IsFiniteSet(E)
    BY <1>4, FS_Subset
  <2>2. f \in Surjection(E, R) /\ f \in Injection(E, R)
    BY <1>1, <1>5 DEF Surjection, Injection, IsInjective, NoRepeats
  <2> QED
    BY <2>1, <2>2, FS_Surjection, FS_CardinalityType
<1>6. A = {q[i] : i \in D}
  BY DEF ToSet
<1>7. IsFiniteSet(A) /\ Cardinality(A) = Cardinality(D) /\ Cardinality(A) \in Nat
  BY <1>5, <1>6
<1>8. IsFiniteSet(B) /\ Cardinality(B) \in Nat
  BY <1>2, FS_Subset, FS_CardinalityType
<1>9. A \cap B = {} /\ A \cup B \subseteq L /\ ((\A s \in Ids : T[s].st # "landed") => A \cup B = L)
  <2>1. \A s \in Ids : T[s].st \in {"free", "scheduled", "shaking", "landed", "open", "dead"}
    BY <1>1 DEF Session
  <2> QED
    BY <1>2, <1>3, <2>1 DEF LiveSpares
<1>10. Cardinality(A \cup B) = Cardinality(A) + Cardinality(B)
  <2>1. Cardinality(A \cup B) = Cardinality(A) + Cardinality(B) - Cardinality(A \cap B)
    BY <1>7, <1>8, FS_Union
  <2>2. Cardinality(A \cap B) = 0
    BY <1>9, FS_EmptySet
  <2> QED
    BY <1>7, <1>8, <2>1, <2>2
<1>11. SpareCount(T, P, h) = Cardinality(A \cup B)
  BY <1>7, <1>10 DEF SpareCount, Opening
<1>12. Cardinality(A \cup B) <= Cardinality(L) /\ Cardinality(A \cup B) \in Nat
  BY <1>7, <1>8, <1>9, <1>10, LiveSparesFinite, FS_Subset
<1>13. ASSUME CountOK(T) PROVE Len(q) <= Spares + 1
  <2> DEFINE C == {s \in ToSet(q) : T[s].flag = "superseded"}
  <2>1. ToSet(q) = {q[i] : i \in DOMAIN q} /\ ToSet(q) = A \cup C
    BY DEF ToSet
  <2>2. Cardinality(ToSet(q)) = Len(q)
    BY <1>4, <1>5, <2>1
  <2>3. Cardinality(A) <= Spares
    <3>1. A \subseteq L
      BY <1>9
    <3>2. Cardinality(A) <= Cardinality(L) /\ Cardinality(L) <= Spares
      BY <1>13, <3>1, LiveSparesFinite, FS_Subset DEF CountOK
    <3> QED
      BY <1>7, <3>2, LiveSparesFinite, TlsPoolAssumption
  <2>4. \A s, t \in C : s = t
    BY <1>2, <1>3, <1>13 DEF CountOK
  <2>5. CASE C = {}
    <3>1. ToSet(q) = A
      BY <2>1, <2>5
    <3>2. Len(q) = Cardinality(A) /\ Len(q) \in Nat /\ Spares \in Nat
      BY <1>1, <2>2, <3>1, TlsPoolAssumption
    <3> HIDE DEF A, q
    <3> QED
      BY <2>3, <3>2
  <2>6. ASSUME NEW z \in C PROVE Len(q) <= Spares + 1
    <3>1. C = {z}
      BY <2>4, <2>6
    <3>2. Cardinality(A \cup {z}) <= Cardinality(A) + 1
      BY <1>7, FS_AddElement, SMTT(30)
    <3>3. ToSet(q) = A \cup {z}
      BY <2>1, <3>1
    <3>4. Len(q) = Cardinality(A \cup {z}) /\ Len(q) \in Nat /\ Spares \in Nat
      BY <1>1, <2>2, <3>3, TlsPoolAssumption
    <3> HIDE DEF A, q
    <3> QED
      BY <1>7, <2>3, <3>2, <3>4
  <2> QED
    BY <2>5, <2>6
<1> QED
  BY <1>9, <1>11, <1>12, <1>13

-----------------------------------------------------------------------------
(* Spares open and go                                                      *)

LEMMA NextExitsTyped ==
  ASSUME PoolSettings, NEW tried, NEW skip
  PROVE  NextExits(tried, skip) \subseteq Exits \cup {None}
BY DEF NextExits, PoolSettings

LEMMA SessionRecords ==
  ASSUME NEW h \in Hosts, NEW e \in Exits \cup {None}, NEW b \in BOOLEAN, NEW timer \in {"plain", "due"}
  PROVE  /\ [Free EXCEPT !.st = "shaking", !.host = h, !.spare = b, !.at = e] \in Session
         /\ [Free EXCEPT !.st = "scheduled", !.host = h, !.spare = TRUE] \in Session
         /\ [Free EXCEPT !.st = "open", !.host = h, !.spare = TRUE, !.flag = timer] \in Session
         /\ [Free EXCEPT !.st = "open", !.host = h, !.flag = "busy"] \in Session
         /\ [Free EXCEPT !.st = "open", !.host = h] \in Session
         /\ Free \in Session
BY DEF Free, Session

LEMMA NoSpareIsFree ==
  ASSUME NEW T, NEW P, NEW stg, NEW chn, NEW pl, PoolOK(T, P, stg, chn, pl), HasId(T)
  PROVE  NewId(T) \in Ids /\ T[NewId(T)].st = "free"
BY DEF HasId, NewId

\* openSpare() where the host has room for one more.
LEMMA OpenSpareOK ==
  ASSUME NEW T, NEW P, NEW stg, NEW chn, NEW pl, PoolOK(T, P, stg, chn, pl), CountOK(T), PoolSettings,
         NEW h \in Hosts, Cardinality(LiveSpares(T, h)) < Spares,
         NEW delayed \in BOOLEAN, NEW T2 \in OpenSpare(T, h, delayed)
  PROVE  /\ PoolOK(T2, P, stg, chn, pl) /\ CountOK(T2)
         /\ \A s \in Ids : T2[s].st = "landed" => T[s].st = "landed"
<1> DEFINE x == NewId(T)
<1>1. HasId(T)
  BY DEF OpenSpare
<1>2. x \in Ids /\ T[x].st = "free"
  BY <1>1, NoSpareIsFree
<1>3. PICK r \in Session : /\ T2 = [T EXCEPT ![x] = r] /\ r.spare /\ r.host = h /\ r.flag = "plain"
                           /\ r.st \in {"scheduled", "shaking"}
  <2>1. CASE delayed /\ T2 = Schedule(T, x, h)
    <3> DEFINE r == [Free EXCEPT !.st = "scheduled", !.host = h, !.spare = TRUE]
    <3>1. r \in Session /\ r.spare /\ r.host = h /\ r.flag = "plain" /\ r.st = "scheduled"
      BY DEF Session, Free
    <3> QED
      BY <2>1, <3>1 DEF Schedule
  <2>2. ASSUME NEW e \in NextExits({}, skipped), T2 = Begin(T, x, h, TRUE, e)
        PROVE  \E r \in Session : /\ T2 = [T EXCEPT ![x] = r] /\ r.spare /\ r.host = h /\ r.flag = "plain"
                                  /\ r.st \in {"scheduled", "shaking"}
    <3> DEFINE r == [Free EXCEPT !.st = "shaking", !.host = h, !.spare = TRUE, !.at = e]
    <3>1. e \in Exits \cup {None}
      BY NextExitsTyped
    <3>2. r \in Session /\ r.spare /\ r.host = h /\ r.flag = "plain" /\ r.st = "shaking"
      BY <3>1 DEF Session, Free
    <3> QED
      BY <2>2, <3>2 DEF Begin
  <2> QED
    BY <1>1, <2>1, <2>2 DEF OpenSpare
<1> HIDE DEF x
<1>4. /\ T \in [Ids -> Session] /\ P \in [Hosts -> Seq(Ids)] /\ pl \in SUBSET Ids
      /\ \A g \in Hosts : NoRepeats(P[g]) /\ x \notin ToSet(P[g])
      /\ x \notin pl /\ \A c \in Calls : stg[c] # "idle" => chn[c] # x
  BY <1>2, SessionFacts
<1>5. T2[x] = r /\ \A s \in Ids \ {x} : T2[s] = T[s]
  BY <1>2, <1>3, <1>4
<1>6. SessionOK(T2, P, stg, chn, pl, x)
  BY <1>3, <1>4, <1>5 DEF SessionOK
<1>7. PoolOK(T2, P, stg, chn, pl)
  BY <1>2, <1>3, <1>4, <1>6, LoneSession
<1>8. CountOK(T2)
  BY <1>2, <1>3, <1>4, CountGrows
<1> QED
  BY <1>3, <1>5, <1>7, <1>8

\* replenish(), when no landed open is waiting for its caller.
LEMMA RefillOK ==
  ASSUME NEW T, NEW P, NEW stg, NEW chn, NEW pl, PoolOK(T, P, stg, chn, pl), CountOK(T), PoolSettings,
         NEW h \in Hosts, NEW T2 \in Refill(T, P, h), \A s \in Ids : T[s].st # "landed"
  PROVE  PoolOK(T2, P, stg, chn, pl) /\ CountOK(T2) /\ \A s \in Ids : T2[s].st # "landed"
<1>1. CASE T2 = T
  BY <1>1
<1>2. CASE SpareCount(T, P, h) < Spares /\ T2 \in OpenSpare(T, h, TRUE)
  <2>1. Cardinality(LiveSpares(T, h)) < Spares
    BY <1>2, SpareCountFacts
  <2>2. TRUE \in BOOLEAN /\ T2 \in OpenSpare(T, h, TRUE)
    BY <1>2
  <2>3. /\ PoolOK(T2, P, stg, chn, pl) /\ CountOK(T2)
        /\ \A s \in Ids : T2[s].st = "landed" => T[s].st = "landed"
    BY <2>1, <2>2, OpenSpareOK, ZenonT(40)
  <2> QED
    BY <2>3
<1> QED
  BY <1>1, <1>2 DEF Refill

LEMMA ReplenishOK ==
  ASSUME NEW T, NEW P, NEW stg, NEW chn, NEW pl, PoolOK(T, P, stg, chn, pl), CountOK(T), PoolSettings,
         NEW h \in Hosts, NEW T2 \in Replenish(T, P, h), \A s \in Ids : T[s].st # "landed"
  PROVE  PoolOK(T2, P, stg, chn, pl) /\ CountOK(T2) /\ \A s \in Ids : T2[s].st # "landed"
BY RefillOK DEF Replenish

\* The least recently used host loses its spares.
LEMMA EvictOK ==
  ASSUME NEW T, NEW P, NEW stg, NEW chn, NEW pl, PoolOK(T, P, stg, chn, pl), CountOK(T), NEW g \in Hosts
  PROVE  /\ PoolOK(Torn(T, ToSet(P[g])), [P EXCEPT ![g] = <<>>], stg, chn, pl)
         /\ CountOK(Torn(T, ToSet(P[g])))
<1> DEFINE T2 == Torn(T, ToSet(P[g]))
           P2 == [P EXCEPT ![g] = <<>>]
<1>1. /\ T \in [Ids -> Session] /\ P \in [Hosts -> Seq(Ids)] /\ pl \subseteq Ids
      /\ stg \in [Calls -> Stages] /\ chn \in [Calls -> Ids \cup {NoId}]
      /\ \A c \in Calls : stg[c] # "idle" => chn[c] \in Ids /\ HoldsOK(T, stg[c], chn[c])
      /\ \A c, d \in Calls : stg[c] # "idle" /\ stg[d] # "idle" /\ chn[c] = chn[d] => c = d
      /\ \A s \in Ids : SessionOK(T, P, stg, chn, pl, s)
      /\ \A s, t \in Ids : T[s].st = "landed" /\ T[t].st = "landed" => s = t
      /\ \A h \in Hosts : NoRepeats(P[h])
  BY DEF PoolOK
<1>2. \A s \in Ids : T2[s] = IF s \in ToSet(P[g]) THEN Free ELSE T[s]
  BY DEF Torn
<1>3. T2 \in [Ids -> Session]
  <2>1. Free \in Session
    BY DEF Free, Session
  <2> QED
    BY <1>1, <2>1 DEF Torn
<1>4. P2 \in [Hosts -> Seq(Ids)] /\ \A h \in Hosts : P2[h] = IF h = g THEN <<>> ELSE P[h]
  BY <1>1
<1>5. ToSet(<<>>) = {} /\ NoRepeats(<<>>)
  BY DEF ToSet, NoRepeats
<1>6. \A s \in Ids : s \in ToSet(P[g]) <=> T[s].spare /\ T[s].st = "open" /\ T[s].host = g
  BY <1>1 DEF SessionOK
<1> HIDE DEF T2, P2
<1>7. ASSUME NEW c \in Calls, stg[c] # "idle" PROVE chn[c] \in Ids /\ HoldsOK(T2, stg[c], chn[c])
  <2>1. chn[c] \in Ids /\ HoldsOK(T, stg[c], chn[c]) /\ stg[c] \in Stages
    BY <1>1, <1>7
  <2>2. ~(T[chn[c]].spare /\ T[chn[c]].st = "open")
    BY <1>7, <2>1 DEF HoldsOK, Stages
  <2>3. T2[chn[c]] = T[chn[c]]
    BY <1>2, <1>6, <2>1, <2>2
  <2> QED
    BY <2>1, <2>3 DEF HoldsOK
<1>8. ASSUME NEW s \in Ids PROVE SessionOK(T2, P2, stg, chn, pl, s)
  <2>1. SessionOK(T, P, stg, chn, pl, s)
    BY <1>1
  <2>2. CASE s \in ToSet(P[g])
    <3>1. T2[s] = Free /\ T[s].spare /\ T[s].st = "open" /\ T[s].host = g
      BY <1>2, <1>6, <2>2
    <3>2. s \notin pl /\ \A h \in Hosts : s \notin ToSet(P2[h])
      BY <1>4, <1>5, <2>1, <3>1 DEF SessionOK
    <3> QED
      BY <3>1, <3>2 DEF SessionOK, Free
  <2>3. CASE s \notin ToSet(P[g])
    <3>1. T2[s] = T[s] /\ ~(T[s].spare /\ T[s].st = "open" /\ T[s].host = g)
      BY <1>2, <1>6, <2>3
    <3>2. \A h \in Hosts : s \in ToSet(P2[h]) <=> T[s].spare /\ T[s].st = "open" /\ T[s].host = h
      BY <1>4, <1>5, <2>1, <3>1 DEF SessionOK
    <3> QED
      BY <2>1, <3>1, <3>2 DEF SessionOK
  <2> QED
    BY <2>2, <2>3
<1>9. \A s, t \in Ids : T2[s].st = "landed" /\ T2[t].st = "landed" => s = t
  BY <1>1, <1>2 DEF Free
<1>10. \A h \in Hosts : NoRepeats(P2[h])
  BY <1>1, <1>4, <1>5
<1>11. PoolOK(T2, P2, stg, chn, pl)
  BY <1>1, <1>3, <1>4, <1>7, <1>8, <1>9, <1>10 DEF PoolOK
<1>12. CountOK(T2)
  BY <1>2, CountShrinks DEF Free
<1> QED
  BY <1>11, <1>12 DEF T2, P2

LEMMA TornOne ==
  ASSUME NEW T \in [Ids -> Session], NEW x \in Ids
  PROVE  Torn(T, {x}) = [T EXCEPT ![x] = Free] /\ Torn(T, {}) = T
BY DEF Torn

\* keepSpare(): what handshook becomes a spare, and no call holds it any more.
LEMMA KeepSpareOK ==
  ASSUME PoolInv, NEW h \in Hosts, NEW x \in Ids, KeepSpare(h, x),
         ses[x].spare, ses[x].host = h, ses[x].st \in {"shaking", "landed"},
         stage' \in [Calls -> Stages], chan' \in [Calls -> Ids \cup {NoId}], pooled' = pooled,
         \A c \in Calls : (stage'[c] = stage[c] /\ chan'[c] = chan[c]) \/ (chan[c] = x /\ stage'[c] = "idle"),
         \A c \in Calls : stage'[c] # "idle" => chan'[c] # x
  PROVE  /\ PoolOK(ses', spares', stage', chan', pooled') /\ CountOK(ses')
         /\ HostsOK(spares', spareHosts')
<1>1. PoolOK(ses, spares, stage, chan, pooled) /\ CountOK(ses) /\ HostsOK(spares, spareHosts)
  BY DEF PoolInv
<1>2. /\ ses \in [Ids -> Session] /\ spares \in [Hosts -> Seq(Ids)] /\ pooled \in SUBSET Ids /\ x \notin pooled
      /\ \A g \in Hosts : NoRepeats(spares[g]) /\ x \notin ToSet(spares[g])
      /\ ses[x].flag # "superseded"
  <2>1. SessionOK(ses, spares, stage, chan, pooled, x)
    BY <1>1, SessionFacts
  <2> QED
    BY <1>1, <2>1, SessionFacts DEF SessionOK
<1>3. CASE poolClosed
  <2>1. ses' = [ses EXCEPT ![x] = Free] /\ spares' = spares /\ spareHosts' = spareHosts
    BY <1>2, <1>3, TornOne DEF KeepSpare
  <2>2. ses'[x] = Free /\ (\A s \in Ids \ {x} : ses'[s] = ses[s]) /\ Free \in Session
    BY <1>2, <2>1 DEF Free, Session
  <2>3. SessionOK(ses', spares', stage', chan', pooled', x)
    BY <1>2, <2>1, <2>2 DEF SessionOK, Free
  <2>4. PoolOK(ses', spares', stage', chan', pooled')
    <3>1. OnlyOf(x, spares, stage, chan, pooled, spares', stage', chan', pooled')
      BY <1>2, <2>1 DEF OnlyOf
    <3>2. HeldOK(ses', stage', chan', x) /\ Alone(ses', x)
      BY <2>2 DEF HeldOK, Alone, Free
    <3> QED
      BY <1>1, <2>1, <2>2, <2>3, <3>1, <3>2, OneSession
  <2>5. CountOK(ses')
    BY <1>1, <2>2, CountShrinks DEF Free
  <2> QED
    BY <1>1, <2>1, <2>4, <2>5
<1>4. CASE ~poolClosed
  <2> DEFINE order == MovedLast(spareHosts, h)
             lost == Evicted(order)
  <2>1. PICK timer \in {"plain", "due"} :
          /\ spareHosts' = IF lost = None THEN order ELSE Tail(order)
          /\ spares' = [g \in Hosts |-> IF g = lost THEN <<>> ELSE IF g = h THEN Append(spares[g], x) ELSE spares[g]]
          /\ ses' = Torn([ses EXCEPT ![x] = [Free EXCEPT !.st = "open", !.host = h, !.spare = TRUE, !.flag = timer]],
                         IF lost = None THEN {} ELSE ToSet(spares[lost]))
    BY <1>4 DEF KeepSpare
  <2> DEFINE r == [Free EXCEPT !.st = "open", !.host = h, !.spare = TRUE, !.flag = timer]
  <2>2. r \in Session /\ r.st = "open" /\ r.host = h /\ r.spare /\ r.flag = timer
    BY DEF Free, Session
  <2> HIDE DEF r
  <2>3. /\ order \in Seq(Hosts) /\ ToSet(order) = ToSet(spareHosts) \cup {h} /\ NoRepeats(order)
        /\ Len(order) \in Nat /\ Len(order) <= MaxSpareHosts + 1
        /\ Len(order) > 1 => Head(order) # h
        /\ \A g \in Hosts : spares[g] # <<>> => g \in ToSet(spareHosts)
    <3>1. spareHosts \in Seq(Hosts) /\ NoRepeats(spareHosts) /\ Len(spareHosts) <= MaxSpareHosts
      BY <1>1 DEF HostsOK
    <3>2. /\ order \in Seq(Hosts) /\ ToSet(order) = ToSet(spareHosts) \cup {h} /\ NoRepeats(order)
          /\ Len(order) = IF h \in ToSet(spareHosts) THEN Len(spareHosts) ELSE Len(spareHosts) + 1
          /\ Len(spareHosts) \in Nat /\ (Len(order) > 1 => Head(order) # h)
      BY <3>1, MovedLastFacts
    <3> QED
      BY <1>1, <3>1, <3>2, TlsPoolAssumption DEF HostsOK
  <2> HIDE DEF order
  \* The table and the lists once the host beyond the limit has gone
  <2> DEFINE T1 == IF lost = None THEN ses ELSE Torn(ses, ToSet(spares[lost]))
             P1 == IF lost = None THEN spares ELSE [spares EXCEPT ![lost] = <<>>]
  <2>4. /\ PoolOK(T1, P1, stage, chan, pooled) /\ CountOK(T1)
        /\ ses' = [T1 EXCEPT ![x] = r] /\ spares' = [P1 EXCEPT ![h] = Append(P1[h], x)]
        /\ T1[x] = ses[x] /\ HostsOK(spares', spareHosts')
    <3>1. CASE Len(order) <= MaxSpareHosts
      <4>1. lost = None /\ T1 = ses /\ P1 = spares
        BY <2>3, <3>1, TlsPoolAssumption DEF Evicted
      <4>2. ses' = [ses EXCEPT ![x] = r]
        <5>1. [ses EXCEPT ![x] = r] \in [Ids -> Session]
          BY <1>2, <2>2
        <5> QED
          BY <2>1, <4>1, <5>1, TornOne DEF r
      <4>3. spares' = [spares EXCEPT ![h] = Append(spares[h], x)] /\ spareHosts' = order
        BY <1>2, <2>1, <4>1, TlsPoolAssumption, ZenonT(40) DEF None
      <4>4. HostsOK(spares', spareHosts')
        BY <1>2, <2>3, <3>1, <4>3 DEF HostsOK
      <4> QED
        BY <1>1, <4>1, <4>2, <4>3, <4>4
    <3>2. CASE Len(order) > MaxSpareHosts
      <4>0. order # <<>> /\ Len(order) > 1 /\ lost = Head(order)
        BY <2>3, <3>2, TlsPoolAssumption DEF Evicted
      <4>1. /\ lost \in Hosts /\ lost # h /\ Tail(order) \in Seq(Hosts) /\ NoRepeats(Tail(order))
            /\ Len(Tail(order)) = Len(order) - 1 /\ ToSet(Tail(order)) = ToSet(order) \ {lost}
        BY <2>3, <4>0, TailFacts
      <4>2. lost # None
        BY <4>1, TlsPoolAssumption DEF None
      <4> HIDE DEF lost
      <4>3. T1 = Torn(ses, ToSet(spares[lost])) /\ P1 = [spares EXCEPT ![lost] = <<>>] /\ x \notin ToSet(spares[lost])
        BY <1>2, <4>1, <4>2
      <4>4. ses' = [T1 EXCEPT ![x] = r]
        <5>1. ses' = Torn([ses EXCEPT ![x] = r], ToSet(spares[lost]))
          BY <2>1, <4>2 DEF r
        <5> QED
          BY <1>2, <4>3, <5>1 DEF Torn
      <4>5. spares' = [P1 EXCEPT ![h] = Append(P1[h], x)]
        <5>1. spares' = [g \in Hosts |-> IF g = lost THEN <<>> ELSE IF g = h THEN Append(spares[g], x) ELSE spares[g]]
          BY <2>1
        <5>2. P1[h] = spares[h] /\ P1 = [g \in Hosts |-> IF g = lost THEN <<>> ELSE spares[g]]
          BY <1>2, <4>1, <4>3
        <5> QED
          BY <4>1, <5>1, <5>2
      <4>6. T1[x] = ses[x]
        BY <4>3 DEF Torn
      <4>7. HostsOK(spares', spareHosts')
        <5>1. spareHosts' = Tail(order)
          BY <2>1, <4>2
        <5>2. Len(Tail(order)) <= MaxSpareHosts
          BY <2>3, <4>1, TlsPoolAssumption
        <5>3. ASSUME NEW g \in Hosts, spares'[g] # <<>> PROVE g \in ToSet(Tail(order))
          BY <2>1, <2>3, <4>1, <5>3
        <5> QED
          BY <4>1, <5>1, <5>2, <5>3 DEF HostsOK
      <4> QED
        BY <1>1, <4>1, <4>3, <4>4, <4>5, <4>6, <4>7, EvictOK
    <3> QED
      BY <2>3, <3>1, <3>2, TlsPoolAssumption
  <2> HIDE DEF T1, P1, lost
  <2>5. /\ T1 \in [Ids -> Session] /\ P1 \in [Hosts -> Seq(Ids)]
        /\ \A g \in Hosts : NoRepeats(P1[g]) /\ x \notin ToSet(P1[g])
    BY <2>4, SessionFacts
  <2>6. /\ Append(P1[h], x) \in Seq(Ids) /\ NoRepeats(Append(P1[h], x))
        /\ ToSet(Append(P1[h], x)) = ToSet(P1[h]) \cup {x}
    BY <2>5, AppendFacts
  <2>7. /\ spares' \in [Hosts -> Seq(Ids)]
        /\ \A g \in Hosts : spares'[g] = IF g = h THEN Append(P1[h], x) ELSE P1[g]
    BY <2>4, <2>5, <2>6
  <2>8. /\ \A g \in Hosts : NoRepeats(spares'[g]) /\ ToSet(spares'[g]) \ {x} = ToSet(P1[g]) \ {x}
        /\ \A g \in Hosts : x \in ToSet(spares'[g]) <=> g = h
    BY <2>5, <2>6, <2>7
  <2>9. ses'[x] = r /\ \A s \in Ids \ {x} : ses'[s] = T1[s]
    BY <2>4, <2>5
  <2>10. SessionOK(ses', spares', stage', chan', pooled', x)
    BY <1>2, <2>2, <2>8, <2>9 DEF SessionOK
  <2>11. PoolOK(ses', spares', stage', chan', pooled')
    <3>1. OnlyOf(x, P1, stage, chan, pooled, spares', stage', chan', pooled')
      BY <1>2, <2>7, <2>8 DEF OnlyOf
    <3>2. HeldOK(ses', stage', chan', x) /\ Alone(ses', x)
      BY <2>2, <2>9 DEF HeldOK, Alone
    <3> QED
      BY <2>2, <2>4, <2>10, <3>1, <3>2, OneSession
  <2>12. CountOK(ses')
    <3>1. \A s \in Ids : ses'[s].spare =>
            T1[s].spare /\ T1[s].host = ses'[s].host /\ (ses'[s].flag = "superseded" <=> T1[s].flag = "superseded")
      BY <1>2, <2>2, <2>4, <2>9
    <3> QED
      BY <2>4, <3>1, CountShrinks, ZenonT(40)
  <2> QED
    BY <2>4, <2>11, <2>12
<1> QED
  BY <1>3, <1>4

-----------------------------------------------------------------------------
(* Each operation of the pool keeps its invariant: opening                 *)

LEMMA CallFacts ==
  ASSUME NEW T, NEW P, NEW stg, NEW chn, NEW pl, PoolOK(T, P, stg, chn, pl), NEW c \in Calls, stg[c] # "idle"
  PROVE  /\ stg[c] \in Stages /\ chn[c] \in Ids /\ HoldsOK(T, stg[c], chn[c])
         /\ \A d \in Calls : stg[d] # "idle" /\ chn[d] = chn[c] => d = c
BY DEF PoolOK

LEMMA PoolTyped ==
  ASSUME PoolInv
  PROVE  /\ ses \in [Ids -> Session] /\ spares \in [Hosts -> Seq(Ids)] /\ pooled \in SUBSET Ids
         /\ stage \in [Calls -> Stages] /\ chan \in [Calls -> Ids \cup {NoId}]
         /\ \A h \in Hosts : NoRepeats(spares[h])
         /\ PoolSettings /\ PoolOK(ses, spares, stage, chan, pooled)
         /\ CountOK(ses) /\ HostsOK(spares, spareHosts)
BY DEF PoolInv, PoolOK

\* A session whose exit or tried exits change is otherwise what it was.
LEMMA SameSession ==
  ASSUME NEW T, NEW P, NEW stg, NEW chn, NEW pl, PoolOK(T, P, stg, chn, pl), CountOK(T),
         NEW x \in Ids, NEW r \in Session, NEW T2, T2 = [T EXCEPT ![x] = r],
         r.st = T[x].st, r.spare = T[x].spare, r.host = T[x].host,
         r.flag = T[x].flag \/ (T[x].spare /\ T[x].flag # "superseded" /\ r.flag # "superseded")
  PROVE  PoolOK(T2, P, stg, chn, pl) /\ CountOK(T2)
<1>1. /\ T \in [Ids -> Session] /\ P \in [Hosts -> Seq(Ids)] /\ pl \in SUBSET Ids /\ stg \in [Calls -> Stages]
      /\ chn \in [Calls -> Ids \cup {NoId}] /\ (\A h \in Hosts : NoRepeats(P[h]))
      /\ \A s, t \in Ids : T[s].st = "landed" /\ T[t].st = "landed" => s = t
  BY DEF PoolOK
<1>2. T2[x] = r /\ \A s \in Ids \ {x} : T2[s] = T[s]
  BY <1>1
<1>3. OnlyOf(x, P, stg, chn, pl, P, stg, chn, pl)
  BY <1>1, CallFacts DEF OnlyOf
<1>4. HeldOK(T2, stg, chn, x)
  BY <1>1, <1>2, CallFacts DEF HeldOK, HoldsOK
<1>5. Alone(T2, x)
  BY <1>1, <1>2, ZenonT(40) DEF Alone
<1>6. SessionOK(T, P, stg, chn, pl, x)
  BY SessionFacts
<1>7. SessionOK(T2, P, stg, chn, pl, x)
  BY <1>2, <1>6 DEF SessionOK
<1>8. PoolOK(T2, P, stg, chn, pl)
  BY <1>3, <1>4, <1>5, <1>7, OneSession
<1>9. CountOK(T2)
  <2>1. \A s \in Ids : T2[s].spare =>
          T[s].spare /\ T[s].host = T2[s].host /\ (T2[s].flag = "superseded" <=> T[s].flag = "superseded")
    BY <1>2
  <2> QED
    BY <2>1, CountShrinks
<1> QED
  BY <1>8, <1>9

LEMMA StartSpareKeeps ==
  ASSUME PoolInv, NEW x \in Ids, StartSpare(x)
  PROVE  PoolInv'
<1>1. SessionOK(ses, spares, stage, chan, pooled, x) /\ ses[x].st = "scheduled" /\ ses[x] \in Session
  BY PoolTyped, SessionFacts DEF StartSpare
<1>2. ses[x].spare /\ ses[x].host \in Hosts /\ ses[x].flag # "superseded"
  BY <1>1 DEF SessionOK
<1>3. PICK e \in NextExits({}, skipped) : ses' = Begin(ses, x, ses[x].host, TRUE, e)
  BY DEF StartSpare
<1> DEFINE r == [Free EXCEPT !.st = "shaking", !.host = ses[x].host, !.spare = TRUE, !.at = e]
<1>4. e \in Exits \cup {None}
  BY PoolTyped, NextExitsTyped
<1>5. /\ r \in Session /\ r.st = "shaking" /\ r.host = ses[x].host /\ r.spare /\ r.flag = "plain"
      /\ ses' = [ses EXCEPT ![x] = r]
  BY <1>2, <1>3, <1>4 DEF Begin, Free, Session
<1> HIDE DEF r
<1>6. /\ \A h \in Hosts : NoRepeats(spares[h]) /\ x \notin ToSet(spares[h])
      /\ x \notin pooled /\ \A c \in Calls : stage[c] # "idle" => chan[c] # x
  BY <1>1, PoolTyped, SessionFacts
<1>7. ses'[x] = r /\ \A s \in Ids \ {x} : ses'[s] = ses[s]
  BY <1>5, PoolTyped
<1>8. SessionOK(ses', spares, stage, chan, pooled, x)
  BY <1>2, <1>5, <1>6, <1>7 DEF SessionOK
<1>9. PoolOK(ses', spares, stage, chan, pooled)
  BY <1>5, <1>6, <1>8, PoolTyped, LoneSession
<1>10. CountOK(ses')
  BY <1>2, <1>5, <1>7, PoolTyped, CountShrinks
<1> QED
  BY <1>9, <1>10 DEF PoolInv, PoolSettings, StartSpare

LEMMA HandshakeFailsKeeps ==
  ASSUME PoolInv, NEW x \in Ids, NEW how, HandshakeFails(x, how)
  PROVE  PoolInv'
<1> DEFINE tried == ses[x].tried \cup {ses[x].at}
           skip == IF how = "skip" THEN skipped \cup {ses[x].at} ELSE skipped
<1>1. ses[x] \in Session /\ ses[x].at \in Exits /\ tried \subseteq Exits /\ skip \subseteq Exits /\ skipped' = skip
  BY PoolTyped DEF HandshakeFails, Session, PoolSettings
<1>2. PICK e \in (IF how = "fatal" THEN {None} ELSE NextExits(tried, skip)) :
        ses' = [ses EXCEPT ![x].at = e, ![x].tried = IF e = None THEN {} ELSE tried]
  BY DEF HandshakeFails
<1>3. e \in Exits \cup {None}
  BY <1>2, PoolTyped, NextExitsTyped
<1> DEFINE was == IF e = None THEN {} ELSE tried
           r == [ses[x] EXCEPT !.at = e, !.tried = was]
<1>4. was \subseteq Exits
  BY <1>1
<1>5. /\ r \in Session /\ r.st = ses[x].st /\ r.spare = ses[x].spare /\ r.host = ses[x].host
      /\ r.flag = ses[x].flag /\ ses' = [ses EXCEPT ![x] = r]
  BY <1>1, <1>2, <1>3, <1>4, PoolTyped DEF Session
<1> HIDE DEF r
<1>6. PoolOK(ses', spares, stage, chan, pooled) /\ CountOK(ses')
  BY <1>5, PoolTyped, SameSession
<1> QED
  BY <1>1, <1>6, PoolTyped DEF PoolInv, PoolSettings, HandshakeFails

LEMMA OpenFailsKeeps ==
  ASSUME PoolInv, NEW x \in Ids, OpenFails(x)
  PROVE  PoolInv'
<1>1. SessionOK(ses, spares, stage, chan, pooled, x) /\ ses[x].st = "shaking" /\ ses[x] \in Session
  BY PoolTyped, SessionFacts DEF OpenFails
<1>2. \A h \in Hosts : NoRepeats(spares[h]) /\ x \notin ToSet(spares[h])
  BY <1>1, PoolTyped, SessionFacts
<1>3. x \notin pooled
  BY <1>1, PoolTyped, SessionFacts
<1>4. Torn(ses, {x}) = [ses EXCEPT ![x] = Free]
  BY PoolTyped, TornOne
<1>5. /\ Holders(x) \subseteq Calls /\ \A c \in Calls : c \in Holders(x) <=> stage[c] # "idle" /\ chan[c] = x
      /\ \A c, d \in Holders(x) : c = d
  BY PoolTyped, CallFacts DEF Holders
<1>6. UNCHANGED <<spares, spareHosts, pooled, exits, skipped, deferred>>
  BY DEF OpenFails
<1>7. CASE ses[x].spare /\ Holders(x) # {}
  <2>1. PICK e \in NextExits({}, skipped) : ses' = Begin(Torn(ses, {x}), x, ses[x].host, FALSE, e)
    BY <1>7 DEF OpenFails
  <2>2. stage' = [c \in Calls |-> IF c \in Holders(x) THEN "opening" ELSE stage[c]] /\ chan' = chan
    BY <1>7 DEF OpenFails
  <2> DEFINE r == [Free EXCEPT !.st = "shaking", !.host = ses[x].host, !.spare = FALSE, !.at = e]
  <2>3. e \in Exits \cup {None}
    BY PoolTyped, NextExitsTyped
  <2>4. r \in Session /\ r.st = "shaking" /\ ~r.spare /\ r.flag = "plain" /\ r.host \in Hosts
    BY <1>1, <2>3 DEF Free, Session, SessionOK
  <2>5. ses' = [ses EXCEPT ![x] = r]
    BY <1>4, <2>1, PoolTyped DEF Begin
  <2> HIDE DEF r
  <2>6. ses'[x] = r /\ \A s \in Ids \ {x} : ses'[s] = ses[s]
    BY <2>5, PoolTyped
  <2>7. OnlyOf(x, spares, stage, chan, pooled, spares', stage', chan', pooled')
    <3>1. stage' \in [Calls -> Stages] /\ chan' \in [Calls -> Ids \cup {NoId}]
      BY <2>2, PoolTyped DEF Stages
    <3>2. \A c \in Calls : stage'[c] # "idle" /\ chan'[c] = x => c \in Holders(x)
      BY <1>5, <2>2
    <3>3. \A c \in Calls : \/ stage'[c] = stage[c] /\ chan'[c] = chan[c]
                           \/ chan[c] = x /\ chan'[c] = x
      BY <1>5, <2>2
    <3> QED
      BY <1>2, <1>5, <1>6, <3>1, <3>2, <3>3, PoolTyped DEF OnlyOf
  <2>8. HeldOK(ses', stage', chan', x) /\ Alone(ses', x)
    <3>1. \A c \in Calls : stage'[c] # "idle" /\ chan'[c] = x => stage'[c] = "opening"
      BY <1>5, <2>2
    <3> QED
      BY <2>4, <2>6, <3>1 DEF HeldOK, HoldsOK, Alone
  <2>9. SessionOK(ses', spares', stage', chan', pooled', x)
    BY <1>2, <1>3, <1>6, <2>4, <2>6 DEF SessionOK
  <2>10. PoolOK(ses', spares', stage', chan', pooled')
    BY <2>4, <2>5, <2>7, <2>8, <2>9, PoolTyped, OneSession
  <2>11. CountOK(ses')
    BY <2>4, <2>6, PoolTyped, CountShrinks
  <2> QED
    BY <1>6, <2>10, <2>11, PoolTyped DEF PoolInv, PoolSettings
<1>8. CASE ~(ses[x].spare /\ Holders(x) # {})
  <2>1. /\ ses' = [ses EXCEPT ![x] = Free]
        /\ stage' = [c \in Calls |-> IF c \in Holders(x) THEN "idle" ELSE stage[c]]
        /\ chan' = [c \in Calls |-> IF c \in Holders(x) THEN NoId ELSE chan[c]]
    BY <1>4, <1>8 DEF OpenFails
  <2>2. Free \in Session /\ Free.st = "free" /\ ~Free.spare /\ Free.flag = "plain"
    BY DEF Free, Session
  <2>3. ses'[x] = Free /\ \A s \in Ids \ {x} : ses'[s] = ses[s]
    BY <2>1, PoolTyped
  <2>4. \A c \in Calls : ~(stage'[c] # "idle" /\ chan'[c] = x)
    BY <1>5, <2>1, PoolTyped
  <2>5. OnlyOf(x, spares, stage, chan, pooled, spares', stage', chan', pooled')
    <3>1. stage' \in [Calls -> Stages] /\ chan' \in [Calls -> Ids \cup {NoId}]
      BY <2>1, PoolTyped DEF Stages
    <3>2. \A c \in Calls : \/ stage'[c] = stage[c] /\ chan'[c] = chan[c]
                           \/ chan[c] = x /\ stage'[c] = "idle"
      BY <1>5, <2>1
    <3> QED
      BY <1>2, <1>6, <2>4, <3>1, <3>2, PoolTyped DEF OnlyOf
  <2>6. HeldOK(ses', stage', chan', x) /\ Alone(ses', x)
    BY <2>2, <2>3, <2>4 DEF HeldOK, Alone
  <2>7. SessionOK(ses', spares', stage', chan', pooled', x)
    BY <1>2, <1>3, <1>6, <2>2, <2>3 DEF SessionOK
  <2>8. PoolOK(ses', spares', stage', chan', pooled')
    BY <2>1, <2>2, <2>5, <2>6, <2>7, PoolTyped, OneSession
  <2>9. CountOK(ses')
    BY <2>2, <2>3, PoolTyped, CountShrinks
  <2> QED
    BY <1>6, <2>8, <2>9, PoolTyped DEF PoolInv, PoolSettings
<1> QED
  BY <1>7, <1>8

LEMMA SpareOpenedKeeps ==
  ASSUME PoolInv, NEW x \in Ids, SpareOpened(x)
  PROVE  PoolInv'
<1>1. /\ SessionOK(ses, spares, stage, chan, pooled, x) /\ ses[x].st = "shaking" /\ ses[x] \in Session
      /\ ses[x].spare
  BY PoolTyped, SessionFacts DEF SpareOpened
<1>2. ses[x].host \in Hosts /\ ses[x].flag # "superseded"
  BY <1>1 DEF SessionOK
<1>3. UNCHANGED <<stage, chan, pooled, exits, skipped, deferred>>
  BY DEF SpareOpened
<1>4. CASE Holders(x) = {}
  <2>1. \A c \in Calls : stage[c] # "idle" => chan[c] # x
    BY <1>4 DEF Holders
  <2>2. KeepSpare(ses[x].host, x)
    BY <1>4 DEF SpareOpened
  <2>3. /\ PoolOK(ses', spares', stage', chan', pooled') /\ CountOK(ses')
        /\ HostsOK(spares', spareHosts')
    BY <1>1, <1>2, <1>3, <2>1, <2>2, PoolTyped, KeepSpareOK
  <2> QED
    BY <1>3, <2>3, PoolTyped DEF PoolInv, PoolSettings
<1>5. CASE Holders(x) # {}
  <2>1. PICK c \in Calls : stage[c] # "idle" /\ chan[c] = x
    BY <1>5 DEF Holders
  <2>2. stage[c] = "waiting" /\ \A d \in Calls : stage[d] # "idle" /\ chan[d] = x => d = c
    BY <1>1, <2>1, PoolTyped, CallFacts DEF HoldsOK, Stages
  <2> DEFINE r == [ses[x] EXCEPT !.st = "landed", !.at = None, !.tried = {}]
  <2>3. /\ r \in Session /\ r.st = "landed" /\ r.spare /\ r.host = ses[x].host /\ r.flag = ses[x].flag
    BY <1>1 DEF Session
  <2>4. ses' = [ses EXCEPT ![x] = r] /\ UNCHANGED <<spares, spareHosts>>
    BY <1>1, <1>5, PoolTyped DEF SpareOpened
  <2> HIDE DEF r
  <2>5. ses'[x] = r /\ \A s \in Ids \ {x} : ses'[s] = ses[s]
    BY <2>4, PoolTyped
  <2>6. OnlyOf(x, spares, stage, chan, pooled, spares', stage', chan', pooled')
    BY <1>3, <2>2, <2>4, PoolTyped DEF OnlyOf
  <2>7. HeldOK(ses', stage', chan', x)
    BY <1>3, <2>2, <2>3, <2>5 DEF HeldOK, HoldsOK
  <2>8. Alone(ses', x)
    BY <2>5 DEF SpareOpened, Quiet, Landed, Alone
  <2>9. SessionOK(ses', spares', stage', chan', pooled', x)
    BY <1>1, <1>2, <1>3, <2>1, <2>2, <2>3, <2>4, <2>5 DEF SessionOK
  <2>10. PoolOK(ses', spares', stage', chan', pooled')
    BY <2>3, <2>4, <2>6, <2>7, <2>8, <2>9, PoolTyped, OneSession
  <2>11. CountOK(ses')
    BY <1>1, <2>3, <2>5, PoolTyped, CountShrinks
  <2> QED
    BY <1>3, <2>4, <2>10, <2>11, PoolTyped DEF PoolInv, PoolSettings
<1> QED
  BY <1>4, <1>5

-----------------------------------------------------------------------------
(* ... the timers of a spare                                               *)

LEMMA SpareFacts ==
  ASSUME NEW T, NEW P, NEW stg, NEW chn, NEW pl, PoolOK(T, P, stg, chn, pl),
         NEW h \in Hosts, NEW x \in ToSet(P[h])
  PROVE  /\ x \in Ids /\ T[x].spare /\ T[x].st = "open" /\ T[x].host = h /\ x \notin pl
         /\ \A c \in Calls : stg[c] # "idle" => chn[c] # x
<1>1. x \in Ids
  <2>1. P[h] \in Seq(Ids)
    BY DEF PoolOK
  <2> QED
    BY <2>1 DEF ToSet
<1>2. SessionOK(T, P, stg, chn, pl, x)
  BY <1>1, SessionFacts
<1>3. T[x].spare /\ T[x].st = "open" /\ T[x].host = h /\ x \notin pl
  BY <1>2 DEF SessionOK
<1>4. ASSUME NEW c \in Calls, stg[c] # "idle" PROVE chn[c] # x
  BY <1>3, <1>4, CallFacts DEF HoldsOK, Stages
<1> QED
  BY <1>1, <1>3, <1>4

LEMMA RefreshKeeps ==
  ASSUME PoolInv, NEW h \in Hosts, NEW x \in Ids, Refresh(h, x)
  PROVE  PoolInv'
<1>1. /\ x \in ToSet(spares[h]) /\ ses[x].flag = "due" /\ ses[x] \in Session
      /\ UNCHANGED <<spares, spareHosts, stage, chan, pooled, exits, skipped, deferred>>
  BY PoolTyped DEF Refresh
<1>2. /\ ses[x].spare /\ ses[x].st = "open" /\ ses[x].host = h /\ x \notin pooled
      /\ \A c \in Calls : stage[c] # "idle" => chan[c] # x
  BY <1>1, PoolTyped, SpareFacts
<1>3. SessionOK(ses, spares, stage, chan, pooled, x)
  BY PoolTyped, SessionFacts
<1>4. CASE ses' = [ses EXCEPT ![x].flag = "fired"]
  <2> DEFINE r == [ses[x] EXCEPT !.flag = "fired"]
  <2>1. /\ r \in Session /\ r.st = ses[x].st /\ r.spare = ses[x].spare /\ r.host = ses[x].host
        /\ r.flag = "fired" /\ ses' = [ses EXCEPT ![x] = r]
    BY <1>1, <1>4, PoolTyped DEF Session
  <2> HIDE DEF r
  <2>2. PoolOK(ses', spares, stage, chan, pooled) /\ CountOK(ses')
    BY <1>1, <1>2, <2>1, PoolTyped, SameSession
  <2> QED
    BY <1>1, <2>2, PoolTyped DEF PoolInv, PoolSettings
<1>5. CASE /\ ~\E o \in ToSet(spares[h]) : ses[o].flag = "superseded"
           /\ ses' \in OpenSpare([ses EXCEPT ![x].flag = "superseded"], h, FALSE)
  <2> DEFINE r == [ses[x] EXCEPT !.flag = "superseded"]
             T1 == [ses EXCEPT ![x].flag = "superseded"]
  <2>1. /\ r \in Session /\ r.st = "open" /\ r.spare /\ r.host = h
        /\ r.flag = "superseded" /\ T1 = [ses EXCEPT ![x] = r]
    BY <1>1, <1>2, PoolTyped DEF Session
  <2>2. ASSUME NEW s \in Ids, ses[s].spare, ses[s].host = h PROVE ses[s].flag # "superseded"
    <3>1. SessionOK(ses, spares, stage, chan, pooled, s)
      BY PoolTyped, SessionFacts
    <3> QED
      BY <1>5, <2>2, <3>1 DEF SessionOK
  <2>3. CountOK(T1) /\ Cardinality(LiveSpares(T1, h)) < Spares
    BY <1>2, <2>2, PoolTyped, CountSuperseded
  <2> HIDE DEF r, T1
  <2>4. T1[x] = r
    BY <2>1, PoolTyped
  <2>5. SessionOK(T1, spares, stage, chan, pooled, x)
    BY <1>2, <1>3, <2>1, <2>4 DEF SessionOK
  <2>6. PoolOK(T1, spares, stage, chan, pooled)
    BY <1>2, <2>1, <2>5, PoolTyped, LoneSession
  <2>7. PoolOK(ses', spares, stage, chan, pooled) /\ CountOK(ses')
    BY <1>5, <2>3, <2>6, PoolTyped, OpenSpareOK DEF T1
  <2> QED
    BY <1>1, <2>7, PoolTyped DEF PoolInv, PoolSettings
<1> QED
  BY <1>4, <1>5 DEF Refresh

LEMMA ExpireKeeps ==
  ASSUME PoolInv, NEW h \in Hosts, NEW x \in Ids, Expire(h, x)
  PROVE  PoolInv'
<1> DEFINE left == [spares EXCEPT ![h] = Drop(@, x)]
           torn == Torn(ses, {x})
<1>1. /\ x \in ToSet(spares[h]) /\ Quiet /\ spares' = left
      /\ spareHosts' = IF left[h] = <<>> THEN Drop(spareHosts, h) ELSE spareHosts
      /\ ses' = torn \/ (SpareCount(torn, left, h) < Spares /\ ses' \in OpenSpare(torn, h, FALSE))
      /\ UNCHANGED <<stage, chan, pooled, exits, skipped, deferred>>
  BY DEF Expire
<1>2. /\ ses[x].spare /\ ses[x].st = "open" /\ ses[x].host = h /\ x \notin pooled
      /\ \A c \in Calls : stage[c] # "idle" => chan[c] # x
  BY <1>1, PoolTyped, SpareFacts
<1>3. torn = [ses EXCEPT ![x] = Free]
  BY PoolTyped, TornOne
<1>4. /\ Drop(spares[h], x) \in Seq(Ids) /\ NoRepeats(Drop(spares[h], x))
      /\ ToSet(Drop(spares[h], x)) = ToSet(spares[h]) \ {x}
  BY PoolTyped, DropFacts
<1>5. left \in [Hosts -> Seq(Ids)] /\ \A g \in Hosts : left[g] = IF g = h THEN Drop(spares[h], x) ELSE spares[g]
  BY <1>4, PoolTyped
<1> HIDE DEF left, torn
<1>6. ASSUME NEW g \in Hosts
      PROVE  NoRepeats(left[g]) /\ ToSet(left[g]) \ {x} = ToSet(spares[g]) \ {x} /\ x \notin ToSet(left[g])
  <2>1. CASE g = h
    BY <1>4, <1>5, <2>1
  <2>2. CASE g # h
    <3>1. x \notin ToSet(spares[g])
      BY <1>2, <2>2, PoolTyped, SpareFacts
    <3> QED
      BY <1>5, <2>2, <3>1, PoolTyped
  <2> QED
    BY <2>1, <2>2
<1>7. torn[x] = Free /\ (\A s \in Ids \ {x} : torn[s] = ses[s]) /\ Free \in Session
  BY <1>3, PoolTyped DEF Free, Session
<1>8. SessionOK(torn, left, stage, chan, pooled, x)
  BY <1>2, <1>6, <1>7 DEF SessionOK, Free
<1>9. PoolOK(torn, left, stage, chan, pooled)
  <2>1. OnlyOf(x, spares, stage, chan, pooled, left, stage, chan, pooled)
    BY <1>2, <1>5, <1>6, PoolTyped DEF OnlyOf
  <2>2. HeldOK(torn, stage, chan, x) /\ Alone(torn, x)
    BY <1>2, <1>7 DEF HeldOK, Alone, Free
  <2> QED
    BY <1>3, <1>7, <1>8, <2>1, <2>2, PoolTyped, OneSession
<1>10. CountOK(torn)
  BY <1>7, PoolTyped, CountShrinks DEF Free
<1>11. \A s \in Ids : torn[s].st # "landed"
  BY <1>1, <1>7 DEF Quiet, Landed, Free
<1>12. PoolOK(ses', left, stage, chan, pooled) /\ CountOK(ses')
  <2>1. CASE ses' = torn
    BY <1>9, <1>10, <2>1
  <2>2. CASE SpareCount(torn, left, h) < Spares /\ ses' \in OpenSpare(torn, h, FALSE)
    <3>1. Cardinality(LiveSpares(torn, h)) < Spares
      BY <1>9, <1>11, <2>2, SpareCountFacts
    <3> QED
      BY <1>9, <1>10, <2>2, <3>1, PoolTyped, OpenSpareOK
  <2> QED
    BY <1>1, <2>1, <2>2
<1>13. HostsOK(spares', spareHosts')
  <2>1. /\ spareHosts \in Seq(Hosts) /\ NoRepeats(spareHosts) /\ Len(spareHosts) <= MaxSpareHosts
        /\ Len(spareHosts) \in Nat /\ \A g \in Hosts : spares[g] # <<>> => g \in ToSet(spareHosts)
    BY PoolTyped DEF HostsOK
  <2>2. /\ Drop(spareHosts, h) \in Seq(Hosts) /\ ToSet(Drop(spareHosts, h)) = ToSet(spareHosts) \ {h}
        /\ NoRepeats(Drop(spareHosts, h))
        /\ Len(Drop(spareHosts, h)) = IF h \in ToSet(spareHosts) THEN Len(spareHosts) - 1 ELSE Len(spareHosts)
    BY <2>1, DropFacts
  <2>3. Len(Drop(spareHosts, h)) <= MaxSpareHosts
    BY <2>1, <2>2, TlsPoolAssumption
  <2>4. spares[h] # <<>>
    BY <1>1 DEF ToSet
  <2>5. \A g \in Hosts : left[g] # <<>> => g \in ToSet(spareHosts')
    BY <1>1, <1>5, <2>1, <2>2, <2>4
  <2> QED
    BY <1>1, <2>1, <2>2, <2>3, <2>5 DEF HostsOK
<1> QED
  BY <1>1, <1>12, <1>13, PoolTyped DEF PoolInv, PoolSettings

-----------------------------------------------------------------------------
(* ... acquire()                                                           *)

LEMMA TakeSpareKeeps ==
  ASSUME PoolInv, NEW c \in Calls, NEW h \in Hosts, TakeSpare(c, h)
  PROVE  PoolInv'
<1> DEFINE x == Head(spares[h])
           left == [spares EXCEPT ![h] = Tail(@)]
           taken == [ses EXCEPT ![x].flag = "plain", ![x].spare = FALSE]
<1>1. /\ Quiet /\ stage[c] = "idle" /\ spares[h] # <<>> /\ ses' \in Replenish(taken, left, h)
      /\ spares' = left /\ chan' = [chan EXCEPT ![c] = x] /\ stage' = [stage EXCEPT ![c] = "using"]
      /\ spareHosts' = MovedLast(spareHosts, h) /\ deferred' = Deferred(h)
      /\ UNCHANGED <<exits, skipped, pooled>>
  BY DEF TakeSpare
<1>2. /\ Tail(spares[h]) \in Seq(Ids) /\ x \in ToSet(spares[h])
      /\ ToSet(Tail(spares[h])) = ToSet(spares[h]) \ {x} /\ NoRepeats(Tail(spares[h]))
  BY <1>1, PoolTyped, TailFacts
<1> HIDE DEF x
<1>3. /\ x \in Ids /\ ses[x].spare /\ ses[x].st = "open" /\ ses[x].host = h /\ x \notin pooled
      /\ \A d \in Calls : stage[d] # "idle" => chan[d] # x
  <2>1. PoolOK(ses, spares, stage, chan, pooled) /\ x \in ToSet(spares[h])
    BY <1>2, PoolTyped
  <2> QED
    BY <2>1, SpareFacts
<1>4. left \in [Hosts -> Seq(Ids)] /\ \A g \in Hosts : left[g] = IF g = h THEN Tail(spares[h]) ELSE spares[g]
  BY <1>2, PoolTyped
<1> DEFINE r == [ses[x] EXCEPT !.flag = "plain", !.spare = FALSE]
<1>5. /\ r \in Session /\ r.st = "open" /\ ~r.spare /\ r.flag = "plain" /\ r.host = h
      /\ taken = [ses EXCEPT ![x] = r]
  <2>1. ses[x] \in Session
    BY <1>3, PoolTyped
  <2> QED
    BY <1>3, <2>1, PoolTyped DEF Session
<1> HIDE DEF left, taken, r
<1>6. ASSUME NEW g \in Hosts
      PROVE  NoRepeats(left[g]) /\ ToSet(left[g]) \ {x} = ToSet(spares[g]) \ {x} /\ x \notin ToSet(left[g])
  <2>1. CASE g = h
    BY <1>2, <1>4, <2>1
  <2>2. CASE g # h
    <3>1. x \notin ToSet(spares[g])
      BY <1>3, <2>2, PoolTyped, SpareFacts
    <3> QED
      BY <1>4, <2>2, <3>1, PoolTyped
  <2> QED
    BY <2>1, <2>2
<1>7. taken[x] = r /\ \A s \in Ids \ {x} : taken[s] = ses[s]
  BY <1>3, <1>5, PoolTyped
<1>8. /\ stage' \in [Calls -> Stages] /\ chan' \in [Calls -> Ids \cup {NoId}] /\ stage'[c] = "using" /\ chan'[c] = x
      /\ \A d \in Calls \ {c} : stage'[d] = stage[d] /\ chan'[d] = chan[d]
  BY <1>1, <1>3, PoolTyped DEF Stages
<1>9. OnlyOf(x, spares, stage, chan, pooled, left, stage', chan', pooled)
  BY <1>1, <1>3, <1>4, <1>6, <1>8, PoolTyped DEF OnlyOf
<1>10. HeldOK(taken, stage', chan', x) /\ Alone(taken, x)
  BY <1>3, <1>5, <1>7, <1>8 DEF HeldOK, HoldsOK, Alone
<1>11. SessionOK(taken, left, stage', chan', pooled, x)
  BY <1>3, <1>5, <1>6, <1>7, <1>8 DEF SessionOK
<1>12. PoolOK(taken, left, stage', chan', pooled)
  BY <1>3, <1>5, <1>9, <1>10, <1>11, PoolTyped, OneSession
<1>13. CountOK(taken)
  BY <1>5, <1>7, PoolTyped, CountShrinks
<1>14. \A s \in Ids : taken[s].st # "landed"
  BY <1>1, <1>5, <1>7 DEF Quiet, Landed
<1>15. PoolOK(ses', left, stage', chan', pooled) /\ CountOK(ses')
  BY <1>1, <1>12, <1>13, <1>14, PoolTyped, ReplenishOK
<1>16. HostsOK(spares', spareHosts')
  <2>1. /\ spareHosts \in Seq(Hosts) /\ NoRepeats(spareHosts) /\ Len(spareHosts) <= MaxSpareHosts
        /\ \A g \in Hosts : spares[g] # <<>> => g \in ToSet(spareHosts)
    BY PoolTyped DEF HostsOK
  <2>2. /\ MovedLast(spareHosts, h) \in Seq(Hosts) /\ ToSet(MovedLast(spareHosts, h)) = ToSet(spareHosts) \cup {h}
        /\ NoRepeats(MovedLast(spareHosts, h)) /\ Len(MovedLast(spareHosts, h)) = Len(spareHosts)
    BY <1>1, <2>1, MovedLastFacts
  <2>3. \A g \in Hosts : left[g] # <<>> => g \in ToSet(MovedLast(spareHosts, h))
    BY <1>4, <2>1, <2>2
  <2> QED
    BY <1>1, <2>1, <2>2, <2>3 DEF HostsOK
<1>17. PoolSettings'
  BY <1>1, PoolTyped DEF PoolSettings, Deferred
<1> QED
  BY <1>1, <1>15, <1>16, <1>17 DEF PoolInv

LEMMA WaitForSpareKeeps ==
  ASSUME PoolInv, NEW c \in Calls, NEW h \in Hosts, NEW x \in Ids, WaitForSpare(c, h, x)
  PROVE  PoolInv'
<1>1. /\ stage[c] = "idle" /\ ses[x].st = "shaking" /\ ses[x].spare /\ Holders(x) = {}
      /\ stage' = [stage EXCEPT ![c] = "waiting"] /\ chan' = [chan EXCEPT ![c] = x]
      /\ UNCHANGED <<exits, skipped, ses, spares, spareHosts, deferred, pooled>>
  BY DEF WaitForSpare
<1>2. /\ stage' \in [Calls -> Stages] /\ chan' \in [Calls -> Ids \cup {NoId}] /\ stage'[c] = "waiting" /\ chan'[c] = x
      /\ \A d \in Calls \ {c} : stage'[d] = stage[d] /\ chan'[d] = chan[d]
  BY <1>1, PoolTyped DEF Stages
<1>3. \A d \in Calls : stage[d] # "idle" => chan[d] # x
  BY <1>1 DEF Holders
<1>4. OnlyOf(x, spares, stage, chan, pooled, spares, stage', chan', pooled)
  BY <1>1, <1>2, <1>3, PoolTyped DEF OnlyOf
<1>5. HeldOK(ses, stage', chan', x) /\ Alone(ses, x)
  BY <1>1, <1>2, <1>3 DEF HeldOK, HoldsOK, Alone
<1>6. SessionOK(ses, spares, stage, chan, pooled, x)
  BY PoolTyped, SessionFacts
<1>7. SessionOK(ses, spares, stage', chan', pooled, x)
  BY <1>1, <1>6 DEF SessionOK
<1>8. ses = [ses EXCEPT ![x] = ses[x]] /\ ses[x] \in Session
  BY PoolTyped
<1>9. PoolOK(ses, spares, stage', chan', pooled)
  BY <1>4, <1>5, <1>7, <1>8, PoolTyped, OneSession
<1> QED
  BY <1>1, <1>9, PoolTyped DEF PoolInv, PoolSettings

LEMMA OpenOwnKeeps ==
  ASSUME PoolInv, NEW c \in Calls, NEW h \in Hosts, OpenOwn(c, h)
  PROVE  PoolInv'
<1> DEFINE x == NewId(ses)
<1>1. /\ stage[c] = "idle" /\ HasId(ses)
      /\ stage' = [stage EXCEPT ![c] = "opening"] /\ chan' = [chan EXCEPT ![c] = x]
      /\ UNCHANGED <<exits, skipped, spares, spareHosts, deferred, pooled>>
  BY DEF OpenOwn
<1>2. PICK e \in NextExits({}, skipped) : ses' = Begin(ses, x, h, FALSE, e)
  BY DEF OpenOwn
<1>3. x \in Ids /\ ses[x].st = "free"
  BY <1>1, PoolTyped, NoSpareIsFree
<1> HIDE DEF x
<1> DEFINE r == [Free EXCEPT !.st = "shaking", !.host = h, !.spare = FALSE, !.at = e]
<1>4. e \in Exits \cup {None}
  BY PoolTyped, NextExitsTyped
<1>5. /\ r \in Session /\ r.st = "shaking" /\ ~r.spare /\ r.flag = "plain" /\ r.host = h
      /\ ses' = [ses EXCEPT ![x] = r]
  BY <1>2, <1>4 DEF Begin, Free, Session
<1> HIDE DEF r
<1>6. ses'[x] = r /\ \A s \in Ids \ {x} : ses'[s] = ses[s]
  BY <1>3, <1>5, PoolTyped
<1>7. /\ stage' \in [Calls -> Stages] /\ chan' \in [Calls -> Ids \cup {NoId}] /\ stage'[c] = "opening" /\ chan'[c] = x
      /\ \A d \in Calls \ {c} : stage'[d] = stage[d] /\ chan'[d] = chan[d]
  BY <1>1, <1>3, PoolTyped DEF Stages
<1>8. /\ \A g \in Hosts : NoRepeats(spares[g]) /\ x \notin ToSet(spares[g])
      /\ x \notin pooled /\ \A d \in Calls : stage[d] # "idle" => chan[d] # x
  BY <1>3, PoolTyped, SessionFacts
<1>9. OnlyOf(x, spares, stage, chan, pooled, spares, stage', chan', pooled)
  BY <1>1, <1>7, <1>8, PoolTyped DEF OnlyOf
<1>10. HeldOK(ses', stage', chan', x) /\ Alone(ses', x)
  BY <1>5, <1>6, <1>7, <1>8 DEF HeldOK, HoldsOK, Alone
<1>11. SessionOK(ses', spares, stage', chan', pooled, x)
  BY <1>5, <1>6, <1>8 DEF SessionOK
<1>12. PoolOK(ses', spares, stage', chan', pooled)
  BY <1>3, <1>5, <1>9, <1>10, <1>11, PoolTyped, OneSession
<1>13. CountOK(ses')
  BY <1>5, <1>6, PoolTyped, CountShrinks
<1> QED
  BY <1>1, <1>12, <1>13, PoolTyped DEF PoolInv, PoolSettings

LEMMA IdleFacts ==
  ASSUME NEW T, NEW P, NEW stg, NEW chn, NEW pl, PoolOK(T, P, stg, chn, pl), NEW x \in pl, T[x].flag = "idle"
  PROVE  /\ x \in Ids /\ ~T[x].spare /\ T[x].st = "open"
         /\ \A c \in Calls : stg[c] # "idle" => chn[c] # x
         /\ \A h \in Hosts : x \notin ToSet(P[h])
<1>1. x \in Ids
  BY DEF PoolOK
<1>2. SessionOK(T, P, stg, chn, pl, x)
  BY <1>1, SessionFacts
<1>3. ~T[x].spare /\ T[x].st = "open" /\ \A h \in Hosts : x \notin ToSet(P[h])
  BY <1>2 DEF SessionOK
<1>4. ASSUME NEW c \in Calls, stg[c] # "idle" PROVE chn[c] # x
  BY <1>3, <1>4, CallFacts DEF HoldsOK, Stages
<1> QED
  BY <1>1, <1>3, <1>4

LEMMA ReuseKeeps ==
  ASSUME PoolInv, NEW c \in Calls, NEW h \in Hosts, NEW x \in Ids, Reuse(c, h, x)
  PROVE  PoolInv'
<1>1. /\ stage[c] = "idle" /\ x \in pooled /\ ses[x].flag = "idle" /\ ses' = [ses EXCEPT ![x].flag = "busy"]
      /\ stage' = [stage EXCEPT ![c] = "using"] /\ chan' = [chan EXCEPT ![c] = x]
      /\ UNCHANGED <<exits, skipped, spares, spareHosts, deferred, pooled>>
  BY DEF Reuse
<1>2. /\ ~ses[x].spare /\ ses[x].st = "open" /\ (\A d \in Calls : stage[d] # "idle" => chan[d] # x)
      /\ \A g \in Hosts : x \notin ToSet(spares[g])
  <2>1. PoolOK(ses, spares, stage, chan, pooled)
    BY PoolTyped
  <2> QED
    BY <1>1, <2>1, IdleFacts
<1> DEFINE r == [ses[x] EXCEPT !.flag = "busy"]
<1>3. /\ r \in Session /\ r.st = "open" /\ ~r.spare /\ r.flag = "busy" /\ r.host = ses[x].host
      /\ ses' = [ses EXCEPT ![x] = r]
  BY <1>1, <1>2, PoolTyped DEF Session
<1> HIDE DEF r
<1>4. ses'[x] = r /\ \A s \in Ids \ {x} : ses'[s] = ses[s]
  BY <1>3, PoolTyped
<1>5. /\ stage' \in [Calls -> Stages] /\ chan' \in [Calls -> Ids \cup {NoId}] /\ stage'[c] = "using" /\ chan'[c] = x
      /\ \A d \in Calls \ {c} : stage'[d] = stage[d] /\ chan'[d] = chan[d]
  BY <1>1, PoolTyped DEF Stages
<1>6. OnlyOf(x, spares, stage, chan, pooled, spares, stage', chan', pooled)
  BY <1>1, <1>2, <1>5, PoolTyped DEF OnlyOf
<1>7. HeldOK(ses', stage', chan', x) /\ Alone(ses', x)
  BY <1>2, <1>3, <1>4, <1>5 DEF HeldOK, HoldsOK, Alone
<1>8. SessionOK(ses, spares, stage, chan, pooled, x)
  BY PoolTyped, SessionFacts
<1>9. SessionOK(ses', spares, stage', chan', pooled, x)
  BY <1>2, <1>3, <1>4, <1>5, <1>8 DEF SessionOK
<1>10. PoolOK(ses', spares, stage', chan', pooled)
  BY <1>3, <1>6, <1>7, <1>9, PoolTyped, OneSession
<1>11. CountOK(ses')
  BY <1>3, <1>4, PoolTyped, CountShrinks
<1> QED
  BY <1>1, <1>10, <1>11, PoolTyped DEF PoolInv, PoolSettings

LEMMA OwnOpenedKeeps ==
  ASSUME PoolInv, NEW c \in Calls, OwnOpened(c)
  PROVE  PoolInv'
<1> DEFINE x == chan[c]
           h == ses[x].host
           r == [Free EXCEPT !.st = "open", !.host = h, !.flag = "busy"]
           done == [ses EXCEPT ![x] = r]
<1>1. /\ Quiet /\ stage[c] = "opening" /\ ses' \in Replenish(done, spares, h)
      /\ pooled' = pooled \cup {x} \/ pooled' = pooled
      /\ deferred' = Deferred(h) /\ stage' = [stage EXCEPT ![c] = "using"]
      /\ UNCHANGED <<exits, skipped, chan, spares, spareHosts>>
  BY DEF OwnOpened
<1>2. /\ x \in Ids /\ ses[x].st = "shaking" /\ ~ses[x].spare
      /\ \A d \in Calls : stage[d] # "idle" /\ chan[d] = x => d = c
  BY <1>1, PoolTyped, CallFacts DEF HoldsOK
<1>3. /\ SessionOK(ses, spares, stage, chan, pooled, x) /\ x \notin pooled
      /\ \A g \in Hosts : x \notin ToSet(spares[g])
  BY <1>2, PoolTyped, SessionFacts
<1>4. h \in Hosts
  BY <1>2, <1>3 DEF SessionOK
<1>5. r \in Session /\ r.st = "open" /\ ~r.spare /\ r.flag = "busy" /\ r.host = h
  BY <1>4 DEF Free, Session
<1> HIDE DEF r, h
<1>6. done[x] = r /\ \A s \in Ids \ {x} : done[s] = ses[s]
  BY <1>2, PoolTyped
<1>7. /\ stage' \in [Calls -> Stages] /\ chan' \in [Calls -> Ids \cup {NoId}] /\ stage'[c] = "using" /\ chan'[c] = x
      /\ \A d \in Calls \ {c} : stage'[d] = stage[d] /\ chan'[d] = chan[d]
  BY <1>1, PoolTyped DEF Stages
<1>8. pooled' \in SUBSET Ids /\ pooled' \ {x} = pooled \ {x}
  BY <1>1, <1>2, PoolTyped
<1> HIDE DEF x, done
<1>9. OnlyOf(x, spares, stage, chan, pooled, spares, stage', chan', pooled')
  <2>1. chan[c] = x
    BY DEF x
  <2> QED
    BY <1>2, <1>7, <1>8, <2>1, PoolTyped DEF OnlyOf
<1>10. HeldOK(done, stage', chan', x) /\ Alone(done, x)
  BY <1>2, <1>5, <1>6, <1>7 DEF HeldOK, HoldsOK, Alone
<1>11. SessionOK(done, spares, stage', chan', pooled', x)
  BY <1>3, <1>4, <1>5, <1>6, <1>7 DEF SessionOK
<1>12. PoolOK(done, spares, stage', chan', pooled')
  BY <1>2, <1>5, <1>9, <1>10, <1>11, PoolTyped, OneSession DEF done
<1>13. CountOK(done)
  BY <1>5, <1>6, PoolTyped, CountShrinks
<1>14. \A s \in Ids : done[s].st # "landed"
  BY <1>1, <1>5, <1>6 DEF Quiet, Landed
<1>15. PoolOK(ses', spares, stage', chan', pooled') /\ CountOK(ses')
  <2>1. ses' \in Replenish(done, spares, h)
    BY <1>1 DEF done, r, h, x
  <2> QED
    BY <1>4, <1>12, <1>13, <1>14, <2>1, PoolTyped, ReplenishOK
<1>16. PoolSettings'
  BY <1>1, <1>4, PoolTyped DEF PoolSettings, Deferred, h, x
<1> QED
  BY <1>1, <1>15, <1>16, PoolTyped DEF PoolInv

LEMMA WaitResumesKeeps ==
  ASSUME PoolInv, NEW c \in Calls, WaitResumes(c)
  PROVE  PoolInv'
<1> DEFINE x == chan[c]
           h == ses[x].host
           r == [Free EXCEPT !.st = "open", !.host = h]
           done == [ses EXCEPT ![x] = r]
<1>1. /\ stage[c] = "waiting" /\ ses[x].st = "landed" /\ ses' \in Replenish(done, spares, h)
      /\ deferred' = Deferred(h) /\ stage' = [stage EXCEPT ![c] = "using"]
      /\ UNCHANGED <<exits, skipped, chan, spares, spareHosts, pooled>>
  BY DEF WaitResumes
<1>2. x \in Ids /\ \A d \in Calls : stage[d] # "idle" /\ chan[d] = x => d = c
  BY <1>1, PoolTyped, CallFacts
<1>3. /\ SessionOK(ses, spares, stage, chan, pooled, x) /\ x \notin pooled
      /\ \A g \in Hosts : x \notin ToSet(spares[g])
  BY <1>1, <1>2, PoolTyped, SessionFacts
<1>4. h \in Hosts
  BY <1>1, <1>3 DEF SessionOK
<1>5. r \in Session /\ r.st = "open" /\ ~r.spare /\ r.flag = "plain" /\ r.host = h
  BY <1>4 DEF Free, Session
<1> HIDE DEF r, h
<1>6. done[x] = r /\ \A s \in Ids \ {x} : done[s] = ses[s]
  BY <1>2, PoolTyped
<1>7. /\ stage' \in [Calls -> Stages] /\ chan' \in [Calls -> Ids \cup {NoId}] /\ stage'[c] = "using" /\ chan'[c] = x
      /\ \A d \in Calls \ {c} : stage'[d] = stage[d] /\ chan'[d] = chan[d]
  BY <1>1, PoolTyped DEF Stages
<1>8. \A s \in Ids \ {x} : ses[s].st # "landed"
  BY <1>1, <1>2, PoolTyped DEF PoolOK
<1> HIDE DEF x, done
<1>9. OnlyOf(x, spares, stage, chan, pooled, spares, stage', chan', pooled)
  <2>1. chan[c] = x
    BY DEF x
  <2> QED
    BY <1>2, <1>7, <2>1, PoolTyped DEF OnlyOf
<1>10. HeldOK(done, stage', chan', x) /\ Alone(done, x)
  BY <1>2, <1>5, <1>6, <1>7 DEF HeldOK, HoldsOK, Alone
<1>11. SessionOK(done, spares, stage', chan', pooled, x)
  BY <1>3, <1>4, <1>5, <1>6, <1>7 DEF SessionOK
<1>12. PoolOK(done, spares, stage', chan', pooled)
  BY <1>2, <1>5, <1>9, <1>10, <1>11, PoolTyped, OneSession DEF done
<1>13. CountOK(done)
  BY <1>5, <1>6, PoolTyped, CountShrinks
<1>14. \A s \in Ids : done[s].st # "landed"
  BY <1>5, <1>6, <1>8
<1>15. PoolOK(ses', spares, stage', chan', pooled) /\ CountOK(ses')
  <2>1. ses' \in Replenish(done, spares, h)
    BY <1>1 DEF done, r, h, x
  <2> QED
    BY <1>4, <1>12, <1>13, <1>14, <2>1, PoolTyped, ReplenishOK
<1>16. PoolSettings'
  BY <1>1, <1>4, PoolTyped DEF PoolSettings, Deferred, h, x
<1> QED
  BY <1>1, <1>15, <1>16, PoolTyped DEF PoolInv

LEMMA WaitGivesUpKeeps ==
  ASSUME PoolInv, NEW c \in Calls, WaitGivesUp(c)
  PROVE  PoolInv'
<1> DEFINE x == chan[c]
<1>1. /\ stage[c] = "waiting" /\ stage' = [stage EXCEPT ![c] = "idle"] /\ chan' = [chan EXCEPT ![c] = NoId]
      /\ IF ses[x].st = "landed" THEN KeepSpare(ses[x].host, x) ELSE UNCHANGED <<ses, spares, spareHosts>>
      /\ UNCHANGED <<exits, skipped, deferred, pooled>>
  BY DEF WaitGivesUp
<1>2. /\ x \in Ids /\ ses[x].st \in {"shaking", "landed"} /\ ses[x].spare
      /\ \A d \in Calls : stage[d] # "idle" /\ chan[d] = x => d = c
  BY <1>1, PoolTyped, CallFacts DEF HoldsOK
<1>3. SessionOK(ses, spares, stage, chan, pooled, x)
  BY <1>2, PoolTyped, SessionFacts
<1>4. ses[x].host \in Hosts
  BY <1>2, <1>3 DEF SessionOK
<1>5. /\ stage' \in [Calls -> Stages] /\ chan' \in [Calls -> Ids \cup {NoId}] /\ stage'[c] = "idle"
      /\ \A d \in Calls \ {c} : stage'[d] = stage[d] /\ chan'[d] = chan[d]
  BY <1>1, PoolTyped DEF Stages
<1>6. /\ \A d \in Calls : (stage'[d] = stage[d] /\ chan'[d] = chan[d]) \/ (chan[d] = x /\ stage'[d] = "idle")
      /\ \A d \in Calls : stage'[d] # "idle" => chan'[d] # x
  BY <1>2, <1>5
<1> HIDE DEF x
<1>7. CASE ses[x].st = "landed"
  <2>1. /\ PoolOK(ses', spares', stage', chan', pooled') /\ CountOK(ses')
        /\ HostsOK(spares', spareHosts')
    BY <1>1, <1>2, <1>4, <1>5, <1>6, <1>7, KeepSpareOK
  <2> QED
    BY <1>1, <2>1, PoolTyped DEF PoolInv, PoolSettings
<1>8. CASE ses[x].st = "shaking"
  <2>1. UNCHANGED <<ses, spares, spareHosts>>
    BY <1>1, <1>8
  <2>2. OnlyOf(x, spares, stage, chan, pooled, spares, stage', chan', pooled)
    BY <1>5, <1>6, PoolTyped DEF OnlyOf
  <2>3. HeldOK(ses, stage', chan', x) /\ Alone(ses, x)
    BY <1>6, <1>8 DEF HeldOK, Alone
  <2>4. SessionOK(ses, spares, stage', chan', pooled, x)
    BY <1>3, <1>8 DEF SessionOK
  <2>5. ses = [ses EXCEPT ![x] = ses[x]] /\ ses[x] \in Session
    BY <1>2, PoolTyped
  <2>6. PoolOK(ses, spares, stage', chan', pooled)
    BY <1>2, <2>2, <2>3, <2>4, <2>5, PoolTyped, OneSession
  <2> QED
    BY <1>1, <2>1, <2>6, PoolTyped DEF PoolInv, PoolSettings
<1> QED
  BY <1>2, <1>7, <1>8

-----------------------------------------------------------------------------
(* ... release() and the retirement of shared sessions                     *)

LEMMA ReleaseKeeps ==
  ASSUME PoolInv, NEW c \in Calls, NEW usable \in BOOLEAN, Release(c, usable)
  PROVE  PoolInv'
<1> DEFINE x == chan[c]
<1>1. /\ stage[c] = "using" /\ (usable => x \in pooled /\ ses[x].st = "open")
      /\ stage' = [stage EXCEPT ![c] = "idle"] /\ chan' = [chan EXCEPT ![c] = NoId]
      /\ IF usable THEN ses' = [ses EXCEPT ![x].flag = "idle"] /\ pooled' = pooled
                   ELSE ses' = Torn(ses, {x}) /\ pooled' = pooled \ {x}
      /\ UNCHANGED <<exits, skipped, spares, spareHosts, deferred>>
  BY DEF Release
<1>2. /\ x \in Ids /\ (ses[x].st = "dead" \/ (ses[x].st = "open" /\ ~ses[x].spare))
      /\ \A d \in Calls : stage[d] # "idle" /\ chan[d] = x => d = c
  BY <1>1, PoolTyped, CallFacts DEF HoldsOK
<1>3. SessionOK(ses, spares, stage, chan, pooled, x) /\ ses[x] \in Session
  BY <1>2, PoolTyped, SessionFacts
<1>4. ~ses[x].spare /\ \A g \in Hosts : x \notin ToSet(spares[g])
  BY <1>2, <1>3 DEF SessionOK
<1>5. /\ stage' \in [Calls -> Stages] /\ chan' \in [Calls -> Ids \cup {NoId}] /\ stage'[c] = "idle"
      /\ \A d \in Calls \ {c} : stage'[d] = stage[d] /\ chan'[d] = chan[d]
  BY <1>1, PoolTyped DEF Stages
<1>6. /\ \A d \in Calls : (stage'[d] = stage[d] /\ chan'[d] = chan[d]) \/ (chan[d] = x /\ stage'[d] = "idle")
      /\ \A d \in Calls : stage'[d] # "idle" => chan'[d] # x
  BY <1>2, <1>5
<1>7. pooled' \in SUBSET Ids /\ pooled' \ {x} = pooled \ {x}
  BY <1>1, PoolTyped
<1> HIDE DEF x
<1>8. OnlyOf(x, spares, stage, chan, pooled, spares, stage', chan', pooled')
  BY <1>5, <1>6, <1>7, PoolTyped DEF OnlyOf
<1>9. PICK r \in Session : /\ ses' = [ses EXCEPT ![x] = r] /\ ~r.spare
                           /\ \/ usable /\ r.st = "open" /\ r.flag = "idle" /\ r.host = ses[x].host
                              \/ ~usable /\ r = Free
  <2>1. CASE usable
    <3> DEFINE r == [ses[x] EXCEPT !.flag = "idle"]
    <3>1. /\ r \in Session /\ r.st = "open" /\ r.flag = "idle" /\ r.host = ses[x].host /\ ~r.spare
          /\ ses' = [ses EXCEPT ![x] = r]
      BY <1>1, <1>2, <1>3, <1>4, <2>1, PoolTyped DEF Session
    <3> QED
      BY <2>1, <3>1
  <2>2. CASE ~usable
    <3>1. Free \in Session /\ ~Free.spare
      BY DEF Free, Session
    <3>2. ses' = [ses EXCEPT ![x] = Free]
      BY <1>1, <1>2, <2>2, PoolTyped, TornOne
    <3> QED
      BY <2>2, <3>1, <3>2
  <2> QED
    BY <2>1, <2>2
<1>10. ses'[x] = r /\ \A s \in Ids \ {x} : ses'[s] = ses[s]
  BY <1>2, <1>9, PoolTyped
<1>11. HeldOK(ses', stage', chan', x) /\ Alone(ses', x)
  BY <1>6, <1>9, <1>10 DEF HeldOK, Alone, Free
<1>12. SessionOK(ses', spares, stage', chan', pooled', x)
  <2>1. CASE usable
    BY <1>1, <1>2, <1>3, <1>4, <1>9, <1>10, <2>1 DEF SessionOK
  <2>2. CASE ~usable
    <3>1. x \notin pooled' /\ ses'[x] = Free
      BY <1>1, <1>9, <1>10, <2>2
    <3> QED
      BY <1>4, <3>1 DEF SessionOK, Free
  <2> QED
    BY <2>1, <2>2
<1>13. PoolOK(ses', spares, stage', chan', pooled')
  BY <1>2, <1>8, <1>9, <1>11, <1>12, PoolTyped, OneSession
<1>14. CountOK(ses')
  BY <1>9, <1>10, PoolTyped, CountShrinks
<1> QED
  BY <1>1, <1>13, <1>14, PoolTyped DEF PoolInv, PoolSettings

LEMMA RetireKeeps ==
  ASSUME PoolInv, NEW x \in Ids, Retire(x)
  PROVE  PoolInv'
<1>1. /\ x \in pooled /\ ses[x].flag = "idle" /\ ses' = Torn(ses, {x}) /\ pooled' = pooled \ {x}
      /\ UNCHANGED <<exits, skipped, stage, chan, spares, spareHosts, deferred>>
  BY DEF Retire
<1>2. /\ (\A d \in Calls : stage[d] # "idle" => chan[d] # x)
      /\ \A g \in Hosts : x \notin ToSet(spares[g])
  <2>1. PoolOK(ses, spares, stage, chan, pooled)
    BY PoolTyped
  <2> QED
    BY <1>1, <2>1, IdleFacts
<1>3. ses' = [ses EXCEPT ![x] = Free] /\ Free \in Session
  BY <1>1, PoolTyped, TornOne DEF Free, Session
<1>4. ses'[x] = Free /\ \A s \in Ids \ {x} : ses'[s] = ses[s]
  BY <1>3, PoolTyped
<1>5. OnlyOf(x, spares, stage, chan, pooled, spares, stage, chan, pooled')
  BY <1>1, <1>2, PoolTyped DEF OnlyOf
<1>6. HeldOK(ses', stage, chan, x) /\ Alone(ses', x)
  BY <1>2, <1>4 DEF HeldOK, Alone, Free
<1>7. SessionOK(ses', spares, stage, chan, pooled', x)
  <2>1. ses'[x].st = "free" /\ ~ses'[x].spare /\ ses'[x].flag = "plain" /\ x \notin pooled'
    BY <1>1, <1>4 DEF Free
  <2> QED
    BY <1>2, <2>1 DEF SessionOK
<1>8. PoolOK(ses', spares, stage, chan, pooled')
  BY <1>3, <1>5, <1>6, <1>7, PoolTyped, OneSession
<1>9. CountOK(ses')
  BY <1>4, PoolTyped, CountShrinks DEF Free
<1> QED
  BY <1>1, <1>8, <1>9, PoolTyped DEF PoolInv, PoolSettings

-----------------------------------------------------------------------------
(* ... enableBackground() and close()                                      *)

LEMMA LeastNatural ==
  ASSUME NEW S \in SUBSET Nat, S # {}
  PROVE  \E x \in S : \A y \in S : x <= y
<1>1. IsWellFoundedOn(OpToRel(<, Nat), Nat)
  BY NatLessThanWellFounded
<1>2. PICK x \in S : \A y \in S : ~(<<y, x>> \in OpToRel(<, Nat))
  BY <1>1, WFMin
<1>3. \A y \in S : ~(y < x)
  BY <1>2 DEF OpToRel
<1> QED
  BY <1>3

LEMMA NatSetInduction ==
  ASSUME NEW S \in SUBSET Nat, 0 \in S, \A n \in S : n + 1 \in S
  PROVE  S = Nat
<1> SUFFICES ASSUME Nat \ S # {}
             PROVE  FALSE
  OBVIOUS
<1>1. PICK x \in Nat \ S : \A y \in Nat \ S : x <= y
  BY LeastNatural
<1>2. x # 0 /\ x - 1 \in Nat
  BY <1>1
<1>3. x - 1 \in S
  BY <1>1, <1>2
<1> QED
  BY <1>1, <1>3

\* The rounds of enableBackground() are well defined.
LEMMA RefillRounds ==
  ASSUME NEW hosts, NEW rounds \in Nat
  PROVE  \E f : f = [n \in 0..rounds |-> IF n = 0 THEN {ses} ELSE RefillEach(f[n - 1], hosts[n])]
<1> DEFINE S == {k \in Nat : \E f : f = [n \in 0..k |-> IF n = 0 THEN {ses} ELSE RefillEach(f[n - 1], hosts[n])]}
<1>1. 0 \in S
  <2> DEFINE g == [n \in 0..0 |-> {ses}]
  <2>1. g = [n \in 0..0 |-> IF n = 0 THEN {ses} ELSE RefillEach(g[n - 1], hosts[n])]
    OBVIOUS
  <2> HIDE DEF g
  <2> QED
    BY <2>1
<1>2. ASSUME NEW k \in S
      PROVE  k + 1 \in S
  <2>1. PICK g : g = [n \in 0..k |-> IF n = 0 THEN {ses} ELSE RefillEach(g[n - 1], hosts[n])]
    OBVIOUS
  <2> DEFINE h == [n \in 0..k + 1 |-> IF n = k + 1 THEN RefillEach(g[k], hosts[k + 1]) ELSE g[n]]
  <2>2. ASSUME NEW n \in 0..k + 1
        PROVE  h[n] = IF n = 0 THEN {ses} ELSE RefillEach(h[n - 1], hosts[n])
    <3>1. CASE n = 0
      BY <3>1, <2>1
    <3>2. CASE n \in 1..k
      <4>1. n \in 0..k /\ n - 1 \in 0..k /\ n # 0 /\ n # k + 1 /\ n - 1 # k + 1 /\ n - 1 \in 0..k + 1
        BY <3>2
      <4>2. h[n] = g[n] /\ h[n - 1] = g[n - 1]
        BY <4>1
      <4>3. g[n] = RefillEach(g[n - 1], hosts[n])
        BY <2>1, <4>1
      <4> QED
        BY <4>1, <4>2, <4>3
    <3>3. CASE n = k + 1
      BY <3>3, <2>1
    <3> QED
      BY <3>1, <3>2, <3>3
  <2>3. h = [n \in 0..k + 1 |-> IF n = 0 THEN {ses} ELSE RefillEach(h[n - 1], hosts[n])]
    BY <2>2
  <2> HIDE DEF h
  <2> QED
    BY <2>3
<1>3. S \in SUBSET Nat
  OBVIOUS
<1> HIDE DEF S
<1>4. S = Nat
  BY <1>1, <1>2, <1>3, NatSetInduction
<1> QED
  BY <1>4 DEF S

Refilled(T) == PoolOK(T, spares, stage, chan, pooled) /\ CountOK(T) /\ \A s \in Ids : T[s].st # "landed"

LEMMA RefillAllOK ==
  ASSUME PoolSettings, Refilled(ses), NEW hosts \in Seq(Hosts), NEW T2 \in RefillAll(hosts)
  PROVE  Refilled(T2)
<1> DEFINE rounds == Len(hosts)
           f == CHOOSE g : g = [n \in 0..rounds |-> IF n = 0 THEN {ses} ELSE RefillEach(g[n - 1], hosts[n])]
<1>1. rounds \in Nat /\ \A n \in 1..rounds : hosts[n] \in Hosts
  OBVIOUS
<1>2. f = [n \in 0..rounds |-> IF n = 0 THEN {ses} ELSE RefillEach(f[n - 1], hosts[n])]
  BY <1>1, RefillRounds
<1>3. RefillAll(hosts) = f[rounds]
  BY DEF RefillAll
<1> HIDE DEF f, rounds
<1> DEFINE S == {n \in Nat : n \in 0..rounds => \A T \in f[n] : Refilled(T)}
<1>4. 0 \in S
  BY <1>1, <1>2
<1>5. ASSUME NEW n \in S
      PROVE  n + 1 \in S
  <2> SUFFICES ASSUME n + 1 \in 0..rounds, NEW T \in f[n + 1]
               PROVE  Refilled(T)
    OBVIOUS
  <2>1. n \in 0..rounds /\ (n + 1) - 1 = n /\ n + 1 # 0 /\ n + 1 \in 1..rounds
    BY <1>1
  <2>2. f[n + 1] = RefillEach(f[n], hosts[n + 1])
    BY <1>2, <2>1
  <2>3. PICK T1 \in f[n] : T \in Refill(T1, spares, hosts[n + 1])
    BY <2>2 DEF RefillEach
  <2>4. Refilled(T1) /\ hosts[n + 1] \in Hosts
    BY <1>1, <2>1
  <2> QED
    BY <2>3, <2>4, RefillOK DEF Refilled
<1>6. S \in SUBSET Nat
  OBVIOUS
<1> HIDE DEF S
<1>7. S = Nat
  BY <1>4, <1>5, <1>6, NatSetInduction
<1> QED
  BY <1>1, <1>3, <1>7 DEF S

LEMMA EnableBackgroundKeeps ==
  ASSUME PoolInv, Quiet, EnableBackground
  PROVE  PoolInv'
<1>1. UNCHANGED <<exits, skipped, stage, chan, spares, spareHosts, pooled>>
  BY DEF EnableBackground
<1>2. CASE UNCHANGED <<ses, deferred>>
  BY <1>1, <1>2, PoolTyped DEF PoolInv, PoolSettings
<1>3. ASSUME NEW hosts \in SetToSeqs(deferred), ses' \in RefillAll(hosts), deferred' = {}
      PROVE  PoolInv'
  <2>1. deferred \subseteq Hosts /\ IsFiniteSet(deferred)
    BY PoolTyped, TlsPoolAssumption, FS_Subset DEF PoolSettings
  <2>2. Cardinality(deferred) \in Nat
    BY <2>1, FS_CardinalityType
  <2>3. hosts \in [1..Cardinality(deferred) -> deferred]
    BY <1>3 DEF SetToSeqs
  <2>4. hosts \in Seq(Hosts)
    BY <2>1, <2>2, <2>3
  <2>5. Refilled(ses)
    BY PoolTyped DEF Refilled, Quiet, Landed
  <2>6. Refilled(ses')
    BY <1>3, <2>4, <2>5, PoolTyped, RefillAllOK
  <2> QED
    BY <1>1, <1>3, <2>6, PoolTyped DEF PoolInv, PoolSettings, Refilled
<1> QED
  BY <1>2, <1>3 DEF EnableBackground

LEMMA ClosePoolKeeps ==
  ASSUME PoolInv, ClosePool
  PROVE  PoolInv'
<1> DEFINE listed(s) == \E h \in Hosts : s \in ToSet(spares[h])
<1>1. /\ spares' = [h \in Hosts |-> <<>>] /\ spareHosts' = <<>> /\ pooled' = {}
      /\ UNCHANGED <<exits, skipped, stage, chan, deferred>>
  BY DEF ClosePool
<1>2. ses' = [s \in Ids |-> IF ses[s].st = "scheduled" \/ listed(s) THEN Free
                            ELSE IF s \notin pooled THEN ses[s]
                            ELSE IF Holders(s) = {} THEN Free ELSE [ses[s] EXCEPT !.st = "dead"]]
  BY DEF ClosePool
<1>3. /\ \A s \in Ids : SessionOK(ses, spares, stage, chan, pooled, s) /\ ses[s] \in Session
      /\ \A s, t \in Ids : ses[s].st = "landed" /\ ses[t].st = "landed" => s = t
      /\ \A c, d \in Calls : stage[c] # "idle" /\ stage[d] # "idle" /\ chan[c] = chan[d] => c = d
  BY PoolTyped DEF PoolOK
<1>4. \A s \in Ids : /\ listed(s) <=> ses[s].spare /\ ses[s].st = "open"
                     /\ s \in pooled => ses[s].st = "open" /\ ~ses[s].spare
                     /\ ses[s].st # "free" => ses[s].host \in Hosts
  BY <1>3 DEF SessionOK
<1>5. \A h \in Hosts : spares'[h] = <<>> /\ ToSet(spares'[h]) = {} /\ NoRepeats(spares'[h])
  BY <1>1 DEF ToSet, NoRepeats
<1> HIDE DEF listed
<1>6. ASSUME NEW s \in Ids
      PROVE  \/ ses'[s] = Free /\ Holders(s) = {}
             \/ ses'[s] = ses[s] /\ ses[s].st # "scheduled" /\ s \notin pooled /\ ~(ses[s].spare /\ ses[s].st = "open")
             \/ ses'[s] = [ses[s] EXCEPT !.st = "dead"] /\ s \in pooled /\ Holders(s) # {}
  <2>1. CASE ses[s].st = "scheduled" \/ listed(s)
    <3>1. ses[s].st = "scheduled" \/ (ses[s].spare /\ ses[s].st = "open")
      BY <1>4, <2>1
    <3>2. ASSUME NEW c \in Calls, stage[c] # "idle", chan[c] = s PROVE FALSE
      BY <3>1, <3>2, PoolTyped, CallFacts DEF HoldsOK, Stages
    <3> QED
      BY <1>2, <2>1, <3>2 DEF Holders
  <2>2. CASE ~(ses[s].st = "scheduled" \/ listed(s))
    BY <1>2, <1>4, <2>2
  <2> QED
    BY <2>1, <2>2
<1>7. ses' \in [Ids -> Session]
  <2>1. Free \in Session
    BY DEF Free, Session
  <2>2. \A s \in Ids : [ses[s] EXCEPT !.st = "dead"] \in Session
    BY <1>3 DEF Session
  <2>3. \A s \in Ids : ses'[s] \in Session
    BY <1>3, <1>6, <2>1, <2>2
  <2> QED
    BY <1>2, <2>3
<1>8. \A s \in Ids : [ses[s] EXCEPT !.st = "dead"].st = "dead" /\ [ses[s] EXCEPT !.st = "dead"].spare = ses[s].spare
        /\ [ses[s] EXCEPT !.st = "dead"].flag = ses[s].flag /\ [ses[s] EXCEPT !.st = "dead"].host = ses[s].host
  BY <1>3 DEF Session
<1>9. ASSUME NEW c \in Calls, stage[c] # "idle" PROVE chan[c] \in Ids /\ HoldsOK(ses', stage[c], chan[c])
  <2>1. chan[c] \in Ids /\ HoldsOK(ses, stage[c], chan[c]) /\ stage[c] \in Stages
    BY <1>9, PoolTyped, CallFacts
  <2>2. c \in Holders(chan[c])
    BY <1>9 DEF Holders
  <2>3. CASE ses'[chan[c]] = ses[chan[c]]
    BY <2>1, <2>3 DEF HoldsOK
  <2>4. CASE ses'[chan[c]] = [ses[chan[c]] EXCEPT !.st = "dead"] /\ chan[c] \in pooled
    <3>1. stage[c] = "using"
      BY <1>4, <1>9, <2>1, <2>4 DEF HoldsOK, Stages
    <3> QED
      BY <1>8, <2>1, <2>4, <3>1 DEF HoldsOK
  <2> QED
    BY <1>6, <2>1, <2>2, <2>3, <2>4
<1>10. ASSUME NEW s \in Ids PROVE SessionOK(ses', spares', stage, chan, pooled', s)
  <2>1. SessionOK(ses, spares, stage, chan, pooled, s) /\ s \notin pooled' /\ \A h \in Hosts : s \notin ToSet(spares'[h])
    BY <1>1, <1>3, <1>5
  <2>2. CASE ses'[s] = Free
    BY <2>1, <2>2 DEF SessionOK, Free
  <2>3. CASE ses'[s] = ses[s] /\ ses[s].st # "scheduled" /\ s \notin pooled /\ ~(ses[s].spare /\ ses[s].st = "open")
    BY <2>1, <2>3 DEF SessionOK
  <2>4. CASE ses'[s] = [ses[s] EXCEPT !.st = "dead"] /\ s \in pooled
    <3>1. ses'[s].st = "dead" /\ ~ses'[s].spare /\ ses'[s].flag # "superseded" /\ ses'[s].host \in Hosts
      BY <1>4, <1>8, <2>1, <2>4 DEF SessionOK
    <3> QED
      BY <2>1, <3>1 DEF SessionOK
  <2> QED
    BY <1>6, <2>2, <2>3, <2>4
<1>11. \A s, t \in Ids : ses'[s].st = "landed" /\ ses'[t].st = "landed" => s = t
  <2>1. ASSUME NEW s \in Ids, ses'[s].st = "landed" PROVE ses[s].st = "landed"
    <3>1. ses'[s] # Free
      BY <2>1 DEF Free
    <3>2. ASSUME ses'[s] = [ses[s] EXCEPT !.st = "dead"] PROVE FALSE
      <4>1. [ses[s] EXCEPT !.st = "dead"].st = "dead"
        BY <1>8
      <4> QED
        BY <2>1, <3>2, <4>1
    <3> QED
      BY <1>6, <2>1, <3>1, <3>2
  <2> QED
    BY <1>3, <2>1
<1>12. PoolOK(ses', spares', stage, chan, pooled')
  <2>1. spares' \in [Hosts -> Seq(Ids)] /\ pooled' \subseteq Ids
    BY <1>1
  <2> QED
    BY <1>3, <1>5, <1>7, <1>9, <1>10, <1>11, <2>1, PoolTyped DEF PoolOK
<1>13. CountOK(ses')
  <2>1. ASSUME NEW s \in Ids, ses'[s].spare PROVE ses'[s] = ses[s]
    <3>1. ses'[s] # Free
      BY <2>1 DEF Free
    <3>2. ~(ses'[s] = [ses[s] EXCEPT !.st = "dead"] /\ s \in pooled)
      BY <1>4, <1>8, <2>1
    <3> QED
      BY <1>6, <3>1, <3>2
  <2> QED
    BY <2>1, PoolTyped, CountShrinks
<1>14. HostsOK(spares', spareHosts')
  BY <1>1, <1>5, TlsPoolAssumption DEF HostsOK, NoRepeats
<1> QED
  BY <1>1, <1>12, <1>13, <1>14, PoolTyped DEF PoolInv, PoolSettings

-----------------------------------------------------------------------------
(* ... hence every step of the worker                                      *)

LEMMA PoolStaysPut ==
  ASSUME PoolInv, UNCHANGED <<exits, skipped, ses, stage, chan, spares, spareHosts, deferred, pooled>>
  PROVE  PoolInv'
BY PoolTyped DEF PoolInv, PoolSettings

LEMMA PoolStepKeeps ==
  ASSUME PoolInv, PoolStep
  PROVE  PoolInv'
<1>1. ASSUME NEW e \in Exits, SkipEnds(e) PROVE PoolInv'
  BY <1>1, PoolTyped DEF SkipEnds, PoolInv, PoolSettings
<1> QED
  BY <1>1, StartSpareKeeps, OpenFailsKeeps, SpareOpenedKeeps, RetireKeeps, HandshakeFailsKeeps, RefreshKeeps,
     ExpireKeeps, OwnOpenedKeeps, WaitResumesKeeps, WaitGivesUpKeeps DEF PoolStep

LEMMA AcquireKeeps ==
  ASSUME PoolInv, NEW c \in Calls, NEW h \in Hosts, Acquire(c, h)
  PROVE  PoolInv'
BY TakeSpareKeeps, OpenOwnKeeps, WaitForSpareKeeps, ReuseKeeps DEF Acquire

\* What a step of the worker may ask of its pool.
PoolAsked ==
  \/ UNCHANGED poolVars \/ ClosePool \/ PoolStep \/ ExitsChange
  \/ Quiet /\ EnableBackground
  \/ \E c \in Calls : Acquire(c, callHost[c])
  \/ \E c \in Calls, usable \in BOOLEAN : Release(c, usable)

LEMMA StepsAskThePool ==
  ASSUME [Next]_vars
  PROVE  PoolAsked /\ callHost' = callHost
<1>1. ASSUME NEW now, Fail(now) PROVE PoolAsked
  BY <1>1 DEF Fail, PoolAsked
<1>2. CASE BootStep
  <2>1. ASSUME NEW at, BootFails(at) PROVE PoolAsked /\ callHost' = callHost
    BY <1>1, <2>1 DEF BootFails, bootRest
  <2>2. CASE BootChecks \/ ModulesLoad \/ ConnectStarts \/ ConnectFails \/ Ready \/ \E warmup \in BOOLEAN : Connected(warmup)
    BY <2>2 DEF BootChecks, ModulesLoad, ConnectStarts, ConnectFails, Ready, Connected, bootRest, PoolAsked
  <2> QED
    BY <1>2, <2>1, <2>2 DEF BootStep
<1>3. CASE LoopStep
  <2>1. CASE AcceptRejects
    BY <1>1, <2>1 DEF AcceptRejects, loopRest
  <2>2. CASE LoopTakesSlot \/ UnknownKind \/ \E c \in WalletCalls : CallArrives(c)
    BY <2>2 DEF LoopTakesSlot, UnknownKind, CallArrives, loopRest, PoolAsked
  <2> QED
    BY <1>3, <2>1, <2>2 DEF LoopStep
<1>4. CASE StaleEvent
  BY <1>1, <1>4 DEF StaleEvent
<1>5. ASSUME NEW c \in Calls, CallStep(c) PROVE PoolAsked /\ callHost' = callHost
  <2>1. ASSUME NEW lives, Quiet, CallEnds(c, lives) PROVE PoolAsked
    BY <2>1 DEF CallEnds, PoolAsked
  <2>2. CASE \/ Prepared(c) \/ RequestRefused(c) \/ CallGivenUp(c) \/ HopFails(c) \/ ReplyRefused(c)
             \/ HttpReplies(c) \/ AcquireRejects(c) \/ Redirected(c)
             \/ \E url \in {"https", "other"} : Hop(c, url)
    BY <2>2 DEF Prepared, RequestRefused, CallGivenUp, HopFails, ReplyRefused, HttpReplies, AcquireRejects,
       Redirected, Hop, callRest, callFailRest, PoolAsked
  <2>3. CASE AcquireStarts(c)
    BY <2>3 DEF AcquireStarts, callRest, PoolAsked
  <2>4. CASE \E usable \in BOOLEAN : TunnelReplies(c, usable)
    BY <2>4 DEF TunnelReplies, callRest, PoolAsked
  <2>5. ASSUME NEW again, TunnelFails(c, again) PROVE PoolAsked /\ callHost' = callHost
    <3>1. Release(c, FALSE) /\ callHost' = callHost
      BY <2>5 DEF TunnelFails, callRest
    <3> QED
      BY <3>1 DEF PoolAsked
  <2>6. CASE AnswerLocally(c)
    BY <2>1, <2>6 DEF AnswerLocally
  <2>7. ASSUME NEW v, Answer(c, v) PROVE PoolAsked /\ callHost' = callHost
    <3>1. /\ Quiet /\ callHost' = callHost
          /\ IF c \in WalletCalls THEN CallEnds(c, link = "serving") ELSE UNCHANGED <<poolVars, slots>>
      BY <2>7 DEF Answer
    <3>2. CASE UNCHANGED poolVars
      BY <3>1, <3>2 DEF PoolAsked
    <3> QED
      BY <2>1, <3>1, <3>2
  <2>8. ASSUME NEW trap, Reject(c, trap) PROVE PoolAsked /\ callHost' = callHost
    <3>1. Quiet /\ callHost' = callHost
      BY <2>8 DEF Reject
    <3>2. \/ \E now : Fail(now)
          \/ CallEnds(c, link = "serving") \/ UNCHANGED poolVars
      BY <2>8 DEF Reject
    <3>3. CASE UNCHANGED poolVars
      BY <3>1, <3>3 DEF PoolAsked
    <3> QED
      BY <1>1, <2>1, <3>1, <3>2, <3>3
  <2> QED
    BY <1>5, <2>2, <2>3, <2>4, <2>5, <2>6, <2>7, <2>8 DEF CallStep
<1>6. CASE ExitsChange \/ (PoolStep /\ UNCHANGED workerVars) \/ UNCHANGED vars
  BY <1>6 DEF ExitsChange, workerVars, vars, PoolAsked
<1> QED
  BY <1>2, <1>3, <1>4, <1>5, <1>6 DEF Next

CallHostTyped == callHost \in [Calls -> Hosts]

LEMMA PoolInvStep ==
  ASSUME PoolInv, CallHostTyped, [Next]_vars
  PROVE  PoolInv' /\ CallHostTyped'
<1>1. PoolAsked /\ callHost' = callHost
  BY StepsAskThePool
<1> SUFFICES PoolInv'
  BY <1>1 DEF CallHostTyped
<1>2. CASE UNCHANGED poolVars
  BY <1>2, PoolStaysPut DEF poolVars
<1>3. CASE ExitsChange
  BY <1>3, PoolTyped DEF ExitsChange, PoolInv, PoolSettings
<1>4. CASE \E c \in Calls : Acquire(c, callHost[c])
  BY <1>4, AcquireKeeps DEF CallHostTyped
<1>5. CASE \E c \in Calls, usable \in BOOLEAN : Release(c, usable)
  BY <1>5, ReleaseKeeps
<1> QED
  BY <1>1, <1>2, <1>3, <1>4, <1>5, ClosePoolKeeps, PoolStepKeeps, EnableBackgroundKeeps DEF PoolAsked

LEMMA PoolInvInit ==
  ASSUME Init
  PROVE  PoolInv /\ CallHostTyped
<1>1. /\ exits = Exits /\ skipped = {} /\ ses = [s \in Ids |-> Free] /\ stage = [c \in Calls |-> "idle"]
      /\ chan = [c \in Calls |-> NoId] /\ spares = [h \in Hosts |-> <<>>] /\ spareHosts = <<>> /\ deferred = {}
      /\ pooled = {} /\ CallHostTyped
  BY DEF Init, PoolInit, CallHostTyped
<1>2. Free \in Session /\ Free.st = "free" /\ ~Free.spare /\ Free.flag = "plain"
  BY DEF Free, Session
<1>3. ToSet(<<>>) = {} /\ NoRepeats(<<>>) /\ <<>> \in Seq(Ids) /\ <<>> \in Seq(Hosts) /\ Len(<<>>) = 0
  BY DEF ToSet, NoRepeats
<1>4. ses \in [Ids -> Session] /\ \A s \in Ids : ses[s].st = "free" /\ ~ses[s].spare /\ ses[s].flag = "plain"
  BY <1>1, <1>2
<1>5. \A h \in Hosts : spares[h] = <<>>
  BY <1>1
<1>6. \A s \in Ids : SessionOK(ses, spares, stage, chan, pooled, s)
  BY <1>1, <1>3, <1>4, <1>5 DEF SessionOK
<1>7. PoolOK(ses, spares, stage, chan, pooled)
  <2>1. /\ spares \in [Hosts -> Seq(Ids)] /\ pooled \subseteq Ids
        /\ stage \in [Calls -> Stages] /\ chan \in [Calls -> Ids \cup {NoId}]
    BY <1>1, <1>3 DEF Stages
  <2>2. (\A c \in Calls : stage[c] = "idle") /\ (\A s \in Ids : ses[s].st # "landed")
    BY <1>1, <1>4
  <2> QED
    BY <1>3, <1>4, <1>5, <1>6, <2>1, <2>2 DEF PoolOK
<1>8. CountOK(ses)
  <2>1. \A h \in Hosts : LiveSpares(ses, h) = {}
    BY <1>4 DEF LiveSpares
  <2>2. Cardinality({}) = 0 /\ 0 <= Spares
    BY FS_EmptySet, TlsPoolAssumption
  <2> QED
    BY <1>4, <2>1, <2>2 DEF CountOK
<1>9. HostsOK(spares, spareHosts)
  BY <1>1, <1>3, <1>5, TlsPoolAssumption DEF HostsOK
<1> QED
  BY <1>1, <1>7, <1>8, <1>9 DEF PoolInv, PoolSettings

-----------------------------------------------------------------------------
(* What follows of owners and limits                                       *)

LEMMA OneOwner ==
  ASSUME PoolInv, NEW s \in Ids
  PROVE  /\ ses[s].st = "open" => Owners(s) = 1
         /\ ses[s].st \in {"scheduled", "shaking", "landed", "free"} => Owners(s) = 0
<1> DEFINE U == {c \in Calls : stage[c] = "using" /\ chan[c] = s}
           V == {h \in Hosts : s \in ToSet(spares[h])}
           w == IF s \in pooled /\ ses[s].flag = "idle" THEN 1 ELSE 0
<1>1. Owners(s) = Cardinality(U) + Cardinality(V) + w
  BY DEF Owners
<1>2. SessionOK(ses, spares, stage, chan, pooled, s)
  BY PoolTyped, SessionFacts
<1>3. \A c \in U : /\ ses[s].st = "dead" \/ (ses[s].st = "open" /\ ~ses[s].spare /\ ses[s].flag # "idle")
                   /\ \A d \in U : d = c
  BY PoolTyped, CallFacts DEF HoldsOK
<1>4. V = IF ses[s].spare /\ ses[s].st = "open" THEN {ses[s].host} ELSE {}
  BY <1>2 DEF SessionOK
<1>5. Cardinality({}) = 0 /\ \A y : Cardinality({y}) = 1
  BY FS_EmptySet, FS_Singleton
<1>6. CASE ses[s].st \in {"scheduled", "shaking", "landed", "free"}
  <2>1. U = {} /\ V = {} /\ w = 0
    BY <1>2, <1>3, <1>4, <1>6 DEF SessionOK
  <2> HIDE DEF U, V, w
  <2> QED
    BY <1>1, <1>5, <1>6, <2>1
<1>7. CASE ses[s].st = "open" /\ ses[s].spare
  <2>1. U = {} /\ V = {ses[s].host} /\ w = 0
    BY <1>2, <1>3, <1>4, <1>7 DEF SessionOK
  <2>2. Cardinality(U) = 0 /\ Cardinality(V) = 1
    BY <1>5, <2>1
  <2> HIDE DEF U, V, w
  <2> QED
    BY <1>1, <1>7, <2>1, <2>2
<1>8. CASE ses[s].st = "open" /\ ~ses[s].spare /\ ses[s].flag = "idle"
  <2>1. U = {} /\ V = {} /\ w = 1
    BY <1>2, <1>3, <1>4, <1>8 DEF SessionOK
  <2> HIDE DEF U, V, w
  <2> QED
    BY <1>1, <1>5, <1>8, <2>1
<1>9. CASE ses[s].st = "open" /\ ~ses[s].spare /\ ses[s].flag # "idle"
  <2>1. PICK c \in Calls : c \in U
    BY <1>2, <1>9 DEF SessionOK
  <2>2. U = {c} /\ V = {} /\ w = 0
    BY <1>3, <1>4, <1>9, <2>1
  <2>3. Cardinality(U) = 1 /\ Cardinality(V) = 0
    BY <1>5, <2>2
  <2> HIDE DEF U, V, w
  <2> QED
    BY <1>1, <1>9, <2>2, <2>3
<1> QED
  BY <1>6, <1>7, <1>8, <1>9

LEMMA PoolInvOwned ==
  ASSUME PoolInv
  PROVE  SessionsOwned
<1> SUFFICES ASSUME NEW s \in Ids
             PROVE  /\ ses[s].st = "landed" => Cardinality(Holders(s)) = 1
                    /\ ses[s].st \in {"shaking", "dead"} => Cardinality(Holders(s)) <= 1
  BY OneOwner DEF SessionsOwned
<1>1. \A c \in Holders(s) : Holders(s) = {c}
  BY PoolTyped, CallFacts DEF Holders
<1>2. Cardinality({}) = 0 /\ \A y : Cardinality({y}) = 1
  BY FS_EmptySet, FS_Singleton
<1>3. ASSUME ses[s].st = "landed" PROVE Holders(s) # {}
  <2>1. SessionOK(ses, spares, stage, chan, pooled, s)
    BY PoolTyped, SessionFacts
  <2>2. \E c \in Calls : stage[c] = "waiting" /\ chan[c] = s
    BY <1>3, <2>1 DEF SessionOK
  <2> QED
    BY <2>2 DEF Holders
<1>4. Cardinality(Holders(s)) \in {0, 1} /\ (Holders(s) # {} => Cardinality(Holders(s)) = 1)
  BY <1>1, <1>2
<1> QED
  BY <1>3, <1>4

LEMMA PoolInvBounded ==
  ASSUME PoolInv
  PROVE  SparesBounded
<1>1. Len(spareHosts) <= MaxSpareHosts /\ \A h \in Hosts : spares[h] # <<>> => h \in ToSet(spareHosts)
  BY PoolTyped DEF HostsOK
<1>2. ASSUME NEW h \in Hosts PROVE SpareCount(ses, spares, h) <= Spares /\ Len(spares[h]) <= Spares + 1
  <2>1. /\ SpareCount(ses, spares, h) \in Nat /\ SpareCount(ses, spares, h) <= Cardinality(LiveSpares(ses, h))
        /\ Len(spares[h]) <= Spares + 1
    BY PoolTyped, SpareCountFacts
  <2>2. Cardinality(LiveSpares(ses, h)) <= Spares /\ Cardinality(LiveSpares(ses, h)) \in Nat
    BY PoolTyped, LiveSparesFinite DEF CountOK
  <2> QED
    BY <2>1, <2>2, TlsPoolAssumption
<1> QED
  BY <1>1, <1>2 DEF SparesBounded

\* pool.ts and handleFetch(): through refreshes, expiries, claims that are given up,
\* evictions, failed opens and close(), in any order and for any number of calls,
\* hosts and spares, every handshaken session has one owner that will end it, the
\* spares of a host and the hosts with spares keep their limits, and the call slots
\* are exact.
THEOREM ResourcesAreCounted == Spec => []ResourcesCounted
<1>1. Init => PoolInv /\ CallHostTyped
  BY PoolInvInit
<1>2. PoolInv /\ CallHostTyped /\ [Next]_vars => PoolInv' /\ CallHostTyped'
  BY PoolInvStep
<1>3. PoolInv /\ SlotsExact => ResourcesCounted
  BY PoolInvOwned, PoolInvBounded DEF ResourcesCounted
<1> QED
  BY <1>1, <1>2, <1>3, SlotsAreExact, PTL DEF Spec

=============================================================================
