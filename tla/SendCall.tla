----------------------------- MODULE SendCall ------------------------------
(***************************************************************************)
(* A call of nox-client and the copies it sends: _sendWithRetry and the    *)
(* part of _sendOnRoute that settles a copy (client.ts).  Several calls    *)
(* run at once and share the hedge counter and the pinned entry.           *)
(*                                                                         *)
(* A copy's promise is settled by one event (a reply, its timer, a failed  *)
(* upload, an abort) and handled later by onSuccess or onFailure in a      *)
(* microtask.  Timers and network events are tasks of the event loop: they *)
(* run only when no microtask is left (Quiet).  The caller's abort and     *)
(* disconnect() may come from a microtask too.                             *)
(*                                                                         *)
(* Route planning is abstracted to the entry and the reply block format of *)
(* the plan; mix and exit, and the list of hops to avoid, only steer which *)
(* plan is found.                                                          *)
(***************************************************************************)
EXTENDS Naturals, Sequences, FiniteSets

CONSTANTS
  Calls,
  Entries,
  NumPackets,        \* Sphinx packets of the request (Fragment packets if many)
  RetryModes,        \* modes the calls may have
  Versions,          \* reply block formats _planRoute may choose
  Kps,               \* KPS mode, else classic HTTP
  RetryOnTimeout,    \* config.retryOnTimeout
  TransportResends, MaxHedges, Hedging, ResendOnLost, SameEntryFallback,
  SwitchAfter        \* KPS_ENTRY_SWITCH_AFTER_FAILURES

ASSUME SendAssumption ==
  /\ NumPackets \in Nat \ {0} /\ TransportResends \in Nat /\ MaxHedges \in Nat
  /\ SwitchAfter \in Nat \ {0}
  /\ RetryModes \subseteq {"none", "route", "exit"}
  /\ Versions \subseteq {1, 2}
  /\ Kps \in BOOLEAN /\ RetryOnTimeout \in BOOLEAN /\ Hedging \in BOOLEAN
  /\ ResendOnLost \in BOOLEAN /\ SameEntryFallback \in BOOLEAN

Packets == 1..NumPackets

\* How a copy's promise was settled.  "notsent": a packet failed in phase dial
\* or open.  "unsure": any other TRANSPORT_FAILED.  "other": an error that ends
\* the call (oversize reply, packet build).
Results == {"none", "reply", "timeout", "notsent", "unsure", "aborted", "other"}

\* An Attempt and its entry of this.pending (result = "none": it is pending).
\* packet[p] is "no" until packet p is written, "never" once it cannot be.
Copy == [hedge : BOOLEAN, live : BOOLEAN, result : Results, version : {1, 2},
         entry : Entries, packet : [Packets -> {"no", "written", "never"}]]

VARIABLES
  retry, status, copies, routeResendUsed, transportLeft, hedgeTimer, aborted,
  hedgesInFlight, pinned, pinnedFailures, closed

callVars == <<status, copies, routeResendUsed, transportLeft, hedgeTimer>>
entryVars == <<pinned, pinnedFailures>>
vars == <<retry, callVars, aborted, hedgesInFlight, entryVars, closed>>

Init ==
  /\ retry \in [Calls -> RetryModes]
  /\ status = [c \in Calls |-> "new"]
  /\ copies = [c \in Calls |-> <<>>]
  /\ routeResendUsed = [c \in Calls |-> FALSE]
  /\ transportLeft = [c \in Calls |-> TransportResends]
  /\ hedgeTimer = [c \in Calls |-> FALSE]
  /\ aborted = [c \in Calls |-> FALSE]
  /\ hedgesInFlight = 0
  /\ pinned \in Entries /\ pinnedFailures = 0
  /\ closed = FALSE

Copies(c) == DOMAIN copies[c]
AllCopies == UNION {{c} \X Copies(c) : c \in Calls}
CopyAt(x) == copies[x[1]][x[2]]
Pending(copy) == copy.result = "none"
Queued(copy) == copy.live /\ ~Pending(copy)
AnyLive(cs) == \E i \in DOMAIN cs : cs[i].live

\* The microtask queue is empty.
Quiet == \A c \in Calls : \A i \in Copies(c) : ~Queued(copies[c][i])

-----------------------------------------------------------------------------
(* The closures of _sendWithRetry, on the attempts cs of call c            *)

\* mutant: the other copies go on
CancelledNone(cs) == cs

\* attempt.cancel.abort() of every live copy: the pending ones are rejected
Cancelled(cs) ==
  [i \in DOMAIN cs |-> IF cs[i].live /\ Pending(cs[i])
                       THEN [cs[i] EXCEPT !.result = "aborted"] ELSE cs[i]]

\* finish()
Finish(c, cs, how) ==
  /\ status' = [status EXCEPT ![c] = how]
  /\ hedgeTimer' = [hedgeTimer EXCEPT ![c] = FALSE]
  /\ copies' = [copies EXCEPT ![c] = Cancelled(cs)]

Continue(c, cs) ==
  /\ copies' = [copies EXCEPT ![c] = cs]
  /\ UNCHANGED <<status, hedgeTimer>>

\* mutant: the call fails with the failed copy
FailAtOnce(c, cs) == Finish(c, cs, "rejected")
\* mutant: the failure of the last copy is dropped
NeverFail(c, cs) == Continue(c, cs)

\* failIfIdle()
FailIfIdle(c, cs) ==
  IF AnyLive(cs) THEN Continue(c, cs) ELSE Finish(c, cs, "rejected")

\* end(): the copy is no longer live and no longer a hedge in flight
Ended(c, i) == [copies[c] EXCEPT ![i].live = FALSE]
\* mutant: only a hedge that answers gives its place back
HedgesAfterReply(c, i) ==
  IF copies[c][i].hedge /\ copies[c][i].result = "reply" THEN hedgesInFlight - 1
  ELSE hedgesInFlight
HedgesAfter(c, i) ==
  IF copies[c][i].hedge /\ hedgesInFlight > 0 THEN hedgesInFlight - 1 ELSE hedgesInFlight

\* launch(): _sendOnRoute runs up to its first await.  It may throw before it
\* sends anything, and it rejects at once when the caller has aborted.
Launch(c, cs, plan, hedge) ==
  /\ \E result \in IF aborted[c] THEN {"aborted"} ELSE {"none", "other"} :
       copies' = [copies EXCEPT ![c] = Append(cs,
         [hedge |-> hedge, live |-> TRUE, result |-> result, version |-> plan.version,
          entry |-> plan.entry,
          packet |-> [p \in Packets |-> IF result = "none" THEN "no" ELSE "never"]])]
  /\ UNCHANGED status

Plans == [version : Versions, entry : Entries]
StrictV2(entries) == [version : {2}, entry : entries]

\* _planResend(): after a v2 copy v2 again, through another entry; the planner
\* may find nothing (the caller then goes on without a plan)
PlanResend(failed) ==
  IF failed.version = 2
  THEN StrictV2(IF SameEntryFallback THEN Entries ELSE Entries \ {failed.entry})
  ELSE Plans

\* _planTransportResend()
PlanTransportResend(failed) ==
  LET others == IF SameEntryFallback THEN Entries ELSE Entries \ {failed.entry}
  IN IF failed.version = 2 THEN StrictV2(others) ELSE [version : Versions, entry : others]

\* _noteEntryTransportFailure(): the SwitchAfter-th failure in a row moves the
\* pinned entry, when there is another
NoteEntryFailure(entry) ==
  IF ~Kps \/ entry # pinned THEN UNCHANGED entryVars
  ELSE IF pinnedFailures + 1 >= SwitchAfter /\ Entries # {pinned}
  THEN pinned' \in Entries \ {pinned} /\ pinnedFailures' = 0
  ELSE pinned' = pinned /\ pinnedFailures' = pinnedFailures + 1

\* _noteEntrySuccess()
NoteEntrySuccess(entry) ==
  /\ pinned' = pinned
  /\ pinnedFailures' = IF Kps /\ entry = pinned THEN 0 ELSE pinnedFailures

-----------------------------------------------------------------------------
(* Starting a call                                                         *)

\* mutant: the timeout resend is not spent
RouteResendKept(c) == UNCHANGED routeResendUsed
UseRouteResend(c) == routeResendUsed' = [routeResendUsed EXCEPT ![c] = TRUE]

Start(c) ==
  /\ status[c] = "new" /\ ~closed /\ Quiet
  /\ \E plan \in Plans, result \in {"none", "other"} :
       copies' = [copies EXCEPT ![c] = <<
         [hedge |-> FALSE, live |-> TRUE, result |-> result, version |-> plan.version,
          entry |-> plan.entry,
          packet |-> [p \in Packets |-> IF result = "none" THEN "no" ELSE "never"]]>>]
  /\ status' = [status EXCEPT ![c] = "running"]
  /\ hedgeTimer' = [hedgeTimer EXCEPT ![c] = Hedging /\ retry[c] = "route" /\ RetryOnTimeout]
  /\ UNCHANGED <<retry, routeResendUsed, transportLeft, aborted, hedgesInFlight,
                 entryVars, closed>>

-----------------------------------------------------------------------------
(* Events that settle a copy                                               *)

\* The copy's promise is settled; its handler is queued.
SettleCopy(c, i, result) == copies' = [copies EXCEPT ![c][i].result = result]

\* A packet is written to the entry.  Nothing cancels an upload but the close
\* of the KPS transport.
WritePacket(c, i, p) ==
  /\ Quiet /\ ~(Kps /\ closed)
  /\ copies[c][i].packet[p] = "no"
  /\ copies' = [copies EXCEPT ![c][i].packet[p] = "written"]
  /\ UNCHANGED <<retry, status, routeResendUsed, transportLeft, hedgeTimer, aborted,
                 hedgesInFlight, entryVars, closed>>

\* The post of a packet fails.  In KPS mode a failure in phase dial or open
\* comes before the first byte; in any other the packet may have gone out.
\* The first failure rejects the copy if it is still pending.
UploadFails(c, i, p) ==
  /\ Quiet
  /\ LET copy == copies[c][i] IN
     \E failure \in {"notsent", "unsure"}, gone \in {"written", "never"} :
       /\ failure = "notsent" => Kps /\ copy.packet[p] = "no" /\ gone = "never"
       /\ failure = "unsure" => ~(Kps /\ closed) /\ copy.packet[p] # "never"
       /\ copy.packet[p] = "written" => gone = "written"
       /\ copies' = [copies EXCEPT
                      ![c][i] = [copy EXCEPT !.packet[p] = gone,
                                             !.result = IF @ = "none" THEN failure ELSE @]]
  /\ UNCHANGED <<retry, status, routeResendUsed, transportLeft, hedgeTimer, aborted,
                 hedgesInFlight, entryVars, closed>>

\* The replies one claim brings back complete some copies, all in one task.
\* (The exit answers only a request it has in full.)
Answered(answers) ==
  /\ answers # {} /\ Quiet /\ ~closed
  /\ copies' = [c \in Calls |-> [i \in Copies(c) |->
                  IF <<c, i>> \in answers THEN [copies[c][i] EXCEPT !.result = "reply"]
                  ELSE copies[c][i]]]
  /\ UNCHANGED <<retry, status, routeResendUsed, transportLeft, hedgeTimer, aborted,
                 hedgesInFlight, entryVars, closed>>
Answerable ==
  {x \in AllCopies : Pending(CopyAt(x)) /\ \A p \in Packets : CopyAt(x).packet[p] = "written"}
Replies == \E answers \in SUBSET Answerable : Answered(answers)

\* A reply larger than maxResponseBytes
OversizeReply(c, i) ==
  /\ Quiet /\ ~closed /\ <<c, i>> \in Answerable
  /\ SettleCopy(c, i, "other")
  /\ UNCHANGED <<retry, status, routeResendUsed, transportLeft, hedgeTimer, aborted,
                 hedgesInFlight, entryVars, closed>>

\* The copy's own timer
Timeout(c, i) ==
  /\ Quiet /\ Pending(copies[c][i])
  /\ SettleCopy(c, i, "timeout")
  /\ UNCHANGED <<retry, status, routeResendUsed, transportLeft, hedgeTimer, aborted,
                 hedgesInFlight, entryVars, closed>>

\* The caller aborts: every pending copy of the call is rejected.
CallerAborts(c) ==
  /\ status[c] = "running" /\ ~aborted[c]
  /\ aborted' = [aborted EXCEPT ![c] = TRUE]
  /\ copies' = [copies EXCEPT ![c] = Cancelled(@)]
  /\ UNCHANGED <<retry, status, routeResendUsed, transportLeft, hedgeTimer,
                 hedgesInFlight, entryVars, closed>>

\* disconnect() rejects every pending copy of the client.
Disconnect ==
  /\ ~closed
  /\ closed' = TRUE
  /\ copies' = [c \in Calls |-> [i \in Copies(c) |->
                  IF Pending(copies[c][i]) THEN [copies[c][i] EXCEPT !.result = "unsure"]
                  ELSE copies[c][i]]]
  /\ UNCHANGED <<retry, status, routeResendUsed, transportLeft, hedgeTimer, aborted,
                 hedgesInFlight, entryVars>>

-----------------------------------------------------------------------------
(* The handlers of a settled copy                                          *)

OnSuccess(c, i) ==
  /\ Queued(copies[c][i]) /\ copies[c][i].result = "reply"
  /\ hedgesInFlight' = HedgesAfter(c, i)
  /\ IF status[c] # "running"
     THEN Continue(c, Ended(c, i)) /\ UNCHANGED entryVars
     ELSE Finish(c, Ended(c, i), "resolved") /\ NoteEntrySuccess(copies[c][i].entry)
  /\ UNCHANGED <<retry, routeResendUsed, transportLeft, aborted, closed>>

\* takeTransportResend() succeeds
TakeTransportResend(c) ==
  \/ /\ transportLeft[c] > 0
     /\ transportLeft' = [transportLeft EXCEPT ![c] = @ - 1]
     /\ UNCHANGED routeResendUsed
  \/ /\ transportLeft[c] = 0 /\ ~routeResendUsed[c]
     /\ UseRouteResend(c)
     /\ UNCHANGED transportLeft

\* mutant: a failure in any phase counts as not sent
MayResendAnyPhase(c, i) == TRUE

\* notSent || retry !== "none"
MayResend(c, i) == copies[c][i].result = "notsent" \/ retry[c] # "none"

\* A transport failure in KPS mode
TransportFailed(c, i) ==
  /\ copies[c][i].result \in {"notsent", "unsure"} /\ Kps
  /\ NoteEntryFailure(copies[c][i].entry)
  /\ \/ /\ ~aborted[c] /\ MayResend(c, i)
        /\ TakeTransportResend(c)
        /\ \E plan \in PlanTransportResend(copies[c][i]) : Launch(c, Ended(c, i), plan, FALSE)
        /\ UNCHANGED hedgeTimer
     \/ \* aborted, not allowed, no plan found, or no resend left
        FailIfIdle(c, Ended(c, i)) /\ UNCHANGED <<routeResendUsed, transportLeft>>

\* A response timeout
TimedOut(c, i) ==
  /\ copies[c][i].result = "timeout"
  /\ \/ /\ RetryOnTimeout /\ retry[c] # "none" /\ ~routeResendUsed[c]
        /\ UseRouteResend(c)
        /\ \E plan \in PlanResend(copies[c][i]) : Launch(c, Ended(c, i), plan, FALSE)
        /\ UNCHANGED hedgeTimer
     \/ FailIfIdle(c, Ended(c, i)) /\ UNCHANGED routeResendUsed
  /\ UNCHANGED <<transportLeft, entryVars>>

\* "Anything else (abort, oversize reply, bad config) ends the call."
Fatal(c, i) ==
  \/ copies[c][i].result \in {"aborted", "other"}
  \/ copies[c][i].result \in {"notsent", "unsure"} /\ ~Kps

OnFailure(c, i) ==
  /\ Queued(copies[c][i]) /\ copies[c][i].result # "reply"
  /\ hedgesInFlight' = HedgesAfter(c, i)
  /\ \/ /\ status[c] # "running"
        /\ Continue(c, Ended(c, i))
        /\ UNCHANGED <<routeResendUsed, transportLeft, entryVars>>
     \/ status[c] = "running" /\ TransportFailed(c, i)
     \/ status[c] = "running" /\ TimedOut(c, i)
     \/ /\ status[c] = "running" /\ Fatal(c, i)
        /\ Finish(c, Ended(c, i), "rejected")
        /\ UNCHANGED <<routeResendUsed, transportLeft, entryVars>>
  /\ UNCHANGED <<retry, aborted, closed>>

-----------------------------------------------------------------------------
(* Early resends                                                           *)

\* onLost(): the claim scheduler presumes the reply lost
OnLost(c, i) ==
  /\ Quiet /\ ~closed
  /\ status[c] = "running" /\ copies[c][i].live /\ ResendOnLost
  /\ retry[c] # "none" /\ ~routeResendUsed[c] /\ RetryOnTimeout
  /\ UseRouteResend(c)
  /\ \E plan \in PlanResend(copies[c][i]) : Launch(c, copies[c], plan, FALSE)
  /\ UNCHANGED <<retry, transportLeft, hedgeTimer, aborted, hedgesInFlight, entryVars,
                 closed>>

HedgeAllowed == hedgesInFlight < MaxHedges

FirstLive(cs) == CHOOSE i \in DOMAIN cs : cs[i].live /\ \A j \in DOMAIN cs : cs[j].live => i <= j

\* The hedge timer fires: a second copy while the first keeps waiting
HedgeTimer(c) ==
  /\ Quiet /\ hedgeTimer[c]
  /\ hedgeTimer' = [hedgeTimer EXCEPT ![c] = FALSE]
  /\ \/ /\ status[c] = "running" /\ ~routeResendUsed[c] /\ AnyLive(copies[c]) /\ HedgeAllowed
        /\ UseRouteResend(c)
        /\ hedgesInFlight' = hedgesInFlight + 1
        /\ \E plan \in PlanResend(copies[c][FirstLive(copies[c])]) :
             Launch(c, copies[c], plan, TRUE)
     \/ UNCHANGED <<status, copies, routeResendUsed, hedgesInFlight>>
  /\ UNCHANGED <<retry, transportLeft, aborted, entryVars, closed>>

-----------------------------------------------------------------------------
Handle(c, i) == OnSuccess(c, i) \/ OnFailure(c, i)

Next ==
  \/ \E c \in Calls : Start(c)
  \/ \E c \in Calls : \E i \in Copies(c) : \E p \in Packets : WritePacket(c, i, p)
  \/ \E c \in Calls : \E i \in Copies(c) : \E p \in Packets : UploadFails(c, i, p)
  \/ Replies
  \/ \E c \in Calls : \E i \in Copies(c) : OversizeReply(c, i)
  \/ \E c \in Calls : \E i \in Copies(c) : Timeout(c, i)
  \/ \E c \in Calls : CallerAborts(c)
  \/ Disconnect
  \/ \E c \in Calls : \E i \in Copies(c) : OnSuccess(c, i)
  \/ \E c \in Calls : \E i \in Copies(c) : OnFailure(c, i)
  \/ \E c \in Calls : \E i \in Copies(c) : OnLost(c, i)
  \/ \E c \in Calls : HedgeTimer(c)

Spec == Init /\ [][Next]_vars

\* Microtasks run, and a copy's timer fires when nothing else settles it.
CopyEnds(c) == \E i \in Copies(c) : Timeout(c, i) \/ Handle(c, i)
FairSpec == Spec /\ \A c \in Calls : WF_vars(CopyEnds(c))

-----------------------------------------------------------------------------
(* Properties                                                              *)

\* The type of every variable.
TypeOK ==
  /\ retry \in [Calls -> RetryModes]
  /\ status \in [Calls -> {"new", "running", "resolved", "rejected"}]
  /\ copies \in [Calls -> Seq(Copy)]
  /\ routeResendUsed \in [Calls -> BOOLEAN]
  /\ transportLeft \in [Calls -> 0..TransportResends]
  /\ hedgeTimer \in [Calls -> BOOLEAN] /\ aborted \in [Calls -> BOOLEAN]
  /\ hedgesInFlight \in Nat
  /\ pinned \in Entries /\ pinnedFailures \in Nat
  /\ closed \in BOOLEAN

\* "A call sends at most 2 + transportResends copies", whichever of hedges, lost
\* replies, timeouts and transport failures ask for one and in whatever order.
CopiesBounded == \A c \in Calls : Len(copies[c]) <= 2 + TransportResends

\* The exit can still be given this copy in full.
MayReachExit(copy) == \A p \in Packets : copy.packet[p] # "never"

\* A request that may not be repeated (retry "none") reaches the exit in at most
\* one copy: a resend is made only after a packet that certainly was not sent.
AtMostOnce ==
  \A c \in Calls : retry[c] = "none" =>
    \A i, j \in Copies(c) : (MayReachExit(copies[c][i]) /\ MayReachExit(copies[c][j])) => i = j

LiveHedges == {x \in AllCopies : CopyAt(x).live /\ CopyAt(x).hedge}

\* _hedgesInFlight counts the live hedges of all calls, however they end, and
\* "Hedged copies in flight at once across the client" respects its bound.
HedgesCounted == hedgesInFlight = Cardinality(LiveHedges) /\ hedgesInFlight <= MaxHedges

\* A settled call leaves no copy pending: no reply blocks, timers or claims
\* of its other copies stay behind.
SettledLeavesNothing ==
  \A c \in Calls : status[c] \in {"resolved", "rejected"} =>
    \A i \in Copies(c) : ~Pending(copies[c][i])

\* "send a second copy on another route while the first keeps waiting; the first
\* reply wins": a call fails over a copy's timeout or transport failure only when
\* no other copy is live, so neither a late reply nor a queued one is thrown away.
WaitsForLastCopy ==
  [][\A c \in Calls : (status[c] = "running" /\ status'[c] = "rejected") =>
       \/ ~AnyLive(copies'[c])
       \/ \E i \in Copies(c) : /\ copies[c][i].live /\ ~copies'[c][i].live
                               /\ copies[c][i].result \in {"aborted", "other"}]_vars

\* Every call settles: the resends are finite and each copy ends.
Settles == \A c \in Calls : (status[c] = "running") ~> (status[c] \in {"resolved", "rejected"})
=============================================================================
