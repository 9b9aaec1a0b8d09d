-------------------------- MODULE SendCallProofs ---------------------------
(***************************************************************************)
(* Proofs about SendCall: for any number of calls, entries and packets and *)
(* any resend policy, a call sends at most 2 + TransportResends copies, a  *)
(* request that may not be repeated reaches the exit at most once, a       *)
(* settled call leaves no copy pending, hedges are counted over all calls, *)
(* and in KPS mode a call waits for the last of its copies.                *)
(***************************************************************************)
EXTENDS SendCall, SequenceTheorems, FiniteSetTheorems, TLAPS

\* Every copy sent beyond the first spent a resend of the call's budget.
BudgetSpent ==
  \A c \in Calls :
    Len(copies[c]) <= 1 + (TransportResends - transportLeft[c])
                        + (IF routeResendUsed[c] THEN 1 ELSE 0)

\* A copy that ended is no longer pending, and one that failed before its
\* request was written has a packet that never goes out.
CopyOK(copy) ==
  /\ ~copy.live => ~Pending(copy)
  /\ copy.result = "notsent" => ~MayReachExit(copy)

\* The earlier copies of a request that may not be repeated ended, harmless.
OnlyLastMayReach ==
  \A c \in Calls : retry[c] = "none" =>
    \A i \in Copies(c) : i # Len(copies[c]) =>
      ~copies[c][i].live /\ ~MayReachExit(copies[c][i])

NewIsEmpty == \A c \in Calls : status[c] = "new" => copies[c] = <<>>
HedgersAreResendable == \A c \in Calls : hedgeTimer[c] => retry[c] = "route"
CopiesOK == \A c \in Calls : \A i \in Copies(c) : CopyOK(copies[c][i])

CallInv ==
  /\ TypeOK /\ NewIsEmpty /\ HedgersAreResendable /\ CopiesOK
  /\ BudgetSpent /\ OnlyLastMayReach /\ SettledLeavesNothing

-----------------------------------------------------------------------------
(* What a step may do to the copies of a call                              *)

\* A copy in a step: a packet that is lost stays lost, a settled copy settled.
CopyStep(old, new) ==
  /\ new \in Copy /\ CopyOK(new)
  /\ ~MayReachExit(old) => ~MayReachExit(new)
  /\ ~Pending(old) => ~Pending(new)
  /\ ~old.live => ~new.live

\* cs is the copies of c after a step that sends none.
Evolves(c, cs) ==
  /\ cs \in Seq(Copy) /\ Len(cs) = Len(copies[c])
  /\ \A i \in Copies(c) : CopyStep(copies[c][i], cs[i])

\* A step that sends no copy for c, and settles c only if nothing is pending.
Stays(c) ==
  /\ Evolves(c, copies'[c])
  /\ transportLeft'[c] = transportLeft[c] /\ routeResendUsed'[c] = routeResendUsed[c]
  /\ status'[c] = "new" <=> status[c] = "new"
  /\ (status[c] = "running" /\ status'[c] # "running") =>
       \A i \in DOMAIN copies'[c] : ~Pending(copies'[c][i])
  /\ status[c] \in {"resolved", "rejected"} => status'[c] = status[c]

\* A step that sends the first copy of c, or a further one and pays for it.
Sends(c) ==
  /\ status'[c] = "running"
  /\ \E cs, new : /\ Evolves(c, cs) /\ new \in Copy /\ CopyOK(new)
                  /\ copies'[c] = Append(cs, new)
                  /\ (retry[c] = "none" /\ copies[c] # <<>>) =>
                       \E i \in Copies(c) : /\ copies[c][i].result = "notsent"
                                           /\ copies[c][i].live /\ ~cs[i].live
  /\ \/ copies[c] = <<>> /\ UNCHANGED <<transportLeft[c], routeResendUsed[c]>>
     \/ /\ transportLeft[c] > 0 /\ transportLeft'[c] = transportLeft[c] - 1
        /\ routeResendUsed'[c] = routeResendUsed[c]
     \/ /\ transportLeft'[c] = transportLeft[c]
        /\ ~routeResendUsed[c] /\ routeResendUsed'[c]

-----------------------------------------------------------------------------

\* Every copy of a call is a Copy, numbered from 1.
LEMMA CopiesTyped ==
  ASSUME TypeOK, NEW c \in Calls
  PROVE  /\ copies[c] \in Seq(Copy) /\ Len(copies[c]) \in Nat
         /\ Copies(c) = 1..Len(copies[c])
         /\ \A i \in Copies(c) : copies[c][i] \in Copy
<1>1. copies[c] \in Seq(Copy)
  BY DEF TypeOK
<1> QED
  BY <1>1, LenProperties DEF Copies

\* A sequence given by its elements has their type.
LEMMA MappedSeq ==
  ASSUME NEW S, NEW n \in Nat, NEW f, f = [i \in 1..n |-> f[i]], \A i \in 1..n : f[i] \in S
  PROVE  f \in Seq(S) /\ Len(f) = n /\ DOMAIN f = 1..n
<1>1. f \in [1..n -> S]
  OBVIOUS
<1> QED
  BY <1>1, SeqDef

\* A step that leaves the copies of c alone.
LEMMA SelfEvolves ==
  ASSUME TypeOK, CopiesOK, NEW c \in Calls
  PROVE  Evolves(c, copies[c])
BY CopiesTyped DEF Evolves, CopyStep, CopiesOK

\* A step that changes one copy of c.
LEMMA EditEvolves ==
  ASSUME TypeOK, CopiesOK, NEW c \in Calls, NEW i \in Copies(c), NEW new,
         CopyStep(copies[c][i], new)
  PROVE  Evolves(c, [copies[c] EXCEPT ![i] = new])
<1> DEFINE cs == [copies[c] EXCEPT ![i] = new]
<1>1. new \in Copy
  BY DEF CopyStep
<1>2. i \in 1..Len(copies[c]) /\ copies[c] \in Seq(Copy)
  BY CopiesTyped
<1>3. /\ cs \in Seq(Copy) /\ Len(cs) = Len(copies[c])
      /\ \A j \in 1..Len(copies[c]) : cs[j] = IF j = i THEN new ELSE copies[c][j]
  BY <1>1, <1>2, ExceptSeq
<1>4. ASSUME NEW j \in Copies(c)
      PROVE  CopyStep(copies[c][j], cs[j])
  <2>1. CASE j = i
    BY <2>1, <1>2, <1>3
  <2>2. CASE j # i
    <3>1. cs[j] = copies[c][j]
      BY <2>2, <1>3, CopiesTyped
    <3>2. CopyStep(copies[c][j], copies[c][j])
      BY CopiesTyped DEF CopyStep, CopiesOK
    <3> QED
      BY <3>1, <3>2
  <2> QED
    BY <2>1, <2>2
<1> QED
  BY <1>3, <1>4 DEF Evolves

\* end() of a copy whose handler was queued.
LEMMA EndedEvolves ==
  ASSUME TypeOK, CopiesOK, NEW c \in Calls, NEW i \in Copies(c), Queued(copies[c][i])
  PROVE  Evolves(c, Ended(c, i))
<1> DEFINE new == [copies[c][i] EXCEPT !.live = FALSE]
<1>1. copies[c][i] \in Copy /\ CopyOK(copies[c][i])
  BY CopiesTyped DEF CopiesOK
<1>2. CopyStep(copies[c][i], new)
  BY <1>1 DEF CopyStep, CopyOK, Copy, Pending, Queued, MayReachExit
<1>3. Ended(c, i) = [copies[c] EXCEPT ![i] = new]
  BY DEF Ended
<1> HIDE DEF new
<1> QED
  BY <1>2, <1>3, EditEvolves

\* Cancelling copies after a step leaves none of them pending.
LEMMA CancelledEvolves ==
  ASSUME TypeOK, NEW c \in Calls, NEW cs, Evolves(c, cs)
  PROVE  Evolves(c, Cancelled(cs)) /\ \A i \in DOMAIN Cancelled(cs) : ~Pending(Cancelled(cs)[i])
<1> DEFINE ds == Cancelled(cs)  n == Len(copies[c])
<1>1. n \in Nat /\ Copies(c) = 1..n
  BY CopiesTyped
<1>2. DOMAIN cs = 1..n /\ \A i \in 1..n : cs[i] \in Copy /\ CopyStep(copies[c][i], cs[i])
  BY <1>1, LenProperties DEF Evolves, CopyStep
<1>3. ASSUME NEW i \in 1..n
      PROVE  ds[i] \in Copy /\ CopyStep(copies[c][i], ds[i]) /\ ~Pending(ds[i])
  <2>1. ds[i] = IF cs[i].live /\ Pending(cs[i])
                THEN [cs[i] EXCEPT !.result = "aborted"] ELSE cs[i]
    BY <1>2 DEF Cancelled
  <2>2. cs[i] \in Copy /\ CopyStep(copies[c][i], cs[i])
    BY <1>2
  <2> HIDE DEF ds, n
  <2>3. CASE cs[i].live /\ Pending(cs[i])
    BY <2>1, <2>2, <2>3 DEF Copy, Results, CopyStep, CopyOK, Pending, MayReachExit
  <2>4. CASE ~(cs[i].live /\ Pending(cs[i]))
    BY <2>1, <2>2, <2>4 DEF CopyStep, CopyOK
  <2> QED
    BY <2>3, <2>4
<1>4. ds = [i \in 1..n |-> ds[i]]
  BY <1>2 DEF Cancelled
<1>5. ds \in Seq(Copy) /\ Len(ds) = n /\ DOMAIN ds = 1..n
  <2> HIDE DEF ds, n
  <2> QED
    BY <1>1, <1>3, <1>4, MappedSeq
<1> QED
  BY <1>1, <1>3, <1>5 DEF Evolves

\* finish() and failIfIdle() on copies that evolved.
LEMMA ClosuresStay ==
  ASSUME TypeOK, NEW c \in Calls, NEW cs, Evolves(c, cs), status[c] # "new",
         UNCHANGED <<transportLeft, routeResendUsed>>,
         \/ Continue(c, cs)
         \/ status[c] = "running" /\ \E how \in {"resolved", "rejected"} : Finish(c, cs, how)
         \/ status[c] = "running" /\ FailIfIdle(c, cs)
  PROVE  Stays(c)
<1>1. copies \in [Calls -> Seq(Copy)] /\ status \in [Calls -> {"new", "running", "resolved", "rejected"}]
  BY DEF TypeOK
<1>2. CASE Continue(c, cs)
  BY <1>1, <1>2 DEF Continue, Stays
<1>3. ASSUME status[c] = "running", NEW how \in {"resolved", "rejected"}, Finish(c, cs, how)
      PROVE  Stays(c)
  BY <1>1, <1>3, CancelledEvolves DEF Finish, Stays
<1> QED
  BY <1>2, <1>3 DEF FailIfIdle

\* launch() on copies that evolved, paid for by the call's budget.
LEMMA LaunchSends ==
  ASSUME TypeOK, NEW c \in Calls, NEW cs, Evolves(c, cs), status[c] = "running",
         NEW plan \in [version : {1, 2}, entry : Entries], NEW hedge \in BOOLEAN,
         Launch(c, cs, plan, hedge),
         \/ /\ transportLeft[c] > 0 /\ transportLeft'[c] = transportLeft[c] - 1
            /\ routeResendUsed'[c] = routeResendUsed[c]
         \/ /\ transportLeft'[c] = transportLeft[c]
            /\ ~routeResendUsed[c] /\ routeResendUsed'[c],
         retry[c] = "none" =>
           \E i \in Copies(c) : /\ copies[c][i].result = "notsent"
                               /\ copies[c][i].live /\ ~cs[i].live
  PROVE  Sends(c)
<1> DEFINE New(result) ==
             [hedge |-> hedge, live |-> TRUE, result |-> result, version |-> plan.version,
              entry |-> plan.entry,
              packet |-> [p \in Packets |-> IF result = "none" THEN "no" ELSE "never"]]
<1>1. PICK result \in {"aborted", "none", "other"} :
        copies' = [copies EXCEPT ![c] = Append(cs, New(result))]
  BY ZenonT(40) DEF Launch
<1>2. status'[c] = "running"
  BY DEF Launch
<1>3. copies \in [Calls -> Seq(Copy)]
  BY DEF TypeOK
<1>4. copies'[c] = Append(cs, New(result))
  <2> HIDE DEF New
  <2> QED
    BY <1>1, <1>3
<1>5. New(result) \in Copy /\ CopyOK(New(result))
  BY DEF Copy, Results, CopyOK, Pending
<1> HIDE DEF New
<1> QED
  BY <1>2, <1>4, <1>5 DEF Sends

-----------------------------------------------------------------------------
(* Each action lets every call stay or send                                *)

\* A call whose variables a step leaves alone.
LEMMA UntouchedStays ==
  ASSUME TypeOK, CopiesOK, NEW c \in Calls, copies'[c] = copies[c],
         UNCHANGED <<transportLeft[c], routeResendUsed[c], status[c]>>
  PROVE  Stays(c)
BY SelfEvolves DEF Stays

\* Start
LEMMA StartSends ==
  ASSUME CallInv, NEW c \in Calls, Start(c), NEW d \in Calls
  PROVE  Stays(d) \/ Sends(d)
<1> USE DEF CallInv
<1> DEFINE New(plan, result) ==
             [hedge |-> FALSE, live |-> TRUE, result |-> result, version |-> plan.version,
              entry |-> plan.entry,
              packet |-> [p \in Packets |-> IF result = "none" THEN "no" ELSE "never"]]
<1>1. PICK plan \in Plans, result \in {"none", "other"} :
        copies' = [copies EXCEPT ![c] = <<New(plan, result)>>]
  BY DEF Start
<1>2. /\ copies \in [Calls -> Seq(Copy)]
      /\ status \in [Calls -> {"new", "running", "resolved", "rejected"}]
  BY DEF TypeOK
<1>3. copies[c] = <<>>
  BY DEF NewIsEmpty, Start
<1>4. New(plan, result) \in Copy /\ CopyOK(New(plan, result))
  BY SendAssumption DEF Plans, Copy, Results, CopyOK, Pending
<1> HIDE DEF New
<1>5. CASE d = c
  <2>1. copies'[c] = Append(copies[c], New(plan, result))
    BY <1>1, <1>2, <1>3
  <2>2. Evolves(c, copies[c])
    BY SelfEvolves
  <2>3. status'[c] = "running" /\ UNCHANGED <<transportLeft, routeResendUsed>>
    BY <1>2 DEF Start
  <2>4. Sends(c)
    BY <2>1, <2>2, <2>3, <1>3, <1>4 DEF Sends
  <2> QED
    BY <1>5, <2>4
<1>6. CASE d # c
  <2>1. copies'[d] = copies[d] /\ status'[d] = status[d]
    BY <1>1, <1>2, <1>6 DEF Start
  <2> QED
    BY <2>1, UntouchedStays DEF Start
<1> QED
  BY <1>5, <1>6

\* An event that changes one copy.
LEMMA EditStays ==
  ASSUME CallInv, NEW c \in Calls, NEW i \in Copies(c), NEW new,
         CopyStep(copies[c][i], new),
         copies' = [copies EXCEPT ![c] = [copies[c] EXCEPT ![i] = new]],
         UNCHANGED <<transportLeft, routeResendUsed, status>>, NEW d \in Calls
  PROVE  Stays(d)
<1> USE DEF CallInv
<1>1. copies \in [Calls -> Seq(Copy)]
  BY DEF TypeOK
<1>2. CASE d = c
  <2>1. Evolves(c, copies'[c])
    BY <1>1, EditEvolves
  <2> QED
    BY <1>2, <2>1 DEF Stays
<1>3. CASE d # c
  BY <1>1, <1>3, UntouchedStays
<1> QED
  BY <1>2, <1>3

\* WritePacket, UploadFails, OversizeReply and Timeout
LEMMA EventsStay ==
  ASSUME CallInv, NEW c \in Calls, NEW i \in Copies(c),
         \/ \E p \in Packets : WritePacket(c, i, p) \/ UploadFails(c, i, p)
         \/ OversizeReply(c, i) \/ Timeout(c, i),
         NEW d \in Calls
  PROVE  Stays(d)
<1> USE DEF CallInv
<1>1. copies[c][i] \in Copy /\ CopyOK(copies[c][i]) /\ copies \in [Calls -> Seq(Copy)]
  BY CopiesTyped DEF CopiesOK, TypeOK
<1> DEFINE copy == copies[c][i]
<1>2. ASSUME NEW p \in Packets, WritePacket(c, i, p)
      PROVE  Stays(d)
  <2> DEFINE new == [copy EXCEPT !.packet[p] = "written"]
  <2>1. CopyStep(copy, new)
    BY <1>1, <1>2 DEF WritePacket, CopyStep, CopyOK, Copy, Pending, MayReachExit
  <2>2. copies' = [copies EXCEPT ![c] = [copies[c] EXCEPT ![i] = new]]
    BY <1>2 DEF WritePacket
  <2> HIDE DEF new
  <2> QED
    BY <1>2, <2>1, <2>2, EditStays DEF WritePacket
<1>3. ASSUME NEW p \in Packets, UploadFails(c, i, p)
      PROVE  Stays(d)
  <2>1. PICK failure \in {"notsent", "unsure"}, gone \in {"written", "never"} :
           /\ failure = "notsent" => Kps /\ copy.packet[p] = "no" /\ gone = "never"
           /\ failure = "unsure" => ~(Kps /\ closed) /\ copy.packet[p] # "never"
           /\ copy.packet[p] = "written" => gone = "written"
           /\ copies' = [copies EXCEPT
                ![c][i] = [copy EXCEPT !.packet[p] = gone,
                                       !.result = IF @ = "none" THEN failure ELSE @]]
    BY <1>3 DEF UploadFails
  <2> DEFINE new == [copy EXCEPT !.packet[p] = gone,
                                 !.result = IF @ = "none" THEN failure ELSE @]
  <2>2. CopyStep(copy, new)
    BY <1>1, <2>1 DEF CopyStep, CopyOK, Copy, Results, Pending, MayReachExit
  <2>3. copies' = [copies EXCEPT ![c] = [copies[c] EXCEPT ![i] = new]]
    BY <2>1
  <2> HIDE DEF new
  <2> QED
    BY <1>3, <2>2, <2>3, EditStays DEF UploadFails
<1>4. ASSUME NEW result \in {"other", "timeout"}, Pending(copy), SettleCopy(c, i, result),
             UNCHANGED <<transportLeft, routeResendUsed, status>>
      PROVE  Stays(d)
  <2> DEFINE new == [copy EXCEPT !.result = result]
  <2>1. CopyStep(copy, new)
    BY <1>1, <1>4 DEF CopyStep, CopyOK, Copy, Results, Pending, MayReachExit
  <2>2. copies' = [copies EXCEPT ![c] = [copies[c] EXCEPT ![i] = new]]
    BY <1>4 DEF SettleCopy
  <2> HIDE DEF new
  <2> QED
    BY <1>4, <2>1, <2>2, EditStays
<1>5. CASE OversizeReply(c, i)
  <2>1. Pending(copy)
    BY <1>5 DEF OversizeReply, Answerable, CopyAt
  <2> QED
    BY <1>4, <1>5, <2>1 DEF OversizeReply
<1>6. CASE Timeout(c, i)
  BY <1>4, <1>6 DEF Timeout
<1> QED
  BY <1>2, <1>3, <1>5, <1>6

\* The replies of one claim, and disconnect(): each copy is kept or settled.
LEMMA BatchStays ==
  ASSUME CallInv, NEW result \in {"reply", "unsure"}, NEW hit,
         \A x \in hit : Pending(CopyAt(x)),
         copies' = [c \in Calls |-> [i \in Copies(c) |->
                     IF <<c, i>> \in hit THEN [copies[c][i] EXCEPT !.result = result]
                     ELSE copies[c][i]]],
         UNCHANGED <<transportLeft, routeResendUsed, status>>, NEW c \in Calls
  PROVE  Stays(c)
<1> USE DEF CallInv
<1> DEFINE cs == copies'[c]  n == Len(copies[c])
<1>1. n \in Nat /\ Copies(c) = 1..n /\ \A i \in 1..n : copies[c][i] \in Copy /\ CopyOK(copies[c][i])
  BY CopiesTyped DEF CopiesOK
<1>2. cs = [i \in 1..n |-> IF <<c, i>> \in hit THEN [copies[c][i] EXCEPT !.result = result]
                           ELSE copies[c][i]]
  BY <1>1
<1>3. ASSUME NEW i \in 1..n
      PROVE  cs[i] \in Copy /\ CopyStep(copies[c][i], cs[i])
  <2>1. cs[i] = IF <<c, i>> \in hit THEN [copies[c][i] EXCEPT !.result = result]
                ELSE copies[c][i]
    BY <1>2
  <2>2. copies[c][i] \in Copy /\ CopyOK(copies[c][i])
    BY <1>1
  <2> HIDE DEF cs, n
  <2>3. CASE <<c, i>> \in hit
    <3>1. Pending(copies[c][i])
      BY <2>3 DEF CopyAt
    <3>2. cs[i] = [copies[c][i] EXCEPT !.result = result]
      BY <2>1, <2>3
    <3> QED
      BY <2>2, <3>1, <3>2 DEF CopyStep, CopyOK, Copy, Results, Pending, MayReachExit
  <2>4. CASE <<c, i>> \notin hit
    BY <2>1, <2>2, <2>4 DEF CopyStep
  <2> QED
    BY <2>3, <2>4
<1>4. cs = [i \in 1..n |-> cs[i]]
  BY <1>2
<1>5. cs \in Seq(Copy) /\ Len(cs) = n
  <2> HIDE DEF cs, n
  <2> QED
    BY <1>1, <1>3, <1>4, MappedSeq
<1>6. Evolves(c, copies'[c])
  BY <1>1, <1>3, <1>5 DEF Evolves
<1> QED
  BY <1>6 DEF Stays

\* Replies and Disconnect
LEMMA RepliesStay ==
  ASSUME CallInv, Replies \/ Disconnect, NEW c \in Calls
  PROVE  Stays(c)
<1>1. CASE Replies
  <2>1. PICK answers \in SUBSET Answerable : Answered(answers)
    BY <1>1 DEF Replies
  <2>2. \A x \in answers : Pending(CopyAt(x))
    BY DEF Answerable
  <2> QED
    BY <2>1, <2>2, BatchStays DEF Answered
<1>2. CASE Disconnect
  <2> DEFINE hit == {x \in AllCopies : Pending(CopyAt(x))}
  <2>1. \A d \in Calls : \A i \in Copies(d) : <<d, i>> \in hit <=> Pending(copies[d][i])
    BY DEF AllCopies, CopyAt
  <2>2. \A x \in hit : Pending(CopyAt(x))
    OBVIOUS
  <2>3. copies' = [d \in Calls |-> [i \in Copies(d) |->
                    IF Pending(copies[d][i]) THEN [copies[d][i] EXCEPT !.result = "unsure"]
                    ELSE copies[d][i]]]
    BY <1>2 DEF Disconnect
  <2> HIDE DEF hit
  <2>4. copies' = [d \in Calls |-> [i \in Copies(d) |->
                    IF <<d, i>> \in hit THEN [copies[d][i] EXCEPT !.result = "unsure"]
                    ELSE copies[d][i]]]
    BY <2>1, <2>3, Zenon
  <2> QED
    BY <1>2, <2>2, <2>4, BatchStays DEF Disconnect
<1> QED
  BY <1>1, <1>2

\* CallerAborts
LEMMA AbortStays ==
  ASSUME CallInv, NEW c \in Calls, CallerAborts(c), NEW d \in Calls
  PROVE  Stays(d)
<1> USE DEF CallInv
<1>1. copies \in [Calls -> Seq(Copy)] /\ copies' = [copies EXCEPT ![c] = Cancelled(copies[c])]
  BY DEF TypeOK, CallerAborts
<1>2. UNCHANGED <<transportLeft, routeResendUsed, status>>
  BY DEF CallerAborts
<1>3. CASE d = c
  <2>1. Evolves(c, copies'[c])
    BY <1>1, SelfEvolves, CancelledEvolves
  <2> QED
    BY <1>2, <1>3, <2>1 DEF Stays
<1>4. CASE d # c
  BY <1>1, <1>2, <1>4, UntouchedStays
<1> QED
  BY <1>3, <1>4

\* A step that only touches call c.
Only(c) ==
  \A d \in Calls \ {c} : UNCHANGED <<copies[d], status[d], transportLeft[d], routeResendUsed[d]>>

\* The closures touch only their own call.
LEMMA ClosuresOnly ==
  ASSUME TypeOK, NEW c \in Calls, NEW cs,
         \/ Continue(c, cs)
         \/ \E how \in {"resolved", "rejected"} : Finish(c, cs, how)
         \/ FailIfIdle(c, cs)
         \/ \E plan \in [version : {1, 2}, entry : Entries], hedge \in BOOLEAN : Launch(c, cs, plan, hedge),
         \/ UNCHANGED <<transportLeft, routeResendUsed>>
         \/ UNCHANGED transportLeft /\ UseRouteResend(c)
         \/ TakeTransportResend(c)
  PROVE  Only(c)
<1>1. /\ copies \in [Calls -> Seq(Copy)]
      /\ status \in [Calls -> {"new", "running", "resolved", "rejected"}]
      /\ routeResendUsed \in [Calls -> BOOLEAN] /\ transportLeft \in [Calls -> 0..TransportResends]
  BY DEF TypeOK
<1>2. \A d \in Calls \ {c} : UNCHANGED <<transportLeft[d], routeResendUsed[d]>>
  BY <1>1 DEF TakeTransportResend, UseRouteResend
<1>3. \A d \in Calls \ {c} : UNCHANGED <<copies[d], status[d]>>
  BY <1>1 DEF Continue, Finish, FailIfIdle, Launch
<1> QED
  BY <1>2, <1>3 DEF Only

\* A plan of either kind names a format and an entry.
LEMMA PlansTyped ==
  ASSUME NEW failed
  PROVE  /\ PlanResend(failed) \subseteq [version : {1, 2}, entry : Entries]
         /\ PlanTransportResend(failed) \subseteq [version : {1, 2}, entry : Entries]
BY SendAssumption DEF PlanResend, PlanTransportResend, Plans, StrictV2

\* OnSuccess and OnFailure, for the call they handle
LEMMA HandlersStayOrSend ==
  ASSUME CallInv, NEW c \in Calls, NEW i \in Copies(c), OnSuccess(c, i) \/ OnFailure(c, i)
  PROVE  Only(c) /\ (Stays(c) \/ Sends(c))
<1> USE DEF CallInv
<1>1. Queued(copies[c][i])
  BY DEF OnSuccess, OnFailure
<1>2. Evolves(c, Ended(c, i))
  BY <1>1, EndedEvolves
<1>3. status[c] # "new"
  <2>1. SUFFICES ASSUME copies[c] = <<>> PROVE FALSE
    BY DEF NewIsEmpty
  <2> QED
    BY <2>1 DEF Copies
<1>4. CASE OnSuccess(c, i)
  BY <1>2, <1>3, <1>4, ClosuresStay, ClosuresOnly DEF OnSuccess
<1>5. CASE OnFailure(c, i)
  <2>1. CASE /\ Continue(c, Ended(c, i)) \/ (status[c] = "running" /\ Finish(c, Ended(c, i), "rejected"))
             /\ UNCHANGED <<routeResendUsed, transportLeft>>
    BY <2>1, <1>2, <1>3, ClosuresStay, ClosuresOnly
  <2>2. CASE status[c] = "running" /\ TransportFailed(c, i)
    <3>1. CASE FailIfIdle(c, Ended(c, i)) /\ UNCHANGED <<routeResendUsed, transportLeft>>
      BY <3>1, <2>2, <1>2, <1>3, ClosuresStay, ClosuresOnly
    <3>2. CASE /\ MayResend(c, i) /\ TakeTransportResend(c)
               /\ \E plan \in PlanTransportResend(copies[c][i]) : Launch(c, Ended(c, i), plan, FALSE)
      <4>1. PICK plan \in [version : {1, 2}, entry : Entries] : Launch(c, Ended(c, i), plan, FALSE)
        BY <3>2, PlansTyped
      <4>2. transportLeft \in [Calls -> 0..TransportResends] /\ routeResendUsed \in [Calls -> BOOLEAN]
        BY DEF TypeOK
      <4>3. \/ /\ transportLeft[c] > 0 /\ transportLeft'[c] = transportLeft[c] - 1
               /\ routeResendUsed'[c] = routeResendUsed[c]
            \/ /\ transportLeft'[c] = transportLeft[c]
               /\ ~routeResendUsed[c] /\ routeResendUsed'[c]
        BY <3>2, <4>2 DEF TakeTransportResend, UseRouteResend
      <4>4. retry[c] = "none" =>
              \E j \in Copies(c) : /\ copies[c][j].result = "notsent"
                                  /\ copies[c][j].live /\ ~Ended(c, i)[j].live
        <5>1. copies[c][i].live /\ ~Ended(c, i)[i].live
          BY <1>1, CopiesTyped DEF Queued, Ended, Copies, Copy
        <5> QED
          BY <3>2, <5>1 DEF MayResend
      <4>5. Only(c)
        BY <3>2, <4>1, ClosuresOnly
      <4> QED
        BY <2>2, <4>1, <4>3, <4>4, <4>5, <1>2, LaunchSends
    <3> QED
      BY <2>2, <3>1, <3>2 DEF TransportFailed
  <2>3. CASE status[c] = "running" /\ TimedOut(c, i)
    <3>1. CASE FailIfIdle(c, Ended(c, i)) /\ UNCHANGED <<routeResendUsed, transportLeft>>
      BY <3>1, <2>3, <1>2, <1>3, ClosuresStay, ClosuresOnly
    <3>2. CASE /\ retry[c] # "none" /\ ~routeResendUsed[c] /\ UseRouteResend(c)
               /\ UNCHANGED transportLeft
               /\ \E plan \in PlanResend(copies[c][i]) : Launch(c, Ended(c, i), plan, FALSE)
      <4>1. PICK plan \in [version : {1, 2}, entry : Entries] : Launch(c, Ended(c, i), plan, FALSE)
        BY <3>2, PlansTyped
      <4>2. routeResendUsed'[c]
        BY <3>2 DEF UseRouteResend, TypeOK
      <4>3. Only(c)
        BY <3>2, <4>1, ClosuresOnly
      <4> QED
        BY <2>3, <3>2, <4>1, <4>2, <4>3, <1>2, LaunchSends
    <3> QED
      BY <2>3, <3>1, <3>2 DEF TimedOut
  <2> QED
    BY <1>5, <2>1, <2>2, <2>3 DEF OnFailure
<1> QED
  BY <1>4, <1>5

\* OnLost and HedgeTimer, for the call they serve
LEMMA EarlyResendsSend ==
  ASSUME CallInv, NEW c \in Calls,
         (\E i \in Copies(c) : OnLost(c, i)) \/ HedgeTimer(c)
  PROVE  Only(c) /\ (Stays(c) \/ Sends(c))
<1> USE DEF CallInv
<1>1. Evolves(c, copies[c])
  BY SelfEvolves
<1>2. ASSUME NEW failed, NEW hedge \in BOOLEAN, status[c] = "running",
             retry[c] # "none", ~routeResendUsed[c], UseRouteResend(c), UNCHANGED transportLeft,
             \E plan \in PlanResend(failed) : Launch(c, copies[c], plan, hedge)
      PROVE  Only(c) /\ Sends(c)
  <2>1. PICK plan \in [version : {1, 2}, entry : Entries] : Launch(c, copies[c], plan, hedge)
    BY <1>2, PlansTyped
  <2>2. routeResendUsed'[c]
    BY <1>2 DEF UseRouteResend, TypeOK
  <2>3. Only(c)
    BY <1>2, <2>1, ClosuresOnly
  <2> QED
    BY <1>1, <1>2, <2>1, <2>2, <2>3, LaunchSends
<1>3. ASSUME NEW i \in Copies(c), OnLost(c, i)
      PROVE  Only(c) /\ Sends(c)
  BY <1>2, <1>3 DEF OnLost
<1>4. CASE HedgeTimer(c)
  <2>1. CASE UNCHANGED <<status, copies, routeResendUsed, hedgesInFlight>>
    BY <1>4, <2>1, UntouchedStays DEF HedgeTimer, Only
  <2>2. CASE /\ status[c] = "running" /\ ~routeResendUsed[c] /\ UseRouteResend(c)
             /\ \E plan \in PlanResend(copies[c][FirstLive(copies[c])]) :
                  Launch(c, copies[c], plan, TRUE)
    <3>1. retry[c] # "none" /\ UNCHANGED transportLeft
      BY <1>4 DEF HedgeTimer, HedgersAreResendable
    <3> QED
      BY <2>2, <3>1, <1>2
  <2> QED
    BY <1>4, <2>1, <2>2 DEF HedgeTimer
<1> QED
  BY <1>3, <1>4

\* Every step, call by call.
LEMMA StepStaysOrSends ==
  ASSUME CallInv, [Next]_vars, NEW d \in Calls
  PROVE  Stays(d) \/ Sends(d)
<1> USE DEF CallInv
<1>1. ASSUME NEW c \in Calls, Only(c), Stays(c) \/ Sends(c)
      PROVE  Stays(d) \/ Sends(d)
  BY <1>1, UntouchedStays DEF Only
<1>2. ASSUME NEW c \in Calls, Start(c)
      PROVE  Stays(d) \/ Sends(d)
  BY <1>2, StartSends
<1>3. ASSUME NEW c \in Calls, NEW i \in Copies(c), NEW p \in Packets,
             WritePacket(c, i, p) \/ UploadFails(c, i, p)
      PROVE  Stays(d)
  BY <1>3, EventsStay
<1>4. ASSUME NEW c \in Calls, NEW i \in Copies(c), OversizeReply(c, i) \/ Timeout(c, i)
      PROVE  Stays(d)
  BY <1>4, EventsStay
<1>5. CASE Replies \/ Disconnect
  BY <1>5, RepliesStay
<1>6. ASSUME NEW c \in Calls, CallerAborts(c)
      PROVE  Stays(d)
  BY <1>6, AbortStays
<1>7. ASSUME NEW c \in Calls, NEW i \in Copies(c), OnSuccess(c, i) \/ OnFailure(c, i)
      PROVE  Stays(d) \/ Sends(d)
  BY <1>1, <1>7, HandlersStayOrSend
<1>8. ASSUME NEW c \in Calls, (\E i \in Copies(c) : OnLost(c, i)) \/ HedgeTimer(c)
      PROVE  Stays(d) \/ Sends(d)
  BY <1>1, <1>8, EarlyResendsSend
<1>9. CASE UNCHANGED vars
  BY <1>9, UntouchedStays DEF vars, callVars
<1> QED
  BY <1>2, <1>3, <1>4, <1>5, <1>6, <1>7, <1>8, <1>9 DEF Next

-----------------------------------------------------------------------------
(* The invariant                                                           *)

\* The initial state.
LEMMA InitCallInv ==
  ASSUME Init
  PROVE  CallInv
<1>1. \A c \in Calls : copies[c] = <<>> /\ Len(copies[c]) = 0 /\ Copies(c) = {}
  BY DEF Init, Copies
<1>2. TypeOK
  <2>1. copies \in [Calls -> Seq(Copy)]
    BY DEF Init
  <2>2. transportLeft \in [Calls -> 0..TransportResends] /\ hedgesInFlight \in Nat
        /\ pinnedFailures \in Nat
    BY SendAssumption DEF Init
  <2>3. /\ routeResendUsed \in [Calls -> BOOLEAN] /\ hedgeTimer \in [Calls -> BOOLEAN]
        /\ aborted \in [Calls -> BOOLEAN] /\ closed \in BOOLEAN
    BY Zenon DEF Init
  <2>4. /\ retry \in [Calls -> RetryModes] /\ pinned \in Entries
        /\ status \in [Calls -> {"new", "running", "resolved", "rejected"}]
    BY DEF Init
  <2> QED
    BY <2>1, <2>2, <2>3, <2>4 DEF TypeOK
<1>3. BudgetSpent
  BY <1>1, SendAssumption DEF Init, BudgetSpent
<1> QED
  BY <1>1, <1>2, <1>3 DEF Init, CallInv, NewIsEmpty, HedgersAreResendable, CopiesOK,
     OnlyLastMayReach, SettledLeavesNothing

\* What a step does to the variables besides the copies.
OthersTyped ==
  /\ retry' = retry
  /\ \A c \in Calls : hedgeTimer'[c] => hedgeTimer[c] \/ retry[c] = "route"
  /\ hedgeTimer' \in [Calls -> BOOLEAN] /\ aborted' \in [Calls -> BOOLEAN]
  /\ status' \in [Calls -> {"new", "running", "resolved", "rejected"}]
  /\ routeResendUsed' \in [Calls -> BOOLEAN]
  /\ transportLeft' \in [Calls -> 0..TransportResends]
  /\ hedgesInFlight' \in Nat
  /\ pinned' \in Entries /\ pinnedFailures' \in Nat /\ closed' \in BOOLEAN
  /\ copies' = [c \in Calls |-> copies'[c]]

\* Every step keeps the types of the variables besides the copies.
LEMMA StepOthersTyped ==
  ASSUME TypeOK, [Next]_vars
  PROVE  OthersTyped
<1> USE SendAssumption DEF TypeOK, OthersTyped
<1>1. ASSUME NEW c \in Calls, Start(c)
      PROVE  OthersTyped
  BY <1>1 DEF Start, entryVars
<1>2. ASSUME NEW c \in Calls, NEW i \in Copies(c), NEW p \in Packets, WritePacket(c, i, p)
      PROVE  OthersTyped
  BY <1>2 DEF WritePacket, entryVars
<1>3. ASSUME NEW c \in Calls, NEW i \in Copies(c), NEW p \in Packets, UploadFails(c, i, p)
      PROVE  OthersTyped
  BY <1>3 DEF UploadFails, entryVars
<1>4. CASE Replies
  BY <1>4 DEF Replies, Answered, entryVars
<1>5. ASSUME NEW c \in Calls, NEW i \in Copies(c), OversizeReply(c, i) \/ Timeout(c, i)
      PROVE  OthersTyped
  BY <1>5 DEF OversizeReply, Timeout, SettleCopy, entryVars
<1>6. ASSUME NEW c \in Calls, CallerAborts(c)
      PROVE  OthersTyped
  BY <1>6 DEF CallerAborts, entryVars
<1>7. CASE Disconnect
  BY <1>7 DEF Disconnect, entryVars
<1>8. ASSUME NEW c \in Calls, NEW i \in Copies(c), OnSuccess(c, i) \/ OnFailure(c, i)
      PROVE  OthersTyped
  <2>1. UNCHANGED <<retry, aborted, closed>>
    BY <1>8 DEF OnSuccess, OnFailure
  <2>6. hedgesInFlight' \in Nat
    <3>1. hedgesInFlight' = HedgesAfter(c, i)
      BY <1>8 DEF OnSuccess, OnFailure
    <3> QED
      BY <3>1 DEF HedgesAfter
  <2>2. pinned' \in Entries /\ pinnedFailures' \in Nat
    <3>1. \/ UNCHANGED entryVars
          \/ \E e \in Entries : NoteEntrySuccess(e) \/ NoteEntryFailure(e)
      <4>1. copies[c][i].entry \in Entries
        BY CopiesTyped DEF Copy
      <4> QED
        BY <1>8, <4>1 DEF OnSuccess, OnFailure, TransportFailed, TimedOut
    <3> QED
      BY <3>1 DEF NoteEntrySuccess, NoteEntryFailure, entryVars
  <2>3. /\ \/ UNCHANGED <<status, hedgeTimer>>
           \/ \E how \in {"resolved", "rejected"} :
                /\ status' = [status EXCEPT ![c] = how]
                /\ hedgeTimer' = [hedgeTimer EXCEPT ![c] = FALSE]
        /\ \E cs : copies' = [copies EXCEPT ![c] = cs]
    BY <1>8 DEF OnSuccess, OnFailure, TransportFailed, TimedOut, Continue, Finish, FailIfIdle,
                Launch
  <2>4. /\ routeResendUsed' \in [Calls -> BOOLEAN]
        /\ transportLeft' \in [Calls -> 0..TransportResends]
    <3>1. \/ UNCHANGED <<routeResendUsed, transportLeft>> \/ TakeTransportResend(c)
          \/ UseRouteResend(c) /\ UNCHANGED transportLeft
      BY <1>8 DEF OnSuccess, OnFailure, TransportFailed, TimedOut
    <3>2. transportLeft' \in [Calls -> 0..TransportResends]
      <4>1. transportLeft[c] \in 0..TransportResends
        OBVIOUS
      <4>2. CASE UNCHANGED transportLeft
        BY <4>2
      <4>3. CASE transportLeft[c] > 0 /\ transportLeft' = [transportLeft EXCEPT ![c] = @ - 1]
        <5>1. transportLeft[c] - 1 \in 0..TransportResends
          BY <4>1, <4>3
        <5> QED
          BY <5>1, <4>3
      <4> QED
        BY <3>1, <4>2, <4>3 DEF TakeTransportResend
    <3>3. routeResendUsed' = routeResendUsed \/ routeResendUsed' = [routeResendUsed EXCEPT ![c] = TRUE]
      BY <3>1 DEF TakeTransportResend, UseRouteResend
    <3>4. routeResendUsed' \in [Calls -> BOOLEAN]
      BY <3>3
    <3> QED
      BY <3>2, <3>4
  <2>5. /\ status' \in [Calls -> {"new", "running", "resolved", "rejected"}]
        /\ hedgeTimer' \in [Calls -> BOOLEAN] /\ \A d \in Calls : hedgeTimer'[d] => hedgeTimer[d]
        /\ copies' = [d \in Calls |-> copies'[d]]
    <3>1. status' \in [Calls -> {"new", "running", "resolved", "rejected"}]
      BY <2>3
    <3>2. hedgeTimer' = hedgeTimer \/ hedgeTimer' = [hedgeTimer EXCEPT ![c] = FALSE]
      BY <2>3
    <3>3. hedgeTimer' \in [Calls -> BOOLEAN] /\ \A d \in Calls : hedgeTimer'[d] => hedgeTimer[d]
      BY <3>2
    <3>4. copies' = [d \in Calls |-> copies'[d]]
      BY <2>3
    <3> QED
      BY <3>1, <3>3, <3>4
  <2> QED
    BY <2>1, <2>2, <2>4, <2>5, <2>6
<1>9. ASSUME NEW c \in Calls, NEW i \in Copies(c), OnLost(c, i)
      PROVE  OthersTyped
  BY <1>9 DEF OnLost, Launch, UseRouteResend, entryVars
<1>10. ASSUME NEW c \in Calls, HedgeTimer(c)
       PROVE  OthersTyped
  <2>1. /\ hedgesInFlight' \in Nat /\ hedgeTimer' = [hedgeTimer EXCEPT ![c] = FALSE]
        /\ UNCHANGED <<retry, transportLeft, aborted, pinned, pinnedFailures, closed, status>>
    BY <1>10 DEF HedgeTimer, Launch, entryVars
  <2>2. routeResendUsed' = routeResendUsed \/ routeResendUsed' = [routeResendUsed EXCEPT ![c] = TRUE]
    BY <1>10 DEF HedgeTimer, UseRouteResend
  <2>3. copies' = copies \/ \E cs : copies' = [copies EXCEPT ![c] = cs]
    BY <1>10 DEF HedgeTimer, Launch
  <2>4. /\ hedgeTimer' \in [Calls -> BOOLEAN] /\ \A d \in Calls : hedgeTimer'[d] => hedgeTimer[d]
        /\ routeResendUsed' \in [Calls -> BOOLEAN]
        /\ copies' = [d \in Calls |-> copies'[d]]
    BY <2>1, <2>2, <2>3
  <2> QED
    BY <2>1, <2>4
<1>11. CASE UNCHANGED vars
  BY <1>11 DEF vars, callVars, entryVars
<1> QED
  BY <1>1, <1>2, <1>3, <1>4, <1>5, <1>6, <1>7, <1>8, <1>9, <1>10, <1>11 DEF Next

\* The copies of a call that stays or sends, after the step.
LEMMA CallKeepsInv ==
  ASSUME CallInv, OthersTyped, NEW c \in Calls, Stays(c) \/ Sends(c)
  PROVE  /\ copies'[c] \in Seq(Copy)
         /\ status'[c] = "new" => copies'[c] = <<>>
         /\ \A i \in DOMAIN copies'[c] : CopyOK(copies'[c][i])
         /\ Len(copies'[c]) <= 1 + (TransportResends - transportLeft'[c])
                                 + (IF routeResendUsed'[c] THEN 1 ELSE 0)
         /\ retry[c] = "none" => \A i \in DOMAIN copies'[c] :
              i # Len(copies'[c]) => ~copies'[c][i].live /\ ~MayReachExit(copies'[c][i])
         /\ status'[c] \in {"resolved", "rejected"} =>
              \A i \in DOMAIN copies'[c] : ~Pending(copies'[c][i])
<1> USE DEF CallInv
<1> DEFINE n == Len(copies[c])
<1>1. n \in Nat /\ Copies(c) = 1..n
  BY CopiesTyped
<1>2. /\ transportLeft[c] \in 0..TransportResends /\ routeResendUsed[c] \in BOOLEAN
      /\ transportLeft'[c] \in 0..TransportResends /\ routeResendUsed'[c] \in BOOLEAN
      /\ n <= 1 + (TransportResends - transportLeft[c]) + (IF routeResendUsed[c] THEN 1 ELSE 0)
      /\ TransportResends \in Nat
  BY SendAssumption DEF TypeOK, OthersTyped, BudgetSpent
<1>3. ASSUME NEW cs, Evolves(c, cs)
      PROVE  cs \in Seq(Copy) /\ Len(cs) = n /\ DOMAIN cs = 1..n
  BY <1>3, <1>1, LenProperties DEF Evolves
<1>4. CASE Stays(c)
  <2> DEFINE cs == copies'[c]
  <2>1. Evolves(c, cs) /\ cs \in Seq(Copy) /\ Len(cs) = n /\ DOMAIN cs = 1..n
    BY <1>3, <1>4 DEF Stays
  <2>2. \A i \in 1..n : CopyStep(copies[c][i], cs[i])
    BY <2>1, <1>1 DEF Evolves
  <2>3. status'[c] = "new" => cs = <<>>
    <3>1. SUFFICES ASSUME status'[c] = "new" PROVE cs = <<>>
      OBVIOUS
    <3>2. n = 0
      BY <3>1, <1>4 DEF Stays, NewIsEmpty
    <3> QED
      BY <3>2, <2>1, EmptySeq
  <2>4. \A i \in 1..n : CopyOK(cs[i])
    BY <2>2 DEF CopyStep
  <2>5. retry[c] = "none" => \A i \in 1..n : i # n => ~cs[i].live /\ ~MayReachExit(cs[i])
    BY <2>2, <1>1 DEF CopyStep, OnlyLastMayReach
  <2>6. status'[c] \in {"resolved", "rejected"} => \A i \in 1..n : ~Pending(cs[i])
    <3>1. CASE status[c] \in {"resolved", "rejected"}
      BY <3>1, <2>2, <1>1 DEF CopyStep, SettledLeavesNothing
    <3>2. CASE status[c] = "running"
      BY <3>2, <1>4, <2>1 DEF Stays
    <3>3. CASE status[c] = "new"
      BY <3>3, <1>4 DEF Stays
    <3> QED
      BY <3>1, <3>2, <3>3 DEF TypeOK
  <2>7. Len(cs) <= 1 + (TransportResends - transportLeft'[c])
                     + (IF routeResendUsed'[c] THEN 1 ELSE 0)
    BY <2>1, <1>2, <1>4 DEF Stays
  <2> HIDE DEF cs, n
  <2> QED
    BY <2>1, <2>3, <2>4, <2>5, <2>6, <2>7 DEF cs
<1>5. CASE Sends(c)
  <2>1. PICK cs, new : /\ Evolves(c, cs) /\ new \in Copy /\ CopyOK(new)
                       /\ copies'[c] = Append(cs, new)
                       /\ (retry[c] = "none" /\ copies[c] # <<>>) =>
                            \E i \in Copies(c) : /\ copies[c][i].result = "notsent"
                                                /\ copies[c][i].live /\ ~cs[i].live
    BY <1>5 DEF Sends
  <2>2. cs \in Seq(Copy) /\ Len(cs) = n /\ DOMAIN cs = 1..n
    BY <1>3, <2>1
  <2>3. /\ copies'[c] \in Seq(Copy) /\ Len(copies'[c]) = n + 1
        /\ DOMAIN copies'[c] = 1..(n + 1)
        /\ \A i \in 1..n : copies'[c][i] = cs[i]
        /\ copies'[c][n + 1] = new
    BY <2>1, <2>2, AppendProperties, LenProperties
  <2>4. \A i \in 1..n : CopyStep(copies[c][i], cs[i])
    BY <2>1, <1>1 DEF Evolves
  <2>5. \A i \in 1..(n + 1) : i # n + 1 => i \in 1..n
    BY <1>1
  <2>6. \A i \in 1..(n + 1) : CopyOK(copies'[c][i])
    BY <2>1, <2>3, <2>4, <2>5 DEF CopyStep
  <2>7. ASSUME retry[c] = "none"
        PROVE  \A i \in 1..n : ~cs[i].live /\ ~MayReachExit(cs[i])
    <3>1. CASE n = 0
      BY <3>1
    <3>2. CASE n # 0
      <4>1. copies[c] # <<>>
        BY <3>2
      <4>2. PICK i \in Copies(c) : /\ copies[c][i].result = "notsent"
                                   /\ copies[c][i].live /\ ~cs[i].live
        BY <4>1, <2>1, <2>7
      <4>3. i = n
        BY <4>2, <2>7 DEF OnlyLastMayReach
      <4>4. ~MayReachExit(copies[c][i])
        BY <4>2 DEF CopiesOK, CopyOK
      <4>5. \A j \in 1..n : j # n => ~copies[c][j].live /\ ~MayReachExit(copies[c][j])
        BY <2>7, <1>1 DEF OnlyLastMayReach
      <4> HIDE DEF n
      <4> QED
        BY <4>2, <4>3, <4>4, <4>5, <2>4 DEF CopyStep
    <3> QED
      BY <3>1, <3>2
  <2>8. retry[c] = "none" => \A i \in 1..(n + 1) :
          i # n + 1 => ~copies'[c][i].live /\ ~MayReachExit(copies'[c][i])
    BY <2>3, <2>5, <2>7
  <2>9. n + 1 <= 1 + (TransportResends - transportLeft'[c])
                   + (IF routeResendUsed'[c] THEN 1 ELSE 0)
    <3>1. CASE copies[c] = <<>>
      <4>1. n = 0
        BY <3>1
      <4> QED
        BY <4>1, <1>2
    <3>2. CASE /\ transportLeft[c] > 0 /\ transportLeft'[c] = transportLeft[c] - 1
               /\ routeResendUsed'[c] = routeResendUsed[c]
      <4> HIDE DEF n
      <4> QED
        BY <3>2, <1>1, <1>2, SMTT(30)
    <3>3. CASE /\ transportLeft'[c] = transportLeft[c]
               /\ ~routeResendUsed[c] /\ routeResendUsed'[c]
      <4>1. n <= 1 + (TransportResends - transportLeft[c])
        BY <3>3, <1>1, <1>2
      <4>2. (IF routeResendUsed'[c] THEN 1 ELSE 0) = 1
        BY <3>3
      <4> HIDE DEF n
      <4> QED
        BY <3>3, <4>1, <4>2, <1>1, <1>2
    <3> QED
      BY <1>5, <3>1, <3>2, <3>3 DEF Sends
  <2>10. status'[c] = "running"
    BY <1>5 DEF Sends
  <2> HIDE DEF n
  <2> QED
    BY <2>3, <2>6, <2>8, <2>9, <2>10
<1> QED
  BY <1>4, <1>5

\* A step keeps the invariant.
LEMMA StepCallInv ==
  ASSUME CallInv, [Next]_vars
  PROVE  CallInv'
<1>1. OthersTyped
  BY StepOthersTyped DEF CallInv
<1>2. \A c \in Calls : Stays(c) \/ Sends(c)
  BY StepStaysOrSends
<1>3. TypeOK'
  <2>1. \A c \in Calls : copies'[c] \in Seq(Copy)
    BY <1>1, <1>2, CallKeepsInv
  <2>2. copies' \in [Calls -> Seq(Copy)]
    BY <1>1, <2>1 DEF OthersTyped
  <2> QED
    BY <1>1, <2>2 DEF TypeOK, OthersTyped, CallInv
<1>4. NewIsEmpty'
  BY <1>1, <1>2, CallKeepsInv DEF NewIsEmpty
<1>5. HedgersAreResendable'
  BY <1>1 DEF OthersTyped, HedgersAreResendable, CallInv
<1>6. CopiesOK'
  BY <1>1, <1>2, CallKeepsInv DEF CopiesOK, Copies, CopyOK, Pending, MayReachExit
<1>7. BudgetSpent'
  BY <1>1, <1>2, CallKeepsInv DEF BudgetSpent
<1>8. OnlyLastMayReach'
  <2>1. retry' = retry
    BY <1>1 DEF OthersTyped
  <2> QED
    BY <2>1, <1>1, <1>2, CallKeepsInv DEF OnlyLastMayReach, Copies, MayReachExit
<1>9. SettledLeavesNothing'
  BY <1>1, <1>2, CallKeepsInv DEF SettledLeavesNothing, Copies, Pending
<1> QED
  BY <1>3, <1>4, <1>5, <1>6, <1>7, <1>8, <1>9 DEF CallInv

\* The calls' invariant holds of every behaviour.
THEOREM CallInvariant == Spec => []CallInv
BY InitCallInv, StepCallInv, PTL DEF Spec

\* A call sends at most 2 + TransportResends copies.
THEOREM CopiesAreBounded == Spec => []CopiesBounded
<1>1. ASSUME CallInv PROVE CopiesBounded
  <2> SUFFICES ASSUME NEW c \in Calls PROVE Len(copies[c]) <= 2 + TransportResends
    BY DEF CopiesBounded
  <2>1. Len(copies[c]) \in Nat /\ transportLeft[c] \in 0..TransportResends /\ TransportResends \in Nat
    BY <1>1, CopiesTyped, SendAssumption DEF CallInv, TypeOK
  <2>2. Len(copies[c]) <= 1 + (TransportResends - transportLeft[c])
                            + (IF routeResendUsed[c] THEN 1 ELSE 0)
    BY <1>1 DEF CallInv, BudgetSpent
  <2> QED
    BY <2>1, <2>2
<1> QED
  BY <1>1, CallInvariant, PTL

\* A request that may not be repeated reaches the exit in at most one copy.
THEOREM NeverServedTwice == Spec => []AtMostOnce
<1>1. ASSUME CallInv PROVE AtMostOnce
  BY <1>1 DEF CallInv, OnlyLastMayReach, AtMostOnce
<1> QED
  BY <1>1, CallInvariant, PTL

\* A settled call leaves no copy pending.
THEOREM SettledIsClean == Spec => []SettledLeavesNothing
BY CallInvariant, PTL DEF CallInv

-----------------------------------------------------------------------------
(* The hedge counter                                                       *)

\* The live hedges among the copies cs of a call.
HedgesOf(cs) == {i \in DOMAIN cs : cs[i].live /\ cs[i].hedge}

\* _hedgesInFlight is exact.  The set is finite, however many calls there are.
HedgeInv == CallInv /\ IsFiniteSet(LiveHedges) /\ HedgesCounted

\* What a step does to the live hedges: nothing; one ends and gives its place
\* back; or one more starts where a place is free.
HedgesKept == /\ hedgesInFlight' = hedgesInFlight
              /\ \A c \in Calls : HedgesOf(copies'[c]) = HedgesOf(copies[c])
HedgeEnds(c, i) ==
  /\ i \in HedgesOf(copies[c]) /\ HedgesOf(copies'[c]) = HedgesOf(copies[c]) \ {i}
  /\ hedgesInFlight' = IF hedgesInFlight > 0 THEN hedgesInFlight - 1 ELSE hedgesInFlight
  /\ \A d \in Calls \ {c} : HedgesOf(copies'[d]) = HedgesOf(copies[d])
HedgeStarts(c, i) ==
  /\ i \notin HedgesOf(copies[c]) /\ HedgesOf(copies'[c]) = HedgesOf(copies[c]) \cup {i}
  /\ hedgesInFlight < MaxHedges /\ hedgesInFlight' = hedgesInFlight + 1
  /\ \A d \in Calls \ {c} : HedgesOf(copies'[d]) = HedgesOf(copies[d])
HedgesMove ==
  HedgesKept \/ \E c \in Calls : \E i \in Nat : HedgeEnds(c, i) \/ HedgeStarts(c, i)

\* A copy that keeps its kind and its place among the live ones.
Alike(old, new) == new.live = old.live /\ new.hedge = old.hedge

\* Copies that are replaced by alike copies have the same live hedges.
LEMMA AlikeHedges ==
  ASSUME NEW cs, NEW ds, DOMAIN ds = DOMAIN cs, \A i \in DOMAIN cs : Alike(cs[i], ds[i])
  PROVE  HedgesOf(ds) = HedgesOf(cs)
BY DEF HedgesOf, Alike

\* finish() cancels copies, which end later, each on its own.
LEMMA CancelledHedges ==
  ASSUME NEW cs \in Seq(Copy)
  PROVE  HedgesOf(Cancelled(cs)) = HedgesOf(cs)
<1>1. DOMAIN Cancelled(cs) = DOMAIN cs
  BY DEF Cancelled
<1>2. ASSUME NEW i \in DOMAIN cs
      PROVE  Alike(cs[i], Cancelled(cs)[i])
  <2>1. cs[i] \in Copy
    BY LenProperties
  <2>2. Cancelled(cs)[i] = IF cs[i].live /\ Pending(cs[i])
                           THEN [cs[i] EXCEPT !.result = "aborted"] ELSE cs[i]
    BY DEF Cancelled
  <2> QED
    BY <2>1, <2>2 DEF Alike, Copy
<1> QED
  BY <1>1, <1>2, AlikeHedges

\* A new copy counts when it is a live hedge.
LEMMA AppendHedges ==
  ASSUME NEW cs \in Seq(Copy), NEW new \in Copy
  PROVE  /\ Len(cs) + 1 \in Nat /\ Len(cs) + 1 \notin HedgesOf(cs)
         /\ ~new.hedge => HedgesOf(Append(cs, new)) = HedgesOf(cs)
         /\ (new.hedge /\ new.live) => HedgesOf(Append(cs, new)) = HedgesOf(cs) \cup {Len(cs) + 1}
<1> DEFINE n == Len(cs)  ds == Append(cs, new)
<1>1. n \in Nat /\ DOMAIN cs = 1..n
  BY LenProperties
<1>2. /\ DOMAIN ds = 1..(n + 1) /\ ds[n + 1] = new /\ \A i \in 1..n : ds[i] = cs[i]
  BY AppendProperties, LenProperties
<1>3. 1..(n + 1) = (1..n) \cup {n + 1} /\ n + 1 \notin 1..n
  BY <1>1
<1> HIDE DEF n, ds
<1>4. n + 1 \in Nat
  BY <1>1
<1>5. HedgesOf(ds) = HedgesOf(cs) \cup {i \in {n + 1} : new.live /\ new.hedge}
  BY <1>1, <1>2, <1>3 DEF HedgesOf
<1>6. n + 1 \notin HedgesOf(cs)
  BY <1>1, <1>3 DEF HedgesOf
<1> QED
  BY <1>4, <1>5, <1>6 DEF n, ds

\* end() takes the copy out.
LEMMA EndedHedges ==
  ASSUME TypeOK, NEW c \in Calls, NEW i \in Copies(c)
  PROVE  Ended(c, i) \in Seq(Copy) /\ HedgesOf(Ended(c, i)) = HedgesOf(copies[c]) \ {i}
<1> DEFINE new == [copies[c][i] EXCEPT !.live = FALSE]  ds == Ended(c, i)
<1>1. copies[c][i] \in Copy /\ copies[c] \in Seq(Copy) /\ i \in 1..Len(copies[c])
      /\ DOMAIN copies[c] = 1..Len(copies[c])
  BY CopiesTyped DEF Copies
<1>2. new \in Copy /\ ~new.live
  BY <1>1 DEF Copy
<1>3. ds = [copies[c] EXCEPT ![i] = new]
  BY DEF Ended
<1> HIDE DEF new, ds
<1>4. /\ ds \in Seq(Copy) /\ Len(ds) = Len(copies[c])
      /\ \A j \in 1..Len(copies[c]) : ds[j] = IF j = i THEN new ELSE copies[c][j]
  BY <1>1, <1>2, <1>3, ExceptSeq
<1>5. DOMAIN ds = 1..Len(copies[c])
  BY <1>4, LenProperties
<1>6. HedgesOf(ds) = HedgesOf(copies[c]) \ {i}
  BY <1>1, <1>2, <1>4, <1>5 DEF HedgesOf
<1> QED
  BY <1>4, <1>6 DEF ds


\* An event that edits one copy and keeps its kind.
LEMMA EditHedges ==
  ASSUME TypeOK, NEW c \in Calls, NEW i \in Copies(c), NEW new, Alike(copies[c][i], new),
         copies' = [copies EXCEPT ![c] = [copies[c] EXCEPT ![i] = new]],
         UNCHANGED hedgesInFlight
  PROVE  HedgesKept
<1>1. copies \in [Calls -> Seq(Copy)]
  BY DEF TypeOK
<1>2. ASSUME NEW d \in Calls
      PROVE  HedgesOf(copies'[d]) = HedgesOf(copies[d])
  <2>1. CASE d # c
    <3>1. copies'[d] = copies[d]
      BY <1>1, <2>1
    <3> QED
      BY <3>1
  <2>2. CASE d = c
    <3> DEFINE ds == [copies[c] EXCEPT ![i] = new]
    <3>1. copies'[c] = ds
      BY <1>1
    <3>2. DOMAIN ds = DOMAIN copies[c] /\ ds[i] = new
          /\ \A j \in DOMAIN copies[c] : j # i => ds[j] = copies[c][j]
      BY DEF Copies
    <3>3. \A j \in DOMAIN copies[c] : Alike(copies[c][j], ds[j])
      BY <3>2 DEF Alike
    <3> HIDE DEF ds
    <3> QED
      BY <2>2, <3>1, <3>2, <3>3, AlikeHedges
  <2> QED
    BY <2>1, <2>2
<1> QED
  BY <1>2 DEF HedgesKept

\* WritePacket, UploadFails, OversizeReply and Timeout
LEMMA EventsKeepHedges ==
  ASSUME TypeOK, NEW c \in Calls, NEW i \in Copies(c),
         \/ \E p \in Packets : WritePacket(c, i, p) \/ UploadFails(c, i, p)
         \/ OversizeReply(c, i) \/ Timeout(c, i)
  PROVE  HedgesKept
<1>1. copies[c][i] \in Copy
  BY CopiesTyped
<1> DEFINE copy == copies[c][i]
<1>2. ASSUME NEW p \in Packets, WritePacket(c, i, p)
      PROVE  HedgesKept
  <2> DEFINE new == [copy EXCEPT !.packet[p] = "written"]
  <2>1. Alike(copy, new)
    BY <1>1 DEF Alike, Copy
  <2>2. /\ copies' = [copies EXCEPT ![c] = [copies[c] EXCEPT ![i] = new]]
        /\ UNCHANGED hedgesInFlight
    BY <1>2 DEF WritePacket
  <2> HIDE DEF new
  <2> QED
    BY <2>1, <2>2, EditHedges
<1>3. ASSUME NEW p \in Packets, UploadFails(c, i, p)
      PROVE  HedgesKept
  <2>1. PICK failure, gone :
          copies' = [copies EXCEPT
            ![c][i] = [copy EXCEPT !.packet[p] = gone,
                                   !.result = IF @ = "none" THEN failure ELSE @]]
    BY <1>3 DEF UploadFails
  <2> DEFINE new == [copy EXCEPT !.packet[p] = gone,
                                 !.result = IF @ = "none" THEN failure ELSE @]
  <2>2. Alike(copy, new)
    BY <1>1 DEF Alike, Copy
  <2>3. /\ copies' = [copies EXCEPT ![c] = [copies[c] EXCEPT ![i] = new]]
        /\ UNCHANGED hedgesInFlight
    BY <1>3, <2>1 DEF UploadFails
  <2> HIDE DEF new
  <2> QED
    BY <2>2, <2>3, EditHedges
<1>4. ASSUME NEW result, SettleCopy(c, i, result), UNCHANGED hedgesInFlight
      PROVE  HedgesKept
  <2> DEFINE new == [copy EXCEPT !.result = result]
  <2>1. Alike(copy, new)
    BY <1>1 DEF Alike, Copy
  <2>2. copies' = [copies EXCEPT ![c] = [copies[c] EXCEPT ![i] = new]]
    BY <1>4 DEF SettleCopy
  <2> HIDE DEF new
  <2> QED
    BY <1>4, <2>1, <2>2, EditHedges
<1> QED
  BY <1>2, <1>3, <1>4 DEF OversizeReply, Timeout

\* The replies of one claim, and disconnect()
LEMMA BatchKeepsHedges ==
  ASSUME TypeOK, NEW result \in {"reply", "unsure"}, NEW hit,
         copies' = [c \in Calls |-> [i \in Copies(c) |->
                     IF <<c, i>> \in hit THEN [copies[c][i] EXCEPT !.result = result]
                     ELSE copies[c][i]]],
         UNCHANGED hedgesInFlight
  PROVE  HedgesKept
<1>2. ASSUME NEW c \in Calls
      PROVE  HedgesOf(copies'[c]) = HedgesOf(copies[c])
  <2>1. DOMAIN copies'[c] = DOMAIN copies[c]
    BY DEF Copies
  <2>2. ASSUME NEW i \in DOMAIN copies[c]
        PROVE  Alike(copies[c][i], copies'[c][i])
    <3>1. copies'[c][i] = IF <<c, i>> \in hit THEN [copies[c][i] EXCEPT !.result = result]
                          ELSE copies[c][i]
      BY DEF Copies
    <3>2. copies[c][i] \in Copy
      BY CopiesTyped DEF Copies
    <3> QED
      BY <3>1, <3>2 DEF Alike, Copy
  <2> QED
    BY <2>1, <2>2, AlikeHedges
<1> QED
  BY <1>2 DEF HedgesKept

\* Replies and Disconnect
LEMMA RepliesKeepHedges ==
  ASSUME TypeOK, Replies \/ Disconnect
  PROVE  HedgesKept
<1>1. CASE Replies
  <2>1. PICK answers \in SUBSET Answerable : Answered(answers)
    BY <1>1 DEF Replies
  <2> QED
    BY <2>1, BatchKeepsHedges DEF Answered
<1>2. CASE Disconnect
  <2> DEFINE hit == {x \in AllCopies : Pending(CopyAt(x))}
  <2>1. \A d \in Calls : \A i \in Copies(d) : <<d, i>> \in hit <=> Pending(copies[d][i])
    BY DEF AllCopies, CopyAt
  <2>2. copies' = [d \in Calls |-> [i \in Copies(d) |->
                    IF Pending(copies[d][i]) THEN [copies[d][i] EXCEPT !.result = "unsure"]
                    ELSE copies[d][i]]]
    BY <1>2 DEF Disconnect
  <2> HIDE DEF hit
  <2>3. copies' = [d \in Calls |-> [i \in Copies(d) |->
                    IF <<d, i>> \in hit THEN [copies[d][i] EXCEPT !.result = "unsure"]
                    ELSE copies[d][i]]]
    BY <2>1, <2>2, Zenon
  <2> QED
    BY <1>2, <2>3, BatchKeepsHedges DEF Disconnect
<1> QED
  BY <1>1, <1>2

\* launch() adds one live copy of the kind it was asked for.
LEMMA LaunchedCopy ==
  ASSUME NEW c \in Calls, NEW cs, NEW plan \in [version : {1, 2}, entry : Entries],
         NEW hedge \in BOOLEAN, Launch(c, cs, plan, hedge)
  PROVE  \E new \in Copy : /\ new.live /\ new.hedge = hedge
                           /\ copies' = [copies EXCEPT ![c] = Append(cs, new)]
<1> DEFINE New(result) ==
             [hedge |-> hedge, live |-> TRUE, result |-> result, version |-> plan.version,
              entry |-> plan.entry,
              packet |-> [p \in Packets |-> IF result = "none" THEN "no" ELSE "never"]]
<1>1. PICK result \in {"aborted", "none", "other"} :
        copies' = [copies EXCEPT ![c] = Append(cs, New(result))]
  BY DEF Launch
<1>2. New(result) \in Copy /\ New(result).live /\ New(result).hedge = hedge
  BY DEF Copy, Results
<1> HIDE DEF New
<1> QED
  BY <1>1, <1>2

\* A step that changes the copies of one call only.
LEMMA OneCallHedges ==
  ASSUME TypeOK, NEW c \in Calls, NEW cs, copies' = [copies EXCEPT ![c] = cs]
  PROVE  copies'[c] = cs /\ \A d \in Calls \ {c} : HedgesOf(copies'[d]) = HedgesOf(copies[d])
BY DEF TypeOK

\* The copies that the closures leave: those they were given, perhaps cancelled
\* or with a new copy that is no hedge.
LEMMA ClosureHedges ==
  ASSUME TypeOK, NEW c \in Calls, NEW cs \in Seq(Copy),
         \/ Continue(c, cs) \/ FailIfIdle(c, cs)
         \/ \E how \in {"resolved", "rejected"} : Finish(c, cs, how)
         \/ \E plan \in [version : {1, 2}, entry : Entries] : Launch(c, cs, plan, FALSE)
  PROVE  /\ HedgesOf(copies'[c]) = HedgesOf(cs)
         /\ \A d \in Calls \ {c} : HedgesOf(copies'[d]) = HedgesOf(copies[d])
<1>1. CASE copies' = [copies EXCEPT ![c] = cs]
  BY <1>1, OneCallHedges
<1>2. CASE copies' = [copies EXCEPT ![c] = Cancelled(cs)]
  BY <1>2, OneCallHedges, CancelledHedges
<1>3. ASSUME NEW plan \in [version : {1, 2}, entry : Entries], Launch(c, cs, plan, FALSE)
      PROVE  /\ HedgesOf(copies'[c]) = HedgesOf(cs)
             /\ \A d \in Calls \ {c} : HedgesOf(copies'[d]) = HedgesOf(copies[d])
  <2>1. PICK new \in Copy : /\ new.live /\ new.hedge = FALSE
                            /\ copies' = [copies EXCEPT ![c] = Append(cs, new)]
    BY <1>3, LaunchedCopy
  <2>2. /\ copies'[c] = Append(cs, new)
        /\ \A d \in Calls \ {c} : HedgesOf(copies'[d]) = HedgesOf(copies[d])
    BY <2>1, OneCallHedges
  <2>3. HedgesOf(Append(cs, new)) = HedgesOf(cs)
    BY <2>1, AppendHedges
  <2> QED
    BY <2>2, <2>3
<1> QED
  BY <1>1, <1>2, <1>3 DEF Continue, FailIfIdle, Finish

\* OnSuccess and OnFailure: the copy that ends is the only one to leave.
LEMMA HandlersMoveHedges ==
  ASSUME CallInv, NEW c \in Calls, NEW i \in Copies(c), OnSuccess(c, i) \/ OnFailure(c, i)
  PROVE  HedgesMove
<1> USE DEF CallInv
<1>1. Ended(c, i) \in Seq(Copy) /\ HedgesOf(Ended(c, i)) = HedgesOf(copies[c]) \ {i}
  BY EndedHedges
<1>2. /\ HedgesOf(copies'[c]) = HedgesOf(copies[c]) \ {i}
      /\ \A d \in Calls \ {c} : HedgesOf(copies'[d]) = HedgesOf(copies[d])
  <2> DEFINE cs == Ended(c, i)
  <2>1. \/ Continue(c, cs) \/ FailIfIdle(c, cs)
        \/ \E how \in {"resolved", "rejected"} : Finish(c, cs, how)
        \/ \E plan \in [version : {1, 2}, entry : Entries] : Launch(c, cs, plan, FALSE)
    BY PlansTyped DEF OnSuccess, OnFailure, TransportFailed, TimedOut
  <2> HIDE DEF cs
  <2>2. cs \in Seq(Copy) /\ HedgesOf(cs) = HedgesOf(copies[c]) \ {i}
    BY <1>1 DEF cs
  <2> QED
    BY <2>1, <2>2, ClosureHedges
<1>3. hedgesInFlight' = HedgesAfter(c, i) /\ copies[c][i].live
  BY DEF OnSuccess, OnFailure, Queued
<1>4. CASE copies[c][i].hedge
  <2>1. i \in HedgesOf(copies[c]) /\ i \in Nat
    BY <1>3, <1>4, CopiesTyped DEF HedgesOf, Copies
  <2>2. hedgesInFlight' = IF hedgesInFlight > 0 THEN hedgesInFlight - 1 ELSE hedgesInFlight
    BY <1>3, <1>4 DEF HedgesAfter
  <2> QED
    BY <1>2, <2>1, <2>2 DEF HedgesMove, HedgeEnds
<1>5. CASE ~copies[c][i].hedge
  <2>1. i \notin HedgesOf(copies[c])
    BY <1>5 DEF HedgesOf
  <2>2. hedgesInFlight' = hedgesInFlight
    BY <1>3, <1>5 DEF HedgesAfter
  <2> QED
    BY <1>2, <2>1, <2>2 DEF HedgesMove, HedgesKept
<1> QED
  BY <1>4, <1>5

\* HedgeTimer: a hedge starts where a place is free, or nothing happens.
LEMMA TimerMovesHedges ==
  ASSUME TypeOK, NEW c \in Calls, HedgeTimer(c)
  PROVE  HedgesMove
<1>1. CASE UNCHANGED <<copies, hedgesInFlight>>
  BY <1>1 DEF HedgesMove, HedgesKept
<1>2. CASE /\ HedgeAllowed /\ hedgesInFlight' = hedgesInFlight + 1
           /\ \E plan \in PlanResend(copies[c][FirstLive(copies[c])]) :
                Launch(c, copies[c], plan, TRUE)
  <2>1. PICK plan \in [version : {1, 2}, entry : Entries] : Launch(c, copies[c], plan, TRUE)
    BY <1>2, PlansTyped
  <2>2. PICK new \in Copy : /\ new.live /\ new.hedge = TRUE
                            /\ copies' = [copies EXCEPT ![c] = Append(copies[c], new)]
    BY <2>1, LaunchedCopy
  <2>3. /\ copies'[c] = Append(copies[c], new)
        /\ \A d \in Calls \ {c} : HedgesOf(copies'[d]) = HedgesOf(copies[d])
    BY <2>2, OneCallHedges
  <2> DEFINE i == Len(copies[c]) + 1
  <2>4. i \in Nat /\ i \notin HedgesOf(copies[c]) /\ HedgesOf(copies'[c]) = HedgesOf(copies[c]) \cup {i}
    BY <2>2, <2>3, CopiesTyped, AppendHedges
  <2> HIDE DEF i
  <2> QED
    BY <1>2, <2>3, <2>4 DEF HedgesMove, HedgeStarts, HedgeAllowed
<1> QED
  BY <1>1, <1>2 DEF HedgeTimer

\* Start and OnLost send copies that are no hedges.
LEMMA PlainSendsKeepHedges ==
  ASSUME CallInv, NEW c \in Calls, Start(c) \/ \E i \in Copies(c) : OnLost(c, i)
  PROVE  HedgesKept
<1> USE DEF CallInv
<1>1. CASE Start(c)
  <2>1. copies[c] = <<>> /\ HedgesOf(copies[c]) = {}
    BY <1>1 DEF Start, NewIsEmpty, HedgesOf
  <2>2. PICK new : new.hedge = FALSE /\ copies' = [copies EXCEPT ![c] = <<new>>]
    BY <1>1 DEF Start
  <2>3. /\ copies'[c] = <<new>>
        /\ \A d \in Calls \ {c} : HedgesOf(copies'[d]) = HedgesOf(copies[d])
    BY <2>2, OneCallHedges
  <2>4. HedgesOf(<<new>>) = {}
    BY <2>2 DEF HedgesOf
  <2>5. hedgesInFlight' = hedgesInFlight
    BY <1>1 DEF Start
  <2> QED
    BY <2>1, <2>3, <2>4, <2>5 DEF HedgesKept
<1>2. ASSUME NEW i \in Copies(c), OnLost(c, i)
      PROVE  HedgesKept
  <2>1. PICK plan \in [version : {1, 2}, entry : Entries] : Launch(c, copies[c], plan, FALSE)
    BY <1>2, PlansTyped DEF OnLost
  <2>2. copies[c] \in Seq(Copy) /\ hedgesInFlight' = hedgesInFlight
    BY <1>2, CopiesTyped DEF OnLost
  <2>3. /\ HedgesOf(copies'[c]) = HedgesOf(copies[c])
        /\ \A d \in Calls \ {c} : HedgesOf(copies'[d]) = HedgesOf(copies[d])
    BY <2>1, <2>2, ClosureHedges
  <2> QED
    BY <2>2, <2>3 DEF HedgesKept
<1> QED
  BY <1>1, <1>2

\* Every step.
LEMMA StepMovesHedges ==
  ASSUME CallInv, [Next]_vars
  PROVE  HedgesMove
<1> USE DEF CallInv
<1>1. ASSUME HedgesKept PROVE HedgesMove
  BY <1>1 DEF HedgesMove
<1>2. ASSUME NEW c \in Calls, Start(c) \/ \E i \in Copies(c) : OnLost(c, i)
      PROVE  HedgesMove
  BY <1>1, <1>2, PlainSendsKeepHedges
<1>3. ASSUME NEW c \in Calls, NEW i \in Copies(c), NEW p \in Packets,
             WritePacket(c, i, p) \/ UploadFails(c, i, p)
      PROVE  HedgesMove
  BY <1>1, <1>3, EventsKeepHedges
<1>4. ASSUME NEW c \in Calls, NEW i \in Copies(c), OversizeReply(c, i) \/ Timeout(c, i)
      PROVE  HedgesMove
  BY <1>1, <1>4, EventsKeepHedges
<1>5. CASE Replies \/ Disconnect
  BY <1>1, <1>5, RepliesKeepHedges
<1>6. ASSUME NEW c \in Calls, CallerAborts(c)
      PROVE  HedgesMove
  <2>1. copies' = [copies EXCEPT ![c] = Cancelled(copies[c])] /\ hedgesInFlight' = hedgesInFlight
    BY <1>6 DEF CallerAborts
  <2>2. copies[c] \in Seq(Copy)
    BY CopiesTyped
  <2>3. HedgesKept
    BY <2>1, <2>2, OneCallHedges, CancelledHedges DEF HedgesKept
  <2> QED
    BY <1>1, <2>3
<1>7. ASSUME NEW c \in Calls, NEW i \in Copies(c), OnSuccess(c, i) \/ OnFailure(c, i)
      PROVE  HedgesMove
  BY <1>7, HandlersMoveHedges
<1>8. ASSUME NEW c \in Calls, HedgeTimer(c)
      PROVE  HedgesMove
  BY <1>8, TimerMovesHedges
<1>9. CASE UNCHANGED vars
  BY <1>1, <1>9 DEF vars, callVars, HedgesKept
<1> QED
  BY <1>2, <1>3, <1>4, <1>5, <1>6, <1>7, <1>8, <1>9 DEF Next

\* The live hedges of all calls, by call and number.
LEMMA LiveHedgesAre ==
  LiveHedges = {x \in Calls \X UNION {Copies(c) : c \in Calls} : x[2] \in HedgesOf(copies[x[1]])}
BY DEF LiveHedges, AllCopies, CopyAt, Copies, HedgesOf

\* The counter stays exact and within its bound.
LEMMA StepHedgeInv ==
  ASSUME HedgeInv, [Next]_vars
  PROVE  HedgeInv'
<1> DEFINE H == LiveHedges  H2 == LiveHedges'
<1>1. CallInv /\ CallInv' /\ HedgesMove
  BY StepCallInv, StepMovesHedges DEF HedgeInv
<1>2. /\ IsFiniteSet(H) /\ hedgesInFlight = Cardinality(H) /\ hedgesInFlight <= MaxHedges
      /\ hedgesInFlight \in Nat /\ MaxHedges \in Nat
  BY SendAssumption DEF HedgeInv, HedgesCounted, CallInv, TypeOK
<1>3. \A x : x \in H <=> x \in Calls \X Nat /\ x[2] \in HedgesOf(copies[x[1]])
  BY <1>1, LiveHedgesAre, CopiesTyped DEF CallInv, HedgesOf, Copies
<1>4. \A x : x \in H2 <=> x \in Calls \X Nat /\ x[2] \in HedgesOf(copies'[x[1]])
  <2>1. \A c \in Calls : DOMAIN copies'[c] \subseteq Nat
    BY <1>1, LenProperties DEF CallInv, TypeOK
  <2>2. H2 = {x \in Calls \X UNION {DOMAIN copies'[c] : c \in Calls} :
                x[2] \in HedgesOf(copies'[x[1]])}
    BY DEF LiveHedges, AllCopies, CopyAt, Copies, HedgesOf
  <2> QED
    BY <2>1, <2>2 DEF HedgesOf
<1> HIDE DEF H, H2
<1>5. IsFiniteSet(H2) /\ hedgesInFlight' = Cardinality(H2) /\ hedgesInFlight' <= MaxHedges
  <2>1. CASE HedgesKept
    <3>1. H2 = H
      BY <1>3, <1>4, <2>1 DEF HedgesKept
    <3> QED
      BY <1>2, <2>1, <3>1 DEF HedgesKept
  <2>2. ASSUME NEW c \in Calls, NEW i \in Nat, HedgeEnds(c, i)
        PROVE  IsFiniteSet(H2) /\ hedgesInFlight' = Cardinality(H2) /\ hedgesInFlight' <= MaxHedges
    <3>1. <<c, i>> \in H /\ H2 = H \ {<<c, i>>}
      BY <1>3, <1>4, <2>2 DEF HedgeEnds
    <3>2. IsFiniteSet(H2) /\ Cardinality(H2) = Cardinality(H) - 1
      BY <1>2, <3>1, FS_RemoveElement
    <3>3. hedgesInFlight > 0
      BY <1>2, <3>1, FS_EmptySet
    <3> QED
      BY <1>2, <2>2, <3>2, <3>3 DEF HedgeEnds
  <2>3. ASSUME NEW c \in Calls, NEW i \in Nat, HedgeStarts(c, i)
        PROVE  IsFiniteSet(H2) /\ hedgesInFlight' = Cardinality(H2) /\ hedgesInFlight' <= MaxHedges
    <3>1. <<c, i>> \notin H /\ H2 = H \cup {<<c, i>>}
      BY <1>3, <1>4, <2>3 DEF HedgeStarts
    <3>2. IsFiniteSet(H2) /\ Cardinality(H2) = Cardinality(H) + 1
      BY <1>2, <3>1, FS_AddElement
    <3> QED
      BY <1>2, <2>3, <3>2 DEF HedgeStarts
  <2> QED
    BY <1>1, <2>1, <2>2, <2>3 DEF HedgesMove
<1> QED
  BY <1>1, <1>5 DEF HedgeInv, HedgesCounted, H2

\* _hedgesInFlight counts the live hedges of any number of calls, whichever way
\* each of them ends, and never exceeds its bound.
THEOREM HedgesAreCounted == Spec => []HedgesCounted
<1>1. ASSUME Init PROVE HedgeInv
  <2>1. LiveHedges = {}
    BY <1>1 DEF Init, LiveHedges, AllCopies, Copies
  <2>2. IsFiniteSet(LiveHedges) /\ Cardinality(LiveHedges) = 0
    BY <2>1, FS_EmptySet
  <2>3. hedgesInFlight = 0 /\ 0 <= MaxHedges
    BY <1>1, SendAssumption DEF Init
  <2> QED
    BY <1>1, <2>2, <2>3, InitCallInv DEF HedgeInv, HedgesCounted
<1>2. ASSUME HedgeInv, [Next]_vars PROVE HedgeInv'
  BY <1>2, StepHedgeInv
<1>3. HedgeInv => HedgesCounted
  BY DEF HedgeInv
<1> QED
  BY <1>1, <1>2, <1>3, PTL DEF Spec

-----------------------------------------------------------------------------
(* A call waits for its last copy                                          *)

\* Cancelling copies ends none of them.
LEMMA CancelledLive ==
  ASSUME NEW cs \in Seq(Copy)
  PROVE  /\ DOMAIN Cancelled(cs) = DOMAIN cs
         /\ \A i \in DOMAIN cs : Cancelled(cs)[i].live = cs[i].live
<1>1. DOMAIN Cancelled(cs) = DOMAIN cs
  BY DEF Cancelled
<1>2. ASSUME NEW i \in DOMAIN cs
      PROVE  Cancelled(cs)[i].live = cs[i].live
  <2>1. cs[i] \in Copy
    BY LenProperties
  <2>2. Cancelled(cs)[i] = IF cs[i].live /\ Pending(cs[i])
                           THEN [cs[i] EXCEPT !.result = "aborted"] ELSE cs[i]
    BY DEF Cancelled
  <2> QED
    BY <2>1, <2>2 DEF Copy
<1> QED
  BY <1>1, <1>2

\* How the handler of a failed copy can reject a call in KPS mode.
LEMMA RejectsLast ==
  ASSUME Kps, CallInv, NEW c \in Calls, NEW i \in Copies(c), OnFailure(c, i),
         status[c] = "running", status'[c] = "rejected"
  PROVE  \/ ~AnyLive(copies'[c])
         \/ /\ copies[c][i].live /\ ~copies'[c][i].live
            /\ copies[c][i].result \in {"aborted", "other"}
<1> USE DEF CallInv
<1> DEFINE cs == Ended(c, i)
<1>1. cs \in Seq(Copy) /\ copies \in [Calls -> Seq(Copy)]
      /\ status \in [Calls -> {"new", "running", "resolved", "rejected"}]
  BY EndedHedges DEF TypeOK
<1>2. i \in DOMAIN cs /\ ~cs[i].live /\ copies[c][i].live
  BY CopiesTyped DEF Ended, Copies, Copy, OnFailure, Queued
<1>3. \/ ~AnyLive(cs) /\ copies' = [copies EXCEPT ![c] = Cancelled(cs)]
      \/ /\ copies[c][i].result \in {"aborted", "other"}
         /\ copies' = [copies EXCEPT ![c] = Cancelled(cs)]
  <2>1. status' # status
    OBVIOUS
  <2> HIDE DEF cs
  <2>2. OnFailure(c, i) => \/ UNCHANGED status \/ FailIfIdle(c, cs)
                           \/ Fatal(c, i) /\ Finish(c, cs, "rejected")
    BY DEF cs, OnFailure, Continue, TransportFailed, TimedOut, Launch
  <2> QED
    BY <2>1, <2>2 DEF FailIfIdle, Continue, Finish, Fatal
<1> HIDE DEF cs
<1>4. copies'[c] = Cancelled(cs)
  BY <1>1, <1>3
<1>5. AnyLive(Cancelled(cs)) => AnyLive(cs)
  BY <1>1, CancelledLive DEF AnyLive
<1>6. ~Cancelled(cs)[i].live
  BY <1>1, <1>2, CancelledLive
<1> QED
  BY <1>2, <1>3, <1>4, <1>5, <1>6

\* In KPS mode a call fails over a timeout or a transport failure only when no
\* other copy is live.  (In classic mode a transport failure ends the call.)
THEOREM WaitsForItsLastCopy ==
  ASSUME Kps
  PROVE  Spec => WaitsForLastCopy
<1> DEFINE Rejects(c) ==
      (status[c] = "running" /\ status'[c] = "rejected") =>
        \/ ~AnyLive(copies'[c])
        \/ \E i \in Copies(c) : /\ copies[c][i].live /\ ~copies'[c][i].live
                                /\ copies[c][i].result \in {"aborted", "other"}
<1>1. ASSUME CallInv, [Next]_vars, NEW d \in Calls, status[d] = "running", status'[d] = "rejected"
      PROVE  \E i \in Copies(d) : OnFailure(d, i)
  <2>1. status \in [Calls -> {"new", "running", "resolved", "rejected"}] /\ ~UNCHANGED status
    BY <1>1 DEF CallInv, TypeOK
  <2>2. ASSUME NEW c \in Calls, Start(c) PROVE FALSE
    BY <1>1, <2>1, <2>2 DEF Start
  <2>3. ASSUME NEW c \in Calls, NEW i \in Copies(c), OnSuccess(c, i) PROVE FALSE
    BY <1>1, <2>1, <2>3 DEF OnSuccess, Continue, Finish
  <2>4. ASSUME NEW c \in Calls, NEW i \in Copies(c), OnFailure(c, i) PROVE c = d
    <3>1. status' = [status EXCEPT ![c] = "rejected"]
      BY <2>1, <2>4 DEF OnFailure, TransportFailed, TimedOut, Continue, Finish, FailIfIdle, Launch
    <3> QED
      BY <1>1, <2>1, <3>1
  <2>5. ASSUME NEW c \in Calls, CallerAborts(c) \/ HedgeTimer(c) PROVE FALSE
    BY <2>1, <2>5 DEF CallerAborts, HedgeTimer, Launch
  <2>6. ASSUME Replies \/ Disconnect \/ UNCHANGED vars PROVE FALSE
    BY <2>1, <2>6 DEF Replies, Answered, Disconnect, vars, callVars
  <2>7. ASSUME NEW c \in Calls, NEW i \in Copies(c),
               \/ \E p \in Packets : WritePacket(c, i, p) \/ UploadFails(c, i, p)
               \/ OversizeReply(c, i) \/ Timeout(c, i) \/ OnLost(c, i)
        PROVE  FALSE
    BY <2>1, <2>7 DEF WritePacket, UploadFails, OversizeReply, Timeout, OnLost, Launch
  <2> QED
    BY <1>1, <2>2, <2>3, <2>4, <2>5, <2>6, <2>7 DEF Next
<1>2. ASSUME CallInv, [Next]_vars
      PROVE  \A c \in Calls : Rejects(c)
  <2> SUFFICES ASSUME NEW c \in Calls, status[c] = "running", status'[c] = "rejected"
               PROVE  \/ ~AnyLive(copies'[c])
                      \/ \E i \in Copies(c) : /\ copies[c][i].live /\ ~copies'[c][i].live
                                              /\ copies[c][i].result \in {"aborted", "other"}
    OBVIOUS
  <2> HIDE DEF Rejects
  <2>1. PICK i \in Copies(c) : OnFailure(c, i)
    BY <1>1, <1>2
  <2> QED
    BY <1>2, <2>1, RejectsLast
<1>3. CallInv /\ [Next]_vars => [\A c \in Calls : Rejects(c)]_vars
  BY <1>2
<1> QED
  BY <1>3, CallInvariant, PTL DEF Spec, WaitsForLastCopy

=============================================================================
