------------------------- MODULE PaidExecuteProofs --------------------------
(***************************************************************************)
(* Proofs about PaidExecute, for any number of exits, quotes, calls and    *)
(* blocks, any reader and any crash: what not-paid and paid results mean,  *)
(* and when a not-paid result of repeated calls holds for good.            *)
(***************************************************************************)
EXTENDS PaidExecute, TLAPS

FirstStages == {"precheck", "flags", "resume"}
QuoteStages == {"quote", "prepare", "submit"}
EvidenceStages == {"evidence", "evidenceFlag", "evidenceResume"}
AwaitStages == {"await", "awaitFlag", "awaitPoll"}
FinalStages == {"final", "finalFlag", "finalPoll", "finalResume"}

\* Only a held execution settles, within its validity, for its own intent.
SettledInTime ==
  /\ paid # Nobody => paidAt <= time
  /\ paid \in Executions => paid \in held /\ intent = paid /\ paidAt <= validUntil[paid]

\* The call's locals as its stage finds them.
StageOK ==
  /\ block <= time
  /\ pc # "idle" => outcome = "none"
  /\ pc \in FirstStages => submitted = {}
  /\ pc \in {"prepare", "submit", "reply"} \cup EvidenceStages \cup AwaitStages
       => quote \in Executions
  /\ pc = "reply" => quote \in held
  /\ pc \in {"resume", "evidenceResume", "finalResume"} => paid # Nobody

\* The final wait is for the submitted quote that lives longest.
FinalIsLatest ==
  pc \in FinalStages =>
    quote \in Executions /\ \A e \in submitted : validUntil[e] <= validUntil[quote]

Expired(e) == paid # e /\ time > validUntil[e]

\* Unanswered submissions other than the one awaited have expired unsettled.
UnansweredExpired ==
  /\ pc \in QuoteStages \cup EvidenceStages \cup {"reply"} =>
       \A e \in submitted \ rejected : Expired(e)
  /\ pc \in AwaitStages => \A e \in (submitted \ rejected) \ {quote} : Expired(e)

\* The inductive invariant.
PaidInv ==
  /\ TypeOK /\ SettledInTime /\ StageOK /\ FinalIsLatest /\ UnansweredExpired
  /\ NotPaidIsFinal /\ PaidIsReal

-----------------------------------------------------------------------------
\* The initial state, of executePaid before its first call, satisfies PaidInv.
LEMMA InitPaidInv == Init => PaidInv
<1> SUFFICES ASSUME Init PROVE PaidInv
  OBVIOUS
<1>1. TypeOK
  <2>1. /\ time \in Nat /\ paid \in 0..Other /\ paidAt \in Nat
        /\ intent \in 0..Other /\ intentAt \in Nat
        /\ issued \in 0..MaxQuotes
    BY PaidAssumption DEF Init, Nobody, Other
  <2>2. validUntil \in [Executions -> Nat] /\ held \subseteq 1..issued
    BY DEF Init
  <2>3. calls \in Nat /\ pending \in 0..issued /\ reported \in 0..issued /\ quote \in 0..issued
    BY DEF Init
  <2>4. /\ outcome \in {"none", "not-paid", "unknown", "paid", "dry-run", "crashed"}
        /\ pc \in Stages
    BY DEF Init, Stages
  <2>5. dryRun \in BOOLEAN /\ late \in BOOLEAN
    BY DEF Init
  <2>6. /\ contacted \in Nat /\ used \subseteq Exits /\ submitted \subseteq held
        /\ block \in Nat /\ rejected \subseteq submitted
    BY DEF Init
  <2> QED
    BY <2>1, <2>2, <2>3, <2>4, <2>5, <2>6 DEF TypeOK
<1>2. SettledInTime
  BY PaidAssumption DEF Init, SettledInTime, Executions, Nobody
<1>3. StageOK
  BY DEF Init, StageOK, FirstStages, EvidenceStages, AwaitStages
<1>4. FinalIsLatest /\ UnansweredExpired
  BY DEF Init, FinalIsLatest, UnansweredExpired, QuoteStages, EvidenceStages, AwaitStages,
         FinalStages
<1>5. NotPaidIsFinal /\ PaidIsReal
  BY DEF Init, NotPaidIsFinal, PaidIsReal
<1> QED
  BY <1>1, <1>2, <1>3, <1>4, <1>5 DEF PaidInv
-----------------------------------------------------------------------------
(* What a step of the call does, apart from where it goes next             *)

Outcomes == {"none", "not-paid", "unknown", "paid", "dry-run", "crashed"}

\* The types of what Return, Go and GiveUp assign, and of the rest.
ControlTyped ==
  /\ calls \in Nat /\ pending \in 0..issued /\ outcome \in Outcomes
  /\ reported \in 0..issued /\ pc \in Stages /\ quote \in 0..issued /\ late \in BOOLEAN
RestTyped ==
  /\ time \in Nat /\ paid \in 0..Other /\ paidAt \in Nat
  /\ intent \in 0..Other /\ intentAt \in Nat
  /\ issued \in 0..MaxQuotes /\ validUntil \in [Executions -> Nat] /\ held \subseteq 1..issued
  /\ dryRun \in BOOLEAN /\ contacted \in Nat /\ used \subseteq Exits
  /\ submitted \subseteq held /\ block \in Nat
  /\ rejected \subseteq submitted

\* TypeOK in two parts.
LEMMA TypeParts == TypeOK <=> ControlTyped /\ RestTyped
  BY DEF TypeOK, ControlTyped, RestTyped, Outcomes

\* The step leaves the chain, the submissions and the issued quotes alone.
Kept ==
  /\ UNCHANGED <<chainVars, submitted, rejected>>
  /\ block' <= time /\ held \subseteq held' /\ issued <= issued'
  /\ \A e \in 1..issued : validUntil'[e] = validUntil[e]

\* A step that keeps the call's locals.
LEMMA CallKeptKeeps ==
  ASSUME PaidInv, CallKept
  PROVE  Kept /\ RestTyped'
<1>1. RestTyped /\ block <= time /\ issued \in Nat
  BY TypeParts, PaidAssumption DEF PaidInv, StageOK, RestTyped
<1>2. Kept
  BY <1>1 DEF Kept, CallKept, chainVars, quoteVars
<1>3. RestTyped'
  BY <1>1 DEF RestTyped, CallKept, chainVars, quoteVars, Executions, Other
<1> QED
  BY <1>2, <1>3

\* Resolving with a result that is true.
LEMMA ReturnKeeps ==
  ASSUME PaidInv, Kept, RestTyped',
         NEW how \in {"not-paid", "unknown", "paid", "dry-run"}, NEW e \in 0..issued',
         how = "not-paid" => \A f \in submitted : Dead(f),
         how = "paid" => paid = e /\ e \in Executions,
         Return(how, e)
  PROVE  PaidInv'
<1>1. TypeOK /\ ControlTyped /\ RestTyped
  BY TypeParts DEF PaidInv
<1>2. issued \in Nat /\ issued' \in Nat /\ issued <= issued'
  BY <1>1, PaidAssumption DEF RestTyped, Kept
<1>3. ControlTyped'
  <2>1. late' \in BOOLEAN
    BY <1>1 DEF ControlTyped, Return
  <2>2. calls' \in Nat /\ outcome' \in Outcomes /\ pc' \in Stages
    BY <1>1 DEF ControlTyped, Return, Outcomes, Stages
  <2>3. pending' \in 0..issued' /\ reported' \in 0..issued' /\ quote' \in 0..issued'
    BY <1>1, <1>2 DEF ControlTyped, Return
  <2> QED
    BY <2>1, <2>2, <2>3 DEF ControlTyped
<1>4. SettledInTime'
  <2>1. SettledInTime /\ held \subseteq 1..issued
    BY <1>1 DEF PaidInv, RestTyped
  <2> QED
    BY <2>1 DEF SettledInTime, Kept, chainVars, Executions, Nobody
<1>5. StageOK'
  BY DEF StageOK, Kept, chainVars, Return, FirstStages, EvidenceStages, AwaitStages
<1>6. FinalIsLatest' /\ UnansweredExpired'
  BY DEF Return, FinalIsLatest, UnansweredExpired, QuoteStages, EvidenceStages, AwaitStages,
         FinalStages
<1>7. NotPaidIsFinal'
  <2>1. \A f \in submitted : validUntil'[f] = validUntil[f]
    BY <1>1 DEF RestTyped, Kept
  <2> QED
    BY <2>1 DEF NotPaidIsFinal, Dead, CanSettle, Return, Kept, chainVars
<1>8. PaidIsReal'
  <2>1. SettledInTime
    BY DEF PaidInv
  <2> QED
    BY <2>1 DEF PaidIsReal, SettledInTime, Return, Kept, chainVars
<1>9. TypeOK'
  BY <1>3 DEF TypeOK, ControlTyped, RestTyped, Outcomes
<1> QED
  BY <1>4, <1>5, <1>6, <1>7, <1>8, <1>9 DEF PaidInv

\* What must hold for the call to go on at a stage.
MayGo(stage) ==
  /\ stage \in Stages \ {"idle"}
  /\ stage \in FirstStages => pc \in FirstStages
  /\ stage \in {"prepare", "submit", "reply"} \cup EvidenceStages \cup AwaitStages
       => quote \in Executions
  /\ stage = "reply" => quote \in held'
  /\ stage \in {"resume", "evidenceResume", "finalResume"} => paid # Nobody
  /\ stage \in FinalStages => pc \in FinalStages
  /\ stage \in QuoteStages \cup EvidenceStages \cup {"reply"} =>
       \A e \in submitted \ rejected : Expired(e)
  /\ stage \in AwaitStages => pc \in AwaitStages

\* Going on to a stage that may follow.
LEMMA GoKeeps ==
  ASSUME PaidInv, Kept, RestTyped', pc # "idle",
         NEW stage, MayGo(stage), Go(stage)
  PROVE  PaidInv'
<1>1. TypeOK /\ ControlTyped /\ RestTyped
  BY TypeParts DEF PaidInv
<1>2. issued \in Nat /\ issued' \in Nat /\ issued <= issued'
  BY <1>1, PaidAssumption DEF RestTyped, Kept
<1>3. ControlTyped'
  <2>1. late' \in BOOLEAN
    BY <1>1 DEF ControlTyped, Go
  <2>2. calls' \in Nat /\ outcome' \in Outcomes /\ pc' \in Stages
    BY <1>1 DEF ControlTyped, Go, MayGo, appVars
  <2>3. pending' \in 0..issued' /\ reported' \in 0..issued' /\ quote' \in 0..issued'
    BY <1>1, <1>2 DEF ControlTyped, Go, appVars
  <2> QED
    BY <2>1, <2>2, <2>3 DEF ControlTyped
<1>4. SettledInTime'
  <2>1. SettledInTime /\ held \subseteq 1..issued
    BY <1>1 DEF PaidInv, RestTyped
  <2> QED
    BY <2>1 DEF SettledInTime, Kept, chainVars, Executions, Nobody
<1>5. StageOK'
  BY DEF PaidInv, StageOK, Kept, chainVars, Go, MayGo, appVars
<1>6. \A e \in submitted : validUntil'[e] = validUntil[e]
  BY <1>1 DEF RestTyped, Kept
<1>7. FinalIsLatest'
  <2>1. ASSUME pc \in FinalStages PROVE validUntil'[quote] = validUntil[quote]
    BY <1>1, <1>2, <2>1 DEF PaidInv, FinalIsLatest, ControlTyped, Kept, Executions
  <2> QED
    BY <1>6, <2>1 DEF PaidInv, FinalIsLatest, Go, MayGo, Kept
<1>8. UnansweredExpired'
  BY <1>6 DEF PaidInv, UnansweredExpired, Expired, Go, MayGo, Kept, chainVars
<1>9. NotPaidIsFinal' /\ PaidIsReal'
  BY DEF PaidInv, StageOK, NotPaidIsFinal, PaidIsReal, Go, appVars
<1>10. TypeOK'
  BY <1>3 DEF TypeOK, ControlTyped, RestTyped, Outcomes
<1> QED
  BY <1>4, <1>5, <1>7, <1>8, <1>9, <1>10 DEF PaidInv

\* attemptPaid() returning not-paid, before or after a submission.
LEMMA GiveUpKeeps ==
  ASSUME PaidInv, Kept, RestTyped', pc # "idle", GiveUp
  PROVE  PaidInv'
<1>1. TypeOK /\ ControlTyped /\ RestTyped
  BY TypeParts DEF PaidInv
<1>2. issued \in Nat /\ issued' \in Nat /\ issued <= issued'
  BY <1>1, PaidAssumption DEF RestTyped, Kept
<1>3. CASE submitted = {} /\ Return("not-paid", 0)
  BY <1>2, <1>3, ReturnKeeps
<1>4. ASSUME NEW e \in submitted, LatestSubmitted(e), pc' = "final", quote' = e,
             late' = FALSE, UNCHANGED appVars
      PROVE  PaidInv'
  <2>1. ControlTyped'
    <3>1. late' \in BOOLEAN
      BY <1>4
    <3>2. calls' \in Nat /\ outcome' \in Outcomes /\ pc' \in Stages
      BY <1>1, <1>4 DEF ControlTyped, appVars, Stages
    <3>3. pending' \in 0..issued' /\ reported' \in 0..issued' /\ quote' \in 0..issued'
      BY <1>1, <1>2, <1>4 DEF ControlTyped, RestTyped, appVars
    <3> QED
      BY <3>1, <3>2, <3>3 DEF ControlTyped
  <2>2. SettledInTime'
    <3>1. SettledInTime /\ held \subseteq 1..issued
      BY <1>1 DEF PaidInv, RestTyped
    <3> QED
      BY <3>1 DEF SettledInTime, Kept, chainVars, Executions, Nobody
  <2>3. StageOK'
    BY <1>4 DEF PaidInv, StageOK, Kept, chainVars, appVars, FirstStages, EvidenceStages,
                AwaitStages
  <2>4. FinalIsLatest'
    <3>1. \A f \in submitted : f \in 1..issued
      BY <1>1 DEF RestTyped
    <3>2. 1..issued \subseteq Executions
      BY <1>1, PaidAssumption DEF RestTyped, Executions
    <3>3. \A f \in submitted : validUntil'[f] = validUntil[f]
      BY <3>1 DEF Kept
    <3>4. \A f \in submitted : f \in Executions /\ validUntil[f] \in Nat
      BY <1>1, <3>1, <3>2 DEF RestTyped
    <3>5. \A f \in submitted : validUntil[f] <= validUntil[e]
      BY <1>4, <3>4 DEF LatestSubmitted
    <3> QED
      BY <1>4, <3>3, <3>4, <3>5 DEF FinalIsLatest, Kept
  <2>5. UnansweredExpired'
    BY <1>4 DEF UnansweredExpired, QuoteStages, EvidenceStages, AwaitStages
  <2>6. NotPaidIsFinal' /\ PaidIsReal'
    BY <1>4 DEF PaidInv, StageOK, NotPaidIsFinal, PaidIsReal, appVars
  <2>7. TypeOK'
    BY <2>1 DEF TypeOK, ControlTyped, RestTyped, Outcomes
  <2> QED
    BY <2>2, <2>3, <2>4, <2>5, <2>6, <2>7 DEF PaidInv
<1> QED
  BY <1>3, <1>4 DEF GiveUp
-----------------------------------------------------------------------------
(* The steps                                                               *)

\* A flag is read at the block of blockNumber() or at a later one.
LEMMA FlagNotBefore ==
  ASSUME PaidInv, NEW b \in FlagBlocks
  PROVE  b \in Nat /\ block <= b
<1>1. block \in Nat /\ time \in Nat
  BY DEF PaidInv, TypeOK
<1> QED
  BY <1>1 DEF FlagBlocks

\* Once another action's execution consumed the payment, no quote can settle.
LEMMA OtherMakesDead ==
  ASSUME PaidInv, paid # Nobody, ~SameAction
  PROVE  \A f \in submitted : Dead(f)
<1>1. \A f \in submitted : f \in Executions
  BY PaidAssumption DEF PaidInv, TypeOK, Executions
<1> QED
  BY <1>1 DEF Dead, CanSettle, SameAction

\* A settled execution of this action is an issued quote.
LEMMA SettledIsIssued ==
  ASSUME PaidInv, paid \in Executions
  PROVE  paid \in 0..issued /\ paid \in 1..issued
<1>1. paid \in held /\ held \subseteq 1..issued
  BY DEF PaidInv, SettledInTime, TypeOK
<1> QED
  BY <1>1 DEF PaidInv, TypeOK

\* The execution awaited, unconsumed in a block after its validity, never settled.
LEMMA UnsettledIsExpired ==
  ASSUME PaidInv, NEW b \in FlagBlocks, NEW e \in Executions,
         ~ExecutionConsumed(e, b), block > validUntil[e]
  PROVE  Expired(e)
<1>1. b \in Nat /\ block <= b
  BY FlagNotBefore
<1>2. block \in Nat /\ time \in Nat /\ paidAt \in Nat /\ validUntil[e] \in Nat
  BY DEF PaidInv, TypeOK
<1>3. block <= time /\ (paid = e => paidAt <= validUntil[e])
  BY DEF PaidInv, StageOK, SettledInTime
<1> QED
  BY <1>1, <1>2, <1>3 DEF Expired, ExecutionConsumed

\* Every step that reads the block number.
LEMMA ReadBlockKeeps ==
  ASSUME PaidInv, NEW from \in Stages \ {"idle"}, NEW to, MayGo(to), ReadBlock(from, to)
  PROVE  PaidInv'
<1>1. RestTyped /\ time \in Nat /\ issued \in Nat
  BY TypeParts, PaidAssumption DEF PaidInv, RestTyped
<1>2. Kept
  BY <1>1 DEF Kept, ReadBlock, Go, chainVars, quoteVars
<1>3. RestTyped'
  BY <1>1 DEF RestTyped, ReadBlock, Go, chainVars, quoteVars, Executions, Other
<1> QED
  BY <1>2, <1>3, GoKeeps DEF ReadBlock

\* reader.blockNumber() in the precheck and in the three waits.
LEMMA BlockSteps ==
  ASSUME PaidInv, PrecheckBlock \/ EvidenceBlock \/ AwaitBlock \/ FinalBlock
  PROVE  PaidInv'
<1> USE DEF Stages, FirstStages, QuoteStages, EvidenceStages, AwaitStages, FinalStages, MayGo
<1>1. CASE PrecheckBlock
  <2>1. MayGo("flags")
    BY <1>1 DEF PrecheckBlock, ReadBlock
  <2> QED
    BY <1>1, <2>1, ReadBlockKeeps DEF PrecheckBlock
<1>2. CASE EvidenceBlock
  <2>1. MayGo("evidenceFlag")
    BY <1>2 DEF EvidenceBlock, ReadBlock, PaidInv, StageOK, UnansweredExpired
  <2> QED
    BY <1>2, <2>1, ReadBlockKeeps DEF EvidenceBlock
<1>3. CASE AwaitBlock
  <2>1. MayGo("awaitFlag")
    BY <1>3 DEF AwaitBlock, ReadBlock, PaidInv, StageOK
  <2> QED
    BY <1>3, <2>1, ReadBlockKeeps DEF AwaitBlock
<1>4. CASE FinalBlock
  <2>1. MayGo("finalFlag")
    BY <1>4 DEF FinalBlock, ReadBlock
  <2> QED
    BY <1>4, <2>1, ReadBlockKeeps DEF FinalBlock
<1> QED
  BY <1>1, <1>2, <1>3, <1>4

\* The precheck and what follows an issued quote up to its submission.
LEMMA PrecheckSteps ==
  ASSUME PaidInv, PrecheckFails \/ PrecheckFlags \/ NoQuote \/ Prepare
  PROVE  PaidInv'
<1> USE DEF Stages, FirstStages, QuoteStages, EvidenceStages, AwaitStages, FinalStages
<1>1. CallKept /\ pc # "idle"
  BY DEF PrecheckFails, PrecheckFlags, NoQuote, Prepare
<1>2. Kept /\ RestTyped'
  BY <1>1, CallKeptKeeps
<1>3. ASSUME GiveUp PROVE PaidInv'
  BY <1>1, <1>2, <1>3, GiveUpKeeps
<1>4. CASE PrecheckFlags
  <2>1. pc = "flags" /\ submitted = {}
    BY <1>4 DEF PrecheckFlags, PaidInv, StageOK
  <2>2. MayGo("quote")
    BY <2>1 DEF MayGo
  <2>3. ASSUME NEW x \in FlagBlocks, PaymentConsumed(x), Go("resume") PROVE PaidInv'
    <3>1. MayGo("resume")
      BY <2>1, <2>3 DEF MayGo, PaymentConsumed
    <3> QED
      BY <1>1, <1>2, <2>3, <3>1, GoKeeps
  <2>4. ASSUME Return("unknown", pending) PROVE PaidInv'
    <3>1. pending \in 0..issued'
      BY <1>2, PaidAssumption DEF PaidInv, TypeOK, Kept, RestTyped
    <3> QED
      BY <1>2, <2>4, <3>1, ReturnKeeps
  <2>5. ASSUME Go("quote") PROVE PaidInv'
    BY <1>1, <1>2, <2>2, <2>5, GoKeeps
  <2> QED
    BY <1>3, <1>4, <2>3, <2>4, <2>5 DEF PrecheckFlags
<1>5. CASE Prepare
  <2>1. ASSUME Return("dry-run", 0) PROVE PaidInv'
    <3>1. 0 \in 0..issued'
      BY <1>2, PaidAssumption DEF RestTyped
    <3> QED
      BY <1>2, <2>1, <3>1, ReturnKeeps
  <2>2. MayGo("submit")
    BY <1>5 DEF MayGo, Prepare, PaidInv, StageOK, UnansweredExpired
  <2>3. ASSUME Go("submit") PROVE PaidInv'
    BY <1>1, <1>2, <2>2, <2>3, GoKeeps
  <2> QED
    BY <1>3, <1>5, <2>1, <2>3 DEF Prepare
<1> QED
  BY <1>3, <1>4, <1>5 DEF PrecheckFails, NoQuote

\* resume(), in the precheck and after a consumed payment was seen.
LEMMA ResumeSteps ==
  ASSUME PaidInv, PrecheckResume \/ EvidenceResume \/ FinalResume
  PROVE  PaidInv'
<1> USE DEF Stages, FirstStages, QuoteStages, EvidenceStages, AwaitStages, FinalStages
<1>1. CallKept /\ pc \in {"resume", "evidenceResume", "finalResume"}
  BY DEF PrecheckResume, EvidenceResume, FinalResume, Resume
<1>2. Kept /\ RestTyped'
  BY <1>1, CallKeptKeeps
<1>3. paid # Nobody
  BY <1>1 DEF PaidInv, StageOK
<1>4. issued' = issued /\ issued \in Nat /\ quote \in 0..issued
  BY <1>1, PaidAssumption DEF CallKept, quoteVars, PaidInv, TypeOK
<1>5. ASSUME SameAction, Return("paid", paid) PROVE PaidInv'
  <2>1. paid \in Executions /\ paid \in 0..issued'
    BY <1>4, <1>5, SettledIsIssued DEF SameAction
  <2> QED
    BY <1>2, <1>5, <2>1, ReturnKeeps
<1>6. ASSUME ~SameAction, Return("not-paid", 0) PROVE PaidInv'
  <2>1. 0 \in 0..issued'
    BY <1>4
  <2> QED
    BY <1>2, <1>3, <1>6, <2>1, OtherMakesDead, ReturnKeeps
<1>7. ASSUME GiveUp PROVE PaidInv'
  BY <1>1, <1>2, <1>7, GiveUpKeeps
<1>8. ASSUME NEW e \in 0..issued, Return("unknown", e) PROVE PaidInv'
  BY <1>2, <1>4, <1>8, ReturnKeeps
<1>9. 0 \in 0..issued
  BY <1>4
<1>10. ASSUME FinalResume, Go("finalPoll") PROVE PaidInv'
  <2>1. MayGo("finalPoll")
    BY <1>10 DEF FinalResume, Resume, MayGo
  <2> QED
    BY <1>1, <1>2, <1>10, <2>1, GoKeeps
<1> QED
  BY <1>4, <1>5, <1>6, <1>7, <1>8, <1>9, <1>10
  DEF PrecheckResume, EvidenceResume, FinalResume, Resume

\* paymentEvidence() without wait and awaitSettlement().
LEMMA AwaitSteps ==
  ASSUME PaidInv,
         EvidenceFlag \/ EvidenceFails \/ AwaitFlag \/ AwaitFails \/ AwaitPoll
  PROVE  PaidInv'
<1> USE DEF Stages, FirstStages, QuoteStages, EvidenceStages, AwaitStages, FinalStages
<1>1. CallKept /\ pc \in {"evidence", "evidenceFlag", "await", "awaitFlag", "awaitPoll"}
  BY DEF EvidenceFlag, EvidenceFails, AwaitFlag, AwaitFails, AwaitPoll
<1>2. Kept /\ RestTyped'
  BY <1>1, CallKeptKeeps
<1>3. quote \in Executions
  BY <1>1 DEF PaidInv, StageOK
<1>4. quote \in 0..issued'
  BY <1>1, PaidAssumption DEF CallKept, quoteVars, PaidInv, TypeOK
<1>5. ASSUME Return("unknown", quote) PROVE PaidInv'
  BY <1>2, <1>4, <1>5, ReturnKeeps
<1>6. ASSUME NEW stage, MayGo(stage), Go(stage) PROVE PaidInv'
  BY <1>1, <1>2, <1>6, GoKeeps
<1>7. CASE EvidenceFlag
  <2>1. MayGo("quote")
    BY <1>7 DEF EvidenceFlag, MayGo, PaidInv, UnansweredExpired
  <2>2. ASSUME NEW x \in FlagBlocks, PaymentConsumed(x) PROVE MayGo("evidenceResume")
    BY <1>3, <1>7, <2>2 DEF EvidenceFlag, MayGo, PaidInv, UnansweredExpired, PaymentConsumed
  <2> QED
    BY <1>6, <1>7, <2>1, <2>2 DEF EvidenceFlag
<1>8. CASE AwaitFlag
  <2>1. MayGo("awaitPoll")
    BY <1>3, <1>8 DEF AwaitFlag, MayGo
  <2>2. ASSUME NEW x \in FlagBlocks, ExpiredUnsettled(quote, x) PROVE MayGo("quote")
    <3>1. Expired(quote)
      BY <1>3, <2>2, UnsettledIsExpired DEF ExpiredUnsettled
    <3> QED
      BY <1>8, <3>1 DEF AwaitFlag, MayGo, PaidInv, UnansweredExpired
  <2>3. ASSUME NEW x \in FlagBlocks, ExecutionConsumed(quote, x), Return("paid", quote)
        PROVE  PaidInv'
    BY <1>2, <1>3, <1>4, <2>3, ReturnKeeps DEF ExecutionConsumed
  <2> QED
    BY <1>5, <1>6, <1>8, <2>1, <2>2, <2>3 DEF AwaitFlag
<1>9. CASE AwaitFails
  <2>1. MayGo("awaitPoll")
    BY <1>3, <1>9 DEF AwaitFails, MayGo
  <2> QED
    BY <1>6, <1>9, <2>1 DEF AwaitFails
<1>10. CASE AwaitPoll
  <2>1. MayGo("await")
    BY <1>3, <1>10 DEF AwaitPoll, MayGo
  <2> QED
    BY <1>5, <1>6, <1>10, <2>1 DEF AwaitPoll
<1> QED
  BY <1>5, <1>7, <1>8, <1>9, <1>10 DEF EvidenceFails

\* The wait before a not-paid result: the payment was unconsumed in a block
\* after the last submitted quote had expired, so none of them settled.
LEMMA FinalSteps ==
  ASSUME PaidInv, FinalFlag \/ FinalFails \/ FinalPoll
  PROVE  PaidInv'
<1> USE DEF Stages, FirstStages, QuoteStages, EvidenceStages, AwaitStages, FinalStages
<1>1. CallKept /\ pc \in {"final", "finalFlag", "finalPoll"}
  BY DEF FinalFlag, FinalFails, FinalPoll
<1>2. Kept /\ RestTyped'
  BY <1>1, CallKeptKeeps
<1>3. quote \in 0..issued' /\ 0 \in 0..issued'
  BY <1>1, PaidAssumption DEF CallKept, quoteVars, PaidInv, TypeOK
<1>4. MayGo("final") /\ MayGo("finalPoll")
  BY <1>1 DEF MayGo
<1>5. ASSUME Return("unknown", quote) PROVE PaidInv'
  BY <1>2, <1>3, <1>5, ReturnKeeps
<1>6. ASSUME NEW stage, MayGo(stage), Go(stage) PROVE PaidInv'
  BY <1>1, <1>2, <1>6, GoKeeps
<1>7. CASE FinalFlag
  <2>1. ASSUME NEW x \in FlagBlocks, PaymentConsumed(x) PROVE MayGo("finalResume")
    BY <1>7, <2>1 DEF FinalFlag, MayGo, PaymentConsumed
  <2>2. ASSUME NEW x \in FlagBlocks, ~PaymentConsumed(x), block > validUntil[quote],
               NEW f \in submitted
        PROVE  Dead(f)
    <3>1. f \in Executions /\ quote \in Executions /\ validUntil[f] <= validUntil[quote]
      BY <1>7, PaidAssumption
      DEF FinalFlag, PaidInv, FinalIsLatest, TypeOK, Executions
    <3>2. /\ block \in Nat /\ time \in Nat /\ block <= time /\ paid \in 0..Other
          /\ validUntil[f] \in Nat /\ validUntil[quote] \in Nat
      BY <3>1 DEF PaidInv, TypeOK, StageOK
    <3>3. block > validUntil[f]
      BY <2>2, <3>1, <3>2
    <3>4. ~ExecutionConsumed(f, x)
      BY <2>2, <3>1 DEF PaymentConsumed, ExecutionConsumed, Nobody, Executions
    <3>5. Expired(f)
      BY <3>1, <3>3, <3>4, UnsettledIsExpired
    <3> QED
      BY <3>2, <3>5 DEF Expired, Dead, CanSettle
  <2>3. ASSUME NEW x \in FlagBlocks, ~PaymentConsumed(x), block > validUntil[quote],
               Return("not-paid", 0)
        PROVE  PaidInv'
    <3>1. \A f \in submitted : Dead(f)
      BY <2>2, <2>3
    <3> QED
      BY <1>2, <1>3, <2>3, <3>1, ReturnKeeps
  <2> QED
    BY <1>4, <1>6, <1>7, <2>1, <2>3 DEF FinalFlag
<1> QED
  BY <1>4, <1>5, <1>6, <1>7 DEF FinalFails, FinalPoll

\* A quote request that yields no quote.
LEMMA QuoteRefusedStep ==
  ASSUME PaidInv, QuoteRefused
  PROVE  PaidInv'
<1>1. RestTyped /\ block <= time /\ issued \in Nat
  BY TypeParts, PaidAssumption DEF PaidInv, StageOK, RestTyped
<1>2. Kept
  BY <1>1 DEF Kept, QuoteRefused, chainVars, quoteVars
<1>3. used' \subseteq Exits /\ contacted' \in Nat
  BY <1>1 DEF RestTyped, QuoteRefused
<1>4. RestTyped'
  BY <1>1, <1>3 DEF RestTyped, QuoteRefused, chainVars, quoteVars, Executions, Other
<1>5. MayGo("quote")
  BY DEF MayGo, QuoteRefused, PaidInv, UnansweredExpired, Stages, FirstStages, QuoteStages,
         EvidenceStages, AwaitStages, FinalStages
<1> QED
  BY <1>2, <1>4, <1>5, GoKeeps DEF QuoteRefused

\* An issued quote, usable or not.
LEMMA QuoteIssuedStep ==
  ASSUME PaidInv, QuoteIssued
  PROVE  PaidInv'
<1>1. TypeOK /\ ControlTyped /\ RestTyped /\ block <= time /\ pc = "quote"
  BY TypeParts DEF PaidInv, StageOK, QuoteIssued
<1>2. issued \in Nat /\ issued' = issued + 1 /\ issued + 1 \in Executions /\ time \in Nat
  BY <1>1, PaidAssumption DEF RestTyped, QuoteIssued, Executions
<1>3. /\ validUntil' \in [Executions -> Nat]
      /\ \A e \in 1..issued : validUntil'[e] = validUntil[e]
  <2>1. PICK until \in time..(time + Ttl) :
          validUntil' = [validUntil EXCEPT ![issued + 1] = until]
    BY DEF QuoteIssued
  <2>2. until \in Nat
    BY <1>2, <2>1, PaidAssumption
  <2> QED
    BY <1>1, <1>2, <2>1, <2>2 DEF RestTyped
<1>4. Kept
  BY <1>1, <1>2, <1>3 DEF Kept, QuoteIssued, chainVars
<1>5. used' \subseteq Exits /\ contacted' \in Nat
  BY <1>1 DEF RestTyped, QuoteIssued
<1>6. RestTyped'
  <2>1. dryRun' \in BOOLEAN
    BY <1>1 DEF RestTyped, QuoteIssued
  <2>2. issued' \in 0..MaxQuotes /\ held' \subseteq 1..issued'
    BY <1>1, <1>2, PaidAssumption DEF RestTyped, QuoteIssued, Executions
  <2>3. /\ time' \in Nat /\ paid' \in 0..Other /\ paidAt' \in Nat
        /\ intent' \in 0..Other /\ intentAt' \in Nat
        /\ submitted' \subseteq held' /\ block' \in Nat /\ rejected' \subseteq submitted'
    BY <1>1 DEF RestTyped, QuoteIssued, chainVars, Other
  <2> QED
    BY <1>3, <1>5, <2>1, <2>2, <2>3 DEF RestTyped, Executions, Other
<1>7. ASSUME GiveUp PROVE PaidInv'
  BY <1>1, <1>4, <1>6, <1>7, GiveUpKeeps
<1>8. ASSUME pc' = "prepare", quote' = issued + 1, UNCHANGED <<appVars, late>> PROVE PaidInv'
  <2>1. ControlTyped'
    <3>1. late' \in BOOLEAN
      BY <1>1, <1>8 DEF ControlTyped
    <3>2. calls' \in Nat /\ outcome' \in Outcomes /\ pc' \in Stages
      BY <1>1, <1>8 DEF ControlTyped, appVars, Stages
    <3>3. pending' \in 0..issued' /\ reported' \in 0..issued' /\ quote' \in 0..issued'
      BY <1>1, <1>2, <1>8 DEF ControlTyped, appVars
    <3> QED
      BY <3>1, <3>2, <3>3 DEF ControlTyped
  <2>2. SettledInTime'
    <3>1. SettledInTime /\ held \subseteq 1..issued
      BY <1>1 DEF PaidInv, RestTyped
    <3> QED
      BY <1>4, <3>1 DEF SettledInTime, Kept, chainVars, Executions, Nobody
  <2>3. StageOK'
    BY <1>1, <1>2, <1>4, <1>8
    DEF PaidInv, StageOK, Kept, chainVars, appVars, FirstStages, EvidenceStages, AwaitStages,
        Executions
  <2>4. FinalIsLatest' /\ NotPaidIsFinal' /\ PaidIsReal'
    BY <1>1, <1>8
    DEF PaidInv, StageOK, FinalIsLatest, FinalStages, NotPaidIsFinal, PaidIsReal, appVars
  <2>5. UnansweredExpired'
    <3>1. \A e \in submitted : validUntil'[e] = validUntil[e]
      BY <1>1, <1>3 DEF RestTyped
    <3> QED
      BY <1>1, <1>4, <1>8, <3>1
      DEF PaidInv, UnansweredExpired, Expired, Kept, chainVars, QuoteStages, EvidenceStages,
          AwaitStages
  <2>6. TypeOK'
    BY <1>6, <2>1 DEF TypeOK, ControlTyped, RestTyped, Outcomes
  <2> QED
    BY <2>2, <2>3, <2>4, <2>5, <2>6 DEF PaidInv
<1> QED
  BY <1>7, <1>8 DEF QuoteIssued

\* From the submission on the exit holds the quote.
LEMMA SubmitStep ==
  ASSUME PaidInv, Submit
  PROVE  PaidInv'
<1>1. RestTyped /\ block <= time /\ issued \in Nat /\ pc = "submit"
  BY TypeParts, PaidAssumption DEF PaidInv, StageOK, RestTyped, Submit
<1>2. quote \in 1..issued
  BY <1>1 DEF PaidInv, TypeOK, StageOK, Executions
<1>3. held' \subseteq 1..issued /\ held \subseteq held'
  BY <1>1, <1>2 DEF RestTyped, Submit
<1>4. Kept
  BY <1>1, <1>3 DEF Kept, Submit, chainVars
<1>5. RestTyped'
  BY <1>1, <1>3 DEF RestTyped, Submit, chainVars, Executions, Other
<1>6. ASSUME GiveUp PROVE PaidInv'
  BY <1>1, <1>4, <1>5, <1>6, GiveUpKeeps
<1>7. ASSUME Go("reply"), held' = held \cup {quote} PROVE PaidInv'
  <2>1. MayGo("reply")
    BY <1>1, <1>7
    DEF MayGo, PaidInv, StageOK, UnansweredExpired, Stages, FirstStages, QuoteStages,
        EvidenceStages, AwaitStages, FinalStages
  <2> QED
    BY <1>1, <1>4, <1>5, <1>7, <2>1, GoKeeps
<1> QED
  BY <1>6, <1>7 DEF Submit

\* The reply to a submission, or its absence.
LEMMA ReplyStep ==
  ASSUME PaidInv, Reply
  PROVE  PaidInv'
<1>1. TypeOK /\ pc = "reply" /\ quote \in Executions /\ quote \in held
  BY DEF PaidInv, StageOK, Reply
<1>2. TypeOK'
  <2>1. dryRun' \in BOOLEAN /\ late' \in BOOLEAN
    BY <1>1 DEF TypeOK, Reply, Go
  <2>2. submitted' \subseteq held' /\ rejected' \subseteq submitted'
    BY <1>1 DEF TypeOK, Reply, NoteSubmitted, quoteVars
  <2>3. pc' \in Stages /\ UNCHANGED <<appVars, quote>>
    BY DEF Reply, Go, Stages
  <2> QED
    BY <1>1, <2>1, <2>2, <2>3 DEF TypeOK, Reply, chainVars, quoteVars, appVars, Executions, Other
<1>3. SettledInTime'
  BY DEF PaidInv, SettledInTime, Reply, chainVars, quoteVars, Executions, Nobody
<1>4. pc' \in {"evidence", "await"} /\ UNCHANGED <<appVars, quote, block, chainVars, quoteVars>>
  BY DEF Reply, Go
<1>5. StageOK'
  BY <1>1, <1>4
  DEF PaidInv, StageOK, chainVars, quoteVars, appVars, FirstStages, EvidenceStages, AwaitStages,
      Executions
<1>6. FinalIsLatest' /\ NotPaidIsFinal' /\ PaidIsReal'
  BY <1>1, <1>4
  DEF PaidInv, StageOK, FinalIsLatest, FinalStages, NotPaidIsFinal, PaidIsReal, appVars
<1>7. UnansweredExpired'
  <2>1. \A e \in submitted \ rejected : Expired(e)
    BY <1>1 DEF PaidInv, UnansweredExpired
  <2>2. ASSUME NEW e, Expired(e) PROVE Expired(e)'
    BY <1>4, <2>2 DEF Expired, chainVars, quoteVars
  <2>3. CASE pc' = "evidence"
    <3>1. submitted' \ rejected' \subseteq submitted \ rejected
      BY <2>3 DEF Reply, NoteSubmitted, Go
    <3> QED
      BY <2>1, <2>2, <2>3, <3>1 DEF UnansweredExpired, AwaitStages
  <2>4. CASE pc' = "await"
    <3>1. (submitted' \ rejected') \ {quote'} \subseteq submitted \ rejected
      BY <1>4, <2>4 DEF Reply, NoteSubmitted, Go
    <3> QED
      BY <2>1, <2>2, <2>4, <3>1 DEF UnansweredExpired, QuoteStages, EvidenceStages
  <2> QED
    BY <1>4, <2>3, <2>4
<1> QED
  BY <1>2, <1>3, <1>5, <1>6, <1>7 DEF PaidInv

\* The deadline of the waits.
LEMMA DeadlineStep ==
  ASSUME PaidInv, Deadline
  PROVE  PaidInv'
<1> USE DEF chainVars, quoteVars, appVars
<1>1. TypeOK'
  <2>1. TypeOK
    BY DEF PaidInv
  <2>2. dryRun' \in BOOLEAN /\ late' \in BOOLEAN
    BY <2>1 DEF TypeOK, Deadline
  <2> QED
    BY <2>1, <2>2 DEF TypeOK, Deadline, Executions, Other
<1>2. SettledInTime' /\ StageOK'
  BY DEF PaidInv, Deadline, SettledInTime, StageOK, Executions, Nobody
<1>3. FinalIsLatest' /\ UnansweredExpired'
  BY DEF PaidInv, Deadline, FinalIsLatest, UnansweredExpired, Expired, Executions
<1>4. NotPaidIsFinal' /\ PaidIsReal'
  BY DEF PaidInv, Deadline, NotPaidIsFinal, PaidIsReal, Dead, CanSettle
<1> QED
  BY <1>1, <1>2, <1>3, <1>4 DEF PaidInv

\* A restart of the application.
LEMMA CrashStep ==
  ASSUME PaidInv, Crash
  PROVE  PaidInv'
<1>1. Kept /\ RestTyped'
  BY CallKeptKeeps DEF Crash
<1>2. TypeOK /\ ControlTyped /\ RestTyped
  BY TypeParts DEF PaidInv
<1>3. ControlTyped'
  <2>1. late' \in BOOLEAN
    BY <1>2 DEF ControlTyped, Crash
  <2> QED
    BY <1>2, <2>1 DEF ControlTyped, Crash, CallKept, quoteVars, Outcomes, Stages
<1>4. SettledInTime'
  BY DEF PaidInv, SettledInTime, Crash, CallKept, chainVars, quoteVars, Executions, Nobody
<1>5. StageOK'
  BY <1>1 DEF StageOK, Kept, chainVars, Crash, FirstStages, EvidenceStages, AwaitStages
<1>6. FinalIsLatest' /\ UnansweredExpired' /\ NotPaidIsFinal' /\ PaidIsReal'
  BY DEF Crash, FinalIsLatest, UnansweredExpired, QuoteStages, EvidenceStages, AwaitStages,
         FinalStages, NotPaidIsFinal, PaidIsReal
<1>7. TypeOK'
  BY <1>1, <1>3 DEF TypeOK, ControlTyped, RestTyped, Outcomes
<1> QED
  BY <1>4, <1>5, <1>6, <1>7 DEF PaidInv

\* A new call.
LEMMA StartStep ==
  ASSUME PaidInv, Start
  PROVE  PaidInv'
<1> USE DEF chainVars, quoteVars
<1>1. TypeOK /\ issued \in Nat
  BY PaidAssumption DEF PaidInv, TypeOK
<1>2. TypeOK'
  <2>1. dryRun' \in BOOLEAN /\ late' \in BOOLEAN
    BY DEF Start
  <2>2. /\ outcome' \in {"none", "not-paid", "unknown", "paid", "dry-run", "crashed"}
        /\ pc' \in Stages
    BY DEF Start, Stages
  <2>3. /\ calls' \in Nat /\ pending' \in 0..issued' /\ reported' \in 0..issued'
        /\ quote' \in 0..issued' /\ contacted' \in Nat /\ block' \in Nat
    BY <1>1 DEF TypeOK, Start
  <2>4. /\ used' \subseteq Exits
        /\ submitted' \subseteq held' /\ rejected' \subseteq submitted'
    BY DEF Start
  <2>5. /\ time' \in Nat /\ paid' \in 0..Other /\ paidAt' \in Nat
        /\ intent' \in 0..Other /\ intentAt' \in Nat /\ issued' \in 0..MaxQuotes
        /\ validUntil' \in [Executions -> Nat] /\ held' \subseteq 1..issued'
    BY <1>1 DEF TypeOK, Start
  <2> QED
    BY <2>1, <2>2, <2>3, <2>4, <2>5 DEF TypeOK, Executions, Other
<1>3. SettledInTime'
  BY DEF PaidInv, SettledInTime, Start, Executions, Nobody
<1>4. StageOK'
  BY <1>1 DEF TypeOK, Start, StageOK, FirstStages, EvidenceStages, AwaitStages
<1>5. FinalIsLatest' /\ UnansweredExpired' /\ NotPaidIsFinal' /\ PaidIsReal'
  BY DEF Start, FinalIsLatest, UnansweredExpired, QuoteStages, EvidenceStages, AwaitStages,
         FinalStages, NotPaidIsFinal, PaidIsReal
<1> QED
  BY <1>2, <1>3, <1>4, <1>5 DEF PaidInv

\* A new block, with or without a settlement.
LEMMA NewBlockStep ==
  ASSUME PaidInv, NewBlock
  PROVE  PaidInv'
<1> USE DEF quoteVars, appVars, callVars
<1>1. /\ TypeOK /\ issued \in Nat /\ MaxQuotes \in Nat /\ time \in Nat
      /\ held \subseteq 1..issued /\ 1..issued \subseteq Executions
      /\ submitted \subseteq held
  BY PaidAssumption DEF PaidInv, TypeOK, Executions
<1>2. /\ time' = time + 1
      /\ UNCHANGED <<issued, validUntil, held, outcome, reported, pc, quote, submitted, rejected,
                     block>>
  BY DEF NewBlock
<1>3. \A e \in held : e \in Executions /\ validUntil[e] \in Nat
  BY <1>1 DEF TypeOK
<1>4. SettledInTime /\ StageOK
  BY DEF PaidInv
<1>5. \/ UNCHANGED <<paid, intent, paidAt, intentAt>>
      \/ /\ paid = Nobody /\ intent = Nobody
         /\ paid' \in held /\ intent' = paid' /\ paidAt' = time + 1 /\ intentAt' = time + 1
         /\ time + 1 <= validUntil[paid']
      \/ paid = Nobody /\ paid' = Other /\ paidAt' = time + 1 /\ UNCHANGED <<intent, intentAt>>
      \/ /\ intent = Nobody /\ intent' = Other /\ intentAt' = time + 1
         /\ UNCHANGED <<paid, paidAt>>
  BY DEF NewBlock, CanSettle
<1>6. Other \notin Executions /\ Nobody \notin Executions /\ Other # Nobody /\ Other \in 0..Other
  BY <1>1 DEF Other, Executions, Nobody
<1>7. TypeOK'
  <2>1. late' \in BOOLEAN /\ dryRun' \in BOOLEAN
    BY <1>1 DEF TypeOK, NewBlock
  <2>2. time' \in Nat /\ paidAt' \in Nat /\ intentAt' \in Nat
    BY <1>1, <1>2, <1>5 DEF TypeOK
  <2>3. \A e \in held : e \in 0..Other
    BY <1>1, <1>3 DEF Executions, Other
  <2>4. paid' \in 0..Other /\ intent' \in 0..Other
    BY <1>1, <1>5, <1>6, <2>3 DEF TypeOK
  <2> QED
    BY <1>1, <2>1, <2>2, <2>4 DEF TypeOK, NewBlock, Executions, Other
<1>8. SettledInTime'
  <2>1. paid' # Nobody => paidAt' <= time'
    BY <1>1, <1>2, <1>4, <1>5 DEF SettledInTime, TypeOK
  <2>2. paid' \in Executions =>
          paid' \in held /\ intent' = paid' /\ paidAt' <= validUntil[paid']
    BY <1>4, <1>5, <1>6 DEF SettledInTime
  <2> QED
    BY <1>2, <2>1, <2>2 DEF SettledInTime, Executions, Nobody
<1>9. paid # Nobody => paid' = paid
  BY <1>5
<1>10. StageOK'
  <2>1. block' <= time'
    BY <1>1, <1>2, <1>4 DEF TypeOK, StageOK
  <2> QED
    BY <1>2, <1>4, <1>9, <2>1 DEF StageOK, Executions, Nobody
<1>11. ASSUME NEW e \in submitted, Expired(e) PROVE Expired(e)'
  <2>1. e \in Executions /\ validUntil[e] \in Nat
    BY <1>1, <1>3
  <2>2. paid' # e
    BY <1>1, <1>5, <1>6, <1>11, <2>1 DEF Expired
  <2> QED
    BY <1>1, <1>2, <1>11, <2>1, <2>2 DEF Expired
<1>12. FinalIsLatest' /\ UnansweredExpired'
  <2>1. FinalIsLatest'
    BY <1>2 DEF PaidInv, FinalIsLatest, Executions
  <2>2. UnansweredExpired'
    BY <1>2, <1>11 DEF PaidInv, UnansweredExpired
  <2> QED
    BY <2>1, <2>2
<1>13. ASSUME NEW e \in submitted, Dead(e) PROVE Dead(e)'
  <2>1. e \in held /\ e \in Executions /\ validUntil[e] \in Nat
    BY <1>1, <1>3
  <2>2. paid' # e
    BY <1>5, <1>6, <1>13, <2>1 DEF Dead, CanSettle
  <2>3. CASE paid # Nobody \/ intent # Nobody
    BY <1>5, <1>6, <2>2, <2>3 DEF Dead, CanSettle, Nobody
  <2>4. CASE ~(time + 1 <= validUntil[e])
    BY <1>1, <1>2, <2>1, <2>2, <2>4 DEF Dead, CanSettle
  <2> QED
    BY <1>13, <2>3, <2>4 DEF Dead, CanSettle
<1>14. NotPaidIsFinal'
  BY <1>2, <1>13 DEF PaidInv, NotPaidIsFinal
<1>15. PaidIsReal'
  <2>1. outcome = "paid" => paid = reported /\ intent = reported /\ reported \in held
    BY DEF PaidInv, PaidIsReal
  <2> QED
    BY <1>1, <1>2, <1>5, <1>6, <2>1 DEF PaidIsReal
<1> QED
  BY <1>7, <1>8, <1>10, <1>12, <1>14, <1>15 DEF PaidInv

\* A stuttering step.
LEMMA StutterStep ==
  ASSUME PaidInv, UNCHANGED vars
  PROVE  PaidInv'
<1> USE DEF vars, chainVars, quoteVars, appVars, callVars
<1>1. TypeOK'
  BY DEF PaidInv, TypeOK, Executions, Other
<1>2. SettledInTime' /\ StageOK' /\ FinalIsLatest'
  BY DEF PaidInv, SettledInTime, StageOK, FinalIsLatest, Executions, Nobody
<1>3. UnansweredExpired' /\ NotPaidIsFinal' /\ PaidIsReal'
  BY DEF PaidInv, UnansweredExpired, Expired, NotPaidIsFinal, PaidIsReal, Dead, CanSettle
<1> QED
  BY <1>1, <1>2, <1>3 DEF PaidInv

-----------------------------------------------------------------------------
\* PaidInv holds in every state of every behaviour.
THEOREM PaidInvariant == Spec => []PaidInv
<1>1. PaidInv /\ [Next]_vars => PaidInv'
  BY BlockSteps, PrecheckSteps, ResumeSteps, AwaitSteps, FinalSteps, QuoteRefusedStep,
     QuoteIssuedStep, SubmitStep, ReplyStep, DeadlineStep, CrashStep, StartStep, NewBlockStep,
     StutterStep
  DEF Next, CallStep
<1> QED
  BY <1>1, InitPaidInv, PTL DEF Spec

\* A not-paid result of executePaid is true and stays true: no quote the call
\* submitted has settled or can settle, whatever the exits broadcast later.
THEOREM NotPaidMeansNotPaid == Spec => []NotPaidIsFinal
<1>1. PaidInv => NotPaidIsFinal
  BY DEF PaidInv
<1> QED
  BY <1>1, PaidInvariant, PTL

\* A settlement that executePaid reports is on chain, of this action and of the
\* execution it names.
THEOREM PaidMeansPaid == Spec => []PaidIsReal
<1>1. PaidInv => PaidIsReal
  BY DEF PaidInv
<1> QED
  BY <1>1, PaidInvariant, PTL

\* attemptPaid asks for another quote only once the submissions left unanswered
\* have expired unsettled.
THEOREM SecondExitAfterExpiry == Spec => []SecondExitWaits
<1>1. PaidInv => SecondExitWaits
  BY DEF PaidInv, UnansweredExpired, Expired, SecondExitWaits, QuoteStages
<1> QED
  BY <1>1, PaidInvariant, PTL
-----------------------------------------------------------------------------
(* When not-paid is final for the action, not only for the call            *)

\* The stages after the precheck, besides the wait for the submission's reply.
LaterStages == QuoteStages \cup EvidenceStages \cup AwaitStages \cup FinalStages

\* One settlement consumes both ids in one block.
IdsTogether == paid \in Executions => intentAt = paidAt

\* With one exit per call, a call submits once.
SubmitsOnce ==
  /\ calls = 0 => held = {}
  /\ pc # "idle" => calls > 0
  /\ \A e, f \in submitted : e = f
  /\ submitted # {} => contacted > 0
  /\ pc \in {"prepare", "submit", "reply"} => submitted = {} /\ contacted > 0
  /\ pc \in EvidenceStages \cup AwaitStages \cup FinalStages => quote \in submitted

\* The quotes that exits hold from earlier calls: the one handed back as pending
\* may still settle; the others are dead, or the payment is made already.
OthersDead ==
  /\ pc \in {"idle", "precheck"} => \A e \in held : e = pending \/ Dead(e) \/ paid # Nobody
  /\ pc = "flags" => \A e \in held : e = pending \/ Dead(e) \/ (paid # Nobody /\ paidAt <= block)
  /\ pc \in LaterStages => \A e \in held \ submitted : Dead(e)
  /\ pc = "reply" => \A e \in held \ {quote} : Dead(e)

ForGoodInv == PaidInv /\ IdsTogether /\ SubmitsOnce /\ OthersDead /\ NotPaidForGood

\* What the theorem assumes: one exit per call, flags read at the block that was
\* asked for, prechecks whose reads succeed, and no restart.
Steady == MaxExits = 1 /\ ~LatestOnly /\ ~PrecheckReadsFail /\ ~MayCrash

\* The step leaves the chain, the submissions and what exits hold alone.
HeldKept ==
  /\ Kept /\ held' = held /\ calls' = calls
  /\ contacted > 0 => contacted' > 0

\* A step that leaves the chain alone makes no quote live or dead.
LEMMA DeadKept ==
  ASSUME PaidInv, Kept, NEW e \in held
  PROVE  Dead(e)' <=> Dead(e)
<1>1. validUntil'[e] = validUntil[e]
  BY DEF PaidInv, TypeOK, Kept
<1> QED
  BY <1>1 DEF Dead, CanSettle, Kept, chainVars

\* What a step that keeps the chain keeps.
LEMMA FrameKept ==
  ASSUME ForGoodInv, HeldKept
  PROVE  /\ IdsTogether' /\ (calls' = 0 => held' = {})
         /\ \A e, f \in submitted' : e = f
         /\ submitted' # {} => contacted' > 0
         /\ submitted' = submitted /\ paid' = paid
BY DEF ForGoodInv, IdsTogether, SubmitsOnce, HeldKept, Kept, chainVars, Executions

\* Resolving, when every quote that may still settle is handed back.
LEMMA ForGoodReturn ==
  ASSUME ForGoodInv, PaidInv', HeldKept, NEW how, NEW e, Return(how, e),
         \A f \in held : f = pending' \/ Dead(f) \/ paid # Nobody,
         how = "not-paid" => \A f \in held : Dead(f)
  PROVE  ForGoodInv'
<1>1. \A f \in held : Dead(f)' <=> Dead(f)
  BY DeadKept DEF ForGoodInv, HeldKept
<1>2. pc' = "idle" /\ outcome' = how /\ held' = held /\ paid' = paid
  BY FrameKept DEF Return, HeldKept
<1>3. SubmitsOnce'
  BY <1>2, FrameKept DEF SubmitsOnce, EvidenceStages, AwaitStages, FinalStages
<1>4. OthersDead'
  BY <1>1, <1>2 DEF OthersDead, LaterStages, QuoteStages, EvidenceStages, AwaitStages, FinalStages,
     Nobody
<1>5. NotPaidForGood'
  BY <1>1, <1>2 DEF NotPaidForGood
<1> QED
  BY <1>3, <1>4, <1>5, FrameKept DEF ForGoodInv

\* Going on after the precheck.
LEMMA ForGoodGo ==
  ASSUME ForGoodInv, PaidInv', HeldKept, pc # "idle", NEW stage \in LaterStages,
         pc' = stage, outcome' = outcome,
         \A e \in held \ submitted : Dead(e),
         stage \in {"prepare", "submit"} => submitted = {} /\ contacted' > 0,
         stage \in EvidenceStages \cup AwaitStages \cup FinalStages => quote' \in submitted
  PROVE  ForGoodInv'
<1> USE DEF LaterStages, QuoteStages, EvidenceStages, AwaitStages, FinalStages
<1>1. \A f \in held : Dead(f)' <=> Dead(f)
  BY DeadKept DEF ForGoodInv, HeldKept
<1>2. held' = held /\ submitted' = submitted /\ calls' = calls /\ calls > 0
  BY FrameKept DEF HeldKept, ForGoodInv, SubmitsOnce
<1>3. SubmitsOnce'
  BY <1>2, FrameKept DEF SubmitsOnce
<1>4. OthersDead'
  BY <1>1, <1>2 DEF OthersDead
<1>5. NotPaidForGood'
  BY DEF NotPaidForGood, ForGoodInv, PaidInv, StageOK
<1> QED
  BY <1>3, <1>4, <1>5, FrameKept DEF ForGoodInv

\* attemptPaid() giving up when only this call's quote may still settle.
LEMMA ForGoodGiveUp ==
  ASSUME ForGoodInv, PaidInv', HeldKept, pc # "idle", GiveUp,
         \A e \in held \ submitted : Dead(e)
  PROVE  ForGoodInv'
<1>1. CASE submitted = {} /\ Return("not-paid", 0)
  BY <1>1, ForGoodReturn
<1>2. CASE \E e \in submitted : pc' = "final" /\ quote' = e /\ UNCHANGED appVars
  <2>1. outcome' = outcome /\ quote' \in submitted /\ "final" \in LaterStages
    BY <1>2 DEF appVars, LaterStages, FinalStages
  <2> QED
    BY <1>2, <2>1, ForGoodGo
<1> QED
  BY <1>1, <1>2 DEF GiveUp

\* The precheck: a call that goes on has seen that no earlier quote will settle.
LEMMA ForGoodPrecheck ==
  ASSUME Steady, ForGoodInv, PaidInv', PrecheckFlags
  PROVE  ForGoodInv'
<1> USE DEF LaterStages, QuoteStages
<1>1. CallKept /\ pc = "flags" /\ submitted = {} /\ FlagBlocks = {block}
  BY DEF PrecheckFlags, ForGoodInv, PaidInv, StageOK, FirstStages, Steady, FlagBlocks
<1>2. Kept /\ held' = held /\ contacted' = contacted
  BY <1>1, CallKeptKeeps DEF ForGoodInv, CallKept, quoteVars
<1>3. /\ held \subseteq Executions /\ pending \in 0..issued /\ block \in Nat /\ time \in Nat
      /\ paidAt \in Nat /\ validUntil \in [Executions -> Nat] /\ block <= time
      /\ paid \in 0..Other
  <2>1. held \subseteq 1..issued /\ issued \in 0..MaxQuotes /\ pending \in 0..issued
    BY DEF ForGoodInv, PaidInv, TypeOK
  <2>2. held \subseteq Executions
    BY <2>1, PaidAssumption DEF Executions
  <2> QED
    BY <2>1, <2>2 DEF ForGoodInv, PaidInv, TypeOK, StageOK
<1>4. \A e \in held : e = pending \/ Dead(e) \/ (paid # Nobody /\ paidAt <= block)
  BY <1>1 DEF ForGoodInv, OthersDead
<1>5. Nobody \notin Executions
  BY DEF Nobody, Executions
<1>6. ASSUME PaymentConsumed(block) # IntentConsumed(block)
      PROVE  \A e \in held : Dead(e)
  <2>1. paid \notin Executions
    BY <1>5, <1>6 DEF ForGoodInv, IdsTogether, PaidInv, SettledInTime, PaymentConsumed, IntentConsumed
  <2>2. paid # Nobody \/ intent # Nobody
    BY <1>6 DEF PaymentConsumed, IntentConsumed
  <2> QED
    BY <1>3, <2>1, <2>2 DEF Dead, CanSettle
<1>7. ASSUME ~PaymentConsumed(block), ~PendingMaySettle
      PROVE  \A e \in held : Dead(e)
  <2>1. \A e \in held : e = pending \/ Dead(e)
    BY <1>4, <1>7 DEF PaymentConsumed
  <2>2. ASSUME pending \in held PROVE Dead(pending)
    <3>1. pending # 0 /\ validUntil[pending] \in Nat /\ pending \in Executions
      BY <1>3, <2>2 DEF Executions
    <3>2. block > validUntil[pending]
      BY <1>3, <1>7, <3>1 DEF PendingMaySettle
    <3>3. paid # pending
      BY <1>3, <1>5, <1>7, <3>1, <3>2 DEF ForGoodInv, PaidInv, SettledInTime, PaymentConsumed
    <3> QED
      BY <1>3, <3>1, <3>2, <3>3 DEF Dead, CanSettle
  <2> QED
    BY <2>1, <2>2
<1>8. ASSUME GiveUp, \A e \in held : Dead(e) PROVE ForGoodInv'
  <2>1. Return("not-paid", 0) /\ calls' = calls
    BY <1>1, <1>8 DEF GiveUp, Return
  <2>2. HeldKept
    BY <1>2, <2>1 DEF HeldKept
  <2> QED
    BY <1>8, <2>1, <2>2, ForGoodReturn
<1>9. ASSUME Go("quote"), \A e \in held : Dead(e) PROVE ForGoodInv'
  <2>1. pc' = "quote" /\ outcome' = outcome /\ HeldKept /\ "quote" \in LaterStages
    BY <1>2, <1>9 DEF Go, appVars, HeldKept
  <2> QED
    BY <1>1, <1>9, <2>1, ForGoodGo DEF EvidenceStages, AwaitStages, FinalStages
<1>10. ASSUME Return("unknown", pending) PROVE ForGoodInv'
  <2>1. pending' = pending /\ HeldKept
    BY <1>2, <1>10 DEF Return, HeldKept
  <2> QED
    BY <1>4, <1>10, <2>1, ForGoodReturn
<1>11. ASSUME Go("resume") PROVE ForGoodInv'
  <2>1. pc' = "resume" /\ outcome' = outcome /\ HeldKept /\ outcome = "none" /\ calls > 0
    BY <1>1, <1>2, <1>11 DEF Go, appVars, HeldKept, ForGoodInv, PaidInv, StageOK, SubmitsOnce
  <2>2. SubmitsOnce' /\ OthersDead' /\ NotPaidForGood'
    BY <2>1, FrameKept DEF SubmitsOnce, OthersDead, NotPaidForGood, EvidenceStages, AwaitStages,
       FinalStages, HeldKept
  <2> QED
    BY <2>1, <2>2, FrameKept DEF ForGoodInv
<1> QED
  BY <1>1, <1>6, <1>7, <1>8, <1>9, <1>10, <1>11 DEF PrecheckFlags

\* Reads of the block number.
LEMMA ForGoodBlocks ==
  ASSUME ForGoodInv, PaidInv', PrecheckBlock \/ EvidenceBlock \/ AwaitBlock \/ FinalBlock
  PROVE  ForGoodInv'
<1> USE DEF LaterStages, QuoteStages, EvidenceStages, AwaitStages, FinalStages
<1>1. PICK from, to : /\ ReadBlock(from, to)
                      /\ <<from, to>> \in {<<"precheck", "flags">>, <<"evidence", "evidenceFlag">>,
                                           <<"await", "awaitFlag">>, <<"final", "finalFlag">>}
  BY DEF PrecheckBlock, EvidenceBlock, AwaitBlock, FinalBlock
<1>2. /\ pc = from /\ pc' = to /\ outcome' = outcome /\ block' = time /\ pc # "idle"
      /\ pending' = pending /\ quote' = quote
      /\ UNCHANGED <<chainVars, quoteVars, calls, contacted, submitted, rejected>>
  BY <1>1 DEF ReadBlock, Go, appVars
<1>3. HeldKept
  <2>1. issued \in Nat /\ time \in Nat
    BY PaidAssumption DEF ForGoodInv, PaidInv, TypeOK
  <2> QED
    BY <1>2, <2>1 DEF HeldKept, Kept, chainVars, quoteVars
<1>4. CASE to \in LaterStages
  <2>1. \A e \in held \ submitted : Dead(e)
    BY <1>1, <1>2, <1>4 DEF ForGoodInv, OthersDead
  <2>2. quote \in submitted
    BY <1>1, <1>2, <1>4 DEF ForGoodInv, SubmitsOnce
  <2> QED
    BY <1>1, <1>2, <1>3, <1>4, <2>1, <2>2, ForGoodGo
<1>5. CASE to = "flags"
  <2>1. \A e \in held : e = pending \/ Dead(e) \/ paid # Nobody
    BY <1>1, <1>2, <1>5 DEF ForGoodInv, OthersDead
  <2>2. paid # Nobody => paidAt <= block'
    BY <1>2 DEF ForGoodInv, PaidInv, SettledInTime
  <2>3. \A e \in held : Dead(e)' <=> Dead(e)
    BY <1>3, DeadKept DEF ForGoodInv, HeldKept
  <2>4. OthersDead'
    BY <1>2, <1>5, <2>1, <2>2, <2>3 DEF OthersDead, chainVars, quoteVars, Nobody
  <2>5. SubmitsOnce' /\ NotPaidForGood'
    BY <1>2, <1>3, <1>5, FrameKept DEF SubmitsOnce, NotPaidForGood, ForGoodInv, PaidInv, StageOK
  <2> QED
    BY <1>3, <2>4, <2>5, FrameKept DEF ForGoodInv
<1> QED
  BY <1>1, <1>4, <1>5

\* Steps of the call after the precheck that keep its locals.
LEMMA ForGoodKept ==
  ASSUME ForGoodInv, PaidInv', CallKept, UNCHANGED calls
  PROVE  HeldKept
BY CallKeptKeeps DEF ForGoodInv, HeldKept, CallKept, quoteVars

\* The waits, and what follows a quote that was refused or is prepared.
LEMMA ForGoodWaits ==
  ASSUME ForGoodInv, PaidInv',
         \/ NoQuote \/ Prepare \/ EvidenceFlag \/ EvidenceFails
         \/ AwaitFlag \/ AwaitFails \/ AwaitPoll \/ FinalFlag \/ FinalFails \/ FinalPoll
  PROVE  ForGoodInv'
<1> USE DEF LaterStages, QuoteStages, EvidenceStages, AwaitStages, FinalStages
<1>1. CallKept /\ pc \in LaterStages \ {"submit"} /\ UNCHANGED calls
  BY DEF NoQuote, Prepare, EvidenceFlag, EvidenceFails, AwaitFlag, AwaitFails, AwaitPoll,
     FinalFlag, FinalFails, FinalPoll, Go, GiveUp, Return, appVars
<1>2. HeldKept
  BY <1>1, ForGoodKept
<1>3. \A e \in held \ submitted : Dead(e)
  BY <1>1 DEF ForGoodInv, OthersDead
<1>4. ASSUME GiveUp PROVE ForGoodInv'
  BY <1>1, <1>2, <1>3, <1>4, ForGoodGiveUp
<1>5. /\ pc \in EvidenceStages \cup AwaitStages \cup FinalStages => quote \in submitted
      /\ pc = "prepare" => submitted = {} /\ contacted > 0
  BY DEF ForGoodInv, SubmitsOnce
<1>6. ASSUME NEW stage \in LaterStages, Go(stage), stage # "prepare",
             stage \in {"quote", "submit"} \/ pc \notin {"quote", "prepare"},
             stage = "submit" => pc = "prepare"
      PROVE  ForGoodInv'
  <2>1. pc' = stage /\ outcome' = outcome /\ quote' = quote /\ contacted' = contacted
    BY <1>1, <1>6 DEF Go, appVars, CallKept
  <2>2. stage \in EvidenceStages \cup AwaitStages \cup FinalStages => quote' \in submitted
    BY <1>1, <1>5, <1>6, <2>1
  <2>3. stage \in {"prepare", "submit"} => submitted = {} /\ contacted' > 0
    BY <1>5, <1>6, <2>1
  <2> QED
    BY <1>1, <1>2, <1>3, <1>6, <2>1, <2>2, <2>3, ForGoodGo
<1>7. ASSUME pc \notin {"quote", "prepare"}, Return("unknown", quote) PROVE ForGoodInv'
  <2>1. pending' = quote /\ \A f \in submitted : f = quote
    BY <1>1, <1>5, <1>7 DEF Return, ForGoodInv, SubmitsOnce
  <2>2. \A f \in held : f = pending' \/ Dead(f) \/ paid # Nobody
    BY <1>3, <2>1
  <2> QED
    BY <1>2, <1>7, <2>2, ForGoodReturn
<1>8. CASE NoQuote
  BY <1>4, <1>8 DEF NoQuote
<1>9. CASE Prepare
  <2>1. pc = "prepare"
    BY <1>9 DEF Prepare
  <2>2. ASSUME Return("dry-run", 0) PROVE ForGoodInv'
    <3>1. \A f \in held : Dead(f)
      BY <1>3, <1>5, <2>1
    <3> QED
      BY <1>2, <2>2, <3>1, ForGoodReturn
  <2> QED
    BY <1>4, <1>6, <1>9, <2>1, <2>2 DEF Prepare
<1>10. CASE EvidenceFlag \/ EvidenceFails
  BY <1>6, <1>7, <1>10 DEF EvidenceFlag, EvidenceFails
<1>11. CASE AwaitFlag \/ AwaitFails \/ AwaitPoll
  <2>1. pc \in AwaitStages
    BY <1>11 DEF AwaitFlag, AwaitFails, AwaitPoll
  <2>2. ASSUME NEW x, ExecutionConsumed(quote, x), Return("paid", quote) PROVE ForGoodInv'
    <3>1. paid # Nobody
      BY <2>1, <2>2 DEF ExecutionConsumed, ForGoodInv, PaidInv, StageOK, Executions, Nobody
    <3> QED
      BY <1>2, <2>2, <3>1, ForGoodReturn
  <2> QED
    BY <1>6, <1>7, <1>11, <2>1, <2>2 DEF AwaitFlag, AwaitFails, AwaitPoll
<1>12. CASE FinalFlag \/ FinalFails \/ FinalPoll
  <2>1. pc \in FinalStages
    BY <1>12 DEF FinalFlag, FinalFails, FinalPoll
  <2>2. ASSUME Return("not-paid", 0) PROVE ForGoodInv'
    <3>1. \A f \in submitted : Dead(f)'
      <4>1. outcome' = "not-paid" /\ submitted' = submitted
        BY <1>1, <2>2 DEF Return, CallKept
      <4> QED
        BY <4>1 DEF PaidInv, NotPaidIsFinal
    <3>2. submitted \subseteq held
      BY DEF ForGoodInv, PaidInv, TypeOK
    <3>3. \A f \in held : Dead(f)
      BY <1>2, <1>3, <3>1, <3>2, DeadKept DEF ForGoodInv, HeldKept
    <3> QED
      BY <1>2, <2>2, <3>3, ForGoodReturn
  <2> QED
    BY <1>6, <1>7, <1>12, <2>1, <2>2 DEF FinalFlag, FinalFails, FinalPoll
<1> QED
  BY <1>8, <1>9, <1>10, <1>11, <1>12

\* resume(): the payment was made, by this action or another.
LEMMA ForGoodResume ==
  ASSUME ForGoodInv, PaidInv', PrecheckResume \/ EvidenceResume \/ FinalResume
  PROVE  ForGoodInv'
<1> USE DEF LaterStages, QuoteStages, EvidenceStages, AwaitStages, FinalStages
<1>1. CallKept /\ pc \in {"resume", "evidenceResume", "finalResume"} /\ UNCHANGED calls
  BY DEF PrecheckResume, EvidenceResume, FinalResume, Resume, Go, GiveUp, Return, appVars
<1>2. HeldKept /\ paid # Nobody
  BY <1>1, ForGoodKept DEF ForGoodInv, PaidInv, StageOK
<1>3. held \subseteq Executions
  <2>1. held \subseteq 1..issued /\ issued \in 0..MaxQuotes
    BY DEF ForGoodInv, PaidInv, TypeOK
  <2> QED
    BY <2>1, PaidAssumption DEF Executions
<1>4. ASSUME NEW how, NEW e, Return(how, e), how # "not-paid" PROVE ForGoodInv'
  BY <1>2, <1>4, ForGoodReturn
<1>5. ASSUME ~SameAction, Return("not-paid", 0) PROVE ForGoodInv'
  <2>1. \A f \in held : Dead(f)
    BY <1>2, <1>3, <1>5 DEF SameAction, Dead, CanSettle
  <2> QED
    BY <1>2, <1>5, <2>1, ForGoodReturn
<1>6. ASSUME pc # "resume" PROVE quote \in submitted /\ \A e \in held \ submitted : Dead(e)
  BY <1>1, <1>6 DEF ForGoodInv, OthersDead, SubmitsOnce
<1>7. ASSUME pc # "resume", GiveUp PROVE ForGoodInv'
  BY <1>1, <1>2, <1>6, <1>7, ForGoodGiveUp
<1>8. ASSUME pc # "resume", Go("finalPoll") PROVE ForGoodInv'
  <2>1. pc' = "finalPoll" /\ outcome' = outcome /\ quote' = quote
    BY <1>8 DEF Go, appVars
  <2> QED
    BY <1>1, <1>2, <1>6, <1>8, <2>1, ForGoodGo
<1> QED
  BY <1>4, <1>5, <1>7, <1>8 DEF PrecheckResume, EvidenceResume, FinalResume, Resume

\* A quote request: with one exit per call, only a call that submitted nothing
\* gets a quote.
LEMMA ForGoodQuotes ==
  ASSUME Steady, ForGoodInv, PaidInv', QuoteRefused \/ QuoteIssued
  PROVE  ForGoodInv'
<1> USE DEF LaterStages, QuoteStages, EvidenceStages, AwaitStages, FinalStages
<1>1. /\ pc = "quote" /\ contacted < 1 /\ contacted \in Nat /\ issued \in Nat
      /\ held \subseteq 1..issued /\ block <= time
  BY PaidAssumption DEF QuoteRefused, QuoteIssued, Steady, ForGoodInv, PaidInv, TypeOK, StageOK
<1>2. submitted = {} /\ \A e \in held : Dead(e)
  BY <1>1 DEF ForGoodInv, SubmitsOnce, OthersDead
<1>3. /\ UNCHANGED <<chainVars, submitted, rejected, block, held, calls>>
      /\ contacted' > 0
  BY <1>1 DEF QuoteRefused, QuoteIssued, Go, GiveUp, Return, appVars, quoteVars
<1>4. issued <= issued' /\ \A e \in 1..issued : validUntil'[e] = validUntil[e]
  <2>1. CASE QuoteRefused
    BY <1>1, <2>1 DEF QuoteRefused, quoteVars
  <2>2. CASE QuoteIssued
    <3>1. PICK until : validUntil' = [validUntil EXCEPT ![issued + 1] = until]
      BY <2>2 DEF QuoteIssued
    <3>2. \A e \in 1..issued : e # issued + 1 /\ e \in Executions
      BY <1>1, PaidAssumption DEF ForGoodInv, PaidInv, TypeOK, Executions
    <3>3. validUntil \in [Executions -> Nat] /\ issued' = issued + 1
      BY <2>2 DEF ForGoodInv, PaidInv, TypeOK, QuoteIssued
    <3> QED
      BY <1>1, <3>1, <3>2, <3>3
  <2> QED
    BY <2>1, <2>2
<1>5. HeldKept
  BY <1>1, <1>3, <1>4 DEF HeldKept, Kept, chainVars
<1>6. ASSUME GiveUp PROVE ForGoodInv'
  BY <1>1, <1>2, <1>5, <1>6, ForGoodGiveUp
<1>7. ASSUME pc' \in {"quote", "prepare"}, UNCHANGED appVars PROVE ForGoodInv'
  BY <1>1, <1>2, <1>3, <1>5, <1>7, ForGoodGo DEF appVars
<1> QED
  BY <1>6, <1>7 DEF QuoteRefused, QuoteIssued, Go

\* The submission, and its reply.
LEMMA ForGoodSubmits ==
  ASSUME ForGoodInv, PaidInv', Submit \/ Reply
  PROVE  ForGoodInv'
<1> USE DEF LaterStages, QuoteStages, EvidenceStages, AwaitStages, FinalStages
<1>1. /\ pc \in {"submit", "reply"} /\ submitted = {} /\ contacted > 0 /\ calls > 0
      /\ outcome = "none" /\ block <= time /\ issued \in Nat
  BY PaidAssumption DEF Submit, Reply, ForGoodInv, SubmitsOnce, PaidInv, StageOK, TypeOK
<1>2. UNCHANGED <<chainVars, issued, validUntil, block, contacted>>
  BY DEF Submit, Reply, quoteVars
<1>3. \A e : Dead(e)' <=> Dead(e)
  BY <1>2 DEF Dead, CanSettle, chainVars
<1>4. IdsTogether'
  BY <1>2 DEF ForGoodInv, IdsTogether, chainVars, Executions
<1>5. CASE Submit
  <2>1. \A e \in held : Dead(e)
    BY <1>1, <1>5 DEF Submit, ForGoodInv, OthersDead
  <2>2. CASE GiveUp /\ UNCHANGED held
    <3>1. HeldKept
      BY <1>1, <1>2, <1>5, <2>2 DEF HeldKept, Kept, Submit, GiveUp, Return
    <3> QED
      BY <1>1, <2>1, <2>2, <3>1, ForGoodGiveUp
  <2>3. CASE Go("reply") /\ held' = held \cup {quote}
    <3>1. /\ pc' = "reply" /\ quote' = quote /\ outcome' = "none" /\ calls' = calls
          /\ submitted' = {} /\ contacted' > 0
      BY <1>1, <1>2, <1>5, <2>3 DEF Go, appVars, Submit
    <3>2. SubmitsOnce'
      BY <1>1, <3>1 DEF SubmitsOnce
    <3>3. OthersDead' /\ NotPaidForGood'
      BY <1>3, <2>1, <2>3, <3>1 DEF OthersDead, NotPaidForGood
    <3> QED
      BY <1>4, <3>2, <3>3 DEF ForGoodInv
  <2> QED
    BY <1>5, <2>2, <2>3 DEF Submit
<1>6. CASE Reply
  <2>1. /\ pc' \in {"evidence", "await"} /\ quote' = quote /\ outcome' = "none" /\ calls' = calls
        /\ submitted' = {quote} /\ held' = held
    BY <1>1, <1>6 DEF Reply, Go, appVars, NoteSubmitted, quoteVars
  <2>2. \A e \in held \ {quote} : Dead(e)
    BY <1>6 DEF Reply, ForGoodInv, OthersDead
  <2>3. SubmitsOnce'
    BY <1>1, <1>2, <2>1 DEF SubmitsOnce
  <2>4. OthersDead' /\ NotPaidForGood'
    BY <1>3, <2>1, <2>2 DEF OthersDead, NotPaidForGood
  <2> QED
    BY <1>4, <2>3, <2>4 DEF ForGoodInv
<1> QED
  BY <1>5, <1>6

\* The deadline, and a stuttering step.
LEMMA ForGoodDeadline ==
  ASSUME ForGoodInv, PaidInv', Deadline \/ UNCHANGED vars
  PROVE  ForGoodInv'
<1>1. UNCHANGED <<chainVars, quoteVars, appVars, pc, contacted, quote, submitted, block>>
  BY DEF Deadline, vars, callVars
<1>2. \A e : Dead(e)' <=> Dead(e)
  BY <1>1 DEF Dead, CanSettle, chainVars, quoteVars
<1>3. IdsTogether' /\ SubmitsOnce'
  BY <1>1 DEF ForGoodInv, IdsTogether, SubmitsOnce, chainVars, quoteVars, appVars, Executions
<1>4. OthersDead' /\ NotPaidForGood'
  BY <1>1, <1>2 DEF ForGoodInv, OthersDead, NotPaidForGood, chainVars, quoteVars, appVars, Nobody
<1> QED
  BY <1>3, <1>4 DEF ForGoodInv

\* A new call takes over what the last one left pending.
LEMMA ForGoodStart ==
  ASSUME ForGoodInv, PaidInv', Start
  PROVE  ForGoodInv'
<1> USE DEF LaterStages, QuoteStages, EvidenceStages, AwaitStages, FinalStages
<1>1. /\ UNCHANGED <<chainVars, quoteVars, pending>> /\ submitted' = {} /\ contacted' = 0
      /\ pc = "idle" /\ calls' = calls + 1 /\ calls \in Nat
  BY DEF Start, ForGoodInv, PaidInv, TypeOK
<1>2. \A e : Dead(e)' <=> Dead(e)
  BY <1>1 DEF Dead, CanSettle, chainVars, quoteVars
<1>3. \/ pc' = "precheck" /\ outcome' = "none"
      \/ calls = 0 /\ pc' = "idle" /\ outcome' = "not-paid"
  BY DEF Start
<1>4. IdsTogether' /\ SubmitsOnce'
  BY <1>1, <1>3 DEF ForGoodInv, IdsTogether, SubmitsOnce, chainVars, quoteVars, Executions
<1>5. OthersDead'
  BY <1>1, <1>2, <1>3 DEF ForGoodInv, OthersDead, chainVars, quoteVars, Nobody
<1>6. NotPaidForGood'
  BY <1>1, <1>3 DEF ForGoodInv, SubmitsOnce, NotPaidForGood, quoteVars
<1> QED
  BY <1>4, <1>5, <1>6 DEF ForGoodInv

\* A block makes no dead quote live.
LEMMA ForGoodBlock ==
  ASSUME ForGoodInv, PaidInv', NewBlock
  PROVE  ForGoodInv'
<1> USE DEF quoteVars, appVars, callVars
<1>1. /\ held \subseteq Executions /\ time \in Nat /\ time' = time + 1
      /\ \A e \in held : validUntil[e] \in Nat
  <2>1. held \subseteq 1..issued /\ issued \in 0..MaxQuotes
    BY DEF ForGoodInv, PaidInv, TypeOK
  <2>2. held \subseteq Executions
    BY <2>1, PaidAssumption DEF Executions
  <2> QED
    BY <2>2 DEF ForGoodInv, PaidInv, TypeOK, NewBlock
<1>2. UNCHANGED <<validUntil, held, calls, pending, outcome, pc, contacted, quote, submitted, block>>
  BY DEF NewBlock
<1>3. \/ UNCHANGED <<paid, intent, paidAt, intentAt>>
      \/ /\ paid = Nobody /\ intent = Nobody
         /\ paid' \in held /\ intent' = paid' /\ paidAt' = time + 1 /\ intentAt' = time + 1
         /\ time + 1 <= validUntil[paid']
      \/ paid = Nobody /\ paid' = Other /\ paidAt' = time + 1 /\ UNCHANGED <<intent, intentAt>>
      \/ /\ intent = Nobody /\ intent' = Other /\ intentAt' = time + 1
         /\ UNCHANGED <<paid, paidAt>>
  BY DEF NewBlock, CanSettle
<1>4. Other \notin Executions /\ Nobody \notin Executions /\ Other # Nobody
  BY PaidAssumption DEF Other, Executions, Nobody
<1>5. ASSUME NEW e \in held, Dead(e) PROVE Dead(e)'
  <2>1. e \in Executions /\ validUntil[e] \in Nat
    BY <1>1
  <2>2. paid' # e
    BY <1>3, <1>4, <1>5, <2>1 DEF Dead, CanSettle
  <2>3. CASE paid # Nobody \/ intent # Nobody
    <3>1. paid' # Nobody \/ intent' # Nobody
      BY <1>1, <1>3, <1>4, <2>3
    <3> QED
      BY <2>2, <3>1 DEF Dead, CanSettle, Nobody
  <2>4. CASE ~(time + 1 <= validUntil[e])
    BY <1>1, <1>2, <2>1, <2>2, <2>4 DEF Dead, CanSettle
  <2> QED
    BY <1>5, <2>3, <2>4 DEF Dead, CanSettle
<1>6. paid # Nobody => paid' = paid /\ paidAt' = paidAt
  BY <1>3
<1>7. IdsTogether'
  <2>1. paid \in Executions => intentAt = paidAt /\ intent = paid
    BY DEF ForGoodInv, IdsTogether, PaidInv, SettledInTime
  <2>2. paid' \in Executions => intentAt' = paidAt'
    BY <1>3, <1>4, <2>1
  <2> QED
    BY <2>2 DEF IdsTogether, Executions
<1>8. SubmitsOnce'
  BY <1>2 DEF ForGoodInv, SubmitsOnce
<1>9. OthersDead' /\ NotPaidForGood'
  <2>1. submitted \subseteq held
    BY DEF ForGoodInv, PaidInv, TypeOK
  <2> QED
    BY <1>2, <1>5, <1>6, <2>1 DEF ForGoodInv, OthersDead, NotPaidForGood, Nobody
<1> QED
  BY <1>7, <1>8, <1>9 DEF ForGoodInv

\* With one exit per call, flags read at the block asked for, prechecks whose
\* reads succeed and no restart, a not-paid result is final for the action: no
\* quote of this or an earlier call has settled or ever will.
THEOREM NotPaidIsForGood ==
  ASSUME Steady
  PROVE  Spec => []NotPaidForGood
<1>1. Init => ForGoodInv
  <2>1. Init => IdsTogether /\ SubmitsOnce /\ OthersDead /\ NotPaidForGood
    BY DEF Init, IdsTogether, SubmitsOnce, OthersDead, NotPaidForGood, LaterStages, QuoteStages,
       EvidenceStages, AwaitStages, FinalStages
  <2> QED
    BY <2>1, InitPaidInv DEF ForGoodInv
<1>2. ForGoodInv /\ PaidInv' /\ [Next]_vars => ForGoodInv'
  <2> SUFFICES ASSUME ForGoodInv, PaidInv', [Next]_vars PROVE ForGoodInv'
    OBVIOUS
  <2>1. ~PrecheckFails /\ ~Crash
    BY DEF Steady, PrecheckFails, Crash
  <2> QED
    BY <2>1, ForGoodBlocks, ForGoodPrecheck, ForGoodWaits, ForGoodResume, ForGoodQuotes,
       ForGoodSubmits, ForGoodDeadline, ForGoodStart, ForGoodBlock
    DEF Next, CallStep
<1>3. ForGoodInv => NotPaidForGood
  BY DEF ForGoodInv
<1> QED
  BY <1>1, <1>2, <1>3, PaidInvariant, PTL DEF Spec

=============================================================================
