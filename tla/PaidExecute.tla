---------------------------- MODULE PaidExecute -----------------------------
(***************************************************************************)
(* executePaid (paid_execute.ts): one action paid through an exit, by an    *)
(* application that calls it again after an unknown or not-paid result,    *)
(* with the EntryPoint contract and the exits, which are external.         *)
(*                                                                         *)
(* A quote is an execution, numbered in the order of issue.  One block has *)
(* one timestamp, so a block and its time are the same number.  The fee,   *)
(* the gas plan, the calldata and the local clock only decide whether the  *)
(* code gives up at a point; that is left open.  A step ends at an await   *)
(* after which what the chain did meanwhile matters.                       *)
(***************************************************************************)
EXTENDS Naturals, FiniteSets

CONSTANTS
  Exits,
  MaxExits,            \* settings.maxExits
  Ttl,                 \* longest validity an exit gives a quote
  LatestOnly,          \* the reader answers flags at its latest block (mixnet)
  PrecheckReadsFail,   \* the chain reads of the precheck may fail
  MayCrash,            \* the application may be restarted
  MaxQuotes, MaxCalls, MaxTime    \* bounds: quotes, calls, blocks

ASSUME PaidAssumption ==
  /\ MaxExits \in Nat \ {0} /\ Ttl \in Nat
  /\ LatestOnly \in BOOLEAN /\ PrecheckReadsFail \in BOOLEAN /\ MayCrash \in BOOLEAN
  /\ MaxQuotes \in Nat /\ MaxCalls \in Nat /\ MaxTime \in Nat

Executions == 1..MaxQuotes
Nobody == 0
Other == MaxQuotes + 1       \* an execution of another action or payment

Stages == {"idle", "precheck", "flags", "resume",
           "quote", "prepare", "submit", "reply",
           "evidence", "evidenceFlag", "evidenceResume",
           "await", "awaitFlag", "awaitPoll",
           "final", "finalFlag", "finalPoll", "finalResume"}

VARIABLES
  time, paid, paidAt, intent, intentAt,   \* the chain and who consumed the ids
  issued, validUntil, held,               \* quotes, and those an exit can broadcast
  calls, pending, outcome, reported,      \* the application and its last result
  pc, dryRun, contacted, used, quote, submitted, block, late,   \* the call
  rejected                                \* history: quotes whose submission was rejected

chainVars == <<time, paid, paidAt, intent, intentAt>>
quoteVars == <<issued, validUntil, held>>
appVars == <<calls, pending, outcome, reported>>
callVars == <<dryRun, contacted, used, quote, submitted, block, late, rejected>>
vars == <<chainVars, quoteVars, appVars, pc, callVars>>

Init ==
  /\ time = 0 /\ paid = Nobody /\ paidAt = 0 /\ intent = Nobody /\ intentAt = 0
  /\ issued = 0 /\ validUntil = [e \in Executions |-> 0] /\ held = {}
  /\ calls = 0 /\ pending = 0 /\ outcome = "none" /\ reported = 0
  /\ pc = "idle" /\ dryRun = FALSE /\ contacted = 0 /\ used = {} /\ quote = 0
  /\ submitted = {} /\ block = 0 /\ late = FALSE
  /\ rejected = {}

-----------------------------------------------------------------------------
(* The chain: NoxEntryPoint settles an execution once per payment id and    *)
(* once per intent id, up to the validity of its quote.                    *)

CanSettle(e) == paid = Nobody /\ intent = Nobody /\ time + 1 <= validUntil[e]

NewBlock ==
  /\ time < MaxTime /\ time' = time + 1
  /\ \/ UNCHANGED <<paid, paidAt, intent, intentAt>>
     \/ \E e \in held : /\ CanSettle(e)
                        /\ paid' = e /\ paidAt' = time + 1
                        /\ intent' = e /\ intentAt' = time + 1
     \/ /\ paid = Nobody /\ paid' = Other /\ paidAt' = time + 1
        /\ UNCHANGED <<intent, intentAt>>
     \/ /\ intent = Nobody /\ intent' = Other /\ intentAt' = time + 1
        /\ UNCHANGED <<paid, paidAt>>
  /\ UNCHANGED <<quoteVars, appVars, pc, callVars>>

-----------------------------------------------------------------------------
(* Ways to end                                                             *)

\* The call resolves; the application keeps an unknown execution as pending.
Return(how, e) ==
  /\ pc' = "idle" /\ outcome' = how /\ reported' = e
  /\ pending' = IF how = "unknown" THEN e ELSE 0
  /\ UNCHANGED <<calls, quote, late>>

Go(stage) == pc' = stage /\ UNCHANGED <<appVars, quote, late>>

\* mutant: the quote submitted last is taken
NewestSubmitted(e) == \A f \in submitted : f <= e

\* the submitted quote with the latest validUntilUnix, the first of equals
LatestSubmitted(e) ==
  \A f \in submitted : validUntil[f] < validUntil[e] \/ (validUntil[f] = validUntil[e] /\ e <= f)

\* attemptPaid() returns not-paid: executePaid() returns it if nothing was
\* submitted and else waits for the evidence of the quote that lives longest
GiveUp ==
  \/ submitted = {} /\ Return("not-paid", 0)
  \/ \E e \in submitted : /\ LatestSubmitted(e)
                          /\ pc' = "final" /\ quote' = e /\ late' = FALSE
                          /\ UNCHANGED appVars

-----------------------------------------------------------------------------
(* Reads                                                                   *)

\* readFlag at `block`, or at the block that is the latest when it is served
FlagBlocks == IF LatestOnly THEN block..time ELSE {block}
PaymentConsumed(b) == paid # Nobody /\ paidAt <= b
IntentConsumed(b) == intent # Nobody /\ intentAt <= b
ExecutionConsumed(e, b) == paid = e /\ paidAt <= b

\* reader.blockNumber()
ReadBlock(from, to) ==
  /\ pc = from
  /\ block' = time
  /\ Go(to)
  /\ UNCHANGED <<chainVars, quoteVars, dryRun, contacted, used, submitted, rejected>>

CallKept == UNCHANGED <<chainVars, quoteVars, dryRun, contacted, used, submitted, block,
                        rejected>>

-----------------------------------------------------------------------------
(* Step 1: the precheck                                                    *)

\* checkAction depends on the action and the payment only, so it refuses the
\* first call or none.
Start ==
  /\ pc = "idle" /\ calls < MaxCalls /\ outcome # "paid"
  /\ calls' = calls + 1
  /\ dryRun' \in BOOLEAN
  /\ contacted' = 0 /\ used' = {} /\ quote' = 0 /\ submitted' = {} /\ block' = 0
  /\ late' = FALSE /\ rejected' = {}
  /\ reported' = 0 /\ UNCHANGED pending
  /\ \/ pc' = "precheck" /\ outcome' = "none"
     \/ calls = 0 /\ pc' = "idle" /\ outcome' = "not-paid"
  /\ UNCHANGED <<chainVars, quoteVars>>

PrecheckBlock == ReadBlock("precheck", "flags")

\* CHAIN_READ_FAILED
PrecheckFails ==
  /\ pc \in {"precheck", "flags"} /\ PrecheckReadsFail
  /\ GiveUp
  /\ CallKept

\* mutant: an execution left unknown is not looked at
NothingPending == FALSE

\* the execution of an earlier unknown result can still settle
PendingMaySettle == pending # 0 /\ block <= validUntil[pending]

\* The two flags are separate reads of one Promise.all.
PrecheckFlags ==
  /\ pc = "flags"
  /\ \E b, d \in FlagBlocks :
       \/ PaymentConsumed(b) /\ IntentConsumed(d) /\ Go("resume")
       \/ PaymentConsumed(b) # IntentConsumed(d) /\ GiveUp
       \/ /\ ~PaymentConsumed(b) /\ ~IntentConsumed(d)
          /\ IF PendingMaySettle THEN Return("unknown", pending)
             ELSE Go("quote") \/ GiveUp      \* gas estimate, data fee, gas plan
  /\ CallKept

-----------------------------------------------------------------------------
(* resume(): the settlement that consumed the payment id                   *)

\* mutant: the settled calldata is not compared with this action
AnyAction == TRUE
SameAction == paid \in Executions

\* Its log is found and names this action, or another; or the log is out of the
\* lookback or unreadable; or a read fails.
Resume(from, notFound) ==
  /\ pc = from
  /\ \/ SameAction /\ Return("paid", paid)
     \/ ~SameAction /\ (IF from = "evidenceResume" THEN GiveUp ELSE Return("not-paid", 0))
     \/ Return("unknown", 0)
     \/ notFound
  /\ CallKept

PrecheckResume == Resume("resume", FALSE)

-----------------------------------------------------------------------------
(* Steps 2 to 4: a quote, the payment proof, the simulation                *)

\* A quote request to exit x, resent by the client to another exit when x does
\* not answer in time.  No quote: a rejection or an unusable reply counts one
\* exit, a timeout two.
QuoteRefused ==
  /\ pc = "quote" /\ contacted < MaxExits
  /\ \E x \in Exits \ used : used' = used \cup {x}
  /\ \E count \in {1, 2} : contacted' = contacted + count
  /\ Go("quote")
  /\ UNCHANGED <<chainVars, quoteVars, dryRun, submitted, block, rejected>>

\* A quote was issued by the exit asked or by the other one; a fee above the
\* ceiling, a quote not active or too little headroom ends the call.
QuoteIssued ==
  /\ pc = "quote" /\ contacted < MaxExits
  /\ issued < MaxQuotes
  /\ issued' = issued + 1
  /\ \E until \in time..(time + Ttl) : validUntil' = [validUntil EXCEPT ![issued + 1] = until]
  /\ \E x \in Exits \ used : \E y \in Exits :
       /\ used' = used \cup {x, y}
       /\ contacted' = contacted + IF x = y THEN 1 ELSE 2
  /\ \/ GiveUp
     \/ pc' = "prepare" /\ quote' = issued + 1 /\ UNCHANGED <<appVars, late>>
  /\ UNCHANGED <<chainVars, held, dryRun, submitted, block, rejected>>

\* The limit of exits is reached, no exit is left, or the request failed for
\* another reason.
NoQuote ==
  /\ pc = "quote"
  /\ GiveUp
  /\ CallKept

\* buildPaymentData, the simulation (which fails on a chain that would revert
\* the execution), the gas and headroom checks, and the end of a dry run.
Prepare ==
  /\ pc = "prepare"
  /\ \/ GiveUp
     \/ /\ paid = Nobody /\ intent = Nobody /\ time <= validUntil[quote]
        /\ IF dryRun THEN Return("dry-run", 0) ELSE Go("submit")
  /\ CallKept

-----------------------------------------------------------------------------
(* Step 5: the submission                                                  *)

\* From here on the exit can broadcast the calldata.
Submit ==
  /\ pc = "submit"
  /\ \/ GiveUp /\ UNCHANGED held          \* refused locally, no packet sent
     \/ Go("reply") /\ held' = held \cup {quote}
  /\ UNCHANGED <<chainVars, issued, validUntil, dryRun, contacted, used, submitted, block,
                 rejected>>

NoteSubmitted == submitted' = submitted \cup {quote}

\* A rejection that rules a broadcast out is checked against the chain; with any
\* other reply, or none, the chain decides.
Reply ==
  /\ pc = "reply"
  /\ NoteSubmitted
  /\ \/ Go("evidence") /\ rejected' = rejected \cup {quote}
     \/ pc' = "await" /\ late' = FALSE /\ UNCHANGED <<appVars, quote, rejected>>
  /\ UNCHANGED <<chainVars, quoteVars, dryRun, contacted, used, block>>

\* paymentEvidence() without wait
EvidenceBlock == ReadBlock("evidence", "evidenceFlag")
EvidenceFlag ==
  /\ pc = "evidenceFlag"
  /\ \E b \in FlagBlocks : IF PaymentConsumed(b) THEN Go("evidenceResume") ELSE Go("quote")
  /\ CallKept
EvidenceFails ==
  /\ pc \in {"evidence", "evidenceFlag"}
  /\ Return("unknown", quote)
  /\ CallKept
EvidenceResume == Resume("evidenceResume", Return("unknown", quote))

-----------------------------------------------------------------------------
(* Step 6: awaitSettlement()                                               *)

\* mutant: the timestamp decides, whatever the flag says
ExpiredByTime(e, b) == block > validUntil[e]
\* the execution was unconsumed in a block after its quote expired
ExpiredUnsettled(e, b) == ~ExecutionConsumed(e, b) /\ block > validUntil[e]

AwaitBlock == ReadBlock("await", "awaitFlag")
AwaitFlag ==
  /\ pc = "awaitFlag"
  /\ \E b \in FlagBlocks :
       \/ ExpiredUnsettled(quote, b) /\ Go("quote")
       \/ /\ ExecutionConsumed(quote, b)
          /\ Return("paid", quote) \/ Return("unknown", quote)     \* its log, or a mismatch
       \/ ~ExpiredUnsettled(quote, b) /\ Go("awaitPoll")
  /\ CallKept
AwaitFails == pc \in {"await", "awaitFlag"} /\ Go("awaitPoll") /\ CallKept
\* mutant: the deadline is not looked at
AwaitPollForever ==
  /\ pc = "awaitPoll"
  /\ Go("await")
  /\ CallKept
AwaitPoll ==
  /\ pc = "awaitPoll"
  /\ IF late THEN Return("unknown", quote) ELSE Go("await")
  /\ CallKept

-----------------------------------------------------------------------------
(* paymentEvidence() with wait, before a not-paid result                   *)

FinalBlock == ReadBlock("final", "finalFlag")
FinalFlag ==
  /\ pc = "finalFlag"
  /\ \E b \in FlagBlocks :
       IF PaymentConsumed(b) THEN Go("finalResume")
       ELSE IF block > validUntil[quote] THEN Return("not-paid", 0) ELSE Go("finalPoll")
  /\ CallKept
FinalFails == pc \in {"final", "finalFlag"} /\ Go("finalPoll") /\ CallKept
FinalPoll ==
  /\ pc = "finalPoll"
  /\ IF late THEN Return("unknown", quote) ELSE Go("final")
  /\ CallKept
FinalResume == Resume("finalResume", Go("finalPoll"))

\* deadlineMs passes
Deadline ==
  /\ pc \in {"await", "awaitFlag", "awaitPoll", "final", "finalFlag", "finalPoll", "finalResume"}
  /\ ~late /\ late' = TRUE
  /\ UNCHANGED <<chainVars, quoteVars, appVars, pc, dryRun, contacted, used, quote, submitted,
                 block, rejected>>

\* The application is restarted; of the running call nothing is left.
Crash ==
  /\ MayCrash /\ pc # "idle"
  /\ pc' = "idle" /\ outcome' = "crashed" /\ UNCHANGED <<calls, pending, reported, quote, late>>
  /\ CallKept

-----------------------------------------------------------------------------
CallStep ==
  \/ PrecheckBlock \/ PrecheckFails \/ PrecheckFlags \/ PrecheckResume
  \/ QuoteRefused \/ QuoteIssued \/ NoQuote \/ Prepare \/ Submit \/ Reply
  \/ EvidenceBlock \/ EvidenceFlag \/ EvidenceFails \/ EvidenceResume
  \/ AwaitBlock \/ AwaitFlag \/ AwaitFails \/ AwaitPoll
  \/ FinalBlock \/ FinalFlag \/ FinalFails \/ FinalPoll \/ FinalResume

Next == NewBlock \/ Start \/ CallStep \/ Deadline \/ Crash

Spec == Init /\ [][Next]_vars

\* The call goes on (every await ends: reads and sends have timeouts) and the
\* deadline passes.  The chain owes no block.
FairSpec == Spec /\ WF_vars(CallStep) /\ WF_vars(Deadline)

-----------------------------------------------------------------------------
(* Properties                                                              *)

\* The type of every variable.
TypeOK ==
  /\ time \in Nat /\ paid \in 0..Other /\ paidAt \in Nat
  /\ intent \in 0..Other /\ intentAt \in Nat
  /\ issued \in 0..MaxQuotes /\ validUntil \in [Executions -> Nat] /\ held \subseteq 1..issued
  /\ calls \in Nat /\ pending \in 0..issued
  /\ outcome \in {"none", "not-paid", "unknown", "paid", "dry-run", "crashed"}
  /\ reported \in 0..issued
  /\ pc \in Stages /\ dryRun \in BOOLEAN /\ contacted \in Nat /\ used \subseteq Exits
  /\ quote \in 0..issued /\ submitted \subseteq held /\ block \in Nat /\ late \in BOOLEAN
  /\ rejected \subseteq submitted

\* The payment was not made by e and never will be.
Dead(e) == paid # e /\ ~CanSettle(e)

\* "not-paid is returned only after every submitted quote has expired unconsumed
\* on chain": none of the quotes the call submitted has settled or can settle.
NotPaidIsFinal == outcome = "not-paid" => \A e \in submitted : Dead(e)

\* The same for every quote submitted by this and the earlier calls for the
\* action, whose unknown results were passed back as pending.
NotPaidForGood == outcome = "not-paid" => \A e \in held : Dead(e)

\* "settled and paid-action-failed are returned from the PaidExecutionSettled
\* log alone": a reported settlement is this action's, and the reported one.
PaidIsReal == outcome = "paid" => paid = reported /\ intent = reported /\ reported \in held

\* "After a submission with no usable reply the helper ... tries a second exit
\* only once the first quote has expired unsettled."
SecondExitWaits ==
  pc \in {"quote", "prepare", "submit"} =>
    \A e \in submitted \ rejected : paid # e /\ time > validUntil[e]

\* Every call resolves, however the chain and the exits behave.
Resolves == (pc # "idle") ~> (pc = "idle")
=============================================================================
