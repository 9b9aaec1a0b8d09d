-------------------------- MODULE FragmentedReply --------------------------
(***************************************************************************)
(* One reply that comes in fragments, each on a reply block (SURB) of the  *)
(* request: the reassembler (fragmentation.ts), the block registry         *)
(* (surb_pool.ts), NeedMoreSurbs and the bursts that send fresh blocks     *)
(* (replenishment.ts), and the stall timer, as NoxClient drives them.      *)
(*                                                                         *)
(* The exit and the mixnet are external: replies arrive late, in any order *)
(* or not at all.  The blocks of a request are interchangeable and only    *)
(* counted; fragments have one size in the buffers.                        *)
(***************************************************************************)
EXTENDS Integers, Sequences, FiniteSets, SequencesExt, FiniteSetsExt

CONSTANTS
  Answers,           \* what the exit may answer with: sequences of fragments
  Data(_),           \* the bytes of a message
  Decode(_, _, _),   \* decodeShards(shards, data shards, length)
  Limits,            \* values of maxResponseBytes
  MaxFragments,      \* MAX_FRAGMENTS_PER_MESSAGE
  MaxMessages,       \* maxConcurrentMessages
  MaxBytes,          \* maxBufferBytes, in fragments
  FirstBlocks,       \* blocks sent with the request
  PacketBlocks,      \* SURBS_PER_PACKET
  MaxPackets,        \* MAX_PACKETS_PER_BURST
  BatchSize,         \* BATCH_SIZE
  MaxRounds,         \* MAX_BURST_ROUNDS
  MaxLost,           \* bound: replies and packets the mixnet loses
  MaxFailed          \* bound: uploads that fail

ASSUME FragmentedReplyAssumption ==
  /\ MaxFragments \in Nat /\ MaxMessages \in Nat \ {0} /\ MaxBytes \in Nat \ {0}
  /\ FirstBlocks \in Nat \ {0} /\ PacketBlocks \in Nat \ {0, 1} /\ MaxPackets \in Nat \ {0}
  /\ BatchSize \in Nat \ {0} /\ MaxRounds \in Nat \ {0} /\ MaxLost \in Nat /\ MaxFailed \in Nat

VARIABLES
  request,           \* "pending", "resolved", "failed"
  answer,            \* what resolve() was called with
  limit,             \* maxResponseBytes
  path,              \* the forward path is stashed
  registry,          \* reply blocks registered for the request
  cleaned,           \* surbPool.cleanup() has run since the request settled
  buffers, buffered, \* the reassembler's buffers by message, and totalBufferedBytes
  burst,             \* the request's burstState
  uploads,           \* per burst: the packets it still has to send
  reply, sent, held, \* exit: its answer, the fragments sent, the blocks it has
  transit,           \* replies on their way
  losses, failures,  \* counts for the bounds
  mishap             \* something happened that no burst makes good

vars == <<request, answer, limit, path, registry, cleaned, buffers, buffered, burst, uploads, reply, sent,
          held, transit, losses, failures, mishap>>
clientVars == <<request, answer, path, registry, cleaned, buffers, buffered, burst, uploads>>

\* A fragment: fec 0 is none, else the number of data shards; len is the length
\* of the message (originalDataLen)
Bytes == 0..255
Fragment == [msg : STRING, total : Nat, seq : Nat, fec : Nat, len : Nat, data : Seq(Bytes)]

\* What an exit may answer with (external): any parts of messages, in any order and
\* any number of times.  The parts of one split of a message agree on its code and on
\* their bytes; all of them, or as many coded ones as there are data shards, give the
\* message back, which is what splitting it and Reed-Solomon coding mean.
SameSplit(f, g) == f.msg = g.msg /\ f.total = g.total
SeqsOf(r, f)    == {g.seq : g \in {h \in Range(r) : SameSplit(h, f)}}
Piece(r, f, k)  == (CHOOSE g \in Range(r) : SameSplit(g, f) /\ g.seq = k).data

HonestReply(r) ==
  /\ r \in Seq(Fragment) /\ \A f \in Range(r) : Data(f.msg) \in Seq(Bytes)
  /\ \A f, g \in Range(r) : SameSplit(f, g) =>
       /\ f.fec = g.fec /\ (f.fec # 0 => f.len = g.len)
       /\ f.seq = g.seq => f.data = g.data
  /\ \A f \in Range(r) :
       IF f.fec = 0
         THEN 0..(f.total - 1) \subseteq SeqsOf(r, f) =>
                FlattenSeq([i \in 1..f.total |-> Piece(r, f, i - 1)]) = Data(f.msg)
         ELSE \A came \in SUBSET (SeqsOf(r, f) \cap (0..(f.total - 1))) : Cardinality(came) >= f.fec =>
                Decode([k \in 0..(f.total - 1) |-> IF k \in came THEN Piece(r, f, k) ELSE <<>>],
                       f.fec, f.len) = Data(f.msg)

ASSUME AnswersAssumption == Limits \subseteq Nat /\ \A r \in Answers : HonestReply(r)

NoAnswer == <<>>
NoBurst == [round |-> 0, age |-> "none"]
Null == <<>>
Throws == <<-1>>

\* burst.age: "recent" (less than STALL_TIMEOUT_MS since it was sent), "active"
\* (longer, but a fragment came since), "stalled" (longer since either)
Init ==
  /\ request = "pending" /\ answer = NoAnswer /\ limit \in Limits
  /\ path = TRUE /\ registry = FirstBlocks /\ cleaned = FALSE
  /\ buffers = <<>> /\ buffered = 0 /\ burst = NoBurst /\ uploads = <<>>
  /\ reply \in Answers /\ sent = 0 /\ held = FirstBlocks /\ transit = {}
  /\ losses = 0 /\ failures = 0 /\ mishap = FALSE

-----------------------------------------------------------------------------
(* Reassembler *)

\* validateFragment()
Valid(f) == f.total <= MaxFragments /\ f.seq < f.total /\ f.fec <= f.total

SizeOf(bufs) == Cardinality(UNION {bufs[m].frags : m \in DOMAIN bufs})
Without(bufs, gone) == [m \in DOMAIN bufs \ gone |-> bufs[m]]

\* ensureCapacity(1): messages are evicted one by one, the least recently active
\* first, until the fragment fits or none is left.  Activity times are left open,
\* so that it may be any of them.
Fits(bufs) == (SizeOf(bufs) + 1 <= MaxBytes /\ Cardinality(DOMAIN bufs) < MaxMessages) \/ DOMAIN bufs = {}
Evictions ==
  IF Fits(buffers) THEN {{}}
  ELSE {gone \in SUBSET DOMAIN buffers \ {{}} :
          Fits(Without(buffers, gone)) /\ \E m \in gone : ~Fits(Without(buffers, gone \ {m}))}

Complete(b) == IF b.fec # 0 THEN Cardinality(b.frags) >= b.fec ELSE Cardinality(b.frags) = b.total

DataOf(b, seq) == LET f == {g \in b.frags : g.seq = seq} IN IF f = {} THEN Null ELSE (CHOOSE g \in f : TRUE).data

\* assemble()
Assembled(b) ==
  IF b.fec = 0 THEN FlattenSeq([i \in 1..b.total |-> DataOf(b, i - 1)])
  ELSE Decode([i \in 0..(b.total - 1) |-> DataOf(b, i)], b.fec, b.len)

\* addFragment() after the eviction of messages gone: the buffer it adds to, what
\* it makes of it, and what it returns
BufferFor(f, gone) ==
  IF f.msg \in DOMAIN buffers \ gone THEN buffers[f.msg]
  ELSE [frags |-> {}, total |-> f.total, fec |-> f.fec, len |-> f.len]
\* Contradicts() that does not compare the number of fragments
ContradictsInCode(f, b) == f.fec # 0 /\ b.fec # 0 /\ (f.fec # b.fec \/ f.len # b.len)

Contradicts(f, b) == f.total # b.total \/ (f.fec # 0 /\ b.fec # 0 /\ (f.fec # b.fec \/ f.len # b.len))
Extended(b, f) ==
  [b EXCEPT !.frags = @ \cup {f}, !.fec = IF @ = 0 THEN f.fec ELSE @, !.len = IF b.fec = 0 THEN f.len ELSE @]
\* Stored() that keeps counting the bytes of evicted messages
StoredUncounted(f, gone, b) ==
  LET left == Without(buffers, gone \cup {f.msg})
      with(c) == [m \in DOMAIN left \cup {f.msg} |-> IF m = f.msg THEN c ELSE left[m]]
  IN IF Contradicts(f, b) THEN [bufs |-> with(b), bytes |-> buffered, out |-> Throws]
     ELSE IF Complete(Extended(b, f))
     THEN [bufs |-> left, bytes |-> buffered - Cardinality(b.frags), out |-> Assembled(Extended(b, f))]
     ELSE [bufs |-> with(Extended(b, f)), bytes |-> buffered + 1, out |-> Null]

Stored(f, gone, b) ==
  LET left == Without(buffers, gone \cup {f.msg})
      with(c) == [m \in DOMAIN left \cup {f.msg} |-> IF m = f.msg THEN c ELSE left[m]]
      bytes == buffered - Cardinality(UNION {buffers[m].frags : m \in gone})
  IN IF Contradicts(f, b) THEN [bufs |-> with(b), bytes |-> bytes, out |-> Throws]
     ELSE IF Complete(Extended(b, f))
     THEN [bufs |-> left, bytes |-> bytes - Cardinality(b.frags), out |-> Assembled(Extended(b, f))]
     ELSE [bufs |-> with(Extended(b, f)), bytes |-> bytes + 1, out |-> Null]

\* The results addFragment() may have
AddFragment(f) ==
  LET same == IF f.msg \in DOMAIN buffers THEN {g \in buffers[f.msg].frags : g.seq = f.seq} ELSE {}
  IN IF ~Valid(f) \/ (\E g \in same : g.data # f.data) THEN {[bufs |-> buffers, bytes |-> buffered, out |-> Throws]}
     ELSE IF same # {} THEN {[bufs |-> buffers, bytes |-> buffered, out |-> Null]}
     ELSE {Stored(f, gone, BufferFor(f, gone)) : gone \in Evictions}

-----------------------------------------------------------------------------
(* The request *)

\* _failPending(), and the same steps on a timeout
FailPending ==
  /\ request' = "failed" /\ path' = FALSE /\ burst' = NoBurst /\ registry' = 0 /\ cleaned' = TRUE
  /\ UNCHANGED <<answer, uploads>>

\* _handleFragment()
DeclaredLength(f) == IF f.fec # 0 THEN f.len ELSE (f.total - 1) * Len(f.data)
TouchBurst == burst' = IF burst.age = "stalled" THEN [burst EXCEPT !.age = "active"] ELSE burst
HandleFragment(f) ==
  IF request # "pending"
  THEN UNCHANGED <<request, answer, path, cleaned, buffers, buffered, burst, uploads, mishap>> /\ registry' = registry - 1
  ELSE IF DeclaredLength(f) > limit
  THEN FailPending /\ UNCHANGED <<buffers, buffered, mishap>>
  ELSE \E added \in AddFragment(f) :
         /\ buffers' = added.bufs /\ buffered' = added.bytes
         /\ mishap' = (mishap \/ added.out = Throws \/ ~Fits(buffers))
         /\ IF added.out \in {Null, Throws}
            THEN /\ registry' = registry - 1 /\ TouchBurst
                 /\ UNCHANGED <<request, answer, path, cleaned, uploads>>
            ELSE IF Len(added.out) > limit
            THEN FailPending
            ELSE /\ request' = "resolved" /\ answer' = added.out /\ path' = FALSE /\ burst' = NoBurst
                 /\ registry' = registry - 1
                 /\ UNCHANGED <<cleaned, uploads>>

\* _handleNeedMoreSurbs() up to its first await: the blocks of all packets are
\* generated before the first is sent
Packets(remaining) ==
  LET needed == (remaining + PacketBlocks - 2) \div (PacketBlocks - 1)
  IN IF needed < MaxPackets THEN needed ELSE MaxPackets
\* StartBurst() that suppresses a round for as long as the last one is remembered
StartBurstOnce(remaining, blocks) ==
  IF ~path \/ burst # NoBurst
  THEN registry' = blocks /\ UNCHANGED <<burst, uploads>>
  ELSE /\ burst' = [round |-> burst.round + 1, age |-> "recent"]
       /\ uploads' = Append(uploads, Packets(remaining))
       /\ registry' = blocks + Packets(remaining) * PacketBlocks

StartBurst(remaining, blocks) ==
  IF ~path \/ burst.age = "recent" \/ burst.round >= MaxRounds
  THEN registry' = blocks /\ UNCHANGED <<burst, uploads>>
  ELSE /\ burst' = [round |-> burst.round + 1, age |-> "recent"]
       /\ uploads' = Append(uploads, Packets(remaining))
       /\ registry' = blocks + Packets(remaining) * PacketBlocks

\* _handleResponseItem(): a reply is matched to a registered block, which is gone
\* then; one that matches none is dropped
Deliver(item) ==
  /\ item \in transit
  /\ transit' = transit \ {item}
  /\ IF registry = 0 THEN UNCHANGED <<clientVars, mishap>>
     ELSE IF item.kind = "fragment" THEN HandleFragment(reply[item.n])
     ELSE /\ StartBurst(item.n, registry - 1)
          /\ UNCHANGED <<request, answer, path, cleaned, buffers, buffered, mishap>>
  /\ UNCHANGED <<limit, reply, sent, held, losses, failures>>

\* _checkBurstStalls(): totalProgress() of all buffers
Progress(bufs) == [received |-> SizeOf(bufs), total |-> MapThenSumSet(LAMBDA m : bufs[m].total, DOMAIN bufs)]
CheckBurstStalls ==
  /\ burst.age = "stalled" /\ burst.round < MaxRounds /\ request = "pending"
  /\ LET p == Progress(buffers)
     IN p.total > 0 /\ p.total > p.received /\ StartBurst(p.total - p.received, registry)
  /\ UNCHANGED <<request, answer, limit, path, cleaned, buffers, buffered, reply, sent, held, transit, losses,
                 failures, mishap>>

\* STALL_TIMEOUT_MS passes since the burst, then since the last fragment
StallTime ==
  /\ burst.age \in {"recent", "active"}
  /\ burst' = [burst EXCEPT !.age = IF @ = "recent" THEN "active" ELSE "stalled"]
  /\ UNCHANGED <<request, answer, limit, path, registry, cleaned, buffers, buffered, uploads, reply, sent, held,
                 transit, losses, failures, mishap>>

Ongoing(ups) == SelectSeq(ups, LAMBDA left : left > 0)
\* Blocks the exit has no fragment for change nothing and are not counted
Supply(blocks) == IF blocks <= Len(reply) - sent THEN blocks ELSE Len(reply) - sent

\* burstReplenish(): a batch is accepted by the entry; the mixnet may lose packets
UploadBatch(i, reach) ==
  /\ i \in DOMAIN uploads
  /\ LET n == IF uploads[i] < BatchSize THEN uploads[i] ELSE BatchSize
     IN /\ reach <= n /\ losses + n - reach <= MaxLost
        /\ uploads' = Ongoing([uploads EXCEPT ![i] = @ - n])
        /\ held' = Supply(held + reach * PacketBlocks)
        /\ losses' = losses + n - reach
        /\ mishap' = (mishap \/ reach < n)
  /\ UNCHANGED <<request, answer, limit, path, registry, cleaned, buffers, buffered, burst, reply, sent, transit,
                 failures>>

\* A post of the batch fails (others may have arrived): the burst ends, and the
\* catch of _handleNeedMoreSurbs() deletes the burst state whatever round it is of
UploadFails(i, reach) ==
  /\ i \in DOMAIN uploads /\ failures < MaxFailed
  /\ reach <= uploads[i] /\ reach <= BatchSize
  /\ uploads' = Ongoing([uploads EXCEPT ![i] = 0])
  /\ held' = Supply(held + reach * PacketBlocks)
  /\ burst' = NoBurst
  /\ failures' = failures + 1 /\ mishap' = TRUE
  /\ UNCHANGED <<request, answer, limit, path, registry, cleaned, buffers, buffered, reply, sent, transit, losses>>

\* Timeout, abort, failed upload of the request or disconnect
RequestFails ==
  /\ request = "pending"
  /\ FailPending
  /\ UNCHANGED <<limit, buffers, buffered, reply, sent, held, transit, losses, failures, mishap>>

\* The clean-up 100 ms after the reply
CleanUp ==
  /\ request = "resolved" /\ ~cleaned
  /\ cleaned' = TRUE /\ registry' = 0
  /\ UNCHANGED <<request, answer, limit, path, buffers, buffered, burst, uploads, reply, sent, held, transit,
                 losses, failures, mishap>>

-----------------------------------------------------------------------------
(* The exit and the mixnet *)

\* The next fragment, on a block; the last block of a supply that does not cover
\* the rest asks for more
ExitSends ==
  /\ held > 0 /\ sent < Len(reply)
  /\ held' = held - 1
  /\ IF held = 1 /\ sent + 1 < Len(reply)
     THEN transit' = transit \cup {[kind |-> "signal", n |-> Len(reply) - sent]} /\ UNCHANGED sent
     ELSE transit' = transit \cup {[kind |-> "fragment", n |-> sent + 1]} /\ sent' = sent + 1
  /\ UNCHANGED <<clientVars, limit, reply, losses, failures, mishap>>

\* A lost fragment can be made good by parity
Lose(item) ==
  /\ item \in transit /\ losses < MaxLost
  /\ transit' = transit \ {item}
  /\ losses' = losses + 1
  /\ mishap' = (mishap \/ item.kind = "signal" \/ reply[item.n].fec = 0
                \/ losses >= reply[item.n].total - reply[item.n].fec)
  /\ UNCHANGED <<clientVars, limit, reply, sent, held, failures>>

-----------------------------------------------------------------------------

Reaches == 0..BatchSize
Next ==
  \/ \E item \in transit : Deliver(item) \/ Lose(item)
  \/ \E i \in DOMAIN uploads, reach \in Reaches : UploadBatch(i, reach) \/ UploadFails(i, reach)
  \/ CheckBurstStalls \/ StallTime \/ RequestFails \/ CleanUp \/ ExitSends

Spec == Init /\ [][Next]_vars

\* Replies that are not lost arrive, uploads end, the exit answers while it has
\* blocks, time passes and the stall timer runs.  Each of these steps can be
\* taken finitely often, so that one fairness condition covers them all.  No
\* timeout is counted on.
Working ==
  \/ \E item \in transit : Deliver(item)
  \/ \E i \in DOMAIN uploads : UploadBatch(i, IF uploads[i] < BatchSize THEN uploads[i] ELSE BatchSize)
  \/ CheckBurstStalls \/ StallTime \/ ExitSends
Fairness == WF_vars(Working)

-----------------------------------------------------------------------------

TypeOK ==
  /\ request \in {"pending", "resolved", "failed"} /\ limit \in Limits
  /\ path \in BOOLEAN /\ cleaned \in BOOLEAN /\ mishap \in BOOLEAN
  /\ registry \in Nat /\ buffered \in Nat /\ sent \in 0..Len(reply) /\ held \in Nat
  /\ losses \in 0..MaxLost /\ failures \in 0..MaxFailed
  /\ burst \in [round : 0..MaxRounds, age : {"none", "recent", "active", "stalled"}]
  /\ uploads \in Seq(0..MaxPackets)

\* A reply handed to the caller is, byte for byte, one message the exit sent and
\* within maxResponseBytes: whatever fragments are lost, late, repeated, out of
\* order or contradict the others, whichever parity shards fill the gaps, and when
\* messages evict each other from the buffers
ReplyIntact ==
  request = "resolved" => /\ \E i \in DOMAIN reply : answer = Data(reply[i].msg)
                          /\ Len(answer) <= limit

BuffersCounted ==
  /\ buffered = SizeOf(buffers)
  /\ Cardinality(DOMAIN buffers) <= MaxMessages /\ buffered <= MaxBytes

SettledForgets ==
  request # "pending" => /\ ~path /\ burst = NoBurst
                         /\ request = "failed" \/ cleaned => registry = 0

\* The reassembler's byte count is that of its buffers and stays within both
\* limits, through evictions (also of the buffer a fragment belongs to), rejected
\* fragments and completed messages.  A settled request leaves nothing behind: no
\* path and no burst state, and after the clean-up no registered block, although
\* bursts that had started go on sending their packets
NothingLeaks == BuffersCounted /\ SettledForgets

\* The reply completes without help from a timeout unless a signal, a burst or
\* more fragments than the parity covers were lost, an upload failed, messages
\* contradicted or evicted each other, or the rounds ran out: signals suppressed
\* within STALL_TIMEOUT_MS of a burst are made good by the stall timer.  (It needs
\* one fragment to know how many are missing.)
ReplyCompletes ==
  <>(request # "pending" \/ mishap \/ (DOMAIN buffers = {} /\ losses > 0) \/ burst.round = MaxRounds)
=============================================================================
