----------------------- MODULE FragmentedReplyProofs -----------------------
(***************************************************************************)
(* Proofs about FragmentedReply, for any answers of the exit, any losses   *)
(* and orders of arrival and any limits: the reassembler's byte count is   *)
(* that of its buffers and within its limits, a settled request leaves     *)
(* nothing behind, and what the caller gets is a message the exit sent.    *)
(***************************************************************************)
EXTENDS FragmentedReply, FiniteSetTheorems, SequenceTheorems, TLAPS

\* A buffer has parts of its own message only.
BufferOf(m, b) ==
  /\ DOMAIN b = {"frags", "total", "fec", "len"}
  /\ IsFiniteSet(b.frags) /\ \A g \in b.frags : g.msg = m

BuffersOK(bufs) == IsFiniteSet(DOMAIN bufs) /\ \A m \in DOMAIN bufs : BufferOf(m, bufs[m])

\* The inductive invariant of NothingLeaks.
LeakInv ==
  /\ BuffersOK(buffers) /\ BuffersCounted
  /\ request \in {"pending", "resolved", "failed"} /\ (request = "pending" => cleaned = FALSE)
  /\ SettledForgets

\* A buffer holds different parts of one split of its message, and knows its code.
BufferTrue(b, r) ==
  /\ b.frags # {}
  /\ \A g \in b.frags : /\ g \in Range(r) /\ Valid(g)
                        /\ g.total = b.total /\ g.fec = b.fec /\ (b.fec # 0 => g.len = b.len)
  /\ \A g, h \in b.frags : g.seq = h.seq => g = h

\* What ReplyIntact needs on top of it.
PartsInv ==
  /\ reply \in Answers /\ limit \in Limits /\ sent \in 0..Len(reply)
  /\ \A item \in transit : item.kind = "fragment" => item.n \in DOMAIN reply
  /\ \A m \in DOMAIN buffers : BufferTrue(buffers[m], reply)
  /\ ReplyIntact

-----------------------------------------------------------------------------
(* Counting the parts in the buffers                                       *)

PartsOf(bufs, ms) == UNION {bufs[m].frags : m \in ms}

LEMMA SizeIsParts ==
  ASSUME NEW bufs
  PROVE  SizeOf(bufs) = Cardinality(PartsOf(bufs, DOMAIN bufs))
BY DEF SizeOf, PartsOf

LEMMA PartsFinite ==
  ASSUME NEW bufs, BuffersOK(bufs), NEW ms \in SUBSET DOMAIN bufs
  PROVE  IsFiniteSet(PartsOf(bufs, ms)) /\ Cardinality(PartsOf(bufs, ms)) \in Nat
<1> DEFINE sets == {bufs[m].frags : m \in ms}
           h    == [m \in ms |-> bufs[m].frags]
<1>1. IsFiniteSet(ms)
  BY FS_Subset DEF BuffersOK
<1>2. h \in Surjection(ms, sets)
  BY DEF Surjection
<1>3. IsFiniteSet(sets)
  BY <1>1, <1>2, FS_Surjection
<1>4. \A s \in sets : IsFiniteSet(s)
  BY DEF BuffersOK, BufferOf
<1> HIDE DEF sets
<1>5. IsFiniteSet(UNION sets)
  BY <1>3, <1>4, FS_UNION
<1> QED
  BY <1>5, FS_CardinalityType DEF PartsOf, sets

\* Different messages have different parts.
LEMMA PartsAdd ==
  ASSUME NEW bufs, BuffersOK(bufs), NEW S \in SUBSET DOMAIN bufs, NEW T \in SUBSET DOMAIN bufs,
         S \cap T = {}
  PROVE  Cardinality(PartsOf(bufs, S \cup T)) = Cardinality(PartsOf(bufs, S)) + Cardinality(PartsOf(bufs, T))
<1>1. PartsOf(bufs, S \cup T) = PartsOf(bufs, S) \cup PartsOf(bufs, T)
  BY DEF PartsOf
<1>2. PartsOf(bufs, S) \cap PartsOf(bufs, T) = {}
  BY DEF PartsOf, BuffersOK, BufferOf
<1>3. /\ IsFiniteSet(PartsOf(bufs, S)) /\ IsFiniteSet(PartsOf(bufs, T))
      /\ Cardinality(PartsOf(bufs, S)) \in Nat /\ Cardinality(PartsOf(bufs, T)) \in Nat
  BY PartsFinite
<1>4. Cardinality(PartsOf(bufs, S) \cup PartsOf(bufs, T)) =
        Cardinality(PartsOf(bufs, S)) + Cardinality(PartsOf(bufs, T))
          - Cardinality(PartsOf(bufs, S) \cap PartsOf(bufs, T))
  BY <1>3, FS_Union
<1>5. Cardinality(PartsOf(bufs, S) \cap PartsOf(bufs, T)) = 0
  BY <1>2, FS_EmptySet
<1>6. ASSUME NEW a \in Nat, NEW b \in Nat PROVE a + b - 0 = a + b
  BY <1>6
<1> QED
  BY <1>1, <1>3, <1>4, <1>5, <1>6

LEMMA PartsOfOne ==
  ASSUME NEW bufs, NEW m
  PROVE  PartsOf(bufs, {m}) = bufs[m].frags
BY DEF PartsOf

\* Evicting messages.
LEMMA WithoutKeeps ==
  ASSUME NEW bufs, BuffersOK(bufs), NEW gone
  PROVE  /\ BuffersOK(Without(bufs, gone)) /\ DOMAIN Without(bufs, gone) = DOMAIN bufs \ gone
         /\ \A m \in DOMAIN bufs \ gone : Without(bufs, gone)[m] = bufs[m]
         /\ SizeOf(Without(bufs, gone)) = Cardinality(PartsOf(bufs, DOMAIN bufs \ gone))
<1> DEFINE w == Without(bufs, gone)
<1>1. DOMAIN w = DOMAIN bufs \ gone /\ \A m \in DOMAIN bufs \ gone : w[m] = bufs[m]
  BY DEF Without
<1>2. IsFiniteSet(DOMAIN bufs \ gone)
  BY FS_Subset DEF BuffersOK
<1> HIDE DEF w
<1>3. BuffersOK(w)
  BY <1>1, <1>2 DEF BuffersOK
<1>4. PartsOf(w, DOMAIN w) = PartsOf(bufs, DOMAIN bufs \ gone)
  BY <1>1 DEF PartsOf
<1> QED
  BY <1>1, <1>3, <1>4, SizeIsParts DEF w

\* Putting a buffer back.
WithBuffer(left, m, c) == [x \in DOMAIN left \cup {m} |-> IF x = m THEN c ELSE left[x]]

LEMMA WithBufferKeeps ==
  ASSUME NEW left, BuffersOK(left), NEW m, m \notin DOMAIN left, NEW c, BufferOf(m, c)
  PROVE  /\ BuffersOK(WithBuffer(left, m, c))
         /\ SizeOf(WithBuffer(left, m, c)) = SizeOf(left) + Cardinality(c.frags)
<1> DEFINE w == WithBuffer(left, m, c)
<1>1. /\ DOMAIN w = DOMAIN left \cup {m} /\ w[m] = c /\ \A x \in DOMAIN left : w[x] = left[x]
  BY DEF WithBuffer
<1>2. IsFiniteSet(DOMAIN left \cup {m})
  BY FS_AddElement DEF BuffersOK
<1> HIDE DEF w
<1>3. BuffersOK(w)
  BY <1>1, <1>2 DEF BuffersOK
<1>4. PartsOf(w, DOMAIN left) = PartsOf(left, DOMAIN left) /\ PartsOf(w, {m}) = c.frags
  BY <1>1 DEF PartsOf
<1>5. Cardinality(PartsOf(w, DOMAIN left \cup {m})) = Cardinality(PartsOf(w, DOMAIN left)) + Cardinality(PartsOf(w, {m}))
  BY <1>1, <1>3, PartsAdd
<1> QED
  BY <1>1, <1>3, <1>4, <1>5, SizeIsParts DEF w

-----------------------------------------------------------------------------
(* addFragment                                                             *)

\* The bytes after the eviction, and the buffer the fragment goes to.
LEMMA EvictionCounted ==
  ASSUME LeakInv, NEW f, NEW gone \in SUBSET DOMAIN buffers,
         f.msg \in DOMAIN buffers => \A g \in buffers[f.msg].frags : g.seq # f.seq
  PROVE  LET kept == Without(buffers, gone)
             left == Without(buffers, gone \cup {f.msg})
             b    == BufferFor(f, gone)
         IN /\ buffered - Cardinality(UNION {buffers[m].frags : m \in gone}) = SizeOf(kept)
            /\ SizeOf(kept) = SizeOf(left) + Cardinality(b.frags)
            /\ BufferOf(f.msg, b) /\ f \notin b.frags
            /\ f.msg \notin DOMAIN kept => ~Contradicts(f, b)
<1> DEFINE K == DOMAIN buffers \ gone
           L == DOMAIN buffers \ (gone \cup {f.msg})
           b == BufferFor(f, gone)
<1>1. BuffersOK(buffers) /\ buffered = SizeOf(buffers)
  BY DEF LeakInv, BuffersCounted
<1>2. /\ SizeOf(Without(buffers, gone)) = Cardinality(PartsOf(buffers, K))
      /\ SizeOf(Without(buffers, gone \cup {f.msg})) = Cardinality(PartsOf(buffers, L))
      /\ DOMAIN Without(buffers, gone) = K
  BY <1>1, WithoutKeeps
<1>3. /\ Cardinality(PartsOf(buffers, K)) \in Nat /\ Cardinality(PartsOf(buffers, L)) \in Nat
      /\ Cardinality(PartsOf(buffers, gone)) \in Nat
  BY <1>1, PartsFinite
<1>4. buffered = Cardinality(PartsOf(buffers, K)) + Cardinality(PartsOf(buffers, gone))
  <2>1. K \cup gone = DOMAIN buffers /\ K \cap gone = {}
    OBVIOUS
  <2> QED
    BY <1>1, <2>1, PartsAdd, SizeIsParts
<1>5. CASE f.msg \in K
  <2>1. b = buffers[f.msg]
    BY <1>5 DEF BufferFor
  <2>2. L \cup {f.msg} = K /\ L \cap {f.msg} = {}
    BY <1>5
  <2>3. Cardinality(PartsOf(buffers, K)) = Cardinality(PartsOf(buffers, L)) + Cardinality(PartsOf(buffers, {f.msg}))
    BY <1>1, <1>5, <2>2, PartsAdd
  <2>4. BufferOf(f.msg, b) /\ f \notin b.frags
    BY <1>1, <1>5, <2>1 DEF BuffersOK
  <2>5. PartsOf(buffers, {f.msg}) = b.frags
    BY <2>1, PartsOfOne
  <2>6. SizeOf(Without(buffers, gone)) = SizeOf(Without(buffers, gone \cup {f.msg})) + Cardinality(b.frags)
    BY <1>2, <2>3, <2>5
  <2>7. f.msg \in DOMAIN Without(buffers, gone)
    BY <1>2, <1>5
  <2> HIDE DEF K, L, b
  <2>8. buffered - Cardinality(PartsOf(buffers, gone)) = SizeOf(Without(buffers, gone))
    BY <1>2, <1>3, <1>4
  <2> QED
    BY <2>4, <2>6, <2>7, <2>8 DEF PartsOf, b
<1>6. CASE f.msg \notin K
  <2>1. b = [frags |-> {}, total |-> f.total, fec |-> f.fec, len |-> f.len]
    BY <1>6 DEF BufferFor
  <2>2. L = K
    BY <1>6
  <2>3. BufferOf(f.msg, b) /\ f \notin b.frags /\ Cardinality(b.frags) = 0
    BY <2>1, FS_EmptySet DEF BufferOf
  <2>4. ~Contradicts(f, b)
    BY <2>1 DEF Contradicts
  <2> HIDE DEF K, L, b
  <2> QED
    BY <1>2, <1>3, <1>4, <2>2, <2>3, <2>4 DEF PartsOf, b
<1> QED
  BY <1>5, <1>6

LEMMA ExtendedKeeps ==
  ASSUME NEW f, NEW b, BufferOf(f.msg, b), f \notin b.frags
  PROVE  /\ BufferOf(f.msg, Extended(b, f)) /\ Extended(b, f).frags = b.frags \cup {f}
         /\ Cardinality(Extended(b, f).frags) = Cardinality(b.frags) + 1 /\ Cardinality(b.frags) \in Nat
<1>1. DOMAIN Extended(b, f) = DOMAIN b /\ Extended(b, f).frags = b.frags \cup {f}
  BY DEF Extended, BufferOf
<1> HIDE DEF Extended
<1> QED
  BY <1>1, FS_AddElement, FS_CardinalityType DEF BufferOf

\* What is left fits.
LEMMA EvictionFits ==
  ASSUME LeakInv, NEW gone \in Evictions
  PROVE  gone \in SUBSET DOMAIN buffers /\ Fits(Without(buffers, gone))
<1>1. BuffersOK(buffers)
  BY DEF LeakInv
<1>2. CASE Fits(buffers)
  <2>1. gone = {}
    BY <1>2 DEF Evictions
  <2>2. DOMAIN Without(buffers, gone) = DOMAIN buffers /\ SizeOf(Without(buffers, gone)) = SizeOf(buffers)
    BY <1>1, <2>1, WithoutKeeps, SizeIsParts
  <2> QED
    BY <1>2, <2>1, <2>2 DEF Fits
<1>3. CASE ~Fits(buffers)
  BY <1>3 DEF Evictions
<1> QED
  BY <1>2, <1>3

\* The limits and the count, for what addFragment leaves.
Counted(s) ==
  /\ BuffersOK(s.bufs) /\ s.bytes = SizeOf(s.bufs)
  /\ Cardinality(DOMAIN s.bufs) <= MaxMessages /\ s.bytes <= MaxBytes

LEMMA StoredCounted ==
  ASSUME LeakInv, NEW f, NEW gone \in Evictions,
         f.msg \in DOMAIN buffers => \A g \in buffers[f.msg].frags : g.seq # f.seq
  PROVE  Counted(Stored(f, gone, BufferFor(f, gone)))
<1> DEFINE kept  == Without(buffers, gone)
           left  == Without(buffers, gone \cup {f.msg})
           b     == BufferFor(f, gone)
           bytes == buffered - Cardinality(UNION {buffers[m].frags : m \in gone})
           s     == Stored(f, gone, b)
<1> SUFFICES Counted(s)
  OBVIOUS
<1>1. gone \in SUBSET DOMAIN buffers /\ Fits(kept)
  BY EvictionFits
<1>2. BuffersOK(buffers) /\ Cardinality(DOMAIN buffers) <= MaxMessages
  BY DEF LeakInv, BuffersCounted
<1>3. /\ BuffersOK(kept) /\ DOMAIN kept = DOMAIN buffers \ gone
      /\ BuffersOK(left) /\ DOMAIN left = DOMAIN kept \ {f.msg}
  <2>1. /\ BuffersOK(kept) /\ DOMAIN kept = DOMAIN buffers \ gone
        /\ BuffersOK(left) /\ DOMAIN left = DOMAIN buffers \ (gone \cup {f.msg})
    BY <1>2, WithoutKeeps
  <2> HIDE DEF kept, left
  <2> QED
    BY <2>1
<1>4. bytes = SizeOf(kept) /\ SizeOf(kept) = SizeOf(left) + Cardinality(b.frags)
  BY <1>1, EvictionCounted
<1>5. BufferOf(f.msg, b) /\ f \notin b.frags /\ (f.msg \notin DOMAIN kept => ~Contradicts(f, b))
  BY <1>1, EvictionCounted
<1>6. \/ Contradicts(f, b) /\ s.bufs = WithBuffer(left, f.msg, b) /\ s.bytes = bytes
      \/ s.bufs = left /\ s.bytes = bytes - Cardinality(b.frags)
      \/ s.bufs = WithBuffer(left, f.msg, Extended(b, f)) /\ s.bytes = bytes + 1
  BY DEF Stored, WithBuffer
<1> HIDE DEF kept, left, b, bytes, s
<1>7. /\ SizeOf(kept) \in Nat /\ SizeOf(left) \in Nat /\ Cardinality(b.frags) \in Nat
      /\ Cardinality(DOMAIN kept) \in Nat /\ Cardinality(DOMAIN buffers) \in Nat
  BY <1>2, <1>3, <1>5, SizeIsParts, PartsFinite, FS_CardinalityType DEF BuffersOK, BufferOf
<1>8. /\ Cardinality(DOMAIN kept) <= MaxMessages /\ SizeOf(kept) <= MaxBytes
      /\ SizeOf(kept) + 1 <= MaxBytes /\ Cardinality(DOMAIN kept \cup {f.msg}) <= MaxMessages
  <2>1. CASE SizeOf(kept) + 1 <= MaxBytes /\ Cardinality(DOMAIN kept) < MaxMessages
    <3>1. IsFiniteSet(DOMAIN kept)
      BY <1>3 DEF BuffersOK
    <3>2. Cardinality(DOMAIN kept \cup {f.msg}) =
            IF f.msg \in DOMAIN kept THEN Cardinality(DOMAIN kept) ELSE Cardinality(DOMAIN kept) + 1
      BY <3>1, FS_AddElement
    <3> QED
      BY <1>7, <2>1, <3>2, FragmentedReplyAssumption
  <2>2. CASE DOMAIN kept = {}
    <3>1. PartsOf(kept, DOMAIN kept) = {} /\ DOMAIN kept \cup {f.msg} = {f.msg}
      BY <2>2 DEF PartsOf
    <3>2. SizeOf(kept) = 0 /\ Cardinality(DOMAIN kept) = 0 /\ Cardinality(DOMAIN kept \cup {f.msg}) = 1
      BY <2>2, <3>1, SizeIsParts, FS_EmptySet, FS_Singleton
    <3> QED
      BY <3>2, FragmentedReplyAssumption
  <2> QED
    BY <1>1, <2>1, <2>2 DEF Fits
<1>9. CASE Contradicts(f, b) /\ s.bufs = WithBuffer(left, f.msg, b) /\ s.bytes = bytes
  <2>1. f.msg \in DOMAIN kept /\ f.msg \notin DOMAIN left
    BY <1>3, <1>5, <1>9
  <2>2. DOMAIN s.bufs = DOMAIN kept
    BY <1>3, <1>9, <2>1 DEF WithBuffer
  <2>3. /\ BuffersOK(WithBuffer(left, f.msg, b))
        /\ SizeOf(WithBuffer(left, f.msg, b)) = SizeOf(left) + Cardinality(b.frags)
    BY <1>3, <1>5, <2>1, WithBufferKeeps
  <2> QED
    BY <1>4, <1>8, <1>9, <2>2, <2>3 DEF Counted
<1>10. CASE s.bufs = left /\ s.bytes = bytes - Cardinality(b.frags)
  <2>1. s.bytes = SizeOf(left) /\ s.bytes <= MaxBytes
    BY <1>4, <1>7, <1>8, <1>10, FragmentedReplyAssumption
  <2>2. /\ Cardinality(DOMAIN left) <= Cardinality(DOMAIN kept)
        /\ Cardinality(DOMAIN left) \in Nat
    BY <1>3, FS_Subset, FS_CardinalityType DEF BuffersOK
  <2>3. Cardinality(DOMAIN left) <= MaxMessages
    BY <1>7, <1>8, <2>2, FragmentedReplyAssumption
  <2> QED
    BY <1>3, <1>10, <2>1, <2>3 DEF Counted
<1>11. CASE s.bufs = WithBuffer(left, f.msg, Extended(b, f)) /\ s.bytes = bytes + 1
  <2>1. f.msg \notin DOMAIN left
    BY <1>3
  <2>2. BufferOf(f.msg, Extended(b, f)) /\ Cardinality(Extended(b, f).frags) = Cardinality(b.frags) + 1
    BY <1>5, ExtendedKeeps
  <2>3. /\ BuffersOK(WithBuffer(left, f.msg, Extended(b, f)))
        /\ SizeOf(WithBuffer(left, f.msg, Extended(b, f))) = SizeOf(left) + Cardinality(Extended(b, f).frags)
    BY <1>3, <2>1, <2>2, WithBufferKeeps
  <2>4. DOMAIN s.bufs = DOMAIN kept \cup {f.msg}
    BY <1>3, <1>11 DEF WithBuffer
  <2> QED
    BY <1>4, <1>7, <1>8, <1>11, <2>2, <2>3, <2>4 DEF Counted
<1> QED
  BY <1>6, <1>9, <1>10, <1>11

LEMMA AddFragmentCounted ==
  ASSUME LeakInv, NEW f, NEW added \in AddFragment(f)
  PROVE  Counted(added)
<1>1. CASE added = [bufs |-> buffers, bytes |-> buffered, out |-> Throws]
           \/ added = [bufs |-> buffers, bytes |-> buffered, out |-> Null]
  <2>1. added.bufs = buffers /\ added.bytes = buffered
    BY <1>1
  <2> QED
    BY <2>1 DEF Counted, LeakInv, BuffersCounted
<1>2. CASE /\ f.msg \in DOMAIN buffers => \A g \in buffers[f.msg].frags : g.seq # f.seq
           /\ \E gone \in Evictions : added = Stored(f, gone, BufferFor(f, gone))
  BY <1>2, StoredCounted
<1> QED
  BY <1>1, <1>2 DEF AddFragment

-----------------------------------------------------------------------------
(* A settled request                                                       *)

LEMMA FragmentForgets ==
  ASSUME LeakInv, NEW f, HandleFragment(f), registry # 0
  PROVE  LeakInv'
<1>1. CASE request # "pending"
  <2>1. /\ UNCHANGED <<request, path, cleaned, buffers, buffered, burst>>
    BY <1>1 DEF HandleFragment
  <2> QED
    BY <1>1, <2>1 DEF LeakInv, SettledForgets, BuffersCounted, BuffersOK, SizeOf
<1>2. CASE request = "pending" /\ FailPending /\ UNCHANGED <<buffers, buffered>>
  BY <1>2 DEF LeakInv, SettledForgets, BuffersCounted, BuffersOK, SizeOf, FailPending
<1>3. CASE request = "pending" /\ ~(DeclaredLength(f) > limit)
  <2>1. PICK added \in AddFragment(f) :
          /\ buffers' = added.bufs /\ buffered' = added.bytes
          /\ \/ UNCHANGED <<request, cleaned>>
             \/ FailPending
             \/ request' = "resolved" /\ path' = FALSE /\ burst' = NoBurst /\ UNCHANGED cleaned
    BY <1>3 DEF HandleFragment
  <2>2. Counted(added)
    BY AddFragmentCounted
  <2>3. BuffersOK(buffers') /\ BuffersCounted'
    BY <2>1, <2>2 DEF Counted, BuffersCounted
  <2>4. cleaned = FALSE
    BY <1>3 DEF LeakInv
  <2> QED
    BY <1>3, <2>1, <2>3, <2>4 DEF LeakInv, SettledForgets, FailPending, BuffersOK
<1> QED
  BY <1>1, <1>2, <1>3 DEF HandleFragment

LEMMA LeakStep ==
  ASSUME LeakInv, [Next]_vars
  PROVE  LeakInv'
<1>1. ASSUME UNCHANGED <<request, cleaned, buffers, buffered>>, SettledForgets'
      PROVE  LeakInv'
  BY <1>1 DEF LeakInv, BuffersCounted, BuffersOK, SizeOf
<1>2. ASSUME UNCHANGED clientVars
      PROVE  LeakInv'
  <2>1. UNCHANGED <<request, cleaned, buffers, buffered, path, burst, registry>>
    BY <1>2 DEF clientVars
  <2> QED
    BY <1>1, <2>1 DEF LeakInv, SettledForgets
<1>3. ASSUME NEW item \in transit, Deliver(item)
      PROVE  LeakInv'
  <2>1. CASE registry = 0
    BY <1>2, <1>3, <2>1 DEF Deliver
  <2>2. CASE registry # 0 /\ item.kind = "fragment"
    BY <1>3, <2>2, FragmentForgets DEF Deliver
  <2>3. CASE registry # 0 /\ item.kind # "fragment"
    <3>1. StartBurst(item.n, registry - 1) /\ UNCHANGED <<request, path, cleaned, buffers, buffered>>
      BY <1>3, <2>3 DEF Deliver
    <3>2. SettledForgets'
      BY <2>3, <3>1 DEF LeakInv, SettledForgets, StartBurst
    <3> QED
      BY <1>1, <3>1, <3>2
  <2> QED
    BY <2>1, <2>2, <2>3
<1>4. CASE StallTime
  <2>1. UNCHANGED <<request, cleaned, buffers, buffered>>
    BY <1>4 DEF StallTime
  <2>2. request = "pending"
    BY <1>4 DEF StallTime, LeakInv, SettledForgets, NoBurst
  <2> QED
    BY <1>1, <2>1, <2>2 DEF SettledForgets
<1>5. CASE CheckBurstStalls
  BY <1>1, <1>5 DEF CheckBurstStalls, SettledForgets
<1>6. ASSUME NEW i, NEW reach, UploadBatch(i, reach) \/ UploadFails(i, reach)
      PROVE  LeakInv'
  BY <1>1, <1>6 DEF UploadBatch, UploadFails, LeakInv, SettledForgets
<1>7. CASE RequestFails
  BY <1>7 DEF RequestFails, FailPending, LeakInv, SettledForgets, BuffersCounted, BuffersOK, SizeOf
<1>8. CASE CleanUp
  BY <1>8 DEF CleanUp, LeakInv, SettledForgets, BuffersCounted, BuffersOK, SizeOf
<1>9. ASSUME NEW item, Lose(item)
      PROVE  LeakInv'
  BY <1>2, <1>9 DEF Lose
<1>10. CASE ExitSends
  BY <1>2, <1>10 DEF ExitSends
<1>11. CASE UNCHANGED vars
  BY <1>2, <1>11 DEF vars, clientVars
<1> QED
  BY <1>3, <1>4, <1>5, <1>6, <1>7, <1>8, <1>9, <1>10, <1>11 DEF Next

LEMMA LeakInit ==
  ASSUME Init
  PROVE  LeakInv
<1>1. buffers = <<>> /\ buffered = 0 /\ request = "pending" /\ cleaned = FALSE
  BY DEF Init
<1>2. DOMAIN buffers = {}
  BY <1>1
<1>3. PartsOf(buffers, DOMAIN buffers) = {}
  BY <1>2 DEF PartsOf
<1>4. SizeOf(buffers) = 0 /\ Cardinality(DOMAIN buffers) = 0 /\ IsFiniteSet(DOMAIN buffers)
  BY <1>2, <1>3, SizeIsParts, FS_EmptySet
<1>5. BuffersCounted
  BY <1>1, <1>4, FragmentedReplyAssumption DEF BuffersCounted
<1> QED
  BY <1>1, <1>2, <1>4, <1>5 DEF LeakInv, BuffersOK, SettledForgets

THEOREM LeakInvariant == Spec => []LeakInv
<1>1. Init => LeakInv
  BY LeakInit
<1>2. LeakInv /\ [Next]_vars => LeakInv'
  BY LeakStep
<1> QED
  BY <1>1, <1>2, PTL DEF Spec

\* Whatever arrives and whenever the request settles, the reassembler's byte count is
\* that of its buffers and within its limits (addFragment, ensureCapacity), and a
\* settled request leaves no path, no burst state and, once cleaned up, no block.
THEOREM ReassemblyLeaksNothing == Spec => []NothingLeaks
<1>1. LeakInv => NothingLeaks
  BY DEF LeakInv, NothingLeaks
<1> QED
  BY <1>1, LeakInvariant, PTL

-----------------------------------------------------------------------------
(* What a complete buffer assembles to                                     *)

LEMMA PartTyped ==
  ASSUME NEW r, HonestReply(r), NEW f \in Range(r)
  PROVE  f.total \in Nat /\ f.seq \in Nat /\ f.fec \in Nat
<1>1. r \in Seq(Fragment)
  BY DEF HonestReply
<1>2. f \in Fragment
  BY <1>1 DEF Range
<1> QED
  BY <1>2 DEF Fragment

\* The bytes of a part are those the exit sent under its number.
LEMMA PartFound ==
  ASSUME NEW r, HonestReply(r), NEW b, BufferTrue(b, r), NEW f \in b.frags,
         \A g \in b.frags : g.msg = f.msg, NEW g \in b.frags
  PROVE  /\ DataOf(b, g.seq) = Piece(r, f, g.seq)
         /\ g.seq \in SeqsOf(r, f) /\ g.seq \in 0..(b.total - 1)
<1>1. f \in Range(r) /\ g \in Range(r) /\ SameSplit(g, f) /\ Valid(g) /\ g.total = b.total
  BY DEF BufferTrue, SameSplit
<1>2. g.seq \in SeqsOf(r, f)
  BY <1>1 DEF SeqsOf
<1>3. g.seq \in 0..(b.total - 1)
  BY <1>1, PartTyped DEF Valid
<1>4. DataOf(b, g.seq) = g.data
  <2>1. {x \in b.frags : x.seq = g.seq} = {g}
    BY DEF BufferTrue
  <2>2. (CHOOSE x \in {g} : TRUE) = g
    OBVIOUS
  <2>3. {g} # {}
    OBVIOUS
  <2> QED
    BY <2>1, <2>2, <2>3 DEF DataOf
<1>5. PICK h \in Range(r) : SameSplit(h, f) /\ h.seq = g.seq /\ Piece(r, f, g.seq) = h.data
  <2>1. \E h \in Range(r) : SameSplit(h, f) /\ h.seq = g.seq
    BY <1>1
  <2> QED
    BY <2>1 DEF Piece
<1>6. h.data = g.data
  <2>1. SameSplit(h, g)
    BY <1>1, <1>5 DEF SameSplit
  <2> QED
    BY <1>1, <1>5, <2>1 DEF HonestReply
<1> QED
  BY <1>2, <1>3, <1>4, <1>5, <1>6

\* Different parts have different numbers, so that the numbers can be counted instead.
LEMMA SeqsCounted ==
  ASSUME NEW r, NEW b, BufferTrue(b, r), IsFiniteSet(b.frags)
  PROVE  LET seqs == {g.seq : g \in b.frags}
         IN IsFiniteSet(seqs) /\ Cardinality(seqs) = Cardinality(b.frags)
<1> DEFINE seqs == {g.seq : g \in b.frags}
           h    == [g \in b.frags |-> g.seq]
<1>1. h \in Surjection(b.frags, seqs)
  BY DEF Surjection
<1>2. h \in Injection(b.frags, seqs)
  <2>1. h \in [b.frags -> seqs]
    OBVIOUS
  <2>2. \A g, k \in b.frags : h[g] = h[k] => g = k
    BY DEF BufferTrue
  <2> HIDE DEF h, seqs
  <2> QED
    BY <2>1, <2>2 DEF Injection, IsInjective
<1> QED
  BY <1>1, <1>2, FS_Surjection

LEMMA AssembledTrue ==
  ASSUME NEW r, HonestReply(r), NEW b, BufferTrue(b, r), IsFiniteSet(b.frags), NEW f \in b.frags,
         \A g \in b.frags : g.msg = f.msg, Complete(b)
  PROVE  Assembled(b) = Data(f.msg)
<1> DEFINE seqs == {g.seq : g \in b.frags}
<1>1. /\ f \in Range(r) /\ f.total = b.total /\ f.fec = b.fec /\ (b.fec # 0 => f.len = b.len)
      /\ f.total \in Nat /\ f.fec \in Nat /\ f.seq \in Nat /\ f.seq < f.total
  BY PartTyped DEF BufferTrue, Valid
<1>2. seqs \subseteq SeqsOf(r, f) /\ seqs \subseteq 0..(b.total - 1)
  BY PartFound
<1>3. IsFiniteSet(seqs) /\ Cardinality(seqs) = Cardinality(b.frags)
  BY SeqsCounted
<1>4. \A k \in seqs : DataOf(b, k) = Piece(r, f, k)
  BY PartFound
<1>5. \A k : k \notin seqs => DataOf(b, k) = Null
  BY DEF DataOf
<1> HIDE DEF seqs
<1>6. CASE b.fec = 0
  <2>1. Cardinality(seqs) = b.total
    BY <1>3, <1>6 DEF Complete
  <2>2. IsFiniteSet(0..(b.total - 1)) /\ Cardinality(0..(b.total - 1)) = b.total
    <3>1. PICK t \in Int : t = b.total - 1 /\ 0 <= t /\ t - 0 + 1 = b.total
      BY <1>1
    <3>2. IsFiniteSet(0..t) /\ Cardinality(0..t) = IF 0 > t THEN 0 ELSE t - 0 + 1
      BY FS_Interval
    <3> QED
      BY <3>1, <3>2
  <2>3. seqs = 0..(b.total - 1)
    BY <1>2, <2>1, <2>2, FS_Subset
  <2>4. \A i \in 1..b.total : DataOf(b, i - 1) = Piece(r, f, i - 1)
    BY <1>1, <1>4, <2>3
  <2>5. [i \in 1..b.total |-> DataOf(b, i - 1)] = [i \in 1..f.total |-> Piece(r, f, i - 1)]
    BY <1>1, <2>4
  <2>6. FlattenSeq([i \in 1..f.total |-> Piece(r, f, i - 1)]) = Data(f.msg)
    BY <1>1, <1>2, <1>6, <2>3 DEF HonestReply
  <2> QED
    BY <1>6, <2>5, <2>6 DEF Assembled
<1>7. CASE b.fec # 0
  <2>1. Cardinality(seqs) >= f.fec
    BY <1>1, <1>3, <1>7 DEF Complete
  <2>2. seqs \in SUBSET (SeqsOf(r, f) \cap (0..(f.total - 1)))
    BY <1>1, <1>2
  <2>3. Decode([k \in 0..(f.total - 1) |-> IF k \in seqs THEN Piece(r, f, k) ELSE <<>>], f.fec, f.len)
          = Data(f.msg)
    BY <1>1, <1>7, <2>1, <2>2 DEF HonestReply
  <2>4. [k \in 0..(b.total - 1) |-> DataOf(b, k)] = [k \in 0..(f.total - 1) |-> IF k \in seqs THEN Piece(r, f, k) ELSE <<>>]
    BY <1>1, <1>4, <1>5 DEF Null
  <2> QED
    BY <1>1, <1>7, <2>3, <2>4 DEF Assembled
<1> QED
  BY <1>6, <1>7

-----------------------------------------------------------------------------
(* The parts in the buffers                                                *)

LEMMA ExtendedTrue ==
  ASSUME NEW r, HonestReply(r), NEW f \in Range(r), Valid(f), NEW b, BufferOf(f.msg, b),
         \/ b = [frags |-> {}, total |-> f.total, fec |-> f.fec, len |-> f.len]
         \/ BufferTrue(b, r),
         \A g \in b.frags : g.seq # f.seq, ~Contradicts(f, b)
  PROVE  BufferTrue(Extended(b, f), r)
<1> DEFINE e == Extended(b, f)
<1>1. /\ e.frags = b.frags \cup {f} /\ e.total = b.total
      /\ e.fec = (IF b.fec = 0 THEN f.fec ELSE b.fec) /\ e.len = (IF b.fec = 0 THEN f.len ELSE b.len)
  BY DEF Extended, BufferOf
<1>2. f.total = b.total
  BY DEF Contradicts
<1> HIDE DEF e
<1>3. f.fec = b.fec /\ (b.fec # 0 => f.len = b.len)
  <2>1. CASE b = [frags |-> {}, total |-> f.total, fec |-> f.fec, len |-> f.len]
    BY <2>1
  <2>2. CASE BufferTrue(b, r)
    <3>1. PICK g \in b.frags : TRUE
      BY <2>2 DEF BufferTrue
    <3>2. g \in Range(r) /\ SameSplit(f, g) /\ g.fec = b.fec /\ (b.fec # 0 => g.len = b.len)
      BY <1>2, <2>2, <3>1 DEF BufferTrue, BufferOf, SameSplit
    <3> QED
      BY <3>2 DEF HonestReply
  <2> QED
    BY <2>1, <2>2
<1>4. e.total = b.total /\ e.fec = b.fec /\ (b.fec # 0 => e.len = b.len)
  BY <1>1, <1>3
<1>5. \A g \in b.frags : /\ g \in Range(r) /\ Valid(g)
                         /\ g.total = b.total /\ g.fec = b.fec /\ (b.fec # 0 => g.len = b.len)
  BY DEF BufferTrue
<1>6. \A g, h \in b.frags : g.seq = h.seq => g = h
  BY DEF BufferTrue
<1>7. BufferTrue(e, r)
  BY <1>1, <1>2, <1>3, <1>4, <1>5, <1>6 DEF BufferTrue
<1> QED
  BY <1>7 DEF e

\* What addFragment leaves, and what it returns.
Sound(s, f) ==
  /\ \A m \in DOMAIN s.bufs : BufferTrue(s.bufs[m], reply)
  /\ s.out \in {Null, Throws} \/ s.out = Data(f.msg)

LEMMA StoredTrue ==
  ASSUME LeakInv, PartsInv, NEW f \in Range(reply), Valid(f), NEW gone \in Evictions,
         f.msg \in DOMAIN buffers => \A g \in buffers[f.msg].frags : g.seq # f.seq
  PROVE  Sound(Stored(f, gone, BufferFor(f, gone)), f)
<1> DEFINE left  == Without(buffers, gone \cup {f.msg})
           b     == BufferFor(f, gone)
           e     == Extended(b, f)
           s     == Stored(f, gone, b)
<1> SUFFICES Sound(s, f)
  OBVIOUS
<1>1. HonestReply(reply)
  BY AnswersAssumption DEF PartsInv
<1>2. gone \in SUBSET DOMAIN buffers
  BY EvictionFits
<1>3. /\ DOMAIN left \subseteq DOMAIN buffers /\ f.msg \notin DOMAIN left
      /\ \A m \in DOMAIN left : left[m] = buffers[m]
  BY DEF Without
<1>4. BufferOf(f.msg, b) /\ f \notin b.frags
  BY <1>2, EvictionCounted
<1>5. f.msg \notin DOMAIN Without(buffers, gone) => ~Contradicts(f, b)
  BY <1>2, EvictionCounted
<1>6. \/ f.msg \in DOMAIN buffers \ gone /\ b = buffers[f.msg]
      \/ b = [frags |-> {}, total |-> f.total, fec |-> f.fec, len |-> f.len]
         /\ f.msg \notin DOMAIN Without(buffers, gone)
  BY DEF BufferFor, Without
<1>7. \A g \in b.frags : g.seq # f.seq
  BY <1>6
<1>8. \/ Contradicts(f, b) /\ s.bufs = WithBuffer(left, f.msg, b) /\ s.out = Throws
      \/ ~Contradicts(f, b) /\ Complete(e) /\ s.bufs = left /\ s.out = Assembled(e)
      \/ ~Contradicts(f, b) /\ s.bufs = WithBuffer(left, f.msg, e) /\ s.out = Null
  BY DEF Stored, WithBuffer
<1> HIDE DEF left, b, e, s
<1>9. \A m \in DOMAIN left : BufferTrue(left[m], reply)
  BY <1>3 DEF PartsInv
<1>10. ASSUME NEW c, BufferTrue(c, reply), NEW m \in DOMAIN WithBuffer(left, f.msg, c)
       PROVE  BufferTrue(WithBuffer(left, f.msg, c)[m], reply)
  BY <1>9, <1>10 DEF WithBuffer
<1>11. CASE Contradicts(f, b) /\ s.bufs = WithBuffer(left, f.msg, b) /\ s.out = Throws
  <2>1. BufferTrue(b, reply)
    BY <1>5, <1>6, <1>11 DEF PartsInv
  <2> QED
    BY <1>10, <1>11, <2>1 DEF Sound
<1>12. ~Contradicts(f, b) => BufferTrue(e, reply)
  <2>1. b = [frags |-> {}, total |-> f.total, fec |-> f.fec, len |-> f.len] \/ BufferTrue(b, reply)
    BY <1>6 DEF PartsInv
  <2> QED
    BY <1>1, <1>4, <1>7, <2>1, ExtendedTrue DEF e
<1>13. CASE ~Contradicts(f, b) /\ Complete(e) /\ s.bufs = left /\ s.out = Assembled(e)
  <2>1. BufferOf(f.msg, e) /\ e.frags = b.frags \cup {f}
    BY <1>4, ExtendedKeeps DEF e
  <2>2. Assembled(e) = Data(f.msg)
    BY <1>1, <1>12, <1>13, <2>1, AssembledTrue DEF BufferOf
  <2> QED
    BY <1>9, <1>13, <2>2 DEF Sound
<1>14. CASE ~Contradicts(f, b) /\ s.bufs = WithBuffer(left, f.msg, e) /\ s.out = Null
  BY <1>10, <1>12, <1>14 DEF Sound
<1> QED
  BY <1>8, <1>11, <1>13, <1>14

LEMMA AddFragmentTrue ==
  ASSUME LeakInv, PartsInv, NEW f \in Range(reply), NEW added \in AddFragment(f)
  PROVE  Sound(added, f)
<1>1. CASE added = [bufs |-> buffers, bytes |-> buffered, out |-> Throws]
           \/ added = [bufs |-> buffers, bytes |-> buffered, out |-> Null]
  <2>1. added.bufs = buffers /\ added.out \in {Null, Throws}
    BY <1>1
  <2> QED
    BY <2>1 DEF Sound, PartsInv
<1>2. CASE /\ Valid(f) /\ (f.msg \in DOMAIN buffers => \A g \in buffers[f.msg].frags : g.seq # f.seq)
           /\ \E gone \in Evictions : added = Stored(f, gone, BufferFor(f, gone))
  BY <1>2, StoredTrue
<1> QED
  BY <1>1, <1>2 DEF AddFragment

LEMMA FragmentIntact ==
  ASSUME LeakInv, PartsInv, NEW n \in DOMAIN reply, HandleFragment(reply[n]), UNCHANGED <<reply, limit>>
  PROVE  (\A m \in DOMAIN buffers' : BufferTrue(buffers'[m], reply)) /\ ReplyIntact'
<1> DEFINE f == reply[n]
<1>1. f \in Range(reply) /\ Data(f.msg) \in Seq(Bytes) /\ limit \in Nat
  BY AnswersAssumption DEF PartsInv, HonestReply, Range
<1>2. CASE UNCHANGED <<request, answer, buffers>>
  BY <1>2 DEF PartsInv, ReplyIntact
<1>3. CASE FailPending /\ UNCHANGED buffers
  BY <1>3 DEF PartsInv, ReplyIntact, FailPending
<1>4. CASE /\ request = "pending"
           /\ \E added \in AddFragment(f) :
                /\ buffers' = added.bufs
                /\ IF added.out \in {Null, Throws} THEN UNCHANGED request
                   ELSE IF Len(added.out) > limit THEN FailPending
                   ELSE request' = "resolved" /\ answer' = added.out
  <2>1. PICK added \in AddFragment(f) :
          /\ buffers' = added.bufs
          /\ IF added.out \in {Null, Throws} THEN UNCHANGED request
             ELSE IF Len(added.out) > limit THEN FailPending
             ELSE request' = "resolved" /\ answer' = added.out
    BY <1>4
  <2>2. Sound(added, f)
    BY <1>1, AddFragmentTrue
  <2>3. CASE added.out \in {Null, Throws} \/ Len(added.out) > limit
    BY <1>4, <2>1, <2>2, <2>3 DEF Sound, ReplyIntact, FailPending
  <2>4. CASE ~(added.out \in {Null, Throws} \/ Len(added.out) > limit)
    <3>1. answer' = Data(f.msg) /\ ~(Len(answer') > limit)
      BY <2>1, <2>2, <2>4 DEF Sound
    <3>2. Len(answer') <= limit'
      BY <1>1, <3>1
    <3> QED
      BY <2>1, <2>2, <3>1, <3>2 DEF Sound, ReplyIntact
  <2> QED
    BY <2>3, <2>4
<1> QED
  BY <1>2, <1>3, <1>4 DEF HandleFragment

LEMMA PartsStep ==
  ASSUME LeakInv, PartsInv, [Next]_vars
  PROVE  PartsInv'
<1>1. reply' = reply /\ limit' = limit
  BY DEF Next, Deliver, Lose, UploadBatch, UploadFails, CheckBurstStalls, StallTime, RequestFails,
         CleanUp, ExitSends, vars
<1>2. ASSUME UNCHANGED sent, \A item \in transit' : item \in transit,
             \A m \in DOMAIN buffers' : BufferTrue(buffers'[m], reply), ReplyIntact'
      PROVE  PartsInv'
  BY <1>1, <1>2 DEF PartsInv
<1>3. ASSUME UNCHANGED <<request, answer, buffers>>
      PROVE  (\A m \in DOMAIN buffers' : BufferTrue(buffers'[m], reply)) /\ ReplyIntact'
  BY <1>1, <1>3 DEF PartsInv, ReplyIntact
<1>4. ASSUME NEW item \in transit, Deliver(item)
      PROVE  PartsInv'
  <2>1. UNCHANGED sent /\ transit' = transit \ {item}
    BY <1>4 DEF Deliver
  <2>2. CASE registry # 0 /\ item.kind = "fragment"
    <3>1. item.n \in DOMAIN reply /\ HandleFragment(reply[item.n])
      BY <1>4, <2>2 DEF Deliver, PartsInv
    <3> QED
      BY <1>1, <1>2, <2>1, <3>1, FragmentIntact
  <2>3. CASE ~(registry # 0 /\ item.kind = "fragment")
    <3>1. UNCHANGED <<request, answer, buffers>>
      BY <1>4, <2>3 DEF Deliver, clientVars
    <3> QED
      BY <1>2, <1>3, <2>1, <3>1
  <2> QED
    BY <2>2, <2>3
<1>5. ASSUME NEW item \in transit, Lose(item)
      PROVE  PartsInv'
  BY <1>2, <1>3, <1>5 DEF Lose, clientVars
<1>6. ASSUME NEW i, NEW reach, UploadBatch(i, reach) \/ UploadFails(i, reach)
      PROVE  PartsInv'
  BY <1>2, <1>3, <1>6 DEF UploadBatch, UploadFails
<1>7. CASE CheckBurstStalls \/ StallTime \/ CleanUp \/ UNCHANGED vars
  BY <1>2, <1>3, <1>7 DEF CheckBurstStalls, StallTime, CleanUp, vars
<1>8. CASE RequestFails
  <2>1. UNCHANGED <<sent, transit, buffers>> /\ request' = "failed"
    BY <1>8 DEF RequestFails, FailPending
  <2> QED
    BY <1>2, <2>1 DEF PartsInv, ReplyIntact
<1>9. CASE ExitSends
  <2>1. reply \in Seq(Fragment) /\ sent \in 0..Len(reply)
    BY AnswersAssumption DEF PartsInv, HonestReply
  <2>2. Len(reply) \in Nat /\ DOMAIN reply = 1..Len(reply)
    BY <2>1
  <2>3. /\ sent < Len(reply) /\ sent' \in {sent, sent + 1}
        /\ \A item \in transit' : item \in transit \/ item.kind = "signal" \/ item.n = sent + 1
    BY <1>9 DEF ExitSends
  <2>4. sent' \in 0..Len(reply) /\ sent + 1 \in DOMAIN reply
    BY <2>1, <2>2, <2>3
  <2>5. UNCHANGED <<request, answer, buffers>>
    BY <1>9 DEF ExitSends, clientVars
  <2> QED
    BY <1>1, <1>3, <2>3, <2>4, <2>5 DEF PartsInv
<1> QED
  BY <1>4, <1>5, <1>6, <1>7, <1>8, <1>9 DEF Next

LEMMA PartsInit ==
  ASSUME Init
  PROVE  PartsInv
<1>1. /\ reply \in Answers /\ limit \in Limits /\ sent = 0 /\ transit = {} /\ buffers = <<>>
      /\ request = "pending"
  BY DEF Init
<1>2. Len(reply) \in Nat
  BY <1>1, AnswersAssumption DEF HonestReply
<1>3. DOMAIN buffers = {} /\ sent \in 0..Len(reply)
  BY <1>1, <1>2
<1> QED
  BY <1>1, <1>3 DEF PartsInv, ReplyIntact

\* Whatever fragments are lost, late, repeated or out of order, whichever shards fill
\* the gaps and whatever is evicted meanwhile, a reply the caller gets is, byte for
\* byte, a message the exit sent and within maxResponseBytes (addFragment, assemble,
\* _handleFragment).
THEOREM RepliesAreIntact == Spec => []ReplyIntact
<1>1. Init => PartsInv
  BY PartsInit
<1>2. LeakInv /\ PartsInv /\ [Next]_vars => PartsInv'
  BY PartsStep
<1>3. PartsInv => ReplyIntact
  BY DEF PartsInv
<1> QED
  BY <1>1, <1>2, <1>3, LeakInvariant, PTL DEF Spec

=============================================================================
