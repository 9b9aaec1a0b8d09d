---------------------------- MODULE TunnelProofs ----------------------------
(***************************************************************************)
(* Proofs about Tunnel, for any response, part size, number of copies and  *)
(* mishaps: TLS is fed one stream in order (the refinement of TlsStream),  *)
(* and the exit drops nothing that TLS has not been given.                 *)
(***************************************************************************)
EXTENDS Tunnel, FiniteSetTheorems, SequenceTheorems, WellFoundedInduction, TLAPS

-----------------------------------------------------------------------------
(* Induction over natural numbers, for a set of them                       *)

LEMMA LeastNatural ==
  ASSUME NEW T \in SUBSET Nat, T # {}
  PROVE  \E x \in T : \A y \in T : x <= y
<1>1. IsWellFoundedOn(OpToRel(<, Nat), Nat)
  BY NatLessThanWellFounded
<1>2. PICK x \in T : \A y \in T : ~(<<y, x>> \in OpToRel(<, Nat))
  BY <1>1, WFMin
<1>3. \A y \in T : ~(y < x)
  BY <1>2 DEF OpToRel
<1> QED
  BY <1>3

LEMMA NatSetInduction ==
  ASSUME NEW S \in SUBSET Nat, 0 \in S, \A n \in S : n + 1 \in S
  PROVE  S = Nat
<1> SUFFICES ASSUME Nat \ S # {}
             PROVE  FALSE
  OBVIOUS
<1>1. PICK x \in Nat \ S : \A y \in Nat \ S : x <= y
  BY LeastNatural
<1>2. x # 0 /\ x - 1 \in Nat
  BY <1>1
<1>3. x - 1 \in S
  BY <1>1, <1>2
<1> QED
  BY <1>1, <1>3

-----------------------------------------------------------------------------
(* The upstream's stream and the parts of it                               *)

\* A part holds the bytes of the stream from its offset on.
IsPart(off, data) == off \in Nat /\ data \in Seq(Nat) /\ data = Stream(off, off + Len(data))

LEMMA StreamBytes ==
  ASSUME NEW a \in Nat, NEW b \in Nat, a <= b
  PROVE  /\ Stream(a, b) \in Seq(Nat) /\ Len(Stream(a, b)) = b - a
         /\ \A i \in 1..(b - a) : Stream(a, b)[i] = a + i - 1
         /\ IsPart(a, Stream(a, b))
<1>1. b - a \in Nat /\ \A i \in 1..(b - a) : a + i - 1 \in Nat
  OBVIOUS
<1>2. Stream(a, b) \in [1..(b - a) -> Nat]
  BY <1>1 DEF Stream
<1>3. Stream(a, b) \in Seq(Nat) /\ Len(Stream(a, b)) = b - a
  BY <1>1, <1>2
<1>4. a + (b - a) = b
  OBVIOUS
<1> QED
  BY <1>1, <1>3, <1>4 DEF Stream, IsPart

LEMMA EmptyPart ==
  ASSUME NEW off \in Nat
  PROVE  IsPart(off, <<>>)
<1>1. Stream(off, off) \in Seq(Nat) /\ Len(Stream(off, off)) = 0
  BY StreamBytes
<1>2. Stream(off, off) = <<>>
  BY <1>1
<1> QED
  BY <1>2 DEF IsPart

\* A part by its bytes.
LEMMA PartBytes ==
  ASSUME NEW off \in Nat, NEW data \in Seq(Nat)
  PROVE  IsPart(off, data) <=> \A i \in 1..Len(data) : data[i] = off + i - 1
<1> DEFINE n == Len(data)
           whole == Stream(off, off + n)
<1>1. n \in Nat /\ off + n \in Nat /\ off <= off + n /\ (off + n) - off = n
  OBVIOUS
<1>2. whole \in Seq(Nat) /\ Len(whole) = n /\ \A i \in 1..n : whole[i] = off + i - 1
  BY <1>1, StreamBytes
<1>3. ASSUME \A i \in 1..n : data[i] = off + i - 1
      PROVE  data = whole
  <2> HIDE DEF whole
  <2> QED
    BY <1>1, <1>2, <1>3, SeqEqual
<1> QED
  BY <1>2, <1>3 DEF IsPart

\* push() of a part that starts in what was delivered extends it to the part's end.
LEMMA PushExtends ==
  ASSUME NEW out, IsPart(0, out), NEW off, NEW data, IsPart(off, data), off <= Len(out)
  PROVE  /\ IsPart(0, Push(out, off, data))
         /\ Len(Push(out, off, data))
              = IF off + Len(data) > Len(out) THEN off + Len(data) ELSE Len(out)
<1>1. /\ out \in Seq(Nat) /\ data \in Seq(Nat) /\ off \in Nat /\ Len(out) \in Nat /\ Len(data) \in Nat
      /\ out = Stream(0, Len(out)) /\ data = Stream(off, off + Len(data))
  BY DEF IsPart
<1>2. CASE off + Len(data) > Len(out)
  <2> DEFINE from == Len(out) - off + 1
             rest == SubSeq(data, from, Len(data))
             end  == off + Len(data)
  <2>1. from \in 1..Len(data) + 1 /\ Len(data) - from + 1 = end - Len(out) /\ end \in Nat
    BY <1>1, <1>2
  <2>2. /\ rest \in Seq(Nat) /\ Len(rest) = end - Len(out)
        /\ \A i \in 1..Len(rest) : rest[i] = data[from + i - 1]
    <3>1. from \in 1..Len(data) + 1 /\ Len(data) \in from - 1..Len(data)
      BY <1>1, <1>2
    <3>2. from <= Len(data) /\ from >= 1 /\ Len(data) \in Int /\ from \in Int
      BY <1>1, <1>2
    <3> QED
      BY <1>1, <2>1, <3>1, <3>2
  <2>3. \A i \in 1..Len(out) : out[i] = 0 + i - 1
    BY <1>1, PartBytes
  <2>4. \A i \in 1..Len(data) : data[i] = off + i - 1
    BY <1>1, PartBytes
  <2>5. \A i \in 1..Len(rest) : rest[i] = Len(out) + i - 1
    <3> TAKE i \in 1..Len(rest)
    <3>1. from + i - 1 \in 1..Len(data)
      BY <1>1, <2>1, <2>2
    <3> QED
      BY <1>1, <2>2, <2>4, <3>1
  <2> DEFINE whole == out \o rest
  <2>6. /\ whole \in Seq(Nat) /\ Len(whole) = end
        /\ \A i \in 1..Len(out) : whole[i] = out[i]
        /\ \A i \in Len(out) + 1..end : whole[i] = rest[i - Len(out)]
    BY <1>1, <2>1, <2>2
  <2>7. \A i \in 1..end : whole[i] = 0 + i - 1
    <3> TAKE i \in 1..end
    <3>1. CASE i \in 1..Len(out)
      BY <2>3, <2>6, <3>1
    <3>2. CASE i \in Len(out) + 1..end
      <4>1. i - Len(out) \in 1..Len(rest)
        BY <1>1, <2>1, <2>2, <3>2
      <4>2. rest[i - Len(out)] = Len(out) + (i - Len(out)) - 1
        BY <4>1, <2>5
      <4>3. whole[i] = rest[i - Len(out)] /\ i \in Int
        BY <1>1, <2>1, <2>6, <3>2
      <4>4. Len(out) + (i - Len(out)) - 1 = 0 + i - 1
        BY <1>1, <4>3
      <4> HIDE DEF whole, rest
      <4> QED
        BY <4>2, <4>3, <4>4
    <3> QED
      BY <1>1, <2>1, <3>1, <3>2
  <2>8. IsPart(0, whole)
    <3> HIDE DEF whole
    <3> QED
      BY <2>6, <2>7, PartBytes
  <2>9. Push(out, off, data) = whole
    BY <1>2 DEF Push
  <2> HIDE DEF whole
  <2> QED
    BY <1>2, <2>6, <2>8, <2>9
<1>3. CASE ~(off + Len(data) > Len(out))
  BY <1>1, <1>3 DEF Push, IsPart
<1> QED
  BY <1>2, <1>3

-----------------------------------------------------------------------------
(* Placing a part                                                          *)

\* Held parts are parts of the stream, and end by cap.
HeldParts(h, cap) ==
  /\ DOMAIN h \subseteq 0..cap
  /\ \A o \in DOMAIN h : IsPart(o, h[o]) /\ o + Len(h[o]) <= cap

\* What accept() keeps: a prefix of the stream that does not shrink and does not
\* pass cap, and held parts of it.
Placed(placed, from, cap) ==
  /\ IsPart(0, placed.out) /\ Len(placed.out) \in from..cap
  /\ HeldParts(placed.held, cap)

LEMMA DrainOneKeeps ==
  ASSUME NEW placed, NEW from \in Nat, NEW cap \in Nat, Placed(placed, from, cap)
  PROVE  Placed(DrainOne(placed), from, cap)
<1> DEFINE reached == {o \in DOMAIN placed.held : o <= Len(placed.out)}
<1>1. CASE reached = {}
  BY <1>1 DEF DrainOne
<1>2. CASE reached # {}
  <2> DEFINE o == CHOOSE x \in reached : TRUE
  <2>1. o \in reached
    BY <1>2
  <2>2. DrainOne(placed) = [out |-> Push(placed.out, o, placed.held[o]), held |-> Without(placed.held, o)]
    BY <1>2 DEF DrainOne
  <2> HIDE DEF o
  <2>3. o \in DOMAIN placed.held /\ o <= Len(placed.out)
    BY <2>1
  <2>4. IsPart(o, placed.held[o]) /\ o + Len(placed.held[o]) <= cap
    BY <2>3 DEF Placed, HeldParts
  <2> DEFINE longer == Push(placed.out, o, placed.held[o])
  <2>5. /\ IsPart(0, longer)
        /\ Len(longer) = IF o + Len(placed.held[o]) > Len(placed.out)
                            THEN o + Len(placed.held[o]) ELSE Len(placed.out)
    BY <2>3, <2>4, PushExtends DEF Placed
  <2> HIDE DEF longer
  <2>6. Len(longer) \in from..cap
    BY <2>4, <2>5 DEF Placed, IsPart
  <2>7. HeldParts(Without(placed.held, o), cap)
    BY DEF Placed, HeldParts, Without
  <2> QED
    BY <2>2, <2>5, <2>6, <2>7 DEF Placed, longer
<1> QED
  BY <1>1, <1>2

\* The loop of accept() is well defined: each round continues the one before.
LEMMA DrainRounds ==
  ASSUME NEW start, NEW rounds \in Nat
  PROVE  \E f : f = [n \in 0..rounds |-> IF n = 0 THEN start ELSE DrainOne(f[n - 1])]
<1> DEFINE S == {k \in Nat : \E f : f = [n \in 0..k |-> IF n = 0 THEN start ELSE DrainOne(f[n - 1])]}
<1>1. 0 \in S
  <2> DEFINE g == [n \in 0..0 |-> start]
  <2>1. g = [n \in 0..0 |-> IF n = 0 THEN start ELSE DrainOne(g[n - 1])]
    OBVIOUS
  <2> HIDE DEF g
  <2> QED
    BY <2>1
<1>2. ASSUME NEW k \in S
      PROVE  k + 1 \in S
  <2>1. PICK g : g = [n \in 0..k |-> IF n = 0 THEN start ELSE DrainOne(g[n - 1])]
    OBVIOUS
  <2> DEFINE h == [n \in 0..k + 1 |-> IF n = k + 1 THEN DrainOne(g[k]) ELSE g[n]]
  <2>2. ASSUME NEW n \in 0..k + 1
        PROVE  h[n] = IF n = 0 THEN start ELSE DrainOne(h[n - 1])
    <3>1. CASE n = 0
      BY <3>1, <2>1
    <3>2. CASE n \in 1..k
      BY <3>2, <2>1
    <3>3. CASE n = k + 1
      BY <3>3, <2>1
    <3> QED
      BY <3>1, <3>2, <3>3
  <2>3. h = [n \in 0..k + 1 |-> IF n = 0 THEN start ELSE DrainOne(h[n - 1])]
    BY <2>2
  <2> HIDE DEF h
  <2> QED
    BY <2>3
<1>3. S \in SUBSET Nat
  OBVIOUS
<1> HIDE DEF S
<1>4. S = Nat
  BY <1>1, <1>2, <1>3, NatSetInduction
<1> QED
  BY <1>4 DEF S

\* Whatever is held, the loop only appends the next bytes of the stream.
LEMMA DrainKeeps ==
  ASSUME NEW out, NEW h, NEW from \in Nat, NEW cap \in Nat,
         Placed([out |-> out, held |-> h], from, cap)
  PROVE  Placed(Drain(out, h), from, cap)
<1> DEFINE start == [out |-> out, held |-> h]
           rounds == Cardinality(DOMAIN h)
           f == CHOOSE g : g = [n \in 0..rounds |-> IF n = 0 THEN start ELSE DrainOne(g[n - 1])]
<1>1. rounds \in Nat
  <2>1. IsFiniteSet(0..cap)
    BY FS_Interval
  <2>2. IsFiniteSet(DOMAIN h)
    BY <2>1, FS_Subset DEF Placed, HeldParts
  <2> QED
    BY <2>2, FS_CardinalityType
<1>2. f = [n \in 0..rounds |-> IF n = 0 THEN start ELSE DrainOne(f[n - 1])]
  BY <1>1, DrainRounds
<1>3. Drain(out, h) = f[rounds]
  BY DEF Drain
<1> HIDE DEF f, rounds, start
<1> DEFINE S == {n \in Nat : n \in 0..rounds => Placed(f[n], from, cap)}
<1>4. 0 \in S
  BY <1>1, <1>2 DEF start
<1>5. ASSUME NEW n \in S
      PROVE  n + 1 \in S
  <2> SUFFICES ASSUME n + 1 \in 0..rounds
               PROVE  Placed(f[n + 1], from, cap)
    OBVIOUS
  <2>1. n \in 0..rounds /\ (n + 1) - 1 = n /\ n + 1 # 0
    BY <1>1
  <2>2. f[n + 1] = DrainOne(f[n])
    BY <1>2, <2>1
  <2> QED
    BY <2>1, <2>2, DrainOneKeeps
<1>6. S \in SUBSET Nat
  OBVIOUS
<1> HIDE DEF S
<1>7. S = Nat
  BY <1>4, <1>5, <1>6, NatSetInduction
<1> QED
  BY <1>1, <1>3, <1>7 DEF S

\* accept() of a part of the stream.
LEMMA AcceptKeeps ==
  ASSUME NEW cap \in Nat, IsPart(0, delivered), Len(delivered) <= cap, HeldParts(held, cap),
         NEW off, NEW data, IsPart(off, data), off + Len(data) <= cap
  PROVE  Placed(Accept(off, data), Len(delivered), cap)
<1>1. /\ off \in Nat /\ Len(data) \in Nat /\ Len(delivered) \in Nat /\ off \in 0..cap
      /\ Len(delivered) \in Len(delivered)..cap
  BY DEF IsPart
<1>2. CASE off + Len(data) <= Len(delivered)
  BY <1>1, <1>2 DEF Accept, Placed
<1>3. CASE ~(off + Len(data) <= Len(delivered)) /\ off > Len(delivered)
  <2> DEFINE h == IF off \in DOMAIN held /\ Len(held[off]) >= Len(data) THEN held
                  ELSE [o \in DOMAIN held \cup {off} |-> IF o = off THEN data ELSE held[o]]
  <2>1. HeldParts(h, cap)
    BY <1>1 DEF HeldParts
  <2>2. Accept(off, data) = [out |-> delivered, held |-> h]
    BY <1>3 DEF Accept
  <2> HIDE DEF h
  <2> QED
    BY <1>1, <2>1, <2>2 DEF Placed
<1>4. CASE ~(off + Len(data) <= Len(delivered)) /\ ~(off > Len(delivered))
  <2> DEFINE longer == Push(delivered, off, data)
  <2>1. off <= Len(delivered) /\ off + Len(data) > Len(delivered)
    BY <1>1, <1>4
  <2>2. IsPart(0, longer) /\ Len(longer) = off + Len(data)
    BY <2>1, PushExtends
  <2>3. Accept(off, data) = Drain(longer, held)
    BY <1>4 DEF Accept
  <2> HIDE DEF longer
  <2>4. Placed([out |-> longer, held |-> held], Len(delivered), cap)
    BY <1>1, <2>1, <2>2 DEF Placed
  <2> QED
    BY <1>1, <2>3, <2>4, DrainKeeps
<1> QED
  BY <1>2, <1>3, <1>4

-----------------------------------------------------------------------------
(* The inductive invariant                                                 *)

\* Where the current exchange is satisfied.
Mark == Marks[seq + 1]

TunnelTypeOK ==
  /\ call \in {"running", "ok", "failed"} /\ attempt \in Attempts /\ seq \in First..Last
  /\ \A a \in Attempts : exit[a].written \in Nat /\ exit[a].avail \in Nat /\ exit[a].dropped \in Nat
  /\ DOMAIN exit = Attempts
  /\ \A c \in wire : c.a \in Attempts /\ c.seq \in Nat /\ c.ack \in Nat

\* TLS has a prefix of the stream.
FedInOrder == IsPart(0, delivered) /\ Len(delivered) <= Total

\* The second tunnel is untouched before the retry.
SecondUntouched ==
  attempt = 0 => exit[1] = NewSession /\ \A c \in wire : c.a = 0

\* The exit is never ahead of the exchange that runs.
ExitBehind ==
  /\ exit[attempt].written <= seq + 1 /\ exit[attempt].avail <= Mark
  /\ exit[attempt].dropped <= Len(delivered)

\* Copies under way acknowledge what TLS has.
CopiesBehind == \A c \in wire : c.a = attempt => c.seq <= seq /\ c.ack <= Len(delivered)

\* Answers under way are parts of the stream.
AnswersOK ==
  /\ \A st \in streams : st.a = attempt /\ st.next \in 0..Mark
  /\ \A p \in parts : IsPart(p.off, p.data) /\ p.off + Len(p.data) <= Mark

\* While the call runs, its exchange is not satisfied yet.
Exchanging ==
  /\ Len(delivered) < Mark /\ HeldParts(held, Mark)
  /\ ExitBehind /\ CopiesBehind /\ AnswersOK

\* The inductive invariant.
TunnelInv ==
  /\ TunnelTypeOK /\ FedInOrder /\ SecondUntouched
  /\ IF call = "running" THEN Exchanging ELSE streams = {} /\ parts = {}

LEMMA MarksFacts ==
  /\ Len(Marks) \in Nat /\ Len(Marks) >= 2 /\ Last \in Nat /\ Last >= 1 /\ First \in {0, 1}
  /\ \A i \in 1..Len(Marks) : Marks[i] \in Nat /\ Marks[i] > 0
  /\ \A i \in 2..Len(Marks) : Marks[i - 1] < Marks[i]
  /\ Total = Marks[Last + 1] /\ Total \in Nat /\ PartSize \in Nat
<1>1. Marks \in Seq(Nat \ {0}) /\ RequestSeq \in 1..(Len(Marks) - 1) /\ Len(Marks) \in Nat
  BY TunnelAssumption
<1>2. Len(Marks) >= 2
  BY <1>1
<1>3. \A i \in 1..Len(Marks) : Marks[i] \in Nat /\ Marks[i] > 0
  BY <1>1
<1> QED
  BY <1>1, <1>2, <1>3, TunnelAssumption DEF Last, Total

\* Later exchanges are satisfied further along the stream.
LEMMA MarksGrow ==
  \A i, j \in 1..Len(Marks) : i <= j => Marks[i] <= Marks[j]
<1> DEFINE S == {n \in Nat : \A i \in 1..Len(Marks) :
                   i + n \in 1..Len(Marks) => Marks[i] <= Marks[i + n]}
<1>1. 0 \in S
  BY MarksFacts
<1>2. ASSUME NEW n \in S
      PROVE  n + 1 \in S
  <2> SUFFICES ASSUME NEW i \in 1..Len(Marks), i + (n + 1) \in 1..Len(Marks)
               PROVE  Marks[i] <= Marks[i + (n + 1)]
    OBVIOUS
  <2>1. i + n \in 1..Len(Marks) /\ i + (n + 1) \in 2..Len(Marks) /\ (i + (n + 1)) - 1 = i + n
    BY MarksFacts
  <2>2. Marks[i + n] < Marks[i + (n + 1)]
    BY <2>1, MarksFacts
  <2>3. Marks[i] <= Marks[i + n]
    BY <2>1
  <2> QED
    BY <2>1, <2>2, <2>3, MarksFacts, SMTT(30)
<1>3. S \in SUBSET Nat
  OBVIOUS
<1> HIDE DEF S
<1>4. S = Nat
  BY <1>1, <1>2, <1>3, NatSetInduction
<1> TAKE i, j \in 1..Len(Marks)
<1>5. ASSUME i <= j
      PROVE  j - i \in Nat /\ i + (j - i) = j
  BY <1>5, MarksFacts
<1> QED
  BY <1>4, <1>5 DEF S

\* The mark of an exchange.
LEMMA MarkBounds ==
  ASSUME NEW s \in First..Last
  PROVE  /\ s \in Nat /\ s + 1 \in 1..Len(Marks) /\ Marks[s + 1] \in Nat /\ Marks[s + 1] > 0
         /\ Marks[s + 1] <= Total
         /\ s = Last => Marks[s + 1] = Total
         /\ s # Last => s + 1 \in First..Last /\ Marks[s + 1] < Marks[s + 2] /\ Marks[s + 2] \in Nat
<1>1. s \in Nat /\ s + 1 \in 1..Len(Marks) /\ Len(Marks) \in 1..Len(Marks) /\ s + 1 <= Len(Marks)
      /\ Len(Marks) = Last + 1
  BY MarksFacts DEF Last
<1>2. Marks[s + 1] <= Total
  BY <1>1, MarksGrow DEF Total
<1>3. ASSUME s # Last
      PROVE  s + 1 \in First..Last /\ Marks[s + 1] < Marks[s + 2] /\ Marks[s + 2] \in Nat
  <2>1. s + 2 \in 2..Len(Marks) /\ s + 2 \in 1..Len(Marks) /\ (s + 2) - 1 = s + 1
    BY <1>1, <1>3, MarksFacts
  <2> QED
    BY <1>1, <1>3, <2>1, MarksFacts
<1> QED
  BY <1>1, <1>2, <1>3, MarksFacts

\* The handshake delivered a prefix that does not satisfy the first exchange.
LEMMA OpenedPrefix ==
  /\ IsPart(0, Opened) /\ Len(Opened) \in Nat /\ Len(Opened) < Marks[First + 1]
  /\ Len(Opened) <= Total /\ First \in First..Last
<1>1. First \in First..Last
  BY MarksFacts
<1>2. CASE First = 0
  <2>1. Opened = <<>> /\ Len(Opened) = 0
    BY <1>2 DEF Opened
  <2> QED
    BY <1>1, <1>2, <2>1, EmptyPart, MarksFacts
<1>3. CASE First = 1
  <2>1. Opened = Stream(0, Marks[1]) /\ 1 \in 1..Len(Marks) /\ 2 \in 2..Len(Marks) /\ 2 - 1 = 1
    BY <1>3, MarksFacts DEF Opened
  <2>2. Marks[1] \in Nat /\ Marks[1] < Marks[2] /\ Marks[2] \in Nat /\ 0 <= Marks[1]
    BY <2>1, MarksFacts
  <2>3. IsPart(0, Stream(0, Marks[1])) /\ Len(Stream(0, Marks[1])) = Marks[1] - 0
    BY <2>2, StreamBytes
  <2>4. Marks[First + 1] <= Total /\ Total \in Nat
    BY <1>1, MarkBounds, MarksFacts
  <2>5. First + 1 = 2
    BY <1>3
  <2>6. Marks[2] <= Total
    BY <2>4, <2>5
  <2>7. Len(Opened) < Marks[First + 1]
    BY <2>1, <2>2, <2>3, <2>5
  <2> QED
    BY <1>1, <2>1, <2>2, <2>3, <2>4, <2>6, <2>7
<1> QED
  BY <1>2, <1>3, MarksFacts

LEMMA CopyFields ==
  ASSUME NEW s, NEW ack, NEW n
  PROVE  /\ CopyOf(s, ack, n).a = attempt /\ CopyOf(s, ack, n).seq = s /\ CopyOf(s, ack, n).ack = ack
         /\ Teardown.a = attempt /\ Teardown.seq = seq + 1 /\ Teardown.ack = Len(delivered)
         /\ [CopyOf(s, ack, n) EXCEPT !.a = 1].a = 1
         /\ [CopyOf(s, ack, n) EXCEPT !.a = 1].seq = s
         /\ [CopyOf(s, ack, n) EXCEPT !.a = 1].ack = ack
  BY DEF CopyOf, Teardown

LEMMA TeardownFields ==
  ASSUME NEW ack
  PROVE  /\ [Teardown EXCEPT !.ack = ack].a = attempt
         /\ [Teardown EXCEPT !.ack = ack].seq = seq + 1
         /\ [Teardown EXCEPT !.ack = ack].ack = ack
  BY DEF CopyOf, Teardown

-----------------------------------------------------------------------------
(* The ends of an exchange                                                 *)

\* A call that fails leaves a teardown and nothing that listens.
LEMMA EndCallKeeps ==
  ASSUME TunnelInv, EndCall, UNCHANGED exit
  PROVE  TunnelInv'
<1>1. /\ streams' = {} /\ parts' = {} /\ call' = "failed" /\ wire' = wire \cup {Teardown}
      /\ UNCHANGED <<attempt, delivered, seq, exit>>
  BY DEF EndCall, NoListeners, ExchangeOver
<1>2. Teardown.a = attempt /\ Teardown.seq = seq + 1 /\ Teardown.ack = Len(delivered)
  BY CopyFields
<1>3. seq + 1 \in Nat /\ Len(delivered) \in Nat
  BY MarkBounds DEF TunnelInv, TunnelTypeOK, FedInOrder, IsPart
<1>4. TunnelTypeOK' /\ SecondUntouched' /\ FedInOrder'
  BY <1>1, <1>2, <1>3 DEF TunnelInv, TunnelTypeOK, SecondUntouched, FedInOrder
<1> QED
  BY <1>1, <1>4 DEF TunnelInv

\* The retry: the second session has dropped nothing, and its only copy
\* acknowledges what its handshake delivered.
LEMMA StartAgainKeeps ==
  ASSUME TunnelInv, StartAgain, attempt = 0, call = "running", UNCHANGED exit
  PROVE  TunnelInv'
<1> DEFINE first == [CopyOf(First, Len(Opened), 1) EXCEPT !.a = 1]
<1>1. /\ streams' = {} /\ parts' = {} /\ call' = "running" /\ wire' = wire \cup {Teardown, first}
      /\ attempt' = 1 /\ seq' = First /\ delivered' = Opened /\ held' = <<>> /\ exit' = exit
  BY DEF StartAgain, NoListeners
<1>2. /\ Teardown.a = 0 /\ Teardown.seq = seq + 1 /\ Teardown.ack = Len(delivered)
      /\ first.a = 1 /\ first.seq = First /\ first.ack = Len(Opened)
  BY CopyFields
<1> HIDE DEF first
<1>3. seq + 1 \in Nat /\ Len(delivered) \in Nat /\ First \in Nat
  BY MarkBounds, MarksFacts DEF TunnelInv, TunnelTypeOK, FedInOrder, IsPart
<1>4. Mark' = Marks[First + 1] /\ Marks[First + 1] \in Nat
  BY <1>1, OpenedPrefix, MarkBounds DEF Mark
<1>5. exit[1] = NewSession /\ \A c \in wire : c.a = 0
  BY DEF TunnelInv, SecondUntouched
<1>6. exit'[1].written = First /\ exit'[1].avail = Len(Opened) /\ exit'[1].dropped = 0
  BY <1>1, <1>5 DEF NewSession
<1>7. TunnelTypeOK'
  BY <1>1, <1>2, <1>3, OpenedPrefix DEF TunnelInv, TunnelTypeOK, Attempts
<1>8. FedInOrder' /\ SecondUntouched'
  BY <1>1, OpenedPrefix DEF FedInOrder, SecondUntouched
<1>9. HeldParts(held, Mark)' /\ Len(delivered') < Mark'
  BY <1>1, <1>4, OpenedPrefix DEF HeldParts
<1>10. ExitBehind' /\ CopiesBehind' /\ AnswersOK'
  <2>1. ExitBehind'
    BY <1>1, <1>3, <1>4, <1>6, OpenedPrefix DEF ExitBehind
  <2>2. CopiesBehind'
    BY <1>1, <1>2, <1>3, <1>5, OpenedPrefix DEF CopiesBehind
  <2> QED
    BY <1>1, <2>1, <2>2 DEF AnswersOK
<1> QED
  BY <1>1, <1>7, <1>8, <1>9, <1>10 DEF TunnelInv, Exchanging

LEMMA FailsKeeps ==
  ASSUME TunnelInv, NEW error, Fails(error), call = "running", UNCHANGED exit
  PROVE  TunnelInv'
  BY EndCallKeeps, StartAgainKeeps DEF Fails, Retriable

-----------------------------------------------------------------------------
(* The steps                                                               *)

\* A step of the exchange that only sends copies, acknowledging what TLS has.
LEMMA SendingKeeps ==
  ASSUME TunnelInv, UNCHANGED <<callVars, seq, streamVars, exit, answerVars>>,
         \A c \in wire' : c \in wire \/ (c.a = attempt /\ c.seq = seq /\ c.ack = Len(delivered))
  PROVE  TunnelInv'
<1>1. /\ UNCHANGED <<call, attempt, seq, delivered, held, exit, streams, parts>>
      /\ Mark' = Mark
  BY DEF callVars, streamVars, answerVars, Mark
<1>2. seq \in Nat /\ Len(delivered) \in Nat
  BY MarkBounds DEF TunnelInv, TunnelTypeOK, FedInOrder, IsPart
<1>3. TunnelTypeOK' /\ FedInOrder' /\ SecondUntouched'
  BY <1>1, <1>2 DEF TunnelInv, TunnelTypeOK, FedInOrder, SecondUntouched
<1>4. CASE call = "running"
  <2>1. CopiesBehind'
    BY <1>1, <1>2, <1>4 DEF TunnelInv, Exchanging, CopiesBehind
  <2>2. (Len(delivered) < Mark /\ HeldParts(held, Mark) /\ ExitBehind /\ AnswersOK)'
    BY <1>1, <1>4 DEF TunnelInv, Exchanging, ExitBehind, AnswersOK, HeldParts
  <2> QED
    BY <1>1, <1>3, <1>4, <2>1, <2>2 DEF TunnelInv, Exchanging
<1>5. CASE call # "running"
  BY <1>1, <1>3, <1>5 DEF TunnelInv
<1> QED
  BY <1>4, <1>5

\* onPart() of a data part.
LEMMA DataPartKeeps ==
  ASSUME TunnelInv, call = "running", NEW p \in parts, DataPart(p), UNCHANGED exit
  PROVE  TunnelInv'
<1> DEFINE placed == Accept(p.off, p.data)
           end == IF p.fin = "Eof" /\ eofAt = None THEN p.off + Len(p.data) ELSE eofAt
           ended == end # None /\ Len(placed.out) >= end
<1>1. Exchanging /\ TunnelTypeOK /\ FedInOrder /\ SecondUntouched
  BY DEF TunnelInv
<1>2. /\ Mark \in Nat /\ Mark <= Total /\ seq \in Nat /\ Total \in Nat
      /\ seq = Last => Mark = Total
      /\ seq # Last => seq + 1 \in First..Last /\ Mark < Marks[seq + 2] /\ Marks[seq + 2] \in Nat
  BY <1>1, MarkBounds, MarksFacts DEF TunnelTypeOK, Mark
<1>3. Len(delivered) \in Nat /\ Len(delivered) <= Mark /\ IsPart(0, delivered)
  BY <1>1, <1>2 DEF FedInOrder, IsPart, Exchanging
<1>4. Placed(placed, Len(delivered), Mark)
  BY <1>1, <1>2, <1>3, AcceptKeeps DEF Exchanging, AnswersOK
<1> HIDE DEF placed
<1>5. /\ IsPart(0, placed.out) /\ Len(placed.out) \in Nat /\ Len(placed.out) <= Mark
      /\ Len(placed.out) >= Len(delivered) /\ HeldParts(placed.held, Mark) /\ Len(placed.out) <= Total
  BY <1>2, <1>3, <1>4 DEF Placed, IsPart
<1>6. CASE ~(Len(placed.out) >= Mark \/ ~ended)
  BY <1>6, FailsKeeps DEF DataPart, placed, Mark
<1>7. CASE Len(placed.out) < Mark /\ ~ended
  <2>1. /\ delivered' = placed.out /\ held' = placed.held /\ UNCHANGED <<attempt, call, seq, streams, exit>>
        /\ parts' = parts \ {p}
        /\ wire' = wire \/ wire' = wire \cup {CopyOf(seq, Len(placed.out), copies + 1)}
    BY <1>7 DEF DataPart, placed, Mark, Send
  <2>2. Mark' = Mark
    BY <2>1 DEF Mark
  <2>3. \A c \in wire' : c \in wire \/ (c.a = attempt /\ c.seq = seq /\ c.ack = Len(placed.out))
    BY <2>1, CopyFields
  <2>4. TunnelTypeOK' /\ SecondUntouched'
    BY <1>1, <1>2, <1>5, <2>1, <2>3 DEF TunnelTypeOK, SecondUntouched
  <2>5. FedInOrder'
    BY <1>5, <2>1 DEF FedInOrder
  <2>6. Len(delivered') < Mark' /\ HeldParts(held, Mark)'
    BY <1>5, <1>7, <2>1, <2>2 DEF HeldParts
  <2>7. ExitBehind'
    BY <1>1, <1>3, <1>5, <2>1, <2>2 DEF TunnelTypeOK, Exchanging, ExitBehind
  <2>8. CopiesBehind'
    BY <1>1, <1>2, <1>3, <1>5, <2>1, <2>3 DEF TunnelTypeOK, Exchanging, CopiesBehind
  <2>9. AnswersOK'
    BY <1>1, <2>1, <2>2 DEF Exchanging, AnswersOK
  <2> QED
    BY <2>1, <2>4, <2>5, <2>6, <2>7, <2>8, <2>9 DEF TunnelInv, Exchanging
<1>8. CASE Len(placed.out) >= Mark /\ seq < Last
  <2>1. /\ delivered' = placed.out /\ held' = placed.held /\ UNCHANGED <<attempt, call, exit>>
        /\ streams' = {} /\ parts' = {} /\ seq' = seq + 1
        /\ wire' = wire \cup {CopyOf(seq + 1, Len(placed.out), 1)}
    <3>1. ~(Len(placed.out) < Mark)
      BY <1>2, <1>5, <1>8
    <3> QED
      BY <1>8, <3>1 DEF DataPart, placed, Mark, NextExchange, NoListeners
  <2>2. Mark' = Marks[seq + 2] /\ Mark < Mark' /\ Mark' \in Nat /\ seq + 1 \in First..Last
    <3>1. seq # Last /\ (seq + 1) + 1 = seq + 2
      BY <1>2, <1>8, MarksFacts
    <3> QED
      BY <1>2, <2>1, <3>1 DEF Mark
  <2>3. \A c \in wire' : c \in wire \/ (c.a = attempt /\ c.seq = seq + 1 /\ c.ack = Len(placed.out))
    BY <2>1, CopyFields
  <2>4. TunnelTypeOK' /\ SecondUntouched'
    BY <1>1, <1>2, <1>5, <2>1, <2>2, <2>3 DEF TunnelTypeOK, SecondUntouched
  <2>5. FedInOrder'
    BY <1>5, <2>1 DEF FedInOrder
  <2>6. Len(delivered') < Mark'
    BY <1>2, <1>5, <2>1, <2>2
  <2>7. HeldParts(held, Mark)'
    BY <1>2, <1>5, <2>1, <2>2 DEF HeldParts, IsPart
  <2>8. ExitBehind'
    BY <1>1, <1>2, <1>3, <1>5, <2>1, <2>2, SMTT(30) DEF TunnelTypeOK, Exchanging, ExitBehind
  <2>9. CopiesBehind'
    BY <1>1, <1>2, <1>3, <1>5, <2>1, <2>3 DEF TunnelTypeOK, Exchanging, CopiesBehind
  <2>10. AnswersOK'
    BY <2>1 DEF AnswersOK
  <2> QED
    BY <2>1, <2>4, <2>5, <2>6, <2>7, <2>8, <2>9, <2>10 DEF TunnelInv, Exchanging
<1>9. CASE Len(placed.out) >= Mark /\ ~(seq < Last)
  <2>1. /\ delivered' = placed.out /\ UNCHANGED <<attempt, seq, exit>>
        /\ streams' = {} /\ parts' = {} /\ call' = "ok"
        /\ wire' = wire \cup {[Teardown EXCEPT !.ack = Len(placed.out)]}
    <3>1. ~(Len(placed.out) < Mark)
      BY <1>2, <1>5, <1>9
    <3> QED
      BY <1>9, <3>1 DEF DataPart, placed, Mark, NoListeners, ExchangeOver
  <2>2. \A c \in wire' : c \in wire \/ (c.a = attempt /\ c.seq = seq + 1 /\ c.ack = Len(placed.out))
    BY <2>1, TeardownFields
  <2>3. TunnelTypeOK' /\ SecondUntouched'
    BY <1>1, <1>2, <1>5, <2>1, <2>2 DEF TunnelTypeOK, SecondUntouched
  <2>4. FedInOrder'
    BY <1>5, <2>1 DEF FedInOrder
  <2> QED
    BY <2>1, <2>3, <2>4 DEF TunnelInv
<1> QED
  BY <1>2, <1>5, <1>6, <1>7, <1>8, <1>9

\* A copy reaches the exit: it is not of a later exchange than the current one.
LEMMA ExitTakesKeeps ==
  ASSUME TunnelInv, NEW c \in wire, ExitTakes(c)
  PROVE  TunnelInv'
<1> DEFINE e == exit[c.a]
           heard == call = "running" /\ c.a = attempt /\ c.seq = seq /\ c.blocks > 0
<1>1. /\ wire' = wire \ {c} /\ Mark' = Mark
      /\ UNCHANGED <<call, attempt, seq, delivered, held>>
  BY DEF ExitTakes, callVars, exchangeVars, streamVars, Mark
<1>2. TunnelTypeOK /\ FedInOrder /\ SecondUntouched
  BY DEF TunnelInv
<1>3. /\ c.a \in Attempts /\ c.seq \in Nat /\ c.ack \in Nat /\ e.written \in Nat /\ e.dropped \in Nat
      /\ seq \in Nat /\ Mark \in Nat /\ DOMAIN exit = Attempts
  BY <1>2, MarkBounds DEF TunnelTypeOK, Mark
<1>4. FedInOrder'
  BY <1>1, <1>2 DEF FedInOrder
<1>5. CASE exit' = exit /\ streams' = streams
           /\ \/ parts' = parts
              \/ heard /\ \E code : parts' = parts \cup {Rejection(c, code)}
  <2>1. TunnelTypeOK' /\ SecondUntouched'
    BY <1>1, <1>2, <1>5 DEF TunnelTypeOK, SecondUntouched
  <2>2. CASE call = "running"
    <3>1. \A p \in parts' : p \in parts \/ (p.off = 0 /\ p.data = <<>>)
      BY <1>5 DEF Rejection
    <3>2. IsPart(0, <<>>) /\ 0 + Len(<<>>) <= Mark
      BY <1>3, EmptyPart
    <3>3. AnswersOK'
      BY <1>1, <1>5, <2>2, <3>1, <3>2 DEF TunnelInv, Exchanging, AnswersOK
    <3>4. (Len(delivered) < Mark /\ HeldParts(held, Mark) /\ ExitBehind /\ CopiesBehind)'
      BY <1>1, <1>5, <2>2 DEF TunnelInv, Exchanging, HeldParts, ExitBehind, CopiesBehind
    <3> QED
      BY <1>1, <1>4, <2>1, <2>2, <3>3, <3>4 DEF TunnelInv, Exchanging
  <2>3. CASE call # "running"
    BY <1>1, <1>4, <1>5, <2>1, <2>3 DEF TunnelInv
  <2> QED
    BY <2>2, <2>3
<1>6. CASE /\ c.seq <= e.written
           /\ exit' = [exit EXCEPT ![c.a] = [e EXCEPT !.written = IF c.seq = @ THEN @ + 1 ELSE @,
                                                       !.dropped = IF c.ack > @ THEN c.ack ELSE @,
                                                       !.known = c.blocks > 0]]
           /\ streams' = IF ~heard THEN streams
                         ELSE streams \cup {[a |-> c.a, seq |-> c.seq, n |-> c.n, next |-> c.ack, blocks |-> c.blocks]}
           /\ parts' = parts
  <2>1. /\ DOMAIN exit' = Attempts
        /\ \A a \in Attempts : a # c.a => exit'[a] = exit[a]
        /\ exit'[c.a].written = IF c.seq = e.written THEN e.written + 1 ELSE e.written
        /\ exit'[c.a].dropped = IF c.ack > e.dropped THEN c.ack ELSE e.dropped
        /\ exit'[c.a].avail = e.avail
    BY <1>3, <1>6
  <2>2. TunnelTypeOK'
    BY <1>1, <1>2, <1>3, <2>1 DEF TunnelTypeOK
  <2>3. SecondUntouched'
    BY <1>1, <1>2, <2>1 DEF SecondUntouched, Attempts
  <2>4. CASE call = "running"
    <3>1. ExitBehind'
      <4>1. CASE c.a = attempt
        <5>1. c.seq <= seq /\ c.ack <= Len(delivered)
          BY <2>4, <4>1 DEF TunnelInv, Exchanging, CopiesBehind
        <5>2. Len(delivered) \in Nat /\ ExitBehind
          BY <1>2, <2>4 DEF TunnelInv, Exchanging, FedInOrder, IsPart
        <5> QED
          BY <1>1, <1>3, <2>1, <4>1, <5>1, <5>2 DEF ExitBehind
      <4>2. CASE c.a # attempt
        BY <1>1, <1>2, <2>1, <2>4, <4>2 DEF TunnelInv, Exchanging, ExitBehind, TunnelTypeOK
      <4> QED
        BY <4>1, <4>2
    <3>2. AnswersOK'
      <4>1. \A st \in streams' : st \in streams \/ (st.a = attempt /\ st.next = c.ack /\ c.a = attempt)
        BY <1>6
      <4>2. c.a = attempt => c.ack \in 0..Mark
        BY <1>2, <1>3, <2>4 DEF TunnelInv, Exchanging, CopiesBehind, FedInOrder, IsPart
      <4> QED
        BY <1>1, <1>6, <2>4, <4>1, <4>2 DEF TunnelInv, Exchanging, AnswersOK
    <3>3. (Len(delivered) < Mark /\ HeldParts(held, Mark) /\ CopiesBehind)'
      BY <1>1, <2>4 DEF TunnelInv, Exchanging, HeldParts, CopiesBehind
    <3> QED
      BY <1>1, <1>4, <2>2, <2>3, <2>4, <3>1, <3>2, <3>3 DEF TunnelInv, Exchanging
  <2>5. CASE call # "running"
    BY <1>1, <1>4, <1>6, <2>2, <2>3, <2>5 DEF TunnelInv
  <2> QED
    BY <2>4, <2>5
<1> QED
  <2>1. CASE ~e.known \/ c.seq > e.written \/ (c.seq = e.written /\ e.ended /\ c.blocks > 0)
    BY <1>5, <2>1 DEF ExitTakes
  <2>2. CASE ~(~e.known \/ c.seq > e.written \/ (c.seq = e.written /\ e.ended /\ c.blocks > 0))
    BY <1>3, <1>6, <2>2 DEF ExitTakes
  <2> QED
    BY <2>1, <2>2

\* The exit answers with a part of the stream.
LEMMA AnsweringKeeps ==
  ASSUME TunnelInv, NEW st \in streams, ExitAnswers(st) \/ HoldExpires(st)
  PROVE  TunnelInv'
<1> DEFINE e == exit[st.a]
           from == IF st.next > e.dropped THEN st.next ELSE e.dropped
           to == IF from + PartSize < e.avail THEN from + PartSize ELSE e.avail
<1>1. UNCHANGED <<call, attempt, seq, delivered, held, exit, wire>> /\ Mark' = Mark
  BY DEF ExitAnswers, HoldExpires, callVars, exchangeVars, streamVars, Mark
<1>2. TunnelTypeOK /\ FedInOrder /\ SecondUntouched /\ call = "running" /\ Exchanging
  BY DEF TunnelInv
<1>3. /\ st.a = attempt /\ st.next \in 0..Mark /\ Mark \in Nat /\ e.dropped \in Nat /\ e.avail \in Nat
      /\ e.avail <= Mark /\ e.dropped <= Mark
  BY <1>2, MarkBounds DEF Exchanging, AnswersOK, ExitBehind, TunnelTypeOK, Mark, FedInOrder, IsPart
<1>4. from \in 0..Mark /\ to \in 0..Mark
  <2>1. from \in 0..Mark
    BY <1>3
  <2> HIDE DEF from, e
  <2>2. from + PartSize \in Nat
    BY <1>3, <2>1, MarksFacts
  <2>3. to \in 0..Mark
    BY <1>3, <2>1, <2>2
  <2> QED
    BY <2>1, <2>3
<1> HIDE DEF from, to
<1>5. IsPart(from, Stream(from, to)) /\ from + Len(Stream(from, to)) <= Mark
  <2>1. CASE from <= to
    <3>1. from \in Nat /\ to \in Nat
      BY <1>3, <1>4
    <3>2. IsPart(from, Stream(from, to)) /\ Len(Stream(from, to)) = to - from
      BY <2>1, <3>1, StreamBytes
    <3> QED
      BY <1>3, <1>4, <3>1, <3>2
  <2>2. CASE ~(from <= to)
    <3>1. 1..(to - from) = {}
      BY <1>3, <1>4, <2>2
    <3>2. Stream(from, to) = <<>>
      BY <3>1 DEF Stream
    <3>3. from \in Nat /\ Len(<<>>) = 0 /\ from + 0 <= Mark
      BY <1>3, <1>4
    <3> QED
      BY <3>2, <3>3, EmptyPart
  <2> QED
    BY <2>1, <2>2
<1>6. ASSUME NEW p \in parts'
      PROVE  IsPart(p.off, p.data) /\ p.off + Len(p.data) <= Mark
  <2>1. CASE p \in parts
    BY <1>2, <2>1 DEF Exchanging, AnswersOK
  <2>2. CASE p.off = from /\ p.data = Stream(from, to)
    BY <1>5, <2>2
  <2>3. CASE p.off = st.next /\ p.data = <<>>
    <3>1. st.next \in Nat /\ Len(<<>>) = 0 /\ st.next + 0 <= Mark
      BY <1>3
    <3> QED
      BY <2>3, <3>1, EmptyPart
  <2> QED
    BY <1>6, <2>1, <2>2, <2>3, SMTT(30) DEF ExitAnswers, HoldExpires, from, to
<1>7. ASSUME NEW t \in streams'
      PROVE  t.a = attempt /\ t.next \in 0..Mark
  <2>1. CASE t \in streams
    BY <1>2, <2>1 DEF Exchanging, AnswersOK
  <2>2. CASE t = [st EXCEPT !.next = to, !.blocks = @ - 1]
    BY <1>3, <1>4, <2>2
  <2> QED
    BY <1>7, <2>1, <2>2 DEF ExitAnswers, HoldExpires, from, to
<1>8. TunnelTypeOK' /\ FedInOrder' /\ SecondUntouched'
  BY <1>1, <1>2 DEF TunnelTypeOK, FedInOrder, SecondUntouched
<1>9. (Len(delivered) < Mark /\ HeldParts(held, Mark) /\ ExitBehind /\ CopiesBehind)'
  BY <1>1, <1>2 DEF Exchanging, HeldParts, ExitBehind, CopiesBehind
<1>10. AnswersOK'
  BY <1>1, <1>6, <1>7 DEF AnswersOK
<1> QED
  BY <1>1, <1>2, <1>8, <1>9, <1>10 DEF TunnelInv, Exchanging

\* The upstream's bytes, a lost session and an early end.
LEMMA UpstreamKeeps ==
  ASSUME TunnelInv, NEW a \in Attempts, UpstreamSends(a) \/ Trouble(a)
  PROVE  TunnelInv'
<1>1. /\ UNCHANGED <<call, attempt, seq, delivered, held, parts, wire>> /\ Mark' = Mark
      /\ streams' = streams \/ streams' = {}
      /\ a = attempt /\ call = "running"
  BY DEF UpstreamSends, Trouble, callVars, exchangeVars, streamVars, Mark
<1>2. TunnelTypeOK /\ FedInOrder /\ SecondUntouched /\ Exchanging
  BY <1>1 DEF TunnelInv
<1>3. /\ DOMAIN exit' = Attempts /\ \A b \in Attempts : b # a => exit'[b] = exit[b]
      /\ exit'[a].written = exit[a].written /\ exit'[a].dropped = exit[a].dropped
      /\ exit'[a].avail \in Nat /\ exit'[a].avail <= Mark
  <2>1. exit[a].avail \in Nat /\ exit[a].written \in Nat /\ exit[a].avail <= Mark /\ Mark \in Nat
    BY <1>1, <1>2, MarkBounds DEF TunnelTypeOK, Exchanging, ExitBehind, Mark
  <2>2. CASE UpstreamSends(a)
    <3>1. /\ exit[a].written \in 1..Len(Marks) /\ exit[a].avail < Marks[exit[a].written]
          /\ exit' = [exit EXCEPT ![a].avail = @ + 1]
      BY <2>1, <2>2, MarksFacts DEF UpstreamSends
    <3>2. exit[a].written <= seq + 1 /\ seq + 1 \in 1..Len(Marks)
      BY <1>1, <1>2, MarkBounds DEF Exchanging, ExitBehind, TunnelTypeOK
    <3>3. Marks[exit[a].written] <= Mark /\ Marks[exit[a].written] \in Nat
      BY <3>1, <3>2, MarksGrow, MarksFacts DEF Mark
    <3> QED
      BY <1>2, <2>1, <3>1, <3>3 DEF TunnelTypeOK
  <2>3. CASE Trouble(a)
    <3>1. DOMAIN exit = Attempts
      BY <1>2 DEF TunnelTypeOK
    <3>2. CASE exit' = [exit EXCEPT ![a].known = FALSE]
      BY <2>1, <3>1, <3>2
    <3>3. CASE exit' = [exit EXCEPT ![a].ended = TRUE]
      BY <2>1, <3>1, <3>3
    <3> QED
      BY <2>3, <3>2, <3>3 DEF Trouble
  <2> QED
    BY <2>2, <2>3
<1>4. TunnelTypeOK' /\ FedInOrder'
  BY <1>1, <1>2, <1>3 DEF TunnelTypeOK, FedInOrder
<1>5. SecondUntouched'
  BY <1>1, <1>2, <1>3 DEF SecondUntouched, Attempts
<1>6. (Len(delivered) < Mark /\ HeldParts(held, Mark) /\ ExitBehind /\ CopiesBehind /\ AnswersOK)'
  <2>1. ExitBehind'
    BY <1>1, <1>2, <1>3 DEF Exchanging, ExitBehind
  <2>2. (Len(delivered) < Mark /\ HeldParts(held, Mark) /\ CopiesBehind /\ AnswersOK)'
    BY <1>1, <1>2 DEF Exchanging, HeldParts, CopiesBehind, AnswersOK
  <2> QED
    BY <2>1, <2>2
<1> QED
  BY <1>1, <1>4, <1>5, <1>6 DEF TunnelInv, Exchanging

\* A packet or a part is lost.
LEMMA LoseKeeps ==
  ASSUME TunnelInv, Lose
  PROVE  TunnelInv'
<1>1. /\ UNCHANGED <<call, attempt, seq, delivered, held, exit, streams>> /\ Mark' = Mark
      /\ wire' \subseteq wire /\ parts' \subseteq parts
  BY DEF Lose, callVars, exchangeVars, streamVars, Mark
<1>2. TunnelTypeOK' /\ FedInOrder' /\ SecondUntouched'
  BY <1>1 DEF TunnelInv, TunnelTypeOK, FedInOrder, SecondUntouched
<1>3. ASSUME call = "running"
      PROVE  Exchanging'
  BY <1>1, <1>3 DEF TunnelInv, Exchanging, HeldParts, ExitBehind, CopiesBehind, AnswersOK
<1> QED
  BY <1>1, <1>2, <1>3 DEF TunnelInv

LEMMA TunnelStep == TunnelInv /\ [Next]_vars => TunnelInv'
<1> SUFFICES ASSUME TunnelInv, [Next]_vars
             PROVE  TunnelInv'
  OBVIOUS
<1>0. parts # {} => call = "running"
  BY DEF TunnelInv
<1>1. ASSUME NEW p \in parts, OnPart(p)
      PROVE  TunnelInv'
  BY <1>0, <1>1, FailsKeeps, DataPartKeeps DEF OnPart
<1>2. ASSUME NEW p \in parts, GarbledPart(p)
      PROVE  TunnelInv'
  BY <1>2, EndCallKeeps DEF GarbledPart
<1>3. ASSUME NEW c \in wire, ExitTakes(c)
      PROVE  TunnelInv'
  BY <1>3, ExitTakesKeeps
<1>4. ASSUME NEW c \in wire, UploadFails(c)
      PROVE  TunnelInv'
  <2>1. UNCHANGED <<callVars, seq, streamVars, exit, answerVars>>
    BY <1>4 DEF UploadFails
  <2>2. wire' \subseteq wire \cup {CopyOf(seq, Len(delivered), copies + 1)}
    BY <1>4 DEF UploadFails
  <2> QED
    BY <2>1, <2>2, CopyFields, SendingKeeps
<1>5. ASSUME NEW st \in streams, ExitAnswers(st) \/ HoldExpires(st)
      PROVE  TunnelInv'
  BY <1>5, AnsweringKeeps
<1>6. ASSUME NEW a \in Attempts, UpstreamSends(a) \/ Trouble(a)
      PROVE  TunnelInv'
  BY <1>6, UpstreamKeeps
<1>7. CASE Silence \/ GapStaysOpen
  <2>1. UNCHANGED <<callVars, seq, streamVars, exit, answerVars>>
    BY <1>7 DEF Silence, GapStaysOpen
  <2>2. wire' \subseteq wire \cup {CopyOf(seq, Len(delivered), copies + 1)}
    BY <1>7 DEF Silence, GapStaysOpen, TimedCopy, Send
  <2> QED
    BY <2>1, <2>2, CopyFields, SendingKeeps
<1>8. CASE GivesUp
  BY <1>8, EndCallKeeps DEF GivesUp
<1>9. CASE Lose
  BY <1>9, LoseKeeps
<1>10. CASE UNCHANGED vars
  BY <1>10, SendingKeeps DEF vars, callVars, streamVars, answerVars
<1> QED
  BY <1>1, <1>2, <1>3, <1>4, <1>5, <1>6, <1>7, <1>8, <1>9, <1>10 DEF Next

LEMMA TunnelInitInv == Init => TunnelInv
<1> SUFFICES ASSUME Init
             PROVE  TunnelInv
  OBVIOUS
<1>1. /\ call = "running" /\ attempt = 0 /\ seq = First /\ delivered = Opened /\ held = <<>>
      /\ exit = [a \in Attempts |-> NewSession] /\ wire = {CopyOf(First, Len(Opened), 1)}
      /\ streams = {} /\ parts = {}
  BY DEF Init
<1>2. \A c \in wire : c.a = 0 /\ c.seq = First /\ c.ack = Len(Opened)
  BY <1>1, CopyFields
<1>3. \A a \in Attempts : /\ exit[a] = NewSession /\ exit[a].written = First
                          /\ exit[a].avail = Len(Opened) /\ exit[a].dropped = 0
  BY <1>1 DEF NewSession
<1>4. Mark = Marks[First + 1] /\ Mark \in Nat /\ First \in Nat
  BY <1>1, OpenedPrefix, MarkBounds, MarksFacts DEF Mark
<1>5. TunnelTypeOK
  BY <1>1, <1>2, <1>3, <1>4, OpenedPrefix DEF TunnelTypeOK, Attempts
<1>6. FedInOrder /\ SecondUntouched
  BY <1>1, <1>2, <1>3, OpenedPrefix DEF FedInOrder, SecondUntouched, Attempts
<1>7. HeldParts(held, Mark) /\ Len(delivered) < Mark
  BY <1>1, <1>4, OpenedPrefix DEF HeldParts
<1>8. ExitBehind /\ CopiesBehind /\ AnswersOK
  BY <1>1, <1>2, <1>3, <1>4, OpenedPrefix DEF ExitBehind, CopiesBehind, AnswersOK, Attempts
<1> QED
  BY <1>1, <1>5, <1>6, <1>7, <1>8 DEF TunnelInv, Exchanging

\* The exit drops only what TLS was given, for any stream, part size and number of
\* copies: every copy acknowledges what was delivered in order (channel.ts: accept;
\* tunnel.ts: send), so no later copy can ask for bytes that are gone.
THEOREM NoGapForGood == Spec => []DroppedWasDelivered
<1>1. TunnelInv => DroppedWasDelivered
  BY DEF TunnelInv, Exchanging, ExitBehind, DroppedWasDelivered
<1> QED
  BY <1>1, TunnelInitInv, TunnelStep, PTL DEF Spec

-----------------------------------------------------------------------------
(* The refinement of TlsStream                                             *)

\* A prefix of the stream is what TlsStream hands out for its length.
LEMMA PrefixOfSource ==
  ASSUME NEW out, IsPart(0, out), Len(out) <= Total
  PROVE  /\ out = SubSeq(Stream(0, Total), 1, Len(out)) /\ Len(Stream(0, Total)) = Total
         /\ Len(out) \in Nat
<1>1. Total \in Nat /\ 0 <= Total /\ out \in Seq(Nat) /\ Len(out) \in Nat
  BY MarksFacts DEF IsPart
<1>2. /\ Stream(0, Total) \in Seq(Nat) /\ Len(Stream(0, Total)) = Total - 0
      /\ \A i \in 1..(Total - 0) : Stream(0, Total)[i] = 0 + i - 1
  BY <1>1, StreamBytes
<1>3. \A i \in 1..Len(out) : out[i] = 0 + i - 1
  BY <1>1, PartBytes
<1> DEFINE source == Stream(0, Total)
           prefix == SubSeq(source, 1, Len(out))
<1>4. Len(source) = Total
  BY <1>1, <1>2
<1> HIDE DEF source
<1>5. /\ prefix \in Seq(Nat) /\ Len(prefix) = Len(out)
      /\ \A i \in 1..Len(out) : prefix[i] = source[i]
  BY <1>1, <1>2, <1>4 DEF source
<1>6. \A i \in 1..Len(out) : prefix[i] = out[i]
  BY <1>1, <1>2, <1>3, <1>4, <1>5 DEF source
<1> HIDE DEF prefix
<1>7. out = prefix
  BY <1>1, <1>5, <1>6, SeqEqual
<1> QED
  BY <1>1, <1>4, <1>7 DEF prefix, source

\* Two prefixes of one length are the same.
LEMMA PrefixByLength ==
  ASSUME NEW s, NEW t, IsPart(0, s), IsPart(0, t), Len(s) = Len(t)
  PROVE  s = t
  BY DEF IsPart

\* A data part extends the stream, or says nothing new, or fails the exchange.
LEMMA DataPartRefines ==
  ASSUME TunnelInv, TunnelInv', call = "running", NEW p \in parts, DataPart(p)
  PROVE  \/ Fails("truncated")
         \/ Promise!Extend
         \/ UNCHANGED <<delivered, attempt, call>>
<1> SUFFICES ASSUME ~Fails("truncated")
             PROVE  Promise!Extend \/ UNCHANGED <<delivered, attempt, call>>
  OBVIOUS
<1> DEFINE placed == Accept(p.off, p.data)
<1>1. Exchanging /\ TunnelTypeOK /\ FedInOrder
  BY DEF TunnelInv
<1>2. Mark \in Nat /\ (seq = Last => Mark = Total) /\ Total \in Nat /\ seq \in First..Last
  BY <1>1, MarkBounds, MarksFacts DEF TunnelTypeOK, Mark
<1>3. Len(delivered) \in Nat /\ Len(delivered) <= Mark /\ IsPart(0, delivered) /\ Len(delivered) < Mark
  BY <1>1, <1>2 DEF FedInOrder, IsPart, Exchanging
<1>4. Placed(placed, Len(delivered), Mark)
  BY <1>1, <1>2, <1>3, AcceptKeeps DEF Exchanging, AnswersOK
<1>5. delivered' = placed.out /\ attempt' = attempt
  BY DEF DataPart
<1> HIDE DEF placed
<1>7. IsPart(0, delivered') /\ Len(delivered') \in Nat /\ Len(delivered') >= Len(delivered)
      /\ Len(delivered') <= Mark /\ Len(delivered') <= Total
  BY <1>2, <1>3, <1>4, <1>5 DEF Placed, IsPart, TunnelInv, FedInOrder
<1>8. \/ call' = "running"
      \/ call' = "ok" /\ Len(delivered') = Total
  <2>1. CASE Len(placed.out) < Mark
    BY <2>1 DEF DataPart, Mark, placed
  <2>2. CASE ~(Len(placed.out) < Mark) /\ seq < Last
    BY <2>2 DEF DataPart, Mark, placed
  <2>3. CASE ~(Len(placed.out) < Mark) /\ ~(seq < Last)
    <3>1. call' = "ok"
      BY <2>3 DEF DataPart, Mark, placed
    <3>2. seq = Last
      BY <1>2, <2>3, MarksFacts
    <3> QED
      BY <1>2, <1>5, <1>7, <2>3, <3>1, <3>2
  <2> QED
    BY <2>1, <2>2, <2>3
<1>9. CASE Len(delivered') = Len(delivered)
  <2>1. delivered' = delivered
    BY <1>3, <1>7, <1>9, PrefixByLength
  <2>2. call' = call
    <3>1. Len(placed.out) < Mark
      BY <1>2, <1>3, <1>5, <1>9
    <3> QED
      BY <3>1 DEF DataPart, Mark, placed
  <2> QED
    BY <1>5, <2>1, <2>2
<1>10. CASE Len(delivered') # Len(delivered)
  <2>1. /\ delivered' = SubSeq(Stream(0, Total), 1, Len(delivered'))
        /\ Len(Stream(0, Total)) = Total
    BY <1>7, PrefixOfSource
  <2>2. Len(delivered') \in (Len(delivered) + 1)..Len(Stream(0, Total))
    BY <1>2, <1>3, <1>7, <1>10, <2>1
  <2>3. call' \in (IF Len(delivered') = Len(Stream(0, Total)) THEN {"running", "ok"} ELSE {"running"})
    BY <1>8, <2>1
  <2> QED
    BY <1>5, <2>1, <2>2, <2>3 DEF Promise!Extend
<1> QED
  BY <1>9, <1>10

\* A failed exchange starts over or fails the call.
LEMMA FailsRefines ==
  ASSUME call = "running", NEW error, Fails(error)
  PROVE  Promise!StartOver \/ Promise!Fail
  BY DEF Fails, Retriable, StartAgain, EndCall, Promise!StartOver, Promise!Fail

LEMMA EndCallRefines ==
  ASSUME call = "running", EndCall
  PROVE  Promise!Fail
  BY DEF EndCall, Promise!Fail

LEMMA TunnelRefines ==
  TunnelInv /\ TunnelInv' /\ [Next]_vars => [Promise!Next]_<<delivered, attempt, call>>
<1> SUFFICES ASSUME TunnelInv, TunnelInv', [Next]_vars
             PROVE  Promise!Next \/ UNCHANGED <<delivered, attempt, call>>
  OBVIOUS
<1>0. parts # {} => call = "running"
  BY DEF TunnelInv
<1>1. ASSUME NEW p \in parts, OnPart(p)
      PROVE  Promise!Next \/ UNCHANGED <<delivered, attempt, call>>
  <2>1. CASE \E error : Fails(error)
    BY <1>0, <2>1, FailsRefines DEF Promise!Next
  <2>2. CASE DataPart(p)
    BY <1>0, <2>1, <2>2, DataPartRefines DEF Promise!Next
  <2> QED
    BY <1>1, <2>1, <2>2 DEF OnPart
<1>2. ASSUME NEW p \in parts, GarbledPart(p)
      PROVE  Promise!Next
  BY <1>0, <1>2, EndCallRefines DEF GarbledPart, Promise!Next
<1>3. CASE GivesUp
  BY <1>3, EndCallRefines DEF GivesUp, Promise!Next
<1>4. CASE \/ \E c \in wire : ExitTakes(c) \/ UploadFails(c)
           \/ \E st \in streams : ExitAnswers(st) \/ HoldExpires(st)
           \/ \E a \in Attempts : UpstreamSends(a) \/ Trouble(a)
           \/ Silence \/ GapStaysOpen \/ Lose
  BY <1>4, ZenonT(40) DEF ExitTakes, UploadFails, ExitAnswers, HoldExpires, UpstreamSends, Trouble, Silence,
              GapStaysOpen, Lose, callVars, streamVars
<1>5. CASE UNCHANGED vars
  BY <1>5 DEF vars
<1> QED
  BY <1>1, <1>2, <1>3, <1>4, <1>5 DEF Next

\* The tunnel implements TlsStream for any response, part size, loss, duplication
\* and order of copies and parts: every step either feeds TLS the next bytes of the
\* one stream, or starts over once from the handshake, or fails the call, or is
\* invisible, and only the whole response succeeds (channel.ts: accept, push;
\* tunnel.ts: onPart; transport.ts: exchange).
THEOREM TunnelImplementsTlsStream == Spec => StreamInOrder
<1>1. Init => Promise!Init
  BY DEF Init, Promise!Init
<1>2. Spec => []TunnelInv
  BY TunnelInitInv, TunnelStep, PTL DEF Spec
<1> QED
  BY <1>1, <1>2, TunnelRefines, PTL DEF Spec, StreamInOrder, Promise!Spec
=============================================================================
