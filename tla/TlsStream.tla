----------------------------- MODULE TlsStream -----------------------------
(***************************************************************************)
(* What a call through a TLS tunnel promises its caller: TLS is fed a      *)
(* prefix of one upstream stream, without a gap, a repetition or a change  *)
(* of order; the call starts over at most once, from its handshake; and it *)
(* succeeds only with the whole response.                                  *)
(***************************************************************************)
EXTENDS Naturals, Sequences

CONSTANTS
  Source,    \* the bytes the upstream sends
  Opened     \* those of the handshake
VARIABLES out, tries, result

Init == out = Opened /\ tries = 0 /\ result = "running"

Extend ==
  /\ result = "running"
  /\ \E n \in (Len(out) + 1)..Len(Source) : out' = SubSeq(Source, 1, n)
  /\ result' \in (IF Len(out') = Len(Source) THEN {"running", "ok"} ELSE {"running"})
  /\ UNCHANGED tries

StartOver == result = "running" /\ tries = 0 /\ tries' = 1 /\ out' = Opened /\ UNCHANGED result

Fail == result = "running" /\ result' = "failed" /\ UNCHANGED <<out, tries>>

Next == Extend \/ StartOver \/ Fail
Spec == Init /\ [][Next]_<<out, tries, result>>
=============================================================================
