----------------------------- MODULE MCSendCall -----------------------------
(* Instances of SendCall for TLC. *)
EXTENDS SendCall, TLC

CONSTANTS c1, c2, e1, e2

OneCall == {c1}
TwoCalls == {c1, c2}
OneEntry == {e1}
TwoEntries == {e1, e2}
EveryMode == {"none", "route", "exit"}
Resendable == {"route"}
OnlyV2 == {2}
AutoVersions == {1, 2}

Symmetry == Permutations(TwoCalls) \cup Permutations(TwoEntries)
=============================================================================
