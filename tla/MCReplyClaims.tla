--------------------------- MODULE MCReplyClaims ---------------------------
(* Instances of ReplyClaims for TLC. *)
EXTENDS ReplyClaims

NoStreams == {}
SecondIsStream == {2}
EveryKind == {"fragment", "need_more", "corrupt", "invalid", "oversize"}
Fragments == {"fragment"}
BothVersions == {[v2 |-> TRUE, wait |-> "some"], [v2 |-> FALSE, wait |-> "zero"]}
V2Entry == {[v2 |-> TRUE, wait |-> "some"]}
OnlyClaimed == {FALSE}
SkippedFirst == {TRUE}
=============================================================================
