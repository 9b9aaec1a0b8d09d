---------------------------- MODULE MCTopology ----------------------------
EXTENDS Topology

CONSTANTS r1, r2, x1, x2, n, p1, p2, p3

P(key, url, reachable) == [key |-> key, url |-> url, kps |-> reachable, ok |-> TRUE]

MCRole == [m \in Members |-> IF m \in {r1, r2} THEN 1 ELSE 3]

MCPinned == r1 :> P(1, 1, TRUE) @@ r2 :> P(1, 1, TRUE) @@ x1 :> P(1, 1, FALSE) @@ x2 :> P(1, 1, FALSE)

MCOrder == <<r1, r2, x1, x2>>

\* n registers and r2 leaves; then both exits change their keys.
MCSecond == r1 :> P(1, 1, TRUE) @@ x1 :> P(1, 1, FALSE) @@ x2 :> P(1, 1, FALSE) @@ n :> P(1, 1, TRUE)

MCThird == r1 :> P(1, 2, TRUE) @@ x1 :> P(2, 1, FALSE) @@ x2 :> P(2, 1, FALSE) @@ n :> P(1, 1, TRUE)

MCChain == <<MCPinned, MCSecond, MCThird>>

\* Both exits change their keys at once, then nothing changes any more.
MCRekeyed == r1 :> P(1, 1, TRUE) @@ x1 :> P(2, 1, FALSE) @@ x2 :> P(2, 1, FALSE) @@ n :> P(1, 1, TRUE)

MCRekeyedChain == <<MCPinned, MCRekeyed, MCRekeyed>>

\* A faulty anchor lists itself alone, or everybody elsewhere and offline.
MCForged(a, b) ==
  {[anchor |-> a, block |-> b + 1, sound |-> TRUE, lists |-> a :> [key |-> 1, url |-> 1],
    online |-> {a}],
   [anchor |-> a, block |-> b + 1, sound |-> TRUE,
    lists |-> [m \in Members |-> [key |-> 1, url |-> 9]], online |-> {a}]}

MCForgedRegistry == {r2 :> P(1, 9, TRUE)}
===========================================================================
