----------------------------- MODULE MCClassic -----------------------------
(* Instances for TLC of what serves the classic mode: the claim scheduler,   *)
(* the seeds and the response WebSocket.  One of them moves, the others rest.*)
EXTENDS MCReplyClaims, Seeds, ReplySocket

CONSTANTS a, b, x, seed

Member(m, key, version, eligible) ==
  [key |-> key, ingress |-> <<m, version>>, eligible |-> eligible]
Registry(ofA, ofB, ofX) == [m \in {a, b, x} |-> CASE m = a -> ofA [] m = b -> ofB [] m = x -> ofX]

\* x has no usable ingress; b is frozen for a block; a changes its key, then its
\* ingress, and x its key.
MCChain ==
  <<Registry(Member(a, 1, 1, TRUE), Member(b, 1, 1, TRUE), Member(x, 1, 0, TRUE)),
    Registry(Member(a, 2, 1, TRUE), Member(b, 1, 1, FALSE), Member(x, 1, 0, TRUE)),
    Registry(Member(a, 2, 2, TRUE), Member(b, 1, 1, TRUE), Member(x, 2, 0, TRUE))>>

\* A seed of its own, and the ingress of a node.
MCSeeds == <<<<seed, 1>>, <<b, 1>>>>

MCSeen == {{a, b, x}, {a, x}, {x}}

\* Profiles of another block, an old document, one whose fields disagree.
MCForged == {[DocOf(1, {a, b, x}) EXCEPT !.block = 2], [DocOf(1, {a, b, x}) EXCEPT !.old = TRUE],
             [DocOf(1, {a, b, x}) EXCEPT !.sound = FALSE]}

VARIABLE part      \* which one moves

MCInit ==
  /\ Init /\ SeedInit
  /\ \/ part \in {"claims", "seeds"} /\ SocketInit /\ ws = [at |-> a, state |-> "dead"]
     \/ part = "socket" /\ SocketInit
MCNext ==
  /\ \/ part = "claims" /\ Next       /\ UNCHANGED <<seedVars, socketVars>>
     \/ part = "seeds"  /\ SeedNext   /\ UNCHANGED <<vars, socketVars>>
     \/ part = "socket" /\ SocketNext /\ UNCHANGED <<vars, seedVars>>
  /\ UNCHANGED part
MCSpec == MCInit /\ [][MCNext]_<<vars, seedVars, socketVars, part>>

\* The seeds alone, with what they are owed.
SeedSpec == /\ MCInit /\ part = "seeds" /\ [][MCNext]_<<vars, seedVars, socketVars, part>>
            /\ SeedFairness
=============================================================================
