----------------------------- MODULE MCKpsPool ------------------------------
(* Instances for TLC of KpsPool, of the KpsHttp codec on its streams and of  *)
(* the Cover traffic that is posted through it.  The three share no variable *)
(* here: one of them moves, the others rest.                                 *)
EXTENDS KpsPool, KpsHttp, Cover

CONSTANTS x1, x2

TwoExchanges == {x1, x2}

VARIABLE part      \* which one moves

MCInit ==
  /\ Init /\ CoverInit
  /\ \/ part = "http" /\ HttpInit
     \/ part \in {"pool", "cover"} /\ peer = NoPeer /\ reader = Reading
MCNext ==
  /\ \/ part = "pool"  /\ Next      /\ UNCHANGED <<httpVars, coverVars>>
     \/ part = "http"  /\ HttpNext  /\ UNCHANGED <<vars, coverVars>>
     \/ part = "cover" /\ CoverNext /\ UNCHANGED <<vars, httpVars>>
  /\ UNCHANGED part
MCSpec == /\ MCInit /\ [][MCNext]_<<vars, httpVars, coverVars, part>>
          /\ \A x \in Exchanges : WF_vars(ExchangeRuns(x))
=============================================================================
