------------------------------ MODULE MCWorker ------------------------------
(* Instances of Worker for TLC. *)
EXTENDS Worker

CONSTANTS c1, c2, v1, h1, h2

ThreeCalls == {c1, c2, v1}
TwoWalletCalls == {c1, c2}
TwoHosts == {h1, h2}

\* Memo answers need no TLS pool, and the pool's states no memo answers; each
\* session mode runs under one TLS setting.  Two hosts matter to the spares of
\* calls that follow each other, two slots to calls to the same host.
MCInit ==
  /\ Init
  /\ memoCalls = IF tls = "off" THEN WalletCalls ELSE {}
  /\ mode = "keep-alive" <=> tls = "preferred"
  /\ callHost[c1] = h1 /\ callHost[v1] = h1 /\ (callHost[c2] = h2 <=> tls = "required" /\ limit = 1)
  /\ tls = "preferred" => limit = 2
MCSpec == MCInit /\ [][Next]_vars /\ Fairness
=============================================================================
