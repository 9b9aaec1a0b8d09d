------------------------------ MODULE MCTunnel ------------------------------
(* Instances of Tunnel for TLC. *)
EXTENDS Tunnel

\* The server's flight, then the response, which TLS interrupts to answer a key
\* update of the server
MCMarks == <<1, 2, 4>>

MCSpec == Spec /\ Fairness
=============================================================================
