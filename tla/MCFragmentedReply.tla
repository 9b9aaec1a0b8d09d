------------------------- MODULE MCFragmentedReply -------------------------
(* Instances of FragmentedReply for TLC, with the erasure code of the client; *)
(* and of the wire formats: a message of one of them, while the reply rests.  *)
EXTENDS FragmentedReply, ReedSolomon, Bincode

MCData(m) == IF m = "plain" THEN <<11, 12, 13>> ELSE <<200, 3, 250>>

\* Three fragments of one byte; two shards of two bytes with two of parity
Plain == [i \in 1..3 |-> [msg |-> "plain", total |-> 3, seq |-> i - 1, fec |-> 0, len |-> 0,
                          data |-> <<MCData("plain")[i]>>]]
Coded == With(ShardsOf(MCData("coded"), 2, 2), LAMBDA shards :
         [i \in 1..4 |-> [msg |-> "coded", total |-> 4, seq |-> i - 1, fec |-> 2, len |-> 3,
                             data |-> shards[i - 1]]])

\* The two answers; a fragment whose total contradicts another's; two messages
\* in turn, with a fragment that comes twice
MCAnswers == {Plain, Coded, <<[Plain[2] EXCEPT !.total = 2], Plain[1], Plain[3]>>,
              <<Plain[1], Coded[3], Plain[1], Coded[4]>>}

\* DecodeShards() for the shards that may have come, computed once
Came == {[i \in 0..3 |-> IF i \in present THEN Coded[i + 1].data ELSE NoShard] : present \in SUBSET (0..3)}
DecodedShards == With([s \in Came |-> DecodeShards(s, 2, 3)], LAMBDA table : table)
MCDecode(shards, d, len) == IF d = 2 /\ len = 3 THEN DecodedShards[shards] ELSE DecodeShards(shards, d, len)

MCInit == (Init /\ format = "none") \/ (Init /\ reply = Plain /\ limit = 3 /\ WireInit)
MCNext == format = "none" /\ Next /\ UNCHANGED format
MCSpec == MCInit /\ [][MCNext]_<<vars, format>> /\ Fairness
=============================================================================
