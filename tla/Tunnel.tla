------------------------------- MODULE Tunnel -------------------------------
(***************************************************************************)
(* One HTTP exchange of the worker over TLS tunnels (tls/tunnel.ts,        *)
(* tls/channel.ts, exchange() of tls/transport.ts and the tunnel streams   *)
(* of client.ts): numbered writes, copies of a write, reply parts placed   *)
(* by their offset, and one retry on a second tunnel.                      *)
(*                                                                         *)
(* The exit, the upstream and the mixnet are external.  The exit writes    *)
(* each seq once and in order, keeps what lies above the acknowledged      *)
(* offset, and answers each copy on the reply blocks that came with it;    *)
(* packets and parts are lost or arrive in any order.  Byte k of the       *)
(* upstream's stream is k.                                                 *)
(***************************************************************************)
EXTENDS Integers, Sequences, FiniteSets, FiniteSetsExt

CONSTANTS
  Marks,        \* stream length at which exchange seq is satisfied, by seq + 1
  First,        \* the first exchange of a channel that acquire() returns: 1, after its
                \* handshake, or 0 to include the handshake
  RequestSeq,   \* the exchange that carries the HTTP request
  PartSize,     \* TUNNEL_PART_MAX_DATA
  Blocks,       \* reply blocks per copy
  MaxCopies,    \* CopyPolicy.maxCopies
  MaxSends,     \* bound: copies of one exchange
  MaxMishaps    \* bound: packets and parts lost, sessions lost, streams ended early,
                \* parts garbled

ASSUME TunnelAssumption ==
  /\ Marks \in Seq(Nat \ {0}) /\ \A i \in 2..Len(Marks) : Marks[i - 1] < Marks[i]
  /\ First \in {0, 1} /\ RequestSeq \in 1..(Len(Marks) - 1)
  /\ PartSize \in Nat \ {0} /\ Blocks \in Nat \ {0} /\ MaxCopies \in Nat /\ MaxSends \in Nat \ {0}
  /\ MaxMishaps \in Nat

VARIABLES
  call,                        \* "running", "ok", "failed"
  resendable,                  \* profile.retryable of the request
  attempt,                     \* the tunnel in use: 0, and 1 after a retry
  seq,                         \* of the current exchange
  confirmed, copies, timed,    \* a part of seq came; copiesSent; timedCopies
  silence, gap,                \* silenceTimer and gapTimer are set
  delivered, held, eofAt,      \* bytes given to TLS; parts beyond a gap; end of the stream
  exit,                        \* per attempt: the exit's session
  wire, streams, parts,        \* copies under way, copies the exit answers, parts under way
  losses, troubles             \* counts for the bounds

vars == <<call, resendable, attempt, seq, confirmed, copies, timed, silence, gap, delivered, held, eofAt,
          exit, wire, streams, parts, losses, troubles>>
exchangeVars == <<seq, confirmed, copies, timed, silence, gap>>
streamVars == <<delivered, held, eofAt>>
callVars == <<call, attempt>>
answerVars == <<streams, parts>>

Attempts == {0, 1}
None == -1
Last == Len(Marks) - 1
Total == Marks[Len(Marks)]
Stream(from, to) == [i \in 1..(to - from) |-> from + i - 1]

\* A copy of an exchange, or a teardown, which has no reply blocks
CopyOf(s, ack, n) == [a |-> attempt, seq |-> s, ack |-> ack, n |-> n, blocks |-> Blocks]
Teardown == [CopyOf(seq + 1, Len(delivered), 0) EXCEPT !.blocks = 0]

\* What the handshake of a channel has delivered, and the exit's side of it
Opened == IF First = 0 THEN <<>> ELSE Stream(0, Marks[First])
NewSession == [known |-> TRUE, written |-> First, avail |-> Len(Opened), ended |-> FALSE, dropped |-> 0]

\* request() on a channel of the pool
Init ==
  /\ call = "running" /\ resendable \in BOOLEAN /\ attempt = 0
  /\ seq = First /\ confirmed = FALSE /\ copies = 1 /\ timed = 0 /\ silence = TRUE /\ gap = FALSE
  /\ delivered = Opened /\ held = <<>> /\ eofAt = None
  /\ exit = [a \in Attempts |-> NewSession]
  /\ wire = {CopyOf(First, Len(Opened), 1)} /\ streams = {} /\ parts = {}
  /\ losses = 0 /\ troubles = 0

-----------------------------------------------------------------------------
(* Placing the parts of the stream *)

Without(h, off) == [o \in DOMAIN h \ {off} |-> h[o]]

\* Push() that delivers a part whole when it overlaps what was delivered
PushWhole(out, off, data) == IF off + Len(data) > Len(out) THEN out \o data ELSE out

\* push() of what lies beyond the bytes already delivered
Push(out, off, data) ==
  IF off + Len(data) > Len(out) THEN out \o SubSeq(data, Len(out) - off + 1, Len(data)) ELSE out

\* The loop of accept() over the held parts: each one that a delivery reached is
\* taken out and delivered
DrainOne(placed) ==
  LET reached == {o \in DOMAIN placed.held : o <= Len(placed.out)}
      o == CHOOSE x \in reached : TRUE
  IN IF reached = {} THEN placed
     ELSE [out |-> Push(placed.out, o, placed.held[o]), held |-> Without(placed.held, o)]
Drain(out, h) ==
  LET f[n \in 0..Cardinality(DOMAIN h)] ==
        IF n = 0 THEN [out |-> out, held |-> h] ELSE DrainOne(f[n - 1])
  IN f[Cardinality(DOMAIN h)]

\* accept()
Accept(off, data) ==
  IF off + Len(data) <= Len(delivered) THEN [out |-> delivered, held |-> held]
  ELSE IF off > Len(delivered)
  THEN [out |-> delivered,
        held |-> IF off \in DOMAIN held /\ Len(held[off]) >= Len(data) THEN held
                 ELSE [o \in DOMAIN held \cup {off} |-> IF o = off THEN data ELSE held[o]]]
  ELSE Drain(Push(delivered, off, data), held)

-----------------------------------------------------------------------------
(* Exchanges *)

\* Send() that acknowledges the held parts too
SendAckHeld(ack) ==
  /\ copies < MaxSends
  /\ copies' = copies + 1
  /\ LET ends == {ack} \cup {o + Len(held[o]) : o \in DOMAIN held}
     IN wire' = wire \cup {CopyOf(seq, CHOOSE e \in ends : \A x \in ends : x <= e, copies + 1)}
  /\ silence' = TRUE

\* send(): a copy with the identical data and the current acknowledgement
\* (its route, which avoids the previous copy's, is not modelled)
Send(ack) ==
  /\ copies < MaxSends
  /\ copies' = copies + 1
  /\ wire' = wire \cup {CopyOf(seq, ack, copies + 1)}
  /\ silence' = TRUE

\* timedCopy()
TimedCopy ==
  IF timed >= MaxCopies THEN UNCHANGED <<copies, timed, wire>>
  ELSE timed' = timed + 1 /\ Send(Len(delivered))

\* The listeners of an exchange end with it: what still comes for its copies is
\* dropped by _handleResponseItem(), and is forgotten here
NoListeners == streams' = {} /\ parts' = {}

\* NextExchange() that leaves the silence timer to the first part
NextExchangeUnarmed(ack) ==
  /\ NoListeners
  /\ seq' = seq + 1
  /\ confirmed' = FALSE /\ copies' = 1 /\ timed' = 0 /\ silence' = FALSE /\ gap' = FALSE
  /\ wire' = wire \cup {CopyOf(seq + 1, ack, 1)}

\* The exchange ends and the next one of the channel starts
NextExchange(ack) ==
  /\ NoListeners
  /\ seq' = seq + 1
  /\ confirmed' = FALSE /\ copies' = 1 /\ timed' = 0 /\ silence' = TRUE /\ gap' = FALSE
  /\ wire' = wire \cup {CopyOf(seq + 1, ack, 1)}

\* finish() with an error that ends the call: the channel is released and torn down
ExchangeOver ==
  confirmed' = FALSE /\ copies' = 0 /\ timed' = 0 /\ silence' = FALSE /\ gap' = FALSE /\ UNCHANGED seq

EndCall ==
  /\ NoListeners
  /\ call' = "failed" /\ wire' = wire \cup {Teardown}
  /\ ExchangeOver /\ held' = <<>> /\ eofAt' = None
  /\ UNCHANGED <<attempt, delivered>>

\* A new tunnel for the same request, from its handshake on
StartAgain ==
  /\ NoListeners
  /\ attempt' = 1
  /\ seq' = First /\ confirmed' = FALSE /\ copies' = 1 /\ timed' = 0 /\ silence' = TRUE /\ gap' = FALSE
  /\ delivered' = Opened /\ held' = <<>> /\ eofAt' = None
  /\ wire' = wire \cup {Teardown, [CopyOf(First, Len(Opened), 1) EXCEPT !.a = 1]}
  /\ UNCHANGED call

\* The codes UnknownSession, Expired and UpstreamClosed; the others
Unwritten == "unwritten"
Other == "other"

\* retriable(), in the catch of exchange() of tls/transport.ts; a handshake fails
\* in acquire() and is not retried here
Retriable(error) ==
  attempt = 0 /\ seq > 0
    /\ \/ error = Unwritten /\ (copies = 1 \/ resendable)
       \/ error = "truncated" /\ resendable
Fails(error) ==
  IF Retriable(error) THEN StartAgain ELSE EndCall

-----------------------------------------------------------------------------
(* The events of an exchange *)

\* onPart() of a data part: placed, then the exchange ends or goes on
DataPart(p) ==
  LET placed == Accept(p.off, p.data)
      end == IF p.fin = "Eof" /\ eofAt = None THEN p.off + Len(p.data) ELSE eofAt
      ended == end # None /\ Len(placed.out) >= end
  IN IF Len(placed.out) >= Marks[seq + 1] \/ ~ended
     THEN /\ delivered' = placed.out /\ held' = placed.held /\ eofAt' = end
          /\ UNCHANGED attempt
          /\ IF Len(placed.out) < Marks[seq + 1]
             THEN /\ parts' = parts \ {p} /\ UNCHANGED streams
                  /\ confirmed' = TRUE /\ gap' = (DOMAIN placed.held # {})
                  /\ IF p.fin \in {"NeedSurbs", "Expired"} THEN Send(Len(placed.out)) ELSE silence' = TRUE /\ UNCHANGED <<copies, wire>>
                  /\ UNCHANGED <<call, seq, timed>>
             ELSE IF seq < Last THEN NextExchange(Len(placed.out)) /\ UNCHANGED call
             ELSE /\ NoListeners
                  /\ call' = "ok" /\ wire' = wire \cup {[Teardown EXCEPT !.ack = Len(placed.out)]}
                  /\ ExchangeOver
     ELSE Fails("truncated")

OnPart(p) ==
  /\ p \in parts
  /\ IF p.fin \in {Unwritten, Other} THEN Fails(p.fin) ELSE DataPart(p)
  /\ UNCHANGED <<resendable, exit, losses, troubles>>

\* A part that does not decode, or that TLS refuses
GarbledPart(p) ==
  /\ p \in parts /\ losses + troubles < MaxMishaps /\ troubles' = troubles + 1
  /\ EndCall
  /\ UNCHANGED <<resendable, exit, losses>>

Silence ==
  /\ call = "running" /\ silence
  /\ TimedCopy
  /\ timed >= MaxCopies => silence' = FALSE
  /\ UNCHANGED <<callVars, resendable, seq, confirmed, gap, streamVars, exit, answerVars, losses, troubles>>

GapStaysOpen ==
  /\ call = "running" /\ gap /\ gap' = FALSE
  /\ TimedCopy
  /\ timed >= MaxCopies => UNCHANGED silence
  /\ UNCHANGED <<callVars, resendable, seq, confirmed, streamVars, exit, answerVars, losses, troubles>>

\* handle.done rejects: the entry did not accept the copy
UploadFails(c) ==
  /\ call = "running" /\ c \in wire /\ c.a = attempt /\ c.seq = seq /\ losses + troubles < MaxMishaps
  /\ losses' = losses + 1
  /\ IF confirmed \/ timed >= MaxCopies
     THEN wire' = wire \ {c} /\ UNCHANGED <<copies, timed, silence>>
     ELSE /\ copies < MaxSends
          /\ timed' = timed + 1 /\ copies' = copies + 1 /\ silence' = TRUE
          /\ wire' = (wire \ {c}) \cup {CopyOf(seq, Len(delivered), copies + 1)}
  /\ UNCHANGED <<callVars, resendable, seq, confirmed, gap, streamVars, exit, answerVars, troubles>>

\* The deadline, the open timeout, an abort, or no route for a copy
GivesUp ==
  /\ call = "running"
  /\ EndCall
  /\ UNCHANGED <<resendable, exit, losses, troubles>>

-----------------------------------------------------------------------------
(* The exit, the upstream and the mixnet *)

Rejection(c, code) == [a |-> c.a, seq |-> c.seq, n |-> c.n, off |-> 0, data |-> <<>>, fin |-> code]

\* A copy reaches the exit
ExitTakes(c) ==
  /\ c \in wire
  /\ wire' = wire \ {c}
  /\ LET e == exit[c.a]
         code == IF ~e.known \/ (c.seq = e.written /\ e.ended) THEN Unwritten ELSE Other
         heard == call = "running" /\ c.a = attempt /\ c.seq = seq /\ c.blocks > 0
     IN IF ~e.known \/ c.seq > e.written \/ (c.seq = e.written /\ e.ended /\ c.blocks > 0)
        THEN /\ parts' = IF heard THEN parts \cup {Rejection(c, code)} ELSE parts
             /\ UNCHANGED <<exit, streams>>
        ELSE /\ exit' = [exit EXCEPT ![c.a] = [e EXCEPT !.written = IF c.seq = @ THEN @ + 1 ELSE @,
                                                        !.dropped = IF c.ack > @ THEN c.ack ELSE @,
                                                        !.known = c.blocks > 0]]
             /\ streams' = IF ~heard THEN streams
                           ELSE streams \cup {[a |-> c.a, seq |-> c.seq, n |-> c.n, next |-> c.ack, blocks |-> c.blocks]}
             /\ UNCHANGED parts
  /\ UNCHANGED <<callVars, resendable, exchangeVars, streamVars, losses, troubles>>

\* The next part of an answer: on the last block it asks for more; at the end of
\* the stream it says so
ExitAnswers(st) ==
  /\ st \in streams
  /\ LET e == exit[st.a]
         from == IF st.next > e.dropped THEN st.next ELSE e.dropped
         to == IF from + PartSize < e.avail THEN from + PartSize ELSE e.avail
         fin == IF e.ended /\ to = e.avail THEN "Eof" ELSE IF st.blocks = 1 THEN "NeedSurbs" ELSE "none"
     IN /\ from < to \/ fin = "Eof"
        /\ parts' = parts \cup {[a |-> st.a, seq |-> st.seq, n |-> st.n, off |-> from, data |-> Stream(from, to), fin |-> fin]}
        /\ streams' = (streams \ {st}) \cup
             (IF st.blocks = 1 \/ fin = "Eof" THEN {} ELSE {[st EXCEPT !.next = to, !.blocks = @ - 1]})
  /\ UNCHANGED <<callVars, resendable, exchangeVars, streamVars, exit, wire, losses, troubles>>

\* The hold of a copy ends with nothing to send
HoldExpires(st) ==
  /\ st \in streams
  /\ parts' = parts \cup {[a |-> st.a, seq |-> st.seq, n |-> st.n, off |-> st.next, data |-> <<>>, fin |-> "Expired"]}
  /\ streams' = streams \ {st}
  /\ UNCHANGED <<callVars, resendable, exchangeVars, streamVars, exit, wire, losses, troubles>>

\* The upstream answers what was written
UpstreamSends(a) ==
  /\ a = attempt /\ call = "running"
  /\ exit[a].known /\ exit[a].written > 0 /\ ~exit[a].ended
  /\ exit[a].written <= Len(Marks) /\ exit[a].avail < Marks[exit[a].written]
  /\ exit' = [exit EXCEPT ![a].avail = @ + 1]
  /\ UNCHANGED <<callVars, resendable, exchangeVars, streamVars, streams, wire, parts, losses, troubles>>

\* The upstream closes before the response is complete, or the exit forgets the session
Trouble(a) ==
  /\ a = attempt /\ call = "running"
  /\ losses + troubles < MaxMishaps /\ troubles' = troubles + 1
  /\ exit[a].known /\ ~exit[a].ended /\ exit[a].avail < Total
  /\ \/ exit' = [exit EXCEPT ![a].known = FALSE] /\ streams' = {}
     \/ exit' = [exit EXCEPT ![a].ended = TRUE] /\ UNCHANGED streams
  /\ UNCHANGED <<callVars, resendable, exchangeVars, streamVars, wire, parts, losses>>

Lose ==
  /\ losses + troubles < MaxMishaps /\ losses' = losses + 1
  /\ \/ \E c \in wire : wire' = wire \ {c} /\ UNCHANGED parts
     \/ \E p \in parts : parts' = parts \ {p} /\ UNCHANGED wire
  /\ UNCHANGED <<callVars, resendable, exchangeVars, streamVars, exit, streams, troubles>>

-----------------------------------------------------------------------------

Next ==
  \/ \E p \in parts : OnPart(p) \/ GarbledPart(p)
  \/ \E c \in wire : ExitTakes(c) \/ UploadFails(c)
  \/ \E st \in streams : ExitAnswers(st) \/ HoldExpires(st)
  \/ \E a \in Attempts : UpstreamSends(a) \/ Trouble(a)
  \/ Silence \/ GapStaysOpen \/ GivesUp \/ Lose

Spec == Init /\ [][Next]_vars

\* What is not lost arrives, the exit and the upstream answer and the timers fire;
\* the bounds make all of it finite, so that one condition is enough.  The
\* deadline is not counted on.
Working ==
  \/ \E p \in parts : OnPart(p)
  \/ \E c \in wire : ExitTakes(c)
  \/ \E st \in streams : ExitAnswers(st)
  \/ \E a \in Attempts : UpstreamSends(a)
  \/ Silence \/ GapStaysOpen
Fairness == WF_vars(Working)

-----------------------------------------------------------------------------

\* The call implements TlsStream: whatever copies, parts and timers do, TLS is fed
\* a prefix of one stream, and only the whole response ends the call well
Promise == INSTANCE TlsStream WITH
             Source <- Stream(0, Total), Opened <- Opened, out <- delivered, tries <- attempt, result <- call
StreamInOrder == Promise!Spec

\* The exit never drops a byte that TLS has not been given: an acknowledgement
\* taken from a reordered or lost part would leave a gap no copy can fill
DroppedWasDelivered == call = "running" => exit[attempt].dropped <= Len(delivered)

\* exchange() retries "any request whose only copy the exit refused before writing
\* it": a request that may not be resent reaches the upstream once
WrittenOnce ==
  ~resendable => Cardinality({a \in Attempts : exit[a].written > RequestSeq}) <= 1

\* Without a lost session, an early close or a garbled part, and while the copies
\* last, the response arrives: the silence and gap timers make good what was lost
ResponseArrives ==
  <>(call # "running" \/ troubles > 0 \/ timed = MaxCopies \/ copies = MaxSends)
=============================================================================
