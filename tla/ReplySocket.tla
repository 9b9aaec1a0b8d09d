---------------------------- MODULE ReplySocket ----------------------------
(***************************************************************************)
(* The response WebSocket of the classic mode (ResponseWebSocket of        *)
(* nox-client/src/transport.ts and its use in client.ts).  The entry       *)
(* pushes the replies to the blocks subscribed on a connection; the claim  *)
(* scheduler skips the entry the socket belongs to and claims at others.   *)
(* A reconnected socket does not subscribe again.                          *)
(*                                                                         *)
(* Block <<r, 1>> goes out with request r, <<r, 2>> with a burst for it.   *)
(* The node list moves the socket to another entry at any moment.  What is *)
(* subscribed on a connection is the entry's (external).                   *)
(*                                                                         *)
(* Bounds: MaxDrops lost connections, MaxMoves changes of the entry.       *)
(***************************************************************************)
EXTENDS Integers

CONSTANTS Senders, SocketEntries, MaxDrops, MaxMoves

ASSUME SocketAssumption ==
  "none" \notin SocketEntries /\ "over" \notin SocketEntries /\ MaxDrops \in Nat /\ MaxMoves \in Nat

SocketBlocks == Senders \X {1, 2}

VARIABLES
  ws,              \* responseWs: [at |-> its entry, state |-> ...]
  queued,          \* pendingSubscribes
  subscribed,      \* subscribedSurbIds
  heard,           \* what the entry has subscribed on the open connection
  lost,            \* history: subscribed on a connection of this socket that dropped
  sentTo,          \* request -> its entry, "none" before and "over" after it
  waitsOn,         \* active blocks of the SURB pool
  burst,           \* request -> "none", "running", "failed" or "done"
  drops, moves

socketVars == <<ws, queued, subscribed, heard, lost, sentTo, waitsOn, burst, drops, moves>>

\* The constructor may throw; the socket is then dead.
SocketInit ==
  /\ ws \in [at : SocketEntries, state : {"connecting", "dead"}]
  /\ queued = {} /\ subscribed = {} /\ heard = {} /\ lost = {}
  /\ sentTo = [r \in Senders |-> "none"] /\ waitsOn = {} /\ burst = [r \in Senders |-> "none"]
  /\ drops = 0 /\ moves = 0

HasSocket == ws.state # "none"

\* idsAt() of the scheduler.
IdsAt(e, ids) == {id \in ids : sentTo[id[1]] = e}

\* _wsSubscribe and subscribe(): what was never subscribed is sent, or queued
\* until the connection opens.
WsSubscribe(ids) ==
  LET new == IF HasSocket THEN ids \ subscribed ELSE {}
  IN /\ subscribed' = subscribed \cup new
     /\ IF ws.state = "open" THEN heard' = heard \cup new /\ UNCHANGED queued
                             ELSE queued' = queued \cup new /\ UNCHANGED heard

-----------------------------------------------------------------------------
(* Requests *)

\* A request or a tunnel copy goes out through any entry: resends and hedges use others.
RequestGoesOut(r) ==
  /\ sentTo[r] = "none" /\ HasSocket
  /\ \E e \in SocketEntries :
       /\ sentTo' = [sentTo EXCEPT ![r] = e]
       /\ WsSubscribe(IF e = ws.at THEN {<<r, 1>>} ELSE {})
  /\ waitsOn' = waitsOn \cup {<<r, 1>>}
  /\ UNCHANGED <<ws, lost, burst, drops, moves>>

\* Answered, failed, timed out or aborted; its subscriptions stay.
RequestEnds(r) ==
  /\ sentTo[r] \in SocketEntries
  /\ sentTo' = [sentTo EXCEPT ![r] = "over"]
  /\ waitsOn' = waitsOn \ {<<r, 1>>, <<r, 2>>}
  /\ UNCHANGED <<ws, queued, subscribed, heard, lost, burst, drops, moves>>

\* A burst registers its blocks and then sends them off; only when all packets
\* are out are the IDs of the socket's entry subscribed.
BurstStarts(r) ==
  /\ sentTo[r] \in SocketEntries /\ burst[r] \in {"none", "failed"}
  /\ burst' = [burst EXCEPT ![r] = "running"]
  /\ waitsOn' = waitsOn \cup {<<r, 2>>}
  /\ UNCHANGED <<ws, queued, subscribed, heard, lost, sentTo, drops, moves>>
BurstEnds(r) ==
  /\ burst[r] = "running"
  /\ \/ /\ burst' = [burst EXCEPT ![r] = "done"]
        /\ WsSubscribe(IdsAt(ws.at, waitsOn))
     \/ /\ burst' = [burst EXCEPT ![r] = "failed"]
        /\ UNCHANGED <<queued, subscribed, heard>>
  /\ UNCHANGED <<ws, lost, sentTo, waitsOn, drops, moves>>

-----------------------------------------------------------------------------
(* The socket *)

SocketOpens ==
  /\ ws.state = "connecting"
  /\ ws' = [ws EXCEPT !.state = "open"]
  /\ heard' = queued /\ queued' = {}
  /\ UNCHANGED <<subscribed, lost, sentTo, waitsOn, burst, drops, moves>>

\* A pushed reply is decrypted and delivered.
ReplyPushed(id) ==
  /\ ws.state = "open" /\ id \in heard \cap waitsOn
  /\ subscribed' = subscribed \ {id} /\ heard' = heard \ {id} /\ waitsOn' = waitsOn \ {id}
  /\ UNCHANGED <<ws, queued, lost, sentTo, burst, drops, moves>>

SocketDrops ==
  /\ ws.state \in {"connecting", "open"} /\ drops < MaxDrops
  /\ ws' = [ws EXCEPT !.state = "closed"]
  /\ lost' = lost \cup heard /\ heard' = {} /\ drops' = drops + 1
  /\ UNCHANGED <<queued, subscribed, sentTo, waitsOn, burst, moves>>

\* After a second it connects again, unless the constructor throws.
SocketReconnects ==
  /\ ws.state = "closed"
  /\ \E state \in {"connecting", "dead"} : ws' = [ws EXCEPT !.state = state]
  /\ UNCHANGED <<queued, subscribed, heard, lost, sentTo, waitsOn, burst, drops, moves>>

\* Bug: the subscriptions made at another entry are not forgotten.
SocketMovesKeeping ==
  /\ HasSocket /\ moves < MaxMoves /\ moves' = moves + 1
  /\ ws' \in [at : SocketEntries \ {ws.at}, state : {"connecting", "dead"}]
  /\ queued' = IdsAt(ws'.at, waitsOn) \ subscribed /\ subscribed' = subscribed \cup queued'
  /\ heard' = {} /\ lost' = {}
  /\ UNCHANGED <<sentTo, waitsOn, burst, drops>>

\* The part of _setNodes for a new entry: a new socket, and everything that
\* waits at its entry is subscribed afresh.
SocketMoves ==
  /\ HasSocket /\ moves < MaxMoves /\ moves' = moves + 1
  /\ ws' \in [at : SocketEntries \ {ws.at}, state : {"connecting", "dead"}]
  /\ subscribed' = IdsAt(ws'.at, waitsOn) /\ queued' = subscribed'
  /\ heard' = {} /\ lost' = {}
  /\ UNCHANGED <<sentTo, waitsOn, burst, drops>>

\* disconnect()
SocketCloses ==
  /\ HasSocket
  /\ ws' = [ws EXCEPT !.state = "none"]
  /\ queued' = {} /\ subscribed' = {} /\ heard' = {} /\ lost' = {} /\ waitsOn' = {}
  /\ sentTo' = [r \in Senders |-> "over"]
  /\ UNCHANGED <<burst, drops, moves>>

SocketNext ==
  \/ \E r \in Senders : RequestGoesOut(r) \/ RequestEnds(r) \/ BurstStarts(r) \/ BurstEnds(r)
  \/ \E id \in SocketBlocks : ReplyPushed(id)
  \/ SocketOpens \/ SocketDrops \/ SocketReconnects \/ SocketMoves \/ SocketCloses

SocketSpec == SocketInit /\ [][SocketNext]_socketVars

-----------------------------------------------------------------------------
(* Properties *)

\* Nobody claims at the socket's entry, so each block a request waits on there is
\* subscribed, or will be when the connection opens, however the socket has moved
\* between entries; except after a drop, and for the blocks of a burst that is
\* under way or failed.
SocketHears ==
  HasSocket =>
    \A id \in IdsAt(ws.at, waitsOn) :
      id \in queued \cup heard \cup lost \/ (id[2] = 2 /\ burst[id[1]] \in {"running", "failed"})

\* "Persistent WebSocket connection for SURB response delivery" (transport.ts): an
\* open socket hears of every block its entry was sent with a request.  The code
\* reconnects without subscribing again.
OpenSocketHears ==
  ws.state = "open" => \A id \in IdsAt(ws.at, waitsOn) : id[2] = 1 => id \in heard
=============================================================================
