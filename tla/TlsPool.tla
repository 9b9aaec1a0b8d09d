------------------------------ MODULE TlsPool ------------------------------
(***************************************************************************)
(* The TLS sessions of the anon-rpc worker (tls/pool.ts): which exit opens *)
(* a session, the handshaken spares of per-call mode with their timers,    *)
(* calls that wait for a spare's open instead of starting one, and the     *)
(* shared sessions of keep-alive mode.                                     *)
(*                                                                         *)
(* A session is named by the open that makes it.  Once it is torn down the *)
(* name is free for another open, so behaviours are unbounded while at     *)
(* most |Ids| sessions live at once.  Ages are left open: a timer may fire *)
(* any time after it was set, in the order the code's delays give to the   *)
(* timers of one spare.                                                    *)
(***************************************************************************)
EXTENDS Naturals, Sequences, FiniteSets, SequencesExt

CONSTANTS
  Calls,             \* calls that may be on the pool at once
  Ids,               \* bound: sessions and opens alive at once
  Hosts, Exits,
  Spares,            \* tlsSpares
  MaxSpareHosts,     \* MAX_SPARE_HOSTS
  MaxKeepAlive,      \* MAX_KEEP_ALIVE_SESSIONS
  MaxOpenAttempts    \* MAX_OPEN_ATTEMPTS

ASSUME TlsPoolAssumption ==
  /\ IsFiniteSet(Calls) /\ Ids \subseteq Nat \ {0} /\ IsFiniteSet(Ids) /\ IsFiniteSet(Hosts) /\ IsFiniteSet(Exits)
  /\ Spares \in Nat /\ MaxSpareHosts \in Nat \ {0}
  /\ MaxKeepAlive \in Nat /\ MaxOpenAttempts \in Nat \ {0} /\ "none" \notin Hosts \cup Exits

None == "none"      \* no host, no exit
NoId == 0

VARIABLES
  mode,              \* tlsSession: "per-call" or "keep-alive"
  background,        \* spares may open: the first wallet call settled
  poolClosed,
  exits,             \* port.tunnelExits(): exits of the topology that relay tunnels
  skipped,           \* exits in the skipped map
  ses,               \* the sessions (see Session)
  stage,             \* per call: "idle", "waiting", "opening", "using"
  chan,              \* per call: the session it waits for, opens or uses
  spares,            \* per host: its list of spares
  spareHosts,        \* keys of the spares map, in its order
  lastCalled,        \* keys of lastCallAt, least recent first
  deferred,          \* deferredHosts
  pooled             \* keep-alive sessions in the sessions map

poolVars == <<mode, background, poolClosed, exits, skipped, ses, stage, chan, spares, spareHosts,
              lastCalled, deferred, pooled>>

\* st: "free", "scheduled", "shaking", "landed" (a claimed open that succeeded,
\*   its caller not yet resumed), "open", or "dead" (torn down while a call
\*   holds it);
\* at, tried: the exit whose handshake runs (None: the open is failing), and
\*   the exits tried;
\* flag: of a spare "plain" (no refresh timer), "due" (refresh timer set),
\*   "fired", "superseded"; of a keep-alive session "busy" or "idle".
Session == [st : {"free", "scheduled", "shaking", "landed", "open", "dead"},
            host : Hosts \cup {None}, spare : BOOLEAN,
            at : Exits \cup {None}, tried : SUBSET Exits,
            flag : {"plain", "due", "fired", "superseded", "busy", "idle"}]
Free == [st |-> "free", host |-> None, spare |-> FALSE, at |-> None, tried |-> {}, flag |-> "plain"]
PerCall == mode = "per-call"

PoolInit ==
  /\ mode \in {"per-call", "keep-alive"}
  /\ background = FALSE /\ poolClosed = FALSE /\ exits = Exits /\ skipped = {}
  /\ ses = [s \in Ids |-> Free]
  /\ stage = [c \in Calls |-> "idle"] /\ chan = [c \in Calls |-> NoId]
  /\ spares = [h \in Hosts |-> <<>>] /\ spareHosts = <<>>
  /\ lastCalled = <<>> /\ deferred = {} /\ pooled = {}

\* A claimed open has landed: its caller's continuation is a microtask, which
\* runs before any timer, message or new call
Landed == {s \in Ids : ses[s].st = "landed"}
Quiet == Landed = {}

-----------------------------------------------------------------------------
(* Opening a session *)

\* pickExit(): the exits an open may try next; None when none is left to try
NextExits(tried, skip) ==
  LET pool == exits \ (tried \cup skip)
  IN IF Cardinality(tried) >= MaxOpenAttempts \/ pool = {} THEN {None} ELSE pool

HasId(T) == \E s \in Ids : T[s].st = "free"
NewId(T) == CHOOSE s \in Ids : T[s].st = "free"

\* open() up to its first await, as the session s of table T
Begin(T, s, h, spare, e) ==
  [T EXCEPT ![s] = [Free EXCEPT !.st = "shaking", !.host = h, !.spare = spare, !.at = e]]

\* The tables that openSpare(h, delay) can leave: the exponential delay may
\* round to 0, and a spare opened by a refresh or an expiry starts at once.
\* None (the step cannot be taken) beyond the bound on sessions alive
Schedule(T, s, h) == [T EXCEPT ![s] = [Free EXCEPT !.st = "scheduled", !.host = h, !.spare = TRUE]]
OpenSpare(T, h, delayed) ==
  IF ~HasId(T) THEN {}
  ELSE {Begin(T, NewId(T), h, TRUE, e) : e \in NextExits({}, skipped)}
       \cup (IF delayed THEN {Schedule(T, NewId(T), h)} ELSE {})

\* spareCount(): spares not being replaced, and opens scheduled or in flight
Opening(T, h) ==
  Cardinality({s \in Ids : T[s].spare /\ T[s].host = h /\ T[s].st \in {"scheduled", "shaking"}})
SpareCount(T, P, h) ==
  Cardinality({i \in DOMAIN P[h] : T[P[h][i]].flag # "superseded"}) + Opening(T, h)

\* replenish(h), with session table T and spare lists P: the tables it can leave
Refill(T, P, h) == IF SpareCount(T, P, h) < Spares THEN OpenSpare(T, h, TRUE) ELSE {T}
Replenish(T, P, h) ==
  IF PerCall /\ Spares > 0 /\ ~poolClosed /\ background THEN Refill(T, P, h) ELSE {T}

\* ... and the deferred hosts
Deferred(h) ==
  IF PerCall /\ Spares > 0 /\ ~poolClosed /\ ~background /\ Cardinality(deferred) < MaxSpareHosts
  THEN deferred \cup {h} ELSE deferred

\* teardown() of the sessions in S, none of them held by a call
Torn(T, S) == [s \in Ids |-> IF s \in S THEN Free ELSE T[s]]

\* A scheduled open's timer
StartSpare(s) ==
  /\ Quiet /\ ses[s].st = "scheduled"
  /\ \E e \in NextExits({}, skipped) : ses' = Begin(ses, s, ses[s].host, TRUE, e)
  /\ UNCHANGED <<mode, background, poolClosed, exits, skipped, stage, chan, spares, spareHosts,
                 lastCalled, deferred, pooled>>

\* A handshake fails: an exit that is silent or Disabled is skipped and another
\* tried, a retryable refusal tries another, any other error ends the open
HandshakeFails(s, how) ==
  /\ Quiet /\ ses[s].st = "shaking" /\ ses[s].at # None
  /\ LET tried == ses[s].tried \cup {ses[s].at}
         skip == IF how = "skip" THEN skipped \cup {ses[s].at} ELSE skipped
     IN /\ skipped' = skip
        /\ \E e \in (IF how = "fatal" THEN {None} ELSE NextExits(tried, skip)) :
             ses' = [ses EXCEPT ![s].at = e, ![s].tried = IF e = None THEN {} ELSE tried]
  /\ UNCHANGED <<mode, background, poolClosed, exits, stage, chan, spares, spareHosts, lastCalled,
                 deferred, pooled>>

\* EXIT_SKIP_MS has passed
SkipEnds(e) ==
  /\ Quiet /\ e \in skipped
  /\ skipped' = skipped \ {e}
  /\ UNCHANGED <<mode, background, poolClosed, exits, ses, stage, chan, spares, spareHosts, lastCalled,
                 deferred, pooled>>

Holders(s) == {c \in Calls : stage[c] # "idle" /\ chan[c] = s}

\* A defect: the call that waits for a spare's open does not hear of its failure
OpenFailsQuietly(s) ==
  /\ Quiet /\ ses[s].st = "shaking" /\ ses[s].at = None
  /\ ses' = Torn(ses, {s})
  /\ LET told == {c \in Holders(s) : ~ses[s].spare}
     IN /\ stage' = [c \in Calls |-> IF c \in told THEN "idle" ELSE stage[c]]
        /\ chan' = [c \in Calls |-> IF c \in told THEN NoId ELSE chan[c]]
  /\ UNCHANGED <<mode, background, poolClosed, exits, skipped, spares, spareHosts, lastCalled, deferred,
                 pooled>>

\* The open rejects: a call's own open rejects acquire(); the call that waits
\* for a spare's open starts its own
OpenFails(s) ==
  /\ Quiet /\ ses[s].st = "shaking" /\ ses[s].at = None
  /\ LET left == Torn(ses, {s})
     IN IF ses[s].spare /\ Holders(s) # {}
        THEN /\ \E e \in NextExits({}, skipped) : ses' = Begin(left, s, ses[s].host, FALSE, e)
             /\ stage' = [c \in Calls |-> IF c \in Holders(s) THEN "opening" ELSE stage[c]]
             /\ UNCHANGED chan
        ELSE /\ ses' = left
             /\ stage' = [c \in Calls |-> IF c \in Holders(s) THEN "idle" ELSE stage[c]]
             /\ chan' = [c \in Calls |-> IF c \in Holders(s) THEN NoId ELSE chan[c]]
  /\ UNCHANGED <<mode, background, poolClosed, exits, skipped, spares, spareHosts, lastCalled, deferred,
                 pooled>>

-----------------------------------------------------------------------------
(* Spares *)

\* keepSpare(h, s): append the spare, move its host to the end of the map and
\* let the least recently used host beyond the limit go
Drop(q, x) == IF x \in ToSet(q) THEN RemoveAt(q, CHOOSE i \in DOMAIN q : q[i] = x) ELSE q
MovedLast(q, h) == Append(Drop(q, h), h)
Evicted(q) == IF Len(q) > MaxSpareHosts THEN Head(q) ELSE None
KeepSpare(h, s) ==
  IF poolClosed
  THEN /\ ses' = Torn(ses, {s})
       /\ UNCHANGED <<spares, spareHosts>>
  ELSE LET order == MovedLast(spareHosts, h)
           lost == Evicted(order)
       IN \E timer \in {"plain", "due"} :
            /\ spareHosts' = IF lost = None THEN order ELSE Tail(order)
            /\ spares' = [g \in Hosts |-> IF g = lost THEN <<>>
                                          ELSE IF g = h THEN Append(spares[g], s) ELSE spares[g]]
            /\ ses' = Torn([ses EXCEPT ![s] = [Free EXCEPT !.st = "open", !.host = h, !.spare = TRUE,
                                                           !.flag = timer]],
                           IF lost = None THEN {} ELSE ToSet(spares[lost]))

\* The handshake of a spare succeeds
SpareOpened(s) ==
  /\ Quiet /\ ses[s].st = "shaking" /\ ses[s].at # None /\ ses[s].spare
  /\ IF Holders(s) = {}
     THEN KeepSpare(ses[s].host, s)
     ELSE /\ ses' = [ses EXCEPT ![s].st = "landed", ![s].at = None, ![s].tried = {}]
          /\ UNCHANGED <<spares, spareHosts>>
  /\ UNCHANGED <<mode, background, poolClosed, exits, skipped, stage, chan, lastCalled, deferred, pooled>>

\* recentlyCalled(): the host is in lastCallAt, and its window may have passed
MayBeRecent(h) == IF h \in ToSet(lastCalled) THEN BOOLEAN ELSE {FALSE}

\* refresh(): the refresh timer of a spare opens its replacement at once
Refresh(h, s) ==
  /\ Quiet /\ s \in ToSet(spares[h]) /\ ses[s].flag = "due"
  /\ \E recent \in MayBeRecent(h) :
       IF ~background \/ ~recent \/ \E o \in ToSet(spares[h]) : ses[o].flag = "superseded"
       THEN ses' = [ses EXCEPT ![s].flag = "fired"]
       ELSE /\ HasId(ses)
            /\ ses' \in OpenSpare([ses EXCEPT ![s].flag = "superseded"], h, FALSE)
  /\ UNCHANGED <<mode, background, poolClosed, exits, skipped, stage, chan, spares, spareHosts,
                 lastCalled, deferred, pooled>>

\* expire(): the TTL of a spare tears it down, and replaces it when no refresh
\* has; the refresh timer of the spare fired before
Expire(h, s) ==
  /\ Quiet /\ s \in ToSet(spares[h]) /\ ses[s].flag # "due"
  /\ LET left == [spares EXCEPT ![h] = Drop(@, s)]
         torn == Torn(ses, {s})
     IN /\ spares' = left
        /\ spareHosts' = IF left[h] = <<>> THEN Drop(spareHosts, h) ELSE spareHosts
        /\ \E recent \in MayBeRecent(h) :
             ses' \in IF ses[s].flag # "plain" /\ background /\ recent /\ SpareCount(torn, left, h) < Spares
                      THEN OpenSpare(torn, h, FALSE) ELSE {torn}
  /\ UNCHANGED <<mode, background, poolClosed, exits, skipped, stage, chan, lastCalled, deferred, pooled>>

-----------------------------------------------------------------------------
(* acquire() and release() *)

\* noteCall(): the host becomes the most recent of at most MaxSpareHosts
NoteCall(h) ==
  LET q == MovedLast(lastCalled, h)
  IN lastCalled' = IF Len(q) > MaxSpareHosts THEN Tail(q) ELSE q

\* acquire() in per-call mode finds a spare
TakeSpare(c, h) ==
  /\ Quiet /\ PerCall /\ stage[c] = "idle" /\ spares[h] # <<>>
  /\ LET s == Head(spares[h])
         left == [spares EXCEPT ![h] = Tail(@)]
         taken == [ses EXCEPT ![s].flag = "plain", ![s].spare = FALSE]
     IN /\ HasId(taken)
        /\ ses' \in Replenish(taken, left, h)
        /\ spares' = left
        /\ chan' = [chan EXCEPT ![c] = s]
  /\ spareHosts' = MovedLast(spareHosts, h)
  /\ stage' = [stage EXCEPT ![c] = "using"]
  /\ deferred' = Deferred(h)
  /\ NoteCall(h)
  /\ UNCHANGED <<mode, background, poolClosed, exits, skipped, pooled>>

\* ... or claims a spare's open that is old enough to be worth waiting for
WaitForSpare(c, h, s) ==
  /\ Quiet /\ PerCall /\ stage[c] = "idle" /\ spares[h] = <<>>
  /\ ses[s].st = "shaking" /\ ses[s].spare /\ ses[s].host = h /\ Holders(s) = {}
  /\ stage' = [stage EXCEPT ![c] = "waiting"]
  /\ chan' = [chan EXCEPT ![c] = s]
  /\ NoteCall(h)
  /\ UNCHANGED <<mode, background, poolClosed, exits, skipped, ses, spares, spareHosts, deferred, pooled>>

\* ... or opens a session of its own; in keep-alive mode when no idle session
\* is usable (an idle one may have outlived its limits)
OpenOwn(c, h) ==
  /\ Quiet /\ stage[c] = "idle" /\ (PerCall => spares[h] = <<>>) /\ HasId(ses)
  /\ \E e \in NextExits({}, skipped) : ses' = Begin(ses, NewId(ses), h, FALSE, e)
  /\ stage' = [stage EXCEPT ![c] = "opening"]
  /\ chan' = [chan EXCEPT ![c] = NewId(ses)]
  /\ IF PerCall THEN NoteCall(h) ELSE UNCHANGED lastCalled
  /\ UNCHANGED <<mode, background, poolClosed, exits, skipped, spares, spareHosts, deferred, pooled>>

\* acquire() in keep-alive mode finds an idle session
Reuse(c, h, s) ==
  /\ Quiet /\ ~PerCall /\ stage[c] = "idle"
  /\ s \in pooled /\ ses[s].host = h /\ ses[s].flag = "idle"
  /\ ses' = [ses EXCEPT ![s].flag = "busy"]
  /\ stage' = [stage EXCEPT ![c] = "using"]
  /\ chan' = [chan EXCEPT ![c] = s]
  /\ UNCHANGED <<mode, background, poolClosed, exits, skipped, spares, spareHosts, lastCalled, deferred,
                 pooled>>

\* The call's own handshake succeeds: acquire() resolves
OwnOpened(c) ==
  /\ Quiet /\ stage[c] = "opening"
  /\ LET s == chan[c]
         h == ses[s].host
         live == {o \in pooled : ses[o].host = h}
         done == [ses EXCEPT ![s] = [Free EXCEPT !.st = "open", !.host = h, !.flag = "busy"]]
     IN /\ ses[s].at # None
        /\ pooled' = IF ~PerCall /\ Cardinality(live) < MaxKeepAlive THEN pooled \cup {s} ELSE pooled
        /\ (PerCall => HasId(done)) /\ ses' \in Replenish(done, spares, h)
        /\ deferred' = Deferred(h)
  /\ stage' = [stage EXCEPT ![c] = "using"]
  /\ UNCHANGED <<mode, background, poolClosed, exits, skipped, chan, spares, spareHosts, lastCalled>>

\* waitFor() resumes with the claimed session: acquire() resolves
WaitResumes(c) ==
  /\ stage[c] = "waiting"
  /\ LET s == chan[c]
         h == ses[s].host
         done == [ses EXCEPT ![s] = [Free EXCEPT !.st = "open", !.host = h]]
     IN /\ ses[s].st = "landed" /\ HasId(done)
        /\ ses' \in Replenish(done, spares, h)
        /\ deferred' = Deferred(h)
  /\ stage' = [stage EXCEPT ![c] = "using"]
  /\ UNCHANGED <<mode, background, poolClosed, exits, skipped, chan, spares, spareHosts, lastCalled, pooled>>

\* A defect: an open that landed for a call that gave up is forgotten
WaitForgetsLanded(c) ==
  /\ stage[c] = "waiting"
  /\ ses[chan[c]].st # "landed" => Quiet
  /\ stage' = [stage EXCEPT ![c] = "idle"]
  /\ chan' = [chan EXCEPT ![c] = NoId]
  /\ UNCHANGED <<mode, background, poolClosed, exits, skipped, ses, spares, spareHosts, lastCalled,
                 deferred, pooled>>

\* The call's abort or deadline ends its wait: the open is unclaimed, and one
\* that has landed becomes a spare.  (After its deadline acquire() still calls
\* open(), whose first exchange fails at once.)
WaitGivesUp(c) ==
  /\ stage[c] = "waiting"
  /\ IF ses[chan[c]].st = "landed"
     THEN KeepSpare(ses[chan[c]].host, chan[c])
     ELSE Quiet /\ UNCHANGED <<ses, spares, spareHosts>>
  /\ stage' = [stage EXCEPT ![c] = "idle"]
  /\ chan' = [chan EXCEPT ![c] = NoId]
  /\ UNCHANGED <<mode, background, poolClosed, exits, skipped, lastCalled, deferred, pooled>>

\* release(): per-call sessions are torn down; a shared one that is still
\* usable becomes idle with a retirement timer, another one is retired
Release(c, usable) ==
  /\ Quiet /\ stage[c] = "using"
  /\ usable => ~PerCall /\ chan[c] \in pooled /\ ses[chan[c]].st = "open"
  /\ IF usable
     THEN /\ ses' = [ses EXCEPT ![chan[c]].flag = "idle"]
          /\ UNCHANGED pooled
     ELSE /\ ses' = Torn(ses, {chan[c]})
          /\ pooled' = pooled \ {chan[c]}
  /\ stage' = [stage EXCEPT ![c] = "idle"]
  /\ chan' = [chan EXCEPT ![c] = NoId]
  /\ UNCHANGED <<mode, background, poolClosed, exits, skipped, spares, spareHosts, lastCalled, deferred>>

\* The retirement timer of an idle shared session
Retire(s) ==
  /\ Quiet /\ s \in pooled /\ ses[s].flag = "idle"
  /\ ses' = Torn(ses, {s})
  /\ pooled' = pooled \ {s}
  /\ UNCHANGED <<mode, background, poolClosed, exits, skipped, stage, chan, spares, spareHosts, lastCalled,
                 deferred>>

-----------------------------------------------------------------------------
(* enableBackground() and close(), called by the worker *)

\* One replenish() per deferred host, in the order of the hosts
RefillEach(Ts, h) == UNION {Refill(T, spares, h) : T \in Ts}
RefillAll(hosts) ==
  LET f[n \in 0..Len(hosts)] == IF n = 0 THEN {ses} ELSE RefillEach(f[n - 1], hosts[n])
  IN f[Len(hosts)]

EnableBackground ==
  /\ background' = TRUE
  /\ IF background \/ poolClosed \/ ~PerCall \/ Spares = 0
     THEN UNCHANGED <<ses, deferred>>
     ELSE /\ deferred' = {}
          /\ \E hosts \in SetToSeqs(deferred) : ses' \in RefillAll(hosts)
  /\ UNCHANGED <<mode, poolClosed, exits, skipped, stage, chan, spares, spareHosts, lastCalled, pooled>>

\* close(): timers stop, so a scheduled open never starts; spares and shared
\* sessions are torn down, the latter even while a call holds them
ClosePool ==
  /\ poolClosed' = TRUE
  /\ ses' = [s \in Ids |->
               IF ses[s].st = "scheduled" \/ \E h \in Hosts : s \in ToSet(spares[h]) THEN Free
               ELSE IF s \notin pooled THEN ses[s]
               ELSE IF Holders(s) = {} THEN Free ELSE [ses[s] EXCEPT !.st = "dead"]]
  /\ spares' = [h \in Hosts |-> <<>>] /\ spareHosts' = <<>> /\ pooled' = {}
  /\ UNCHANGED <<mode, background, exits, skipped, stage, chan, lastCalled, deferred>>

\* Steps that only this module's timers, exits and sessions take
PoolStep ==
  \/ \E s \in Ids : StartSpare(s) \/ OpenFails(s) \/ SpareOpened(s) \/ Retire(s)
  \/ \E s \in Ids, how \in {"skip", "retry", "fatal"} : HandshakeFails(s, how)
  \/ \E e \in Exits : SkipEnds(e)
  \/ \E h \in Hosts, s \in Ids : Refresh(h, s) \/ Expire(h, s)
  \/ \E c \in Calls : OwnOpened(c) \/ WaitResumes(c) \/ WaitGivesUp(c)

Acquire(c, h) ==
  \/ TakeSpare(c, h) \/ OpenOwn(c, h)
  \/ \E s \in Ids : WaitForSpare(c, h, s) \/ Reuse(c, h, s)

-----------------------------------------------------------------------------
(* What the pool promises *)

\* How many places own the session
Owners(s) ==
  Cardinality({c \in Calls : stage[c] = "using" /\ chan[c] = s})
  + Cardinality({h \in Hosts : s \in ToSet(spares[h])})
  + (IF s \in pooled /\ ses[s].flag = "idle" THEN 1 ELSE 0)

\* Every handshaken session has exactly one owner that will end it: the call
\* that uses it, its host's list of spares (TTL timer), or the keep-alive map
\* while idle (retirement timer).  A claimed open that has landed belongs to the
\* call that waits for it, and an open in flight to at most one call.  A session
\* handed to two calls would mix two wallets' requests on one connection; one
\* without an owner holds a session at the exit until it times out there.
SessionsOwned ==
  \A s \in Ids :
    /\ ses[s].st = "open" => Owners(s) = 1
    /\ ses[s].st \in {"scheduled", "shaking", "landed", "free"} => Owners(s) = 0
    /\ ses[s].st = "landed" => Cardinality(Holders(s)) = 1
    /\ ses[s].st \in {"shaking", "dead"} => Cardinality(Holders(s)) <= 1

\* A host holds at most tlsSpares spares and opens that count, plus the one being
\* replaced, and at most MAX_SPARE_HOSTS hosts hold any (comment at the top of
\* pool.ts), through refreshes, expiries, claims that are given up and evictions
SparesBounded ==
  /\ \A h \in Hosts :
       /\ SpareCount(ses, spares, h) <= Spares
       /\ Len(spares[h]) <= Spares + 1
       /\ spares[h] # <<>> => h \in ToSet(spareHosts)
  /\ Len(spareHosts) <= MaxSpareHosts

=============================================================================
