------------------------------- MODULE Cover --------------------------------
(***************************************************************************)
(* The cover traffic controller (cover.ts): a loop of a timer, a dummy     *)
(* packet on its way to the entry, and the next timer.  start() and stop() *)
(* come at any time, also while a dummy is on its way.  What a dummy holds *)
(* and which path it takes are left out; one that is not sent (no WASM, no *)
(* path, a failed post) ends like one that is.                             *)
(***************************************************************************)
EXTENDS Integers, FiniteSets

CONSTANT MaxStarts        \* bound: calls of start()

ASSUME CoverAssumption == MaxStarts \in Nat

VARIABLES
  running,                \* this.running
  timers,                 \* timers that will fire
  timerId,                \* this.timerId; 0 is null
  sending,                \* calls of _fire() that await _sendDummy()
  starts,                 \* calls of start(), for the bound
  overtook                \* those of them that came while a dummy was on its way

coverVars == <<running, timers, timerId, sending, starts, overtook>>

CoverInit ==
  /\ running = FALSE /\ timers = {} /\ timerId = 0 /\ sending = 0
  /\ starts = 0 /\ overtook = 0

Loops == Cardinality(timers) + sending

\* _scheduleNext(): timerId is the last timer that was set; a number that is not
\* in use stands for a new one.
ScheduleNext(set) ==
  \E t \in 1..MaxStarts + 1 :
    /\ t \notin set /\ \A u \in 1..t - 1 : u \in set
    /\ timers' = set \cup {t} /\ timerId' = t

\* What stop() leaves: it knows of one timer.
Cleared == timers \ {timerId}

CoverStop ==
  /\ running
  /\ running' = FALSE /\ timers' = Cleared /\ timerId' = 0
  /\ UNCHANGED <<sending, starts, overtook>>

\* Bug: start() does not stop the loop that runs.
CoverStartOnly(rate) ==
  /\ starts < MaxStarts /\ starts' = starts + 1
  /\ overtook' = IF rate > 0 /\ sending > 0 THEN overtook + 1 ELSE overtook
  /\ running' = (rate > 0)
  /\ IF rate > 0 THEN ScheduleNext(timers) ELSE UNCHANGED <<timers, timerId>>
  /\ UNCHANGED sending

\* start(): stop(), and a new loop unless the rate is 0.
CoverStart(rate) ==
  /\ starts < MaxStarts /\ starts' = starts + 1
  /\ overtook' = IF rate > 0 /\ sending > 0 THEN overtook + 1 ELSE overtook
  /\ running' = (rate > 0)
  /\ IF rate > 0 THEN ScheduleNext(Cleared) ELSE timers' = Cleared /\ timerId' = 0
  /\ UNCHANGED sending

\* A timer fires: _fire() up to the post of its dummy.
Fire(t) ==
  /\ t \in timers
  /\ timers' = timers \ {t}
  /\ sending' = IF running THEN sending + 1 ELSE sending
  /\ UNCHANGED <<running, timerId, starts, overtook>>

\* _sendDummy() resolves or rejects: the loop goes on if cover traffic runs now,
\* whoever started it.
DummyEnds ==
  /\ sending > 0
  /\ sending' = sending - 1
  /\ IF running THEN ScheduleNext(timers) ELSE UNCHANGED <<timers, timerId>>
  /\ UNCHANGED <<running, starts, overtook>>

CoverNext ==
  \/ CoverStop \/ DummyEnds
  \/ \E rate \in {0, 1} : CoverStart(rate)
  \/ \E t \in timers : Fire(t)

CoverSpec == CoverInit /\ [][CoverNext]_coverVars

-----------------------------------------------------------------------------

\* Restarts do not multiply the cover traffic: only a start() that overtakes a
\* dummy on its way leaves another loop behind, and however starts, stops, timers
\* and dummies interleave there is never a further one (cover.ts: start, stop,
\* _fire).
LoopsBounded == Loops <= 1 + overtook

\* "Start emitting cover packets. Safe to call multiple times." (cover.ts:51): the
\* rate is that of one loop.
OneLoop == Loops <= 1
=============================================================================
