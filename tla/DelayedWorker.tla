--------------------------- MODULE DelayedWorker ----------------------------
(***************************************************************************)
(* platform/delayed_worker.cpp: deferred work on one POSIX timer.          *)
(*                                                                         *)
(* Any thread may call Create and SetWork; every access to slots_ is under *)
(* mut_, so each critical section is one step.  The timer is created with  *)
(* SIGEV_THREAD: the C library of the target keeps one thread per timer,   *)
(* which waits for the timer's signal and calls _OnTimer, one call at a    *)
(* time.  _OnTimer takes the lock to pick a work, drops it to run the work *)
(* (which may itself call SetWork), and takes it again to reload the       *)
(* timer.                                                                  *)
(*                                                                         *)
(* The clock is the program's own (microseconds, strictly increasing       *)
(* enough for the strict comparison in FindEarliestReadyWorkIdx to matter) *)
(* and stops at Horizon, where every deadline counts as passed.            *)
(***************************************************************************)
EXTENDS Integers

CONSTANTS Handles,   \* the indices slots_ can have: 0 .. n-1
          Works,     \* the std::function values that can be submitted
          NoWork,    \* nullptr
          Horizon    \* bound on the clock

ASSUME HandlesAssumption == Handles \subseteq Nat
ASSUME WorksAssumption   == /\ NoWork \notin Works
                            /\ NoWork \notin [ts : Nat, w : Works]
ASSUME HorizonAssumption == Horizon \in Nat \ {0}

SLEEP_TS == 0
MIN_INTERVAL == 1
DISARMED == 0

VARIABLES
  size,     \* slots_.size()
  slots,    \* slots_: preserveTs and work of each slot
  timer,    \* when the POSIX timer expires, or DISARMED
  signal,   \* its notification is queued for the timer thread
  now,      \* GetNowTs()
  pc,       \* where the timer thread is in _OnTimer
  work      \* the work _OnTimer copied out of its slot

vars == <<size, slots, timer, signal, now, pc, work>>

Created == {h \in Handles : h < size}

EmptySlot == [ts |-> SLEEP_TS, w |-> NoWork]

(* A slot is asleep, with or without the work it ran last, or scheduled    *)
(* with a work to run.                                                     *)
SlotStates == [ts : {SLEEP_TS}, w : Works \cup {NoWork}]
                \cup [ts : 1..(Horizon - 1), w : Works]

Scheduled(s) == {h \in Handles : s[h].ts > SLEEP_TS}

(* Mutant: a deadline counts as passed at the instant it names.            *)
ReadyAtOnce(s) == {h \in Scheduled(s) : s[h].ts <= now}

Ready(s) == {h \in Scheduled(s) : s[h].ts < now}

(* The scan both Find functions share: the first of the earliest slots of  *)
(* a set.                                                                  *)
IsEarliest(h, s, S) ==
  /\ h \in S
  /\ \A g \in S : s[h].ts < s[g].ts \/ (s[h].ts = s[g].ts /\ h <= g)

IsEarliestWork(h, s) == IsEarliest(h, s, Scheduled(s))

IsEarliestReadyWork(h, s) == IsEarliest(h, s, Ready(s))

(* Mutant: a timer that is armed is left alone.                            *)
ReloadDisarmedTimer(s) ==
  /\ IF Scheduled(s) = {} \/ timer # DISARMED
       THEN timer' = timer
       ELSE \E h \in Handles :
              /\ IsEarliestWork(h, s)
              /\ timer' = IF s[h].ts > now THEN s[h].ts ELSE now + MIN_INTERVAL
  /\ UNCHANGED signal

(* ReloadTimer for the table s the caller leaves behind: arm the timer for *)
(* the earliest work, at once if that work is late, or disarm it.  Arming  *)
(* does not take back a notification that is already queued.               *)
ReloadTimer(s) ==
  /\ IF Scheduled(s) = {}
       THEN timer' = DISARMED
       ELSE \E h \in Handles :
              /\ IsEarliestWork(h, s)
              /\ timer' = IF s[h].ts > now THEN s[h].ts ELSE now + MIN_INTERVAL
  /\ UNCHANGED signal

Init ==
  /\ size = 0
  /\ slots = [h \in Handles |-> EmptySlot]
  /\ timer = DISARMED
  /\ signal = FALSE
  /\ now = 0
  /\ pc = "waiting"
  /\ work = NoWork

-----------------------------------------------------------------------------
(* Client threads.                                                         *)

Create ==
  /\ size \in Handles
  /\ size' = size + 1
  /\ slots' = [slots EXCEPT ![size] = EmptySlot]
  /\ UNCHANGED <<timer, signal, now, pc, work>>

(* Mutant: cancelling keeps the time that came with the null work.         *)
WithWorkOrNull(h, w, ts) == [slots EXCEPT ![h] = [ts |-> ts, w |-> w]]

(* The table after a SetWork: a null work puts the slot to sleep whatever  *)
(* time came with it.                                                      *)
WithWork(h, w, ts) ==
  [slots EXCEPT ![h] = [ts |-> IF w = NoWork THEN SLEEP_TS ELSE ts, w |-> w]]

SetWork(h, w, ts) ==
  /\ h \in Created
  /\ slots' = WithWork(h, w, ts)
  /\ ReloadTimer(WithWork(h, w, ts))
  /\ UNCHANGED <<size, now, pc, work>>

-----------------------------------------------------------------------------
(* The kernel and the clock.                                               *)

TimerExpires ==
  /\ timer # DISARMED
  /\ timer <= now \/ now = Horizon
  /\ timer' = DISARMED
  /\ signal' = TRUE
  /\ UNCHANGED <<size, slots, now, pc, work>>

Tick ==
  /\ now < Horizon
  /\ now' = now + 1
  /\ UNCHANGED <<size, slots, timer, signal, pc, work>>

-----------------------------------------------------------------------------
(* The timer thread in _OnTimer.                                           *)

OnTimerEnter ==
  /\ pc = "waiting"
  /\ signal
  /\ signal' = FALSE
  /\ pc' = "pick"
  /\ UNCHANGED <<size, slots, timer, now, work>>

(* The first critical section, when some work is due.                      *)
OnTimerPick(h) ==
  /\ pc = "pick"
  /\ IsEarliestReadyWork(h, slots)
  /\ slots' = [slots EXCEPT ![h].ts = SLEEP_TS]
  /\ work' = slots[h].w
  /\ pc' = "run"
  /\ UNCHANGED <<size, timer, signal, now>>

(* The first critical section, when none is.                               *)
OnTimerNothingDue ==
  /\ pc = "pick"
  /\ Ready(slots) = {}
  /\ pc' = "reload"
  /\ UNCHANGED <<size, slots, timer, signal, now, work>>

(* The work returns; while pc is "run" any SetWork may be its own.         *)
OnTimerWorkDone ==
  /\ pc = "run"
  /\ work' = NoWork
  /\ pc' = "reload"
  /\ UNCHANGED <<size, slots, timer, signal, now>>

(* Mutant: the timer is not armed again after a work has run.              *)
OnTimerReturn ==
  /\ pc = "reload"
  /\ pc' = "waiting"
  /\ UNCHANGED <<size, slots, timer, signal, now, work>>

(* The second critical section.                                            *)
OnTimerReload ==
  /\ pc = "reload"
  /\ ReloadTimer(slots)
  /\ pc' = "waiting"
  /\ UNCHANGED <<size, slots, now, work>>

OnTimer ==
  \/ OnTimerEnter
  \/ \E h \in Handles : OnTimerPick(h)
  \/ OnTimerNothingDue
  \/ OnTimerWorkDone
  \/ OnTimerReload

Submit ==
  \E h \in Handles, w \in Works \cup {NoWork}, ts \in 1..(Horizon - 1) :
    SetWork(h, w, ts)

Next ==
  \/ Create
  \/ Submit
  \/ TimerExpires
  \/ Tick
  \/ OnTimer

(* The clock runs, the kernel delivers, the timer thread is scheduled and  *)
(* every work returns; nothing is asked of the clients.                    *)
Fairness == WF_vars(Tick) /\ WF_vars(TimerExpires) /\ WF_vars(OnTimer)

Spec == Init /\ [][Next]_vars /\ Fairness

-----------------------------------------------------------------------------
(* Properties.                                                             *)

(* Types, and no slot is scheduled without a work: SetWork puts a slot     *)
(* given nullptr to sleep.                                                 *)
TypeOK ==
  /\ size \in Nat
  /\ slots \in [Handles -> SlotStates]
  /\ timer \in Nat
  /\ signal \in BOOLEAN
  /\ now \in 0..Horizon
  /\ pc \in {"waiting", "pick", "run", "reload"}
  /\ work \in Works \cup {NoWork}

(* No deadline is ever lost between the lock's critical sections: while    *)
(* the timer thread sleeps with no notification queued and some work is    *)
(* scheduled, the timer is armed, and for no later than the earliest work  *)
(* or, for a work already late, the next instant.                          *)
TimerCoversEarliest ==
  (pc = "waiting" /\ ~signal) =>
    \A h \in Scheduled(slots) :
      timer # DISARMED /\ (timer <= slots[h].ts \/ timer <= now + MIN_INTERVAL)

(* If the clients ever stop submitting, everything scheduled gets run: one *)
(* work per notification is enough because the last step of _OnTimer       *)
(* always looks for the next one.                                          *)
DrainsWhenQuiet ==
  []<><<Submit>>_vars \/ []<>(Scheduled(slots) = {})

(* The worker keeps what TimedSlots promises: no work runs early, twice or *)
(* out of order, and a replaced or cancelled work runs only if it had      *)
(* already been picked.                                                    *)
Promise == INSTANCE TimedSlots WITH
  pending <- [h \in Handles |->
                IF slots[h].ts = SLEEP_TS THEN NoWork ELSE slots[h]],
  running <- work

ImplementsTimedSlots == Promise!Spec
=============================================================================
