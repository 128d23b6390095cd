------------------------ MODULE DelayedWorker_proofs ------------------------
(***************************************************************************)
(* DelayedWorker for any handles, works and horizon: types, the timer's    *)
(* invariant, and the implementation of TimedSlots.                        *)
(***************************************************************************)
EXTENDS DelayedWorker, TLAPS

-----------------------------------------------------------------------------
(* Lemmas about the table and the timer.                                   *)

(* A slot that is scheduled has a time within the horizon and a work.      *)
LEMMA SlotTypes ==
  ASSUME NEW s \in SlotStates
  PROVE  /\ s.ts \in Nat
         /\ s.ts < Horizon
         /\ s.w \in Works \cup {NoWork}
         /\ s.ts # SLEEP_TS => s \in [ts : Nat, w : Works]
  BY HorizonAssumption DEF SlotStates, SLEEP_TS

(* SetWork leaves a table of the right type, whatever it is given.         *)
LEMMA WithWorkType ==
  ASSUME slots \in [Handles -> SlotStates],
         NEW h \in Handles, NEW w \in Works \cup {NoWork}, NEW ts \in 1..(Horizon - 1)
  PROVE  WithWork(h, w, ts) \in [Handles -> SlotStates]
<1>1. [ts |-> IF w = NoWork THEN SLEEP_TS ELSE ts, w |-> w] \in SlotStates
  <2>1. CASE w = NoWork
    BY <2>1 DEF SlotStates, SLEEP_TS
  <2>2. CASE w # NoWork
    BY <2>2 DEF SlotStates
  <2>3. QED
    BY <2>1, <2>2
<1>2. QED
  BY <1>1 DEF WithWork

(* ReloadTimer leaves the timer disarmed, or armed for no later than any   *)
(* scheduled slot or the next instant.                                     *)
LEMMA ReloadCovers ==
  ASSUME NEW s \in [Handles -> SlotStates], now \in Nat, ReloadTimer(s)
  PROVE  /\ timer' \in Nat
         /\ \A h \in Scheduled(s) :
              timer' # DISARMED /\ (timer' <= s[h].ts \/ timer' <= now + MIN_INTERVAL)
<1>1. CASE Scheduled(s) = {}
  BY <1>1 DEF ReloadTimer, DISARMED
<1>2. CASE Scheduled(s) # {}
  <2>1. PICK h \in Handles :
          /\ IsEarliestWork(h, s)
          /\ timer' = IF s[h].ts > now THEN s[h].ts ELSE now + MIN_INTERVAL
    BY <1>2 DEF ReloadTimer
  <2>2. \A g \in Handles : s[g].ts \in Nat
    BY SlotTypes
  <2>3. h \in Scheduled(s) /\ \A g \in Scheduled(s) : s[h].ts <= s[g].ts
    BY <2>1, <2>2 DEF IsEarliestWork, IsEarliest, Scheduled
  <2>4. timer' \in Nat /\ timer' # DISARMED
    BY <2>1, <2>2 DEF DISARMED, MIN_INTERVAL
  <2>5. timer' <= s[h].ts \/ timer' <= now + MIN_INTERVAL
    BY <2>1, <2>2 DEF MIN_INTERVAL
  <2>6. QED
    BY <2>2, <2>3, <2>4, <2>5 DEF Scheduled, MIN_INTERVAL
<1>3. QED
  BY <1>1, <1>2

-----------------------------------------------------------------------------
(* Type correctness.                                                       *)

LEMMA TypeStep == TypeOK /\ [Next]_vars => TypeOK'
<1> SUFFICES ASSUME TypeOK, [Next]_vars PROVE TypeOK'
  OBVIOUS
<1> USE HandlesAssumption, HorizonAssumption
<1>1. now \in Nat
  BY DEF TypeOK
<1>2. CASE Create
  <2>1. EmptySlot \in SlotStates
    BY DEF EmptySlot, SlotStates
  <2>2. QED
    BY <1>2, <2>1 DEF Create, TypeOK
<1>3. CASE Submit
  <2>1. PICK h \in Handles, w \in Works \cup {NoWork}, ts \in 1..(Horizon - 1) :
          SetWork(h, w, ts)
    BY <1>3 DEF Submit
  <2>2. WithWork(h, w, ts) \in [Handles -> SlotStates]
    BY WithWorkType DEF TypeOK
  <2>3. timer' \in Nat
    BY <1>1, <2>1, <2>2, ReloadCovers DEF SetWork
  <2>4. signal' = signal
    BY <2>1 DEF SetWork, ReloadTimer
  <2>5. QED
    BY <2>1, <2>2, <2>3, <2>4 DEF SetWork, TypeOK
<1>4. CASE TimerExpires
  BY <1>4 DEF TimerExpires, TypeOK, DISARMED
<1>5. CASE Tick
  BY <1>5 DEF Tick, TypeOK
<1>6. CASE OnTimerEnter
  BY <1>6 DEF OnTimerEnter, TypeOK
<1>7. ASSUME NEW h \in Handles, OnTimerPick(h) PROVE TypeOK'
  <2>1. slots[h] \in SlotStates
    BY DEF TypeOK
  <2>2. slots[h].w \in Works \cup {NoWork}
    BY <2>1, SlotTypes
  <2>3. [slots[h] EXCEPT !.ts = SLEEP_TS] \in SlotStates
    BY <2>1, <2>2 DEF SlotStates, SLEEP_TS
  <2>4. QED
    BY <1>7, <2>2, <2>3 DEF OnTimerPick, TypeOK
<1>8. CASE OnTimerNothingDue
  BY <1>8 DEF OnTimerNothingDue, TypeOK
<1>9. CASE OnTimerWorkDone
  BY <1>9 DEF OnTimerWorkDone, TypeOK
<1>10. CASE OnTimerReload
  <2>1. timer' \in Nat
    BY <1>1, <1>10, ReloadCovers DEF OnTimerReload, TypeOK
  <2>2. QED
    BY <1>10, <2>1 DEF OnTimerReload, ReloadTimer, TypeOK
<1>11. CASE UNCHANGED vars
  BY <1>11 DEF vars, TypeOK
<1>12. QED
  BY <1>2, <1>3, <1>4, <1>5, <1>6, <1>7, <1>8, <1>9, <1>10, <1>11 DEF Next, OnTimer

(* Every reachable state of the worker has the declared types; a slot is   *)
(* never scheduled without a work to run.                                  *)
THEOREM TypeCorrect == Spec => []TypeOK
<1>1. EmptySlot \in SlotStates
  BY DEF EmptySlot, SlotStates
<1>2. ASSUME Init PROVE TypeOK
  <2>1. signal \in BOOLEAN
    BY <1>2, Zenon DEF Init
  <2>2. now \in 0..Horizon /\ timer \in Nat /\ size \in Nat
    BY <1>2, HorizonAssumption DEF Init, DISARMED
  <2>3. QED
    BY <1>1, <1>2, <2>1, <2>2 DEF Init, TypeOK
<1>3. QED
  BY <1>2, TypeStep, PTL DEF Spec

-----------------------------------------------------------------------------
(* The timer.                                                              *)

(* The timer's invariant is inductive on top of the types: only the two    *)
(* callers of ReloadTimer and the end of _OnTimer can make it interesting. *)
LEMMA TimerStep == TypeOK /\ TimerCoversEarliest /\ [Next]_vars => TimerCoversEarliest'
<1> SUFFICES ASSUME TypeOK, TimerCoversEarliest, [Next]_vars
             PROVE  TimerCoversEarliest'
  OBVIOUS
<1> USE HandlesAssumption
<1>1. now \in Nat /\ timer \in Nat /\ \A h \in Handles : slots[h].ts \in Nat
  BY SlotTypes DEF TypeOK
<1>2. CASE Create
  <2>1. \A h \in Scheduled(slots') : h \in Scheduled(slots) /\ slots'[h] = slots[h]
    BY <1>2 DEF Create, TypeOK, Scheduled, EmptySlot, SLEEP_TS
  <2>2. QED
    BY <1>1, <1>2, <2>1 DEF Create, TimerCoversEarliest
<1>3. CASE Submit
  <2>1. PICK h \in Handles, w \in Works \cup {NoWork}, ts \in 1..(Horizon - 1) :
          SetWork(h, w, ts)
    BY <1>3 DEF Submit
  <2>2. WithWork(h, w, ts) \in [Handles -> SlotStates]
    BY WithWorkType DEF TypeOK
  <2>3. \A g \in Scheduled(slots') :
          timer' # DISARMED /\ (timer' <= slots'[g].ts \/ timer' <= now + MIN_INTERVAL)
    BY <1>1, <2>1, <2>2, ReloadCovers DEF SetWork
  <2>4. now' = now
    BY <2>1 DEF SetWork
  <2>5. QED
    BY <2>3, <2>4 DEF TimerCoversEarliest
<1>4. CASE TimerExpires
  BY <1>4 DEF TimerExpires, TimerCoversEarliest
<1>5. CASE Tick
  <2>1. now' = now + 1 /\ timer' = timer /\ slots' = slots /\ pc' = pc /\ signal' = signal
    BY <1>5 DEF Tick
  <2>2. \A h \in Scheduled(slots) :
          timer <= now + MIN_INTERVAL => timer <= now + 1 + MIN_INTERVAL
    BY <1>1 DEF MIN_INTERVAL
  <2>3. QED
    BY <2>1, <2>2 DEF TimerCoversEarliest, Scheduled
<1>6. CASE OnTimerEnter
  BY <1>6 DEF OnTimerEnter, TimerCoversEarliest
<1>7. ASSUME NEW h \in Handles, OnTimerPick(h) PROVE TimerCoversEarliest'
  BY <1>7 DEF OnTimerPick, TimerCoversEarliest
<1>8. CASE OnTimerNothingDue
  BY <1>8 DEF OnTimerNothingDue, TimerCoversEarliest
<1>9. CASE OnTimerWorkDone
  BY <1>9 DEF OnTimerWorkDone, TimerCoversEarliest
<1>10. CASE OnTimerReload
  <2>1. \A g \in Scheduled(slots) :
          timer' # DISARMED /\ (timer' <= slots[g].ts \/ timer' <= now + MIN_INTERVAL)
    BY <1>1, <1>10, ReloadCovers DEF OnTimerReload, TypeOK
  <2>2. QED
    BY <1>10, <2>1 DEF OnTimerReload, TimerCoversEarliest
<1>11. CASE UNCHANGED vars
  BY <1>11 DEF vars, TimerCoversEarliest, Scheduled
<1>12. QED
  BY <1>2, <1>3, <1>4, <1>5, <1>6, <1>7, <1>8, <1>9, <1>10, <1>11 DEF Next, OnTimer

(* No deadline is lost between the critical sections, however many slots,  *)
(* threads and submissions there are.                                      *)
THEOREM TimerCovers == Spec => []TimerCoversEarliest
<1>1. ASSUME Init PROVE TimerCoversEarliest
  <2>1. \A h \in Handles : slots[h].ts = 0
    BY <1>1 DEF Init, EmptySlot, SLEEP_TS
  <2>2. Scheduled(slots) = {}
    BY <2>1 DEF Scheduled, SLEEP_TS
  <2>3. QED
    BY <2>2, Zenon DEF TimerCoversEarliest
<1>2. QED
  BY <1>1, TimerStep, TypeCorrect, PTL DEF Spec

-----------------------------------------------------------------------------
(* The implementation of TimedSlots.                                       *)

(* The timer thread holds a work only while it runs it.                    *)
IdleHoldsNothing == pc # "run" => work = NoWork

LEMMA IdleStep == IdleHoldsNothing /\ [Next]_vars => IdleHoldsNothing'
<1> SUFFICES ASSUME IdleHoldsNothing, [Next]_vars PROVE IdleHoldsNothing'
  OBVIOUS
<1>1. CASE OnTimer
  BY <1>1 DEF OnTimer, OnTimerEnter, OnTimerPick, OnTimerNothingDue,
              OnTimerWorkDone, OnTimerReload, IdleHoldsNothing
<1>2. CASE ~OnTimer
  <2>1. pc' = pc /\ work' = work
    BY <1>2 DEF Next, Create, Submit, SetWork, TimerExpires, Tick, vars
  <2>2. QED
    BY <2>1 DEF IdleHoldsNothing
<1>3. QED
  BY <1>1, <1>2

(* The table of TimedSlots that stands for slots_.                         *)
Pending(s) == [h \in Handles |-> IF s[h].ts = SLEEP_TS THEN NoWork ELSE s[h]]

LEMMA PendingIsScheduled ==
  ASSUME slots \in [Handles -> SlotStates], NEW h \in Handles
  PROVE  /\ Pending(slots)[h] # NoWork <=> h \in Scheduled(slots)
         /\ h \in Scheduled(slots) => Pending(slots)[h] = slots[h]
<1>1. slots[h].ts \in Nat /\ (slots[h].ts # SLEEP_TS => slots[h] # NoWork)
  BY SlotTypes, WorksAssumption
<1>2. QED
  BY <1>1 DEF Pending, Scheduled, SLEEP_TS

(* Every step of the worker is a step of TimedSlots or leaves its state    *)
(* alone.                                                                  *)
LEMMA PromiseStep ==
  TypeOK /\ IdleHoldsNothing /\ [Next]_vars => [Promise!Next]_(Promise!vars)
<1> SUFFICES ASSUME TypeOK, IdleHoldsNothing, [Next]_vars
             PROVE  Promise!Next \/ UNCHANGED Promise!vars
  OBVIOUS
<1> USE HandlesAssumption, HorizonAssumption
<1>1. CASE Create
  <2>1. PICK h \in Handles : h = size
    BY <1>1 DEF Create
  <2>2. Pending(slots') = [Pending(slots) EXCEPT ![h] = NoWork]
    BY <1>1, <2>1 DEF Create, TypeOK, Pending, EmptySlot, SLEEP_TS
  <2>3. Promise!Withdraw(h)
    BY <1>1, <2>2 DEF Create, Promise!Withdraw, Pending
  <2>4. QED
    BY <2>3 DEF Promise!Next
<1>2. CASE Submit
  <2>1. PICK h \in Handles, w \in Works \cup {NoWork}, ts \in 1..(Horizon - 1) :
          SetWork(h, w, ts)
    BY <1>2 DEF Submit
  <2>2. CASE w = NoWork
    <3>1. Pending(slots') = [Pending(slots) EXCEPT ![h] = NoWork]
      BY <2>1, <2>2 DEF SetWork, WithWork, TypeOK, Pending
    <3>2. Promise!Withdraw(h)
      BY <2>1, <3>1 DEF SetWork, Promise!Withdraw, Pending
    <3>3. QED
      BY <3>2 DEF Promise!Next
  <2>3. CASE w # NoWork
    <3>1. ts # SLEEP_TS
      BY DEF SLEEP_TS
    <3>2. slots' = [slots EXCEPT ![h] = [ts |-> ts, w |-> w]]
      BY <2>1, <2>3 DEF SetWork, WithWork
    <3>3. Pending(slots') = [Pending(slots) EXCEPT ![h] = [ts |-> ts, w |-> w]]
      BY <3>1, <3>2 DEF TypeOK, Pending
    <3>4. Promise!Submit(h, w, ts)
      BY <2>1, <3>3 DEF SetWork, Promise!Submit, Pending
    <3>5. QED
      BY <2>3, <3>4 DEF Promise!Next
  <2>4. QED
    BY <2>2, <2>3
<1>3. CASE Tick
  BY <1>3 DEF Tick, Promise!Tick, Promise!Next
<1>4. ASSUME NEW h \in Handles, OnTimerPick(h) PROVE Promise!Next
  <2>1. h \in Scheduled(slots) /\ \A g \in Ready(slots) : g \in Scheduled(slots)
    BY <1>4 DEF OnTimerPick, IsEarliestReadyWork, IsEarliest, Ready
  <2>2. slots[h].ts < now /\ \A g \in Handles :
          g \in Scheduled(slots) /\ slots[g].ts < now =>
            slots[h].ts < slots[g].ts \/ (slots[h].ts = slots[g].ts /\ h <= g)
    BY <1>4 DEF OnTimerPick, IsEarliestReadyWork, IsEarliest, Ready
  <2>3. Promise!FirstDue(h)
    <3>1. \A g \in Handles :
            /\ Pending(slots)[g] # NoWork <=> g \in Scheduled(slots)
            /\ g \in Scheduled(slots) => Pending(slots)[g] = slots[g]
      BY PendingIsScheduled DEF TypeOK
    <3>2. QED
      BY <2>1, <2>2, <3>1 DEF Promise!FirstDue, Promise!Due, Pending
  <2>4. Pending(slots') = [Pending(slots) EXCEPT ![h] = NoWork]
    <3>1. \A g \in Handles : slots'[g] =
            IF g = h THEN [slots[h] EXCEPT !.ts = SLEEP_TS] ELSE slots[g]
      BY <1>4 DEF OnTimerPick, TypeOK
    <3>2. [slots[h] EXCEPT !.ts = SLEEP_TS].ts = SLEEP_TS
      BY DEF TypeOK, SlotStates
    <3>3. QED
      BY <3>1, <3>2 DEF Pending
  <2>5. Pending(slots)[h] = slots[h]
    BY <2>1, PendingIsScheduled DEF TypeOK
  <2>6. work = NoWork
    BY <1>4 DEF OnTimerPick, IdleHoldsNothing
  <2>7. Promise!Start(h)
    BY <1>4, <2>3, <2>4, <2>5, <2>6 DEF OnTimerPick, Promise!Start, Pending
  <2>8. QED
    BY <2>7 DEF Promise!Next, Promise!StartSome
<1>5. CASE OnTimerWorkDone
  BY <1>5 DEF OnTimerWorkDone, Promise!Finish, Promise!Next, Promise!vars
<1>6. CASE TimerExpires \/ OnTimerEnter \/ OnTimerNothingDue \/ OnTimerReload
             \/ UNCHANGED vars
  BY <1>6 DEF TimerExpires, OnTimerEnter, OnTimerNothingDue, OnTimerReload, vars,
              Promise!vars
<1>7. QED
  BY <1>1, <1>2, <1>3, <1>4, <1>5, <1>6 DEF Next, OnTimer

(* For any handles, works and horizon, the worker keeps the promise of     *)
(* TimedSlots: the earliest due work first, never early, never two at a    *)
(* time, never one that was replaced or cancelled before it was picked.    *)
THEOREM KeepsPromise == Spec => ImplementsTimedSlots
<1>1. Init => Promise!Init
  BY DEF Init, Promise!Init, EmptySlot, SLEEP_TS
<1>2. Init => IdleHoldsNothing
  BY DEF Init, IdleHoldsNothing
<1>3. QED
  BY <1>1, <1>2, IdleStep, PromiseStep, TypeCorrect, PTL
  DEF Spec, ImplementsTimedSlots, Promise!Spec
=============================================================================
