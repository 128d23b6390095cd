----------------------------- MODULE TimedSlots -----------------------------
(***************************************************************************)
(* What DelayedWorker promises the modules that use it: a table of slots,  *)
(* each holding at most one deferred work and the time it is due.  A work  *)
(* that is due is started once, the earliest first, never before its time  *)
(* and never while another one runs; submitting to a slot replaces what    *)
(* the slot holds, withdrawing empties it.  A work already started is out  *)
(* of reach of both.  No timer, no signal and no lock appear here.         *)
(***************************************************************************)
EXTENDS Integers

CONSTANTS Handles,   \* slot indices
          Works,     \* what can be submitted
          NoWork,    \* an empty slot, or an idle timer thread
          Horizon    \* the last instant the clock reaches

VARIABLES pending,   \* [Handles -> a [ts, w] record or NoWork]
          running,   \* the work being executed, or NoWork
          now        \* the monotonic clock

vars == <<pending, running, now>>

Due(h) == pending[h] # NoWork /\ pending[h].ts < now

(* Slot h is due and no other due slot should be started before it: ties   *)
(* go to the lower index.                                                  *)
FirstDue(h) ==
  /\ Due(h)
  /\ \A g \in Handles :
       Due(g) => \/ pending[h].ts < pending[g].ts
                 \/ pending[h].ts = pending[g].ts /\ h <= g

Init ==
  /\ pending = [h \in Handles |-> NoWork]
  /\ running = NoWork
  /\ now = 0

Submit(h, w, ts) ==
  /\ pending' = [pending EXCEPT ![h] = [ts |-> ts, w |-> w]]
  /\ UNCHANGED <<running, now>>

Withdraw(h) ==
  /\ pending' = [pending EXCEPT ![h] = NoWork]
  /\ UNCHANGED <<running, now>>

Start(h) ==
  /\ running = NoWork
  /\ FirstDue(h)
  /\ running' = pending[h].w
  /\ pending' = [pending EXCEPT ![h] = NoWork]
  /\ UNCHANGED now

Finish ==
  /\ running # NoWork
  /\ running' = NoWork
  /\ UNCHANGED <<pending, now>>

Tick ==
  /\ now < Horizon
  /\ now' = now + 1
  /\ UNCHANGED <<pending, running>>

StartSome == \E h \in Handles : Start(h)

Next ==
  \/ \E h \in Handles, w \in Works, ts \in 1..(Horizon - 1) : Submit(h, w, ts)
  \/ \E h \in Handles : Withdraw(h)
  \/ StartSome
  \/ Finish
  \/ Tick

Spec == Init /\ [][Next]_vars
=============================================================================
