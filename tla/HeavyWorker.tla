---------------------------- MODULE HeavyWorker -----------------------------
(***************************************************************************)
(* platform/heavy_worker.cpp: a background thread that runs the last work  *)
(* submitted to each handle.                                               *)
(*                                                                         *)
(* The thread waits on cv_ for pending_, clears it, and then walks works_  *)
(* from the first handle to the last, taking and running what it finds.    *)
(* SetWork fills a slot and sets pending_ under mut_, and notifies after   *)
(* it has dropped the lock.  Create takes no lock: it is only safe because *)
(* Dfps::Start constructs every module before it starts any, which is the  *)
(* variable started here.  A work may itself call SetWork, on the worker's *)
(* own thread.                                                             *)
(***************************************************************************)
EXTENDS Integers

CONSTANTS NHandles,  \* how many handles the modules create
          Works,     \* the std::function values that can be submitted
          NoWork,    \* nullptr
          Clients,   \* threads that call SetWork
          Self       \* the worker's thread, which calls it from a work

ASSUME NHandlesAssumption == NHandles \in Nat
ASSUME WorksAssumption    == NoWork \notin Works
ASSUME SelfAssumption     == Self \notin Clients

Handles == 0..(NHandles - 1)

VARIABLES
  started,    \* Dfps::Start has reached its loop over Start()
  size,       \* works_.size()
  works,      \* works_: the work of each handle
  pending,    \* pending_
  notifying,  \* threads between lk.unlock() and cv_.notify_one()
  pc,         \* where the worker's thread is
  cursor,     \* the position of its walk over works_
  work        \* the work it took

vars == <<started, size, works, pending, notifying, pc, cursor, work>>

Init ==
  /\ started = FALSE
  /\ size = 0
  /\ works = [h \in Handles |-> NoWork]
  /\ pending = FALSE
  /\ notifying = {}
  /\ pc = "check"
  /\ cursor = 0
  /\ work = NoWork

-----------------------------------------------------------------------------
(* Dfps::Start, on the main thread.                                        *)

Create ==
  /\ ~started
  /\ size < NHandles
  /\ size' = size + 1
  /\ works' = [works EXCEPT ![size] = NoWork]
  /\ UNCHANGED <<started, pending, notifying, pc, cursor, work>>

StartModules ==
  /\ ~started
  /\ size = NHandles
  /\ started' = TRUE
  /\ UNCHANGED <<size, works, pending, notifying, pc, cursor, work>>

-----------------------------------------------------------------------------
(* SetWork, on thread t.                                                   *)

(* Mutant: modules may submit work while others are still being created.   *)
CanCallEarly(t) ==
  /\ t \notin notifying
  /\ t = Self => pc = "run"

(* A thread is in no other call; the worker's own thread calls from within *)
(* a work.                                                                 *)
CanCall(t) ==
  /\ started
  /\ t \notin notifying
  /\ t = Self => pc = "run"

SetWork(t, h, w) ==
  /\ CanCall(t)
  /\ h < size
  /\ works' = [works EXCEPT ![h] = w]
  /\ IF w = NoWork
       THEN UNCHANGED <<pending, notifying>>
       ELSE /\ pending' = TRUE
            /\ notifying' = notifying \cup {t}
  /\ UNCHANGED <<started, size, pc, cursor, work>>

(* cv_.notify_one(): wakes the worker if it is blocked, else does nothing. *)
Notify(t) ==
  /\ t \in notifying
  /\ notifying' = notifying \ {t}
  /\ pc' = IF pc = "blocked" THEN "check" ELSE pc
  /\ UNCHANGED <<started, size, works, pending, cursor, work>>

-----------------------------------------------------------------------------
(* The worker's thread.                                                    *)

(* Mutant: block without looking at pending_ first.                        *)
BlockAtOnce ==
  /\ pc = "check"
  /\ pc' = "blocked"
  /\ UNCHANGED <<started, size, works, pending, notifying, cursor, work>>

(* The predicate of cv_.wait is false: block, giving up the lock.          *)
Block ==
  /\ pc = "check"
  /\ ~pending
  /\ pc' = "blocked"
  /\ UNCHANGED <<started, size, works, pending, notifying, cursor, work>>

(* It is true: clear it and start the walk.                                *)
BeginWalk ==
  /\ pc = "check"
  /\ pending
  /\ pending' = FALSE
  /\ cursor' = 0
  /\ pc' = "walk"
  /\ UNCHANGED <<started, size, works, notifying, work>>

SpuriousWakeup ==
  /\ pc = "blocked"
  /\ pc' = "check"
  /\ UNCHANGED <<started, size, works, pending, notifying, cursor, work>>

Skip ==
  /\ pc = "walk"
  /\ cursor < size
  /\ works[cursor] = NoWork
  /\ cursor' = cursor + 1
  /\ UNCHANGED <<started, size, works, pending, notifying, pc, work>>

(* Mutant: the work is copied and stays in its slot.                       *)
Copy ==
  /\ pc = "walk"
  /\ cursor < size
  /\ works[cursor] # NoWork
  /\ work' = works[cursor]
  /\ pc' = "run"
  /\ UNCHANGED <<started, size, works, pending, notifying, cursor>>

Take ==
  /\ pc = "walk"
  /\ cursor < size
  /\ works[cursor] # NoWork
  /\ work' = works[cursor]
  /\ works' = [works EXCEPT ![cursor] = NoWork]
  /\ pc' = "run"
  /\ UNCHANGED <<started, size, pending, notifying, cursor>>

(* Mutant: the walk moves on twice past a slot it took.                    *)
WorkDoneAndSkip ==
  /\ pc = "run"
  /\ Self \notin notifying
  /\ work' = NoWork
  /\ cursor' = cursor + 2
  /\ pc' = "walk"
  /\ UNCHANGED <<started, size, works, pending, notifying>>

(* The work returns, after any SetWork of its own has.                     *)
WorkDone ==
  /\ pc = "run"
  /\ Self \notin notifying
  /\ work' = NoWork
  /\ cursor' = cursor + 1
  /\ pc' = "walk"
  /\ UNCHANGED <<started, size, works, pending, notifying>>

(* Mutant: pending_ is cleared when the walk ends, not when it begins.     *)
EndWalkAndClear ==
  /\ pc = "walk"
  /\ cursor >= size
  /\ pending' = FALSE
  /\ pc' = "check"
  /\ UNCHANGED <<started, size, works, notifying, cursor, work>>

EndWalk ==
  /\ pc = "walk"
  /\ cursor >= size
  /\ pc' = "check"
  /\ UNCHANGED <<started, size, works, pending, notifying, cursor, work>>

Worker ==
  \/ Block
  \/ BeginWalk
  \/ Skip
  \/ Take
  \/ WorkDone
  \/ EndWalk

Next ==
  \/ Create
  \/ StartModules
  \/ \E t \in Clients \cup {Self}, h \in Handles, w \in Works \cup {NoWork} :
       SetWork(t, h, w)
  \/ \E t \in Clients \cup {Self} : Notify(t)
  \/ SpuriousWakeup
  \/ Worker

(* The worker's thread is scheduled, its works return after finitely many  *)
(* SetWork calls of their own (hence SF), and a thread inside SetWork gets *)
(* to its notify; nothing else is asked, not even a spurious wakeup.       *)
Fairness ==
  /\ WF_vars(Worker)
  /\ SF_vars(WorkDone)
  /\ \A t \in Clients \cup {Self} : WF_vars(Notify(t))

Spec == Init /\ [][Next]_vars /\ Fairness

-----------------------------------------------------------------------------
(* Properties.                                                             *)

TypeOK ==
  /\ started \in BOOLEAN
  /\ size \in 0..NHandles
  /\ works \in [Handles -> Works \cup {NoWork}]
  /\ pending \in BOOLEAN
  /\ notifying \subseteq Clients \cup {Self}
  /\ pc \in {"check", "blocked", "walk", "run"}
  /\ cursor \in 0..NHandles
  /\ work \in Works \cup {NoWork}

(* The walk has yet to look at handle h.                                   *)
StillAhead(h) ==
  \/ pc = "walk" /\ cursor <= h
  \/ pc = "run" /\ cursor < h

(* A submission made at any moment of the worker's unlocked walk is either *)
(* still ahead of the walk or has left pending_ set for another one.       *)
NoLostSubmission ==
  \A h \in Handles : works[h] # NoWork => pending \/ StillAhead(h)

(* Notifying after the unlock is safe: whenever the worker is blocked with *)
(* pending_ set, some thread still has its notify to do.                   *)
NoLostWakeup ==
  pc = "blocked" /\ pending => notifying # {}

(* works_ does not grow under the worker's iterator, though neither side   *)
(* of that access takes the lock.                                          *)
NoCreateDuringWalk ==
  [][(pc \in {"walk", "run"}) => size' = size]_vars

(* The worker keeps what WorkMailbox promises: each submission is started  *)
(* at most once, one at a time, and the last one to a handle wins.         *)
Promise == INSTANCE WorkMailbox WITH box <- works, running <- work

ImplementsWorkMailbox == Promise!Spec

(* Every handle is served in the end, however often it or the others are   *)
(* refilled, and though a submission may fall anywhere in the walk.        *)
ServesEveryHandle == Promise!Served
=============================================================================
