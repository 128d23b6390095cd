------------------------- MODULE HeavyWorker_proofs -------------------------
(***************************************************************************)
(* HeavyWorker for any number of handles, works and client threads: types, *)
(* no submission and no wakeup lost, no growth of works_ under the walk,   *)
(* and the implementation of WorkMailbox.                                  *)
(***************************************************************************)
EXTENDS HeavyWorker, TLAPS

(* While a work runs, the walk stands on the handle it came from.          *)
RunsInside == pc = "run" => cursor < size

(* A handle that has not been created has no work.                         *)
UncreatedEmpty == \A h \in Handles : h >= size => works[h] = NoWork

(* There is nothing to walk for before the modules are started.            *)
WalksStarted == pending \/ pc \in {"walk", "run"} => started

(* The worker holds a work only while it runs it.                          *)
IdleHoldsNothing == pc # "run" => work = NoWork

(* The part of the inductive invariant every theorem rests on.             *)
Base == TypeOK /\ RunsInside /\ UncreatedEmpty /\ WalksStarted /\ IdleHoldsNothing

-----------------------------------------------------------------------------
LEMMA BaseInit == Init => Base
<1> SUFFICES ASSUME Init PROVE Base
  OBVIOUS
<1>1. started \in BOOLEAN /\ pending \in BOOLEAN
  BY Zenon DEF Init
<1>2. size \in 0..NHandles /\ cursor \in 0..NHandles
  BY NHandlesAssumption DEF Init
<1>3. TypeOK
  BY <1>1, <1>2 DEF Init, TypeOK
<1>4. UncreatedEmpty
  BY DEF Init, UncreatedEmpty
<1>5. RunsInside /\ WalksStarted /\ IdleHoldsNothing
  BY DEF Init, RunsInside, WalksStarted, IdleHoldsNothing
<1>6. QED
  BY <1>3, <1>4, <1>5 DEF Base

(* Every action keeps Base; the numbers are those of the walk.             *)
LEMMA BaseStep == Base /\ [Next]_vars => Base'
<1> SUFFICES ASSUME Base, [Next]_vars PROVE Base'
  OBVIOUS
<1> USE NHandlesAssumption DEF Base, Handles
<1>1. CASE Create
  <2>1. TypeOK'
    BY <1>1 DEF Create, TypeOK
  <2>2. UncreatedEmpty'
    BY <1>1 DEF Create, TypeOK, UncreatedEmpty
  <2>3. RunsInside'
    BY <1>1 DEF Create, TypeOK, RunsInside
  <2>4. QED
    BY <1>1, <2>1, <2>2, <2>3 DEF Create, WalksStarted, IdleHoldsNothing
<1>2. CASE StartModules
  BY <1>2 DEF StartModules, TypeOK, RunsInside, UncreatedEmpty, WalksStarted,
              IdleHoldsNothing
<1>3. ASSUME NEW t \in Clients \cup {Self}, NEW h \in Handles,
             NEW w \in Works \cup {NoWork}, SetWork(t, h, w)
      PROVE  Base'
  <2>1. TypeOK'
    BY <1>3 DEF SetWork, TypeOK
  <2>2. UncreatedEmpty'
    BY <1>3 DEF SetWork, TypeOK, UncreatedEmpty
  <2>3. WalksStarted'
    BY <1>3 DEF SetWork, CanCall, WalksStarted
  <2>4. QED
    BY <1>3, <2>1, <2>2, <2>3 DEF SetWork, RunsInside, IdleHoldsNothing
<1>4. ASSUME NEW t \in Clients \cup {Self}, Notify(t) PROVE Base'
  BY <1>4 DEF Notify, TypeOK, RunsInside, UncreatedEmpty, WalksStarted, IdleHoldsNothing
<1>5. CASE SpuriousWakeup
  BY <1>5 DEF SpuriousWakeup, TypeOK, RunsInside, UncreatedEmpty, WalksStarted,
              IdleHoldsNothing
<1>6. CASE Block
  BY <1>6 DEF Block, TypeOK, RunsInside, UncreatedEmpty, WalksStarted, IdleHoldsNothing
<1>7. CASE BeginWalk
  <2>1. pending' \in BOOLEAN
    BY <1>7, Zenon DEF BeginWalk
  <2>2. TypeOK'
    BY <1>7, <2>1 DEF BeginWalk, TypeOK
  <2>3. QED
    BY <1>7, <2>2 DEF BeginWalk, RunsInside, UncreatedEmpty, WalksStarted,
                      IdleHoldsNothing
<1>8. CASE Skip
  BY <1>8 DEF Skip, TypeOK, RunsInside, UncreatedEmpty, WalksStarted, IdleHoldsNothing
<1>9. CASE Take
  <2>1. cursor \in Handles /\ size \in 0..NHandles
    BY <1>9 DEF Take, TypeOK
  <2>2. TypeOK'
    BY <1>9, <2>1 DEF Take, TypeOK
  <2>3. UncreatedEmpty'
    BY <1>9, <2>1 DEF Take, TypeOK, UncreatedEmpty
  <2>4. QED
    BY <1>9, <2>2, <2>3 DEF Take, RunsInside, WalksStarted, IdleHoldsNothing
<1>10. CASE WorkDone
  BY <1>10 DEF WorkDone, TypeOK, RunsInside, UncreatedEmpty, WalksStarted,
               IdleHoldsNothing
<1>11. CASE EndWalk
  BY <1>11 DEF EndWalk, TypeOK, RunsInside, UncreatedEmpty, WalksStarted,
               IdleHoldsNothing
<1>12. CASE UNCHANGED vars
  BY <1>12 DEF vars, TypeOK, RunsInside, UncreatedEmpty, WalksStarted, IdleHoldsNothing
<1>13. QED
  BY <1>1, <1>2, <1>3, <1>4, <1>5, <1>6, <1>7, <1>8, <1>9, <1>10, <1>11, <1>12
  DEF Next, Worker

LEMMA BaseInvariant == Spec => []Base
  BY BaseInit, BaseStep, PTL DEF Spec

(* Every reachable state of the worker has the declared types; the walk    *)
(* never leaves works_.                                                    *)
THEOREM TypeCorrect == Spec => []TypeOK
<1>1. Base => TypeOK
  BY DEF Base
<1>2. QED
  BY <1>1, BaseInvariant, PTL

-----------------------------------------------------------------------------
(* Submissions and wakeups.                                                *)

LEMMA SubmissionStep == Base /\ NoLostSubmission /\ [Next]_vars => NoLostSubmission'
<1> SUFFICES ASSUME Base, NoLostSubmission, [Next]_vars,
                    NEW h \in Handles, works'[h] # NoWork
             PROVE  pending' \/ StillAhead(h)'
  BY DEF NoLostSubmission
<1> USE NHandlesAssumption DEF Base, Handles, NoLostSubmission, StillAhead
<1>1. CASE Create
  BY <1>1 DEF Create, TypeOK
<1>2. CASE StartModules
  BY <1>2 DEF StartModules
<1>3. ASSUME NEW t \in Clients \cup {Self}, NEW g \in Handles,
             NEW w \in Works \cup {NoWork}, SetWork(t, g, w)
      PROVE  pending' \/ StillAhead(h)'
  <2>1. CASE w = NoWork
    <3>1. works[h] # NoWork
      BY <1>3, <2>1 DEF SetWork, TypeOK
    <3>2. QED
      BY <1>3, <2>1, <3>1 DEF SetWork
  <2>2. CASE w # NoWork
    BY <1>3, <2>2 DEF SetWork
  <2>3. QED
    BY <2>1, <2>2
<1>4. ASSUME NEW t \in Clients \cup {Self}, Notify(t) PROVE pending' \/ StillAhead(h)'
  BY <1>4 DEF Notify
<1>5. CASE SpuriousWakeup \/ Block
  BY <1>5 DEF SpuriousWakeup, Block
<1>6. CASE BeginWalk
  BY <1>6 DEF BeginWalk
<1>7. CASE Skip
  BY <1>7 DEF Skip, TypeOK
<1>8. CASE Take
  BY <1>8 DEF Take, TypeOK
<1>9. CASE WorkDone
  BY <1>9 DEF WorkDone, TypeOK
<1>10. CASE EndWalk
  BY <1>10 DEF EndWalk, TypeOK, UncreatedEmpty
<1>11. CASE UNCHANGED vars
  BY <1>11 DEF vars
<1>12. QED
  BY <1>1, <1>2, <1>3, <1>4, <1>5, <1>6, <1>7, <1>8, <1>9, <1>10, <1>11 DEF Next, Worker

(* No submission is overlooked, whatever the number of handles and         *)
(* wherever in the walk it comes: it is ahead of the walk, or pending_ is  *)
(* set.                                                                    *)
THEOREM SubmissionsKept == Spec => []NoLostSubmission
<1>1. Init => NoLostSubmission
  BY DEF Init, NoLostSubmission
<1>2. QED
  BY <1>1, SubmissionStep, BaseInvariant, PTL DEF Spec

(* The worker never sleeps on a submission that no thread is about to wake *)
(* it for.                                                                 *)
THEOREM WakeupsKept == Spec => []NoLostWakeup
<1>1. Init => NoLostWakeup
  BY DEF Init, NoLostWakeup
<1>2. NoLostWakeup /\ [Next]_vars => NoLostWakeup'
  BY DEF NoLostWakeup, Next, Create, StartModules, SetWork, Notify, SpuriousWakeup,
         Worker, Block, BeginWalk, Skip, Take, WorkDone, EndWalk, vars
<1>3. QED
  BY <1>1, <1>2, PTL DEF Spec

(* works_ never grows while the worker walks it without the lock: only     *)
(* started modules submit works, and only modules not yet started are      *)
(* still creating handles.                                                 *)
THEOREM WalkUndisturbed == Spec => NoCreateDuringWalk
<1>1. Base /\ [Next]_vars => ((pc \in {"walk", "run"}) => size' = size)
  BY DEF Base, WalksStarted, Next, Create, StartModules, SetWork, Notify,
         SpuriousWakeup, Worker, Block, BeginWalk, Skip, Take, WorkDone, EndWalk, vars
<1>2. QED
  BY <1>1, BaseInvariant, PTL DEF Spec, NoCreateDuringWalk

-----------------------------------------------------------------------------
(* The implementation of WorkMailbox.                                      *)

(* Every step of the worker, its clients and Dfps::Start is a step of      *)
(* WorkMailbox or leaves its state alone.                                  *)
LEMMA PromiseStep == Base /\ [Next]_vars => [Promise!Next]_(Promise!vars)
<1> SUFFICES ASSUME Base, [Next]_vars PROVE Promise!Next \/ UNCHANGED Promise!vars
  OBVIOUS
<1> USE DEF Base
<1>1. CASE Create
  <2>1. works' = works
    BY <1>1, NHandlesAssumption DEF Create, TypeOK, UncreatedEmpty, Handles
  <2>2. QED
    BY <1>1, <2>1 DEF Create, Promise!vars
<1>2. ASSUME NEW t \in Clients \cup {Self}, NEW h \in Handles,
             NEW w \in Works \cup {NoWork}, SetWork(t, h, w)
      PROVE  Promise!Next
  BY <1>2 DEF SetWork, Promise!Next, Promise!Submit
<1>3. CASE Take
  <2>1. PICK h \in Handles : h = cursor
    BY <1>3, NHandlesAssumption DEF Take, TypeOK, Handles
  <2>2. work = NoWork
    BY <1>3 DEF Take, IdleHoldsNothing
  <2>3. Promise!Start(h)
    BY <1>3, <2>1, <2>2 DEF Take, Promise!Start
  <2>4. QED
    BY <2>3 DEF Promise!Next
<1>4. CASE WorkDone
  BY <1>4 DEF WorkDone, Promise!Finish, Promise!Next, Promise!vars
<1>5. ASSUME NEW t \in Clients \cup {Self}, Notify(t) PROVE UNCHANGED Promise!vars
  BY <1>5 DEF Notify, Promise!vars
<1>6. CASE StartModules \/ SpuriousWakeup \/ Block \/ BeginWalk \/ Skip \/ EndWalk
             \/ UNCHANGED vars
  BY <1>6 DEF StartModules, SpuriousWakeup, Block, BeginWalk, Skip, EndWalk, vars,
              Promise!vars
<1>7. QED
  BY <1>1, <1>2, <1>3, <1>4, <1>5, <1>6 DEF Next, Worker

(* For any number of handles and clients, HeavyWorker keeps the promise of *)
(* WorkMailbox: the last work of each handle, once, one at a time.         *)
THEOREM KeepsPromise == Spec => ImplementsWorkMailbox
<1>1. Init => Promise!Init
  BY DEF Init, Promise!Init
<1>2. QED
  BY <1>1, PromiseStep, BaseInvariant, PTL
  DEF Spec, ImplementsWorkMailbox, Promise!Spec
=============================================================================
