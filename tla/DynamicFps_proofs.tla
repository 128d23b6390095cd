------------------------- MODULE DynamicFps_proofs --------------------------
(***************************************************************************)
(* DynamicFps for any input sources, apps and rules: types; the four       *)
(* invariants that tie active_, overridedApp_ and the scheduled timeouts   *)
(* to the events behind them, which need the steps a handler can be at,    *)
(* given what it was called with; and the rule and the rate at rest, which *)
(* need to know whether a switch is still on its way.                      *)
(***************************************************************************)
EXTENDS DynamicFps, TLAPS

-----------------------------------------------------------------------------
(* The inductive invariant.                                                *)

(* The steps of the handlers, by thread: OnInput and OnInputScene take the *)
(* branch of the press or the gesture they report, OnOffscreen that of the *)
(* state it stored.                                                        *)
SwitchSteps == {"force", "kind", "post"}

Paths ==
  /\ job["input"] = "OnInput" =>
       IF AnyPressed THEN pc["input"] \in {"activate", "cancel"} \cup SwitchSteps
                     ELSE pc["input"] = "schedule"
  /\ job["input"] = "OnInputScene" =>
       IF inGesture THEN pc["input"] \in {"write", "cancel"} \cup SwitchSteps
                    ELSE pc["input"] = "schedule"
  /\ job["timer"] = "enterIdle" => pc["timer"] \in {"activate"} \cup SwitchSteps
  /\ job["timer"] \in {"resume", "exitOffscreen"} =>
       pc["timer"] \in {"check", "write"} \cup SwitchSteps
  /\ job["timer"] = "OnOffscreen" =>
       IF isOffscreen THEN pc["timer"] \in {"write"} \cup SwitchSteps
                      ELSE pc["timer"] = "schedule"
  /\ job["heavy"] = "OnTopAppSwitch" => pc["heavy"] \in {"dumpsys", "return"} \cup SwitchSteps
  /\ job["heavy"] \in {"activeRate", "idleRate"} =>
       pc["heavy"] \in {"ref", "rule", "takeForce", "apply"}

(* The part of TypeOK the safety argument uses.                            *)
Threading ==
  /\ job \in [Threads -> UNION {JobsOf(t) : t \in Threads}]
  /\ pc \in [Threads -> Labels]
  /\ \A t \in Threads : job[t] \in JobsOf(t) /\ (job[t] = "none" <=> pc[t] = "idle")

(* What waits for HeavyWorker, or is about to.                             *)
Posting ==
  /\ box \in [Boxes -> HeavyWorks \cup {"none"}]
  /\ box["topapp"] \in {"none", "OnTopAppSwitch"}
  /\ box["dfps"] \in {"none", "activeRate", "idleRate"}
  /\ kind \in [Threads -> {"none", "activeRate", "idleRate"}]

(* The two override invariants, with the timer thread's part narrowed to   *)
(* the steps before its own assignment, and a torn name's origin.          *)
GestureInv ==
  /\ overridedApp = "*" =>
       \/ inGesture
       \/ job["input"] = "OnInputScene"
       \/ "dwGesture" \in scheduled
       \/ job["timer"] = "resume" /\ pc["timer"] \in {"check", "write"}
  /\ overridedApp = "torn" => collided

OffscreenInv ==
  overridedApp = "-" =>
    \/ isOffscreen
    \/ "dwWakeup" \in scheduled
    \/ job["timer"] = "OnOffscreen"
    \/ job["timer"] = "exitOffscreen" /\ pc["timer"] \in {"check", "write"}
    \/ pc["input"] = "write"

Inv == /\ Threading
       /\ Posting
       /\ Paths
       /\ TimeoutsWithdrawn
       /\ ActiveJustified
       /\ GestureInv
       /\ OffscreenInv

-----------------------------------------------------------------------------
(* Threads.                                                                *)

(* Entering a handler of one's own, going to a step of it, and returning   *)
(* keep the threads well typed.                                            *)
LEMMA EnterThreading ==
  ASSUME Threading, NEW t \in Threads, NEW j \in JobsOf(t) \ {"none"},
         NEW label \in Labels \ {"idle"}, Enter(t, j, label)
  PROVE  Threading'
  BY DEF Threading, Enter, Goto

LEMMA GotoThreading ==
  ASSUME Threading, NEW t \in Threads, pc[t] # "idle",
         NEW label \in Labels \ {"idle"}, Goto(t, label), UNCHANGED job
  PROVE  Threading'
  BY DEF Threading, Goto

LEMMA ReturnThreading ==
  ASSUME Threading, NEW t \in Threads, Return(t)
  PROVE  Threading'
<1>1. "none" \in JobsOf(t)
  BY DEF JobsOf
<1>2. "idle" \in Labels
  BY DEF Labels
<1>3. QED
  BY <1>1, <1>2 DEF Threading, Return, Goto

(* What the handlers on a thread can be, spelled out.                      *)
LEMMA ThreadJobs ==
  /\ JobsOf("input") = {"none", "OnInput", "OnInputScene"}
  /\ JobsOf("timer") = {"none", "enterIdle", "resume", "exitOffscreen", "OnOffscreen"}
  /\ JobsOf("heavy") = {"none", "OnTopAppSwitch", "activeRate", "idleRate"}
  BY DEF JobsOf, HeavyWorks

(* A step of one thread leaves the others where they are.                  *)
LEMMA OneEnters ==
  ASSUME Threading, NEW t \in Threads, NEW j, NEW label, Enter(t, j, label)
  PROVE  /\ pc[t] = "idle" /\ job[t] = "none"
         /\ job'[t] = j /\ pc'[t] = label
         /\ \A u \in Threads \ {t} : job'[u] = job[u] /\ pc'[u] = pc[u]
  BY DEF Threading, Enter, Goto

LEMMA OneGoes ==
  ASSUME Threading, NEW t \in Threads, NEW label, Goto(t, label), UNCHANGED job
  PROVE  /\ pc'[t] = label
         /\ \A u \in Threads : job'[u] = job[u]
         /\ \A u \in Threads \ {t} : pc'[u] = pc[u]
  BY DEF Threading, Goto

LEMMA OneReturns ==
  ASSUME Threading, NEW t \in Threads, Return(t)
  PROVE  /\ job'[t] = "none" /\ pc'[t] = "idle"
         /\ \A u \in Threads \ {t} : job'[u] = job[u] /\ pc'[u] = pc[u]
  BY DEF Threading, Return, Goto

-----------------------------------------------------------------------------
(* The inductive step, an action at a time.                                *)

LEMMA EventStep ==
  ASSUME Inv, Environment
  PROVE  Inv'
<1> USE ThreadJobs DEF members, workers, locals, history
<1>1. ASSUME NEW s \in Sources, NEW p \in BOOLEAN, InputEvent(s, p) PROVE Inv'
  <2>1. Enter("input", "OnInput", IF AnyPressed' THEN "activate" ELSE "schedule")
    BY <1>1 DEF InputEvent, AnyPressed
  <2>2. Threading'
    BY <2>1, EnterThreading DEF Inv, Threads, Labels
  <2>3. /\ job["input"] = "none" /\ pc["input"] = "idle"
        /\ job'["input"] = "OnInput"
        /\ pc'["input"] = IF AnyPressed' THEN "activate" ELSE "schedule"
        /\ job'["timer"] = job["timer"] /\ pc'["timer"] = pc["timer"]
        /\ job'["heavy"] = job["heavy"] /\ pc'["heavy"] = pc["heavy"]
    BY <2>1, OneEnters DEF Inv, Threads
  <2>4. UNCHANGED <<active, overridedApp, isOffscreen, scheduled, box, kind, inGesture, collided>>
    BY <1>1 DEF InputEvent
  <2>5. Posting' /\ Paths'
    BY <2>3, <2>4 DEF Inv, Posting, Paths
  <2>6. TimeoutsWithdrawn' /\ ActiveJustified' /\ GestureInv' /\ OffscreenInv'
    BY <2>3, <2>4 DEF Inv, Paths, TimeoutsWithdrawn, ActiveJustified, GestureInv, OffscreenInv
  <2>7. QED
    BY <2>2, <2>5, <2>6 DEF Inv
<1>2. ASSUME NEW g \in BOOLEAN, SceneEvent(g) PROVE Inv'
  <2>1. Enter("input", "OnInputScene", IF g THEN "write" ELSE "schedule")
    BY <1>2 DEF SceneEvent
  <2>2. Threading'
    BY <2>1, EnterThreading DEF Inv, Threads, Labels
  <2>3. /\ job["input"] = "none" /\ pc["input"] = "idle"
        /\ job'["input"] = "OnInputScene"
        /\ pc'["input"] = IF inGesture' THEN "write" ELSE "schedule"
        /\ job'["timer"] = job["timer"] /\ pc'["timer"] = pc["timer"]
        /\ job'["heavy"] = job["heavy"] /\ pc'["heavy"] = pc["heavy"]
    BY <1>2, <2>1, OneEnters DEF SceneEvent, Inv, Threads
  <2>4. /\ UNCHANGED <<active, overridedApp, isOffscreen, scheduled, box, kind, collided>>
        /\ AnyPressed' = AnyPressed
    BY <1>2 DEF SceneEvent, AnyPressed
  <2>5. Posting' /\ Paths'
    BY <2>3, <2>4 DEF Inv, Posting, Paths
  <2>6. TimeoutsWithdrawn' /\ ActiveJustified' /\ GestureInv' /\ OffscreenInv'
    BY <2>3, <2>4 DEF Inv, TimeoutsWithdrawn, ActiveJustified, GestureInv, OffscreenInv
  <2>7. QED
    BY <2>2, <2>5, <2>6 DEF Inv
<1>3. ASSUME NEW o \in BOOLEAN, OffscreenEvent(o) PROVE Inv'
  <2>1. Enter("timer", "OnOffscreen", IF o THEN "write" ELSE "schedule")
    BY <1>3 DEF OffscreenEvent
  <2>2. Threading'
    BY <2>1, EnterThreading DEF Inv, Threads, Labels
  <2>3. /\ job["timer"] = "none" /\ pc["timer"] = "idle"
        /\ job'["timer"] = "OnOffscreen"
        /\ pc'["timer"] = IF isOffscreen' THEN "write" ELSE "schedule"
        /\ job'["input"] = job["input"] /\ pc'["input"] = pc["input"]
        /\ job'["heavy"] = job["heavy"] /\ pc'["heavy"] = pc["heavy"]
    BY <1>3, <2>1, OneEnters DEF OffscreenEvent, Inv, Threads
  <2>4. /\ UNCHANGED <<active, overridedApp, scheduled, box, kind, inGesture, collided>>
        /\ AnyPressed' = AnyPressed
    BY <1>3 DEF OffscreenEvent, AnyPressed
  <2>5. Posting' /\ Paths'
    BY <2>3, <2>4 DEF Inv, Posting, Paths
  <2>6. TimeoutsWithdrawn' /\ ActiveJustified' /\ GestureInv' /\ OffscreenInv'
    BY <2>3, <2>4 DEF Inv, TimeoutsWithdrawn, ActiveJustified, GestureInv, OffscreenInv
  <2>7. QED
    BY <2>2, <2>5, <2>6 DEF Inv
<1>4. CASE TopAppEvent
  <2>1. /\ UNCHANGED <<active, overridedApp, isOffscreen, scheduled, kind, inGesture, job, pc, collided>>
        /\ AnyPressed' = AnyPressed
    BY <1>4 DEF TopAppEvent, AnyPressed
  <2>2. Threading' /\ Paths'
    BY <2>1 DEF Inv, Threading, Paths
  <2>3. Posting'
    BY <1>4 DEF TopAppEvent, Inv, Posting, HeavyWorks, Boxes
  <2>4. TimeoutsWithdrawn' /\ ActiveJustified' /\ GestureInv' /\ OffscreenInv'
    BY <2>1 DEF Inv, TimeoutsWithdrawn, ActiveJustified, GestureInv, OffscreenInv
  <2>5. QED
    BY <2>2, <2>3, <2>4 DEF Inv
<1>5. QED
  BY <1>1, <1>2, <1>3, <1>4 DEF Environment

(* DelayedWorker's thread takes a work out of its slot.                    *)
LEMMA PickStep ==
  ASSUME Inv, NEW h \in DelayedHandles, Pick(h)
  PROVE  Inv'
<1> USE ThreadJobs DEF members, workers, locals, history
<1> DEFINE label == IF h = "dwInput" THEN "activate" ELSE "check"
<1>1. Enter("timer", DelayedWork(h), label)
  BY DEF Pick
<1>2. DelayedWork(h) \in JobsOf("timer") \ {"none"}
  BY DEF DelayedWork, DelayedHandles
<1>3. Threading'
  BY <1>1, <1>2, EnterThreading DEF Inv, Threads, Labels
<1>4. /\ job["timer"] = "none" /\ pc["timer"] = "idle"
      /\ job'["timer"] = DelayedWork(h)
      /\ pc'["timer"] = label
      /\ job'["input"] = job["input"] /\ pc'["input"] = pc["input"]
      /\ job'["heavy"] = job["heavy"] /\ pc'["heavy"] = pc["heavy"]
  BY <1>1, OneEnters DEF Inv, Threads
<1>5. /\ UNCHANGED <<active, overridedApp, isOffscreen, box, kind, inGesture, collided>>
      /\ AnyPressed' = AnyPressed
      /\ scheduled' = scheduled \ {h}
  BY DEF Pick, AnyPressed
<1>6. Posting' /\ Paths'
  BY <1>4, <1>5 DEF Inv, Posting, Paths, DelayedWork, DelayedHandles
<1>7. TimeoutsWithdrawn' /\ ActiveJustified' /\ GestureInv' /\ OffscreenInv'
  BY <1>4, <1>5 DEF Inv, TimeoutsWithdrawn, ActiveJustified, GestureInv, OffscreenInv,
                    DelayedWork, DelayedHandles
<1>8. QED
  BY <1>3, <1>6, <1>7 DEF Inv

(* A step of a handler that changes none of the members the invariants     *)
(* speak of, within its handler.                                           *)
LEMMA SwitchStep ==
  ASSUME Inv, NEW t \in Threads, SetForce(t) \/ ChooseKind(t)
  PROVE  Inv'
<1> USE ThreadJobs DEF members, workers, locals, history
<1> DEFINE label == IF pc[t] = "force" THEN "kind" ELSE "post"
<1>1. Goto(t, label) /\ UNCHANGED job /\ pc[t] \in {"force", "kind"}
  BY DEF SetForce, ChooseKind
<1>2. Threading'
  BY <1>1, GotoThreading DEF Inv, Threads, Labels
<1>3. /\ pc'[t] = label
      /\ \A u \in Threads : job'[u] = job[u]
      /\ \A u \in Threads \ {t} : pc'[u] = pc[u]
  BY <1>1, OneGoes DEF Inv
<1>4. /\ UNCHANGED <<active, overridedApp, isOffscreen, scheduled, box, inGesture, collided>>
      /\ AnyPressed' = AnyPressed
  BY DEF SetForce, ChooseKind, AnyPressed
<1>5. Posting'
  BY <1>4 DEF SetForce, ChooseKind, Inv, Posting
<1>6. Paths'
  <2>1. CASE t = "input"
    BY <1>1, <1>3, <1>4, <2>1 DEF Inv, Paths, SwitchSteps, Threads
  <2>2. CASE t = "timer"
    BY <1>1, <1>3, <1>4, <2>2 DEF Inv, Paths, SwitchSteps, Threads
  <2>3. CASE t = "heavy"
    BY <1>1, <1>3, <1>4, <2>3 DEF Inv, Paths, SwitchSteps, Threads
  <2>4. QED
    BY <2>1, <2>2, <2>3 DEF Threads
<1>7. TimeoutsWithdrawn' /\ ActiveJustified' /\ GestureInv' /\ OffscreenInv'
  BY <1>1, <1>3, <1>4 DEF Inv, TimeoutsWithdrawn, ActiveJustified, GestureInv,
                          OffscreenInv, Threads
<1>8. QED
  BY <1>2, <1>5, <1>6, <1>7 DEF Inv

(* Posting the lambda, after which a handler cancels, returns or lets the  *)
(* heavy worker's work return.                                             *)
LEMMA PostStep ==
  ASSUME Inv, NEW t \in Threads, Post(t)
  PROVE  Inv'
<1> USE ThreadJobs DEF members, workers, locals, history
<1>1. /\ UNCHANGED <<active, overridedApp, isOffscreen, scheduled, inGesture, collided>>
      /\ AnyPressed' = AnyPressed
      /\ pc[t] = "post"
  BY DEF Post, AnyPressed
<1>2. Posting'
  BY DEF Post, Inv, Posting, Boxes, HeavyWorks
<1>3. CASE t = "input"
  <2>1. job["input"] \in {"OnInput", "OnInputScene"}
    BY <1>1, <1>3 DEF Inv, Threading, Threads
  <2>2. Goto("input", "cancel") /\ UNCHANGED job
    BY <1>3, <2>1 DEF Post, Cancels
  <2>3. Threading'
    BY <1>1, <1>3, <2>2, GotoThreading DEF Inv, Threads, Labels
  <2>4. /\ pc'["input"] = "cancel"
        /\ \A u \in Threads : job'[u] = job[u]
        /\ pc'["timer"] = pc["timer"] /\ pc'["heavy"] = pc["heavy"]
    BY <2>2, OneGoes DEF Inv, Threads
  <2>5. Paths'
    BY <1>1, <1>3, <2>4 DEF Inv, Paths, Threads
  <2>6. TimeoutsWithdrawn' /\ ActiveJustified' /\ GestureInv' /\ OffscreenInv'
    BY <1>1, <1>3, <2>4 DEF Inv, TimeoutsWithdrawn, ActiveJustified, GestureInv,
                            OffscreenInv, Threads
  <2>7. QED
    BY <1>2, <2>3, <2>5, <2>6 DEF Inv
<1>4. CASE t = "timer"
  <2>1. job["timer"] \in {"enterIdle", "resume", "exitOffscreen", "OnOffscreen"}
    BY <1>1, <1>4 DEF Inv, Threading, Threads
  <2>2. Return("timer")
    BY <1>4, <2>1 DEF Post, Cancels
  <2>3. Threading'
    BY <2>2, ReturnThreading DEF Inv, Threads
  <2>4. /\ job'["timer"] = "none" /\ pc'["timer"] = "idle"
        /\ job'["input"] = job["input"] /\ pc'["input"] = pc["input"]
        /\ job'["heavy"] = job["heavy"] /\ pc'["heavy"] = pc["heavy"]
    BY <2>2, OneReturns DEF Inv, Threads
  <2>5. Paths'
    BY <1>1, <2>4 DEF Inv, Paths
  <2>6. job["timer"] = "OnOffscreen" => isOffscreen
    BY <1>1, <1>4 DEF Inv, Paths
  <2>7. TimeoutsWithdrawn' /\ ActiveJustified' /\ GestureInv' /\ OffscreenInv'
    BY <1>1, <1>4, <2>4, <2>6 DEF Inv, TimeoutsWithdrawn, ActiveJustified, GestureInv,
                                  OffscreenInv
  <2>8. QED
    BY <1>2, <2>3, <2>5, <2>7 DEF Inv
<1>5. CASE t = "heavy"
  <2>1. job["heavy"] = "OnTopAppSwitch"
    BY <1>1, <1>5 DEF Inv, Threading, Paths, Threads
  <2>2. Goto("heavy", "return") /\ UNCHANGED job
    BY <1>5, <2>1 DEF Post, Cancels
  <2>3. Threading'
    BY <1>1, <1>5, <2>2, GotoThreading DEF Inv, Threads, Labels
  <2>4. /\ pc'["heavy"] = "return"
        /\ \A u \in Threads : job'[u] = job[u]
        /\ pc'["timer"] = pc["timer"] /\ pc'["input"] = pc["input"]
    BY <2>2, OneGoes DEF Inv, Threads
  <2>5. Paths'
    BY <1>1, <2>1, <2>4 DEF Inv, Paths, Threads
  <2>6. TimeoutsWithdrawn' /\ ActiveJustified' /\ GestureInv' /\ OffscreenInv'
    BY <1>1, <2>4 DEF Inv, TimeoutsWithdrawn, ActiveJustified, GestureInv, OffscreenInv,
                      Threads
  <2>7. QED
    BY <1>2, <2>3, <2>5, <2>6 DEF Inv
<1>6. QED
  BY <1>3, <1>4, <1>5 DEF Threads

(* Setting or clearing active_.                                            *)
LEMMA ActivateStep ==
  ASSUME Inv, NEW t \in Threads, Activate(t)
  PROVE  Inv'
<1> USE ThreadJobs DEF members, workers, locals, history
<1>1. pc[t] = "activate" /\ Goto(t, "force") /\ UNCHANGED job
  BY DEF Activate
<1>2. Threading'
  BY <1>1, GotoThreading DEF Inv, Threads, Labels
<1>3. \/ t = "input" /\ job["input"] = "OnInput"
      \/ t = "timer" /\ job["timer"] = "enterIdle"
  BY <1>1 DEF Inv, Threading, Paths, SwitchSteps, Threads
<1>4. /\ pc'[t] = "force"
      /\ \A u \in Threads : job'[u] = job[u]
      /\ \A u \in Threads \ {t} : pc'[u] = pc[u]
  BY <1>1, OneGoes DEF Inv
<1>5. /\ UNCHANGED <<overridedApp, isOffscreen, scheduled, box, kind, inGesture, collided>>
      /\ AnyPressed' = AnyPressed
  BY DEF Activate, AnyPressed
<1>6. active' => t = "input"
  BY <1>3 DEF Activate
<1>7. Posting' /\ Paths'
  BY <1>1, <1>3, <1>4, <1>5 DEF Inv, Posting, Paths, SwitchSteps, Threads
<1>8. TimeoutsWithdrawn' /\ ActiveJustified' /\ GestureInv' /\ OffscreenInv'
  BY <1>1, <1>3, <1>4, <1>5, <1>6 DEF Inv, TimeoutsWithdrawn, ActiveJustified, GestureInv,
                                      OffscreenInv, Threads
<1>9. QED
  BY <1>2, <1>7, <1>8 DEF Inv

(* The handlers that can be about to assign overridedApp_.                 *)
LEMMA Writers ==
  ASSUME Inv, NEW t \in Threads, pc[t] = "write"
  PROVE  \/ t = "input" /\ job["input"] = "OnInputScene" /\ NewOverride(job[t]) = "*"
         \/ t = "timer" /\ job["timer"] = "OnOffscreen" /\ NewOverride(job[t]) = "-"
         \/ t = "timer" /\ job["timer"] \in {"resume", "exitOffscreen"}
              /\ NewOverride(job[t]) = ""
  BY ThreadJobs DEF Inv, Threading, Paths, SwitchSteps, Threads, NewOverride

(* A timeout that gives the override up saw another one there, or one that *)
(* the input thread is writing.                                            *)
LEMMA CheckStep ==
  ASSUME Inv, Check("timer")
  PROVE  Inv'
<1> USE ThreadJobs DEF members, workers, locals, history
<1>1. /\ UNCHANGED <<active, overridedApp, isOffscreen, scheduled, box, kind, inGesture, collided>>
      /\ AnyPressed' = AnyPressed
  BY DEF Check, AnyPressed
<1>2. pc["timer"] = "check" /\ job["timer"] \in {"resume", "exitOffscreen"}
  BY DEF Check, Inv, Threading, Paths, SwitchSteps, Threads
<1>3. PICK o \in SeenOverride("timer") :
        IF o = Expected(job["timer"]) THEN Goto("timer", "write") /\ UNCHANGED job
                                      ELSE Return("timer")
  BY DEF Check
<1>4. CASE o = Expected(job["timer"])
  <2>1. Goto("timer", "write") /\ UNCHANGED job
    BY <1>3, <1>4
  <2>2. Threading'
    BY <1>2, <2>1, GotoThreading DEF Inv, Threads, Labels
  <2>3. /\ pc'["timer"] = "write"
        /\ \A u \in Threads : job'[u] = job[u]
        /\ pc'["input"] = pc["input"] /\ pc'["heavy"] = pc["heavy"]
    BY <2>1, OneGoes DEF Inv, Threads
  <2>4. Posting' /\ Paths'
    BY <1>1, <1>2, <2>3 DEF Inv, Posting, Paths, Threads
  <2>5. TimeoutsWithdrawn' /\ ActiveJustified' /\ GestureInv' /\ OffscreenInv'
    BY <1>1, <1>2, <2>3 DEF Inv, TimeoutsWithdrawn, ActiveJustified, GestureInv,
                            OffscreenInv, Threads
  <2>6. QED
    BY <2>2, <2>4, <2>5 DEF Inv
<1>5. CASE o # Expected(job["timer"])
  <2>1. Return("timer")
    BY <1>3, <1>5
  <2>2. Threading'
    BY <2>1, ReturnThreading DEF Inv, Threads
  <2>3. /\ job'["timer"] = "none" /\ pc'["timer"] = "idle"
        /\ job'["input"] = job["input"] /\ pc'["input"] = pc["input"]
        /\ job'["heavy"] = job["heavy"] /\ pc'["heavy"] = pc["heavy"]
    BY <2>1, OneReturns DEF Inv, Threads
  <2>4. overridedApp = Expected(job["timer"]) =>
          pc["input"] = "write" /\ job["input"] = "OnInputScene"
    <3>1. SUFFICES ASSUME overridedApp = Expected(job["timer"])
                   PROVE  pc["input"] = "write" /\ job["input"] = "OnInputScene"
      OBVIOUS
    <3>2. o # overridedApp
      BY <1>5, <3>1
    <3>3. PICK u \in Overlapping("timer") : TRUE
      BY <3>2 DEF SeenOverride
    <3>4. QED
      BY <3>3, Writers DEF Overlapping
  <2>5. Posting' /\ Paths'
    BY <1>1, <2>3 DEF Inv, Posting, Paths
  <2>6. TimeoutsWithdrawn' /\ ActiveJustified' /\ GestureInv' /\ OffscreenInv'
    BY <1>1, <1>2, <2>3, <2>4 DEF Inv, TimeoutsWithdrawn, ActiveJustified, GestureInv,
                                  OffscreenInv, Expected
  <2>7. QED
    BY <2>2, <2>5, <2>6 DEF Inv
<1>6. QED
  BY <1>4, <1>5

(* One thread assigns overridedApp_.                                       *)
LEMMA WriteStep ==
  ASSUME Inv, NEW t \in Threads, Write(t)
  PROVE  Inv'
<1> USE ThreadJobs DEF members, workers, locals, history
<1>1. pc[t] = "write" /\ Goto(t, "force") /\ UNCHANGED job
  BY DEF Write
<1>2. Threading'
  BY <1>1, GotoThreading DEF Inv, Threads, Labels
<1>3. /\ pc'[t] = "force"
      /\ \A u \in Threads : job'[u] = job[u]
      /\ \A u \in Threads \ {t} : pc'[u] = pc[u]
  BY <1>1, OneGoes DEF Inv
<1>4. /\ UNCHANGED <<active, isOffscreen, scheduled, box, kind, inGesture>>
      /\ AnyPressed' = AnyPressed
      /\ overridedApp' = NewOverride(job[t])
  BY DEF Write, AnyPressed
<1>5. Posting'
  BY <1>4 DEF Inv, Posting
<1>6. Paths'
  <2>1. CASE t = "input"
    BY <1>1, <1>3, <1>4, <2>1 DEF Inv, Paths, SwitchSteps, Threads
  <2>2. CASE t = "timer"
    BY <1>1, <1>3, <1>4, <2>2 DEF Inv, Paths, SwitchSteps, Threads
  <2>3. QED
    BY <1>1, <2>1, <2>2, Writers
<1>7. TimeoutsWithdrawn' /\ ActiveJustified' /\ GestureInv' /\ OffscreenInv'
  BY <1>1, <1>3, <1>4, Writers DEF Inv, TimeoutsWithdrawn, ActiveJustified, GestureInv,
                                   OffscreenInv, Threads
<1>8. QED
  BY <1>2, <1>5, <1>6, <1>7 DEF Inv

(* Two threads assign it at once.                                          *)
LEMMA OverlapStep ==
  ASSUME Inv, NEW t \in Threads, NEW u \in Threads, OverlappingWrites(t, u)
  PROVE  Inv'
<1> USE ThreadJobs DEF members, workers, locals, history
<1>1. /\ t # u /\ pc[t] = "write" /\ pc[u] = "write"
      /\ pc' = [pc EXCEPT ![t] = "force", ![u] = "force"]
      /\ UNCHANGED <<active, isOffscreen, scheduled, box, kind, inGesture, job>>
      /\ AnyPressed' = AnyPressed
  BY DEF OverlappingWrites, AnyPressed
<1>2. {t, u} = {"input", "timer"} /\ job["input"] = "OnInputScene"
        /\ pc["input"] = "write" /\ pc["timer"] = "write"
  BY <1>1, Writers
<1>3. /\ pc'["input"] = "force" /\ pc'["timer"] = "force" /\ pc'["heavy"] = pc["heavy"]
      /\ pc' \in [Threads -> Labels]
  BY <1>1, <1>2 DEF Inv, Threading, Threads, Labels
<1>4. Threading'
  BY <1>1, <1>2, <1>3 DEF Inv, Threading, Threads
<1>5. Posting' /\ Paths'
  BY <1>1, <1>2, <1>3 DEF Inv, Posting, Paths, SwitchSteps, Threads
<1>6. overridedApp' = "-" => job["timer"] = "OnOffscreen"
  BY <1>1, <1>2, Writers DEF OverlappingWrites, TornBetween
<1>8. overridedApp' = "torn" => collided'
  BY <1>1, Writers DEF OverlappingWrites
<1>7. TimeoutsWithdrawn' /\ ActiveJustified' /\ GestureInv' /\ OffscreenInv'
  BY <1>1, <1>2, <1>3, <1>6, <1>8 DEF Inv, TimeoutsWithdrawn, ActiveJustified, GestureInv,
                                OffscreenInv, Threads
<1>9. QED
  BY <1>4, <1>5, <1>7 DEF Inv

(* Withdrawing a timeout.                                                  *)
LEMMA CancelStep ==
  ASSUME Inv, NEW t \in Threads, Cancel(t)
  PROVE  Inv'
<1> USE ThreadJobs DEF members, workers, locals, history
<1>1. pc[t] = "cancel" /\ Return(t)
  BY DEF Cancel
<1>2. /\ t = "input"
      /\ \/ job["input"] = "OnInput" /\ AnyPressed /\ HandleOf(job[t]) = "dwInput"
         \/ job["input"] = "OnInputScene" /\ inGesture /\ HandleOf(job[t]) = "dwGesture"
  BY <1>1 DEF Inv, Threading, Paths, SwitchSteps, Threads, HandleOf
<1>3. Threading'
  BY <1>1, ReturnThreading DEF Inv
<1>4. /\ job'["input"] = "none" /\ pc'["input"] = "idle"
      /\ job'["timer"] = job["timer"] /\ pc'["timer"] = pc["timer"]
      /\ job'["heavy"] = job["heavy"] /\ pc'["heavy"] = pc["heavy"]
  BY <1>1, <1>2, OneReturns DEF Inv, Threads
<1>5. /\ UNCHANGED <<active, overridedApp, isOffscreen, box, kind, inGesture, collided>>
      /\ AnyPressed' = AnyPressed
      /\ scheduled' = scheduled \ {HandleOf(job[t])}
  BY DEF Cancel, AnyPressed
<1>6. Posting' /\ Paths'
  BY <1>4, <1>5 DEF Inv, Posting, Paths
<1>7. TimeoutsWithdrawn' /\ ActiveJustified' /\ GestureInv' /\ OffscreenInv'
  BY <1>1, <1>2, <1>4, <1>5 DEF Inv, TimeoutsWithdrawn, ActiveJustified, GestureInv,
                                OffscreenInv
<1>8. QED
  BY <1>3, <1>6, <1>7 DEF Inv

(* Scheduling one.                                                         *)
LEMMA ScheduleStep ==
  ASSUME Inv, NEW t \in Threads, Schedule(t)
  PROVE  Inv'
<1> USE ThreadJobs DEF members, workers, locals, history
<1>1. pc[t] = "schedule" /\ Return(t)
  BY DEF Schedule
<1>2. \/ t = "input" /\ job[t] = "OnInput" /\ ~AnyPressed /\ HandleOf(job[t]) = "dwInput"
      \/ t = "input" /\ job[t] = "OnInputScene" /\ ~inGesture /\ HandleOf(job[t]) = "dwGesture"
      \/ t = "timer" /\ job[t] = "OnOffscreen" /\ HandleOf(job[t]) = "dwWakeup"
  BY <1>1 DEF Inv, Threading, Paths, SwitchSteps, Threads, HandleOf
<1>3. Threading'
  BY <1>1, ReturnThreading DEF Inv
<1>4. /\ job'[t] = "none" /\ pc'[t] = "idle"
      /\ \A u \in Threads \ {t} : job'[u] = job[u] /\ pc'[u] = pc[u]
  BY <1>1, OneReturns DEF Inv
<1>5. /\ UNCHANGED <<active, overridedApp, isOffscreen, box, kind, inGesture, collided>>
      /\ AnyPressed' = AnyPressed
      /\ scheduled' = scheduled \cup {HandleOf(job[t])}
  BY DEF Schedule, AnyPressed
<1>6. Posting' /\ Paths'
  BY <1>2, <1>4, <1>5 DEF Inv, Posting, Paths, Threads
<1>7. TimeoutsWithdrawn' /\ ActiveJustified' /\ GestureInv' /\ OffscreenInv'
  BY <1>1, <1>2, <1>4, <1>5 DEF Inv, TimeoutsWithdrawn, ActiveJustified, GestureInv,
                                OffscreenInv, Threads
<1>8. QED
  BY <1>3, <1>6, <1>7 DEF Inv

(* HeavyWorker's thread takes a work.                                      *)
LEMMA TakeWorkStep ==
  ASSUME Inv, NEW b \in Boxes, TakeWork(b)
  PROVE  Inv'
<1> USE ThreadJobs DEF members, workers, locals, history
<1> DEFINE label == IF b = "topapp" THEN "dumpsys" ELSE "ref"
<1>1. Enter("heavy", box[b], label)
  BY DEF TakeWork
<1>2. /\ box[b] \in JobsOf("heavy") \ {"none"}
      /\ b = "topapp" => box[b] = "OnTopAppSwitch"
      /\ b # "topapp" => box[b] \in {"activeRate", "idleRate"}
  BY DEF TakeWork, Inv, Posting, Boxes
<1>3. Threading'
  BY <1>1, <1>2, EnterThreading DEF Inv, Threads, Labels
<1>4. /\ job'["heavy"] = box[b] /\ pc'["heavy"] = label
      /\ job'["input"] = job["input"] /\ pc'["input"] = pc["input"]
      /\ job'["timer"] = job["timer"] /\ pc'["timer"] = pc["timer"]
  BY <1>1, OneEnters DEF Inv, Threads
<1>5. /\ UNCHANGED <<active, overridedApp, isOffscreen, scheduled, kind, inGesture, collided>>
      /\ AnyPressed' = AnyPressed
      /\ box' = [box EXCEPT ![b] = "none"]
  BY DEF TakeWork, AnyPressed
<1>6. Posting'
  BY <1>5 DEF Inv, Posting, Boxes
<1>7. Paths'
  BY <1>2, <1>4, <1>5 DEF Inv, Paths
<1>8. TimeoutsWithdrawn' /\ ActiveJustified' /\ GestureInv' /\ OffscreenInv'
  BY <1>4, <1>5 DEF Inv, TimeoutsWithdrawn, ActiveJustified, GestureInv, OffscreenInv
<1>9. QED
  BY <1>3, <1>6, <1>7, <1>8 DEF Inv

(* The steps only HeavyWorker's thread takes change neither active_ nor    *)
(* overridedApp_ nor a timeout.                                            *)
LEMMA HeavyOnlyStep ==
  ASSUME Inv,
         \/ WorkReturn
         \/ \E app \in Apps \cup {curApp} : Dumpsys(app)
         \/ BindName
         \/ ComputeRate
         \/ TakeForce
         \/ Apply
  PROVE  Inv'
<1> USE ThreadJobs DEF members, workers, locals, history
<1>1. /\ UNCHANGED <<active, overridedApp, isOffscreen, scheduled, box, kind, inGesture, collided>>
      /\ AnyPressed' = AnyPressed
  BY DEF WorkReturn, Dumpsys, BindName, ComputeRate, TakeForce, Apply, AnyPressed
<1>2. \/ Return("heavy")
      \/ /\ UNCHANGED job
         /\ \/ pc["heavy"] = "dumpsys" /\ Goto("heavy", "force")
            \/ pc["heavy"] = "ref" /\ Goto("heavy", "rule")
            \/ pc["heavy"] = "rule" /\ Goto("heavy", "takeForce")
            \/ pc["heavy"] = "takeForce" /\ Goto("heavy", "apply")
  BY DEF WorkReturn, Dumpsys, BindName, ComputeRate, TakeForce, Apply
<1>3. CASE Return("heavy")
  <2>1. Threading'
    BY <1>3, ReturnThreading DEF Inv, Threads
  <2>2. /\ job'["heavy"] = "none" /\ pc'["heavy"] = "idle"
        /\ job'["input"] = job["input"] /\ pc'["input"] = pc["input"]
        /\ job'["timer"] = job["timer"] /\ pc'["timer"] = pc["timer"]
    BY <1>3, OneReturns DEF Inv, Threads
  <2>3. Posting' /\ Paths'
    BY <1>1, <2>2 DEF Inv, Posting, Paths
  <2>4. TimeoutsWithdrawn' /\ ActiveJustified' /\ GestureInv' /\ OffscreenInv'
    BY <1>1, <2>2 DEF Inv, TimeoutsWithdrawn, ActiveJustified, GestureInv, OffscreenInv
  <2>5. QED
    BY <2>1, <2>3, <2>4 DEF Inv
<1>4. ASSUME NEW from \in {"dumpsys", "ref", "rule", "takeForce"},
             NEW to \in {"force", "rule", "takeForce", "apply"},
             pc["heavy"] = from, UNCHANGED job, Goto("heavy", to),
             from = "dumpsys" <=> to = "force"
      PROVE  Inv'
  <2>1. Threading'
    BY <1>4, GotoThreading DEF Inv, Threads, Labels
  <2>2. /\ pc'["heavy"] = to
        /\ \A u \in Threads : job'[u] = job[u]
        /\ pc'["input"] = pc["input"] /\ pc'["timer"] = pc["timer"]
    BY <1>4, OneGoes DEF Inv, Threads
  <2>3. Posting' /\ Paths'
    BY <1>1, <1>4, <2>2 DEF Inv, Posting, Paths, SwitchSteps, Threads
  <2>4. TimeoutsWithdrawn' /\ ActiveJustified' /\ GestureInv' /\ OffscreenInv'
    BY <1>1, <2>2 DEF Inv, TimeoutsWithdrawn, ActiveJustified, GestureInv, OffscreenInv,
                      Threads
  <2>5. QED
    BY <2>1, <2>3, <2>4 DEF Inv
<1>5. QED
  BY <1>2, <1>3, <1>4

-----------------------------------------------------------------------------
(* The theorems.                                                           *)

LEMMA InvInit == Init => Inv
<1> SUFFICES ASSUME Init PROVE Inv
  OBVIOUS
<1> USE DEF Init
<1>1. Threading
  <2>1. \A t \in Threads : "none" \in JobsOf(t)
    BY DEF JobsOf
  <2>2. "idle" \in Labels
    BY DEF Labels
  <2>3. QED
    BY <2>1, <2>2 DEF Threading
<1>2. Posting
  BY DEF Posting, Boxes, HeavyWorks
<1>3. Paths /\ TimeoutsWithdrawn /\ GestureInv /\ OffscreenInv
  BY DEF Paths, TimeoutsWithdrawn, GestureInv, OffscreenInv, Threads
<1>4. ActiveJustified
  BY DEF ActiveJustified
<1>5. QED
  BY <1>1, <1>2, <1>3, <1>4 DEF Inv

LEMMA InvStep == Inv /\ [Next]_vars => Inv'
<1> SUFFICES ASSUME Inv, [Next]_vars PROVE Inv'
  OBVIOUS
<1>1. ASSUME NEW t \in Threads, Step(t) PROVE Inv'
  <2>1. Check(t) => t = "timer"
    BY ThreadJobs DEF Check, Inv, Threading, Paths, SwitchSteps, Threads
  <2>2. QED
    BY <1>1, <2>1, CheckStep, ActivateStep, WriteStep, SwitchStep, PostStep, CancelStep,
       ScheduleStep DEF Step
<1>2. CASE HeavyStep
  BY <1>1, <1>2, HeavyOnlyStep DEF HeavyStep, Threads
<1>3. CASE TimerStep
  BY <1>1, <1>3, PickStep DEF TimerStep, Threads
<1>4. CASE UNCHANGED vars
  BY <1>4 DEF vars, members, workers, locals, history, Inv, Threading, Posting, Paths,
              TimeoutsWithdrawn, ActiveJustified, GestureInv, OffscreenInv, AnyPressed
<1>5. QED
  BY <1>1, <1>2, <1>3, <1>4, EventStep, TakeWorkStep, OverlapStep DEF Next, Threads

LEMMA Invariant == SafeSpec => []Inv
  BY InvInit, InvStep, PTL DEF SafeSpec

(* For any sources of presses: once a press or a gesture is handled, the   *)
(* timeout that would undo it is off the schedule.                         *)
THEOREM TimeoutsAreWithdrawn == SafeSpec => []TimeoutsWithdrawn
<1>1. Inv => TimeoutsWithdrawn
  BY DEF Inv
<1>2. QED
  BY <1>1, Invariant, PTL

(* active_ is never left set with nothing pressed and nothing on its way   *)
(* to clear it.                                                            *)
THEOREM ActiveIsJustified == SafeSpec => []ActiveJustified
<1>1. Inv => ActiveJustified
  BY DEF Inv
<1>2. QED
  BY <1>1, Invariant, PTL

(* The default rule is not left in force by a gesture that is over,        *)
(* whatever the screen, the timeouts and the races on overridedApp_ do     *)
(* meanwhile, except as a torn name, and that is always left by a gesture  *)
(* and a timeout that assigned at once.                                    *)
THEOREM GestureOverrideIsJustified == SafeSpec => []GestureOverrideJustified
<1>1. Inv => GestureOverrideJustified
  BY DEF Inv, GestureInv, GestureOverrideJustified, DefaultOverrides, LeftTorn
<1>2. QED
  BY <1>1, Invariant, PTL

(* Nor is the override of the screen's being off, once it is on.           *)
THEOREM OffscreenOverrideIsJustified == SafeSpec => []OffscreenOverrideJustified
<1>1. Inv => OffscreenOverrideJustified
  BY DEF Inv, OffscreenInv, OffscreenOverrideJustified
<1>2. QED
  BY <1>1, Invariant, PTL

-----------------------------------------------------------------------------
(* Type correctness.                                                       *)

(* What TypeOK says beyond Threading and Posting: of numbers and names ... *)
Values ==
  /\ overridedApp \in {"", "*", "-", "torn"}
  /\ curApp \in Apps \cup {""}
  /\ curHz \in Int
  /\ hz \in Int
  /\ scheduled \subseteq DelayedHandles

(* ... and of flags.                                                       *)
Flags ==
  /\ pressed \in [Sources -> BOOLEAN]
  /\ active \in BOOLEAN
  /\ isOffscreen \in BOOLEAN
  /\ forceSwitch \in BOOLEAN
  /\ lowBrightness \in BOOLEAN
  /\ byRef \in BOOLEAN
  /\ force \in BOOLEAN
  /\ inGesture \in BOOLEAN
  /\ raced \in BOOLEAN
  /\ collided \in BOOLEAN

LEMMA RuleTypes == \A name : RuleOf(name).active \in Int /\ RuleOf(name).idle \in Int
  BY RulesAssumption DEF RuleOf, Rates

LEMMA ValuesStep == Inv /\ Values /\ [Next]_vars => Values'
<1> SUFFICES ASSUME Inv, Values, [Next]_vars PROVE Values'
  OBVIOUS
<1> USE DEF Values, members, workers, locals, history
<1>1. CASE Environment
  BY <1>1 DEF Environment, InputEvent, SceneEvent, OffscreenEvent, TopAppEvent
<1>2. ASSUME NEW t \in Threads, Step(t) PROVE Values'
  <2>1. HandleOf(job[t]) \in DelayedHandles
    BY DEF HandleOf, DelayedHandles
  <2>2. NewOverride(job[t]) \in {"", "*", "-", "torn"}
    BY DEF NewOverride
  <2>3. QED
    BY <1>2, <2>1, <2>2 DEF Step, Check, Activate, Write, SetForce, ChooseKind, Post,
                            Cancel, Schedule
<1>3. ASSUME NEW h \in DelayedHandles, Pick(h) PROVE Values'
  BY <1>3 DEF Pick
<1>4. ASSUME NEW b \in Boxes, TakeWork(b) PROVE Values'
  BY <1>4 DEF TakeWork
<1>5. CASE ComputeRate
  <2>1. hz' \in Int
    BY <1>5, RuleTypes DEF ComputeRate
  <2>2. QED
    BY <1>5, <2>1 DEF ComputeRate
<1>6. CASE \/ WorkReturn
           \/ \E app \in Apps \cup {curApp} : Dumpsys(app)
           \/ BindName
           \/ TakeForce
           \/ Apply
  BY <1>6, OtherAssumptions DEF WorkReturn, Dumpsys, BindName, TakeForce, Apply
<1>7. ASSUME NEW t \in Threads, NEW u \in Threads, OverlappingWrites(t, u) PROVE Values'
  <2>1. NewOverride(job[t]) \in {"", "*", "-", "torn"}
    BY DEF NewOverride
  <2>2. QED
    BY <1>7, <2>1 DEF OverlappingWrites, TornBetween
<1>8. CASE UNCHANGED vars
  BY <1>8 DEF vars
<1>9. QED
  BY <1>1, <1>2, <1>3, <1>4, <1>5, <1>6, <1>7, <1>8
  DEF Next, TimerStep, HeavyStep, Threads

LEMMA FlagsStep == Inv /\ Flags /\ [Next]_vars => Flags'
<1> SUFFICES ASSUME Inv, Flags, [Next]_vars PROVE Flags'
  OBVIOUS
<1> USE DEF Flags, members, workers, locals, history
<1>1. CASE Environment
  BY <1>1 DEF Environment, InputEvent, SceneEvent, OffscreenEvent, TopAppEvent
<1>2. ASSUME NEW t \in Threads, Step(t) PROVE Flags'
  <2>1. CASE Activate(t)
    <3>1. active' \in BOOLEAN /\ raced' \in BOOLEAN
      BY <2>1, Zenon DEF Activate
    <3>2. QED
      BY <2>1, <3>1 DEF Activate
  <2>2. CASE SetForce(t)
    <3>1. Forces(job[t]) = TRUE \/ Forces(job[t]) = FALSE
      BY DEF Forces
    <3>2. forceSwitch' \in BOOLEAN
      BY <2>2, <3>1, Zenon DEF SetForce
    <3>3. QED
      BY <2>2, <3>2 DEF SetForce
  <2>3. CASE Check(t) \/ Write(t) \/ ChooseKind(t) \/ Post(t) \/ Cancel(t) \/ Schedule(t)
    BY <2>3 DEF Check, Write, ChooseKind, Post, Cancel, Schedule
  <2>4. QED
    BY <1>2, <2>1, <2>2, <2>3 DEF Step
<1>3. ASSUME NEW h \in DelayedHandles, Pick(h) PROVE Flags'
  BY <1>3 DEF Pick
<1>4. ASSUME NEW b \in Boxes, TakeWork(b) PROVE Flags'
  BY <1>4 DEF TakeWork
<1>5. CASE ComputeRate
  BY <1>5, OtherAssumptions DEF ComputeRate
<1>6. CASE \/ WorkReturn
           \/ \E app \in Apps \cup {curApp} : Dumpsys(app)
           \/ BindName
           \/ TakeForce
           \/ Apply
  BY <1>6 DEF WorkReturn, Dumpsys, BindName, TakeForce, Apply
<1>7. ASSUME NEW t \in Threads, NEW u \in Threads, OverlappingWrites(t, u) PROVE Flags'
  <2>1. collided' \in BOOLEAN
    BY <1>7, Zenon DEF OverlappingWrites
  <2>2. QED
    BY <1>7, <2>1 DEF OverlappingWrites
<1>8. CASE UNCHANGED vars
  BY <1>8 DEF vars
<1>9. QED
  BY <1>1, <1>2, <1>3, <1>4, <1>5, <1>6, <1>7, <1>8
  DEF Next, TimerStep, HeavyStep, Threads

(* Every reachable state has the declared types, and a thread is in a      *)
(* handler of its own exactly when it is not idle.                         *)
THEOREM TypeCorrect == SafeSpec => []TypeOK
<1>1. Init => Values
  BY OtherAssumptions DEF Init, Values
<1>2. Init => Flags
  <2>1. Init => pressed \in [Sources -> BOOLEAN]
    <3>1. [s \in Sources |-> FALSE] \in [Sources -> BOOLEAN]
      OBVIOUS
    <3>2. QED
      BY <3>1, Zenon DEF Init
  <2>2. FALSE \in BOOLEAN
    BY Zenon
  <2>3. QED
    BY <2>1, <2>2, Zenon DEF Init, Flags
<1>3. Inv /\ Values /\ Flags => TypeOK
  BY DEF Inv, Threading, Posting, Values, Flags, TypeOK
<1>4. QED
  BY <1>1, <1>2, <1>3, Invariant, ValuesStep, FlagsStep, PTL DEF SafeSpec

-----------------------------------------------------------------------------
(* The use made of HeavyWorker.                                            *)

(* Every step of the three threads submits a work, starts one on the heavy *)
(* thread, ends one there, or has no part in it.                           *)
LEMMA MailboxStep == Inv /\ [Next]_vars => [Hw!Next]_(Hw!vars)
<1> SUFFICES ASSUME Inv, [Next]_vars PROVE Hw!Next \/ UNCHANGED Hw!vars
  OBVIOUS
<1> USE DEF members, workers, locals, history, Hw!vars
<1>1. CASE Environment
  <2>1. CASE TopAppEvent
    <3>1. Hw!Submit("topapp", "OnTopAppSwitch")
      BY <2>1 DEF TopAppEvent, Hw!Submit
    <3>2. QED
      BY <3>1 DEF Hw!Next, Boxes, HeavyWorks
  <2>2. CASE ~TopAppEvent
    <3>1. box' = box /\ job'["heavy"] = job["heavy"]
      BY <1>1, <2>2 DEF Environment, InputEvent, SceneEvent, OffscreenEvent, Enter, Inv,
                        Threading, Threads
    <3>2. QED
      BY <3>1
  <2>3. QED
    BY <2>1, <2>2
<1>2. ASSUME NEW t \in Threads, Post(t) PROVE Hw!Next
  <2>1. PICK w \in HeavyWorks \cup {"none"} : w = kind[t]
    BY DEF Inv, Posting, HeavyWorks
  <2>2. job'["heavy"] = job["heavy"]
    <3>1. CASE t = "heavy"
      BY <1>2, <3>1 DEF Post, Inv, Threading, Paths, Threads, JobsOf, Cancels, HeavyWorks
    <3>2. CASE t # "heavy"
      BY <1>2, <3>2 DEF Post, Return, Inv, Threading, Threads
    <3>3. QED
      BY <3>1, <3>2
  <2>3. Hw!Submit("dfps", w)
    BY <1>2, <2>1, <2>2 DEF Post, Hw!Submit
  <2>4. QED
    BY <2>3 DEF Hw!Next, Boxes
<1>3. ASSUME NEW t \in Threads,
             Check(t) \/ Activate(t) \/ Write(t) \/ SetForce(t) \/ ChooseKind(t)
               \/ Cancel(t) \/ Schedule(t)
      PROVE  UNCHANGED Hw!vars
  <2>1. job' = job \/ (Return(t) /\ t # "heavy")
    <3>1. pc[t] \in {"check", "cancel", "schedule"} => t # "heavy"
      BY ThreadJobs DEF Inv, Threading, Paths, SwitchSteps, Threads
    <3>2. CASE Check(t) \/ Cancel(t) \/ Schedule(t)
      BY <3>1, <3>2 DEF Check, Cancel, Schedule
    <3>3. CASE Activate(t)
      BY <3>3 DEF Activate
    <3>4. CASE Write(t)
      BY <3>4 DEF Write
    <3>5. CASE SetForce(t) \/ ChooseKind(t)
      BY <3>5 DEF SetForce, ChooseKind
    <3>6. QED
      BY <1>3, <3>2, <3>3, <3>4, <3>5
  <2>2. job'["heavy"] = job["heavy"]
    BY <2>1 DEF Return, Inv, Threading, Threads
  <2>3. QED
    BY <1>3, <2>2 DEF Check, Activate, Write, SetForce, ChooseKind, Cancel, Schedule
<1>4. ASSUME NEW h \in DelayedHandles, Pick(h) PROVE UNCHANGED Hw!vars
  BY <1>4, OneEnters DEF Pick, Inv, Threads
<1>5. ASSUME NEW b \in Boxes, TakeWork(b) PROVE Hw!Next
  <2>1. job["heavy"] = "none" /\ job'["heavy"] = box[b]
    BY <1>5, OneEnters DEF TakeWork, Inv, Threads
  <2>2. Hw!Start(b)
    BY <1>5, <2>1 DEF TakeWork, Hw!Start
  <2>3. QED
    BY <2>2 DEF Hw!Next
<1>6. CASE \/ WorkReturn
           \/ \E app \in Apps \cup {curApp} : Dumpsys(app)
           \/ BindName
           \/ ComputeRate
           \/ TakeForce
           \/ Apply
  <2>1. box' = box
    BY <1>6 DEF WorkReturn, Dumpsys, BindName, ComputeRate, TakeForce, Apply
  <2>2. job' = job \/ (Return("heavy") /\ pc["heavy"] # "idle")
    BY <1>6 DEF WorkReturn, Dumpsys, BindName, ComputeRate, TakeForce, Apply
  <2>3. job'["heavy"] = job["heavy"] \/ (job["heavy"] # "none" /\ job'["heavy"] = "none")
    BY <2>2, OneReturns DEF Inv, Threading, Threads
  <2>4. QED
    BY <2>1, <2>3 DEF Hw!Finish, Hw!Next
<1>7. ASSUME NEW t \in Threads, NEW u \in Threads, OverlappingWrites(t, u)
      PROVE  UNCHANGED Hw!vars
  BY <1>7 DEF OverlappingWrites
<1>8. CASE UNCHANGED vars
  BY <1>8 DEF vars
<1>9. QED
  BY <1>1, <1>2, <1>3, <1>4, <1>5, <1>6, <1>7, <1>8
  DEF Next, Step, TimerStep, HeavyStep, Threads

(* For any apps, rules and sources, what the three threads do with their   *)
(* two handles is a behaviour of WorkMailbox: what HeavyWorker is proved   *)
(* to promise is all DynamicFps relies on.                                 *)
THEOREM RelyOnMailbox == SafeSpec => UsesWorkMailbox
<1>1. Init => Hw!Init
  BY DEF Init, Hw!Init, Threads
<1>2. QED
  BY <1>1, MailboxStep, Invariant, PTL DEF SafeSpec, UsesWorkMailbox, Hw!Spec
-----------------------------------------------------------------------------
(* The rate at rest.                                                       *)

(* Steps that end in the submission of a lambda, and steps of a lambda.    *)
ComingSteps == {"activate", "write"} \cup SwitchSteps
LookSteps   == {"ref", "rule", "takeForce", "apply"}

(* Some thread is about to submit a lambda; some lambda has yet to look    *)
(* the rule up.                                                            *)
Choosing     == \E t \in Threads : pc[t] \in ComingSteps
LookupComing == Choosing \/ box["dfps"] # "none" \/ pc["heavy"] = "ref"

Chosen == \A t \in Threads : pc[t] = "post" => kind[t] \in {"activeRate", "idleRate"}

(* Unless the rule will be looked up again, what the heavy thread has made *)
(* of it so far is right: the name it bound, the rate it computed, the     *)
(* rate it has applied.                                                    *)
CurrentRates == {CurrentRule.idle, CurrentRule.active}

RuleInv ==
  ~LookupComing =>
    /\ pc["heavy"] = "rule" => byRef = (overridedApp # "")
    /\ pc["heavy"] \in {"takeForce", "apply"} => hz \in CurrentRates
    /\ pc["heavy"] \notin LookSteps => curHz = UnsetHz \/ curHz \in CurrentRates

(* And unless active_ changed behind a thread's back, so is the lambda: the *)
(* one about to be submitted, the one that was and is not to be replaced,  *)
(* the one that runs, and the rate it leaves.                              *)
Fits(work) == work = IF active THEN "activeRate" ELSE "idleRate"
RateDue    == IF active \/ lowBrightness THEN CurrentRule.active ELSE CurrentRule.idle

RateInv ==
  ~raced =>
    /\ \A t \in Threads : pc[t] = "post" => Fits(kind[t])
    /\ ~Choosing /\ box["dfps"] # "none" => Fits(box["dfps"])
    /\ ~Choosing /\ box["dfps"] = "none" /\ pc["heavy"] \in {"ref", "rule"} => Fits(job["heavy"])
    /\ ~LookupComing /\ pc["heavy"] \in {"takeForce", "apply"} => hz = RateDue
    /\ ~LookupComing /\ pc["heavy"] \notin LookSteps => curHz = UnsetHz \/ curHz = RateDue

SettledInv == Chosen /\ RuleInv /\ RateInv

(* A step after which a lambda is about to be submitted.                   *)
LEMMA Comes ==
  ASSUME SettledInv, NEW t \in Threads, pc'[t] \in ComingSteps,
         UNCHANGED <<active, raced, kind>>,
         \A u \in Threads : pc'[u] = "post" => pc[u] = "post"
  PROVE  SettledInv'
<1>1. Choosing' /\ LookupComing'
  BY DEF Choosing, LookupComing
<1>2. Chosen' /\ RuleInv'
  BY <1>1 DEF SettledInv, Chosen, RuleInv
<1>3. raced' = raced /\ \A u \in Threads : Fits(kind[u]) => Fits(kind[u])'
  BY DEF Fits
<1>4. RateInv'
  BY <1>1, <1>3 DEF SettledInv, RateInv
<1>5. QED
  BY <1>2, <1>4 DEF SettledInv

(* A step that is none of these and changes nothing they read.             *)
LEMMA Elsewhere ==
  ASSUME SettledInv,
         UNCHANGED <<active, overridedApp, curApp, curHz, lowBrightness, kind, byRef, hz, raced>>,
         box'["dfps"] = box["dfps"],
         \A t \in Threads : \/ pc'[t] = pc[t]
                            \/ {pc[t], pc'[t]} \cap (ComingSteps \cup LookSteps) = {},
         pc'["heavy"] \in LookSteps => job'["heavy"] = job["heavy"]
  PROVE  SettledInv'
<1>1. /\ Choosing' = Choosing /\ LookupComing' = LookupComing
      /\ \A t \in Threads : pc'[t] = "post" => pc[t] = "post"
      /\ pc'["heavy"] = pc["heavy"] \/ {pc["heavy"], pc'["heavy"]} \cap LookSteps = {}
  BY DEF Choosing, LookupComing, ComingSteps, SwitchSteps, LookSteps, Threads
<1>2. CurrentRule' = CurrentRule
  BY DEF CurrentRule
<1>3. RateDue' = RateDue /\ CurrentRates' = CurrentRates
  BY <1>2 DEF RateDue, CurrentRates
<1>4. /\ \A t \in Threads : Fits(kind[t])' = Fits(kind[t])
      /\ Fits(box["dfps"])' = Fits(box["dfps"])
      /\ pc'["heavy"] \in LookSteps => Fits(job["heavy"])' = Fits(job["heavy"])
  BY DEF Fits
<1>5. Chosen'
  BY <1>1 DEF SettledInv, Chosen
<1>6. RuleInv'
  BY <1>1, <1>3 DEF SettledInv, RuleInv, LookSteps
<1>7. RateInv'
  BY <1>1, <1>3, <1>4 DEF SettledInv, RateInv, LookSteps
<1>8. QED
  BY <1>5, <1>6, <1>7 DEF SettledInv

LEMMA SettledEvents ==
  ASSUME Inv, SettledInv, Environment
  PROVE  SettledInv'
<1> USE DEF members, workers, locals, history
<1>1. ASSUME NEW t \in {"input", "timer"}, NEW j, NEW label, Enter(t, j, label),
             label \in {"activate", "write", "schedule"},
             UNCHANGED <<active, overridedApp, curApp, curHz, lowBrightness, raced, box, kind,
                         byRef, hz>>
      PROVE  SettledInv'
  <2>1. /\ pc[t] = "idle" /\ pc'[t] = label /\ job'["heavy"] = job["heavy"]
        /\ \A u \in Threads \ {t} : pc'[u] = pc[u]
    BY <1>1, OneEnters DEF Inv, Threads
  <2>2. CASE label = "schedule"
    BY <1>1, <2>1, <2>2, Elsewhere DEF ComingSteps, SwitchSteps, LookSteps
  <2>3. CASE label # "schedule"
    <3>1. t \in Threads /\ pc'[t] \in ComingSteps
      BY <1>1, <2>1, <2>3 DEF ComingSteps, Threads
    <3>2. \A u \in Threads : pc'[u] = "post" => pc[u] = "post"
      BY <1>1, <2>1
    <3>3. QED
      BY <1>1, <3>1, <3>2, Comes
  <2>4. QED
    BY <2>2, <2>3
<1>2. ASSUME NEW s \in Sources, NEW p \in BOOLEAN, InputEvent(s, p) PROVE SettledInv'
  BY <1>1, <1>2 DEF InputEvent
<1>3. ASSUME NEW g \in BOOLEAN, SceneEvent(g) PROVE SettledInv'
  BY <1>1, <1>3 DEF SceneEvent
<1>4. ASSUME NEW o \in BOOLEAN, OffscreenEvent(o) PROVE SettledInv'
  BY <1>1, <1>4 DEF OffscreenEvent
<1>5. CASE TopAppEvent
  <2>1. box'["dfps"] = box["dfps"]
    BY <1>5 DEF TopAppEvent, Inv, Posting, Boxes
  <2>2. QED
    BY <1>5, <2>1, Elsewhere DEF TopAppEvent
<1>6. QED
  BY <1>2, <1>3, <1>4, <1>5 DEF Environment

LEMMA SettledPick ==
  ASSUME Inv, SettledInv, NEW h \in DelayedHandles, Pick(h)
  PROVE  SettledInv'
<1> USE DEF members, workers, locals, history
<1>1. /\ pc["timer"] = "idle" /\ pc'["timer"] = IF h = "dwInput" THEN "activate" ELSE "check"
      /\ job'["heavy"] = job["heavy"]
      /\ \A u \in Threads \ {"timer"} : pc'[u] = pc[u]
  BY OneEnters DEF Pick, Inv, Threads
<1>2. UNCHANGED <<active, overridedApp, curApp, curHz, lowBrightness, kind, byRef, hz, raced, box>>
  BY DEF Pick
<1>3. CASE h = "dwInput"
  <2>1. pc'["timer"] \in ComingSteps /\ \A u \in Threads : pc'[u] = "post" => pc[u] = "post"
    BY <1>1, <1>3 DEF ComingSteps
  <2>2. QED
    BY <1>2, <2>1, Comes DEF Threads
<1>4. CASE h # "dwInput"
  BY <1>1, <1>2, <1>4, Elsewhere DEF ComingSteps, SwitchSteps, LookSteps
<1>5. QED
  BY <1>3, <1>4

(* The steps every handler is made of.  Only a change of active_ can spoil *)
(* a lambda that another thread has chosen, and raced says so.             *)
LEMMA SettledStep ==
  ASSUME Inv, SettledInv, NEW t \in Threads, Step(t)
  PROVE  SettledInv'
<1> USE DEF members, workers, locals, history
<1>1. CASE Check(t)
  <2>1. UNCHANGED <<active, overridedApp, curApp, curHz, lowBrightness, kind, byRef, hz, raced, box>>
    BY <1>1 DEF Check
  <2>2. CASE Goto(t, "write") /\ UNCHANGED job
    <3>1. pc'[t] = "write" /\ \A u \in Threads \ {t} : pc'[u] = pc[u]
      BY <2>2, OneGoes DEF Inv
    <3>2. QED
      BY <2>1, <3>1, Comes DEF ComingSteps
  <2>3. CASE Return(t)
    <3>1. /\ pc[t] = "check" /\ pc'[t] = "idle" /\ job'[t] = "none"
          /\ \A u \in Threads \ {t} : pc'[u] = pc[u] /\ job'[u] = job[u]
      BY <1>1, <2>3, OneReturns DEF Check, Inv
    <3>2. pc'["heavy"] \in LookSteps => job'["heavy"] = job["heavy"]
      BY <3>1 DEF Threads, LookSteps
    <3>3. QED
      BY <2>1, <3>1, <3>2, Elsewhere DEF ComingSteps, SwitchSteps, LookSteps
  <2>4. QED
    BY <1>1, <2>2, <2>3 DEF Check
<1>2. CASE Activate(t)
  <2>1. pc'[t] = "force" /\ \A u \in Threads \ {t} : pc'[u] = pc[u]
    BY <1>2, OneGoes DEF Activate, Inv
  <2>2. Choosing' /\ LookupComing'
    BY <2>1 DEF Choosing, LookupComing, ComingSteps, SwitchSteps
  <2>3. Chosen' /\ RuleInv'
    BY <1>2, <2>1, <2>2 DEF Activate, SettledInv, Chosen, RuleInv
  <2>4. ~raced' => \A u \in Threads : pc'[u] # "post"
    BY <1>2, <2>1 DEF Activate
  <2>5. RateInv'
    BY <2>2, <2>4 DEF RateInv
  <2>6. QED
    BY <2>3, <2>5 DEF SettledInv
<1>3. CASE Write(t) \/ SetForce(t)
  <2>1. /\ pc'[t] \in {"force", "kind"}
        /\ \A u \in Threads \ {t} : pc'[u] = pc[u]
    BY <1>3, OneGoes DEF Write, SetForce, Inv
  <2>2. UNCHANGED <<active, raced, kind>>
    BY <1>3 DEF Write, SetForce
  <2>3. QED
    BY <2>1, <2>2, Comes DEF ComingSteps, SwitchSteps
<1>4. CASE ChooseKind(t)
  <2>1. /\ pc'[t] = "post" /\ \A u \in Threads \ {t} : pc'[u] = pc[u]
        /\ UNCHANGED <<active, raced>>
    BY <1>4, OneGoes DEF ChooseKind, Inv
  <2>2. Choosing' /\ LookupComing'
    BY <2>1 DEF Choosing, LookupComing, ComingSteps, SwitchSteps
  <2>3. /\ kind'[t] = IF active THEN "activeRate" ELSE "idleRate"
        /\ \A u \in Threads \ {t} : kind'[u] = kind[u]
    BY <1>4 DEF ChooseKind, Inv, Posting
  <2>4. Chosen'
    BY <2>1, <2>3 DEF SettledInv, Chosen
  <2>5. ASSUME ~raced' PROVE \A u \in Threads : pc'[u] = "post" => Fits(kind[u])'
    BY <2>1, <2>3, <2>5 DEF SettledInv, RateInv, Fits
  <2>6. RuleInv' /\ RateInv'
    BY <2>2, <2>5 DEF RuleInv, RateInv
  <2>7. QED
    BY <2>4, <2>6 DEF SettledInv
<1>5. CASE Post(t)
  <2>1. pc[t] = "post" /\ UNCHANGED <<active, raced>>
    BY <1>5 DEF Post
  <2>2. /\ box'["dfps"] = kind[t]
        /\ \A u \in Threads \ {t} : kind'[u] = kind[u]
    BY <1>5 DEF Post, Inv, Posting, Boxes
  <2>3. pc'[t] \in {"cancel", "return", "idle"} /\ \A u \in Threads \ {t} : pc'[u] = pc[u]
    BY <1>5, OneGoes, OneReturns DEF Post, Inv
  <2>4. LookupComing' /\ box'["dfps"] # "none"
    BY <2>1, <2>2 DEF SettledInv, Chosen, LookupComing
  <2>5. Chosen' /\ RuleInv'
    BY <2>2, <2>3, <2>4 DEF SettledInv, Chosen, RuleInv
  <2>6. ASSUME ~raced' PROVE Fits(box["dfps"])' /\ \A u \in Threads : pc'[u] = "post" => Fits(kind[u])'
    BY <2>1, <2>2, <2>3, <2>6 DEF SettledInv, RateInv, Fits
  <2>7. RateInv'
    BY <2>4, <2>6 DEF RateInv
  <2>8. QED
    BY <2>5, <2>7 DEF SettledInv
<1>6. CASE Cancel(t) \/ Schedule(t)
  <2>1. UNCHANGED <<active, overridedApp, curApp, curHz, lowBrightness, kind, byRef, hz, raced, box>>
    BY <1>6 DEF Cancel, Schedule
  <2>2. /\ pc[t] \in {"cancel", "schedule"} /\ pc'[t] = "idle"
        /\ \A u \in Threads \ {t} : pc'[u] = pc[u] /\ job'[u] = job[u]
    BY <1>6, OneReturns DEF Cancel, Schedule, Inv
  <2>3. pc'["heavy"] \in LookSteps => job'["heavy"] = job["heavy"]
    BY <2>2 DEF Threads, LookSteps
  <2>4. QED
    BY <2>1, <2>2, <2>3, Elsewhere DEF ComingSteps, SwitchSteps, LookSteps
<1>7. QED
  BY <1>1, <1>2, <1>3, <1>4, <1>5, <1>6 DEF Step

LEMMA SettledOverlap ==
  ASSUME Inv, SettledInv, NEW t \in Threads, NEW u \in Threads, OverlappingWrites(t, u)
  PROVE  SettledInv'
<1>1. pc'[t] \in ComingSteps /\ \A v \in Threads : pc'[v] = "post" => pc[v] = "post"
  BY DEF OverlappingWrites, Inv, Threading, ComingSteps, SwitchSteps
<1>2. UNCHANGED <<active, raced, kind>>
  BY DEF OverlappingWrites, locals, history
<1>3. QED
  BY <1>1, <1>2, Comes

LEMMA SettledTakeWork ==
  ASSUME Inv, SettledInv, NEW b \in Boxes, TakeWork(b)
  PROVE  SettledInv'
<1> USE DEF members, workers, locals, history
<1>1. UNCHANGED <<active, overridedApp, curApp, curHz, lowBrightness, kind, byRef, hz, raced>>
  BY DEF TakeWork
<1>2. /\ pc["heavy"] = "idle" /\ job'["heavy"] = box[b]
      /\ pc'["heavy"] = IF b = "topapp" THEN "dumpsys" ELSE "ref"
      /\ \A u \in Threads \ {"heavy"} : pc'[u] = pc[u]
  BY OneEnters DEF TakeWork, Inv, Threads
<1>3. CASE b = "topapp"
  <2>1. box'["dfps"] = box["dfps"]
    BY <1>3 DEF TakeWork, Inv, Posting, Boxes
  <2>2. QED
    BY <1>1, <1>2, <1>3, <2>1, Elsewhere DEF ComingSteps, SwitchSteps, LookSteps
<1>4. CASE b = "dfps"
  <2>1. box["dfps"] # "none" /\ box'["dfps"] = "none"
    BY <1>4 DEF TakeWork, Inv, Posting, Boxes
  <2>2. LookupComing' /\ (Choosing' = Choosing) /\ \A u \in Threads : pc'[u] = "post" => pc[u] = "post"
    BY <1>2, <1>4 DEF LookupComing, Choosing, ComingSteps, SwitchSteps, Threads
  <2>3. Chosen' /\ RuleInv'
    BY <1>1, <2>2 DEF SettledInv, Chosen, RuleInv
  <2>4. RateInv'
    BY <1>1, <1>2, <1>4, <2>1, <2>2 DEF SettledInv, RateInv, Fits
  <2>5. QED
    BY <2>3, <2>4 DEF SettledInv
<1>5. QED
  BY <1>3, <1>4 DEF Boxes

(* The lambda itself: each step hands on what the one before has found.    *)
LEMMA SettledHeavy ==
  ASSUME Inv, SettledInv,
         \/ WorkReturn
         \/ \E app \in Apps \cup {curApp} : Dumpsys(app)
         \/ BindName
         \/ ComputeRate
         \/ TakeForce
         \/ Apply
  PROVE  SettledInv'
<1> USE DEF members, workers, locals, history
<1>1. CASE WorkReturn
  <2>1. /\ pc["heavy"] = "return" /\ pc'["heavy"] = "idle"
        /\ \A u \in Threads \ {"heavy"} : pc'[u] = pc[u]
    BY <1>1, OneReturns DEF WorkReturn, Inv, Threads
  <2>2. QED
    BY <1>1, <2>1, Elsewhere DEF WorkReturn, ComingSteps, SwitchSteps, LookSteps
<1>2. ASSUME NEW app, Dumpsys(app) PROVE SettledInv'
  <2>1. CASE app = curApp
    <3>1. /\ pc["heavy"] = "dumpsys" /\ pc'["heavy"] = "idle"
          /\ \A u \in Threads \ {"heavy"} : pc'[u] = pc[u]
      BY <1>2, <2>1, OneReturns DEF Dumpsys, Inv, Threads
    <3>2. QED
      BY <1>2, <2>1, <3>1, Elsewhere DEF Dumpsys, ComingSteps, SwitchSteps, LookSteps
  <2>2. CASE app # curApp
    <3>1. pc'["heavy"] = "force" /\ \A u \in Threads \ {"heavy"} : pc'[u] = pc[u]
      BY <1>2, <2>2, OneGoes DEF Dumpsys, Inv, Threads
    <3>2. UNCHANGED <<active, raced, kind>>
      BY <1>2 DEF Dumpsys
    <3>3. QED
      BY <3>1, <3>2, Comes DEF ComingSteps, SwitchSteps, Threads
  <2>3. QED
    BY <2>1, <2>2
<1>3. ASSUME NEW from \in LookSteps, NEW to \in {"rule", "takeForce", "apply", "idle"},
             pc["heavy"] = from, pc'["heavy"] = to,
             \A u \in Threads \ {"heavy"} : pc'[u] = pc[u],
             UNCHANGED <<active, kind, raced, box>>
      PROVE  /\ Chosen' /\ Choosing' = Choosing
             /\ LookupComing' => LookupComing
             /\ ~LookupComing' => ~Choosing /\ box["dfps"] = "none"
             /\ \A u \in Threads : pc'[u] = "post" => pc[u] = "post"
             /\ \A u \in Threads : Fits(kind[u])' = Fits(kind[u])
             /\ Fits(box["dfps"])' = Fits(box["dfps"])
  <2>1. Choosing' = Choosing /\ \A u \in Threads : pc'[u] = "post" => pc[u] = "post"
    BY <1>3 DEF Choosing, ComingSteps, SwitchSteps, LookSteps, Threads
  <2>2. Chosen'
    BY <1>3, <2>1 DEF SettledInv, Chosen
  <2>3. QED
    BY <1>3, <2>1, <2>2 DEF LookupComing, Fits
<1>4. CASE BindName
  <2>1. /\ pc["heavy"] = "ref" /\ pc'["heavy"] = "rule" /\ job' = job
        /\ \A u \in Threads \ {"heavy"} : pc'[u] = pc[u]
    BY <1>4, OneGoes DEF BindName, Inv, Threads
  <2>2. UNCHANGED <<active, overridedApp, curApp, curHz, lowBrightness, kind, hz, raced, box>>
    BY <1>4 DEF BindName
  <2>3. ASSUME ~Choosing PROVE byRef' = (overridedApp # "")
    <3>1. SeenOverride("heavy") = {overridedApp}
      BY <2>3 DEF Choosing, ComingSteps, SeenOverride, Overlapping
    <3>2. QED
      BY <1>4, <3>1 DEF BindName
  <2>4. Chosen' /\ RuleInv'
    BY <1>3, <2>1, <2>2, <2>3 DEF RuleInv, LookSteps
  <2>5. RateInv'
    BY <1>3, <2>1, <2>2 DEF SettledInv, RateInv, LookSteps, Fits
  <2>6. QED
    BY <2>4, <2>5 DEF SettledInv
<1>5. CASE ComputeRate
  <2>1. /\ pc["heavy"] = "rule" /\ pc'["heavy"] = "takeForce" /\ job' = job
        /\ \A u \in Threads \ {"heavy"} : pc'[u] = pc[u]
    BY <1>5, OneGoes DEF ComputeRate, Inv, Threads
  <2>2. UNCHANGED <<active, overridedApp, curApp, curHz, kind, raced, box>>
    BY <1>5 DEF ComputeRate
  <2>3. CurrentRule' = CurrentRule
    BY <2>2 DEF CurrentRule
  <2>4. ASSUME ~LookupComing
        PROVE  hz' = IF job["heavy"] = "activeRate" \/ lowBrightness'
                       THEN CurrentRule.active ELSE CurrentRule.idle
    <3>1. SeenOverride("heavy") = {overridedApp}
      BY <2>4 DEF LookupComing, Choosing, ComingSteps, SeenOverride, Overlapping
    <3>2. byRef = (overridedApp # "")
      BY <2>1, <2>4 DEF SettledInv, RuleInv
    <3>3. (IF byRef THEN SeenOverride("heavy") ELSE {curApp})
            = {IF overridedApp = "" THEN curApp ELSE overridedApp}
      BY <3>1, <3>2
    <3>4. QED
      BY <1>5, <3>3 DEF ComputeRate, CurrentRule
  <2>5. LookupComing' = LookupComing
    BY <1>3, <2>1, <2>2 DEF LookupComing, LookSteps
  <2>6. Chosen' /\ RuleInv'
    BY <1>3, <2>1, <2>2, <2>3, <2>4, <2>5 DEF RuleInv, CurrentRates, LookSteps
  <2>7. ASSUME ~raced', ~LookupComing' PROVE hz' = RateDue'
    <3>1. Fits(job["heavy"])
      BY <1>3, <2>1, <2>2, <2>7 DEF SettledInv, RateInv, LookSteps
    <3>2. QED
      BY <2>2, <2>3, <2>4, <2>5, <2>7, <3>1 DEF Fits, RateDue
  <2>8. RateInv'
    BY <1>3, <2>1, <2>2, <2>7 DEF SettledInv, RateInv, LookSteps
  <2>9. QED
    BY <2>6, <2>8 DEF SettledInv
<1>6. CASE TakeForce
  <2>1. /\ pc["heavy"] = "takeForce" /\ pc'["heavy"] = "apply"
        /\ \A u \in Threads \ {"heavy"} : pc'[u] = pc[u]
    BY <1>6, OneGoes DEF TakeForce, Inv, Threads
  <2>2. UNCHANGED <<active, overridedApp, curApp, curHz, lowBrightness, kind, hz, raced, box>>
    BY <1>6 DEF TakeForce
  <2>3. CurrentRule' = CurrentRule
    BY <2>2 DEF CurrentRule
  <2>4. RateDue' = RateDue /\ CurrentRates' = CurrentRates
    BY <2>2, <2>3 DEF RateDue, CurrentRates
  <2>5. LookupComing' = LookupComing
    BY <1>3, <2>1, <2>2 DEF LookupComing, LookSteps
  <2>6. Chosen' /\ RuleInv'
    BY <1>3, <2>1, <2>2, <2>4, <2>5 DEF SettledInv, RuleInv, LookSteps
  <2>7. RateInv'
    BY <1>3, <2>1, <2>2, <2>4, <2>5 DEF SettledInv, RateInv, LookSteps
  <2>8. QED
    BY <2>6, <2>7 DEF SettledInv
<1>7. CASE Apply
  <2>1. /\ pc["heavy"] = "apply" /\ pc'["heavy"] = "idle"
        /\ \A u \in Threads \ {"heavy"} : pc'[u] = pc[u]
    BY <1>7, OneReturns DEF Apply, Inv, Threads
  <2>2. UNCHANGED <<active, overridedApp, curApp, lowBrightness, kind, raced, box>>
    BY <1>7 DEF Apply
  <2>3. CurrentRule' = CurrentRule /\ curHz' = hz
    BY <1>7, <2>2 DEF Apply, CurrentRule
  <2>4. RateDue' = RateDue /\ CurrentRates' = CurrentRates
    BY <2>2, <2>3 DEF RateDue, CurrentRates
  <2>5. LookupComing' = LookupComing
    BY <1>3, <2>1, <2>2 DEF LookupComing, LookSteps
  <2>6. Chosen' /\ RuleInv'
    BY <1>3, <2>1, <2>2, <2>3, <2>4, <2>5 DEF SettledInv, RuleInv, LookSteps
  <2>7. RateInv'
    BY <1>3, <2>1, <2>2, <2>3, <2>4, <2>5 DEF SettledInv, RateInv, LookSteps
  <2>8. QED
    BY <2>6, <2>7 DEF SettledInv
<1>8. QED
  BY <1>1, <1>2, <1>4, <1>5, <1>6, <1>7

LEMMA SettledInitially == Init => SettledInv
<1> SUFFICES ASSUME Init PROVE SettledInv
  OBVIOUS
<1>1. \A t \in Threads : pc[t] = "idle"
  BY DEF Init
<1>2. box["dfps"] = "none" /\ curHz = UnsetHz
  BY DEF Init, Boxes
<1>3. QED
  BY <1>1, <1>2 DEF SettledInv, Chosen, RuleInv, RateInv, Threads

LEMMA SettledKept == Inv /\ SettledInv /\ [Next]_vars => SettledInv'
<1> SUFFICES ASSUME Inv, SettledInv, [Next]_vars PROVE SettledInv'
  OBVIOUS
<1>1. CASE UNCHANGED vars
  BY <1>1, Elsewhere DEF vars, members, workers, locals, history
<1>2. CASE HeavyStep
  BY <1>2, SettledStep, SettledHeavy DEF HeavyStep, Threads
<1>3. CASE TimerStep
  BY <1>3, SettledStep, SettledPick DEF TimerStep, Threads
<1>4. QED
  BY <1>1, <1>2, <1>3, SettledEvents, SettledStep, SettledTakeWork, SettledOverlap
  DEF Next, Threads

LEMMA SettledInvariant == SafeSpec => []SettledInv
  BY Invariant, SettledInitially, SettledKept, PTL DEF SafeSpec

(* At rest nothing is coming and the heavy thread is in no lambda.         *)
LEMMA AtRest == Settled => ~LookupComing /\ pc["heavy"] \notin LookSteps
  BY DEF Settled, LookupComing, Choosing, ComingSteps, SwitchSteps, LookSteps, Boxes, Threads

(* For any apps, rules and sources, and whatever a reading that races an   *)
(* assignment of overridedApp_ returns: at rest the rate is one of the     *)
(* current rule.                                                           *)
THEOREM RuleSettles == SafeSpec => []SettledRule
<1>1. SettledInv => SettledRule
  BY AtRest DEF SettledInv, RuleInv, CurrentRates, SettledRule
<1>2. QED
  BY <1>1, SettledInvariant, PTL

(* And the one active_ and the brightness call for, unless active_ changed *)
(* last between another thread's reading of it and its submission.         *)
THEOREM RateSettles == SafeSpec => []SettledRate
<1>1. SettledInv => SettledRate
  BY AtRest DEF SettledInv, RateInv, RateDue, SettledRate
<1>2. QED
  BY <1>1, SettledInvariant, PTL
=============================================================================
