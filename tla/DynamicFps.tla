----------------------------- MODULE DynamicFps -----------------------------
(***************************************************************************)
(* modules/dynamic_fps.cpp: the refresh rate controller, as the three      *)
(* threads that run its handlers see it.                                   *)
(*                                                                         *)
(*   "input"  InputListener's thread publishes input.touch, input.btn and  *)
(*            input.state, and runs OnInputTouch, OnInputBtn, OnInputScene *)
(*   "timer"  DelayedWorker's thread runs enterIdle, resume, exitOffscreen,*)
(*            publishes offscreen.state (OnOffscreen) and asks HeavyWorker *)
(*            for a look at the top app                                    *)
(*   "heavy"  HeavyWorker's thread publishes topapp.pkgName                *)
(*            (OnTopAppSwitch) and runs the two lambdas that switch the    *)
(*            rate                                                         *)
(*                                                                         *)
(* The members they share are guarded by no lock, so a handler is a        *)
(* sequence of steps, one per access to a shared member or call into a     *)
(* worker; what only one thread touches is read and written with the step  *)
(* next to it.  The workers are what TimedSlots and WorkMailbox promise,   *)
(* with the delays abstracted away: a scheduled work may be due at any     *)
(* time.                                                                   *)
(***************************************************************************)
EXTENDS Integers

CONSTANTS
  Sources,        \* where a press comes from: touch panel, buttons
  Apps,           \* package names the top app monitor can report
  Rules,          \* rules_: a function from some of Apps to rules
  Universal,      \* universial_, the rule of "*"
  Offscreen,      \* offscreen_, the rule of "-"
  UnsetHz,        \* the initial curHz_ (INT32_MAX)
  LowSamples,     \* what a brightness sample can say (is it low?)
  Events          \* the kinds of event of this instance

EventKinds == {"press", "gesture", "screenOff", "screenOn", "topapp"}
Rates      == [idle : Int, active : Int]

ASSUME EventsAssumption == Events \subseteq EventKinds
ASSUME RulesAssumption  == /\ Universal \in Rates
                           /\ Offscreen \in Rates
                           /\ DOMAIN Rules \subseteq Apps
                           /\ \A a \in DOMAIN Rules : Rules[a] \in Rates
ASSUME AppsAssumption   == {"", "*", "-", "torn"} \cap Apps = {}
ASSUME OtherAssumptions == UnsetHz \in Int /\ LowSamples \subseteq BOOLEAN

Threads == {"input", "timer", "heavy"}

(* The two handles HeavyWorker has for these modules and the works they    *)
(* submit to them; "none" is an empty box and an idle thread.              *)
Boxes      == {"topapp", "dfps"}
HeavyWorks == {"OnTopAppSwitch", "activeRate", "idleRate"}

(* DynamicFps's three DelayedWorker handles.                               *)
DelayedHandles == {"dwInput", "dwGesture", "dwWakeup"}

VARIABLES
  (* Members of DynamicFps.                                                *)
  pressed,        \* touchPressed_ and btnPressed_
  active,         \* active_
  overridedApp,   \* overridedApp_: "", "*", "-", or a torn string
  isOffscreen,    \* isOffscreen_
  curApp,         \* curApp_
  curHz,          \* curHz_, the rate last handed to the system
  forceSwitch,    \* forceSwitch_
  lowBrightness,  \* lowBrightness_
  (* The workers.                                                          *)
  scheduled,      \* DynamicFps's slots of DelayedWorker that are scheduled
  box,            \* HeavyWorker's works_
  (* The threads.                                                          *)
  job,            \* the handler or lambda each thread is in
  pc,             \* the step it is about to take
  kind,           \* the lambda chosen from its reading of active_
  byRef,          \* heavy: pkgName refers to overridedApp_, not curApp_
  hz,             \* heavy: the rate the lambda computed
  force,          \* heavy: the value read from forceSwitch_
  (* History.                                                              *)
  inGesture,      \* the inGesture of the last input.state published
  raced,          \* active_ last changed while another thread was about to
                  \* post a lambda it had chosen before
  collided        \* overridedApp_ was last assigned by two threads at once,
                  \* and is neither of their values

members == <<pressed, active, overridedApp, isOffscreen, curApp, curHz,
             forceSwitch, lowBrightness>>
workers == <<scheduled, box>>
locals  == <<kind, byRef, hz, force>>
history == <<inGesture, raced, collided>>
vars    == <<members, workers, job, pc, locals, history>>

AnyPressed == \E s \in Sources : pressed[s]

Init ==
  /\ pressed = [s \in Sources |-> FALSE]
  /\ active = FALSE
  /\ overridedApp = ""
  /\ isOffscreen = FALSE
  /\ curApp = ""
  /\ curHz = UnsetHz
  /\ forceSwitch = FALSE
  /\ lowBrightness = FALSE
  /\ scheduled = {}
  /\ box = [b \in Boxes |-> "none"]
  /\ job = [t \in Threads |-> "none"]
  /\ pc = [t \in Threads |-> "idle"]
  /\ kind = [t \in Threads |-> "none"]
  /\ byRef = FALSE
  /\ hz = UnsetHz
  /\ force = FALSE
  /\ inGesture = FALSE
  /\ raced = FALSE
  /\ collided = FALSE

-----------------------------------------------------------------------------
(* What the handlers differ in.                                            *)

(* Mutant: a timeout names the app in the foreground again.                *)
RestoresApp(j) ==
  CASE j = "OnInputScene" -> "*"
    [] j = "OnOffscreen"  -> "-"
    [] OTHER              -> curApp

(* The value a handler assigns to overridedApp_.                           *)
NewOverride(j) ==
  CASE j = "OnInputScene" -> "*"
    [] j = "OnOffscreen"  -> "-"
    [] OTHER              -> ""

(* The argument of its call of SwitchRefreshRate(bool).                    *)
Forces(j) == j \in {"OnTopAppSwitch", "OnOffscreen", "exitOffscreen"}

(* Mutant: touches and gestures share a handle.                            *)
SharedHandleOf(j) == IF j = "OnOffscreen" THEN "dwWakeup" ELSE "dwInput"

(* The handle whose work it cancels (pressed, in a gesture) or schedules   *)
(* (released, out of the gesture, screen on).                              *)
HandleOf(j) ==
  CASE j = "OnInput"      -> "dwInput"
    [] j = "OnInputScene" -> "dwGesture"
    [] OTHER              -> "dwWakeup"

(* Mutant: each timeout looks for the other one's override.                *)
ExpectedOther(j) == IF j = "resume" THEN "-" ELSE "*"

(* The override a delayed work looks for before it clears it.              *)
Expected(j) == IF j = "resume" THEN "*" ELSE "-"

(* The rule of a package name.  The offscreen rule has a name of its own,  *)
(* every name without a rule has the default rule, and so have "*", the    *)
(* empty name and a torn one.                                              *)
RuleOf(name) ==
  IF name = "-" THEN Offscreen
  ELSE IF name \in DOMAIN Rules THEN Rules[name]
  ELSE Universal

Goto(t, label) == pc' = [pc EXCEPT ![t] = label]

Enter(t, j, label) ==
  /\ pc[t] = "idle"
  /\ job' = [job EXCEPT ![t] = j]
  /\ Goto(t, label)

Return(t) ==
  /\ job' = [job EXCEPT ![t] = "none"]
  /\ Goto(t, "idle")

(* What thread t can see when it reads overridedApp_.  A reading that      *)
(* races an assignment sees the old value, the new one, or, when one of    *)
(* them is empty and the other not, the length of one with the character   *)
(* of the other: a string that equals nothing.                             *)
Overlapping(t) == {u \in Threads \ {t} : pc[u] = "write"}

TornBetween(a, b) == IF (a = "") # (b = "") THEN {"torn"} ELSE {}

SeenOverride(t) ==
  {overridedApp} \cup
    UNION {{NewOverride(job[u])} \cup TornBetween(overridedApp, NewOverride(job[u]))
             : u \in Overlapping(t)}

-----------------------------------------------------------------------------
(* The events.                                                             *)

(* OnInputTouch and OnInputBtn: record the state, then OnInput.            *)
InputEvent(s, p) ==
  /\ "press" \in Events
  /\ pressed' = [pressed EXCEPT ![s] = p]
  /\ Enter("input", "OnInput", IF \E r \in Sources : pressed'[r]
                                 THEN "activate" ELSE "schedule")
  /\ UNCHANGED <<active, overridedApp, isOffscreen, curApp, curHz, forceSwitch,
                 lowBrightness, workers, locals, history>>

(* OnInputScene: a change of hold or swipe publishes inGesture again.      *)
SceneEvent(g) ==
  /\ "gesture" \in Events
  /\ inGesture' = g
  /\ Enter("input", "OnInputScene", IF g THEN "write" ELSE "schedule")
  /\ UNCHANGED <<members, workers, locals, raced, collided>>

(* OnOffscreen, which does nothing when the state is the one it knows.     *)
OffscreenEvent(isOff) ==
  /\ (IF isOff THEN "screenOff" ELSE "screenOn") \in Events
  /\ isOff # isOffscreen
  /\ isOffscreen' = isOff
  /\ Enter("timer", "OnOffscreen", IF isOff THEN "write" ELSE "schedule")
  /\ UNCHANGED <<pressed, active, overridedApp, curApp, curHz, forceSwitch,
                 lowBrightness, workers, locals, history>>

(* TopappMonitor's delayed work hands the slow look at the top app to      *)
(* HeavyWorker.                                                            *)
TopAppEvent ==
  /\ "topapp" \in Events
  /\ pc["timer"] = "idle"
  /\ box' = [box EXCEPT !["topapp"] = "OnTopAppSwitch"]
  /\ UNCHANGED <<members, scheduled, job, pc, locals, history>>

-----------------------------------------------------------------------------
(* The works of DelayedWorker: once picked, a work can no longer be        *)
(* cancelled.                                                              *)

(* Mutant: the works of the two overrides are swapped.                     *)
SwappedWork(h) ==
  CASE h = "dwInput"   -> "enterIdle"
    [] h = "dwGesture" -> "exitOffscreen"
    [] OTHER           -> "resume"

DelayedWork(h) ==
  CASE h = "dwInput"   -> "enterIdle"
    [] h = "dwGesture" -> "resume"
    [] OTHER           -> "exitOffscreen"

Pick(h) ==
  /\ h \in scheduled
  /\ scheduled' = scheduled \ {h}
  /\ Enter("timer", DelayedWork(h), IF h = "dwInput" THEN "activate" ELSE "check")
  /\ UNCHANGED <<members, box, locals, history>>

(* resume and exitOffscreen: clear the override only if it is still theirs.*)
Check(t) ==
  /\ pc[t] = "check"
  /\ \E o \in SeenOverride(t) :
       IF o = Expected(job[t])
         THEN Goto(t, "write") /\ UNCHANGED job
         ELSE Return(t)
  /\ UNCHANGED <<members, workers, locals, history>>

-----------------------------------------------------------------------------
(* Steps of the handlers, on thread t.                                     *)

(* Mutant: enterIdle switches the rate and leaves active_ set.             *)
ActivateForEver(t) ==
  /\ pc[t] = "activate"
  /\ active' = TRUE
  /\ raced' = (\E u \in Threads \ {t} : pc[u] = "post")
  /\ Goto(t, "force")
  /\ UNCHANGED <<pressed, overridedApp, isOffscreen, curApp, curHz, forceSwitch,
                 lowBrightness, workers, job, locals, inGesture, collided>>

(* active_ becomes true in OnInput, false in enterIdle.                    *)
Activate(t) ==
  /\ pc[t] = "activate"
  /\ active' = (job[t] = "OnInput")
  /\ raced' = (\E u \in Threads \ {t} : pc[u] = "post")
  /\ Goto(t, "force")
  /\ UNCHANGED <<pressed, overridedApp, isOffscreen, curApp, curHz, forceSwitch,
                 lowBrightness, workers, job, locals, inGesture, collided>>

(* Mutant: a timeout clears the override without switching the rate.       *)
WriteOnly(t) ==
  /\ pc[t] = "write"
  /\ overridedApp' = NewOverride(job[t])
  /\ collided' = FALSE
  /\ IF NewOverride(job[t]) = "" THEN Return(t) ELSE Goto(t, "force") /\ UNCHANGED job
  /\ UNCHANGED <<pressed, active, isOffscreen, curApp, curHz, forceSwitch,
                 lowBrightness, workers, locals, inGesture, raced>>

Write(t) ==
  /\ pc[t] = "write"
  /\ overridedApp' = NewOverride(job[t])
  /\ collided' = FALSE
  /\ Goto(t, "force")
  /\ UNCHANGED <<pressed, active, isOffscreen, curApp, curHz, forceSwitch,
                 lowBrightness, workers, job, locals, inGesture, raced>>

(* Two threads assign overridedApp_ at once: either value remains, or a    *)
(* mixture of the two.                                                     *)
OverlappingWrites(t, u) ==
  /\ t # u
  /\ pc[t] = "write"
  /\ pc[u] = "write"
  /\ overridedApp' \in {NewOverride(job[t])}
                         \cup TornBetween(NewOverride(job[t]), NewOverride(job[u]))
  /\ collided' = (overridedApp' \notin {NewOverride(job[t]), NewOverride(job[u])})
  /\ pc' = [pc EXCEPT ![t] = "force", ![u] = "force"]
  /\ UNCHANGED <<pressed, active, isOffscreen, curApp, curHz, forceSwitch,
                 lowBrightness, workers, job, locals, inGesture, raced>>

(* SwitchRefreshRate(bool): note whether to force, choose a lambda by      *)
(* active_, submit it.                                                     *)
SetForce(t) ==
  /\ pc[t] = "force"
  /\ forceSwitch' = Forces(job[t])
  /\ Goto(t, "kind")
  /\ UNCHANGED <<pressed, active, overridedApp, isOffscreen, curApp, curHz,
                 lowBrightness, workers, job, locals, history>>

(* Mutant: the lambda is chosen by what is pressed, not by active_.        *)
ChooseByPressed(t) ==
  /\ pc[t] = "kind"
  /\ kind' = [kind EXCEPT ![t] = IF AnyPressed THEN "activeRate" ELSE "idleRate"]
  /\ Goto(t, "post")
  /\ UNCHANGED <<members, workers, job, byRef, hz, force, history>>

ChooseKind(t) ==
  /\ pc[t] = "kind"
  /\ kind' = [kind EXCEPT ![t] = IF active THEN "activeRate" ELSE "idleRate"]
  /\ Goto(t, "post")
  /\ UNCHANGED <<members, workers, job, byRef, hz, force, history>>

(* Mutant: only OnInput cancels its timeout.                               *)
OnlyInputCancels(j) == j = "OnInput"

Cancels(j) == j \in {"OnInput", "OnInputScene"}

Post(t) ==
  /\ pc[t] = "post"
  /\ box' = [box EXCEPT !["dfps"] = kind[t]]
  /\ kind' = [kind EXCEPT ![t] = "none"]
  /\ IF Cancels(job[t]) THEN Goto(t, "cancel") /\ UNCHANGED job
     ELSE IF t = "heavy" THEN Goto(t, "return") /\ UNCHANGED job
     ELSE Return(t)
  /\ UNCHANGED <<members, scheduled, byRef, hz, force, history>>

(* HeavyWorker's own thread was still in its work when it posted.          *)
WorkReturn ==
  /\ pc["heavy"] = "return"
  /\ Return("heavy")
  /\ UNCHANGED <<members, workers, locals, history>>

(* DwSetWork(handle, nullptr).                                             *)
Cancel(t) ==
  /\ pc[t] = "cancel"
  /\ scheduled' = scheduled \ {HandleOf(job[t])}
  /\ Return(t)
  /\ UNCHANGED <<members, box, locals, history>>

(* DwSetWork(handle, work), replacing the one that is scheduled.           *)
Schedule(t) ==
  /\ pc[t] = "schedule"
  /\ scheduled' = scheduled \cup {HandleOf(job[t])}
  /\ Return(t)
  /\ UNCHANGED <<members, box, locals, history>>

-----------------------------------------------------------------------------
(* The works of HeavyWorker.                                               *)

(* Mutant: the work is run and stays in its box.                           *)
PeekWork(b) ==
  /\ box[b] # "none"
  /\ Enter("heavy", box[b], IF b = "topapp" THEN "dumpsys" ELSE "ref")
  /\ UNCHANGED <<members, workers, locals, history>>

TakeWork(b) ==
  /\ box[b] # "none"
  /\ box' = [box EXCEPT ![b] = "none"]
  /\ Enter("heavy", box[b], IF b = "topapp" THEN "dumpsys" ELSE "ref")
  /\ UNCHANGED <<members, scheduled, locals, history>>

(* The top app, when dumpsys names one and it is a new one.                *)
Dumpsys(app) ==
  /\ pc["heavy"] = "dumpsys"
  /\ curApp' = app
  /\ IF app = curApp THEN Return("heavy") ELSE Goto("heavy", "force") /\ UNCHANGED job
  /\ UNCHANGED <<pressed, active, overridedApp, isOffscreen, curHz, forceSwitch,
                 lowBrightness, workers, locals, history>>

(* GetCurrentRule binds a reference to overridedApp_ or to curApp_ ...     *)
BindName ==
  /\ pc["heavy"] = "ref"
  /\ \E o \in SeenOverride("heavy") : byRef' = (o # "")
  /\ Goto("heavy", "rule")
  /\ UNCHANGED <<members, workers, job, kind, hz, force, history>>

(* ... and looks up the rule of the name found there now.  The idle lambda *)
(* may also sample the brightness, if it has not for ten seconds, and uses *)
(* the active rate when it was low.                                        *)
ComputeRate ==
  /\ pc["heavy"] = "rule"
  /\ lowBrightness' \in {lowBrightness} \cup
                          (IF job["heavy"] = "idleRate" THEN LowSamples ELSE {})
  /\ \E name \in IF byRef THEN SeenOverride("heavy") ELSE {curApp} :
       hz' = IF job["heavy"] = "activeRate" \/ lowBrightness'
               THEN RuleOf(name).active ELSE RuleOf(name).idle
  /\ byRef' = FALSE
  /\ Goto("heavy", "takeForce")
  /\ UNCHANGED <<pressed, active, overridedApp, isOffscreen, curApp, curHz,
                 forceSwitch, workers, job, kind, force, history>>

(* SwitchRefreshRate(int).                                                 *)
TakeForce ==
  /\ pc["heavy"] = "takeForce"
  /\ force' = forceSwitch
  /\ Goto("heavy", "apply")
  /\ UNCHANGED <<members, workers, job, kind, byRef, hz, history>>

Apply ==
  /\ pc["heavy"] = "apply"
  /\ forceSwitch' = FALSE
  /\ curHz' = IF ~force /\ hz = curHz THEN curHz ELSE hz
  /\ hz' = UnsetHz
  /\ force' = FALSE
  /\ Return("heavy")
  /\ UNCHANGED <<pressed, active, overridedApp, isOffscreen, curApp,
                 lowBrightness, workers, kind, byRef, history>>

-----------------------------------------------------------------------------
Environment ==
  \/ \E s \in Sources, p \in BOOLEAN : InputEvent(s, p)
  \/ \E g \in BOOLEAN : SceneEvent(g)
  \/ \E o \in BOOLEAN : OffscreenEvent(o)
  \/ TopAppEvent

Step(t) ==
  \/ Check(t)
  \/ Activate(t)
  \/ Write(t)
  \/ SetForce(t)
  \/ ChooseKind(t)
  \/ Post(t)
  \/ Cancel(t)
  \/ Schedule(t)

TimerStep == Step("timer") \/ \E h \in DelayedHandles : Pick(h)

HeavyStep ==
  \/ Step("heavy")
  \/ WorkReturn
  \/ \E app \in Apps \cup {curApp} : Dumpsys(app)
  \/ BindName
  \/ ComputeRate
  \/ TakeForce
  \/ Apply

Next ==
  \/ Environment
  \/ Step("input")
  \/ TimerStep
  \/ \E b \in Boxes : TakeWork(b)
  \/ HeavyStep
  \/ \E t, u \in Threads : OverlappingWrites(t, u)

(* A deferred work that nobody reschedules comes due, every mailbox is     *)
(* served and every thread is scheduled; no event has to happen.           *)
Fairness ==
  /\ WF_vars(Step("input"))
  /\ WF_vars(Step("timer"))
  /\ WF_vars(HeavyStep)
  /\ \A h \in DelayedHandles : SF_vars(Pick(h))
  /\ \A b \in Boxes : SF_vars(TakeWork(b))

SafeSpec == Init /\ [][Next]_vars

Spec == SafeSpec /\ Fairness

-----------------------------------------------------------------------------
(* Properties.                                                             *)

Labels == {"idle", "activate", "check", "write", "force", "kind", "post",
           "cancel", "schedule", "return", "dumpsys", "ref",
           "rule", "takeForce", "apply"}

JobsOf(t) ==
  {"none"} \cup
    CASE t = "input" -> {"OnInput", "OnInputScene"}
      [] t = "timer" -> {"enterIdle", "resume", "exitOffscreen", "OnOffscreen"}
      [] OTHER       -> HeavyWorks

(* Types, and a thread is in a handler exactly when it is not idle.        *)
TypeOK ==
  /\ pressed \in [Sources -> BOOLEAN]
  /\ active \in BOOLEAN
  /\ overridedApp \in {"", "*", "-", "torn"}
  /\ isOffscreen \in BOOLEAN
  /\ curApp \in Apps \cup {""}
  /\ curHz \in Int
  /\ forceSwitch \in BOOLEAN
  /\ lowBrightness \in BOOLEAN
  /\ scheduled \subseteq DelayedHandles
  /\ box \in [Boxes -> HeavyWorks \cup {"none"}]
  /\ job \in [Threads -> UNION {JobsOf(t) : t \in Threads}]
  /\ pc \in [Threads -> Labels]
  /\ \A t \in Threads : job[t] \in JobsOf(t) /\ (job[t] = "none" <=> pc[t] = "idle")
  /\ kind \in [Threads -> {"none", "activeRate", "idleRate"}]
  /\ byRef \in BOOLEAN
  /\ hz \in Int
  /\ force \in BOOLEAN
  /\ inGesture \in BOOLEAN
  /\ raced \in BOOLEAN
  /\ collided \in BOOLEAN

(* Once a press or the start of a gesture has been handled, the timeout    *)
(* that would undo it is no longer scheduled: the cancel at the end of     *)
(* OnInput and OnInputScene comes after everything that could schedule it. *)
TimeoutsWithdrawn ==
  /\ "dwInput" \in scheduled => ~AnyPressed \/ job["input"] = "OnInput"
  /\ "dwGesture" \in scheduled => ~inGesture \/ job["input"] = "OnInputScene"

(* active_ never outlives its reason: while it is set something is         *)
(* pressed, or the step that will clear it is scheduled or under way.      *)
ActiveJustified ==
  active =>
    \/ AnyPressed
    \/ job["input"] = "OnInput"
    \/ "dwInput" \in scheduled
    \/ job["timer"] = "enterIdle" /\ pc["timer"] = "activate"

(* The default rule is in force in the place of the app's: overridedApp_   *)
(* is "*", or a torn name, which has no rule of its own.                   *)
DefaultOverrides == overridedApp \in {"*", "torn"}

(* A torn name that a gesture's assignment and the one of resume or        *)
(* exitOffscreen, at once, have left between them.                         *)
LeftTorn == overridedApp = "torn" /\ collided

(* The default rule is not left in force by a gesture that is over: some   *)
(* step that clears the override is scheduled or under way.  There is one  *)
(* exception, and the code has it: resume and exitOffscreen clear the name *)
(* they know and no other, so a torn name stays in force, without a        *)
(* gesture and with nothing scheduled, until the next gesture or screen    *)
(* off.  Whatever else the three threads do, no override outlives its      *)
(* gesture, and no torn name has another origin.                           *)
GestureOverrideJustified ==
  DefaultOverrides =>
    \/ inGesture
    \/ job["input"] = "OnInputScene"
    \/ "dwGesture" \in scheduled
    \/ job["timer"] = "resume"
    \/ LeftTorn

(* Nor is the offscreen rule, once the screen is on: the step that clears  *)
(* it is scheduled or under way, or another thread is replacing it.        *)
OffscreenOverrideJustified ==
  overridedApp = "-" =>
    \/ isOffscreen
    \/ "dwWakeup" \in scheduled
    \/ job["timer"] \in {"OnOffscreen", "exitOffscreen"}
    \/ pc["input"] = "write"

(* No handler is running and no switch of the rate is waiting.             *)
Settled ==
  /\ \A t \in Threads : pc[t] = "idle"
  /\ \A b \in Boxes : box[b] = "none"

CurrentRule == RuleOf(IF overridedApp = "" THEN curApp ELSE overridedApp)

(* Whatever the three threads did to overridedApp_ and curApp_ without a   *)
(* lock, when they come to rest the rate in force is one of the rule that  *)
(* is current: whoever changes the rule posts a lambda afterwards, and the *)
(* lambda looks the rule up when it runs.                                  *)
SettledRule ==
  Settled /\ curHz # UnsetHz => curHz \in {CurrentRule.idle, CurrentRule.active}

(* And it is the rate for the state of active_ and of the brightness,      *)
(* unless the last change of active_ came between another thread's reading *)
(* of it and its post.                                                     *)
SettledRate ==
  Settled /\ curHz # UnsetHz /\ ~raced =>
    curHz = IF active \/ lowBrightness THEN CurrentRule.active ELSE CurrentRule.idle

(* When presses and releases stop with nothing pressed, active_ is cleared *)
(* for good.                                                               *)
InputEvents == \E s \in Sources, p \in BOOLEAN : InputEvent(s, p)

BecomesInactive == []<><<InputEvents>>_vars \/ <>[](active => AnyPressed)

(* When gestures stop, with none in progress, the default rule no longer   *)
(* stands in for the app's, for good; unless the last two assignments of   *)
(* overridedApp_ overlapped and left a torn name.                          *)
SceneEvents == \E g \in BOOLEAN : SceneEvent(g)

GestureOverrideEnds ==
  \/ []<><<SceneEvents>>_vars
  \/ <>[](DefaultOverrides => inGesture \/ LeftTorn)

(* When the screen stays on, the offscreen rule is gone for good.          *)
OffscreenOverrideEnds == (<>[]~isOffscreen) => <>[](overridedApp # "-")

(* So an override ends with its reason, where no two assignments of        *)
(* overridedApp_ overlap last.                                             *)
OverridesEnd == GestureOverrideEnds /\ OffscreenOverrideEnds

(* What these modules ask of HeavyWorker is within what it promises, with  *)
(* the works of the two handles run to their ends one at a time.           *)
Hw == INSTANCE WorkMailbox WITH
  Handles <- Boxes, Works <- HeavyWorks, NoWork <- "none",
  running <- job["heavy"]

UsesWorkMailbox == Hw!Spec

-----------------------------------------------------------------------------
(* Properties the code does not have.                                      *)

(* During operation the rate is the active one of the current rule.        *)
PressedRate ==
  Settled /\ AnyPressed => curHz = CurrentRule.active

(* While the screen is off, and known to be, the offscreen rule is used.   *)
OffscreenRate ==
  Settled /\ isOffscreen => curHz \in {Offscreen.idle, Offscreen.active}
=============================================================================
