------------------------------ MODULE Commands ------------------------------
(***************************************************************************)
(* From the rules that Config accepts to the system: SwitchRefreshRate(int)*)
(* on the heavy thread, and the commands it runs (utils/misc_android.cpp), *)
(* each a process of its own (ExecCmd, ExecCmdSync of utils/misc.cpp).     *)
(*                                                                         *)
(* The app is forked by the daemon and inherits its SIGCHLD handler, which *)
(* waits for any child there is.  It runs on whichever thread takes the    *)
(* signal, mostly the main one, and the thread stays in wait() until there *)
(* is a child that has ended, or none at all.  The signal is not queued.   *)
(*                                                                         *)
(* What commands print is counted in units; only the two that are asked    *)
(* for an answer have a pipe.  Calls are restarted after a signal.         *)
(***************************************************************************)
EXTENDS Config

CONSTANTS
  SettingKeys,  \* the settings SysPeakRefreshRate puts
  Threads,      \* of the app, but for those that never take a signal
  UnsetHz,      \* the initial curHz_ (INT32_MAX)
  MaxChildren,  \* the processes the system grants
  Capacity,     \* of a pipe
  MaxOutput,    \* the longest answer
  MaxFaults     \* bound: commands that fail

(* ExecCmdSync reads the pipe only after the child has ended.              *)
ASSUME OutputAssumption == MaxOutput \in 0 .. Capacity
ASSUME CommandsAssumption ==
  /\ IsFiniteSet(SettingKeys) /\ {"query", "1035", "1036"} \cap SettingKeys = {}
  /\ UnsetHz \in Int
  /\ {"main", "heavy"} \subseteq Threads
  /\ MaxChildren \in Nat /\ Capacity \in Nat /\ MaxFaults \in Nat

Pids    == 1 .. MaxChildren
Keys    == SettingKeys \cup {"1035", "1036"}

Put(key, hz)  == [key |-> key, value |-> hz, sync |-> FALSE]
Call(code, i) == [key |-> code, value |-> i, sync |-> TRUE]
Query         == [key |-> "query", value |-> 0, sync |-> TRUE]

VARIABLES
  curHz,      \* curHz_
  todo,       \* the commands the heavy thread has yet to run
  waitingFor, \* the child it waits for, or 0
  child,      \* each process: "free", "running", "zombie"
  command,    \* what it runs
  output,     \* the length of the answer
  piped,      \* what the pipe holds of it
  sigchld,    \* SIGCHLD is pending
  handling,   \* the threads in the handler
  system,     \* the settings, and what SurfaceFlinger was told last
  faults,
  overlapped, \* history: the last switch began while others were being put
  failed      \* history: a command of the last switch has failed

procVars    == <<child, command, output, piped>>
signalVars  == <<sigchld, handling>>
history     == <<faults, overlapped, failed>>
vars        == <<configVars, curHz, todo, waitingFor, procVars, signalVars, system, history>>

Init ==
  /\ ConfigInit
  /\ curHz = UnsetHz /\ todo = <<>> /\ waitingFor = 0
  /\ child = [p \in Pids |-> "free"] /\ command = [p \in Pids |-> Query]
  /\ output = 0 /\ piped = 0 /\ sigchld = FALSE /\ handling = {}
  /\ system = [k \in Keys |-> UnsetHz]
  /\ faults = 0 /\ overlapped = FALSE /\ failed = FALSE

Rates == UNION {{ruleOf[n][1], ruleOf[n][2]} : n \in {m \in Names : ruleOf[m] # NoRule}}

-----------------------------------------------------------------------------
(* The heavy thread.                                                       *)
Running  == {p \in Pids : child[p] = "running"}
Children == {p \in Pids : child[p] # "free"}

HeavyIdle == todo = <<>> /\ waitingFor = 0

SysPeakRefreshRate(hz) == SetToSeq({Put(k, hz) : k \in SettingKeys})

SysSurfaceflingerBackdoor(i, force) ==
  <<Call("1035", i)>> \o
  IF force THEN <<Call("1036", 1), Call("1035", -1), Call("1036", 0), Call("1035", i)>> ELSE <<>>

Start == /\ phase = "loaded" /\ phase' = "running" /\ read' = <<>>
         /\ UNCHANGED <<tuned, ruleOf, curHz, todo, waitingFor, procVars, signalVars, system, history>>

SwitchRefreshRate == \E hz \in Rates, force \in BOOLEAN :
  /\ phase = "running" /\ HeavyIdle /\ "heavy" \notin handling
  /\ force \/ hz # curHz
  /\ curHz' = hz
  /\ todo' = IF tuned["useSfBackdoor"] = 1 THEN SysSurfaceflingerBackdoor(hz, force)
                                           ELSE SysPeakRefreshRate(hz)
  /\ overlapped' = (Running # {}) /\ failed' = FALSE
  /\ UNCHANGED <<configVars, waitingFor, procVars, signalVars, system, faults>>

(* GetScreenBrightness, GetTopAppNameDumpsys.                              *)
Ask == /\ phase = "running" /\ HeavyIdle /\ "heavy" \notin handling
       /\ todo' = <<Query>>
       /\ UNCHANGED <<configVars, curHz, waitingFor, procVars, signalVars, system, history>>

ExecCmd == \E p \in Pids \ Children :
  /\ todo # <<>> /\ waitingFor = 0 /\ "heavy" \notin handling
  /\ \A q \in Pids \ Children : p <= q
  /\ child' = [child EXCEPT ![p] = "running"] /\ command' = [command EXCEPT ![p] = Head(todo)]
  /\ IF Head(todo) = Query THEN output' \in 0 .. MaxOutput ELSE UNCHANGED output
  /\ waitingFor' = IF Head(todo).sync THEN p ELSE 0
  /\ todo' = Tail(todo)
  /\ UNCHANGED <<configVars, curHz, piped, signalVars, system, history>>

(* pipe2 or fork fails, and nobody asks.                                   *)
ExecCmdFails ==
  /\ todo # <<>> /\ waitingFor = 0 /\ "heavy" \notin handling
  /\ \/ Children = Pids /\ UNCHANGED faults
     \/ faults < MaxFaults /\ faults' = faults + 1
  /\ failed' = (failed \/ Head(todo) # Query)
  /\ todo' = Tail(todo)
  /\ UNCHANGED <<configVars, curHz, waitingFor, procVars, signalVars, system, overlapped>>

(* Two defects, for RateInForce and CommandsReturn to find: the call does  *)
(* not wait, and it insists on the status the handler may have taken.      *)
NoWait == waitingFor # 0
Insist == child[waitingFor] = "zombie"

(* waitpid() returns the child's status, or an error when the handler has  *)
(* reaped the child.                                                       *)
Ended == child[waitingFor] \in {"zombie", "free"}

(* The end of ExecCmdSync.                                                 *)
WaitAndRead ==
  /\ waitingFor # 0 /\ Ended /\ "heavy" \notin handling
  /\ child' = [child EXCEPT ![waitingFor] = IF @ = "zombie" THEN "free" ELSE @]
  /\ waitingFor' = 0 /\ output' = 0 /\ piped' = 0
  /\ UNCHANGED <<configVars, curHz, todo, command, signalVars, system, history>>

-----------------------------------------------------------------------------
(* The commands.                                                           *)
WriteOut(p) == /\ child[p] = "running" /\ command[p] = Query /\ piped < output /\ piped < Capacity
            /\ piped' = piped + 1
            /\ UNCHANGED <<configVars, curHz, todo, waitingFor, child, command, output, signalVars, system, history>>

Ends(p) == /\ child' = [child EXCEPT ![p] = "zombie"] /\ sigchld' = TRUE
           /\ command' = [command EXCEPT ![p] = Query]

Finish(p) ==
  /\ child[p] = "running" /\ Ends(p)
  /\ IF command[p] = Query THEN piped = output /\ UNCHANGED system
                           ELSE system' = [system EXCEPT ![command[p].key] = command[p].value]
  /\ UNCHANGED <<configVars, curHz, todo, waitingFor, output, piped, handling, history>>

(* execv fails, or the command does.                                       *)
Fail(p) ==
  /\ child[p] = "running" /\ Ends(p) /\ faults < MaxFaults /\ faults' = faults + 1
  /\ failed' = (failed \/ command[p] # Query)
  /\ UNCHANGED <<configVars, curHz, todo, waitingFor, output, piped, handling, system, overlapped>>

-----------------------------------------------------------------------------
(* The handler.                                                            *)
EnterHandler(t) == /\ sigchld /\ sigchld' = FALSE /\ t \notin handling /\ handling' = handling \cup {t}
                   /\ UNCHANGED <<configVars, curHz, todo, waitingFor, procVars, system, history>>

(* A defect for ThreadsReleased to find: wait() does not notice that there *)
(* is nobody to wait for.                                                  *)
NeverNone == FALSE

NoChild == Children = {}

LeaveHandler(t) ==
  /\ t \in handling /\ handling' = handling \ {t}
  /\ \/ NoChild /\ UNCHANGED child
     \/ \E p \in Pids : child[p] = "zombie" /\ child' = [child EXCEPT ![p] = "free"]
  /\ UNCHANGED <<configVars, curHz, todo, waitingFor, command, output, piped, sigchld, system, history>>

-----------------------------------------------------------------------------
Load       == LoadConfig /\ UNCHANGED <<curHz, todo, waitingFor, procVars, signalVars, system, history>>
Work       == SwitchRefreshRate \/ Ask
Heavy      == ExecCmd \/ ExecCmdFails \/ WaitAndRead
Process(p) == WriteOut(p) \/ Finish(p)

Next == \/ Load \/ Start \/ Work \/ Heavy
        \/ \E p \in Pids : Process(p) \/ Fail(p)
        \/ \E t \in Threads : EnterHandler(t) \/ LeaveHandler(t)

(* Threads and processes go on, and a pending signal is delivered.         *)
Fairness == /\ WF_vars(Heavy) /\ \A p \in Pids : WF_vars(Process(p))
            /\ \A t \in Threads : WF_vars(LeaveHandler(t))
            /\ WF_vars(\E t \in Threads : EnterHandler(t))

Spec == Init /\ [][Next]_vars /\ Fairness

-----------------------------------------------------------------------------
(* Properties.                                                             *)

(* Every value SurfaceFlinger is told is an index, and no setting is put   *)
(* beside: the check of the rules after the last line is enough for every  *)
(* switch there will be.                                                   *)
RatesOfTheirKind ==
  \A p \in Running : command[p] # Query =>
    IF command[p].key \in SettingKeys THEN tuned["useSfBackdoor"] = 0
    ELSE tuned["useSfBackdoor"] = 1 /\ command[p].value < 20

(* curHz_ is what the system has, once all commands have ended: with the   *)
(* backdoor always, with the settings unless a switch began before those   *)
(* of the last one were put, which may then be put in the other order.     *)
RateInForce ==
  phase = "running" /\ HeavyIdle /\ Running = {} /\ ~overlapped /\ ~failed /\ curHz # UnsetHz =>
    IF tuned["useSfBackdoor"] = 1
      THEN system["1035"] = curHz
      ELSE \A k \in SettingKeys : system[k] = curHz

(* The heavy thread gets through every command, whichever threads are in   *)
(* the handler, itself included.                                           *)
CommandsReturn == []<>HeavyIdle

(* And when there is no more work, no thread is left in the handler.       *)
ThreadsReleased == []<><<Work>>_vars \/ <>[](handling = {})
=============================================================================
