------------------------------- MODULE Daemon -------------------------------
(***************************************************************************)
(* main.cpp: the daemon that restarts the app when its configuration file  *)
(* changes, over Inotify.                                                  *)
(*                                                                         *)
(* The daemon has one thread.  The SIGCHLD handler runs between any two of *)
(* its steps, to its end: the signal is blocked meanwhile.  Sleeps are cut *)
(* short by the handler and so promise nothing; they are left out, and so  *)
(* are the tombstones.  A child is an app from fork() to wait(): it loads  *)
(* the file, runs, and ends by itself, by TERM_SIG, or by a crash.         *)
(*                                                                         *)
(* A process number is not used again while the daemon remembers it.       *)
(***************************************************************************)
EXTENDS Inotify

CONSTANTS
  Valid,     \* the contents LoadConfig accepts
  MaxPids,   \* bound: more than the edits can keep in use
  MaxFaults  \* bound: crashes and failed forks

ASSUME DaemonAssumption ==
  Valid \subseteq Contents /\ MaxPids \in Nat \ {0} /\ MaxFaults \in Nat

Pids == 1 .. MaxPids

VARIABLES
  app,       \* each child: "loading", "running", "zombie", or "free"
  loaded,    \* the content the last one found, if it came to look
  signalled, \* the children TERM_SIG was sent to
  sigchld,   \* SIGCHLD is pending
  forked,    \* what fork() has returned and is not yet in new_pid
  dead_pid, new_pid, old_pid,
  faults

childVars == <<app, loaded, faults>>
pidVars   == <<forked, dead_pid, new_pid, old_pid>>
vars      == <<inotifyVars, pc, childVars, signalled, sigchld, pidVars>>

States == {"loading", "running", "zombie", "free"}
Alive(p) == app[p] \in {"loading", "running"}

TypeOK ==
  /\ WatchTypeOK
  /\ pc \in {"fork", "assign", "check", "wait", "events", "moved", "creat", "add"}
  /\ app \in [Pids -> States] /\ loaded \in Contents \cup Unread \cup {"nothing"}
  /\ signalled \subseteq Pids /\ sigchld \in BOOLEAN
  /\ {forked, dead_pid, new_pid, old_pid} \subseteq Pids \cup {-1, 0}
  /\ faults \in 0 .. MaxFaults

Init == /\ WatchInit /\ pc = "fork"
        /\ app = [p \in Pids |-> "free"] /\ loaded = "nothing"
        /\ signalled = {} /\ sigchld = FALSE
        /\ forked = 0 /\ dead_pid = 0 /\ new_pid = 0 /\ old_pid = 0
        /\ faults = 0

-----------------------------------------------------------------------------
(* The apps.                                                               *)
Ends(p) == /\ app' = [app EXCEPT ![p] = "zombie"] /\ signalled' = signalled \ {p}
           /\ sigchld' = TRUE

(* LoadConfig reads whatever is there.  Half a file may pass or not.       *)
Load(p) ==
  /\ app[p] = "loading"
  /\ LET found == IF path = None THEN "empty" ELSE content[path]
     IN  /\ loaded' = IF p = forked THEN found ELSE loaded
         /\ \/ /\ found \in Valid \cup {"partial"}
               /\ app' = [app EXCEPT ![p] = "running"] /\ UNCHANGED <<signalled, sigchld>>
            \/ found \notin Valid /\ Ends(p)
  /\ UNCHANGED <<inotifyVars, pc, faults, pidVars>>

Terminate(p) == /\ Alive(p) /\ p \in signalled /\ Ends(p)
                /\ UNCHANGED <<inotifyVars, pc, loaded, faults, pidVars>>

Crash(p) == /\ app[p] = "running" /\ faults < MaxFaults /\ faults' = faults + 1 /\ Ends(p)
            /\ UNCHANGED <<inotifyVars, pc, loaded, pidVars>>

-----------------------------------------------------------------------------
(* The daemon.                                                             *)

(* DaemonSigHandler waits once, however many children have ended, and      *)
(* notes only the children it knows.                                       *)
Noted(p) == dead_pid' = IF p \in {new_pid, old_pid} THEN p ELSE dead_pid

Handler == \E p \in Pids :
  /\ sigchld /\ sigchld' = FALSE
  /\ app[p] = "zombie" /\ app' = [app EXCEPT ![p] = "free"]
  /\ Noted(p)
  /\ UNCHANGED <<inotifyVars, pc, loaded, signalled, forked, new_pid, old_pid, faults>>

(* A defect for TypeOK to find: no test for zero, the daemon's own group.  *)
KillGroup(pid) == signalled' = signalled \cup {p \in Pids \cup {0} : (p = 0 \/ Alive(p)) /\ pid \in {p, -1}}

(* After a failed fork old_pid is -1, which kill takes for every process.  *)
Kill(pid) == signalled' = signalled \cup {p \in Pids : Alive(p) /\ pid \in {p, -1}}

(* A defect for LastChangeServed to find: an app that has ended is not     *)
(* replaced.                                                               *)
KillOldAppIfAlive ==
  /\ pc = "events" /\ batch = <<>> /\ pc' = IF old_pid = dead_pid THEN "wait" ELSE "fork"
  /\ Kill(old_pid)
  /\ UNCHANGED <<inotifyVars, childVars, sigchld, forked, dead_pid, new_pid, old_pid>>

KillOldApp == /\ pc = "events" /\ batch = <<>> /\ pc' = "fork"
              /\ Kill(old_pid)
              /\ UNCHANGED <<inotifyVars, childVars, sigchld, forked, dead_pid, new_pid, old_pid>>

Unused == {p \in Pids : app[p] = "free" /\ p \notin {dead_pid, new_pid, old_pid}}

Fork == /\ pc = "fork" /\ pc' = "assign"
        /\ \/ /\ Unused # {} /\ forked' = One(Unused)
              /\ app' = [app EXCEPT ![forked'] = "loading"] /\ UNCHANGED faults
           \/ /\ faults < MaxFaults /\ faults' = faults + 1 /\ forked' = -1
              /\ UNCHANGED app
        /\ loaded' = "nothing"
        /\ UNCHANGED <<inotifyVars, signalled, sigchld, dead_pid, new_pid, old_pid>>

(* The handler may have run before new_pid is written.                     *)
Assign == /\ pc = "assign" /\ pc' = "check" /\ new_pid' = forked
          /\ UNCHANGED <<inotifyVars, childVars, signalled, sigchld, forked, dead_pid, old_pid>>

(* A defect for OneApp to find: the wrong number is compared.              *)
OldSurvived == old_pid # dead_pid

(* Up to a second later.                                                   *)
Survived == new_pid # dead_pid

Check == /\ pc = "check" /\ pc' = "wait"
         /\ old_pid' = IF Survived THEN new_pid ELSE old_pid
         /\ UNCHANGED <<inotifyVars, childVars, signalled, sigchld, forked, dead_pid, new_pid>>

-----------------------------------------------------------------------------
others == <<childVars, signalled, sigchld, pidVars>>

Users  == Editors /\ UNCHANGED <<pc, others>>
Watch  == WaitAndHandle /\ UNCHANGED others
Main   == Watch \/ KillOldApp \/ Fork \/ Assign \/ Check
App(p) == Load(p) \/ Terminate(p)

Next == Users \/ Main \/ Handler \/ \E p \in Pids : App(p) \/ Crash(p)

(* The daemon and the apps go on, and a file that is being written is      *)
(* closed; nobody has to edit, and nothing has to fail.                    *)
Fairness == /\ WF_vars(Main) /\ WF_vars(Handler) /\ \A p \in Pids : WF_vars(App(p))
            /\ WF_vars(EndWrite /\ UNCHANGED <<pc, others>>)

SafeSpec == Init /\ [][Next]_vars
Spec     == SafeSpec /\ Fairness

-----------------------------------------------------------------------------
(* Properties.                                                             *)

(* Nothing is left to handle.                                              *)
Quiet == pc = "wait" /\ unread = <<>> /\ ~Writing /\ \A p \in Pids : app[p] # "loading"

(* At most one app is left to run, and the daemon knows it, whatever the   *)
(* handler saw of the old and the new one and in whatever order: each app  *)
(* that still lives has been told to end, but for the last.                *)
OneApp == pc \in {"fork", "wait"} =>
  \A p \in Pids : Alive(p) /\ p \notin signalled => pc = "wait" /\ p = forked /\ p = old_pid

(* Every write that was closed, and every file put in place, is loaded: at *)
(* rest the last app runs what the file says, or has ended because of it,  *)
(* unless the watch was lost on a file that went and came at the wrong     *)
(* moment.                                                                 *)
Current == loaded = IF path = None THEN "empty" ELSE content[path]

ChangesLoaded == Quiet /\ ~lapsed /\ forked # -1 => Current

(* When the edits stop, the last one is loaded for good.                   *)
LastChangeServed ==
  \/ []<><<Users>>_vars
  \/ <>[](Current \/ lapsed \/ forked = -1)

-----------------------------------------------------------------------------
(* A property the code does not have.                                      *)

(* The file is reloaded after every modification.                          *)
AutomaticallyReloaded == Quiet /\ forked # -1 => Current
=============================================================================
