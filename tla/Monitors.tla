------------------------------ MODULE Monitors ------------------------------
(***************************************************************************)
(* modules/cgroup_listener.cpp, topapp_monitor.cpp, offscreen_monitor.cpp, *)
(* platform/cobridge.cpp and Dfps::Start: from a task moved between        *)
(* cgroups to the app and the screen state that DynamicFps is told.        *)
(*                                                                         *)
(* Four threads: the main thread starts the modules in order and then      *)
(* sleeps; the inotify thread turns writes into delayed scans; the timer   *)
(* thread (DelayedWorker) reads the task lists and compares them with what *)
(* it knew; the worker thread (HeavyWorker) asks dumpsys for the app.      *)
(*                                                                         *)
(* The two paths of a cgroup count as one file.  A scan is one step from   *)
(* the read to the publication, and so is dumpsys with its announcement:   *)
(* what they change after the read belongs to their own thread.  Only the  *)
(* lists of top-app and restricted ever get a subscriber, so that Start    *)
(* returns at once for foreground and background, the two Updaters whose   *)
(* scans would go to the worker thread.                                    *)
(***************************************************************************)
EXTENDS Integers, Sequences

CONSTANTS
  Apps,       \* what may be in the foreground
  Tasks,      \* how many tasks each has in top-app
  Jitter,     \* how many more it may have at times, without a move
  Screens,    \* how many tasks the restricted cgroup may hold
  Cut,        \* how many tasks a read may have got before it fails
  NoApp,      \* prevPkgName_ before the first answer
  Written     \* the cgroups other writes of this instance go to

TOP_TASK_NR_DIFF_MIN   == 10
RESTRICTED_TASK_NR_MIN == 10

Cgroups == {"ta", "fg", "bg", "re"}
Lists   == {"ta", "re"}

Distance(m, n) == IF m < n THEN n - m ELSE m - n

ASSUME AppsAssumption   == Tasks \in [Apps -> Nat] /\ Jitter \in Nat /\ NoApp \notin Apps
ASSUME WritesAssumption == Screens \subseteq Nat /\ Cut \subseteq Nat /\ Written \subseteq Cgroups

(* Apps are told apart by their number of tasks: the difference must be    *)
(* noticed whatever the jitter, also from the zero of the constructor.     *)
ASSUME FarApart ==
  /\ \A a \in Apps : Tasks[a] > TOP_TASK_NR_DIFF_MIN
  /\ \A a, b \in Apps : a # b => Distance(Tasks[a], Tasks[b]) > TOP_TASK_NR_DIFF_MIN + Jitter

(* Mutant: restricted does not start its own list.                         *)
StartsOthers(c) == CASE c \in {"ta", "bg"} -> {"ta", "fg", "bg"}
                     [] c = "fg" -> {"ta", "fg", "bg", "re"}
                     [] c = "re" -> {"fg"}

(* The Updaters each event starts.                                         *)
Starts(c) == CASE c = "ta" -> {"ta", "fg", "bg"}
               [] c = "fg" -> {"ta", "fg", "bg", "re"}
               [] c = "bg" -> {"ta", "fg", "bg"}
               [] c = "re" -> {"fg", "re"}

(* The main thread's steps, in order.  A watch takes two: the kernel's, and *)
(* the entry of items_ without which an event is skipped.  The two topics  *)
(* of DynamicFps, topapp.pkgName and offscreen.state, count as one.        *)
Startup == << <<"watch", "ta">>, <<"store", "ta">>, <<"watch", "fg">>, <<"store", "fg">>,
              <<"watch", "bg">>, <<"store", "bg">>, <<"watch", "re">>, <<"store", "re">>,
              <<"subscribe", "cgroup.ta.list">>, <<"subscribe", "cgroup.re.list">>,
              <<"subscribe", "DynamicFps">> >>

ListOf == [u \in Lists |-> IF u = "ta" THEN "cgroup.ta.list" ELSE "cgroup.re.list"]

VARIABLES
  (* The kernel and the system.                                            *)
  topApp,        \* the app whose tasks are in top-app
  restricted,    \* the number of tasks in restricted
  unread,        \* the cgroups with an event not yet handled
  (* The program.                                                          *)
  started,       \* how many steps of Startup are done
  recent,        \* the Updaters whose tm_ shows less than 1 ms
  scheduled,     \* the delayed works waiting: scans, and "look"
  looking,       \* the work of TopappMonitor is in the HeavyWorker
  topappNr_, prevPkgName_, prevOffscreen_,
  isOffscreen_,  \* DynamicFps: the last offscreen.state that reached it
  (* What the properties remember.                                         *)
  unseen,        \* lists changed since they were last read
  tracked,       \* lists changed since the program listens to them, and
                 \* since a scan of them failed
  missed,        \* since a whole list set topappNr_, a scan or dumpsys
                 \* failed, or dumpsys told of a switch not yet read
  lost           \* the last offscreen.state found no subscriber

kernel  == <<topApp, restricted>>
program == <<topappNr_, prevPkgName_, prevOffscreen_, isOffscreen_>>
memory  == <<unseen, tracked, missed, lost>>
vars    == <<kernel, unread, started, recent, scheduled, looking, program, memory>>

Done(step)        == \E i \in 1 .. started : Startup[i] = step
Subscribed(topic) == Done(<<"subscribe", topic>>)

TypeOK == /\ topApp \in Apps /\ restricted \in Screens
          /\ unread \subseteq Cgroups /\ started \in 0 .. Len(Startup)
          /\ recent \subseteq Lists /\ scheduled \subseteq Lists \cup {"look"}
          /\ looking \in BOOLEAN /\ topappNr_ \in Nat /\ prevPkgName_ \in Apps \cup {NoApp}
          /\ prevOffscreen_ \in BOOLEAN /\ isOffscreen_ \in BOOLEAN
          /\ unseen \subseteq Lists /\ tracked \subseteq Lists
          /\ missed \in BOOLEAN /\ lost \in BOOLEAN

Init == /\ topApp \in Apps /\ restricted \in Screens
        /\ unread = {} /\ started = 0 /\ recent = Lists /\ scheduled = {} /\ looking = FALSE
        /\ topappNr_ = 0 /\ prevPkgName_ = NoApp
        /\ prevOffscreen_ = FALSE /\ isOffscreen_ = FALSE
        /\ unseen = {} /\ tracked = {} /\ missed = FALSE /\ lost = FALSE

-----------------------------------------------------------------------------
(* The system.                                                             *)

(* The program listens to u: it has started, and the millisecond in which  *)
(* the constructor's tm_ swallows every event is over.                     *)
Listens(u) == started = Len(Startup) /\ (u \in recent => u \in scheduled)

Modify(c)  == unread' = IF Done(<<"watch", c>>) THEN unread \cup {c} ELSE unread
Changed(u) == /\ unseen' = unseen \cup {u}
              /\ tracked' = IF Listens(u) THEN tracked \cup {u} ELSE tracked

SwitchApp == \E a \in Apps \ {topApp} :
  /\ topApp' = a /\ Modify("ta") /\ Changed("ta")
  /\ UNCHANGED <<restricted, started, recent, scheduled, looking, program, missed, lost>>

Restrict == \E n \in Screens \ {restricted} :
  /\ restricted' = n /\ Modify("re") /\ Changed("re")
  /\ UNCHANGED <<topApp, started, recent, scheduled, looking, program, missed, lost>>

OtherWrite == \E c \in Written :
  /\ Modify(c)
  /\ UNCHANGED <<kernel, started, recent, scheduled, looking, program, memory>>

(* CLOCK: the inotify thread sleeps 10 ms after each batch of events, and  *)
(* the millisecond of every tm_ is over.                                   *)
Millisecond ==
  /\ recent # {} /\ recent' = {}
  /\ UNCHANGED <<kernel, unread, started, scheduled, looking, program, memory>>

-----------------------------------------------------------------------------
(* The main thread.                                                        *)
Boot == /\ started < Len(Startup) /\ started' = started + 1
        /\ UNCHANGED <<kernel, unread, recent, scheduled, looking, program, memory>>

(* Mutant: Start resets the time before it looks for a subscriber.         *)
StartedUnheard(c) == {u \in Starts(c) : u \notin recent}

(* The inotify thread.  Start does nothing without a subscriber or within  *)
(* a millisecond of the last one; otherwise the scan is put off to 20 or   *)
(* 80 ms from now.                                                         *)
Started(c) == {u \in Starts(c) \cap Lists : Subscribed(ListOf[u]) /\ u \notin recent}

OnModified(c) ==
  /\ c \in unread /\ unread' = unread \ {c}
  /\ LET started_ == IF Done(<<"store", c>>) THEN Started(c) ELSE {}
     IN  recent' = recent \cup started_ /\ scheduled' = scheduled \cup started_
  /\ UNCHANGED <<kernel, started, looking, program, memory>>

-----------------------------------------------------------------------------
(* The timer thread.  The delays are longer than the millisecond of tm_.   *)
(* Threads the app starts or ends change the count and write nothing.      *)

(* Mutant: the number is stored before the subscriber is looked for.       *)
TopappListStored(nr) ==
  IF Distance(nr, topappNr_) > TOP_TASK_NR_DIFF_MIN
  THEN /\ topappNr_' = nr
       /\ scheduled' = (scheduled \ {"ta"}) \cup IF Subscribed("DynamicFps") THEN {"look"} ELSE {}
  ELSE UNCHANGED topappNr_ /\ scheduled' = scheduled \ {"ta"}

TopappList(nr) ==
  IF Subscribed("DynamicFps") /\ Distance(nr, topappNr_) > TOP_TASK_NR_DIFF_MIN
  THEN topappNr_' = nr /\ scheduled' = (scheduled \ {"ta"}) \cup {"look"}
  ELSE UNCHANGED topappNr_ /\ scheduled' = scheduled \ {"ta"}

ScanTopapp == /\ "ta" \in scheduled \ recent
              /\ \E n \in {0, Jitter} : TopappList(Tasks[topApp] + n)
              /\ missed' = (missed /\ topappNr_' = topappNr_)
              /\ unseen' = unseen \ {"ta"}
              /\ UNCHANGED <<kernel, unread, started, recent, looking, prevPkgName_,
                             prevOffscreen_, isOffscreen_, tracked, lost>>

(* Mutant: the previous state is kept.                                     *)
RestrictedListKept(nr) ==
  LET isOffscreen == nr > RESTRICTED_TASK_NR_MIN
      heard == Subscribed("DynamicFps")
  IN  /\ UNCHANGED prevOffscreen_
      /\ IF isOffscreen = prevOffscreen_
         THEN UNCHANGED <<isOffscreen_, lost>>
         ELSE lost' = ~heard /\ isOffscreen_' = IF heard THEN isOffscreen ELSE isOffscreen_

RestrictedList(nr) ==
  LET isOffscreen == nr > RESTRICTED_TASK_NR_MIN
      heard == Subscribed("DynamicFps")
  IN  /\ prevOffscreen_' = isOffscreen
      /\ IF isOffscreen = prevOffscreen_
         THEN UNCHANGED <<isOffscreen_, lost>>
         ELSE lost' = ~heard /\ isOffscreen_' = IF heard THEN isOffscreen ELSE isOffscreen_

ScanRestricted == /\ "re" \in scheduled \ recent /\ scheduled' = scheduled \ {"re"}
                  /\ RestrictedList(restricted)
                  /\ unseen' = unseen \ {"re"}
                  /\ UNCHANGED <<kernel, unread, started, recent, looking, topappNr_,
                                 prevPkgName_, tracked, missed>>

(* The list cannot be opened: nobody is told, and the change is forgotten. *)
ScanFails(u) == /\ u \in scheduled \ recent /\ scheduled' = scheduled \ {u}
                /\ unseen' = unseen \ {u} /\ tracked' = tracked \ {u}
                /\ missed' = (missed \/ u = "ta")
                /\ UNCHANGED <<kernel, unread, started, recent, looking, program, lost>>

(* It is opened, but a read fails, the first or a later one: ReadFile does *)
(* not tell this from the end of the file, and what it got by then, maybe  *)
(* nothing, is published as the list.                                      *)
TopappCut == /\ "ta" \in scheduled \ recent
             /\ \E n \in Cut : n < Tasks[topApp] /\ TopappList(n)
             /\ missed' = TRUE
             /\ unseen' = unseen \ {"ta"} /\ tracked' = tracked \ {"ta"}
             /\ UNCHANGED <<kernel, unread, started, recent, looking, prevPkgName_,
                            prevOffscreen_, isOffscreen_, lost>>

RestrictedCut == /\ "re" \in scheduled \ recent /\ scheduled' = scheduled \ {"re"}
                 /\ \E n \in Cut : n < restricted /\ RestrictedList(n)
                 /\ unseen' = unseen \ {"re"} /\ tracked' = tracked \ {"re"}
                 /\ UNCHANGED <<kernel, unread, started, recent, looking, topappNr_,
                                prevPkgName_, missed>>

(* Mutant: the timer drops the look.                                       *)
LookDropped == /\ "look" \in scheduled /\ scheduled' = scheduled \ {"look"} /\ UNCHANGED looking
               /\ UNCHANGED <<kernel, unread, started, recent, program, memory>>

Look == /\ "look" \in scheduled /\ scheduled' = scheduled \ {"look"} /\ looking' = TRUE
        /\ UNCHANGED <<kernel, unread, started, recent, program, memory>>

(* The worker thread: dumpsys names the app, or nothing.  Its listener was *)
(* there before the first look, so that every new name reaches DynamicFps. *)
GetTopAppName(a) == prevPkgName_' = IF a = NoApp THEN prevPkgName_ ELSE a

Ask == \E a \in {topApp, NoApp} :
  /\ looking /\ looking' = FALSE
  /\ GetTopAppName(a)
  /\ missed' = (missed \/ ("look" \notin scheduled /\ (a = NoApp \/ "ta" \in unseen)))
  /\ UNCHANGED <<kernel, unread, started, recent, scheduled, topappNr_, prevOffscreen_,
                 isOffscreen_, unseen, tracked, lost>>

-----------------------------------------------------------------------------
Environment == SwitchApp \/ Restrict \/ OtherWrite
Inotify     == \E c \in Cgroups : OnModified(c)
Scan        == \/ ScanTopapp \/ ScanRestricted
               \/ TopappCut \/ RestrictedCut \/ \E u \in Lists : ScanFails(u)

Next == Environment \/ Millisecond \/ Boot \/ Inotify \/ Scan \/ Look \/ Ask

(* Every thread goes on when it can.  No scan by itself is sure to come:   *)
(* writes that never stop may put it off for ever.                         *)
Fairness == /\ WF_vars(Millisecond) /\ WF_vars(Boot) /\ WF_vars(Inotify)
            /\ WF_vars(Scan \/ Look) /\ WF_vars(Ask)

SafeSpec == Init /\ [][Next]_vars
Spec     == SafeSpec /\ Fairness

-----------------------------------------------------------------------------
(* Properties.                                                             *)

(* A change the program listens to is not forgotten before it is read:     *)
(* there is an event that starts the scan, or the scan is waiting, although *)
(* Start drops every event within a millisecond of the one before.         *)
ChangesNoticed ==
  \A u \in unseen \cap tracked : u \in scheduled \/ \E c \in unread : u \in Starts(c)

(* topappNr_ is updated before dumpsys is asked, lists that look like the  *)
(* last one are ignored, and several switches may share one look: still,   *)
(* once the last switch has been read and no look is due, the app that     *)
(* DynamicFps was told is the one in the foreground, unless a list or an   *)
(* answer failed, or the answer was ahead of the lists: then the switch    *)
(* back goes unnoticed, until a whole list sets topappNr_ again.           *)
AppAnnounced ==
  "ta" \in tracked \ unseen /\ "look" \notin scheduled /\ ~looking /\ ~missed
    => prevPkgName_ = topApp

(* Only changes of the screen state are published: DynamicFps knows it     *)
(* after the last change was read in full, even if earlier ones were not,  *)
(* unless one was published before it had subscribed.  A list that is not  *)
(* read in full may well tell it the wrong state, until the next change.   *)
OffscreenKnown ==
  "re" \in tracked \ unseen /\ ~lost => isOffscreen_ = (restricted > RESTRICTED_TASK_NR_MIN)

(* When the writes stop, the app in the foreground gets announced.         *)
AppSettles ==
  []<><<Environment>>_vars \/ <>[]("ta" \in tracked /\ ~missed => prevPkgName_ = topApp)
=============================================================================
