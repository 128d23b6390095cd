---------------------------- MODULE InputListener ---------------------------
(***************************************************************************)
(* modules/input_listener.cpp and utils/input_reader.cpp: reading the      *)
(* input devices while they come and go.                                   *)
(*                                                                         *)
(* InitReaders opens the devices of /dev/input from the constructor; Start *)
(* then watches the directory, stores who is to be told, and starts the    *)
(* input thread.  The inotify thread notes created and deleted nodes and   *)
(* wakes the input thread through a pipe.  The input thread replays the    *)
(* notes (FlushPendingReaders, under mut_), polls, and hands each report   *)
(* it reads to HandleTouchInput or HandleBtnInput.                         *)
(*                                                                         *)
(* The notes are never cleared, so only membership matters: two sets.      *)
(* Positions are what the gesture code makes of them: a touch starts at    *)
(* the edge or not, and has moved enough to be a swipe or not.             *)
(***************************************************************************)
EXTENDS Integers, Sequences, FiniteSets

CONSTANTS
  Paths,       \* nodes of /dev/input
  Features,    \* what each device there says it supports
  Removable,   \* the ones that come and go
  Fds,         \* the descriptors open() can return
  PipeFd,      \* the read end of the pipe of PreparePoll
  IntMax,      \* INT_MAX, where the button counter stops
  Events,      \* the kinds of event of this instance
  MaxHeld,     \* bound: keys or fingers held on one device
  MaxQueue,    \* bound: unread reports of one device
  MaxNotices,  \* bound: undelivered inotify events
  PollLimit    \* bound: poll() refuses a longer table (RLIMIT_NOFILE)

EventKinds  == {"press", "repeat", "chord", "swipe", "foreign"}

(* On a panel "key" is BTN_TOUCH; "finger" is the BTN_TOOL_FINGER that a   *)
(* touchpad has as well, and that is down while exactly one finger is.     *)
FeatureBits == {"abs", "range", "rel", "key", "finger"}
ReportKinds == {"down", "edge", "more", "fewer", "second", "first", "up",
                "repeat", "keep"}

ASSUME PathsAssumption == /\ Features \in [Paths -> SUBSET FeatureBits]
                          /\ \A p \in Paths : "finger" \in Features[p] => "key" \in Features[p]
                          /\ Removable \subseteq Paths
ASSUME FdsAssumption   == /\ Fds \subseteq Nat \ {0} /\ PipeFd \in Nat \ Fds
                          /\ IsFiniteSet(Fds) /\ IsFiniteSet(Paths)
                          /\ Cardinality(Paths) <= Cardinality(Fds)
ASSUME BoundsAssumption ==
  /\ IntMax \in Nat \ {0}
  /\ Events \subseteq EventKinds
  /\ {MaxHeld, MaxQueue, MaxNotices, PollLimit} \subseteq Nat

(* What the InputReader constructor takes a device for: absolute positions *)
(* with a range make a touch panel, whatever keys it has besides.          *)
IsTouchPanel(p) == {"abs", "range"} \subseteq Features[p]
IsMouseDev(p)   == "rel" \in Features[p]
IsBtnDev(p)     == "key" \in Features[p]

DevType == [p \in Paths |-> CASE IsTouchPanel(p) -> "touch"
                              [] ~IsTouchPanel(p) /\ IsMouseDev(p) -> "mouse"
                              [] ~IsTouchPanel(p) /\ ~IsMouseDev(p) /\ IsBtnDev(p) -> "btn"
                              [] OTHER -> "unknown"]

Unused == -1   \* the fd of a free slot of pollfds_

VARIABLES
  (* The devices and the kernel.                                           *)
  plugged,        \* is there a device behind each path?
  held,           \* how many of its keys or fingers are down
  notices,        \* inotify events not yet delivered
  foreign,        \* descriptors held by other parts of the program
  (* InputListener.                                                        *)
  readers,        \* readers_: fd to path, info_.pressed, unread reports,
                  \* and whether the device is still there
  slots,          \* pollfds_, as the descriptors in it
  signalled,      \* there is something in the pipe
  addPending,     \* addPending_
  removePending,  \* removePending_
  prevTouch,      \* prevTouch_.pressed, also the last input.touch
  swiped,         \* swipeDist_ > swipeThd_
  fromEdge,       \* IsGestureStartPos(startX_, startY_)
  inGesture,      \* classified_.inGesture, also the last input.state
  prevBtn,        \* prevBtn_
  btnPublished,   \* the last input.btn
  (* The thread.                                                           *)
  pc,             \* where it is in TouchEventThread
  todo,           \* the notes of the list it is replaying
  ready,          \* indices of the slots poll() found readable
  reading,        \* the descriptor Parse has read from last
  batch,          \* the reports it read and has yet to handle
  (* History.                                                              *)
  missed,         \* paths that changed while nobody watched
  unheard         \* paths that reported while they were not open, or
                  \* that reported as buttons something that is not the
                  \* change of one key

kernel  == <<plugged, held, notices, foreign>>
pending == <<addPending, removePending>>
touch   == <<prevTouch, swiped, fromEdge, inGesture>>
button  == <<prevBtn, btnPublished>>
parsing == <<ready, reading, batch>>
history == <<missed, unheard>>
vars    == <<kernel, readers, slots, signalled, pending, touch, button,
             pc, todo, parsing, history>>

(* The kernel watches the directory once Start has asked it to.            *)
Watched == pc \notin {"scan", "watch"}

ReadersOf(p) == {f \in DOMAIN readers : readers[f].path = p}

(* open() returns the lowest descriptor that is free.                      *)
Free == Fds \ (DOMAIN readers \cup foreign)

LeastOf(S) == CHOOSE x \in S : \A y \in S : x <= y

NewReader(p) == 
  [path |-> p, alive |-> TRUE, pressed |-> FALSE, useEvtKey |-> FALSE, queue |-> <<>>]

(* PreparePoll has made the pipe, InitReaders has listed the directory,    *)
(* whatever devices are there.                                             *)
Init ==
  /\ plugged \in [Paths -> BOOLEAN]
  /\ held = [p \in Paths |-> 0]
  /\ notices = <<>>
  /\ foreign = {}
  /\ readers = <<>>
  /\ slots = <<PipeFd>>
  /\ signalled = FALSE
  /\ addPending = {}
  /\ removePending = {}
  /\ prevTouch = FALSE
  /\ swiped = FALSE
  /\ fromEdge = FALSE
  /\ inGesture = FALSE
  /\ prevBtn = 0
  /\ btnPublished = FALSE
  /\ pc = "scan"
  /\ todo = {p \in Paths : plugged[p]}
  /\ ready = {}
  /\ reading = PipeFd
  /\ batch = <<>>
  /\ missed = {}
  /\ unheard = {}

-----------------------------------------------------------------------------
(* The devices.  A report, which reaches the readers that are open, stands *)
(* for an evdev packet: the code acts on EV_SYN, with what is left of the  *)
(* events before it, and for a mouse on each key.                          *)

Report(p, k, single) ==
  /\ "press" \in Events
  /\ plugged[p] /\ DevType[p] # "unknown"
  /\ \A f \in ReadersOf(p) : Len(readers[f].queue) < MaxQueue
  /\ readers' = [f \in DOMAIN readers |->
                   IF readers[f].path = p /\ readers[f].alive
                     THEN [readers[f] EXCEPT !.queue = Append(@, k)]
                     ELSE readers[f]]
  /\ unheard' = IF single /\ \E f \in ReadersOf(p) : readers[f].alive
                 THEN unheard
                 ELSE unheard \cup {p}
  /\ UNCHANGED <<plugged, notices, foreign, slots, signalled, pending, touch,
                 button, pc, todo, parsing, missed>>

(* A key goes down or up.                                                  *)
Press(p) ==
  /\ DevType[p] # "touch" /\ held[p] < MaxHeld
  /\ held' = [held EXCEPT ![p] = @ + 1]
  /\ Report(p, "down", TRUE)

Release(p) ==
  /\ DevType[p] # "touch" /\ held[p] > 0
  /\ held' = [held EXCEPT ![p] = @ - 1]
  /\ Report(p, "up", TRUE)

(* Several keys of a device change in one packet.  ParseBtn keeps what the *)
(* last one did.                                                           *)
Chord(p) ==
  /\ DevType[p] = "btn" /\ "chord" \in Events
  /\ \E h \in 0 .. MaxHeld :
       /\ held' = [held EXCEPT ![p] = h]
       /\ \/ h > 0 /\ Report(p, "down", FALSE)
          \/ h < MaxHeld /\ Report(p, "up", FALSE)

(* What a panel on which h fingers are down now reports.  BTN_TOUCH tells  *)
(* the first finger, which may be at the edge, and the last; the finger    *)
(* bit of a touchpad goes up with the second and down again with the first *)
(* that is left; else there are the tracking ids, of which the last in the *)
(* packet counts.                                                          *)
FingerReports(p, h) ==
  CASE held[p] = 0 /\ h = 0 -> {}
    [] held[p] = 0 /\ h > 0 -> {"down"} \cup (IF "swipe" \in Events THEN {"edge"} ELSE {})
    [] held[p] > 0 /\ h = 0 -> {"up"}
    [] held[p] > 0 /\ h > 0 ->
         IF "finger" \in Features[p] /\ (held[p] = 1) # (h = 1)
           THEN IF h = 1 THEN {"first"} ELSE {"second"}
           ELSE {"more", "fewer"}

(* Fingers touch or leave a panel, any number of them in one packet.       *)
Fingers(p) ==
  /\ DevType[p] = "touch"
  /\ \E h \in 0 .. MaxHeld :
       /\ held' = [held EXCEPT ![p] = h]
       /\ \E k \in FingerReports(p, h) : Report(p, k, TRUE)

(* A finger moves, or a button device reports something that is no key.    *)
Keep(p) ==
  /\ DevType[p] = "touch" => held[p] > 0 /\ "swipe" \in Events
  /\ DevType[p] = "btn" => "repeat" \in Events
  /\ DevType[p] # "mouse"
  /\ Report(p, "keep", DevType[p] = "touch")
  /\ UNCHANGED held

(* The kernel repeats a key that stays down.                               *)
Repeat(p) ==
  /\ DevType[p] = "btn" /\ held[p] > 0 /\ "repeat" \in Events
  /\ Report(p, "repeat", FALSE)
  /\ UNCHANGED held

(* A node appears or disappears; the watch, once there is one, sees it.    *)
Notice(p, flag) ==
  /\ p \in Removable
  /\ Len(notices) < MaxNotices
  /\ notices' = IF Watched THEN Append(notices, [path |-> p, flag |-> flag]) ELSE notices
  /\ missed' = IF ~Watched THEN missed \cup {p}
               ELSE IF flag = "DELETE" THEN missed \ {p} ELSE missed
  /\ UNCHANGED <<foreign, slots, signalled, pending, touch, button, pc, todo,
                 parsing, unheard>>

Plug(p) ==
  /\ ~plugged[p]
  /\ plugged' = [plugged EXCEPT ![p] = TRUE]
  /\ Notice(p, "CREATE")
  /\ UNCHANGED <<held, readers>>

(* A descriptor of a device that is gone still polls, and reads nothing.   *)
Unplug(p) ==
  /\ plugged[p]
  /\ plugged' = [plugged EXCEPT ![p] = FALSE]
  /\ held' = [held EXCEPT ![p] = 0]
  /\ readers' = [f \in DOMAIN readers |->
                   IF readers[f].path = p
                     THEN [readers[f] EXCEPT !.alive = FALSE, !.queue = <<>>]
                     ELSE readers[f]]
  /\ Notice(p, "DELETE")

(* Other parts of the program open and close descriptors of their own; in  *)
(* the instances they leave enough for the devices.                        *)
OtherOpen(f) ==
  /\ "foreign" \in Events
  /\ Cardinality(foreign) + Cardinality(Paths) < Cardinality(Fds)
  /\ f = LeastOf(Free)
  /\ foreign' = foreign \cup {f}
  /\ UNCHANGED <<plugged, held, notices, readers, slots, signalled, pending, touch,
                 button, pc, todo, parsing, history>>

OtherClose(f) ==
  /\ f \in foreign
  /\ foreign' = foreign \ {f}
  /\ UNCHANGED <<plugged, held, notices, readers, slots, signalled, pending, touch,
                 button, pc, todo, parsing, history>>

-----------------------------------------------------------------------------
(* The inotify thread.                                                     *)

(* Until Start has stored the item of the new watch, WaitAndHandle finds   *)
(* nobody to tell and drops the event.                                     *)
Unclaimed ==
  /\ notices # <<>>
  /\ pc = "store"
  /\ notices' = Tail(notices)
  /\ LET later == {i \in DOMAIN notices : i > 1 /\ notices[i].flag = "DELETE"}
     IN missed' = missed \cup ({Head(notices).path} \ {notices[i].path : i \in later})
  /\ UNCHANGED <<plugged, held, foreign, readers, slots, signalled, pending, touch,
                 button, pc, todo, parsing, unheard>>

(* OnInputDevUpdated waits for mut_ while the input thread replays the     *)
(* notes.                                                                  *)
OnInputDevUpdated ==
  /\ notices # <<>>
  /\ pc \notin {"store", "remove", "add"}
  /\ LET n == Head(notices)
     IN IF n.flag = "CREATE"
          THEN addPending' = addPending \cup {n.path} /\ UNCHANGED removePending
          ELSE removePending' = removePending \cup {n.path} /\ UNCHANGED addPending
  /\ signalled' = TRUE
  /\ notices' = Tail(notices)
  /\ UNCHANGED <<plugged, held, foreign, readers, slots, touch, button, pc, todo,
                 parsing, history>>

-----------------------------------------------------------------------------
(* What the reports mean.                                                  *)

(* Do reports of this kind of this device have BTN_TOUCH or                *)
(* BTN_TOOL_FINGER in them?                                                *)
HasEvtKey(p, k) ==
  \/ IsTouchPanel(p) /\ "key" \in Features[p] /\ k \in {"down", "edge", "up"}
  \/ k \in {"second", "first"}

(* Mutant: tracking ids count even when the panel has BTN_TOUCH.           *)
PressedById(r, k) ==
  \/ k \in {"down", "edge", "first", "more"}
  \/ k = "keep" /\ r.pressed

(* info_.pressed after a report of reader r: it is set by a key or a       *)
(* tracking id that goes down, cleared by any other value of them, and     *)
(* else kept; tracking ids are ignored after the first BTN_TOUCH or        *)
(* BTN_TOOL_FINGER, and the last of the two in a packet counts.            *)
PressedAfter(r, k) ==
  \/ k \in {"down", "edge", "first"}
  \/ k = "more" /\ (r.useEvtKey => r.pressed)
  \/ k = "fewer" /\ r.useEvtKey /\ r.pressed
  \/ k = "keep" /\ r.pressed

(* HandleTouchInput(info): every touch device shares one state.  The start *)
(* of a touch resets the distance; the release of one does not.  A gesture *)
(* is a swipe from the edge, or one that was classified in the last two    *)
(* microseconds.                                                           *)
HandleTouchInput(pressed, edge) ==
  /\ prevTouch' = pressed
  /\ swiped' \in IF pressed /\ ~prevTouch THEN {FALSE}
                 ELSE {swiped} \cup (IF pressed /\ "swipe" \in Events THEN {TRUE} ELSE {})
  /\ fromEdge' = IF pressed /\ ~prevTouch THEN edge ELSE fromEdge
  /\ inGesture' \in {swiped' /\ fromEdge'} \cup (IF inGesture THEN {TRUE} ELSE {})
  /\ UNCHANGED button

(* Mutant: the counter is not kept from going below zero.                  *)
CountUncapped(pressed) == prevBtn + (IF pressed THEN 1 ELSE -1)

(* The button counter: one up for a report with a key down, one down for   *)
(* any other.                                                              *)
Count(pressed) ==
  IF pressed THEN IF prevBtn < IntMax THEN prevBtn + 1 ELSE IntMax
             ELSE IF prevBtn > 0 THEN prevBtn - 1 ELSE 0

(* Mutant: every report is published as it comes.                          *)
HandleBtnAtOnce(pressed) ==
  /\ prevBtn' = Count(pressed)
  /\ btnPublished' = pressed
  /\ UNCHANGED touch

HandleBtnInput(pressed) ==
  /\ prevBtn' = Count(pressed)
  /\ btnPublished' = IF Count(pressed) * prevBtn = 0 THEN Count(pressed) > 0 ELSE btnPublished
  /\ UNCHANGED touch

Handle(p, pressed, edge) ==
  IF DevType[p] = "touch" THEN HandleTouchInput(pressed, edge) ELSE HandleBtnInput(pressed)

-----------------------------------------------------------------------------
(* Opening and closing devices.                                            *)

(* Mutant: a descriptor is stored in free slots only.                      *)
AddPollInPlace(fd) ==
  slots' = [i \in DOMAIN slots |-> IF slots[i] = Unused THEN fd ELSE slots[i]]

(* Every free slot gets the descriptor, or a new one does.                 *)
AddPoll(fd) ==
  slots' = IF \E i \in DOMAIN slots : slots[i] = Unused
             THEN [i \in DOMAIN slots |-> IF slots[i] = Unused THEN fd ELSE slots[i]]
             ELSE Append(slots, fd)

(* The first slot that holds it is freed.                                  *)
RemovePoll(fd) ==
  LET holding == {i \in DOMAIN slots : slots[i] = fd}
  IN slots' = IF holding = {} THEN slots
                              ELSE [slots EXCEPT ![LeastOf(holding)] = Unused]

(* AddReader(p), from InitReaders or FlushPendingReaders: nothing when p   *)
(* is open, cannot be opened or is of no known type.                       *)
AddReader(p) ==
  /\ pc \in {"scan", "add"}
  /\ p \in todo
  /\ todo' = todo \ {p}
  /\ IF ReadersOf(p) # {} \/ ~plugged[p] \/ DevType[p] = "unknown"
       THEN UNCHANGED <<readers, slots>>
       ELSE LET fd == LeastOf(Free)
            IN /\ readers' = [f \in DOMAIN readers \cup {fd} |->
                                IF f = fd THEN NewReader(p) ELSE readers[f]]
               /\ AddPoll(fd)
  /\ UNCHANGED <<kernel, signalled, pending, touch, button, pc, parsing, history>>

(* RemoveReader(p): a released report stands for what the device had down. *)
RemoveReader(p) ==
  /\ pc = "remove"
  /\ p \in todo
  /\ todo' = todo \ {p}
  /\ IF ReadersOf(p) = {}
       THEN UNCHANGED <<readers, slots, touch, button>>
       ELSE \E fd \in ReadersOf(p) :
              /\ Handle(p, FALSE, FALSE)
              /\ RemovePoll(fd)
              /\ readers' = [f \in DOMAIN readers \ {fd} |-> readers[f]]
  /\ UNCHANGED <<kernel, signalled, pending, pc, parsing, history>>

-----------------------------------------------------------------------------
(* The main thread up to Start, then TouchEventThread.                     *)

Scanned ==
  /\ pc = "scan"
  /\ todo = {}
  /\ pc' = "watch"
  /\ UNCHANGED <<kernel, readers, slots, signalled, pending, touch, button, todo,
                 parsing, history>>

(* Start: Inotify::Add has the kernel watch the directory ...              *)
Start ==
  /\ pc = "watch"
  /\ pc' = "store"
  /\ UNCHANGED <<kernel, readers, slots, signalled, pending, touch, button, todo,
                 parsing, history>>

(* ... and stores the item; then the input thread is started.              *)
StoreItem ==
  /\ pc = "store"
  /\ pc' = "flush"
  /\ UNCHANGED <<kernel, readers, slots, signalled, pending, touch, button, todo,
                 parsing, history>>

(* Mutant: the notes of created nodes are replayed first.                  *)
FlushAddsFirst ==
  /\ \/ pc = "flush" /\ pc' = "add" /\ todo' = addPending
     \/ pc = "add" /\ todo = {} /\ pc' = "remove" /\ todo' = removePending
     \/ pc = "remove" /\ todo = {} /\ pc' = "poll" /\ todo' = {}
  /\ UNCHANGED <<kernel, readers, slots, signalled, pending, touch, button, parsing,
                 history>>

(* FlushPendingReaders takes mut_, replays the deleted nodes, then the     *)
(* created ones.  A table that is too long for poll() is not followed.     *)
Flush ==
  /\ \/ /\ pc = "flush" /\ Len(slots) <= PollLimit
        /\ pc' = "remove" /\ todo' = removePending
     \/ pc = "remove" /\ todo = {} /\ pc' = "add" /\ todo' = addPending
     \/ pc = "add" /\ todo = {} /\ pc' = "poll" /\ todo' = {}
  /\ UNCHANGED <<kernel, readers, slots, signalled, pending, touch, button, parsing,
                 history>>

(* Indices of the slots whose revents have POLLIN.                         *)
Readable ==
  {i \in DOMAIN slots : \/ slots[i] = PipeFd /\ signalled
                        \/ slots[i] \in DOMAIN readers /\ readers[slots[i]].queue # <<>>}

MaybeReadable == {i \in DOMAIN slots : slots[i] \in foreign}

(* The ones with POLLHUP or POLLNVAL, which also end the wait.             *)
Hangups ==
  {i \in DOMAIN slots :
     \/ slots[i] \in DOMAIN readers /\ ~readers[slots[i]].alive
     \/ slots[i] \in Free}

Poll ==
  /\ pc = "poll"
  /\ Len(slots) <= PollLimit
  /\ \E R \in SUBSET MaybeReadable :
       /\ Readable \cup R \cup Hangups # {}
       /\ ready' = Readable \cup R
  /\ pc' = "handle"
  /\ UNCHANGED <<kernel, readers, slots, signalled, pending, touch, button, todo,
                 reading, batch, history>>

(* A signal handler ran, or the table is too long: sleep and start over.   *)
PollFails ==
  /\ pc = "poll"
  /\ pc' = "flush"
  /\ UNCHANGED <<kernel, readers, slots, signalled, pending, touch, button, todo,
                 parsing, history>>

NextSlot == LeastOf(ready)

(* Mutant: the loop ends with the first slot.                              *)
OneSlotPerPoll ==
  /\ pc = "handle"
  /\ batch = <<>>
  /\ ready # {}
  /\ LET fd == slots[NextSlot]
     IN IF fd \in DOMAIN readers
          THEN /\ reading' = fd
               /\ batch' = readers[fd].queue
               /\ readers' = [readers EXCEPT ![fd].queue = <<>>]
               /\ UNCHANGED signalled
          ELSE /\ signalled' = (signalled /\ fd # PipeFd)
               /\ UNCHANGED <<readers, reading, batch>>
  /\ ready' = {}
  /\ UNCHANGED <<kernel, slots, pending, touch, button, pc, todo, history>>

(* HandleInput: read all there is from the next slot, a device's reports   *)
(* to parse or, with ReadUnused, what is no device's.                      *)
HandleInput ==
  /\ pc = "handle"
  /\ batch = <<>>
  /\ ready # {}
  /\ LET fd == slots[NextSlot]
     IN IF fd \in DOMAIN readers
          THEN /\ reading' = fd
               /\ batch' = readers[fd].queue
               /\ readers' = [readers EXCEPT ![fd].queue = <<>>]
               /\ UNCHANGED signalled
          ELSE /\ signalled' = (signalled /\ fd # PipeFd)
               /\ UNCHANGED <<readers, reading, batch>>
  /\ ready' = ready \ {NextSlot}
  /\ UNCHANGED <<kernel, slots, pending, touch, button, pc, todo, history>>

(* InputReader::Parse: the reports of the batch in turn.                   *)
ParseReport ==
  /\ pc = "handle"
  /\ batch # <<>>
  /\ LET r == readers[reading]
         k == Head(batch)
     IN /\ readers' = [readers EXCEPT ![reading].pressed = PressedAfter(r, k),
                                      ![reading].useEvtKey = @ \/ HasEvtKey(r.path, k)]
        /\ Handle(r.path, PressedAfter(r, k), k = "edge")
  /\ batch' = Tail(batch)
  /\ UNCHANGED <<kernel, slots, signalled, pending, pc, todo, ready, reading, history>>

LoopAgain ==
  /\ pc = "handle"
  /\ batch = <<>>
  /\ ready = {}
  /\ pc' = "flush"
  /\ UNCHANGED <<kernel, readers, slots, signalled, pending, touch, button, todo,
                 parsing, history>>

-----------------------------------------------------------------------------
Environment ==
  \/ \E p \in Paths :
       \/ Press(p) \/ Release(p) \/ Chord(p) \/ Repeat(p)
       \/ Fingers(p) \/ Keep(p)
       \/ Plug(p) \/ Unplug(p)
  \/ \E f \in Fds : OtherOpen(f) \/ OtherClose(f)

Thread ==
  \/ \E p \in Paths : AddReader(p) \/ RemoveReader(p)
  \/ Scanned
  \/ Start
  \/ StoreItem
  \/ Flush
  \/ Poll
  \/ HandleInput
  \/ ParseReport
  \/ LoopAgain

Next == Environment \/ Unclaimed \/ OnInputDevUpdated \/ Thread \/ PollFails

(* The threads are scheduled, and poll() is not interrupted every time.    *)
Fairness == WF_vars(Thread) /\ SF_vars(Poll) /\ WF_vars(OnInputDevUpdated)

SafeSpec == Init /\ [][Next]_vars

Spec == SafeSpec /\ Fairness

-----------------------------------------------------------------------------
(* Properties.                                                             *)

TypeOK ==
  /\ plugged \in [Paths -> BOOLEAN]
  /\ held \in [Paths -> 0..MaxHeld]
  /\ notices \in Seq([path : Paths, flag : {"CREATE", "DELETE"}])
  /\ foreign \subseteq Fds
  /\ DOMAIN readers \subseteq Fds \ foreign
  /\ \A f \in DOMAIN readers :
       readers[f] \in [path : Paths, alive : BOOLEAN, pressed : BOOLEAN,
                       useEvtKey : BOOLEAN, queue : Seq(ReportKinds)]
  /\ slots \in Seq(Fds \cup {PipeFd, Unused})
  /\ signalled \in BOOLEAN
  /\ addPending \subseteq Paths
  /\ removePending \subseteq Paths
  /\ prevTouch \in BOOLEAN
  /\ swiped \in BOOLEAN
  /\ fromEdge \in BOOLEAN
  /\ inGesture \in BOOLEAN
  /\ prevBtn \in 0..IntMax
  /\ btnPublished \in BOOLEAN
  /\ pc \in {"scan", "watch", "store", "flush", "remove", "add", "poll", "handle"}
  /\ todo \subseteq Paths
  /\ ready \subseteq DOMAIN slots
  /\ reading \in Fds \cup {PipeFd}
  /\ batch \in Seq(ReportKinds)
  /\ missed \subseteq Paths
  /\ unheard \subseteq Paths

(* Every open device is in the poll table, and so is the pipe: whatever    *)
(* stale or repeated descriptors the table has collected, freeing the      *)
(* first slot of a descriptor never takes another device's.                *)
ReadersPolled ==
  \A f \in DOMAIN readers \cup {PipeFd} : \E i \in DOMAIN slots : slots[i] = f

Unread(p) == \E f \in ReadersOf(p) : readers[f].queue # <<>>

(* Whatever order nodes came and went in, and wherever the input thread    *)
(* was when it was told: once it waits in poll() with an empty pipe, a     *)
(* path with no undelivered notice has a reader of the device behind it,   *)
(* if there is one, and none if there is not.  This is not so of a path    *)
(* whose last change came between the listing of the directory and the     *)
(* watch, or was read by the inotify thread before the item was stored;    *)
(* the next deletion of it sets that right.                                *)
HotplugHonoured ==
  pc = "poll" /\ ~signalled =>
    \A p \in Paths \ missed :
      DevType[p] # "unknown" /\ (\A i \in DOMAIN notices : notices[i].path # p) =>
        IF plugged[p] THEN \E f \in ReadersOf(p) : readers[f].alive
                      ELSE ReadersOf(p) = {}

(* The thread waits in poll() and no report of the devices in S was lost,  *)
(* nor is there one to read.                                               *)
AtRest(S) == pc = "poll" /\ \A p \in S : ~Unread(p) /\ p \notin unheard

Buttons == {p \in Paths : DevType[p] \in {"btn", "mouse"}}
Panels  == {p \in Paths : DevType[p] = "touch"}

HeldOnAny(S) == \E p \in S : held[p] > 0

(* With buttons that stay, do not repeat and, but for a mouse, change one  *)
(* key in a packet, what has been published at rest is what is held down,  *)
(* over all buttons and mice, in whatever order keys were pressed and      *)
(* released and reports were read.  The code counts packets, not keys: one *)
(* that presses two keys or repeats one throws the counter off for good,   *)
(* and so does a device that goes with two keys down.                      *)
ButtonsReported == AtRest(Buttons) => btnPublished = HeldOnAny(Buttons)

(* A touchpad with two fingers or more on it, of which BTN_TOOL_FINGER     *)
(* says that no single finger is down.                                     *)
Ambiguous(p) == "finger" \in Features[p] /\ held[p] > 1

(* And over the touch panel, when there is one and it has BTN_TOUCH: it is *)
(* touched until the last finger leaves, however many come and go and      *)
(* however many at once; except that a touchpad may be released with its   *)
(* second finger, until all fingers but one are gone.                      *)
TouchReported ==
  AtRest(Panels) =>
    prevTouch = HeldOnAny(Panels) \/ \E p \in Panels : Ambiguous(p)

(* No device is starved by others that keep reporting: its reports are     *)
(* read, or the device is closed.                                          *)
ReportsRead == \A p \in Paths : Unread(p) ~> ~Unread(p)
=============================================================================
