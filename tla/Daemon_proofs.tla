---------------------------- MODULE Daemon_proofs ----------------------------
(***************************************************************************)
(* One app at a time, for any number of processes, edits and faults, and   *)
(* whatever becomes of the watch; and, as long as the watch was not lost,  *)
(* the app loads what the file says, whatever the editors do and when.     *)
(***************************************************************************)
EXTENDS Daemon, TLAPS

Waiting == {"wait", "events", "moved", "creat", "add"}

(* The apps that were not told to end.                                     *)
Left == {p \in Pids : Alive(p) /\ p \notin signalled}

NumbersOK == /\ pc \in {"fork", "assign", "check"} \cup Waiting
             /\ app \in [Pids -> States]

(* Where the one app is known: to fork() at first, to old_pid in the end.  *)
LeftKnown ==
  /\ pc = "fork" => Left = {}
  /\ pc \in {"assign", "check"} => Left \subseteq {forked}
  /\ pc \in Waiting => Left \subseteq {forked} \cap {old_pid}

(* While fork()'s child is not yet the known app, it has that number alone, *)
(* and is noted as dead only if it is.                                     *)
DeadIsDead ==
  /\ pc = "check" => new_pid = forked
  /\ pc \in {"assign", "check"} /\ dead_pid = forked => forked \notin Left

Inv == NumbersOK /\ LeftKnown /\ DeadIsDead

-----------------------------------------------------------------------------
LEMMA InvInit == Init => Inv
  BY DEF Init, Inv, NumbersOK, LeftKnown, DeadIsDead, Left, Alive, States, Waiting, Pids

(* An app that ends leaves the others as they were.                        *)
LEMMA EndsShrinksLeft ==
  ASSUME NumbersOK, NEW p \in Pids, Ends(p)
  PROVE  app' \in [Pids -> States] /\ Left' \subseteq Left
  BY DEF NumbersOK, Ends, Left, Alive, States

(* The steps that leave the daemon's own variables alone.                  *)
LEMMA AppsOnly ==
  ASSUME Inv, UNCHANGED <<pc, pidVars>>, app' \in [Pids -> States], Left' \subseteq Left
  PROVE  Inv'
  BY DEF Inv, NumbersOK, LeftKnown, DeadIsDead, pidVars, Waiting

LEMMA LoadKeeps ==
  ASSUME Inv, NEW p \in Pids, Load(p)
  PROVE  Inv'
<1>1. UNCHANGED <<pc, pidVars>>
  BY DEF Load
<1>2. app' \in [Pids -> States] /\ Left' \subseteq Left
  <2>1. CASE app' = [app EXCEPT ![p] = "running"] /\ UNCHANGED <<signalled, sigchld>>
    BY <2>1 DEF Load, Inv, NumbersOK, Left, Alive, States
  <2>2. CASE Ends(p)
    BY <2>2, EndsShrinksLeft DEF Inv
  <2>3. QED
    BY <2>1, <2>2 DEF Load
<1>3. QED
  BY <1>1, <1>2, AppsOnly

LEMMA EndingKeeps ==
  ASSUME Inv, NEW p \in Pids, Terminate(p) \/ Crash(p)
  PROVE  Inv'
<1>1. Ends(p) /\ UNCHANGED <<pc, pidVars>>
  BY DEF Terminate, Crash
<1>2. app' \in [Pids -> States] /\ Left' \subseteq Left
  BY <1>1, EndsShrinksLeft DEF Inv
<1>3. QED
  BY <1>1, <1>2, AppsOnly

(* The handler notes a child it has just reaped.                           *)
LEMMA HandlerKeeps ==
  ASSUME Inv, Handler
  PROVE  Inv'
<1>1. PICK p \in Pids : /\ app[p] = "zombie" /\ app' = [app EXCEPT ![p] = "free"]
                        /\ dead_pid' = IF p \in {new_pid, old_pid} THEN p ELSE dead_pid
                        /\ UNCHANGED <<pc, signalled, forked, new_pid, old_pid>>
  BY DEF Handler, Noted
<1>2. Left' = Left /\ p \notin Left
  BY <1>1 DEF Inv, NumbersOK, Left, Alive, States
<1>3. NumbersOK' /\ LeftKnown'
  BY <1>1, <1>2 DEF Inv, NumbersOK, LeftKnown, States, Waiting
<1>4. DeadIsDead'
  BY <1>1, <1>2 DEF Inv, DeadIsDead
<1>5. QED
  BY <1>3, <1>4 DEF Inv

(* Whoever is left is old_pid, and is told.                                *)
LEMMA KillOldAppKeeps ==
  ASSUME Inv, KillOldApp
  PROVE  Inv'
<1>1. Left \subseteq {old_pid}
  BY DEF KillOldApp, Inv, LeftKnown, Waiting
<1>2. Left' = {}
  BY <1>1 DEF KillOldApp, Kill, Left, Alive, childVars
<1>3. QED
  BY <1>2 DEF KillOldApp, Inv, NumbersOK, LeftKnown, DeadIsDead, childVars, Waiting

LEMMA ForkKeeps ==
  ASSUME Inv, Fork
  PROVE  Inv'
<1>1. Left = {} /\ pc' = "assign" /\ UNCHANGED <<signalled, dead_pid, old_pid>>
  BY DEF Inv, LeftKnown, Fork
<1>2. CASE Unused # {} /\ forked' = One(Unused) /\ app' = [app EXCEPT ![forked'] = "loading"]
  <2>1. forked' \in Unused
    BY <1>2 DEF One
  <2>2. forked' \in Pids /\ forked' # dead_pid
    BY <2>1 DEF Unused
  <2>3. Left' \subseteq {forked'} /\ app' \in [Pids -> States]
    BY <1>1, <1>2, <2>2 DEF Inv, NumbersOK, Left, Alive, States
  <2>4. QED
    BY <1>1, <2>2, <2>3 DEF Inv, NumbersOK, LeftKnown, DeadIsDead, Waiting
<1>3. CASE forked' = -1 /\ UNCHANGED app
  <2>1. Left' = {}
    BY <1>1, <1>3 DEF Left, Alive
  <2>2. QED
    BY <1>1, <1>3, <2>1 DEF Inv, NumbersOK, LeftKnown, DeadIsDead, Waiting
<1>4. QED
  BY <1>2, <1>3 DEF Fork

LEMMA AssignKeeps ==
  ASSUME Inv, Assign
  PROVE  Inv'
<1>1. Left' = Left
  BY DEF Assign, Left, Alive, childVars
<1>2. QED
  BY <1>1 DEF Assign, Inv, NumbersOK, LeftKnown, DeadIsDead, childVars, Waiting

(* An app that was noted as dead is not left; any other becomes old_pid.   *)
LEMMA CheckKeeps ==
  ASSUME Inv, Check
  PROVE  Inv'
<1>1. Left' = Left /\ Left \subseteq {forked} /\ new_pid = forked
  BY DEF Check, Left, Alive, childVars, Inv, LeftKnown, DeadIsDead
<1>2. dead_pid = forked => Left = {}
  BY <1>1 DEF Check, Inv, DeadIsDead
<1>3. Left' \subseteq {forked'} \cap {old_pid'}
  BY <1>1, <1>2 DEF Check, Survived
<1>4. QED
  BY <1>3 DEF Check, Inv, NumbersOK, LeftKnown, DeadIsDead, childVars, Waiting

(* Editors change no process; the watch moves within Waiting.              *)
LEMMA WatchKeeps ==
  ASSUME Inv, Users \/ Watch
  PROVE  Inv'
<1>1. UNCHANGED others
  BY DEF Users, Watch
<1>2. Left' = Left
  BY <1>1 DEF others, childVars, Left, Alive
<1>3. pc' = pc \/ (pc \in Waiting /\ pc' \in Waiting)
  BY DEF Users, Watch, WaitAndHandle, Wait, Skip, Access, Creat, AddWatch, Waiting
<1>4. QED
  BY <1>1, <1>2, <1>3 DEF Inv, NumbersOK, LeftKnown, DeadIsDead, others, childVars, pidVars, Waiting

LEMMA InvStep == Inv /\ [Next]_vars => Inv'
<1> SUFFICES ASSUME Inv, [Next]_vars PROVE Inv'
  OBVIOUS
<1>1. CASE Users \/ Watch
  BY <1>1, WatchKeeps
<1>2. CASE KillOldApp
  BY <1>2, KillOldAppKeeps
<1>3. CASE Fork
  BY <1>3, ForkKeeps
<1>4. CASE Assign
  BY <1>4, AssignKeeps
<1>5. CASE Check
  BY <1>5, CheckKeeps
<1>6. CASE Handler
  BY <1>6, HandlerKeeps
<1>7. ASSUME NEW p \in Pids, App(p) \/ Crash(p) PROVE Inv'
  BY <1>7, LoadKeeps, EndingKeeps DEF App
<1>8. CASE UNCHANGED vars
  BY <1>8 DEF vars, childVars, pidVars, Inv, NumbersOK, LeftKnown, DeadIsDead, Left, Alive
<1>9. QED
  BY <1>1, <1>2, <1>3, <1>4, <1>5, <1>6, <1>7, <1>8 DEF Next, Main

(* For any number of processes, edits and faults at most one app is left   *)
(* to run when the daemon waits, and it is the one it will end next.       *)
THEOREM OneAppAtATime == SafeSpec => []OneApp
<1>1. Inv => OneApp
  BY DEF Inv, LeftKnown, OneApp, Left, Waiting
<1>2. QED
  BY <1>1, InvInit, InvStep, PTL DEF SafeSpec

-----------------------------------------------------------------------------
(* The file and its watch.                                                 *)

Idle == {"fork", "assign", "check", "wait"}

(* Only files that exist are watched, each by one descriptor, and the      *)
(* daemon handles events of a batch that it has read.                      *)
Watching ==
  /\ path = None \/ path # away
  /\ \A w \in Wds : watch[w] # None => watch[w] \in {path, away}
  /\ \A v, w \in Wds : watch[v] = watch[w] /\ watch[v] # None => v = w
  /\ pc \in {"moved", "creat", "add"} => batch # <<>>
  /\ pc \in Idle => batch = <<>>

(* An event the daemon adds the watch again for.                           *)
Calls(events) == \E k \in DOMAIN events : events[k][1] \in items /\ events[k][2] # "CLOSE_WRITE"

Covered == path # None /\ \E w \in items : watch[w] = path

(* While the file at the path is not watched, an event is to come that     *)
(* makes the daemon watch it again.                                        *)
WatchRenewed == ~lapsed => Covered \/ Calls(unread) \/ Calls(batch)

(* And while the last app has not loaded what the file says, it has yet to *)
(* load, or an event is to come that has it replaced.                      *)
LoadOwed ==
  ~lapsed /\ forked # -1 /\ pc \in {"assign", "check", "wait"} =>
    \/ unread # <<>> \/ Writing \/ Current
    \/ \E p \in Pids : p = forked /\ app[p] = "loading"

(* Only apps that live are about to be ended, and the last one is not,     *)
(* until it is to be replaced.                                             *)
Signals ==
  /\ \A p \in signalled : Alive(p)
  /\ pc # "fork" => forked \notin signalled

FileInv == TypeOK /\ Watching /\ WatchRenewed /\ LoadOwed /\ Signals

-----------------------------------------------------------------------------
(* Events are added at the end of the queue, and an inode that is watched  *)
(* has at least one of the kind when one was told.                         *)
Extends(longer, queue) == \A k \in DOMAIN queue : k \in DOMAIN longer /\ longer[k] = queue[k]

LEMMA OneOfSet == ASSUME NEW S, S # {} PROVE One(S) \in S
BY DEF One

LEMMA WithAdds ==
  ASSUME NEW queue \in Seq(Wds \X Masks), NEW event \in Wds \X Masks
  PROVE  /\ With(queue, event) \in Seq(Wds \X Masks)
         /\ Extends(With(queue, event), queue)
         /\ \E k \in DOMAIN With(queue, event) : With(queue, event)[k] = event
<1>1. CASE queue # <<>> /\ queue[Len(queue)] = event
  <2>1. With(queue, event) = queue /\ Len(queue) \in DOMAIN queue
    BY <1>1 DEF With
  <2>2. QED
    BY <1>1, <2>1 DEF Extends
<1>2. CASE ~(queue # <<>> /\ queue[Len(queue)] = event)
  <2>1. With(queue, event) = Append(queue, event)
    BY <1>2 DEF With
  <2>2. /\ Append(queue, event) \in Seq(Wds \X Masks)
        /\ DOMAIN queue = 1 .. Len(queue) /\ Len(queue) \in Nat
        /\ DOMAIN Append(queue, event) = 1 .. Len(queue) + 1
        /\ \A k \in 1 .. Len(queue) : Append(queue, event)[k] = queue[k]
        /\ Append(queue, event)[Len(queue) + 1] = event
    OBVIOUS
  <2>3. QED
    BY <2>1, <2>2 DEF Extends
<1>3. QED
  BY <1>1, <1>2

Tells(events, i, mask) == WdsOf(i) # {} =>
  \E k \in DOMAIN events : events[k][1] \in WdsOf(i) /\ events[k][2] = mask

LEMMA ToldAdds ==
  ASSUME NEW queue \in Seq(Wds \X Masks), NEW i, NEW mask \in Masks
  PROVE  /\ Told(queue, i, mask) \in Seq(Wds \X Masks)
         /\ Extends(Told(queue, i, mask), queue)
         /\ Tells(Told(queue, i, mask), i, mask)
<1>1. CASE WdsOf(i) = {}
  BY <1>1 DEF Told, Extends, Tells
<1>2. CASE WdsOf(i) # {}
  <2> DEFINE event == <<One(WdsOf(i)), mask>>
  <2>1. One(WdsOf(i)) \in WdsOf(i)
    BY <1>2, OneOfSet
  <2>2. event \in Wds \X Masks /\ event[1] \in WdsOf(i) /\ event[2] = mask
    BY <2>1 DEF WdsOf
  <2>3. Told(queue, i, mask) = With(queue, event)
    BY <1>2 DEF Told
  <2> HIDE DEF event
  <2> DEFINE t == With(queue, event)
  <2>4. t \in Seq(Wds \X Masks) /\ Extends(t, queue) /\ \E k \in DOMAIN t : t[k] = event
    BY <2>2, WithAdds
  <2> HIDE DEF t
  <2>5. \E k \in DOMAIN t : t[k][1] \in WdsOf(i) /\ t[k][2] = mask
    BY <2>2, <2>4
  <2>6. QED
    BY <2>3, <2>4, <2>5 DEF t, Tells
<1>3. QED
  BY <1>1, <1>2

LEMMA ExtendsTransitive ==
  ASSUME NEW a, NEW b, NEW c, Extends(b, a), Extends(c, b)
  PROVE  Extends(c, a)
BY DEF Extends

-----------------------------------------------------------------------------
(* The editors.                                                            *)

(* What an editor does: the file stays of its type, events are only added, *)
(* and what is done to a file that is watched is noticed.                  *)
Edited ==
  /\ /\ {path', away'} \subseteq Inodes \cup {None} /\ content' \in [Inodes -> Contents \cup Unread]
     /\ watch' \in [Wds -> Inodes \cup {None}] /\ unread' \in Seq(Wds \X Masks)
     /\ edits' \in 0 .. MaxEdits
  /\ /\ path' = None \/ path' # away'
     /\ \A w \in Wds : watch'[w] # None => watch'[w] \in {path', away'}
     /\ \A v, w \in Wds : watch'[v] = watch'[w] /\ watch'[v] # None => v = w
  /\ Extends(unread', unread)
  /\ Covered => /\ unread' # <<>> \/ Writing'
                /\ Covered' \/ Calls(unread)'
  /\ UNCHANGED <<batch, items, lapsed>>

LEMMA CoveredWds ==
  ASSUME WatchTypeOK, Watching, Covered
  PROVE  WdsOf(path) # {} /\ WdsOf(path) \subseteq items
BY DEF WatchTypeOK, Watching, Covered, WdsOf

(* An event of a watched file is one the daemon acts on.                   *)
LEMMA Noticed ==
  ASSUME WatchTypeOK, Watching, UNCHANGED items, NEW mask \in Masks,
         Tells(unread', path, mask)
  PROVE  Covered => unread' # <<>> /\ (mask # "CLOSE_WRITE" => Calls(unread)')
<1> SUFFICES ASSUME Covered
             PROVE  unread' # <<>> /\ (mask # "CLOSE_WRITE" => Calls(unread)')
  OBVIOUS
<1>1. PICK k \in DOMAIN unread' : unread'[k][1] \in items /\ unread'[k][2] = mask
  BY CoveredWds DEF Tells
<1>2. unread' # <<>>
  BY <1>1
<1>3. QED
  BY <1>1, <1>2 DEF Calls

LEMMA RemovedStep ==
  ASSUME WatchTypeOK, NEW i \in Inodes \cup {None}, Removed(i)
  PROVE  /\ watch' \in [Wds -> Inodes \cup {None}]
         /\ \A w \in Wds : watch'[w] = IF watch[w] = i THEN None ELSE watch[w]
         /\ unread' \in Seq(Wds \X Masks) /\ Extends(unread', unread)
         /\ Tells(unread', i, "IGNORED")
<1> DEFINE t == Told(unread, i, "DELETE_SELF")
<1>1. watch' = [w \in Wds |-> IF w \in WdsOf(i) THEN None ELSE watch[w]] /\ unread' = Told(t, i, "IGNORED")
  BY DEF Removed
<1>2. /\ watch' \in [Wds -> Inodes \cup {None}]
      /\ \A w \in Wds : watch'[w] = IF watch[w] = i THEN None ELSE watch[w]
  BY <1>1 DEF WatchTypeOK, WdsOf
<1>3. unread \in Seq(Wds \X Masks) /\ {"DELETE_SELF", "IGNORED"} \subseteq Masks
  BY DEF WatchTypeOK, Masks
<1>4. t \in Seq(Wds \X Masks) /\ Extends(t, unread)
  BY <1>3, ToldAdds
<1> HIDE DEF t
<1>5. /\ Told(t, i, "IGNORED") \in Seq(Wds \X Masks) /\ Extends(Told(t, i, "IGNORED"), t)
      /\ Tells(Told(t, i, "IGNORED"), i, "IGNORED")
  BY <1>3, <1>4, ToldAdds
<1>6. Extends(unread', unread)
  BY <1>1, <1>4, <1>5, ExtendsTransitive
<1>7. QED
  BY <1>1, <1>2, <1>5, <1>6

LEMMA EditCounted ==
  ASSUME WatchTypeOK, NEW kind, Edit(kind)
  PROVE  edits' \in 0 .. MaxEdits /\ UNCHANGED <<batch, items, lapsed>>
BY WatchAssumption DEF WatchTypeOK, Edit

LEMMA EditorsEdit ==
  ASSUME WatchTypeOK, Watching, Editors
  PROVE  Edited
<1> USE DEF Masks
<1>1. /\ path \in Inodes \cup {None} /\ away \in Inodes \cup {None}
      /\ content \in [Inodes -> Contents \cup Unread] /\ watch \in [Wds -> Inodes \cup {None}]
      /\ unread \in Seq(Wds \X Masks) /\ edits \in 0 .. MaxEdits /\ None \notin Inodes
      /\ {"partial", "empty"} \subseteq Contents \cup Unread
  BY WatchAssumption DEF WatchTypeOK, Unread
<1>2. /\ path = None \/ path # away
      /\ \A w \in Wds : watch[w] # None => watch[w] \in {path, away}
      /\ \A v, w \in Wds : watch[v] = watch[w] /\ watch[v] # None => v = w
  BY DEF Watching
<1>3. CASE BeginWrite
  <2>1. /\ path # None /\ content' = [content EXCEPT ![path] = "partial"]
        /\ UNCHANGED <<path, away, watch, unread>>
    BY <1>3 DEF BeginWrite
  <2>2. edits' \in 0 .. MaxEdits /\ UNCHANGED <<batch, items, lapsed>>
    BY <1>3, EditCounted DEF BeginWrite
  <2>3. content' \in [Inodes -> Contents \cup Unread] /\ Writing'
    BY <1>1, <2>1 DEF Writing
  <2>4. Covered => Covered'
    BY <2>1, <2>2 DEF Covered
  <2>5. Extends(unread', unread)
    BY <2>1 DEF Extends
  <2>6. QED
    BY <1>1, <1>2, <2>1, <2>2, <2>3, <2>4, <2>5 DEF Edited
<1>4. CASE EndWrite
  <2>1. PICK c \in Contents : /\ path # None /\ content' = [content EXCEPT ![path] = c]
                              /\ unread' = Told(unread, path, "CLOSE_WRITE")
                              /\ UNCHANGED <<path, away, watch, edits, batch, items, lapsed>>
    BY <1>4 DEF EndWrite, Writing
  <2>2. content' \in [Inodes -> Contents \cup Unread]
    BY <1>1, <2>1
  <2>3. unread' \in Seq(Wds \X Masks) /\ Extends(unread', unread)
    BY <1>1, <2>1, ToldAdds
  <2>4. Covered => Covered' /\ unread' # <<>>
    <3>1. Tells(unread', path, "CLOSE_WRITE")
      BY <1>1, <2>1, ToldAdds
    <3>2. QED
      BY <2>1, <3>1, Noticed DEF Covered
  <2>5. QED
    BY <1>1, <1>2, <2>1, <2>2, <2>3, <2>4 DEF Edited
<1>5. CASE Put
  <2>1. PICK c \in Contents :
          /\ FreeInodes # {} /\ path' = One(FreeInodes)
          /\ content' = [i \in Inodes |-> IF i = path' THEN c ELSE IF i = path THEN "empty" ELSE content[i]]
          /\ Removed(path) /\ UNCHANGED away
    BY <1>5 DEF Put
  <2>2. edits' \in 0 .. MaxEdits /\ UNCHANGED <<batch, items, lapsed>>
    BY <1>5, EditCounted DEF Put
  <2>3. path' \in Inodes \ {path, away}
    BY <2>1, OneOfSet DEF FreeInodes
  <2>4. content' \in [Inodes -> Contents \cup Unread]
    BY <1>1, <2>1
  <2>5. /\ watch' \in [Wds -> Inodes \cup {None}]
        /\ \A w \in Wds : watch'[w] = IF watch[w] = path THEN None ELSE watch[w]
        /\ unread' \in Seq(Wds \X Masks) /\ Extends(unread', unread)
        /\ Tells(unread', path, "IGNORED")
    BY <1>1, <2>1, RemovedStep
  <2>6. Covered => unread' # <<>> /\ Calls(unread)'
    BY <2>2, <2>5, Noticed
  <2>7. QED
    BY <1>1, <1>2, <2>1, <2>2, <2>3, <2>4, <2>5, <2>6 DEF Edited
<1>6. CASE Delete
  <2>1. /\ path # None /\ path' = None /\ Removed(path) /\ content' = [content EXCEPT ![path] = "empty"]
        /\ UNCHANGED away
    BY <1>6 DEF Delete
  <2>2. edits' \in 0 .. MaxEdits /\ UNCHANGED <<batch, items, lapsed>>
    BY <1>6, EditCounted DEF Delete
  <2>3. content' \in [Inodes -> Contents \cup Unread]
    BY <1>1, <2>1
  <2>4. /\ watch' \in [Wds -> Inodes \cup {None}]
        /\ \A w \in Wds : watch'[w] = IF watch[w] = path THEN None ELSE watch[w]
        /\ unread' \in Seq(Wds \X Masks) /\ Extends(unread', unread)
        /\ Tells(unread', path, "IGNORED")
    BY <1>1, <2>1, RemovedStep
  <2>5. Covered => unread' # <<>> /\ Calls(unread)'
    BY <2>2, <2>4, Noticed
  <2>6. QED
    BY <1>1, <1>2, <2>1, <2>2, <2>3, <2>4, <2>5 DEF Edited
<1>7. CASE MoveAway
  <2>1. /\ path # None /\ away = None /\ path' = None /\ away' = path
        /\ unread' = Told(unread, path, "MOVE_SELF") /\ UNCHANGED <<content, watch>>
    BY <1>7 DEF MoveAway
  <2>2. edits' \in 0 .. MaxEdits /\ UNCHANGED <<batch, items, lapsed>>
    BY <1>7, EditCounted DEF MoveAway
  <2>3. /\ unread' \in Seq(Wds \X Masks) /\ Extends(unread', unread)
        /\ Tells(unread', path, "MOVE_SELF")
    BY <1>1, <2>1, ToldAdds
  <2>4. Covered => unread' # <<>> /\ Calls(unread)'
    BY <2>2, <2>3, Noticed
  <2>5. QED
    BY <1>1, <1>2, <2>1, <2>2, <2>3, <2>4 DEF Edited
<1>8. CASE MoveBack
  <2>1. /\ away # None /\ path = None /\ path' = away /\ away' = None
        /\ unread' = Told(unread, away, "MOVE_SELF") /\ UNCHANGED <<content, watch>>
    BY <1>8 DEF MoveBack
  <2>2. edits' \in 0 .. MaxEdits /\ UNCHANGED <<batch, items, lapsed>>
    BY <1>8, EditCounted DEF MoveBack
  <2>3. unread' \in Seq(Wds \X Masks) /\ Extends(unread', unread)
    BY <1>1, <2>1, ToldAdds
  <2>4. ~Covered
    BY <2>1 DEF Covered
  <2>5. QED
    BY <1>1, <1>2, <2>1, <2>2, <2>3, <2>4 DEF Edited
<1>9. QED
  BY <1>3, <1>4, <1>5, <1>6, <1>7, <1>8 DEF Editors

LEMMA CallsStay ==
  ASSUME Extends(unread', unread), UNCHANGED items
  PROVE  (Calls(unread) => Calls(unread)') /\ (unread # <<>> /\ unread \in Seq(Wds \X Masks) => unread' # <<>>)
<1>1. Calls(unread) => Calls(unread)'
  BY DEF Calls, Extends
<1>2. ASSUME unread # <<>>, unread \in Seq(Wds \X Masks)
      PROVE  unread' # <<>>
  <2>1. 1 \in DOMAIN unread
    BY <1>2
  <2>2. 1 \in DOMAIN unread'
    BY <2>1 DEF Extends
  <2>3. QED
    BY <2>2
<1>3. QED
  BY <1>1, <1>2

LEMMA UsersFile ==
  ASSUME FileInv, Users
  PROVE  FileInv'
<1>1. UNCHANGED <<pc, app, loaded, faults, signalled, sigchld, forked, dead_pid, new_pid, old_pid>>
  BY DEF Users, others, childVars, pidVars
<1>2. Edited /\ WatchTypeOK
  BY EditorsEdit DEF FileInv, TypeOK, Users
<1>3. TypeOK'
  BY <1>1, <1>2 DEF FileInv, TypeOK, WatchTypeOK, Edited
<1>4. Watching'
  BY <1>1, <1>2 DEF FileInv, Watching, Edited
<1>5. /\ UNCHANGED <<batch, items, lapsed>> /\ unread \in Seq(Wds \X Masks)
      /\ Calls(unread) => Calls(unread)'
      /\ unread # <<>> => unread' # <<>>
      /\ Covered => Covered' \/ Calls(unread)'
      /\ Covered => unread' # <<>> \/ Writing'
  BY <1>2, CallsStay DEF Edited, WatchTypeOK
<1>6. Calls(batch)' <=> Calls(batch)
  BY <1>5 DEF Calls
<1>7. WatchRenewed'
  BY <1>5, <1>6 DEF FileInv, WatchRenewed
<1>8. LoadOwed'
  <2> SUFFICES ASSUME ~lapsed, pc \in {"assign", "check", "wait"}
               PROVE  unread' # <<>> \/ Writing'
    BY <1>1, <1>5 DEF LoadOwed
  <2>1. ~Calls(batch)
    BY DEF FileInv, Watching, Idle, Calls
  <2>2. Covered \/ Calls(unread)
    BY <2>1 DEF FileInv, WatchRenewed
  <2>3. Calls(unread) => unread # <<>>
    BY DEF Calls
  <2>4. QED
    BY <1>5, <2>2, <2>3
<1>9. Signals'
  BY <1>1 DEF FileInv, Signals, Alive
<1>10. QED
  BY <1>3, <1>4, <1>7, <1>8, <1>9 DEF FileInv

-----------------------------------------------------------------------------
(* WaitAndHandle.                                                          *)

(* While the daemon handles events, only the watch matters.                *)
LEMMA Handling ==
  ASSUME FileInv, WaitAndHandle, UNCHANGED others,
         WatchTypeOK', Watching', WatchRenewed', pc' \in {"events", "moved", "creat", "add"}
  PROVE  FileInv'
<1>1. UNCHANGED <<app, loaded, faults, signalled, sigchld, forked, dead_pid, new_pid, old_pid>>
  BY DEF others, childVars, pidVars
<1>2. TypeOK'
  BY <1>1 DEF FileInv, TypeOK
<1>3. LoadOwed'
  BY DEF LoadOwed
<1>4. pc # "fork"
  BY DEF WaitAndHandle, Wait, Skip, Access, Creat, AddWatch
<1>5. Signals'
  BY <1>1, <1>4 DEF FileInv, Signals, Alive
<1>6. QED
  BY <1>2, <1>3, <1>5 DEF FileInv

(* The first event is dropped: the daemon watches again, or need not.      *)
LEMMA EventDone ==
  ASSUME WatchTypeOK, batch # <<>>, batch' = Tail(batch)
  PROVE  /\ batch' \in Seq(Wds \X Masks) /\ Event = batch[1] /\ Event \in Wds \X Masks
         /\ \A k \in DOMAIN batch : k = 1 \/ (k - 1 \in DOMAIN batch' /\ batch'[k - 1] = batch[k])
<1>1. batch \in Seq(Wds \X Masks) /\ Len(batch) \in Nat \ {0} /\ DOMAIN batch = 1 .. Len(batch)
  BY DEF WatchTypeOK
<1>2. /\ batch' \in Seq(Wds \X Masks) /\ Len(batch') = Len(batch) - 1 /\ DOMAIN batch' = 1 .. Len(batch) - 1
      /\ \A k \in 1 .. Len(batch) - 1 : batch'[k] = batch[k + 1]
  BY <1>1
<1>3. Event = batch[1] /\ batch[1] \in Wds \X Masks
  BY <1>1 DEF Event
<1>4. QED
  BY <1>1, <1>2, <1>3

LEMMA WatchFile ==
  ASSUME FileInv, Watch
  PROVE  FileInv'
<1>1. WatchTypeOK /\ Watching /\ WatchRenewed /\ UNCHANGED others /\ WaitAndHandle
  BY DEF FileInv, TypeOK, Watch
<1>2. CASE Wait
  <2>1. /\ pc = "wait" /\ batch = <<>> /\ batch' = unread /\ unread' = <<>> /\ pc' = "events"
        /\ UNCHANGED <<path, away, content, watch, edits, items, lapsed>>
    BY <1>1, <1>2 DEF Wait, Watching, Idle
  <2>2. WatchTypeOK'
    BY <1>1, <2>1 DEF WatchTypeOK
  <2>3. Watching'
    BY <1>1, <2>1 DEF Watching, Idle
  <2>4. (Calls(batch)' <=> Calls(unread)) /\ ~Calls(batch) /\ (Covered' <=> Covered)
    BY <2>1 DEF Calls, Covered
  <2>5. WatchRenewed'
    BY <1>1, <2>1, <2>4 DEF WatchRenewed
  <2>6. QED
    BY <1>1, <2>1, <2>2, <2>3, <2>5, Handling
<1>3. CASE Skip
  <2>1. /\ pc = "events" /\ pc' = "events" /\ batch # <<>> /\ batch' = Tail(batch)
        /\ Event[1] \notin items \/ Event[2] = "CLOSE_WRITE"
        /\ UNCHANGED <<path, away, content, watch, unread, edits, items, lapsed>>
    BY <1>3 DEF Skip, kernel
  <2>2. /\ batch' \in Seq(Wds \X Masks) /\ Event = batch[1]
        /\ \A k \in DOMAIN batch : k = 1 \/ (k - 1 \in DOMAIN batch' /\ batch'[k - 1] = batch[k])
    BY <1>1, <2>1, EventDone
  <2>3. WatchTypeOK'
    BY <1>1, <2>1, <2>2 DEF WatchTypeOK
  <2>4. Watching'
    BY <1>1, <2>1 DEF Watching, Idle
  <2>5. (Calls(batch) => Calls(batch)') /\ (Calls(unread)' <=> Calls(unread)) /\ (Covered' <=> Covered)
    BY <2>1, <2>2 DEF Calls, Covered
  <2>6. WatchRenewed'
    BY <1>1, <2>1, <2>5 DEF WatchRenewed
  <2>7. QED
    BY <1>1, <2>1, <2>3, <2>4, <2>6, Handling
<1>4. CASE Access
  <2>1. /\ pc \in {"events", "moved"} /\ (pc = "events" => batch # <<>>)
        /\ pc' \in {"moved", "creat", "add"}
        /\ UNCHANGED <<path, away, content, watch, unread, edits, batch, items, lapsed>>
    BY <1>4 DEF Access, inotifyVars, kernel
  <2>2. WatchTypeOK' /\ Watching'
    BY <1>1, <2>1 DEF WatchTypeOK, Watching, Idle
  <2>3. WatchRenewed'
    BY <1>1, <2>1 DEF WatchRenewed, Covered, Calls
  <2>4. QED
    BY <1>1, <2>1, <2>2, <2>3, Handling
<1>5. CASE Creat
  <2>1. pc = "creat" /\ pc' = "add" /\ UNCHANGED <<away, watch, edits, batch, items, lapsed>>
    BY <1>5 DEF Creat
  <2>2. batch # <<>> /\ "CLOSE_WRITE" \in Masks /\ "empty" \in Unread /\ None \notin Inodes
    BY <1>1, <2>1, WatchAssumption DEF Watching, Masks, Unread
  <2>3. CASE path # None
    <3>1. /\ content' = [content EXCEPT ![path] = "empty"] /\ UNCHANGED path
          /\ unread' = Told(unread, path, "CLOSE_WRITE")
      BY <1>5, <2>3 DEF Creat
    <3>2. unread' \in Seq(Wds \X Masks) /\ Extends(unread', unread)
      BY <1>1, <2>2, <3>1, ToldAdds DEF WatchTypeOK
    <3>3. WatchTypeOK'
      BY <1>1, <2>1, <2>2, <3>1, <3>2 DEF WatchTypeOK
    <3>4. Watching'
      BY <1>1, <2>1, <2>2, <3>1 DEF Watching, Idle
    <3>5. (Calls(unread) => Calls(unread)') /\ (Calls(batch)' <=> Calls(batch)) /\ (Covered' <=> Covered)
      BY <2>1, <3>1, <3>2 DEF Calls, Covered, Extends
    <3>6. WatchRenewed'
      BY <1>1, <2>1, <3>5 DEF WatchRenewed
    <3>7. QED
      BY <1>1, <2>1, <3>3, <3>4, <3>6, Handling
  <2>4. CASE path = None
    <3>1. /\ path' = One(FreeInodes) /\ content' = [content EXCEPT ![path'] = "empty"] /\ UNCHANGED unread
      BY <1>5, <2>4 DEF Creat
    <3>2. PICK i \in Inodes : i # away
      BY WatchAssumption
    <3>3. i \in FreeInodes
      BY <1>1, <2>2, <2>4, <3>2 DEF FreeInodes, WdsOf, Watching
    <3>4. path' \in Inodes \ {away}
      BY <3>1, <3>3, OneOfSet DEF FreeInodes
    <3>5. WatchTypeOK'
      BY <1>1, <2>1, <2>2, <3>1, <3>4 DEF WatchTypeOK
    <3>6. Watching'
      BY <1>1, <2>1, <2>2, <2>4, <3>4 DEF Watching, Idle
    <3>7. (Calls(unread)' <=> Calls(unread)) /\ (Calls(batch)' <=> Calls(batch)) /\ ~Covered
      BY <2>1, <2>4, <3>1 DEF Calls, Covered
    <3>8. WatchRenewed'
      BY <1>1, <2>1, <3>7 DEF WatchRenewed
    <3>9. QED
      BY <1>1, <2>1, <3>5, <3>6, <3>8, Handling
  <2>5. QED
    BY <2>3, <2>4
<1>6. CASE AddWatch
  <2>1. /\ pc = "add" /\ pc' = "events" /\ batch' = Tail(batch) /\ batch # <<>>
        /\ UNCHANGED <<path, away, content, unread, edits>>
    BY <1>1, <1>6 DEF AddWatch, Watching
  <2>2. batch' \in Seq(Wds \X Masks)
    BY <1>1, <2>1, EventDone
  <2>3. CASE path = None \/ WdsOf(path) \cup FreeWds = {}
    <3>1. items' = items \ {Event[1]} /\ lapsed' = TRUE /\ UNCHANGED watch
      BY <1>6, <2>3 DEF AddWatch
    <3>2. WatchTypeOK'
      BY <1>1, <2>1, <2>2, <3>1 DEF WatchTypeOK
    <3>3. Watching' /\ WatchRenewed'
      BY <1>1, <2>1, <3>1 DEF Watching, WatchRenewed, Idle
    <3>4. QED
      BY <1>1, <2>1, <3>2, <3>3, Handling
  <2>4. CASE ~(path = None \/ WdsOf(path) \cup FreeWds = {})
    <3> DEFINE w == One(IF WdsOf(path) # {} THEN WdsOf(path) ELSE FreeWds)
    <3>1. /\ watch' = [watch EXCEPT ![w] = path] /\ items' = (items \cup {w}) \ {Event[1]}
          /\ lapsed' = (lapsed \/ w = Event[1])
      BY <1>6, <2>4 DEF AddWatch, Stored
    <3>2. IF WdsOf(path) # {} THEN w \in WdsOf(path) ELSE w \in FreeWds
      BY <2>4, OneOfSet
    <3> HIDE DEF w
    <3>3. path \in Inodes /\ None \notin Inodes /\ watch \in [Wds -> Inodes \cup {None}]
      BY <1>1, <2>4, WatchAssumption DEF WatchTypeOK
    <3>4. w \in Wds /\ (watch[w] = path \/ (watch[w] = None /\ \A v \in Wds : watch[v] # path))
      BY <2>4, <3>2 DEF WdsOf, FreeWds
    <3>5. /\ watch' \in [Wds -> Inodes \cup {None}]
          /\ \A v \in Wds : watch'[v] = IF v = w THEN path ELSE watch[v]
      BY <3>1, <3>3, <3>4
    <3>6. WatchTypeOK'
      BY <1>1, <2>1, <2>2, <3>1, <3>4, <3>5 DEF WatchTypeOK
    <3>7. Watching'
      <4>1. \A v \in Wds : watch'[v] # None => watch'[v] \in {path', away'}
        BY <1>1, <2>1, <3>5 DEF Watching
      <4>2. \A u, v \in Wds : watch'[u] = watch'[v] /\ watch'[u] # None => u = v
        BY <1>1, <3>4, <3>5 DEF Watching
      <4>3. QED
        BY <1>1, <2>1, <4>1, <4>2 DEF Watching, Idle
    <3>8. WatchRenewed'
      BY <2>1, <2>4, <3>1, <3>4, <3>5 DEF WatchRenewed, Covered
    <3>9. QED
      BY <1>1, <2>1, <3>6, <3>7, <3>8, Handling
  <2>5. QED
    BY <2>3, <2>4
<1>7. QED
  BY <1>1, <1>2, <1>3, <1>4, <1>5, <1>6 DEF WaitAndHandle

-----------------------------------------------------------------------------
(* The daemon and the apps, which leave the file alone.                    *)

LEMMA FileInit == Init => FileInv
<1> SUFFICES ASSUME Init
             PROVE  FileInv
  OBVIOUS
<1> DEFINE w == One(Wds)
<1>1. /\ path = One(Inodes) /\ away = None /\ content = [i \in Inodes |-> IF i = path THEN Shipped ELSE "empty"]
      /\ watch = [v \in Wds |-> IF v = w THEN path ELSE None] /\ items = {w}
      /\ unread = <<>> /\ edits = 0 /\ batch = <<>> /\ lapsed = FALSE /\ pc = "fork"
  BY DEF Init, WatchInit
<1>2. /\ path \in Inodes /\ w \in Wds /\ None \notin Inodes /\ Shipped \in Contents /\ "empty" \in Unread
      /\ MaxEdits \in Nat /\ MaxFaults \in Nat /\ path # None
  BY <1>1, OneOfSet, WatchAssumption, DaemonAssumption DEF Unread
<1> HIDE DEF w
<1>3. WatchTypeOK
  <2>1. content \in [Inodes -> Contents \cup Unread]
    BY <1>1, <1>2
  <2>2. watch \in [Wds -> Inodes \cup {None}]
    BY <1>1, <1>2
  <2>3. unread \in Seq(Wds \X Masks) /\ batch \in Seq(Wds \X Masks)
    BY <1>1
  <2>4. edits \in 0 .. MaxEdits
    BY <1>1, <1>2
  <2>5. lapsed \in BOOLEAN
    BY <1>1
  <2>6. QED
    BY <1>1, <1>2, <2>1, <2>2, <2>3, <2>4, <2>5 DEF WatchTypeOK
<1>4. TypeOK
  <2>1. app \in [Pids -> States]
    BY DEF Init, States
  <2>2. faults \in 0 .. MaxFaults
    BY <1>2 DEF Init
  <2>3. /\ loaded = "nothing" /\ signalled = {} /\ sigchld = FALSE
        /\ forked = 0 /\ dead_pid = 0 /\ new_pid = 0 /\ old_pid = 0
    BY DEF Init
  <2>4. QED
    BY <1>1, <1>3, <2>1, <2>2, <2>3 DEF TypeOK
<1>5. Watching
  BY <1>1, <1>2 DEF Watching, Idle
<1>6. WatchRenewed
  BY <1>1, <1>2 DEF WatchRenewed, Covered
<1>7. LoadOwed /\ Signals
  BY <1>1 DEF LoadOwed, Signals, Init
<1>8. QED
  BY <1>4, <1>5, <1>6, <1>7 DEF FileInv

(* A step that leaves the file and the daemon's place outside or inside    *)
(* WaitAndHandle.                                                          *)
LEMMA FileAlone ==
  ASSUME FileInv, UNCHANGED inotifyVars,
         (pc' \in Idle => batch = <<>>), (pc' \in {"moved", "creat", "add"} => pc' = pc)
  PROVE  /\ WatchTypeOK' /\ Watching' /\ WatchRenewed'
         /\ UNCHANGED <<path, content, unread, lapsed>> /\ (Writing' <=> Writing)
<1>1. UNCHANGED <<path, away, content, watch, unread, edits, batch, items, lapsed>>
  BY DEF inotifyVars, kernel
<1>2. WatchTypeOK'
  BY <1>1 DEF FileInv, TypeOK, WatchTypeOK
<1>3. Watching'
  BY <1>1 DEF FileInv, Watching
<1>4. WatchRenewed'
  BY <1>1 DEF FileInv, WatchRenewed, Covered, Calls
<1>5. QED
  BY <1>1, <1>2, <1>3, <1>4 DEF Writing

LEMMA DaemonFile ==
  ASSUME FileInv, KillOldApp \/ Fork \/ Assign \/ Check
  PROVE  FileInv'
<1>1. UNCHANGED inotifyVars /\ pc \in {"events", "fork", "assign", "check"} /\ pc' \in Idle /\ batch = <<>>
  BY DEF KillOldApp, Fork, Assign, Check, FileInv, Watching, Idle
<1>2. /\ WatchTypeOK' /\ Watching' /\ WatchRenewed'
      /\ UNCHANGED <<path, content, unread, lapsed>> /\ (Writing' <=> Writing)
  BY <1>1, FileAlone DEF Idle
<1>3. TypeOK /\ LoadOwed /\ Signals
  BY DEF FileInv
<1>4. CASE KillOldApp
  <2>1. /\ pc' = "fork" /\ UNCHANGED <<app, loaded, faults, sigchld, forked, dead_pid, new_pid, old_pid>>
        /\ signalled' = signalled \cup {p \in Pids : Alive(p) /\ old_pid \in {p, -1}}
    BY <1>4 DEF KillOldApp, Kill, childVars
  <2>2. TypeOK'
    BY <1>2, <1>3, <2>1 DEF TypeOK
  <2>3. LoadOwed' /\ Signals'
    BY <1>3, <2>1 DEF LoadOwed, Signals, Alive
  <2>4. QED
    BY <1>2, <2>2, <2>3 DEF FileInv
<1>5. CASE Fork
  <2>1. /\ pc' = "assign" /\ loaded' = "nothing"
        /\ UNCHANGED <<signalled, sigchld, dead_pid, new_pid, old_pid>>
    BY <1>5 DEF Fork
  <2>2. CASE Unused # {} /\ forked' = One(Unused) /\ app' = [app EXCEPT ![forked'] = "loading"] /\ UNCHANGED faults
    <3>1. forked' \in Unused
      BY <2>2, OneOfSet
    <3>2. forked' \in Pids /\ app[forked'] = "free"
      BY <3>1 DEF Unused
    <3>3. app' \in [Pids -> States] /\ app'[forked'] = "loading" /\ \A p \in Pids : app'[p] = app[p] \/ p = forked'
      BY <1>3, <2>2, <3>2 DEF TypeOK, States
    <3>4. TypeOK'
      BY <1>2, <1>3, <2>1, <2>2, <3>2, <3>3 DEF TypeOK
    <3>5. LoadOwed'
      BY <3>2, <3>3 DEF LoadOwed
    <3>6. Signals'
      BY <1>3, <2>1, <3>2, <3>3 DEF Signals, Alive, TypeOK
    <3>7. QED
      BY <1>2, <3>4, <3>5, <3>6 DEF FileInv
  <2>3. CASE faults < MaxFaults /\ faults' = faults + 1 /\ forked' = -1 /\ UNCHANGED app
    <3>1. faults' \in 0 .. MaxFaults
      BY <1>3, <2>3, DaemonAssumption DEF TypeOK
    <3>2. TypeOK'
      BY <1>2, <1>3, <2>1, <2>3, <3>1 DEF TypeOK
    <3>3. -1 \notin Pids
      BY DEF Pids
    <3>4. LoadOwed' /\ Signals'
      BY <1>3, <2>1, <2>3, <3>3 DEF LoadOwed, Signals, Alive, TypeOK
    <3>5. QED
      BY <1>2, <3>2, <3>4 DEF FileInv
  <2>4. QED
    BY <1>5, <2>2, <2>3 DEF Fork
<1>6. CASE Assign \/ Check
  <2>1. /\ UNCHANGED <<app, loaded, faults, signalled, sigchld, forked, dead_pid>>
        /\ pc \in {"assign", "check"} /\ pc' \in {"check", "wait"}
        /\ new_pid' \in {new_pid, forked} /\ old_pid' \in {old_pid, new_pid}
    BY <1>6 DEF Assign, Check, childVars
  <2>2. TypeOK'
    BY <1>2, <1>3, <2>1 DEF TypeOK
  <2>3. LoadOwed'
    BY <1>2, <1>3, <2>1 DEF LoadOwed, Current
  <2>4. Signals'
    BY <1>3, <2>1 DEF Signals, Alive
  <2>5. QED
    BY <1>2, <2>2, <2>3, <2>4 DEF FileInv
<1>7. QED
  BY <1>4, <1>5, <1>6

(* An app that ends is no longer to be ended.                              *)
LEMMA EndsFile ==
  ASSUME TypeOK, Signals, NEW p \in Pids, Ends(p), UNCHANGED <<pc, forked>>
  PROVE  /\ app' \in [Pids -> States] /\ signalled' \subseteq Pids /\ sigchld' \in BOOLEAN
         /\ Signals' /\ \A q \in Pids : q = p \/ app'[q] = app[q]
<1>1. /\ app' = [app EXCEPT ![p] = "zombie"] /\ signalled' = signalled \ {p} /\ sigchld' = TRUE
      /\ app \in [Pids -> States] /\ signalled \subseteq Pids
  BY DEF Ends, TypeOK
<1>2. app' \in [Pids -> States] /\ \A q \in Pids : q = p \/ app'[q] = app[q]
  BY <1>1 DEF States
<1>3. Signals'
  BY <1>1, <1>2 DEF Signals, Alive
<1>4. QED
  BY <1>1, <1>2, <1>3

LEMMA AppsFile ==
  ASSUME FileInv, NEW p \in Pids, Load(p) \/ Terminate(p) \/ Crash(p)
  PROVE  FileInv'
<1>1. UNCHANGED <<inotifyVars, pc, pidVars>> /\ UNCHANGED <<forked, dead_pid, new_pid, old_pid>>
  BY DEF Load, Terminate, Crash, pidVars
<1>2. /\ WatchTypeOK' /\ Watching' /\ WatchRenewed'
      /\ UNCHANGED <<path, content, unread, lapsed>> /\ (Writing' <=> Writing)
  BY <1>1, FileAlone DEF FileInv, Watching, Idle
<1>3. TypeOK /\ LoadOwed /\ Signals /\ WatchTypeOK
  BY DEF FileInv, TypeOK
<1>4. CASE Load(p)
  <2> DEFINE found == IF path = None THEN "empty" ELSE content[path]
  <2>1. /\ app[p] = "loading" /\ loaded' = IF p = forked THEN found ELSE loaded
        /\ UNCHANGED faults
    BY <1>4 DEF Load
  <2>2. found \in Contents \cup Unread
    BY <1>3 DEF WatchTypeOK, Unread
  <2>3. /\ app' \in [Pids -> States] /\ signalled' \subseteq Pids /\ sigchld' \in BOOLEAN
        /\ Signals' /\ \A q \in Pids : q = p \/ app'[q] = app[q]
    <3>1. CASE app' = [app EXCEPT ![p] = "running"] /\ UNCHANGED <<signalled, sigchld>>
      BY <1>1, <1>3, <2>1, <3>1 DEF TypeOK, States, Signals, Alive
    <3>2. CASE Ends(p)
      BY <1>1, <1>3, <3>2, EndsFile
    <3>3. QED
      BY <1>4, <3>1, <3>2 DEF Load
  <2>4. TypeOK'
    BY <1>1, <1>2, <1>3, <2>1, <2>2, <2>3 DEF TypeOK
  <2>5. p = forked => Current'
    BY <1>2, <2>1 DEF Current
  <2>6. p # forked => loaded' = loaded
    BY <2>1
  <2>7. LoadOwed'
    BY <1>1, <1>2, <1>3, <2>3, <2>5, <2>6 DEF LoadOwed, Current
  <2>8. QED
    BY <1>2, <2>3, <2>4, <2>7 DEF FileInv
<1>5. CASE Terminate(p) \/ Crash(p)
  <2>1. /\ Ends(p) /\ loaded' = loaded /\ faults' \in 0 .. MaxFaults
        /\ p \in signalled \/ app[p] = "running"
    BY <1>3, <1>5, DaemonAssumption DEF Terminate, Crash, TypeOK
  <2>2. /\ app' \in [Pids -> States] /\ signalled' \subseteq Pids /\ sigchld' \in BOOLEAN
        /\ Signals' /\ \A q \in Pids : q = p \/ app'[q] = app[q]
    BY <1>1, <1>3, <2>1, EndsFile
  <2>3. TypeOK'
    BY <1>1, <1>2, <1>3, <2>1, <2>2 DEF TypeOK
  <2>4. pc # "fork" => ~(p = forked /\ app[p] = "loading")
    BY <1>3, <2>1 DEF Signals
  <2>5. LoadOwed'
    BY <1>1, <1>2, <1>3, <2>1, <2>2, <2>4 DEF LoadOwed, Current
  <2>6. QED
    BY <1>2, <2>2, <2>3, <2>5 DEF FileInv
<1>6. QED
  BY <1>4, <1>5

LEMMA HandlerFile ==
  ASSUME FileInv, Handler
  PROVE  FileInv'
<1>1. PICK p \in Pids :
        /\ app[p] = "zombie" /\ app' = [app EXCEPT ![p] = "free"] /\ sigchld' = FALSE
        /\ dead_pid' = IF p \in {new_pid, old_pid} THEN p ELSE dead_pid
        /\ UNCHANGED <<inotifyVars, pc, loaded, signalled, forked, new_pid, old_pid, faults>>
  BY DEF Handler, Noted
<1>2. /\ WatchTypeOK' /\ Watching' /\ WatchRenewed'
      /\ UNCHANGED <<path, content, unread, lapsed>> /\ (Writing' <=> Writing)
  BY <1>1, FileAlone DEF FileInv, Watching, Idle
<1>3. TypeOK /\ LoadOwed /\ Signals
  BY DEF FileInv
<1>4. app' \in [Pids -> States] /\ \A q \in Pids : q = p \/ app'[q] = app[q]
  BY <1>1, <1>3 DEF TypeOK, States
<1>5. TypeOK'
  BY <1>1, <1>2, <1>3, <1>4 DEF TypeOK
<1>6. LoadOwed'
  BY <1>1, <1>2, <1>3, <1>4 DEF LoadOwed, Current
<1>7. Signals'
  BY <1>1, <1>3, <1>4 DEF Signals, Alive, TypeOK
<1>8. QED
  BY <1>2, <1>5, <1>6, <1>7 DEF FileInv

LEMMA FileStep == FileInv /\ [Next]_vars => FileInv'
<1> SUFFICES ASSUME FileInv, [Next]_vars
             PROVE  FileInv'
  OBVIOUS
<1>1. CASE Users
  BY <1>1, UsersFile
<1>2. CASE Watch
  BY <1>2, WatchFile
<1>3. CASE KillOldApp \/ Fork \/ Assign \/ Check
  BY <1>3, DaemonFile
<1>4. CASE Handler
  BY <1>4, HandlerFile
<1>5. ASSUME NEW p \in Pids, App(p) \/ Crash(p)
      PROVE  FileInv'
  BY <1>5, AppsFile DEF App
<1>6. CASE UNCHANGED vars
  <2>1. /\ UNCHANGED <<inotifyVars, pc, app, loaded, faults, signalled, sigchld, forked, dead_pid, new_pid, old_pid>>
    BY <1>6 DEF vars, childVars, pidVars
  <2>2. /\ WatchTypeOK' /\ Watching' /\ WatchRenewed'
        /\ UNCHANGED <<path, content, unread, lapsed>> /\ (Writing' <=> Writing)
    BY <2>1, FileAlone DEF FileInv, Watching, Idle
  <2>3. TypeOK' /\ Signals'
    BY <2>1, <2>2 DEF FileInv, TypeOK, Signals, Alive
  <2>4. LoadOwed'
    BY <2>1, <2>2 DEF FileInv, LoadOwed, Current
  <2>5. QED
    BY <2>2, <2>3, <2>4 DEF FileInv
<1>7. QED
  BY <1>1, <1>2, <1>3, <1>4, <1>5, <1>6 DEF Next, Main

(* No variable of the file, its watch or the daemon leaves its type:       *)
(* creat() and inotify_add_watch() always find what they need, or fail as  *)
(* the code lets them, and no signal is sent but to an app.                *)
THEOREM TypeCorrect == SafeSpec => []TypeOK
<1>1. FileInv => TypeOK
  BY DEF FileInv
<1>2. QED
  BY <1>1, FileInit, FileStep, PTL DEF SafeSpec

(* WaitAndHandle, Daemon, LoadConfig: however the file is written,         *)
(* replaced, deleted or moved, and whichever step the daemon is at, the    *)
(* last app has loaded what the file says once all is quiet, unless the    *)
(* watch was lost.                                                         *)
THEOREM ChangesAreLoaded == SafeSpec => []ChangesLoaded
<1>1. FileInv => ChangesLoaded
  BY DEF FileInv, LoadOwed, ChangesLoaded, Quiet
<1>2. QED
  BY <1>1, FileInit, FileStep, PTL DEF SafeSpec
=============================================================================
