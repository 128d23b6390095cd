------------------------------- MODULE Inotify -------------------------------
(***************************************************************************)
(* utils/inotify.cpp with one file to watch, as the daemon uses it for the *)
(* configuration file: the watch follows the path while editors write the  *)
(* file in place, put another in its place, delete it, or move it away and *)
(* back.                                                                   *)
(*                                                                         *)
(* A watch belongs to an inode and has a descriptor (wd).  The kernel      *)
(* drops it with the inode; adding it to an inode that has one returns the *)
(* same descriptor.  All entries of items_ are copies of the one WatchItem *)
(* with a null notifier, so that items is the set of their keys.           *)
(***************************************************************************)
EXTENDS Integers, Sequences, FiniteSets

CONSTANTS
  Inodes, Wds,   \* as many as the bound on operations needs
  Contents,      \* what the editors write
  Shipped,       \* what the file says at first
  Editing,       \* the kinds of operation of this instance
  MaxEdits       \* bound: operations on the file

None      == 0
EditKinds == {"write", "put", "delete", "away", "back"}
Unread    == {"partial", "empty"}   \* half written; recreated by the program
Masks     == {"CLOSE_WRITE", "DELETE_SELF", "MOVE_SELF", "IGNORED"}

ASSUME WatchAssumption ==
  /\ Inodes \subseteq Nat \ {None} /\ \E i, j \in Inodes : i # j
  /\ Wds \subseteq Nat \ {None} /\ Wds # {}
  /\ Shipped \in Contents /\ Contents \cap Unread = {} /\ Editing \subseteq EditKinds /\ MaxEdits \in Nat

VARIABLES
  path,      \* the inode at the path, or None
  away,      \* the inode moved elsewhere, or None
  content,   \* of every inode
  watch,     \* the kernel's watches: wd to inode, or None
  unread,    \* the events to read, in order
  edits,     \* the number of operations so far
  pc,        \* where the main thread is
  batch,     \* the events that were read and are not yet handled
  items,     \* the keys of items_
  lapsed     \* history: a file was put in place while it was not watched for

kernel     == <<path, away, content, watch, unread>>
inotifyVars == <<kernel, edits, batch, items, lapsed>>

WatchTypeOK ==
  /\ {path, away} \subseteq Inodes \cup {None} /\ content \in [Inodes -> Contents \cup Unread]
  /\ watch \in [Wds -> Inodes \cup {None}] /\ items \subseteq Wds
  /\ unread \in Seq(Wds \X Masks) /\ batch \in Seq(Wds \X Masks)
  /\ edits \in 0 .. MaxEdits /\ lapsed \in BOOLEAN

One(set) == CHOOSE x \in set : TRUE   \* inodes and descriptors are alike

(* Inotify::Add has been called from Daemon.                               *)
WatchInit ==
  /\ path = One(Inodes) /\ away = None
  /\ content = [i \in Inodes |-> IF i = path THEN Shipped ELSE "empty"]
  /\ watch = [w \in Wds |-> IF w = One(Wds) THEN path ELSE None] /\ items = {One(Wds)}
  /\ unread = <<>> /\ edits = 0 /\ batch = <<>> /\ lapsed = FALSE

-----------------------------------------------------------------------------
(* The kernel.                                                             *)
WdsOf(i) == {w \in Wds : watch[w] = i /\ i # None}
Queued(w) == \E s \in {unread, batch} : \E k \in 1 .. Len(s) : s[k][1] = w

FreeInodes == {i \in Inodes \ {path, away} : WdsOf(i) = {}}
FreeWds    == {w \in Wds : watch[w] = None /\ w \notin items /\ ~Queued(w)}

(* An event like the last unread one is merged with it.                    *)
With(queue, event) ==
  IF queue # <<>> /\ queue[Len(queue)] = event THEN queue ELSE Append(queue, event)

Told(queue, i, mask) ==
  IF WdsOf(i) = {} THEN queue ELSE With(queue, <<One(WdsOf(i)), mask>>)

(* i is no longer at the path, nor anywhere else.                          *)
Removed(i) ==
  /\ watch' = [w \in Wds |-> IF w \in WdsOf(i) THEN None ELSE watch[w]]
  /\ unread' = Told(Told(unread, i, "DELETE_SELF"), i, "IGNORED")

-----------------------------------------------------------------------------
(* The editors.                                                            *)
Writing == path # None /\ content[path] = "partial"

Edit(kind) == /\ kind \in Editing /\ edits < MaxEdits /\ edits' = edits + 1
              /\ UNCHANGED <<batch, items, lapsed>>

BeginWrite == /\ Edit("write") /\ path # None /\ ~Writing
              /\ content' = [content EXCEPT ![path] = "partial"]
              /\ UNCHANGED <<path, away, watch, unread>>

EndWrite == \E c \in Contents :
  /\ Writing
  /\ content' = [content EXCEPT ![path] = c]
  /\ unread' = Told(unread, path, "CLOSE_WRITE")
  /\ UNCHANGED <<path, away, watch, edits, batch, items, lapsed>>

(* Another file is renamed to the path, as most editors save.              *)
Put == \E c \in Contents :
  /\ Edit("put") /\ ~Writing /\ FreeInodes # {}
  /\ path' = One(FreeInodes)
  /\ content' = [i \in Inodes |-> IF i = path' THEN c ELSE IF i = path THEN "empty" ELSE content[i]]
  /\ Removed(path) /\ UNCHANGED away

Delete == /\ Edit("delete") /\ path # None /\ ~Writing
          /\ path' = None /\ Removed(path) /\ content' = [content EXCEPT ![path] = "empty"]
          /\ UNCHANGED away

MoveAway == /\ Edit("away") /\ path # None /\ away = None /\ ~Writing
            /\ path' = None /\ away' = path /\ unread' = Told(unread, path, "MOVE_SELF")
            /\ UNCHANGED <<content, watch>>

MoveBack == /\ Edit("back") /\ away # None /\ path = None
            /\ path' = away /\ away' = None /\ unread' = Told(unread, away, "MOVE_SELF")
            /\ UNCHANGED <<content, watch>>

-----------------------------------------------------------------------------
(* WaitAndHandle.                                                          *)
Wait == /\ pc = "wait" /\ unread # <<>>
        /\ batch' = unread /\ unread' = <<>> /\ pc' = "events"
        /\ UNCHANGED <<path, away, content, watch, edits, items, lapsed>>

Event == Head(batch)

(* An event of an unknown descriptor, or one the watch survives.           *)
Skip == /\ pc = "events" /\ batch # <<>>
        /\ Event[1] \notin items \/ Event[2] = "CLOSE_WRITE"
        /\ batch' = Tail(batch)
        /\ UNCHANGED <<kernel, edits, pc, items, lapsed>>

(* access(), and once more half a second later.                            *)
Access == /\ \/ pc = "events" /\ batch # <<>> /\ Event[1] \in items /\ Event[2] # "CLOSE_WRITE"
             \/ pc = "moved"
          /\ pc' = IF path # None THEN "add" ELSE IF pc = "events" THEN "moved" ELSE "creat"
          /\ UNCHANGED inotifyVars

(* creat() empties the file if there is one by now.                        *)
Creat == /\ pc = "creat" /\ pc' = "add"
         /\ IF path # None
            THEN /\ content' = [content EXCEPT ![path] = "empty"] /\ UNCHANGED path
                 /\ unread' = Told(unread, path, "CLOSE_WRITE")
            ELSE /\ path' = One(FreeInodes) /\ content' = [content EXCEPT ![path'] = "empty"]
                 /\ UNCHANGED unread
         /\ UNCHANGED <<away, watch, edits, batch, items, lapsed>>

(* A defect for ChangesLoaded to find: the new descriptor is not entered.  *)
StoredNothing(w) == items' = items \ {Event[1]}

(* The descriptor of the event goes, also when it is the one just stored.  *)
(* A call that fails, for want of the file or of one more watch, stores    *)
(* -1, which no event has.                                                 *)
Stored(w) == items' = (items \cup {w}) \ {Event[1]}

AddWatch == /\ pc = "add" /\ pc' = "events" /\ batch' = Tail(batch)
            /\ IF path = None \/ WdsOf(path) \cup FreeWds = {}
               THEN items' = items \ {Event[1]} /\ lapsed' = TRUE /\ UNCHANGED watch
               ELSE LET w == One(IF WdsOf(path) # {} THEN WdsOf(path) ELSE FreeWds)
                    IN  /\ watch' = [watch EXCEPT ![w] = path]
                        /\ Stored(w) /\ lapsed' = (lapsed \/ w = Event[1])
            /\ UNCHANGED <<path, away, content, unread, edits>>

-----------------------------------------------------------------------------
Editors       == BeginWrite \/ EndWrite \/ Put \/ Delete \/ MoveAway \/ MoveBack
WaitAndHandle == Wait \/ Skip \/ Access \/ Creat \/ AddWatch
=============================================================================
