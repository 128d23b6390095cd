----------------------------- MODULE WorkMailbox ----------------------------
(***************************************************************************)
(* What HeavyWorker promises the modules that use it: one mailbox per      *)
(* handle, holding the last work submitted and not yet started; a single   *)
(* background thread starts each of them once.  A submission replaces what *)
(* the box holds, and a work already started is out of its reach.          *)
(***************************************************************************)
CONSTANTS Handles,   \* the mailboxes
          Works,     \* what can be submitted
          NoWork     \* an empty mailbox, or an idle thread

VARIABLES box,       \* [Handles -> Works \cup {NoWork}]
          running    \* the work being executed, or NoWork

vars == <<box, running>>

Init ==
  /\ box = [h \in Handles |-> NoWork]
  /\ running = NoWork

Submit(h, w) ==
  /\ box' = [box EXCEPT ![h] = w]
  /\ UNCHANGED running

Start(h) ==
  /\ running = NoWork
  /\ box[h] # NoWork
  /\ running' = box[h]
  /\ box' = [box EXCEPT ![h] = NoWork]

Finish ==
  /\ running # NoWork
  /\ running' = NoWork
  /\ UNCHANGED box

Next ==
  \/ \E h \in Handles, w \in Works \cup {NoWork} : Submit(h, w)
  \/ \E h \in Handles : Start(h)
  \/ Finish

Spec == Init /\ [][Next]_vars

(* No box is passed over for ever, however often it or the others are      *)
(* refilled: what it holds is started, or withdrawn.                       *)
Served == \A h \in Handles : (box[h] # NoWork) ~> (box[h] = NoWork)
=============================================================================
