------------------------ MODULE InputListener_proofs ------------------------
(***************************************************************************)
(* InputListener for any devices, descriptors and bounds, as long as there *)
(* is a descriptor for each device: types, no open device missing from the *)
(* poll table, every change of the directory honoured, and, of the devices *)
(* that stay, what is published is what is held down once all is read.     *)
(***************************************************************************)
EXTENDS InputListener, FiniteSetTheorems, SequenceTheorems, WellFoundedInduction, TLAPS

(* A device is opened at most once.                                        *)
OneReader == \A f, g \in DOMAIN readers : readers[f].path = readers[g].path => f = g

(* The descriptor Parse reads from stays open while it does.               *)
ReadingOpen == batch # <<>> => pc = "handle" /\ reading \in DOMAIN readers

(* The rest of the program leaves descriptors for the devices.             *)
RoomLeft == Cardinality(foreign) + Cardinality(Paths) <= Cardinality(Fds)

(* The part of the inductive invariant every theorem rests on.             *)
Base == TypeOK /\ OneReader /\ ReadingOpen /\ RoomLeft

NoticeType == [path : Paths, flag : {"CREATE", "DELETE"}]

ReaderType == [path : Paths, alive : BOOLEAN, pressed : BOOLEAN,
               useEvtKey : BOOLEAN, queue : Seq(ReportKinds)]

-----------------------------------------------------------------------------
(* Descriptors.                                                            *)

LEMMA LeastIsLeast ==
  ASSUME NEW S, S \subseteq Nat, S # {}
  PROVE  LeastOf(S) \in S /\ \A y \in S : LeastOf(S) <= y
<1>1. PICK x \in S : \A y \in S : <<y, x>> \notin OpToRel(<, Nat)
  BY NatLessThanWellFounded, WFMin
<1>2. OpToRel(<, Nat) = {ss \in Nat \X Nat : ss[1] < ss[2]}
  BY DEF OpToRel
<1>3. \A y \in S : ~(y < x)
  BY <1>1, <1>2
<1>4. \A y \in S : x <= y
  BY <1>3
<1>5. QED
  BY <1>4 DEF LeastOf

(* While there are fewer descriptors in use elsewhere than leaves one for  *)
(* each of the devices in P, and only those are open, open() finds one.    *)
LEMMA DescriptorLeft ==
  ASSUME Base, NEW P \in SUBSET Paths, \A f \in DOMAIN readers : readers[f].path \in P,
         Cardinality(foreign) + Cardinality(P) < Cardinality(Fds)
  PROVE  LeastOf(Free) \in Free
<1> DEFINE R == DOMAIN readers
           g == [f \in R |-> readers[f].path]
<1>1. g \in Injection(R, P)
  BY DEF Base, TypeOK, OneReader, Injection, IsInjective
<1>2. IsFiniteSet(P) /\ Cardinality(P) \in Nat
  BY FdsAssumption, FS_Subset, FS_CardinalityType
<1>3. IsFiniteSet(R) /\ Cardinality(R) <= Cardinality(P) /\ Cardinality(R) \in Nat
  BY <1>1, <1>2, FS_Injection, FS_CardinalityType
<1>4. IsFiniteSet(foreign) /\ Cardinality(foreign) \in Nat /\ Cardinality(Fds) \in Nat
  BY FdsAssumption, FS_Subset, FS_CardinalityType DEF Base, TypeOK
<1>5. Free # {}
  <2>1. SUFFICES ASSUME Free = {} PROVE FALSE
    OBVIOUS
  <2>2. R \cup foreign = Fds /\ R \cap foreign = {}
    BY <2>1 DEF Free, Base, TypeOK
  <2>3. Cardinality(R \cup foreign) = Cardinality(R) + Cardinality(foreign) - Cardinality(R \cap foreign)
    BY <1>3, <1>4, FS_Union
  <2>4. Cardinality({}) = 0
    BY FS_EmptySet
  <2>5. Cardinality(R \cup foreign) = Cardinality(Fds) /\ Cardinality(R \cap foreign) = 0
    BY <2>2, <2>4
  <2>6. QED
    BY <1>2, <1>3, <1>4, <2>3, <2>5
<1>6. Free \subseteq Nat
  BY FdsAssumption DEF Free
<1>7. QED
  BY <1>5, <1>6, LeastIsLeast

(* open() finds a descriptor for a device that has none: there are fewer   *)
(* readers than devices.                                                   *)
LEMMA DescriptorFree ==
  ASSUME Base, NEW p \in Paths, ReadersOf(p) = {}
  PROVE  LeastOf(Free) \in Free
<1>1. /\ Cardinality(Paths \ {p}) = Cardinality(Paths) - 1
      /\ Cardinality(Paths) \in Nat /\ Cardinality(Fds) \in Nat /\ Cardinality(foreign) \in Nat
  BY FdsAssumption, FS_RemoveElement, FS_Subset, FS_CardinalityType DEF Base, TypeOK
<1>2. Cardinality(foreign) + Cardinality(Paths \ {p}) < Cardinality(Fds)
  BY <1>1 DEF Base, RoomLeft
<1>3. \A f \in DOMAIN readers : readers[f].path \in Paths \ {p}
  BY DEF Base, TypeOK, ReadersOf
<1>4. QED
  BY <1>2, <1>3, DescriptorLeft

LEMMA NextIsReady ==
  ASSUME TypeOK, ready # {}
  PROVE  NextSlot \in ready /\ NextSlot \in DOMAIN slots
<1>1. ready \subseteq Nat
  BY DEF TypeOK
<1>2. QED
  BY <1>1, LeastIsLeast DEF NextSlot, TypeOK

-----------------------------------------------------------------------------
(* The poll table.                                                         *)

LEMMA AddPollAdds ==
  ASSUME TypeOK, NEW fd \in Fds, AddPoll(fd)
  PROVE  /\ slots' \in Seq(Fds \cup {PipeFd, Unused})
         /\ DOMAIN slots \subseteq DOMAIN slots'
         /\ \A i \in DOMAIN slots : slots'[i] = slots[i] \/ slots[i] = Unused
         /\ \E i \in DOMAIN slots' : slots'[i] = fd
<1> DEFINE Entries == Fds \cup {PipeFd, Unused}
<1>0. slots \in Seq(Entries)
  BY DEF TypeOK
<1>1. CASE \E i \in DOMAIN slots : slots[i] = Unused
  <2>1. slots' = [i \in DOMAIN slots |-> IF slots[i] = Unused THEN fd ELSE slots[i]]
    BY <1>1 DEF AddPoll
  <2>2. DOMAIN slots = 1 .. Len(slots) /\ Len(slots) \in Nat
    BY DEF TypeOK
  <2>3. slots' \in Seq(Entries)
    BY <1>0, <2>1, <2>2
  <2>4. QED
    BY <1>1, <2>1, <2>3
<1>2. CASE ~\E i \in DOMAIN slots : slots[i] = Unused
  <2>1. slots' = Append(slots, fd)
    BY <1>2 DEF AddPoll
  <2>2. fd \in Entries /\ Len(slots) \in Nat /\ DOMAIN slots = 1 .. Len(slots)
    BY <1>0
  <2>3. slots' \in Seq(Entries) /\ DOMAIN slots' = 1 .. Len(slots) + 1
    BY <1>0, <2>1, <2>2
  <2>4. slots'[Len(slots) + 1] = fd /\ \A i \in 1 .. Len(slots) : slots'[i] = slots[i]
    BY <1>0, <2>1, <2>2
  <2>5. QED
    BY <2>2, <2>3, <2>4
<1>3. QED
  BY <1>1, <1>2

LEMMA RemovePollFrees ==
  ASSUME TypeOK, NEW fd \in Fds, RemovePoll(fd)
  PROVE  /\ slots' \in Seq(Fds \cup {PipeFd, Unused})
         /\ DOMAIN slots' = DOMAIN slots
         /\ \A i \in DOMAIN slots : slots'[i] = slots[i] \/ slots[i] = fd
<1> DEFINE holding == {i \in DOMAIN slots : slots[i] = fd}
           Entries == Fds \cup {PipeFd, Unused}
<1>0. slots \in Seq(Entries)
  BY DEF TypeOK
<1>1. CASE holding = {}
  BY <1>1 DEF RemovePoll, TypeOK
<1>2. CASE holding # {}
  <2>1. holding \subseteq Nat
    BY DEF TypeOK
  <2>2. LeastOf(holding) \in holding
    BY <1>2, <2>1, LeastIsLeast
  <2>3. slots' = [slots EXCEPT ![LeastOf(holding)] = Unused]
    BY <1>2 DEF RemovePoll
  <2>4. LeastOf(holding) \in 1 .. Len(slots) /\ Unused \in Entries
    BY <1>0, <2>2
  <2>5. /\ slots' \in Seq(Entries) /\ Len(slots') = Len(slots)
        /\ \A i \in 1 .. Len(slots) : slots'[i] = IF i = LeastOf(holding) THEN Unused ELSE slots[i]
    BY <1>0, <2>3, <2>4, ExceptSeq
  <2>6. DOMAIN slots = 1 .. Len(slots) /\ DOMAIN slots' = 1 .. Len(slots)
    BY <1>0, <2>5
  <2>7. QED
    BY <2>2, <2>5, <2>6
<1>3. QED
  BY <1>1, <1>2

-----------------------------------------------------------------------------
(* What every step keeps.                                                  *)

LEMMA BaseInit == Init => Base
<1> SUFFICES ASSUME Init PROVE Base
  OBVIOUS
<1>1. Cardinality({}) = 0 /\ Cardinality(Paths) \in Nat /\ Cardinality(Fds) \in Nat
  BY FdsAssumption, FS_EmptySet, FS_CardinalityType
<1>2. RoomLeft
  BY <1>1, FdsAssumption DEF Init, RoomLeft
<1>3. DOMAIN readers = {}
  BY DEF Init
<1>4. slots \in Seq(Fds \cup {PipeFd, Unused})
  BY DEF Init
<1>5. OneReader /\ ReadingOpen
  BY <1>3 DEF OneReader, ReadingOpen, Init
<1>6. TypeOK
  <2>1. /\ plugged \in [Paths -> BOOLEAN] /\ held \in [Paths -> 0..MaxHeld]
        /\ prevBtn \in 0..IntMax
    BY BoundsAssumption DEF Init
  <2>2. notices \in Seq([path : Paths, flag : {"CREATE", "DELETE"}]) /\ batch \in Seq(ReportKinds)
    BY DEF Init
  <2>3. foreign = {} /\ DOMAIN readers \subseteq Fds \ foreign
    BY <1>3 DEF Init
  <2>4. todo \subseteq Paths /\ ready \subseteq DOMAIN slots /\ reading \in Fds \cup {PipeFd}
    BY DEF Init
  <2>5. QED
    BY <1>3, <1>4, <2>1, <2>2, <2>3, <2>4 DEF Init, TypeOK
<1>7. QED
  BY <1>2, <1>5, <1>6 DEF Base

(* A report of a device that has room for it.                              *)
LEMMA ReportKeepsBase ==
  ASSUME Base, NEW p \in Paths, NEW k \in ReportKinds, NEW single \in BOOLEAN,
         Report(p, k, single), held' \in [Paths -> 0..MaxHeld]
  PROVE  Base'
<1>1. DOMAIN readers' = DOMAIN readers
  BY DEF Report
<1>2. \A f \in DOMAIN readers : /\ readers'[f] \in ReaderType
                                /\ readers'[f].path = readers[f].path
  <2>1. TAKE f \in DOMAIN readers
  <2>2. readers[f] \in ReaderType
    BY DEF Base, TypeOK, ReaderType
  <2>3. readers[f].queue \in Seq(ReportKinds)
    BY <2>2 DEF ReaderType
  <2>4. Append(readers[f].queue, k) \in Seq(ReportKinds)
    BY <2>3
  <2>5. [readers[f] EXCEPT !.queue = Append(@, k)] \in ReaderType
    BY <2>2, <2>4 DEF ReaderType
  <2>6. QED
    BY <2>2, <2>5 DEF Report, ReaderType
<1>3. OneReader' /\ ReadingOpen' /\ RoomLeft'
  BY <1>1, <1>2 DEF Base, OneReader, ReadingOpen, RoomLeft, Report, parsing
<1>4. TypeOK'
  <2>1. \A f \in DOMAIN readers' : readers'[f] \in ReaderType
    BY <1>1, <1>2
  <2>2. unheard' \subseteq Paths
    BY DEF Base, TypeOK, Report
  <2>3. QED
    BY <1>1, <2>1, <2>2 DEF Base, TypeOK, ReaderType, Report, pending, touch, button, parsing
<1>5. QED
  BY <1>3, <1>4 DEF Base

LEMMA HandleTypes ==
  ASSUME TypeOK, NEW p \in Paths, NEW b \in BOOLEAN, NEW e \in BOOLEAN, Handle(p, b, e)
  PROVE  /\ prevTouch' \in BOOLEAN /\ swiped' \in BOOLEAN /\ fromEdge' \in BOOLEAN
         /\ inGesture' \in BOOLEAN /\ prevBtn' \in 0..IntMax /\ btnPublished' \in BOOLEAN
<1>1. CASE HandleTouchInput(b, e)
  BY <1>1 DEF HandleTouchInput, TypeOK, button
<1>2. CASE HandleBtnInput(b)
  <2>1. Count(b) \in 0..IntMax
    BY BoundsAssumption DEF Count, TypeOK
  <2>2. btnPublished' = (Count(b) > 0) \/ btnPublished' = btnPublished
    BY <1>2, Zenon DEF HandleBtnInput
  <2>3. btnPublished' \in BOOLEAN
    <3>1. (Count(b) > 0) \in BOOLEAN
      BY <2>1
    <3>2. btnPublished \in BOOLEAN
      BY DEF TypeOK
    <3>3. QED
      BY <2>2, <3>1, <3>2, Zenon
  <2>4. /\ prevBtn' = Count(b)
        /\ UNCHANGED <<prevTouch, swiped, fromEdge, inGesture>>
    BY <1>2 DEF HandleBtnInput, touch
  <2>5. QED
    BY <2>1, <2>3, <2>4 DEF TypeOK
<1>3. QED
  BY <1>1, <1>2 DEF Handle

LEMMA AddReaderKeepsBase ==
  ASSUME Base, NEW p \in Paths, AddReader(p)
  PROVE  Base'
<1>1. todo' \subseteq Paths
  BY DEF AddReader, Base, TypeOK
<1>2. CASE UNCHANGED <<readers, slots>>
  BY <1>1, <1>2 DEF AddReader, Base, TypeOK, OneReader, ReadingOpen, RoomLeft,
     kernel, pending, touch, button, parsing, history
<1>3. CASE ReadersOf(p) = {} /\ ~UNCHANGED <<readers, slots>>
  <2> DEFINE fd == LeastOf(Free)
  <2>1. fd \in Free
    BY <1>3, DescriptorFree
  <2>2. /\ readers' = [f \in DOMAIN readers \cup {fd} |->
                          IF f = fd THEN NewReader(p) ELSE readers[f]]
        /\ AddPoll(fd)
    BY <1>3 DEF AddReader
  <2>3. fd \in Fds /\ fd \notin DOMAIN readers /\ fd \notin foreign
    BY <2>1 DEF Free
  <2>4. slots' \in Seq(Fds \cup {PipeFd, Unused}) /\ DOMAIN slots \subseteq DOMAIN slots'
    BY <2>2, <2>3, AddPollAdds DEF Base
  <2> HIDE DEF fd
  <2>5. NewReader(p) \in ReaderType /\ NewReader(p).path = p
    BY DEF NewReader, ReaderType
  <2>6. DOMAIN readers' = DOMAIN readers \cup {fd}
    BY <2>2
  <2>7. \A f \in DOMAIN readers' : readers'[f] = IF f = fd THEN NewReader(p) ELSE readers[f]
    BY <2>2
  <2>8. \A f \in DOMAIN readers' : readers'[f] \in ReaderType
    BY <2>5, <2>6, <2>7 DEF Base, TypeOK, ReaderType
  <2>9. \A f \in DOMAIN readers : readers[f].path # p
    BY <1>3 DEF ReadersOf
  <2>10. OneReader'
    BY <2>3, <2>5, <2>6, <2>7, <2>9 DEF Base, OneReader
  <2>11. ReadingOpen' /\ RoomLeft'
    BY <2>6 DEF Base, ReadingOpen, RoomLeft, AddReader, parsing, kernel
  <2>12. DOMAIN readers' \subseteq Fds \ foreign'
    BY <2>3, <2>6 DEF Base, TypeOK, AddReader, kernel
  <2>13. TypeOK'
    BY <1>1, <2>4, <2>8, <2>12 DEF Base, TypeOK, ReaderType, AddReader, kernel, pending,
       touch, button, parsing, history
  <2>14. QED
    BY <2>10, <2>11, <2>13 DEF Base
<1>4. QED
  BY <1>2, <1>3 DEF AddReader

LEMMA RemoveReaderKeepsBase ==
  ASSUME Base, NEW p \in Paths, RemoveReader(p)
  PROVE  Base'
<1>1. todo' \subseteq Paths
  BY DEF RemoveReader, Base, TypeOK
<1>2. CASE ReadersOf(p) = {}
  BY <1>1, <1>2 DEF RemoveReader, Base, TypeOK, OneReader, ReadingOpen, RoomLeft,
     kernel, pending, touch, button, parsing, history
<1>3. CASE ReadersOf(p) # {}
  <2>1. PICK fd \in ReadersOf(p) :
          /\ Handle(p, FALSE, FALSE)
          /\ RemovePoll(fd)
          /\ readers' = [f \in DOMAIN readers \ {fd} |-> readers[f]]
    BY <1>3 DEF RemoveReader
  <2>2. fd \in Fds
    BY DEF ReadersOf, Base, TypeOK
  <2>3. slots' \in Seq(Fds \cup {PipeFd, Unused}) /\ DOMAIN slots' = DOMAIN slots
    BY <2>1, <2>2, RemovePollFrees DEF Base
  <2>4. /\ prevTouch' \in BOOLEAN /\ swiped' \in BOOLEAN /\ fromEdge' \in BOOLEAN
        /\ inGesture' \in BOOLEAN /\ prevBtn' \in 0..IntMax /\ btnPublished' \in BOOLEAN
    BY <2>1, HandleTypes DEF Base
  <2>5. /\ DOMAIN readers' = DOMAIN readers \ {fd}
        /\ \A f \in DOMAIN readers' : readers'[f] = readers[f]
    BY <2>1
  <2>6. \A f \in DOMAIN readers' : readers'[f] \in ReaderType
    BY <2>5 DEF Base, TypeOK, ReaderType
  <2>7. OneReader' /\ ReadingOpen' /\ RoomLeft'
    BY <2>5 DEF Base, OneReader, ReadingOpen, RoomLeft, RemoveReader, parsing, kernel
  <2>8. DOMAIN readers' \subseteq Fds \ foreign'
    BY <2>5 DEF Base, TypeOK, RemoveReader, kernel
  <2>9. TypeOK'
    BY <1>1, <2>3, <2>4, <2>6, <2>8 DEF Base, TypeOK, ReaderType, RemoveReader, kernel,
       pending, parsing, history
  <2>10. QED
    BY <2>7, <2>9 DEF Base
<1>4. QED
  BY <1>2, <1>3

(* A reader keeps its place: who it is and whether the device is there.    *)
LEMMA ReadersKeepBase ==
  ASSUME Base, DOMAIN readers' = DOMAIN readers,
         \A f \in DOMAIN readers : /\ readers'[f] \in ReaderType
                                   /\ readers'[f].path = readers[f].path,
         UNCHANGED <<kernel, slots, pending, pc, todo, history>>,
         signalled' \in BOOLEAN, ready' \subseteq DOMAIN slots,
         reading' \in Fds \cup {PipeFd}, batch' \in Seq(ReportKinds),
         prevTouch' \in BOOLEAN, swiped' \in BOOLEAN, fromEdge' \in BOOLEAN,
         inGesture' \in BOOLEAN, prevBtn' \in 0..IntMax, btnPublished' \in BOOLEAN,
         ReadingOpen'
  PROVE  Base'
<1>1. OneReader' /\ RoomLeft'
  BY DEF Base, OneReader, RoomLeft, kernel
<1>2. DOMAIN readers' \subseteq Fds \ foreign'
  BY DEF Base, TypeOK, kernel
<1>3. TypeOK'
  BY <1>2 DEF Base, TypeOK, ReaderType, kernel, pending, history
<1>4. QED
  BY <1>1, <1>3 DEF Base

LEMMA HandleInputKeepsBase == Base /\ HandleInput => Base'
<1> SUFFICES ASSUME Base, HandleInput PROVE Base'
  OBVIOUS
<1> DEFINE fd == slots[NextSlot]
<1>1. ready' \subseteq DOMAIN slots
  BY DEF HandleInput, Base, TypeOK
<1>2. UNCHANGED <<kernel, slots, pending, pc, todo, history, touch, button>>
  BY DEF HandleInput
<1>3. CASE fd \in DOMAIN readers
  <2>1. readers[fd] \in ReaderType /\ fd \in Fds
    BY <1>3 DEF Base, TypeOK, ReaderType
  <2>2. /\ reading' = fd /\ batch' = readers[fd].queue /\ UNCHANGED signalled /\ pc = "handle"
        /\ readers' = [readers EXCEPT ![fd].queue = <<>>]
    BY <1>3 DEF HandleInput
  <2> HIDE DEF fd
  <2>3. DOMAIN readers' = DOMAIN readers
    BY <2>2
  <2>4. [readers[fd] EXCEPT !.queue = <<>>] \in ReaderType
    <3>1. <<>> \in Seq(ReportKinds)
      OBVIOUS
    <3>2. QED
      BY <2>1, <3>1 DEF ReaderType
  <2>5. \A f \in DOMAIN readers : readers'[f] \in ReaderType /\ readers'[f].path = readers[f].path
    <3>1. TAKE f \in DOMAIN readers
    <3>2. readers[f] \in ReaderType
      BY DEF Base, TypeOK, ReaderType
    <3>3. readers'[f] = IF f = fd THEN [readers[fd] EXCEPT !.queue = <<>>] ELSE readers[f]
      BY <2>2
    <3>4. QED
      BY <2>4, <3>2, <3>3 DEF ReaderType
  <2>6. batch' \in Seq(ReportKinds)
    BY <2>1, <2>2 DEF ReaderType
  <2>7. ReadingOpen'
    BY <1>2, <1>3, <2>2, <2>3 DEF ReadingOpen
  <2>8. QED
    BY <1>1, <1>2, <2>1, <2>2, <2>3, <2>5, <2>6, <2>7, ReadersKeepBase
       DEF Base, TypeOK, touch, button
<1>4. CASE fd \notin DOMAIN readers
  <2>1. signalled' = (signalled /\ fd # PipeFd) /\ UNCHANGED <<readers, reading, batch>>
    BY <1>4 DEF HandleInput
  <2>2. signalled' \in BOOLEAN
    BY <2>1
  <2>3. \A f \in DOMAIN readers : readers'[f] \in ReaderType
    BY <2>1 DEF Base, TypeOK, ReaderType
  <2>4. QED
    BY <1>1, <1>2, <2>1, <2>2, <2>3, ReadersKeepBase
       DEF Base, TypeOK, ReadingOpen, touch, button
<1>5. QED
  BY <1>3, <1>4

LEMMA ParseReportKeepsBase == Base /\ ParseReport => Base'
<1> SUFFICES ASSUME Base, ParseReport PROVE Base'
  OBVIOUS
<1> DEFINE r == readers[reading]
           k == Head(batch)
           now == PressedAfter(r, k)
           s == [r EXCEPT !.pressed = now, !.useEvtKey = @ \/ HasEvtKey(r.path, k)]
<1>1. reading \in DOMAIN readers /\ batch # <<>>
  BY DEF ParseReport, Base, ReadingOpen
<1>2. r \in ReaderType
  BY <1>1 DEF Base, TypeOK, ReaderType
<1>3. /\ readers' = [readers EXCEPT ![reading].pressed = now,
                                    ![reading].useEvtKey = @ \/ HasEvtKey(r.path, k)]
      /\ Handle(r.path, now, k = "edge")
      /\ batch' = Tail(batch)
      /\ UNCHANGED <<kernel, slots, signalled, pending, pc, todo, ready, reading, history>>
  BY DEF ParseReport
<1>4. now \in BOOLEAN
  BY DEF PressedAfter
<1>5. /\ prevTouch' \in BOOLEAN /\ swiped' \in BOOLEAN /\ fromEdge' \in BOOLEAN
      /\ inGesture' \in BOOLEAN /\ prevBtn' \in 0..IntMax /\ btnPublished' \in BOOLEAN
  <2>1. r.path \in Paths /\ (k = "edge") \in BOOLEAN
    BY <1>2 DEF ReaderType
  <2> HIDE DEF now, r, k
  <2>2. QED
    BY <1>3, <1>4, <2>1, HandleTypes DEF Base
<1>6. (r.useEvtKey \/ HasEvtKey(r.path, k)) \in BOOLEAN
  OBVIOUS
<1>7. s \in ReaderType /\ s.path = r.path
  <2> HIDE DEF now, r, k
  <2>1. QED
    BY <1>2, <1>4, <1>6 DEF ReaderType
<1>8. DOMAIN readers' = DOMAIN readers
  BY <1>3
<1>9. \A f \in DOMAIN readers : readers'[f] = IF f = reading THEN s ELSE readers[f]
  <2>1. TAKE f \in DOMAIN readers
  <2>2. CASE f = reading
    BY <1>1, <1>2, <1>3, <2>2 DEF ReaderType
  <2>3. CASE f # reading
    BY <1>3, <2>3
  <2>4. QED
    BY <2>2, <2>3
<1>10. \A f \in DOMAIN readers : readers'[f] \in ReaderType /\ readers'[f].path = readers[f].path
  BY <1>1, <1>7, <1>9 DEF Base, TypeOK, ReaderType
<1>11. batch' \in Seq(ReportKinds)
  BY <1>1, <1>3 DEF Base, TypeOK
<1>12. ReadingOpen'
  BY <1>1, <1>3, <1>8 DEF Base, ReadingOpen
<1>13. QED
  BY <1>3, <1>5, <1>8, <1>10, <1>11, <1>12, ReadersKeepBase DEF Base, TypeOK

(* A device that changes keeps its place too, and is closed by nobody.      *)
LEMMA PlugKeepsBase ==
  ASSUME Base, NEW p \in Paths, Plug(p) \/ Unplug(p)
  PROVE  Base'
<1>1. PICK flag \in {"CREATE", "DELETE"} : Notice(p, flag)
  BY DEF Plug, Unplug
<1>2. /\ plugged' \in [Paths -> BOOLEAN]
      /\ held' \in [Paths -> 0..MaxHeld]
  <2>1. /\ plugged \in [Paths -> BOOLEAN] /\ held \in [Paths -> 0..MaxHeld]
        /\ 0 \in 0..MaxHeld
    BY BoundsAssumption DEF Base, TypeOK
  <2>2. CASE Plug(p)
    BY <2>1, <2>2 DEF Plug
  <2>3. CASE Unplug(p)
    BY <2>1, <2>3 DEF Unplug
  <2>4. QED
    BY <2>2, <2>3
<1>3. /\ notices' \in Seq([path : Paths, flag : {"CREATE", "DELETE"}])
      /\ missed' \subseteq Paths
  <2>1. notices \in Seq(NoticeType) /\ missed \subseteq Paths
    BY DEF Base, TypeOK, NoticeType
  <2>2. [path |-> p, flag |-> flag] \in NoticeType
    BY DEF NoticeType
  <2>3. notices' \in Seq(NoticeType)
    BY <1>1, <2>1, <2>2 DEF Notice
  <2>4. QED
    BY <1>1, <2>1, <2>3 DEF Notice, NoticeType
<1>4. DOMAIN readers' = DOMAIN readers
  BY DEF Plug, Unplug
<1>5. \A f \in DOMAIN readers : readers'[f] \in ReaderType /\ readers'[f].path = readers[f].path
  <2>1. TAKE f \in DOMAIN readers
  <2>2. readers[f] \in ReaderType
    BY DEF Base, TypeOK, ReaderType
  <2>3. <<>> \in Seq(ReportKinds)
    OBVIOUS
  <2>4. \/ readers'[f] = readers[f]
        \/ readers'[f] = [readers[f] EXCEPT !.alive = FALSE, !.queue = <<>>]
    BY DEF Plug, Unplug
  <2>5. QED
    BY <2>2, <2>3, <2>4 DEF ReaderType
<1>6. OneReader' /\ ReadingOpen' /\ RoomLeft'
  BY <1>1, <1>4, <1>5 DEF Base, OneReader, ReadingOpen, RoomLeft, Notice, parsing
<1>7. TypeOK'
  BY <1>1, <1>2, <1>3, <1>4, <1>5 DEF Base, TypeOK, ReaderType, Notice, pending, touch, button,
     parsing
<1>8. QED
  BY <1>6, <1>7 DEF Base

(* p sends a report.                                                       *)
Reports(p) ==
  Press(p) \/ Release(p) \/ Chord(p) \/ Repeat(p) \/ Fingers(p) \/ Keep(p)

LEMMA ReportsSend ==
  ASSUME Base, NEW p \in Paths, Reports(p)
  PROVE  /\ \E k \in ReportKinds, single \in BOOLEAN : Report(p, k, single)
         /\ held' \in [Paths -> 0..MaxHeld]
         /\ \A q \in Paths : q # p => held'[q] = held[q]
<1>1. held[p] \in 0..MaxHeld /\ held \in [Paths -> 0..MaxHeld] /\ MaxHeld \in Nat
  BY BoundsAssumption DEF Base, TypeOK
<1>2. CASE \E h \in 0..MaxHeld : held' = [held EXCEPT ![p] = h]
  <2>1. held' \in [Paths -> 0..MaxHeld] /\ \A q \in Paths : q # p => held'[q] = held[q]
    BY <1>1, <1>2
  <2>2. \E k \in ReportKinds, single \in BOOLEAN : Report(p, k, single)
    <3>1. CASE Press(p) \/ Release(p) \/ Repeat(p)
      BY <3>1 DEF Press, Release, Repeat, ReportKinds
    <3>2. CASE Chord(p)
      BY <3>2 DEF Chord, ReportKinds
    <3>3. CASE Fingers(p)
      <4>1. PICK h \in 0..MaxHeld : \E k \in FingerReports(p, h) : Report(p, k, TRUE)
        BY <3>3 DEF Fingers
      <4>2. FingerReports(p, h) \subseteq ReportKinds
        BY <1>1 DEF FingerReports, ReportKinds
      <4>3. QED
        BY <4>1, <4>2
    <3>4. CASE Keep(p)
      BY <3>4 DEF Keep, ReportKinds
    <3>5. QED
      BY <3>1, <3>2, <3>3, <3>4 DEF Reports
  <2>3. QED
    BY <2>1, <2>2
<1>3. \E h \in 0..MaxHeld : held' = [held EXCEPT ![p] = h]
  <2>1. CASE Press(p)
    <3>1. held[p] + 1 \in 0..MaxHeld /\ held' = [held EXCEPT ![p] = held[p] + 1]
      BY <1>1, <2>1 DEF Press
    <3>2. QED
      BY <3>1
  <2>2. CASE Release(p)
    <3>1. held[p] - 1 \in 0..MaxHeld /\ held' = [held EXCEPT ![p] = held[p] - 1]
      BY <1>1, <2>2 DEF Release
    <3>2. QED
      BY <3>1
  <2>3. CASE Keep(p) \/ Repeat(p)
    <3>1. held' = [held EXCEPT ![p] = held[p]]
      BY <1>1, <2>3 DEF Keep, Repeat
    <3>2. QED
      BY <1>1, <3>1
  <2>4. CASE Chord(p) \/ Fingers(p)
    BY <2>4 DEF Chord, Fingers
  <2>5. QED
    BY <2>1, <2>2, <2>3, <2>4 DEF Reports
<1>4. QED
  BY <1>2, <1>3

LEMMA OtherOpenKeepsBase ==
  ASSUME Base, NEW f \in Fds, OtherOpen(f)
  PROVE  Base'
<1>1. Cardinality(foreign) + Cardinality(Paths) < Cardinality(Fds) /\ f = LeastOf(Free)
  BY DEF OtherOpen
<1>2. \A g \in DOMAIN readers : readers[g].path \in Paths
  BY DEF Base, TypeOK
<1>3. LeastOf(Free) \in Free
  BY <1>1, <1>2, DescriptorLeft
<1>4. f \notin DOMAIN readers /\ f \notin foreign
  BY <1>1, <1>3 DEF Free
<1>5. IsFiniteSet(foreign)
  BY FdsAssumption, FS_Subset DEF Base, TypeOK
<1>6. Cardinality(foreign \cup {f}) = Cardinality(foreign) + 1 /\ foreign' = foreign \cup {f}
  BY <1>4, <1>5, FS_AddElement DEF OtherOpen
<1>7. /\ Cardinality(foreign) \in Nat /\ Cardinality(Paths) \in Nat /\ Cardinality(Fds) \in Nat
  BY <1>5, FdsAssumption, FS_CardinalityType
<1>8. RoomLeft'
  BY <1>1, <1>6, <1>7 DEF RoomLeft, OtherOpen
<1>9. OneReader' /\ ReadingOpen'
  BY DEF Base, OneReader, ReadingOpen, OtherOpen, parsing
<1>10. TypeOK'
  BY <1>4, <1>6 DEF Base, TypeOK, OtherOpen, pending, touch, button, parsing, history
<1>11. QED
  BY <1>8, <1>9, <1>10 DEF Base

LEMMA OtherCloseKeepsBase ==
  ASSUME Base, NEW f \in Fds, OtherClose(f)
  PROVE  Base'
<1>1. IsFiniteSet(foreign)
  BY FdsAssumption, FS_Subset DEF Base, TypeOK
<1>2. Cardinality(foreign \ {f}) = Cardinality(foreign) - 1 /\ foreign' = foreign \ {f}
  BY <1>1, FS_RemoveElement DEF OtherClose
<1>3. /\ Cardinality(foreign) \in Nat /\ Cardinality(Paths) \in Nat /\ Cardinality(Fds) \in Nat
  BY <1>1, FdsAssumption, FS_CardinalityType
<1>4. RoomLeft'
  BY <1>2, <1>3 DEF Base, RoomLeft, OtherClose
<1>5. OneReader' /\ ReadingOpen'
  BY DEF Base, OneReader, ReadingOpen, OtherClose, parsing
<1>6. TypeOK'
  BY <1>2 DEF Base, TypeOK, OtherClose, pending, touch, button, parsing, history
<1>7. QED
  BY <1>4, <1>5, <1>6 DEF Base

LEMMA BaseStep == Base /\ [Next]_vars => Base'
<1> SUFFICES ASSUME Base, [Next]_vars PROVE Base'
  OBVIOUS
<1>1. CASE Environment
  <2>1. ASSUME NEW p \in Paths, Reports(p) PROVE Base'
    BY <2>1, ReportsSend, ReportKeepsBase
  <2>2. QED
    BY <1>1, <2>1, PlugKeepsBase, OtherOpenKeepsBase, OtherCloseKeepsBase DEF Environment, Reports
<1>2. CASE OnInputDevUpdated \/ Unclaimed
  <2>1. Head(notices) \in [path : Paths, flag : {"CREATE", "DELETE"}]
        /\ Tail(notices) \in Seq([path : Paths, flag : {"CREATE", "DELETE"}])
    <3>1. notices \in Seq(NoticeType) /\ notices # <<>>
      BY <1>2 DEF OnInputDevUpdated, Unclaimed, Base, TypeOK, NoticeType
    <3>2. Head(notices) \in NoticeType /\ Tail(notices) \in Seq(NoticeType)
      BY <3>1
    <3>3. QED
      BY <3>2 DEF NoticeType
  <2>2. CASE OnInputDevUpdated
    <3>1. addPending' \subseteq Paths /\ removePending' \subseteq Paths
      BY <2>1, <2>2 DEF OnInputDevUpdated, Base, TypeOK
    <3>2. QED
      BY <2>1, <2>2, <3>1 DEF OnInputDevUpdated, Base, TypeOK, OneReader, ReadingOpen, RoomLeft,
         touch, button, parsing, history
  <2>3. CASE Unclaimed
    <3>1. missed' \subseteq Paths
      BY <2>1, <2>3 DEF Unclaimed, Base, TypeOK
    <3>2. QED
      BY <2>1, <2>3, <3>1 DEF Unclaimed, Base, TypeOK, OneReader, ReadingOpen, RoomLeft,
         pending, touch, button, parsing
  <2>4. QED
    BY <1>2, <2>2, <2>3
<1>3. ASSUME NEW p \in Paths, AddReader(p) PROVE Base'
  BY <1>3, AddReaderKeepsBase
<1>4. ASSUME NEW p \in Paths, RemoveReader(p) PROVE Base'
  BY <1>4, RemoveReaderKeepsBase
<1>5. CASE Scanned \/ Start \/ StoreItem \/ PollFails \/ LoopAgain
  BY <1>5 DEF Scanned, Start, StoreItem, PollFails, LoopAgain, Base, TypeOK, OneReader, ReadingOpen,
     RoomLeft, kernel, pending, touch, button, parsing, history
<1>6. CASE Flush
  BY <1>6 DEF Flush, Base, TypeOK, OneReader, ReadingOpen, RoomLeft, kernel, pending,
     touch, button, parsing, history
<1>7. CASE Poll
  <2>1. ready' \subseteq DOMAIN slots
    BY <1>7 DEF Poll, Readable, MaybeReadable
  <2>2. QED
    BY <1>7, <2>1 DEF Poll, Base, TypeOK, OneReader, ReadingOpen, RoomLeft, kernel, pending,
       touch, button, history
<1>8. CASE HandleInput
  BY <1>8, HandleInputKeepsBase
<1>9. CASE ParseReport
  BY <1>9, ParseReportKeepsBase
<1>10. CASE UNCHANGED vars
  BY <1>10 DEF vars, Base, TypeOK, OneReader, ReadingOpen, RoomLeft, kernel, pending,
     touch, button, parsing, history
<1>11. QED
  BY <1>1, <1>2, <1>3, <1>4, <1>5, <1>6, <1>7, <1>8, <1>9, <1>10 DEF Next, Thread

LEMMA BaseInvariant == SafeSpec => []Base
<1>1. QED
  BY BaseInit, BaseStep, PTL DEF SafeSpec

(* Every variable keeps its type, whatever is plugged, replugged, pressed  *)
(* and read: Parse reads an open device, a free descriptor is found for a  *)
(* device that has none, and the button counter stays in its range.        *)
THEOREM TypeCorrect == SafeSpec => []TypeOK
<1>1. Base => TypeOK
  BY DEF Base
<1>2. QED
  BY <1>1, BaseInvariant, PTL

-----------------------------------------------------------------------------
(* Only opening and closing a device touches the table and the set of the  *)
(* readers.                                                                *)
LEMMA TableKept ==
  ASSUME [Next]_vars, \A p \in Paths : ~AddReader(p) /\ ~RemoveReader(p)
  PROVE  DOMAIN readers' = DOMAIN readers /\ slots' = slots
<1>1. CASE Environment
  BY <1>1 DEF Environment, Press, Release, Chord, Repeat, Fingers, Keep, Report, Plug, Unplug,
     Notice, OtherOpen, OtherClose
<1>2. CASE Unclaimed \/ OnInputDevUpdated \/ PollFails
  BY <1>2 DEF Unclaimed, OnInputDevUpdated, PollFails
<1>3. CASE Scanned \/ Start \/ StoreItem \/ Flush \/ Poll \/ LoopAgain
  BY <1>3 DEF Scanned, Start, StoreItem, Flush, Poll, LoopAgain
<1>4. CASE HandleInput
  BY <1>4 DEF HandleInput
<1>5. CASE ParseReport
  BY <1>5 DEF ParseReport
<1>6. CASE UNCHANGED vars
  BY <1>6 DEF vars
<1>7. QED
  BY <1>1, <1>2, <1>3, <1>4, <1>5, <1>6 DEF Next, Thread

LEMMA PolledStep == Base /\ ReadersPolled /\ [Next]_vars => ReadersPolled'
<1> SUFFICES ASSUME Base, ReadersPolled, [Next]_vars PROVE ReadersPolled'
  OBVIOUS
<1>1. PipeFd \notin Fds /\ Unused \notin Fds \cup {PipeFd}
  BY FdsAssumption DEF Unused
<1>2. DOMAIN readers \subseteq Fds
  BY DEF Base, TypeOK
<1>3. ASSUME NEW p \in Paths, AddReader(p) PROVE ReadersPolled'
  <2>1. CASE UNCHANGED <<readers, slots>>
    BY <2>1 DEF ReadersPolled
  <2>2. CASE ReadersOf(p) = {} /\ ~UNCHANGED <<readers, slots>>
    <3> DEFINE fd == LeastOf(Free)
    <3>1. DOMAIN readers' = DOMAIN readers \cup {fd} /\ AddPoll(fd)
      BY <1>3, <2>2 DEF AddReader
    <3>2. fd \in Fds
      BY <2>2, DescriptorFree DEF Free
    <3> HIDE DEF fd
    <3>3. /\ DOMAIN slots \subseteq DOMAIN slots'
          /\ \A i \in DOMAIN slots : slots'[i] = slots[i] \/ slots[i] = Unused
          /\ \E i \in DOMAIN slots' : slots'[i] = fd
      BY <3>1, <3>2, AddPollAdds DEF Base
    <3>4. ASSUME NEW f \in DOMAIN readers \cup {PipeFd}
          PROVE  \E i \in DOMAIN slots' : slots'[i] = f
      <4>1. PICK i \in DOMAIN slots : slots[i] = f
        BY <3>4 DEF ReadersPolled
      <4>2. f # Unused
        BY <1>1, <1>2, <3>4
      <4>3. QED
        BY <3>3, <4>1, <4>2
    <3>5. QED
      BY <3>1, <3>3, <3>4 DEF ReadersPolled
  <2>3. QED
    BY <1>3, <2>1, <2>2 DEF AddReader
<1>4. ASSUME NEW p \in Paths, RemoveReader(p) PROVE ReadersPolled'
  <2>1. CASE ReadersOf(p) = {}
    BY <1>4, <2>1 DEF RemoveReader, ReadersPolled
  <2>2. CASE ReadersOf(p) # {}
    <3>1. PICK fd \in ReadersOf(p) :
            RemovePoll(fd) /\ readers' = [f \in DOMAIN readers \ {fd} |-> readers[f]]
      BY <1>4, <2>2 DEF RemoveReader
    <3>2. fd \in Fds
      BY <1>2 DEF ReadersOf
    <3>3. /\ DOMAIN slots' = DOMAIN slots
          /\ \A i \in DOMAIN slots : slots'[i] = slots[i] \/ slots[i] = fd
      BY <3>1, <3>2, RemovePollFrees DEF Base
    <3>4. \A f \in DOMAIN readers' \cup {PipeFd} :
             f \in DOMAIN readers \cup {PipeFd} /\ f # fd
      BY <1>1, <3>1, <3>2
    <3>5. QED
      BY <3>3, <3>4 DEF ReadersPolled
  <2>3. QED
    BY <2>1, <2>2
<1>5. CASE \A p \in Paths : ~AddReader(p) /\ ~RemoveReader(p)
  <2>1. DOMAIN readers' = DOMAIN readers /\ slots' = slots
    BY <1>5, TableKept
  <2>2. QED
    BY <2>1 DEF ReadersPolled
<1>6. QED
  BY <1>3, <1>4, <1>5

(* Every open device and the pipe stay in the poll table, however many     *)
(* devices come and go and however the table fills with stale and repeated *)
(* descriptors: AddPoll stores over free slots only, and RemovePoll frees  *)
(* a slot of the closed device only.                                       *)
THEOREM OpenIsPolled == SafeSpec => []ReadersPolled
<1>1. Init => ReadersPolled
  <2>1. Init => 1 \in DOMAIN slots /\ slots[1] = PipeFd /\ DOMAIN readers = {}
    BY DEF Init
  <2>2. QED
    BY <2>1 DEF ReadersPolled
<1>2. QED
  BY <1>1, BaseInvariant, PolledStep, PTL DEF SafeSpec

-----------------------------------------------------------------------------
(* Why every change of the directory is honoured.                          *)

Known(p)  == DevType[p] # "unknown"
Opened(p) == \E f \in DOMAIN readers : readers[f].path = p /\ readers[f].alive

(* No notice of p, or a notice that p was deleted, is on its way.          *)
Told(p)       == \A i \in DOMAIN notices : notices[i].path # p
DeleteSent(p) == \E i \in DOMAIN notices :
                    notices[i].path = p /\ notices[i].flag = "DELETE"

(* Nothing is noted before the directory is watched.                       *)
QuietStart == ~Watched => notices = <<>> /\ addPending = {} /\ removePending = {}

(* A reader is alive only while its device is there.                       *)
AliveIsPlugged == \A f \in DOMAIN readers : readers[f].alive => plugged[readers[f].path]

(* The last notice of a path on its way says whether the device is there.  *)
LastNotice ==
  \A i \in DOMAIN notices :
    /\ notices[i].path \notin missed
    /\ \A j \in DOMAIN notices : j > i => notices[j].path # notices[i].path
    => (notices[i].flag = "CREATE" <=> plugged[notices[i].path])

(* The reader of a device that is gone is about to be closed.              *)
DeadNoted ==
  \A f \in DOMAIN readers :
    LET p == readers[f].path
    IN ~readers[f].alive /\ p \notin missed => p \in removePending \/ DeleteSent(p)

(* A device that is there will be opened again, or is open and not among   *)
(* the ones to close.                                                      *)
CreatedNoted ==
  \A p \in Paths \ missed :
    Known(p) /\ plugged[p] /\ Told(p) =>
      \/ p \in addPending
      \/ p \notin removePending /\ (Opened(p) \/ (pc = "scan" /\ p \in todo))

(* No reader of p has outlived its device, and one is open if p is there.  *)
Replayed(p) ==
  /\ \A f \in ReadersOf(p) : readers[f].alive
  /\ plugged[p] /\ (pc = "add" => p \notin todo) => Opened(p)

(* How far the replay has come: the deleted nodes are closed one by one,   *)
(* then the created ones are opened, and until the pipe is written to,     *)
(* all the others are as they should be.                                   *)
RemovesReplayed == pc = "remove" =>
  todo \subseteq removePending /\ \A f \in DOMAIN readers : readers[f].path \notin removePending \ todo
AddsReplayed == pc = "add" \/ (pc = "poll" /\ ~signalled) =>
  \A p \in Paths \ missed : Known(p) /\ Told(p) => Replayed(p)

HotplugInv ==
  /\ QuietStart
  /\ AliveIsPlugged
  /\ LastNotice
  /\ DeadNoted
  /\ CreatedNoted
  /\ RemovesReplayed
  /\ AddsReplayed

LEMMA HotplugInit == Init => HotplugInv
<1> SUFFICES ASSUME Init PROVE HotplugInv
  OBVIOUS
<1>1. DOMAIN readers = {} /\ DOMAIN notices = {}
  BY DEF Init
<1>2. \A p \in Paths : plugged[p] => p \in todo
  BY DEF Init
<1>3. QED
  BY <1>1, <1>2 DEF Init, HotplugInv, QuietStart, AliveIsPlugged, LastNotice, DeadNoted,
     CreatedNoted, RemovesReplayed, AddsReplayed, Watched

(* A step that no device, no notice and no note has a part in.             *)
LEMMA CalmStep ==
  ASSUME HotplugInv, DOMAIN readers' = DOMAIN readers,
         \A f \in DOMAIN readers : /\ readers'[f].path = readers[f].path
                                   /\ readers'[f].alive = readers[f].alive,
         UNCHANGED <<plugged, notices, addPending, removePending, missed>>,
         ~Watched' => ~Watched,
         pc = "scan" /\ todo # {} => pc' = "scan" /\ todo' = todo,
         pc' \in {"remove", "add", "poll"} => UNCHANGED <<pc, todo, signalled>>
  PROVE  HotplugInv'
<1>1. \A p \in Paths : /\ Told(p)' = Told(p) /\ Opened(p)' = Opened(p)
                       /\ DeleteSent(p)' = DeleteSent(p) /\ ReadersOf(p)' = ReadersOf(p)
  BY DEF Told, Opened, DeleteSent, ReadersOf
<1>2. QuietStart' /\ AliveIsPlugged' /\ LastNotice'
  BY DEF HotplugInv, QuietStart, AliveIsPlugged, LastNotice
<1>3. DeadNoted'
  BY DEF HotplugInv, DeadNoted, DeleteSent
<1>4. CreatedNoted'
  BY <1>1 DEF HotplugInv, CreatedNoted
<1>5. RemovesReplayed'
  BY DEF HotplugInv, RemovesReplayed
<1>6. AddsReplayed'
  BY <1>1 DEF HotplugInv, AddsReplayed, Replayed, ReadersOf
<1>7. QED
  BY <1>2, <1>3, <1>4, <1>5, <1>6 DEF HotplugInv

(* A node appears or disappears before anyone watches: it is missed.       *)
LEMMA MissedStep ==
  ASSUME Base, HotplugInv, NEW p \in Paths, Plug(p) \/ Unplug(p), ~Watched
  PROVE  HotplugInv'
<1>0. plugged \in [Paths -> BOOLEAN]
  BY DEF Base, TypeOK
<1>1. /\ missed' = missed \cup {p} /\ notices = <<>> /\ notices' = <<>>
      /\ UNCHANGED <<addPending, removePending, pc, todo>>
      /\ addPending = {} /\ removePending = {}
  BY DEF Plug, Unplug, Notice, HotplugInv, QuietStart, pending
<1>2. /\ plugged' \in [Paths -> BOOLEAN]
      /\ \A q \in Paths : q # p => plugged'[q] = plugged[q]
      /\ Plug(p) => plugged'[p]
  BY <1>0 DEF Plug, Unplug
<1>3. /\ DOMAIN readers' = DOMAIN readers
      /\ \A f \in DOMAIN readers : /\ readers'[f].path = readers[f].path
                                   /\ readers'[f].path # p => readers'[f].alive = readers[f].alive
                                   /\ readers'[f].alive => readers[f].alive
                                   /\ readers'[f].path = p /\ Unplug(p) => ~readers'[f].alive
  <2>1. \A f \in DOMAIN readers : readers[f] \in ReaderType
    BY DEF Base, TypeOK, ReaderType
  <2>2. CASE Plug(p) /\ ~Unplug(p)
    BY <2>2 DEF Plug
  <2>3. CASE Unplug(p)
    BY <2>1, <2>3 DEF Unplug, ReaderType
  <2>4. QED
    BY <2>2, <2>3
<1>4. pc \notin {"remove", "add", "poll"}
  BY DEF Watched
<1>5. QuietStart'
  BY <1>1 DEF QuietStart
<1>6. AliveIsPlugged'
  <2>1. SUFFICES ASSUME NEW f \in DOMAIN readers', readers'[f].alive
                 PROVE  plugged'[readers'[f].path]
    BY DEF AliveIsPlugged
  <2>2. readers[f].path \in Paths
    BY <1>3 DEF Base, TypeOK
  <2>3. QED
    BY <1>2, <1>3, <2>1, <2>2 DEF HotplugInv, AliveIsPlugged
<1>7. LastNotice'
  BY <1>1 DEF LastNotice
<1>8. DeadNoted'
  BY <1>1, <1>3 DEF HotplugInv, DeadNoted, DeleteSent
<1>9. CreatedNoted'
  BY <1>1, <1>2, <1>3 DEF HotplugInv, CreatedNoted, Told, Opened
<1>10. RemovesReplayed' /\ AddsReplayed'
  BY <1>1, <1>4 DEF RemovesReplayed, AddsReplayed
<1>11. QED
  BY <1>5, <1>6, <1>7, <1>8, <1>9, <1>10 DEF HotplugInv

(* A node appears or disappears under the watch: a notice is on its way.   *)
LEMMA NoticedStep ==
  ASSUME Base, HotplugInv, NEW p \in Paths, Plug(p) \/ Unplug(p), Watched
  PROVE  HotplugInv'
<1> DEFINE flag == IF plugged'[p] THEN "CREATE" ELSE "DELETE"
           n    == [path |-> p, flag |-> flag]
<1>0. plugged \in [Paths -> BOOLEAN]
  BY DEF Base, TypeOK
<1>1. /\ plugged' \in [Paths -> BOOLEAN]
      /\ \A q \in Paths : q # p => plugged'[q] = plugged[q]
      /\ Plug(p) => plugged'[p]
      /\ Unplug(p) => ~plugged'[p]
      /\ UNCHANGED <<addPending, removePending, pc, todo, signalled>>
  BY <1>0 DEF Plug, Unplug, Notice, pending
<1>2. /\ notices' = Append(notices, n)
      /\ \A q \in Paths : q # p => (q \in missed' <=> q \in missed)
      /\ Plug(p) => missed' = missed
  BY <1>1 DEF Plug, Unplug, Notice
<1>3. /\ notices \in Seq(NoticeType) /\ Len(notices) \in Nat
      /\ DOMAIN notices = 1 .. Len(notices) /\ DOMAIN notices' = 1 .. Len(notices) + 1
      /\ \A i \in DOMAIN notices : notices'[i] = notices[i]
      /\ notices'[Len(notices) + 1] = n
  <2>1. notices \in Seq(NoticeType)
    BY DEF Base, TypeOK, NoticeType
  <2>2. n \in NoticeType
    BY DEF NoticeType
  <2> HIDE DEF n
  <2>3. QED
    BY <1>2, <2>1, <2>2
<1>4. /\ DOMAIN readers' = DOMAIN readers
      /\ \A f \in DOMAIN readers : /\ readers'[f].path = readers[f].path
                                   /\ readers'[f].path # p => readers'[f].alive = readers[f].alive
                                   /\ readers'[f].alive => readers[f].alive
                                   /\ readers'[f].path = p /\ Unplug(p) => ~readers'[f].alive
                                   /\ Plug(p) => readers'[f].alive = readers[f].alive
  <2>1. \A f \in DOMAIN readers : readers[f] \in ReaderType
    BY DEF Base, TypeOK, ReaderType
  <2>2. CASE Plug(p) /\ ~Unplug(p)
    BY <2>2 DEF Plug
  <2>3. CASE Unplug(p)
    <3>1. ~Plug(p)
      BY <1>1, <2>3
    <3>2. QED
      BY <2>1, <2>3, <3>1 DEF Unplug, ReaderType
  <2>4. QED
    BY <2>2, <2>3
<1>5. /\ ~Told(p)'
      /\ \A q \in Paths : q # p => Told(q)' = Told(q) /\ Opened(q)' = Opened(q)
      /\ \A q \in Paths : DeleteSent(q) => DeleteSent(q)'
      /\ Unplug(p) => DeleteSent(p)'
  <2>1. ~Told(p)'
    BY <1>3 DEF Told
  <2>2. \A q \in Paths : q # p => Told(q)' = Told(q)
    BY <1>3 DEF Told
  <2>3. \A q \in Paths : q # p => Opened(q)' = Opened(q)
    BY <1>4 DEF Opened
  <2>4. \A q \in Paths : DeleteSent(q) => DeleteSent(q)'
    BY <1>3 DEF DeleteSent
  <2>5. Unplug(p) => DeleteSent(p)'
    BY <1>1, <1>3 DEF DeleteSent
  <2>6. QED
    BY <2>1, <2>2, <2>3, <2>4, <2>5
<1> HIDE DEF flag, n
<1>6. QuietStart'
  BY <1>1 DEF QuietStart, Watched
<1>7. AliveIsPlugged'
  <2>1. SUFFICES ASSUME NEW f \in DOMAIN readers', readers'[f].alive
                 PROVE  plugged'[readers'[f].path]
    BY DEF AliveIsPlugged
  <2>2. readers[f].path \in Paths
    BY <1>4 DEF Base, TypeOK
  <2>3. QED
    BY <1>1, <1>4, <2>1, <2>2 DEF HotplugInv, AliveIsPlugged
<1>8. LastNotice'
  <2>1. SUFFICES ASSUME NEW i \in DOMAIN notices', notices'[i].path \notin missed',
                        \A j \in DOMAIN notices' : j > i => notices'[j].path # notices'[i].path
                 PROVE  notices'[i].flag = "CREATE" <=> plugged'[notices'[i].path]
    BY DEF LastNotice
  <2>2. CASE i = Len(notices) + 1
    BY <1>1, <1>3, <2>2 DEF n, flag
  <2>3. CASE i \in DOMAIN notices
    <3>1. notices'[i].path # p /\ notices'[i] = notices[i]
      BY <1>3, <2>1, <2>3 DEF n
    <3>2. notices[i].path \in Paths
      <4>1. notices[i] \in NoticeType
        BY <1>3, <2>3, ElementOfSeq
      <4>2. QED
        BY <4>1 DEF NoticeType
    <3>3. \A j \in DOMAIN notices : j > i => notices[j].path # notices[i].path
      BY <1>3, <2>1, <3>1
    <3>4. QED
      BY <1>1, <1>2, <2>1, <2>3, <3>1, <3>2, <3>3 DEF HotplugInv, LastNotice
  <2>4. QED
    BY <1>3, <2>2, <2>3
<1>9. DeadNoted'
  <2>1. SUFFICES ASSUME NEW f \in DOMAIN readers', ~readers'[f].alive, readers'[f].path \notin missed'
                 PROVE  (readers[f].path \in removePending \/ DeleteSent(readers[f].path))'
    BY DEF DeadNoted
  <2>2. readers[f].path \in Paths
    BY <1>4 DEF Base, TypeOK
  <2>3. QED
    BY <1>1, <1>2, <1>4, <1>5, <2>1, <2>2 DEF HotplugInv, DeadNoted
<1>10. CreatedNoted'
  BY <1>1, <1>2, <1>5 DEF HotplugInv, CreatedNoted
<1>11. RemovesReplayed'
  BY <1>1, <1>4 DEF HotplugInv, RemovesReplayed
<1>12. AddsReplayed'
  <2>1. \A q \in Paths : q # p => (Replayed(q) => Replayed(q)')
    BY <1>1, <1>4, <1>5 DEF Replayed, ReadersOf
  <2>2. QED
    BY <1>1, <1>2, <1>5, <2>1 DEF HotplugInv, AddsReplayed
<1>13. QED
  BY <1>6, <1>7, <1>8, <1>9, <1>10, <1>11, <1>12 DEF HotplugInv

(* The inotify thread notes a notice, while the input thread does not      *)
(* replay the notes, and writes to the pipe.                               *)
LEMMA DeliveryStep ==
  ASSUME Base, HotplugInv, OnInputDevUpdated
  PROVE  HotplugInv'
<1> DEFINE n == Head(notices)
<1>1. /\ notices # <<>> /\ notices' = Tail(notices) /\ signalled' = TRUE
      /\ pc \notin {"remove", "add"}
      /\ UNCHANGED <<plugged, readers, pc, todo, missed>>
  BY DEF OnInputDevUpdated, history
<1>2. Watched
  BY <1>1 DEF HotplugInv, QuietStart
<1>3. /\ addPending \subseteq addPending' /\ removePending \subseteq removePending'
      /\ n.flag = "CREATE" => n.path \in addPending'
      /\ n.flag # "CREATE" => n.path \in removePending'
      /\ removePending' \subseteq removePending \cup {n.path}
  BY DEF OnInputDevUpdated
<1>4. notices \in Seq(NoticeType)
  BY DEF Base, TypeOK, NoticeType
<1>5. /\ Len(notices) \in Nat \ {0} /\ DOMAIN notices = 1 .. Len(notices)
      /\ DOMAIN notices' = 1 .. Len(notices) - 1
      /\ \A i \in DOMAIN notices' : notices'[i] = notices[i + 1] /\ i + 1 \in DOMAIN notices
      /\ n = notices[1]
  BY <1>1, <1>4
<1> HIDE DEF n
<1>6. \A i \in DOMAIN notices : i = 1 \/ (i - 1 \in DOMAIN notices' /\ notices'[i - 1] = notices[i])
  BY <1>5
<1>7. QuietStart' /\ AliveIsPlugged' /\ RemovesReplayed' /\ AddsReplayed'
  BY <1>1, <1>2 DEF HotplugInv, QuietStart, AliveIsPlugged, RemovesReplayed, AddsReplayed, Watched
<1>8. LastNotice'
  <2>1. SUFFICES ASSUME NEW i \in DOMAIN notices', notices'[i].path \notin missed,
                        \A j \in DOMAIN notices' : j > i => notices'[j].path # notices'[i].path
                 PROVE  notices'[i].flag = "CREATE" <=> plugged[notices'[i].path]
    BY <1>1 DEF LastNotice
  <2>2. i + 1 \in DOMAIN notices /\ notices[i + 1] = notices'[i]
    BY <1>5
  <2>3. ASSUME NEW j \in DOMAIN notices, j > i + 1 PROVE notices[j].path # notices[i + 1].path
    <3>1. j - 1 \in DOMAIN notices' /\ notices'[j - 1] = notices[j] /\ j - 1 > i
      BY <1>5, <1>6, <2>3
    <3>2. QED
      BY <2>1, <2>2, <3>1
  <2>4. QED
    BY <2>1, <2>2, <2>3 DEF HotplugInv, LastNotice
<1>9. DeadNoted'
  <2>1. SUFFICES ASSUME NEW f \in DOMAIN readers, ~readers[f].alive, readers[f].path \notin missed,
                        readers[f].path \notin removePending'
                 PROVE  DeleteSent(readers[f].path)'
    BY <1>1 DEF DeadNoted
  <2>2. DeleteSent(readers[f].path)
    BY <1>3, <2>1 DEF HotplugInv, DeadNoted
  <2>3. PICK i \in DOMAIN notices : notices[i].path = readers[f].path /\ notices[i].flag = "DELETE"
    BY <2>2 DEF DeleteSent
  <2>4. i # 1
    BY <1>3, <1>5, <2>1, <2>3
  <2>5. QED
    BY <1>1, <1>6, <2>3, <2>4 DEF DeleteSent
<1>10. CreatedNoted'
  <2>1. SUFFICES ASSUME NEW p \in Paths \ missed, Known(p), plugged[p], Told(p)', p \notin addPending'
                 PROVE  p \notin removePending' /\ (Opened(p) \/ (pc = "scan" /\ p \in todo))
    BY <1>1 DEF CreatedNoted, Opened, Known
  <2>2. \A i \in DOMAIN notices : i # 1 => notices[i].path # p
    BY <1>6, <2>1 DEF Told
  <2>3. n.path # p
    <3>1. SUFFICES ASSUME n.path = p PROVE FALSE
      OBVIOUS
    <3>2. 1 \in DOMAIN notices /\ \A j \in DOMAIN notices : j > 1 => notices[j].path # p
      BY <1>5, <2>2
    <3>3. n.flag = "CREATE"
      BY <1>5, <2>1, <3>1, <3>2 DEF HotplugInv, LastNotice
    <3>4. QED
      BY <1>3, <2>1, <3>1, <3>3
  <2>4. Told(p)
    BY <1>5, <2>2, <2>3 DEF Told
  <2>5. QED
    BY <1>3, <2>1, <2>3, <2>4 DEF HotplugInv, CreatedNoted
<1>11. QED
  BY <1>7, <1>8, <1>9, <1>10 DEF HotplugInv

(* A notice finds nobody to tell: its path is missed, unless the path is   *)
(* about to be deleted, which will be noted.                               *)
LEMMA UnclaimedStep ==
  ASSUME Base, HotplugInv, Unclaimed
  PROVE  HotplugInv'
<1> DEFINE Later == {i \in DOMAIN notices : i > 1 /\ notices[i].flag = "DELETE"}
<1>0. PICK gone : gone = Head(notices).path
  OBVIOUS
<1>1. /\ notices # <<>> /\ notices' = Tail(notices) /\ pc = "store"
      /\ UNCHANGED <<plugged, readers, signalled, addPending, removePending, pc, todo>>
      /\ missed' = missed \cup ({gone} \ {notices[i].path : i \in Later})
  BY <1>0 DEF Unclaimed, pending
<1>2. notices \in Seq(NoticeType)
  BY DEF Base, TypeOK, NoticeType
<1>3. /\ Len(notices) \in Nat \ {0} /\ DOMAIN notices = 1 .. Len(notices)
      /\ DOMAIN notices' = 1 .. Len(notices) - 1
      /\ \A i \in DOMAIN notices' : notices'[i] = notices[i + 1] /\ i + 1 \in DOMAIN notices
      /\ gone = notices[1].path
  BY <1>0, <1>1, <1>2
<1>4. \A i \in DOMAIN notices : i = 1 \/ (i - 1 \in DOMAIN notices' /\ notices'[i - 1] = notices[i])
  BY <1>3
<1>5. gone \notin missed' => gone \in missed \/ DeleteSent(gone)'
  <2>1. ASSUME gone \notin missed', gone \notin missed PROVE DeleteSent(gone)'
    <3>1. PICK i \in Later : notices[i].path = gone
      BY <1>1, <2>1
    <3>2. i # 1 /\ i \in DOMAIN notices /\ notices[i].flag = "DELETE"
      BY <1>3
    <3>3. QED
      BY <1>4, <3>1, <3>2 DEF DeleteSent
  <2>2. QED
    BY <2>1
<1> HIDE DEF Later
<1>6. missed \subseteq missed' /\ Watched /\ Watched'
  BY <1>1 DEF Watched
<1>7. QuietStart' /\ AliveIsPlugged' /\ RemovesReplayed' /\ AddsReplayed'
  BY <1>1, <1>6 DEF HotplugInv, QuietStart, AliveIsPlugged, RemovesReplayed, AddsReplayed
<1>8. LastNotice'
  <2>1. SUFFICES ASSUME NEW i \in DOMAIN notices', notices'[i].path \notin missed',
                        \A j \in DOMAIN notices' : j > i => notices'[j].path # notices'[i].path
                 PROVE  notices'[i].flag = "CREATE" <=> plugged[notices'[i].path]
    BY <1>1 DEF LastNotice
  <2>2. i + 1 \in DOMAIN notices /\ notices[i + 1] = notices'[i]
    BY <1>3
  <2>3. ASSUME NEW j \in DOMAIN notices, j > i + 1 PROVE notices[j].path # notices[i + 1].path
    <3>1. j - 1 \in DOMAIN notices' /\ notices'[j - 1] = notices[j] /\ j - 1 > i
      BY <1>3, <1>4, <2>3
    <3>2. QED
      BY <2>1, <2>2, <3>1
  <2>4. QED
    BY <1>6, <2>1, <2>2, <2>3 DEF HotplugInv, LastNotice
<1>9. DeadNoted'
  <2>1. SUFFICES ASSUME NEW f \in DOMAIN readers, ~readers[f].alive, readers[f].path \notin missed',
                        readers[f].path \notin removePending
                 PROVE  DeleteSent(readers[f].path)'
    BY <1>1 DEF DeadNoted
  <2>2. DeleteSent(readers[f].path)
    BY <1>6, <2>1 DEF HotplugInv, DeadNoted
  <2>3. PICK i \in DOMAIN notices : notices[i].path = readers[f].path /\ notices[i].flag = "DELETE"
    BY <2>2 DEF DeleteSent
  <2>4. CASE i # 1
    BY <1>1, <1>4, <2>3, <2>4 DEF DeleteSent
  <2>5. CASE i = 1
    BY <1>1, <1>3, <1>5, <1>6, <2>1, <2>3, <2>5 DEF DeleteSent
  <2>6. QED
    BY <2>4, <2>5
<1>10. CreatedNoted'
  <2>1. SUFFICES ASSUME NEW p \in Paths \ missed', Known(p), plugged[p], Told(p)', p \notin addPending
                 PROVE  p \notin removePending /\ (Opened(p) \/ (pc = "scan" /\ p \in todo))
    BY <1>1 DEF CreatedNoted, Opened, Known
  <2>2. \A i \in DOMAIN notices : i # 1 => notices[i].path # p
    BY <1>4, <2>1 DEF Told
  <2>3. ~DeleteSent(p)'
    BY <2>1 DEF Told, DeleteSent
  <2>4. gone # p
    BY <1>5, <1>6, <2>1, <2>3
  <2>5. Told(p)
    BY <1>3, <2>2, <2>4 DEF Told
  <2>6. QED
    BY <1>6, <2>1, <2>5 DEF HotplugInv, CreatedNoted
<1>11. QED
  BY <1>7, <1>8, <1>9, <1>10 DEF HotplugInv

(* A device is opened, from the directory or from a note.                  *)
LEMMA AddStep ==
  ASSUME Base, HotplugInv, NEW p \in Paths, AddReader(p)
  PROVE  HotplugInv'
<1>1. /\ pc \in {"scan", "add"} /\ p \in todo /\ todo' = todo \ {p}
      /\ UNCHANGED <<plugged, notices, signalled, addPending, removePending, pc, missed>>
  BY DEF AddReader, kernel, pending, history
<1>2. /\ \A f \in DOMAIN readers : f \in DOMAIN readers' /\ readers'[f] = readers[f]
      /\ \A f \in DOMAIN readers' \ DOMAIN readers :
            readers'[f].path = p /\ readers'[f].alive /\ plugged[p]
      /\ ReadersOf(p) = {} /\ plugged[p] /\ Known(p) => Opened(p)'
  <2>1. CASE UNCHANGED <<readers, slots>> /\ (ReadersOf(p) # {} \/ ~plugged[p] \/ ~Known(p))
    BY <2>1
  <2>2. CASE ReadersOf(p) = {} /\ plugged[p] /\ Known(p)
    <3> DEFINE fd == LeastOf(Free)
    <3>1. readers' = [f \in DOMAIN readers \cup {fd} |-> IF f = fd THEN NewReader(p) ELSE readers[f]]
      BY <2>2 DEF AddReader, Known
    <3>2. fd \notin DOMAIN readers
      BY <2>2, DescriptorFree DEF Free
    <3>3. NewReader(p).path = p /\ NewReader(p).alive = TRUE
      BY DEF NewReader
    <3> HIDE DEF fd
    <3>4. QED
      BY <2>2, <3>1, <3>2, <3>3 DEF Opened
  <2>3. QED
    BY <2>1, <2>2 DEF AddReader, Known
<1>3. \A q \in Paths : Told(q)' = Told(q) /\ DeleteSent(q)' = DeleteSent(q) /\ (Opened(q) => Opened(q)')
  BY <1>1, <1>2 DEF Told, DeleteSent, Opened
<1>4. QuietStart' /\ LastNotice' /\ RemovesReplayed'
  BY <1>1 DEF HotplugInv, QuietStart, LastNotice, RemovesReplayed, Watched
<1>5. AliveIsPlugged'
  BY <1>1, <1>2 DEF HotplugInv, AliveIsPlugged
<1>6. DeadNoted'
  BY <1>1, <1>2 DEF HotplugInv, DeadNoted, DeleteSent
<1>7. CreatedNoted'
  <2>1. SUFFICES ASSUME NEW q \in Paths \ missed, Known(q), plugged[q], Told(q), q \notin addPending
                 PROVE  q \notin removePending /\ (Opened(q)' \/ (pc = "scan" /\ q \in todo \ {p}))
    BY <1>1, <1>3 DEF CreatedNoted, Known
  <2>2. q \notin removePending /\ (Opened(q) \/ (pc = "scan" /\ q \in todo))
    BY <2>1 DEF HotplugInv, CreatedNoted
  <2>3. CASE q = p /\ ~Opened(p)
    <3>1. \A f \in ReadersOf(p) : ~readers[f].alive
      BY <2>3 DEF ReadersOf, Opened
    <3>2. ~DeleteSent(p)
      BY <2>1, <2>3 DEF Told, DeleteSent
    <3>3. ReadersOf(p) = {}
      BY <2>1, <2>2, <2>3, <3>1, <3>2 DEF HotplugInv, DeadNoted, ReadersOf
    <3>4. QED
      BY <1>2, <2>1, <2>2, <2>3, <3>3
  <2>4. QED
    BY <1>3, <2>2, <2>3
<1>8. AddsReplayed'
  <2>1. SUFFICES ASSUME pc = "add", NEW q \in Paths \ missed, Known(q), Told(q)
                 PROVE  Replayed(q)'
    BY <1>1, <1>3 DEF AddsReplayed, Known
  <2>2. Replayed(q)
    BY <2>1 DEF HotplugInv, AddsReplayed
  <2>3. \A f \in ReadersOf(q)' : readers'[f].alive
    BY <1>2, <2>2 DEF Replayed, ReadersOf
  <2>4. ASSUME plugged[q], q \notin todo \ {p} PROVE Opened(q)'
    <3>1. CASE q # p \/ Opened(q)
      BY <1>3, <2>1, <2>2, <2>4, <3>1 DEF Replayed
    <3>2. CASE q = p /\ ~Opened(p)
      <4>1. ReadersOf(p) = {}
        BY <2>2, <3>2 DEF Replayed, ReadersOf, Opened
      <4>2. QED
        BY <1>2, <2>1, <2>4, <3>2, <4>1
    <3>3. QED
      BY <3>1, <3>2
  <2>5. QED
    BY <1>1, <2>1, <2>3, <2>4 DEF Replayed
<1>9. QED
  BY <1>4, <1>5, <1>6, <1>7, <1>8 DEF HotplugInv

(* A device is closed because of a note.                                   *)
LEMMA RemoveStep ==
  ASSUME Base, HotplugInv, NEW p \in Paths, RemoveReader(p)
  PROVE  HotplugInv'
<1>1. /\ pc = "remove" /\ p \in todo /\ todo' = todo \ {p}
      /\ UNCHANGED <<plugged, notices, signalled, addPending, removePending, pc, missed>>
  BY DEF RemoveReader, kernel, pending, history
<1>2. /\ \A f \in DOMAIN readers' : f \in DOMAIN readers /\ readers'[f] = readers[f]
      /\ \A f \in DOMAIN readers' : readers[f].path # p
      /\ \A f \in DOMAIN readers : readers[f].path # p => f \in DOMAIN readers'
  <2>1. CASE ReadersOf(p) = {}
    BY <2>1 DEF RemoveReader, ReadersOf
  <2>2. CASE ReadersOf(p) # {}
    <3>1. PICK fd \in ReadersOf(p) : readers' = [f \in DOMAIN readers \ {fd} |-> readers[f]]
      BY <2>2 DEF RemoveReader
    <3>2. \A f \in DOMAIN readers : readers[f].path = p => f = fd
      BY DEF Base, OneReader, ReadersOf
    <3>3. QED
      BY <3>1, <3>2 DEF ReadersOf
  <2>3. QED
    BY <2>1, <2>2
<1>3. \A q \in Paths : /\ Told(q)' = Told(q) /\ DeleteSent(q)' = DeleteSent(q)
                       /\ q # p /\ Opened(q) => Opened(q)'
  BY <1>1, <1>2 DEF Told, DeleteSent, Opened
<1>4. p \in removePending
  BY <1>1 DEF HotplugInv, RemovesReplayed
<1>5. QuietStart' /\ LastNotice' /\ AddsReplayed'
  BY <1>1 DEF HotplugInv, QuietStart, LastNotice, AddsReplayed, Watched
<1>6. AliveIsPlugged'
  BY <1>1, <1>2 DEF HotplugInv, AliveIsPlugged
<1>7. DeadNoted'
  BY <1>1, <1>2 DEF HotplugInv, DeadNoted, DeleteSent
<1>8. CreatedNoted'
  BY <1>1, <1>3, <1>4 DEF HotplugInv, CreatedNoted, Known
<1>9. RemovesReplayed'
  BY <1>1, <1>2 DEF HotplugInv, RemovesReplayed
<1>10. QED
  BY <1>5, <1>6, <1>7, <1>8, <1>9 DEF HotplugInv

(* The replay goes on: from its start to the deleted nodes, to the created *)
(* ones, to its end.                                                       *)
LEMMA FlushStep ==
  ASSUME Base, HotplugInv, Flush
  PROVE  HotplugInv'
<1>1. UNCHANGED <<plugged, notices, readers, signalled, addPending, removePending, missed>>
  BY DEF Flush, kernel, pending, history
<1>2. Watched /\ Watched' /\ pc # "scan"
  BY DEF Flush, Watched
<1>3. /\ QuietStart' /\ AliveIsPlugged' /\ LastNotice' /\ DeadNoted'
  BY <1>1, <1>2 DEF HotplugInv, QuietStart, AliveIsPlugged, LastNotice, DeadNoted, DeleteSent
<1>4. CreatedNoted'
  BY <1>1, <1>2 DEF HotplugInv, CreatedNoted, Told, Opened, Known
<1>5. RemovesReplayed'
  BY <1>1 DEF Flush, RemovesReplayed
<1>6. AddsReplayed'
  <2>1. SUFFICES ASSUME pc' = "add" \/ pc' = "poll", NEW q \in Paths \ missed, Known(q), Told(q)
                 PROVE  Replayed(q)'
    BY <1>1 DEF AddsReplayed, Known, Told
  <2>2. CASE pc' = "poll"
    <3>1. pc = "add" /\ todo = {}
      BY <2>2 DEF Flush
    <3>2. Replayed(q)
      BY <2>1, <3>1 DEF HotplugInv, AddsReplayed
    <3>3. QED
      BY <1>1, <2>2, <3>1, <3>2 DEF Replayed, ReadersOf, Opened
  <2>3. CASE pc' = "add"
    <3>1. pc = "remove" /\ todo = {} /\ todo' = addPending
      BY <2>3 DEF Flush
    <3>2. \A f \in DOMAIN readers : readers[f].path \notin removePending
      BY <3>1 DEF HotplugInv, RemovesReplayed
    <3>3. \A f \in ReadersOf(q) : readers[f].alive
      BY <2>1, <3>2 DEF HotplugInv, DeadNoted, DeleteSent, Told, ReadersOf
    <3>4. plugged[q] /\ q \notin addPending => Opened(q)
      BY <2>1, <3>1 DEF HotplugInv, CreatedNoted
    <3>5. QED
      BY <1>1, <2>3, <3>1, <3>3, <3>4 DEF Replayed, ReadersOf, Opened
  <2>4. QED
    BY <2>1, <2>2, <2>3
<1>7. QED
  BY <1>3, <1>4, <1>5, <1>6 DEF HotplugInv

LEMMA HotplugStep == Base /\ HotplugInv /\ [Next]_vars => HotplugInv'
<1> SUFFICES ASSUME Base, HotplugInv, [Next]_vars PROVE HotplugInv'
  OBVIOUS
<1>1. ASSUME NEW p \in Paths, Reports(p) PROVE HotplugInv'
  <2>1. PICK k \in ReportKinds, single \in BOOLEAN : Report(p, k, single)
    BY <1>1, ReportsSend
  <2>2. \A f \in DOMAIN readers : readers[f] \in ReaderType
    BY DEF Base, TypeOK, ReaderType
  <2>3. /\ DOMAIN readers' = DOMAIN readers
        /\ \A f \in DOMAIN readers : /\ readers'[f].path = readers[f].path
                                     /\ readers'[f].alive = readers[f].alive
    BY <2>1, <2>2 DEF Report, ReaderType
  <2>4. UNCHANGED <<plugged, notices, addPending, removePending, missed, pc, todo, signalled>>
    BY <2>1 DEF Report, pending
  <2>5. QED
    BY <2>3, <2>4, CalmStep DEF Watched
<1>2. ASSUME NEW p \in Paths, Plug(p) \/ Unplug(p) PROVE HotplugInv'
  BY <1>2, MissedStep, NoticedStep
<1>3. ASSUME NEW f \in Fds, OtherOpen(f) \/ OtherClose(f) PROVE HotplugInv'
  <2>1. UNCHANGED <<plugged, notices, readers, addPending, removePending, missed, pc, todo, signalled>>
    BY <1>3 DEF OtherOpen, OtherClose, pending, history
  <2>2. QED
    BY <2>1, CalmStep DEF Watched
<1>4. CASE OnInputDevUpdated \/ Unclaimed
  BY <1>4, DeliveryStep, UnclaimedStep
<1>5. ASSUME NEW p \in Paths, AddReader(p) \/ RemoveReader(p) PROVE HotplugInv'
  BY <1>5, AddStep, RemoveStep
<1>6. CASE Scanned \/ Start \/ StoreItem \/ Poll \/ PollFails \/ LoopAgain
  <2>1. /\ UNCHANGED <<plugged, notices, readers, addPending, removePending, missed>>
        /\ pc = "scan" => todo = {}
        /\ pc' \notin {"remove", "add", "poll"}
        /\ ~Watched' => ~Watched
    BY <1>6 DEF Scanned, Start, StoreItem, Poll, PollFails, LoopAgain, kernel, pending, history, Watched
  <2>2. QED
    BY <2>1, CalmStep
<1>7. CASE Flush
  BY <1>7, FlushStep
<1>8. CASE HandleInput \/ ParseReport
  <2>1. /\ UNCHANGED <<plugged, notices, addPending, removePending, missed, pc, todo>>
        /\ pc = "handle"
    BY <1>8 DEF HandleInput, ParseReport, kernel, pending, history
  <2>2. \A f \in DOMAIN readers : readers[f] \in ReaderType
    BY DEF Base, TypeOK, ReaderType
  <2>3. /\ DOMAIN readers' = DOMAIN readers
        /\ \A f \in DOMAIN readers : /\ readers'[f].path = readers[f].path
                                     /\ readers'[f].alive = readers[f].alive
    BY <1>8, <2>2 DEF HandleInput, ParseReport, ReaderType
  <2>4. QED
    BY <2>1, <2>3, CalmStep DEF Watched
<1>9. CASE UNCHANGED vars
  <2>1. UNCHANGED <<plugged, notices, readers, addPending, removePending, missed, pc, todo, signalled>>
    BY <1>9 DEF vars, kernel, pending, history
  <2>2. QED
    BY <2>1, CalmStep DEF Watched
<1>10. QED
  BY <1>1, <1>2, <1>3, <1>4, <1>5, <1>6, <1>7, <1>8, <1>9 DEF Next, Environment, Thread,
     Reports

LEMMA HotplugInvariant == SafeSpec => []HotplugInv
<1>1. QED
  BY BaseInvariant, HotplugInit, HotplugStep, PTL DEF SafeSpec

(* Whatever comes and goes, and wherever the input thread is when it is    *)
(* told: waiting in poll() with an empty pipe it has a reader of every     *)
(* device that is there and whose notices have all been delivered, and     *)
(* none of one that is not, although the notes are never cleared.          *)
THEOREM ChangesHonoured == SafeSpec => []HotplugHonoured
<1>1. Base /\ HotplugInv => HotplugHonoured
  <2>1. SUFFICES ASSUME Base, HotplugInv, pc = "poll", ~signalled,
                        NEW p \in Paths \ missed, Known(p), Told(p)
                 PROVE  IF plugged[p] THEN \E f \in ReadersOf(p) : readers[f].alive
                                      ELSE ReadersOf(p) = {}
    BY DEF HotplugHonoured, Known, Told
  <2>2. Replayed(p)
    BY <2>1 DEF HotplugInv, AddsReplayed
  <2>3. CASE plugged[p]
    BY <2>1, <2>2, <2>3 DEF Replayed, Opened, ReadersOf
  <2>4. CASE ~plugged[p]
    BY <2>1, <2>2, <2>4 DEF HotplugInv, AliveIsPlugged, Replayed, ReadersOf
  <2>5. QED
    BY <2>3, <2>4
<1>2. QED
  BY <1>1, BaseInvariant, HotplugInvariant, PTL

-----------------------------------------------------------------------------
(* A device that is never removed.                                         *)

(* The reports of reader f that have been read and are yet to be handled.  *)
BatchOf(f) == IF reading = f THEN batch ELSE <<>>

Stays(p) ==
  p \notin removePending /\ Told(p) /\ \A f \in ReadersOf(p) : readers[f].alive

(* A step leaves p aside: its reader, its reports and its keys.            *)
Aside(p) ==
  /\ ReadersOf(p)' = ReadersOf(p)
  /\ \A f \in ReadersOf(p) : readers'[f] = readers[f] /\ BatchOf(f)' = BatchOf(f)
  /\ held'[p] = held[p]
  /\ p \in unheard => p \in unheard'

(* Or p reports, is opened, is read from, or has a report handled.         *)
Opens(p)     == AddReader(p) /\ ReadersOf(p) = {} /\ readers' # readers
ReadsFrom(p) == HandleInput /\ slots[NextSlot] \in ReadersOf(p)
Handles(p)   == ParseReport /\ reading \in ReadersOf(p)

LEMMA AsideWhenKept ==
  ASSUME NEW p \in Paths, Stays(p), UNCHANGED readers,
         batch' = batch, batch # <<>> => reading' = reading,
         UNCHANGED <<held, unheard, notices, removePending>>
  PROVE  Stays(p)' /\ Aside(p)
<1>1. Told(p)' /\ ReadersOf(p)' = ReadersOf(p)
  BY DEF Stays, Told, ReadersOf
<1>2. \A f \in ReadersOf(p) : BatchOf(f)' = BatchOf(f)
  BY DEF BatchOf
<1>3. QED
  BY <1>1, <1>2 DEF Stays, Aside

LEMMA StayingStep ==
  ASSUME Base, HotplugInv, [Next]_vars, NEW p \in Paths, p \notin Removable, Stays(p)
  PROVE  \/ Stays(p)' /\ Aside(p)
         \/ Reports(p) \/ Opens(p) \/ ReadsFrom(p) \/ Handles(p)
<1> SUFFICES ASSUME ~Reports(p), ~Opens(p), ~ReadsFrom(p), ~Handles(p)
             PROVE  Stays(p)' /\ Aside(p)
  OBVIOUS
<1>0. p \notin removePending /\ Told(p) /\ \A f \in ReadersOf(p) : readers[f].alive
  BY DEF Stays
<1>1. \A f \in DOMAIN readers : readers[f] \in ReaderType
  BY DEF Base, TypeOK, ReaderType
<1>2. held \in [Paths -> 0..MaxHeld] /\ notices \in Seq(NoticeType)
  BY DEF Base, TypeOK, NoticeType
<1>3. ASSUME NEW q \in Paths, Reports(q) PROVE Stays(p)' /\ Aside(p)
  <2>1. q # p
    BY <1>3
  <2>2. PICK k \in ReportKinds, single \in BOOLEAN : Report(q, k, single)
    BY <1>3, ReportsSend
  <2>3. /\ DOMAIN readers' = DOMAIN readers
        /\ \A f \in DOMAIN readers : readers'[f].path = readers[f].path
        /\ \A f \in DOMAIN readers : readers[f].path = p => readers'[f] = readers[f]
    BY <1>1, <2>1, <2>2 DEF Report, ReaderType
  <2>4. ReadersOf(p)' = ReadersOf(p) /\ \A f \in ReadersOf(p) : readers'[f] = readers[f]
    BY <2>3 DEF ReadersOf
  <2>5. /\ UNCHANGED <<notices, removePending, reading, batch>>
        /\ p \in unheard => p \in unheard'
    BY <2>2 DEF Report, pending, parsing
  <2>6. held'[p] = held[p]
    BY <1>3, <2>1, ReportsSend
  <2>7. Told(p)' /\ \A f \in ReadersOf(p) : BatchOf(f)' = BatchOf(f)
    BY <1>0, <2>5 DEF Told, BatchOf
  <2>8. QED
    BY <1>0, <2>4, <2>5, <2>6, <2>7 DEF Stays, Aside
<1>4. ASSUME NEW q \in Paths, Plug(q) \/ Unplug(q) PROVE Stays(p)' /\ Aside(p)
  <2>1. PICK flag \in {"CREATE", "DELETE"} : Notice(q, flag)
    BY <1>4 DEF Plug, Unplug
  <2>2. q # p
    BY <2>1 DEF Notice
  <2>3. /\ DOMAIN readers' = DOMAIN readers
        /\ \A f \in DOMAIN readers : readers'[f].path = readers[f].path
        /\ \A f \in DOMAIN readers : readers[f].path = p => readers'[f] = readers[f]
    <3>1. CASE Plug(q)
      BY <3>1 DEF Plug
    <3>2. CASE Unplug(q)
      BY <1>1, <2>2, <3>2 DEF Unplug, ReaderType
    <3>3. QED
      BY <1>4, <3>1, <3>2
  <2>4. ReadersOf(p)' = ReadersOf(p) /\ \A f \in ReadersOf(p) : readers'[f] = readers[f]
    BY <2>3 DEF ReadersOf
  <2>5. UNCHANGED <<removePending, reading, batch, unheard>>
    BY <2>1 DEF Notice, pending, parsing
  <2>6. held'[p] = held[p]
    BY <1>2, <1>4, <2>2 DEF Plug, Unplug
  <2>7. Told(p)'
    <3>1. PICK n \in NoticeType : n = [path |-> q, flag |-> flag]
      BY DEF NoticeType
    <3>2. CASE notices' = notices
      BY <1>0, <3>2 DEF Told
    <3>3. CASE notices' = Append(notices, n)
      <4>1. /\ DOMAIN notices' = 1 .. Len(notices) + 1 /\ DOMAIN notices = 1 .. Len(notices)
            /\ \A i \in 1 .. Len(notices) : notices'[i] = notices[i]
            /\ notices'[Len(notices) + 1] = n /\ Len(notices) \in Nat
        BY <1>2, <3>3
      <4>2. n.path # p
        BY <2>2, <3>1
      <4>3. QED
        BY <1>0, <4>1, <4>2 DEF Told
    <3>4. QED
      BY <2>1, <3>1, <3>2, <3>3 DEF Notice
  <2>8. \A f \in ReadersOf(p) : BatchOf(f)' = BatchOf(f)
    BY <2>5 DEF BatchOf
  <2>9. QED
    BY <1>0, <2>4, <2>5, <2>6, <2>7, <2>8 DEF Stays, Aside
<1>5. ASSUME NEW f \in Fds, OtherOpen(f) \/ OtherClose(f) PROVE Stays(p)' /\ Aside(p)
  <2>1. UNCHANGED <<readers, reading, batch, held, unheard, removePending, notices>>
    BY <1>5 DEF OtherOpen, OtherClose, parsing, pending, history
  <2>2. QED
    BY <2>1, AsideWhenKept
<1>6. CASE OnInputDevUpdated \/ Unclaimed
  <2>1. /\ UNCHANGED <<readers, reading, batch, held, unheard>>
        /\ notices # <<>> /\ notices' = Tail(notices)
        /\ removePending' \subseteq removePending \cup {Head(notices).path}
    BY <1>6 DEF OnInputDevUpdated, Unclaimed, pending, parsing, history
  <2>2. /\ Head(notices) = notices[1] /\ 1 \in DOMAIN notices
        /\ \A i \in DOMAIN notices' : i + 1 \in DOMAIN notices /\ notices'[i] = notices[i + 1]
    BY <1>2, <2>1
  <2>3. p \notin removePending' /\ Told(p)'
    BY <1>0, <2>1, <2>2 DEF Told
  <2>4. ReadersOf(p)' = ReadersOf(p) /\ \A f \in ReadersOf(p) : BatchOf(f)' = BatchOf(f)
    BY <2>1 DEF ReadersOf, BatchOf
  <2>5. QED
    BY <1>0, <2>1, <2>3, <2>4 DEF Stays, Aside
<1>7. ASSUME NEW q \in Paths, AddReader(q) PROVE Stays(p)' /\ Aside(p)
  <2>1. UNCHANGED <<held, notices, removePending, reading, batch, unheard>>
    BY <1>7 DEF AddReader, kernel, pending, parsing, history
  <2>2. CASE UNCHANGED readers
    BY <2>1, <2>2, AsideWhenKept
  <2>3. CASE ReadersOf(q) = {} /\ ~UNCHANGED readers
    <3>1. PICK fd \in Free : readers' = [f \in DOMAIN readers \cup {fd} |->
                                            IF f = fd THEN NewReader(q) ELSE readers[f]]
      BY <1>7, <2>3, DescriptorFree DEF AddReader
    <3>2. NewReader(q).path # p
      BY <1>7, <2>3 DEF NewReader, Opens
    <3>3. ReadersOf(p)' = ReadersOf(p) /\ \A f \in ReadersOf(p) : readers'[f] = readers[f]
      BY <3>1, <3>2 DEF ReadersOf, Free
    <3>4. Told(p)' /\ \A f \in ReadersOf(p) : BatchOf(f)' = BatchOf(f)
      BY <1>0, <2>1 DEF Told, BatchOf
    <3>5. QED
      BY <1>0, <2>1, <3>3, <3>4 DEF Stays, Aside
  <2>4. QED
    BY <1>7, <2>2, <2>3 DEF AddReader
<1>8. ASSUME NEW q \in Paths, RemoveReader(q) PROVE Stays(p)' /\ Aside(p)
  <2>1. q # p
    BY <1>0, <1>8 DEF RemoveReader, HotplugInv, RemovesReplayed
  <2>2. UNCHANGED <<held, notices, removePending, reading, batch, unheard>>
    BY <1>8 DEF RemoveReader, kernel, pending, parsing, history
  <2>3. ReadersOf(p)' = ReadersOf(p) /\ \A f \in ReadersOf(p) : readers'[f] = readers[f]
    BY <1>8, <2>1 DEF RemoveReader, ReadersOf
  <2>4. Told(p)' /\ \A f \in ReadersOf(p) : BatchOf(f)' = BatchOf(f)
    BY <1>0, <2>2 DEF Told, BatchOf
  <2>5. QED
    BY <1>0, <2>2, <2>3, <2>4 DEF Stays, Aside
<1>9. CASE \/ Scanned \/ Start \/ StoreItem \/ Flush \/ Poll
           \/ PollFails \/ LoopAgain \/ UNCHANGED vars
  <2>1. UNCHANGED <<readers, reading, batch, held, unheard, removePending, notices>>
    BY <1>9 DEF Scanned, Start, StoreItem, Flush, Poll, PollFails, LoopAgain, vars, kernel,
       parsing, pending, history
  <2>2. QED
    BY <2>1, AsideWhenKept
<1>10. CASE HandleInput
  <2>0. PICK fd : fd = slots[NextSlot]
    OBVIOUS
  <2>1. batch = <<>> /\ UNCHANGED <<held, notices, removePending, unheard>>
    BY <1>10 DEF HandleInput, kernel, pending, history
  <2>2. CASE fd \notin DOMAIN readers
    BY <1>10, <2>0, <2>1, <2>2, AsideWhenKept DEF HandleInput
  <2>3. CASE fd \in DOMAIN readers
    <3>1. /\ reading' = fd /\ readers' = [readers EXCEPT ![fd].queue = <<>>]
          /\ readers[fd] \in ReaderType /\ readers[fd].path # p
      BY <1>1, <1>10, <2>0, <2>3 DEF HandleInput, ReadsFrom, ReadersOf
    <3>2. /\ DOMAIN readers' = DOMAIN readers
          /\ \A f \in DOMAIN readers : f # fd => readers'[f] = readers[f]
          /\ readers'[fd].path = readers[fd].path
      BY <2>3, <3>1 DEF ReaderType
    <3>3. ReadersOf(p)' = ReadersOf(p) /\ \A f \in ReadersOf(p) : f # fd /\ readers'[f] = readers[f]
      BY <3>1, <3>2 DEF ReadersOf
    <3>4. Told(p)' /\ \A f \in ReadersOf(p) : BatchOf(f)' = BatchOf(f)
      BY <1>0, <2>1, <3>1, <3>3 DEF Told, BatchOf
    <3>5. QED
      BY <1>0, <2>1, <3>3, <3>4 DEF Stays, Aside
  <2>4. QED
    BY <2>2, <2>3
<1>11. CASE ParseReport
  <2>1. /\ reading \in DOMAIN readers /\ batch # <<>>
        /\ UNCHANGED <<held, notices, removePending, reading, unheard>>
    BY <1>11 DEF ParseReport, Base, ReadingOpen, kernel, pending, history
  <2>2. readers[reading] \in ReaderType /\ readers[reading].path # p
    BY <1>1, <1>11, <2>1 DEF Handles, ReadersOf
  <2>3. /\ DOMAIN readers' = DOMAIN readers
        /\ \A f \in DOMAIN readers : f # reading => readers'[f] = readers[f]
        /\ readers'[reading].path = readers[reading].path
    BY <1>11, <2>1, <2>2 DEF ParseReport, ReaderType
  <2>4. ReadersOf(p)' = ReadersOf(p) /\ \A f \in ReadersOf(p) : f # reading /\ readers'[f] = readers[f]
    BY <2>1, <2>2, <2>3 DEF ReadersOf
  <2>5. Told(p)' /\ \A f \in ReadersOf(p) : BatchOf(f)' = BatchOf(f)
    BY <1>0, <2>1, <2>4 DEF Told, BatchOf
  <2>6. QED
    BY <1>0, <2>1, <2>4, <2>5 DEF Stays, Aside
<1>12. QED
  BY <1>3, <1>4, <1>5, <1>6, <1>7, <1>8, <1>9, <1>10, <1>11 DEF Next, Environment, Thread, Reports

(* What the other steps do to the reader of p.                             *)

LEMMA ReportReaches ==
  ASSUME Base, NEW p \in Paths, Stays(p), NEW k \in ReportKinds, NEW single \in BOOLEAN,
         Report(p, k, single)
  PROVE  /\ Stays(p)' /\ ReadersOf(p)' = ReadersOf(p)
         /\ p \notin unheard' => p \notin unheard /\ ReadersOf(p) # {} /\ single
         /\ \A f \in ReadersOf(p) :
              /\ readers[f] \in ReaderType /\ readers[f].path = p
              /\ BatchOf(f) \in Seq(ReportKinds) /\ BatchOf(f)' = BatchOf(f)
              /\ readers'[f].queue = Append(readers[f].queue, k)
              /\ readers'[f].pressed = readers[f].pressed
              /\ readers'[f].useEvtKey = readers[f].useEvtKey
              /\ readers'[f].path = p
<1>1. \A f \in DOMAIN readers : readers[f] \in ReaderType
  BY DEF Base, TypeOK, ReaderType
<1>2. \A f \in ReadersOf(p) : readers[f].alive
  BY DEF Stays
<1>3. DOMAIN readers' = DOMAIN readers /\ \A f \in DOMAIN readers : readers'[f].path = readers[f].path
  BY <1>1 DEF Report, ReaderType
<1>4. \A f \in ReadersOf(p) :
         readers'[f] = [readers[f] EXCEPT !.queue = Append(readers[f].queue, k)]
  BY <1>2 DEF Report, ReadersOf
<1>5. ReadersOf(p)' = ReadersOf(p)
  BY <1>3 DEF ReadersOf
<1>6. UNCHANGED <<notices, removePending, reading, batch>>
  BY DEF Report, pending, parsing
<1>7. \A f \in ReadersOf(p) :
         /\ readers[f] \in ReaderType /\ readers[f].path = p
         /\ readers'[f].queue = Append(readers[f].queue, k)
         /\ readers'[f].pressed = readers[f].pressed
         /\ readers'[f].useEvtKey = readers[f].useEvtKey
         /\ readers'[f].alive = readers[f].alive
         /\ readers'[f].path = p
  BY <1>1, <1>4 DEF ReaderType, ReadersOf
<1>8. Stays(p)'
  BY <1>5, <1>6, <1>7 DEF Stays, Told
<1>9. \A f \in ReadersOf(p) : BatchOf(f) \in Seq(ReportKinds) /\ BatchOf(f)' = BatchOf(f)
  BY <1>6, EmptySeq DEF BatchOf, Base, TypeOK
<1>10. p \notin unheard' => p \notin unheard /\ ReadersOf(p) # {} /\ single
  BY DEF Report
<1>11. QED
  BY <1>5, <1>7, <1>8, <1>9, <1>10

LEMMA OpenReaches ==
  ASSUME Base, NEW p \in Paths, Stays(p), Opens(p)
  PROVE  /\ Stays(p)' /\ UNCHANGED <<held, unheard, touch, button>>
         /\ \E fd : /\ ReadersOf(p)' = {fd} /\ BatchOf(fd)' = <<>>
                    /\ readers'[fd].pressed = FALSE /\ readers'[fd].queue = <<>>
                    /\ readers'[fd].path = p
<1>1. UNCHANGED <<held, notices, removePending, reading, batch, unheard, touch, button>>
  BY DEF Opens, AddReader, kernel, pending, parsing, history
<1>2. PICK fd : readers' = [f \in DOMAIN readers \cup {fd} |->
                              IF f = fd THEN NewReader(p) ELSE readers[f]]
  BY DEF Opens, AddReader
<1>3. ReadersOf(p)' = {fd} /\ readers'[fd] = NewReader(p)
  BY <1>2 DEF ReadersOf, NewReader, Opens
<1>4. batch = <<>>
  BY DEF Opens, AddReader, Base, ReadingOpen
<1>5. Stays(p)'
  BY <1>1, <1>3 DEF Stays, Told, NewReader
<1>6. BatchOf(fd)' = <<>>
  BY <1>1, <1>4 DEF BatchOf
<1>7. /\ readers'[fd].pressed = FALSE /\ readers'[fd].queue = <<>> /\ readers'[fd].path = p
  BY <1>3 DEF NewReader
<1>8. QED
  BY <1>1, <1>3, <1>5, <1>6, <1>7

LEMMA ReadReaches ==
  ASSUME Base, NEW p \in Paths, Stays(p), ReadsFrom(p)
  PROVE  /\ Stays(p)' /\ UNCHANGED <<held, unheard, touch, button>>
         /\ \E fd : /\ ReadersOf(p) = {fd} /\ ReadersOf(p)' = {fd}
                    /\ readers[fd] \in ReaderType /\ readers[fd].path = p
                    /\ BatchOf(fd) = <<>> /\ BatchOf(fd)' = readers[fd].queue
                    /\ readers'[fd].queue = <<>>
                    /\ readers'[fd].pressed = readers[fd].pressed
                    /\ readers'[fd].useEvtKey = readers[fd].useEvtKey
                    /\ readers'[fd].path = p
<1>1. PICK fd : fd = slots[NextSlot]
  OBVIOUS
<1>2. /\ fd \in DOMAIN readers /\ readers[fd].path = p /\ readers[fd] \in ReaderType
  BY <1>1 DEF ReadsFrom, ReadersOf, Base, TypeOK, ReaderType
<1>3. /\ batch = <<>> /\ reading' = fd /\ batch' = readers[fd].queue
      /\ readers' = [readers EXCEPT ![fd].queue = <<>>]
      /\ UNCHANGED <<held, notices, removePending, unheard, touch, button>>
  BY <1>1, <1>2 DEF ReadsFrom, HandleInput, kernel, pending, history
<1>4. /\ DOMAIN readers' = DOMAIN readers
      /\ \A f \in DOMAIN readers : f # fd => readers'[f] = readers[f]
      /\ readers'[fd] = [readers[fd] EXCEPT !.queue = <<>>]
  BY <1>2, <1>3
<1>5. /\ readers'[fd].queue = <<>> /\ readers'[fd].pressed = readers[fd].pressed
      /\ readers'[fd].useEvtKey = readers[fd].useEvtKey
      /\ readers'[fd].alive = readers[fd].alive /\ readers'[fd].path = p
  BY <1>2, <1>4 DEF ReaderType
<1>6. ReadersOf(p) = {fd} /\ ReadersOf(p)' = {fd}
  <2>1. ReadersOf(p) = {fd}
    BY <1>2 DEF Base, OneReader, ReadersOf
  <2>2. \A f \in DOMAIN readers : readers'[f].path = readers[f].path
    BY <1>2, <1>4, <1>5
  <2>3. QED
    BY <1>4, <2>1, <2>2 DEF ReadersOf
<1>7. BatchOf(fd) = <<>> /\ BatchOf(fd)' = readers[fd].queue
  BY <1>3 DEF BatchOf
<1>8. Stays(p)'
  BY <1>3, <1>5, <1>6 DEF Stays, Told
<1>9. QED
  BY <1>2, <1>3, <1>5, <1>6, <1>7, <1>8

LEMMA HandleReaches ==
  ASSUME Base, NEW p \in Paths, Stays(p), Handles(p)
  PROVE  /\ Stays(p)' /\ UNCHANGED <<held, unheard>>
         /\ batch \in Seq(ReportKinds) /\ batch # <<>>
         /\ \E fd, r, k :
              /\ fd = reading /\ r = readers[fd] /\ k = Head(batch)
              /\ r \in ReaderType /\ k \in ReportKinds
              /\ ReadersOf(p) = {fd} /\ ReadersOf(p)' = {fd} /\ r.path = p
              /\ BatchOf(fd) = batch /\ BatchOf(fd)' = Tail(batch)
              /\ readers'[fd].queue = r.queue
              /\ readers'[fd].pressed = PressedAfter(r, k)
              /\ readers'[fd].useEvtKey = (r.useEvtKey \/ HasEvtKey(p, k))
              /\ readers'[fd].path = p
              /\ Handle(p, PressedAfter(r, k), k = "edge")
<1>1. PICK fd : fd = reading
  OBVIOUS
<1>2. PICK k : k = Head(batch)
  OBVIOUS
<1>3. PICK r : r = readers[fd]
  OBVIOUS
<1>4. /\ batch # <<>> /\ batch' = Tail(batch)
      /\ UNCHANGED <<held, notices, removePending, reading, unheard>>
  BY DEF Handles, ParseReport, kernel, pending, history
<1>5. fd \in DOMAIN readers /\ r \in ReaderType /\ r.path = p
  BY <1>1, <1>3 DEF Handles, ReadersOf, Base, TypeOK, ReaderType
<1>6. /\ DOMAIN readers' = DOMAIN readers
      /\ \A f \in DOMAIN readers : f # fd => readers'[f] = readers[f]
      /\ readers'[fd] = [r EXCEPT !.pressed = PressedAfter(r, k),
                                  !.useEvtKey = r.useEvtKey \/ HasEvtKey(p, k)]
      /\ Handle(p, PressedAfter(r, k), k = "edge")
  BY <1>1, <1>2, <1>3, <1>5 DEF Handles, ParseReport, ReaderType
<1>7. /\ readers'[fd].path = p /\ readers'[fd].alive = r.alive
      /\ readers'[fd].queue = r.queue /\ readers'[fd].pressed = PressedAfter(r, k)
      /\ readers'[fd].useEvtKey = (r.useEvtKey \/ HasEvtKey(p, k))
  BY <1>5, <1>6 DEF ReaderType
<1>8. ReadersOf(p) = {fd} /\ ReadersOf(p)' = {fd}
  BY <1>3, <1>5, <1>6, <1>7 DEF Base, OneReader, ReadersOf
<1>9. BatchOf(fd) = batch /\ BatchOf(fd)' = Tail(batch)
  BY <1>1, <1>4 DEF BatchOf
<1>10. Stays(p)'
  BY <1>3, <1>4, <1>7, <1>8 DEF Stays, Told
<1>11. batch \in Seq(ReportKinds) /\ k \in ReportKinds
  BY <1>2, <1>4 DEF Base, TypeOK
<1>12. QED
  BY <1>1, <1>2, <1>3, <1>4, <1>5, <1>6, <1>7, <1>8, <1>9, <1>10, <1>11

-----------------------------------------------------------------------------
(* What a sequence of reports leads to.                                    *)

(* The reports s lead from state a to state b, in the steps of R between   *)
(* the states of D.                                                        *)
Runs(D, R, a, s, b) ==
  \E c \in [0 .. Len(s) -> D] :
    /\ c[0] = a /\ c[Len(s)] = b
    /\ \A i \in 1 .. Len(s) : <<c[i - 1], s[i], c[i]>> \in R

LEMMA RunsNowhere ==
  ASSUME NEW D, NEW R, NEW a \in D, NEW b \in D
  PROVE  Runs(D, R, a, <<>>, b) <=> a = b
<1>1. Len(<<>>) = 0 /\ 0 .. 0 = {0} /\ 1 .. 0 = {}
  OBVIOUS
<1>2. Runs(D, R, a, <<>>, b) => a = b
  BY <1>1 DEF Runs
<1>3. ASSUME a = b PROVE Runs(D, R, a, <<>>, b)
  <2>1. [i \in 0 .. 0 |-> a] \in [0 .. Len(<<>>) -> D] /\ [i \in 0 .. 0 |-> a][0] = a
    BY <1>1
  <2>2. QED
    BY <1>1, <1>3, <2>1 DEF Runs
<1>4. QED
  BY <1>2, <1>3

LEMMA RunsOn ==
  ASSUME NEW D, NEW R, NEW s \in Seq(ReportKinds), NEW k \in ReportKinds,
         NEW a \in D, NEW b \in D, NEW n \in D,
         Runs(D, R, a, s, b), <<b, k, n>> \in R
  PROVE  Runs(D, R, a, Append(s, k), n)
<1>1. PICK c \in [0 .. Len(s) -> D] :
        /\ c[0] = a /\ c[Len(s)] = b
        /\ \A i \in 1 .. Len(s) : <<c[i - 1], s[i], c[i]>> \in R
  BY DEF Runs
<1>2. PICK L \in Nat : L = Len(s)
  OBVIOUS
<1>3. PICK t : t = Append(s, k)
  OBVIOUS
<1>4. Len(t) = L + 1 /\ t[L + 1] = k /\ \A i \in 1 .. L : t[i] = s[i]
  BY <1>2, <1>3
<1>5. PICK d : d = [i \in 0 .. L + 1 |-> IF i = L + 1 THEN n ELSE c[i]]
  OBVIOUS
<1>6. d \in [0 .. L + 1 -> D] /\ d[0] = a /\ d[L + 1] = n
  <2>1. 0 \in 0 .. L + 1 /\ L + 1 \in 0 .. L + 1 /\ L + 1 # 0
    OBVIOUS
  <2>2. \A i \in 0 .. L + 1 : i # L + 1 => i \in 0 .. Len(s)
    BY <1>2
  <2>3. \A i \in 0 .. L + 1 : (IF i = L + 1 THEN n ELSE c[i]) \in D
    BY <1>1, <2>2
  <2>4. QED
    BY <1>1, <1>5, <2>1, <2>3
<1>7. ASSUME NEW i \in 1 .. L + 1
      PROVE  <<d[i - 1], t[i], d[i]>> \in R
  <2>1. CASE i = L + 1
    <3>1. d[i] = n /\ d[i - 1] = b /\ t[i] = k
      BY <1>1, <1>2, <1>4, <1>5, <2>1
    <3>2. QED
      BY <3>1
  <2>2. CASE i # L + 1
    <3>1. i \in 1 .. L /\ d[i] = c[i] /\ d[i - 1] = c[i - 1] /\ t[i] = s[i]
      BY <1>4, <1>5, <2>2
    <3>2. QED
      BY <1>1, <1>2, <3>1
  <2>3. QED
    BY <2>1, <2>2
<1>8. QED
  BY <1>3, <1>4, <1>6, <1>7 DEF Runs

LEMMA RunsFirst ==
  ASSUME NEW D, NEW R, NEW s \in Seq(ReportKinds), s # <<>>,
         NEW a \in D, NEW b \in D, Runs(D, R, a, s, b)
  PROVE  \E n \in D : <<a, Head(s), n>> \in R /\ Runs(D, R, n, Tail(s), b)
<1>1. PICK c \in [0 .. Len(s) -> D] :
        /\ c[0] = a /\ c[Len(s)] = b
        /\ \A i \in 1 .. Len(s) : <<c[i - 1], s[i], c[i]>> \in R
  BY DEF Runs
<1>2. PICK L \in Nat : L + 1 = Len(s)
  <2>1. Len(s) \in Nat \ {0}
    OBVIOUS
  <2>2. Len(s) - 1 \in Nat /\ (Len(s) - 1) + 1 = Len(s)
    BY <2>1
  <2>3. QED
    BY <2>2
<1>3. PICK t : t = Tail(s)
  OBVIOUS
<1>4. Len(t) = L /\ Head(s) = s[1] /\ \A i \in 1 .. L : t[i] = s[i + 1]
  BY <1>2, <1>3
<1>5. PICK d : d = [i \in 0 .. L |-> c[i + 1]]
  OBVIOUS
<1>6. d \in [0 .. L -> D] /\ d[0] = c[1] /\ d[L] = b /\ c[1] \in D
  <2>1. 0 \in 0 .. L /\ L \in 0 .. L /\ 0 + 1 = 1 /\ 1 \in 0 .. Len(s)
    BY <1>2
  <2>2. \A i \in 0 .. L : i + 1 \in 0 .. Len(s)
    BY <1>2
  <2>3. \A i \in 0 .. L : c[i + 1] \in D
    BY <1>1, <2>2
  <2>4. d \in [0 .. L -> D]
    BY <1>5, <2>3
  <2>5. d[0] = c[1] /\ d[L] = c[L + 1]
    BY <1>5, <2>1
  <2>6. QED
    BY <1>1, <1>2, <2>1, <2>4, <2>5
<1>7. ASSUME NEW i \in 1 .. L
      PROVE  <<d[i - 1], t[i], d[i]>> \in R
  <2>1. /\ i + 1 \in 1 .. Len(s) /\ (i + 1) - 1 = i
        /\ d[i] = c[i + 1] /\ d[i - 1] = c[i] /\ t[i] = s[i + 1]
    BY <1>2, <1>4, <1>5
  <2>2. <<c[(i + 1) - 1], s[i + 1], c[i + 1]>> \in R
    BY <1>1, <2>1
  <2>3. QED
    BY <2>1, <2>2
<1>8. Runs(D, R, c[1], Tail(s), b)
  BY <1>3, <1>4, <1>6, <1>7 DEF Runs
<1>9. 1 \in 1 .. Len(s) /\ 1 - 1 = 0
  BY <1>2
<1>10. <<c[1 - 1], s[1], c[1]>> \in R
  BY <1>1, <1>9
<1>11. QED
  BY <1>1, <1>4, <1>6, <1>8, <1>9, <1>10

-----------------------------------------------------------------------------
(* One touch panel that stays and has BTN_TOUCH, among any other devices.  *)

OnePanel(p) == Panels = {p} /\ "key" \in Features[p] /\ p \notin Removable

(* What InputReader makes of a panel: it has not sent BTN_TOUCH since it   *)
(* was opened, it is released, or it is touched.                           *)
Marks == {"new", "off", "on"}

Mark(r) == IF r.pressed THEN "on" ELSE IF r.useEvtKey THEN "off" ELSE "new"

(* How a report of a panel changes that: tracking ids say nothing once     *)
(* BTN_TOUCH has come, and come alone only after it.                       *)
MarkSteps ==
  {st \in Marks \X ReportKinds \X Marks :
     CASE st[2] \in {"down", "edge", "first"}  -> st[3] = "on"
       [] st[2] \in {"up", "second"}           -> st[3] = "off"
       [] st[2] \in {"more", "fewer", "keep"}  -> st[1] # "new" /\ st[3] = st[1]
       [] OTHER                                -> FALSE}

Marked(a, s, b) == Runs(Marks, MarkSteps, a, s, b)

(* What is to be made of the fingers that are on p.                        *)
Fitting(p) ==
  {m \in Marks : IF held[p] = 0 THEN m # "on"
                 ELSE IF Ambiguous(p) THEN m # "new" ELSE m = "on"}

(* What reader f of p was told, has read and has yet to read, up to now.   *)
ReportsInOrder(p, f) ==
  /\ readers[f].pressed => readers[f].useEvtKey
  /\ \E m \in Marks, n \in Fitting(p) :
       Marked(Mark(readers[f]), BatchOf(f), m) /\ Marked(m, readers[f].queue, n)

TouchInv(p) ==
  /\ Stays(p)
  /\ \A f \in ReadersOf(p) : prevTouch = readers[f].pressed
  /\ ReadersOf(p) = {} => prevTouch = FALSE
  /\ p \notin unheard =>
       /\ ReadersOf(p) = {} => held[p] = 0
       /\ \A f \in ReadersOf(p) : ReportsInOrder(p, f)

LEMMA PanelIsTheOne ==
  ASSUME NEW p \in Paths, OnePanel(p)
  PROVE  /\ DevType[p] = "touch" /\ IsTouchPanel(p)
         /\ \A q \in Paths : q # p => DevType[q] # "touch"
<1>1. DevType[p] = "touch" /\ \A q \in Paths : q # p => DevType[q] # "touch"
  BY DEF OnePanel, Panels
<1>2. IsTouchPanel(p)
  BY <1>1 DEF DevType
<1>3. QED
  BY <1>1, <1>2

LEMMA PanelAside ==
  ASSUME NEW p \in Paths, TouchInv(p), Stays(p)', Aside(p), prevTouch' = prevTouch
  PROVE  TouchInv(p)'
<1>1. Fitting(p)' = Fitting(p)
  BY DEF Fitting, Ambiguous, Aside
<1>2. \A f \in ReadersOf(p) : ReportsInOrder(p, f) => ReportsInOrder(p, f)'
  BY <1>1 DEF Aside, ReportsInOrder
<1>3. QED
  BY <1>2 DEF TouchInv, Aside

(* Fingers go down, move, come and leave.                                  *)
LEMMA PanelReports ==
  ASSUME Base, NEW p \in Paths, OnePanel(p), TouchInv(p), Reports(p)
  PROVE  TouchInv(p)'
<1>1. held \in [Paths -> 0..MaxHeld] /\ held[p] \in Nat /\ DevType[p] = "touch"
  BY PanelIsTheOne, BoundsAssumption DEF Base, TypeOK
<1>2. PICK k \in ReportKinds, single \in BOOLEAN :
        /\ Report(p, k, single)
        /\ \A n \in Fitting(p) : \E m \in Fitting(p)' : <<n, k, m>> \in MarkSteps
  <2>1. CASE Fingers(p)
    <3>0. PICK h \in 0..MaxHeld : /\ held' = [held EXCEPT ![p] = h]
                                  /\ \E k \in FingerReports(p, h) : Report(p, k, TRUE)
      BY <2>1 DEF Fingers
    <3>1. PICK k \in FingerReports(p, h) : held' = [held EXCEPT ![p] = h] /\ Report(p, k, TRUE)
      BY <3>0
    <3>2. held'[p] = h /\ h \in Nat /\ k \in ReportKinds
      BY <1>1, <3>1, BoundsAssumption DEF FingerReports, ReportKinds
    <3>3. ASSUME NEW n \in Fitting(p)
          PROVE  \E m \in Fitting(p)' : <<n, k, m>> \in MarkSteps
      <4>1. CASE k \in {"down", "edge", "first"}
        <5>1. h > 0 /\ (k = "first" => h = 1) /\ (k # "first" => held[p] = 0)
          BY <1>1, <3>1, <3>2, <4>1 DEF FingerReports
        <5>2. "on" \in Fitting(p)'
          BY <3>2, <5>1 DEF Fitting, Marks, Ambiguous
        <5>3. <<n, k, "on">> \in MarkSteps
          BY <3>2, <3>3, <4>1 DEF MarkSteps, Fitting, Marks
        <5>4. QED
          BY <5>2, <5>3
      <4>2. CASE k \in {"up", "second"}
        <5>1. (k = "up" => h = 0) /\ (k = "second" => h > 1 /\ "finger" \in Features[p])
          BY <1>1, <3>1, <3>2, <4>2 DEF FingerReports
        <5>2. "off" \in Fitting(p)'
          BY <3>2, <4>2, <5>1 DEF Fitting, Marks, Ambiguous
        <5>3. <<n, k, "off">> \in MarkSteps
          BY <3>2, <3>3, <4>2 DEF MarkSteps, Fitting, Marks
        <5>4. QED
          BY <5>2, <5>3
      <4>3. CASE k \in {"more", "fewer"}
        <5>1. /\ held[p] > 0 /\ h > 0
              /\ "finger" \in Features[p] => (held[p] = 1 <=> h = 1)
          BY <1>1, <3>1, <3>2, <4>3 DEF FingerReports
        <5>2. n # "new" /\ n \in Fitting(p)'
          BY <1>1, <3>2, <3>3, <5>1 DEF Fitting, Marks, Ambiguous
        <5>3. <<n, k, n>> \in MarkSteps
          BY <3>2, <3>3, <4>3, <5>2 DEF MarkSteps, Fitting, Marks
        <5>4. QED
          BY <5>2, <5>3
      <4>4. QED
        BY <1>1, <3>1, <3>2, <4>1, <4>2, <4>3 DEF FingerReports
    <3>4. QED
      BY <3>1, <3>2, <3>3
  <2>2. CASE Keep(p)
    <3>1. Report(p, "keep", TRUE) /\ held[p] > 0 /\ held' = held
      BY <1>1, <2>2 DEF Keep
    <3>2. Fitting(p)' = Fitting(p)
      BY <3>1 DEF Fitting, Ambiguous
    <3>3. \A n \in Fitting(p) : <<n, "keep", n>> \in MarkSteps
      BY <1>1, <3>1 DEF Fitting, MarkSteps, Marks, ReportKinds
    <3>4. QED
      BY <3>1, <3>2, <3>3 DEF ReportKinds
  <2>3. QED
    BY <1>1, <2>1, <2>2 DEF Reports, Press, Release, Chord, Repeat
<1>3. prevTouch' = prevTouch
  BY <1>2 DEF Report, touch
<1>4. ASSUME NEW f \in ReadersOf(p), ReportsInOrder(p, f) PROVE ReportsInOrder(p, f)'
  <2>1. /\ readers[f] \in ReaderType /\ BatchOf(f)' = BatchOf(f)
        /\ readers'[f].queue = Append(readers[f].queue, k)
        /\ readers'[f].pressed = readers[f].pressed
        /\ readers'[f].useEvtKey = readers[f].useEvtKey
    BY <1>2, ReportReaches DEF TouchInv
  <2>2. PICK m \in Marks, n \in Fitting(p) :
          Marked(Mark(readers[f]), BatchOf(f), m) /\ Marked(m, readers[f].queue, n)
    BY <1>4 DEF ReportsInOrder
  <2>3. PICK l \in Fitting(p)' : <<n, k, l>> \in MarkSteps
    BY <1>2
  <2>4. n \in Marks /\ l \in Marks /\ readers[f].queue \in Seq(ReportKinds)
    BY <2>1 DEF Fitting, ReaderType
  <2>5. Marked(m, Append(readers[f].queue, k), l)
    BY <2>2, <2>3, <2>4, RunsOn DEF Marked
  <2>6. Mark(readers[f])' = Mark(readers[f])
    BY <2>1 DEF Mark
  <2>7. Marked(Mark(readers[f])', BatchOf(f)', m) /\ Marked(m, readers'[f].queue, l)
    BY <2>1, <2>2, <2>5, <2>6
  <2>8. QED
    BY <1>4, <2>1, <2>7 DEF ReportsInOrder
<1>5. /\ Stays(p)' /\ ReadersOf(p)' = ReadersOf(p)
      /\ p \notin unheard' => p \notin unheard /\ ReadersOf(p) # {}
      /\ \A f \in ReadersOf(p) : readers'[f].pressed = readers[f].pressed
  BY <1>2, ReportReaches DEF TouchInv
<1>6. QED
  BY <1>3, <1>4, <1>5 DEF TouchInv

(* It is opened, untouched or missing the touch that goes on.              *)
LEMMA PanelOpened ==
  ASSUME Base, NEW p \in Paths, OnePanel(p), TouchInv(p), Opens(p)
  PROVE  TouchInv(p)'
<1>1. /\ Stays(p)' /\ UNCHANGED <<held, unheard, prevTouch>>
      /\ prevTouch = FALSE /\ (p \notin unheard => held[p] = 0)
  BY OpenReaches DEF TouchInv, Opens, touch
<1>2. PICK fd : /\ ReadersOf(p)' = {fd} /\ BatchOf(fd)' = <<>>
                /\ readers'[fd].pressed = FALSE /\ readers'[fd].queue = <<>>
  BY OpenReaches DEF TouchInv
<1>3. p \notin unheard => ReportsInOrder(p, fd)'
  <2>1. SUFFICES ASSUME p \notin unheard PROVE ReportsInOrder(p, fd)'
    OBVIOUS
  <2>2. PICK n \in Marks : n = Mark(readers[fd])' /\ n # "on"
    BY <1>2 DEF Mark, Marks
  <2>3. n \in Fitting(p)'
    BY <1>1, <2>1, <2>2 DEF Fitting
  <2>4. Marked(n, <<>>, n)
    BY RunsNowhere DEF Marked
  <2>5. QED
    BY <1>2, <2>2, <2>3, <2>4 DEF ReportsInOrder
<1>4. \A f \in ReadersOf(p)' : f = fd
  BY <1>2
<1>5. prevTouch' = readers'[fd].pressed /\ ReadersOf(p)' # {}
  BY <1>1, <1>2
<1>6. QED
  BY <1>1, <1>3, <1>4, <1>5 DEF TouchInv

(* What it has sent is read.                                               *)
LEMMA PanelRead ==
  ASSUME Base, NEW p \in Paths, OnePanel(p), TouchInv(p), ReadsFrom(p)
  PROVE  TouchInv(p)'
<1>1. Stays(p)' /\ UNCHANGED <<held, unheard, prevTouch>>
  BY ReadReaches DEF TouchInv, touch
<1>2. PICK fd : /\ ReadersOf(p) = {fd} /\ ReadersOf(p)' = {fd}
                /\ BatchOf(fd) = <<>> /\ BatchOf(fd)' = readers[fd].queue
                /\ readers'[fd].queue = <<>>
                /\ readers'[fd].pressed = readers[fd].pressed
                /\ readers'[fd].useEvtKey = readers[fd].useEvtKey
  BY ReadReaches DEF TouchInv
<1>3. ASSUME ReportsInOrder(p, fd) PROVE ReportsInOrder(p, fd)'
  <2>1. PICK m \in Marks, n \in Fitting(p) :
          Marked(Mark(readers[fd]), <<>>, m) /\ Marked(m, readers[fd].queue, n)
    BY <1>2, <1>3 DEF ReportsInOrder
  <2>2. Mark(readers[fd]) \in Marks /\ n \in Marks
    BY DEF Mark, Marks, Fitting
  <2>3. m = Mark(readers[fd]) /\ Marked(n, <<>>, n)
    BY <2>1, <2>2, RunsNowhere DEF Marked
  <2>4. Mark(readers[fd])' = m /\ Fitting(p)' = Fitting(p)
    BY <1>1, <1>2, <2>3 DEF Mark, Fitting, Ambiguous
  <2>5. Marked(Mark(readers[fd])', BatchOf(fd)', n) /\ Marked(n, readers'[fd].queue, n)
    BY <1>2, <2>1, <2>3, <2>4
  <2>6. QED
    BY <1>2, <1>3, <2>2, <2>4, <2>5 DEF ReportsInOrder
<1>4. QED
  BY <1>1, <1>2, <1>3 DEF TouchInv

(* A report is handled.                                                    *)
LEMMA PanelHandled ==
  ASSUME Base, NEW p \in Paths, OnePanel(p), TouchInv(p), Handles(p)
  PROVE  TouchInv(p)'
<1>1. /\ Stays(p)' /\ UNCHANGED <<held, unheard>>
      /\ batch \in Seq(ReportKinds) /\ batch # <<>>
  BY HandleReaches DEF TouchInv
<1>2. PICK fd, r, k :
        /\ fd = reading /\ r = readers[fd] /\ k = Head(batch)
        /\ r \in ReaderType /\ k \in ReportKinds
        /\ ReadersOf(p) = {fd} /\ ReadersOf(p)' = {fd}
        /\ BatchOf(fd) = batch /\ BatchOf(fd)' = Tail(batch)
        /\ readers'[fd].queue = r.queue
        /\ readers'[fd].pressed = PressedAfter(r, k)
        /\ readers'[fd].useEvtKey = (r.useEvtKey \/ HasEvtKey(p, k))
        /\ Handle(p, PressedAfter(r, k), k = "edge")
  BY HandleReaches DEF TouchInv
<1>3. prevTouch' = PressedAfter(r, k)
  BY <1>2, PanelIsTheOne DEF Handle, HandleTouchInput
<1>4. ASSUME ReportsInOrder(p, fd) PROVE ReportsInOrder(p, fd)'
  <2>1. (r.pressed => r.useEvtKey) /\ r.pressed \in BOOLEAN /\ r.useEvtKey \in BOOLEAN
    BY <1>2, <1>4 DEF ReportsInOrder, ReaderType
  <2>2. PICK m \in Marks, n \in Fitting(p) : Marked(Mark(r), batch, m) /\ Marked(m, r.queue, n)
    BY <1>2, <1>4 DEF ReportsInOrder
  <2>3. Mark(r) \in Marks
    BY DEF Mark, Marks
  <2>4. PICK l \in Marks : <<Mark(r), k, l>> \in MarkSteps /\ Marked(l, Tail(batch), m)
    BY <1>1, <1>2, <2>2, <2>3, RunsFirst DEF Marked
  <2>5. PICK pressed \in BOOLEAN, useEvtKey \in BOOLEAN :
          /\ pressed = PressedAfter(r, k) /\ useEvtKey = (r.useEvtKey \/ HasEvtKey(p, k))
          /\ pressed => useEvtKey
          /\ l = IF pressed THEN "on" ELSE IF useEvtKey THEN "off" ELSE "new"
    <3>1. PressedAfter(r, k) \in BOOLEAN /\ (r.useEvtKey \/ HasEvtKey(p, k)) \in BOOLEAN
      BY DEF PressedAfter
    <3>2. CASE k \in {"down", "edge", "first"}
      <4>1. PressedAfter(r, k) = TRUE /\ HasEvtKey(p, k) = TRUE /\ l = "on"
        BY <2>4, <3>2, PanelIsTheOne DEF PressedAfter, HasEvtKey, OnePanel, MarkSteps
      <4>2. QED
        BY <4>1
    <3>3. CASE k \in {"up", "second"}
      <4>1. PressedAfter(r, k) = FALSE /\ HasEvtKey(p, k) = TRUE /\ l = "off"
        BY <2>4, <3>3, PanelIsTheOne DEF PressedAfter, HasEvtKey, OnePanel, MarkSteps
      <4>2. QED
        BY <4>1
    <3>4. CASE k \in {"more", "fewer", "keep"}
      <4>1. Mark(r) # "new" /\ l = Mark(r)
        BY <2>4, <3>4 DEF MarkSteps
      <4>2. r.useEvtKey
        BY <2>1, <4>1 DEF Mark
      <4>3. PressedAfter(r, k) = r.pressed
        BY <2>1, <3>4, <4>2 DEF PressedAfter
      <4>4. QED
        BY <2>1, <4>1, <4>2, <4>3 DEF Mark
    <3>5. QED
      BY <2>4, <3>2, <3>3, <3>4 DEF MarkSteps
  <2>6. readers'[fd].pressed = pressed /\ readers'[fd].useEvtKey = useEvtKey
    BY <1>2, <2>5
  <2>7. Mark(readers[fd])' = l /\ Fitting(p)' = Fitting(p)
    BY <1>1, <2>5, <2>6 DEF Mark, Fitting, Ambiguous
  <2>8. Marked(Mark(readers[fd])', BatchOf(fd)', m) /\ Marked(m, readers'[fd].queue, n)
    BY <1>2, <2>2, <2>4, <2>7
  <2>9. QED
    BY <2>2, <2>5, <2>6, <2>7, <2>8 DEF ReportsInOrder
<1>5. prevTouch' = readers'[fd].pressed
  BY <1>2, <1>3
<1>6. QED
  BY <1>1, <1>2, <1>4, <1>5 DEF TouchInv

(* Nothing else changes what was last published.                           *)
LEMMA TouchKept ==
  ASSUME Base, HotplugInv, [Next]_vars, NEW p \in Paths, OnePanel(p), Stays(p), ~Handles(p)
  PROVE  prevTouch' = prevTouch
<1>1. ASSUME NEW q \in Paths, RemoveReader(q) PROVE prevTouch' = prevTouch
  <2>1. q # p
    BY <1>1 DEF Stays, RemoveReader, HotplugInv, RemovesReplayed
  <2>2. QED
    BY <1>1, <2>1, PanelIsTheOne DEF RemoveReader, Handle, HandleBtnInput, touch
<1>2. CASE ParseReport
  <2>1. reading \in DOMAIN readers /\ readers[reading].path \in Paths /\ readers[reading].path # p
    BY <1>2 DEF ParseReport, Handles, ReadersOf, Base, ReadingOpen, TypeOK
  <2>2. QED
    BY <1>2, <2>1, PanelIsTheOne DEF ParseReport, Handle, HandleBtnInput, touch
<1>3. CASE Environment
  BY <1>3 DEF Environment, Press, Release, Chord, Repeat, Fingers, Keep, Report, Plug, Unplug,
     Notice, OtherOpen, OtherClose, touch
<1>4. ASSUME NEW q \in Paths, AddReader(q) PROVE prevTouch' = prevTouch
  BY <1>4 DEF AddReader, touch
<1>5. CASE \/ Unclaimed \/ OnInputDevUpdated \/ PollFails \/ Scanned \/ Start
           \/ StoreItem \/ Flush \/ Poll \/ HandleInput \/ LoopAgain
  BY <1>5 DEF Unclaimed, OnInputDevUpdated, PollFails, Scanned, Start, StoreItem, Flush, Poll,
     HandleInput, LoopAgain, touch
<1>6. CASE UNCHANGED vars
  BY <1>6 DEF vars, touch
<1>7. QED
  BY <1>1, <1>2, <1>3, <1>4, <1>5, <1>6 DEF Next, Thread

LEMMA PanelStep ==
  ASSUME NEW p \in Paths, OnePanel(p)
  PROVE  Base /\ HotplugInv /\ TouchInv(p) /\ [Next]_vars => TouchInv(p)'
<1>1. SUFFICES ASSUME Base, HotplugInv, TouchInv(p), [Next]_vars PROVE TouchInv(p)'
  OBVIOUS
<1>2. Stays(p) /\ p \notin Removable
  BY <1>1 DEF TouchInv, OnePanel
<1>3. CASE Stays(p)' /\ Aside(p) /\ ~Handles(p)
  BY <1>1, <1>2, <1>3, TouchKept, PanelAside
<1>4. QED
  BY <1>1, <1>2, <1>3, StayingStep, PanelReports, PanelOpened, PanelRead, PanelHandled

(* With one touch panel, which stays and has BTN_TOUCH, among any devices  *)
(* that come and go: once the thread waits in poll() and has read all the  *)
(* panel sent since it was open, it has published a touch exactly when a   *)
(* finger is down, whatever fingers came and went and however their        *)
(* reports were cut into reads; of a touchpad this says nothing while      *)
(* there are several fingers on it.                                        *)
THEOREM TouchFollowed ==
  ASSUME NEW p \in Paths, OnePanel(p)
  PROVE  SafeSpec => []TouchReported
<1>1. Init => TouchInv(p)
  BY DEF Init, TouchInv, Stays, Told, ReadersOf
<1>2. Base /\ TouchInv(p) => TouchReported
  <2>1. SUFFICES ASSUME Base, TouchInv(p), AtRest(Panels), ~Ambiguous(p)
                 PROVE  prevTouch = HeldOnAny(Panels)
    BY DEF TouchReported, OnePanel
  <2>2. /\ pc = "poll" /\ p \notin unheard /\ \A f \in ReadersOf(p) : readers[f].queue = <<>>
    BY <2>1 DEF AtRest, Unread, OnePanel
  <2>3. batch = <<>> /\ prevTouch \in BOOLEAN /\ held[p] \in Nat
    BY <2>1, <2>2, BoundsAssumption DEF Base, ReadingOpen, TypeOK
  <2>4. HeldOnAny(Panels) <=> held[p] > 0
    BY DEF HeldOnAny, OnePanel
  <2>5. CASE ReadersOf(p) = {}
    <3>1. prevTouch = FALSE /\ held[p] = 0
      BY <2>1, <2>2, <2>5 DEF TouchInv
    <3>2. HeldOnAny(Panels) = FALSE
      BY <2>4, <3>1 DEF HeldOnAny
    <3>3. QED
      BY <3>1, <3>2
  <2>6. ASSUME NEW f \in ReadersOf(p) PROVE prevTouch = HeldOnAny(Panels)
    <3>1. ReportsInOrder(p, f) /\ prevTouch = readers[f].pressed
      BY <2>1, <2>2 DEF TouchInv
    <3>2. BatchOf(f) = <<>> /\ readers[f].queue = <<>>
      BY <2>2, <2>3 DEF BatchOf
    <3>3. PICK m \in Marks, n \in Fitting(p) : Marked(Mark(readers[f]), <<>>, m) /\ Marked(m, <<>>, n)
      BY <3>1, <3>2 DEF ReportsInOrder
    <3>4. Mark(readers[f]) \in Marks /\ n \in Marks
      BY DEF Mark, Marks, Fitting
    <3>5. n = Mark(readers[f])
      BY <3>3, <3>4, RunsNowhere DEF Marked
    <3>6. held[p] > 0 <=> prevTouch
      BY <2>1, <2>3, <3>1, <3>3, <3>5 DEF Fitting, Mark
    <3>7. QED
      BY <2>3, <2>4, <3>6 DEF HeldOnAny
  <2>7. QED
    BY <2>5, <2>6
<1>3. QED
  BY <1>1, <1>2, PanelStep, BaseInvariant, HotplugInvariant, PTL DEF SafeSpec

-----------------------------------------------------------------------------
(* Buttons and mice that stay, with no more keys than the counter counts.  *)

ButtonsFixed ==
  /\ Buttons \cap Removable = {}
  /\ Cardinality(Buttons \X (1 .. MaxHeld)) <= IntMax

(* A report that leads from a keys down to b keys down.                    *)
KeySteps ==
  {st \in (0 .. MaxHeld) \X {"down", "up"} \X (0 .. MaxHeld) :
     IF st[2] = "down" THEN st[3] = st[1] + 1 ELSE st[1] = st[3] + 1}

Leads(a, s, b) == Runs(0 .. MaxHeld, KeySteps, a, s, b)

(* b keys of p are down as far as its reports have been handled; the ones  *)
(* that were read and the ones that were not lead to the keys down now.    *)
InStep(p, b) ==
  /\ ReadersOf(p) = {} => held[p] = 0 /\ b = 0
  /\ \A f \in ReadersOf(p) :
       \E m \in 0 .. MaxHeld : Leads(b, BatchOf(f), m) /\ Leads(m, readers[f].queue, held[p])

(* One element for every key that is down, when bal says how many are.     *)
KeysDown(bal) == {d \in Buttons \X (1 .. MaxHeld) : d[2] <= bal[d[1]]}

KnownOpen == \A f \in DOMAIN readers : Known(readers[f].path)

Counted == \E bal \in [Buttons -> 0 .. MaxHeld] :
             /\ \A p \in Buttons : InStep(p, bal[p])
             /\ prevBtn = Cardinality(KeysDown(bal))

ButtonInv ==
  /\ KnownOpen
  /\ \A p \in Buttons : Stays(p)
  /\ btnPublished = (prevBtn > 0)
  /\ Buttons \cap unheard = {} => Counted

(* How a key more or a key less shows in the count.                        *)

LEMMA KeysFinite ==
  ASSUME ButtonsFixed, NEW bal \in [Buttons -> 0 .. MaxHeld]
  PROVE  /\ IsFiniteSet(KeysDown(bal)) /\ Cardinality(KeysDown(bal)) \in Nat
         /\ Cardinality(KeysDown(bal)) <= IntMax
<1> DEFINE All == Buttons \X (1 .. MaxHeld)
<1>1. MaxHeld \in Nat /\ IntMax \in Nat
  BY BoundsAssumption
<1>2. IsFiniteSet(Buttons) /\ IsFiniteSet(1 .. MaxHeld)
  BY <1>1, FdsAssumption, FS_Subset, FS_Interval DEF Buttons
<1>3. IsFiniteSet(All) /\ Cardinality(All) \in Nat
  BY <1>2, FS_Product, FS_CardinalityType
<1>4. KeysDown(bal) \in SUBSET All
  BY DEF KeysDown
<1>5. /\ IsFiniteSet(KeysDown(bal)) /\ Cardinality(KeysDown(bal)) <= Cardinality(All)
  BY <1>3, <1>4, FS_Subset
<1>6. Cardinality(KeysDown(bal)) \in Nat
  BY <1>5, FS_CardinalityType
<1>7. QED
  BY <1>1, <1>3, <1>5, <1>6 DEF ButtonsFixed

LEMMA OneKeyMore ==
  ASSUME ButtonsFixed, NEW bal \in [Buttons -> 0 .. MaxHeld], NEW p \in Buttons,
         NEW n \in 0 .. MaxHeld, n = bal[p] + 1
  PROVE  /\ [bal EXCEPT ![p] = n] \in [Buttons -> 0 .. MaxHeld]
         /\ Cardinality(KeysDown([bal EXCEPT ![p] = n])) = Cardinality(KeysDown(bal)) + 1
<1>1. MaxHeld \in Nat
  BY BoundsAssumption
<1>2. PICK now \in [Buttons -> 0 .. MaxHeld] : now = [bal EXCEPT ![p] = n]
  OBVIOUS
<1>3. now[p] = n /\ \A q \in Buttons : q # p => now[q] = bal[q]
  BY <1>2
<1>4. KeysDown(now) = KeysDown(bal) \cup {<<p, n>>}
  <2>1. ASSUME NEW q \in Buttons, NEW i \in 1 .. MaxHeld
        PROVE  i <= now[q] <=> i <= bal[q] \/ (q = p /\ i = n)
    BY <1>1, <1>3
  <2>2. n \in 1 .. MaxHeld
    BY <1>1
  <2>3. \A d : d \in KeysDown(now) <=> d \in KeysDown(bal) \/ d = <<p, n>>
    BY <2>1, <2>2 DEF KeysDown
  <2>4. QED
    BY <2>3
<1>5. <<p, n>> \notin KeysDown(bal)
  BY <1>1 DEF KeysDown
<1>6. QED
  BY <1>2, <1>4, <1>5, KeysFinite, FS_AddElement

LEMMA OneKeyLess ==
  ASSUME ButtonsFixed, NEW bal \in [Buttons -> 0 .. MaxHeld], NEW p \in Buttons,
         NEW n \in 0 .. MaxHeld, bal[p] = n + 1
  PROVE  /\ [bal EXCEPT ![p] = n] \in [Buttons -> 0 .. MaxHeld]
         /\ Cardinality(KeysDown([bal EXCEPT ![p] = n])) + 1 = Cardinality(KeysDown(bal))
<1>1. PICK now \in [Buttons -> 0 .. MaxHeld] : now = [bal EXCEPT ![p] = n]
  OBVIOUS
<1>2. bal = [now EXCEPT ![p] = n + 1] /\ now[p] = n /\ n + 1 \in 0 .. MaxHeld
  BY <1>1
<1>3. Cardinality(KeysDown(bal)) = Cardinality(KeysDown(now)) + 1
  BY <1>2, OneKeyMore
<1>4. QED
  BY <1>1, <1>3

(* What a device's own steps do to it: the keys that are down as far as    *)
(* was handled stay the same, until one of its reports is handled.         *)

LEMMA ButtonType ==
  ASSUME NEW p \in Buttons
  PROVE  p \in Paths /\ DevType[p] \in {"btn", "mouse"} /\ ~IsTouchPanel(p)
<1>1. p \in Paths /\ DevType[p] \in {"btn", "mouse"}
  BY DEF Buttons
<1>2. QED
  BY <1>1 DEF DevType

LEMMA ButtonReports ==
  ASSUME Base, NEW p \in Buttons, Stays(p), Reports(p),
         NEW b \in 0 .. MaxHeld, p \notin unheard', InStep(p, b)
  PROVE  InStep(p, b)'
<1>1. held \in [Paths -> 0 .. MaxHeld] /\ held[p] \in 0 .. MaxHeld /\ MaxHeld \in Nat
      /\ DevType[p] # "touch" /\ p \in Paths
  BY ButtonType, BoundsAssumption DEF Base, TypeOK
<1>2. PICK k \in ReportKinds, single \in BOOLEAN :
        /\ Report(p, k, single)
        /\ single => \/ k = "down" /\ held[p] < MaxHeld /\ held'[p] = held[p] + 1
                     \/ k = "up" /\ held[p] > 0 /\ held'[p] = held[p] - 1
  <2>1. CASE Press(p)
    BY <1>1, <2>1 DEF Press, ReportKinds
  <2>2. CASE Release(p)
    BY <1>1, <2>2 DEF Release, ReportKinds
  <2>3. CASE Chord(p)
    BY <2>3 DEF Chord, ReportKinds
  <2>4. CASE Keep(p) \/ Repeat(p)
    BY <1>1, <2>4 DEF Keep, Repeat, ReportKinds
  <2>5. QED
    BY <1>1, <2>1, <2>2, <2>3, <2>4 DEF Reports, Fingers
<1>3. single /\ k \in {"down", "up"} /\ ReadersOf(p)' = ReadersOf(p) /\ ReadersOf(p) # {}
  BY <1>1, <1>2, ReportReaches
<1>4. held'[p] \in 0 .. MaxHeld /\ held'[p] = IF k = "down" THEN held[p] + 1 ELSE held[p] - 1
  BY <1>1, <1>2, <1>3
<1>5. ASSUME NEW f \in ReadersOf(p)
      PROVE  \E m \in 0 .. MaxHeld :
                Leads(b, BatchOf(f)', m) /\ Leads(m, readers'[f].queue, held'[p])
  <2>1. /\ BatchOf(f)' = BatchOf(f) /\ readers'[f].queue = Append(readers[f].queue, k)
        /\ readers[f].queue \in Seq(ReportKinds)
    BY <1>1, <1>2, ReportReaches DEF ReaderType
  <2>2. PICK m \in 0 .. MaxHeld : Leads(b, BatchOf(f), m) /\ Leads(m, readers[f].queue, held[p])
    BY DEF InStep
  <2>3. Leads(m, Append(readers[f].queue, k), held'[p])
    <3>1. <<held[p], k, held'[p]>> \in KeySteps
      BY <1>1, <1>3, <1>4 DEF KeySteps
    <3>2. QED
      BY <1>1, <1>4, <2>1, <2>2, <3>1, RunsOn DEF Leads
  <2>4. QED
    BY <2>1, <2>2, <2>3
<1>6. QED
  BY <1>3, <1>5 DEF InStep

LEMMA ButtonOpened ==
  ASSUME Base, NEW p \in Buttons, Stays(p), Opens(p), NEW b \in 0 .. MaxHeld, InStep(p, b)
  PROVE  InStep(p, b)'
<1>1. p \in Paths /\ 0 \in 0 .. MaxHeld
  BY ButtonType, BoundsAssumption
<1>2. held' = held /\ held[p] = 0 /\ b = 0
  BY <1>1, OpenReaches DEF InStep, Opens
<1>3. PICK fd : ReadersOf(p)' = {fd} /\ BatchOf(fd)' = <<>> /\ readers'[fd].queue = <<>>
  BY <1>1, OpenReaches
<1>4. Leads(0, <<>>, 0)
  BY <1>1, RunsNowhere DEF Leads
<1>5. QED
  BY <1>1, <1>2, <1>3, <1>4 DEF InStep

LEMMA ButtonRead ==
  ASSUME Base, NEW p \in Buttons, Stays(p), ReadsFrom(p), NEW b \in 0 .. MaxHeld, InStep(p, b)
  PROVE  InStep(p, b)'
<1>1. p \in Paths /\ held[p] \in 0 .. MaxHeld
  BY ButtonType DEF Base, TypeOK
<1>2. held' = held
  BY <1>1, ReadReaches
<1>3. PICK fd : /\ ReadersOf(p) = {fd} /\ ReadersOf(p)' = {fd}
                /\ BatchOf(fd) = <<>> /\ BatchOf(fd)' = readers[fd].queue
                /\ readers'[fd].queue = <<>>
  BY <1>1, ReadReaches
<1>4. PICK m \in 0 .. MaxHeld : Leads(b, <<>>, m) /\ Leads(m, readers[fd].queue, held[p])
  BY <1>3 DEF InStep
<1>5. m = b /\ Leads(held[p], <<>>, held[p])
  BY <1>1, <1>4, RunsNowhere DEF Leads
<1>6. QED
  BY <1>1, <1>2, <1>3, <1>4, <1>5 DEF InStep

LEMMA ButtonAside ==
  ASSUME NEW p \in Buttons, Aside(p), NEW b \in 0 .. MaxHeld, InStep(p, b)
  PROVE  InStep(p, b)'
<1>1. QED
  BY DEF InStep, Aside

LEMMA PublishedKept ==
  ASSUME TypeOK, NEW pressed \in BOOLEAN, HandleBtnInput(pressed), btnPublished = (prevBtn > 0)
  PROVE  btnPublished' = (prevBtn' > 0)
<1>0. Count(pressed) \in 0 .. IntMax /\ prevBtn \in 0 .. IntMax
  BY BoundsAssumption DEF Count, TypeOK
<1>1. PICK n \in 0 .. IntMax : n = Count(pressed) /\ prevBtn' = n /\ prevBtn \in 0 .. IntMax
  <2>1. prevBtn' = Count(pressed)
    BY DEF HandleBtnInput
  <2>2. QED
    BY <1>0, <2>1
<1>2. btnPublished' = IF n * prevBtn = 0 THEN n > 0 ELSE btnPublished
  BY <1>1 DEF HandleBtnInput
<1>3. n \in Nat /\ prevBtn \in Nat
  BY <1>1, BoundsAssumption
<1>4. CASE n = 0
  <2>1. n * prevBtn = 0
    BY <1>3, <1>4
  <2>2. QED
    BY <1>1, <1>2, <2>1
<1>5. CASE prevBtn = 0
  <2>1. n * prevBtn = 0
    BY <1>3, <1>5
  <2>2. QED
    BY <1>1, <1>2, <2>1
<1>6. CASE n # 0 /\ prevBtn # 0
  <2>1. (n > 0) = TRUE /\ (prevBtn > 0) = TRUE
    BY <1>3, <1>6
  <2>2. btnPublished' = TRUE
    BY <1>2, <2>1
  <2>3. QED
    BY <1>1, <2>1, <2>2
<1>7. QED
  BY <1>4, <1>5, <1>6

LEMMA ButtonHandled ==
  ASSUME Base, NEW p \in Buttons, Stays(p), Handles(p)
  PROVE  \E down \in BOOLEAN :
            /\ HandleBtnInput(down)
            /\ \A b \in 0 .. MaxHeld : InStep(p, b) =>
                  \E n \in 0 .. MaxHeld : InStep(p, n)' /\ IF down THEN n = b + 1 ELSE b = n + 1
<1>0. p \in Paths /\ DevType[p] # "touch" /\ held[p] \in 0 .. MaxHeld
  BY ButtonType DEF Base, TypeOK
<1>1. UNCHANGED held /\ batch \in Seq(ReportKinds) /\ batch # <<>>
  BY <1>0, HandleReaches
<1>2. PICK fd, r, k :
        /\ fd = reading /\ r = readers[fd] /\ k = Head(batch)
        /\ r \in ReaderType /\ k \in ReportKinds
        /\ ReadersOf(p) = {fd} /\ ReadersOf(p)' = {fd} /\ r.path = p
        /\ BatchOf(fd) = batch /\ BatchOf(fd)' = Tail(batch)
        /\ readers'[fd].queue = r.queue
        /\ readers'[fd].pressed = PressedAfter(r, k)
        /\ readers'[fd].useEvtKey = (r.useEvtKey \/ HasEvtKey(p, k))
        /\ readers'[fd].path = p
        /\ Handle(p, PressedAfter(r, k), k = "edge")
  BY <1>0, HandleReaches
<1>3. PICK down \in BOOLEAN : down = PressedAfter(r, k)
  BY DEF PressedAfter
<1>4. HandleBtnInput(down)
  BY <1>0, <1>2, <1>3 DEF Handle
<1>5. (k = "down" => down) /\ (k = "up" => ~down)
  BY <1>3 DEF PressedAfter
<1>6. ASSUME NEW b \in 0 .. MaxHeld, InStep(p, b)
      PROVE  \E n \in 0 .. MaxHeld : InStep(p, n)' /\ IF down THEN n = b + 1 ELSE b = n + 1
  <2>1. PICK m \in 0 .. MaxHeld : Leads(b, batch, m) /\ Leads(m, r.queue, held[p])
    BY <1>2, <1>6 DEF InStep
  <2>2. PICK n \in 0 .. MaxHeld : /\ \/ k = "down" /\ n = b + 1
                                     \/ k = "up" /\ b = n + 1
                                  /\ Leads(n, Tail(batch), m)
    <3>1. PICK n \in 0 .. MaxHeld : <<b, k, n>> \in KeySteps /\ Leads(n, Tail(batch), m)
      BY <1>1, <1>2, <1>6, <2>1, RunsFirst DEF Leads
    <3>2. \/ k = "down" /\ n = b + 1
          \/ k = "up" /\ b = n + 1
      BY <3>1 DEF KeySteps
    <3>3. QED
      BY <3>1, <3>2
  <2>3. InStep(p, n)'
    BY <1>1, <1>2, <2>1, <2>2 DEF InStep
  <2>4. QED
    BY <1>5, <2>2, <2>3
<1>7. QED
  BY <1>4, <1>6

(* Whatever else happens, p stays and keeps its step.                      *)
LEMMA ButtonKept ==
  ASSUME Base, HotplugInv, [Next]_vars, ButtonsFixed, NEW p \in Buttons, Stays(p)
  PROVE  /\ Stays(p)'
         /\ ~Handles(p) /\ p \notin unheard' =>
              /\ p \notin unheard
              /\ \A b \in 0 .. MaxHeld : InStep(p, b) => InStep(p, b)'
<1>1. p \in Paths /\ p \notin Removable
  BY ButtonType DEF ButtonsFixed
<1>2. CASE Stays(p)' /\ Aside(p)
  BY <1>2, ButtonAside DEF Aside
<1>3. CASE Reports(p)
  <2>1. PICK k \in ReportKinds, single \in BOOLEAN : Report(p, k, single)
    BY <1>1, <1>3, ReportsSend
  <2>2. Stays(p)' /\ (p \notin unheard' => p \notin unheard)
    BY <1>1, <2>1, ReportReaches
  <2>3. QED
    BY <1>3, <2>2, ButtonReports
<1>4. CASE Opens(p)
  BY <1>1, <1>4, OpenReaches, ButtonOpened
<1>5. CASE ReadsFrom(p)
  BY <1>1, <1>5, ReadReaches, ButtonRead
<1>6. CASE Handles(p)
  BY <1>1, <1>6, HandleReaches
<1>7. QED
  BY <1>1, <1>2, <1>3, <1>4, <1>5, <1>6, StayingStep

LEMMA CounterKept ==
  ASSUME Base, HotplugInv, [Next]_vars, KnownOpen, ButtonsFixed,
         \A p \in Buttons : Stays(p) /\ ~Handles(p)
  PROVE  UNCHANGED <<prevBtn, btnPublished>>
<1>0. \A q \in Paths : Known(q) /\ q \notin Buttons => DevType[q] = "touch"
  BY DEF Known, Buttons, DevType
<1>1. ASSUME NEW q \in Paths, RemoveReader(q) PROVE UNCHANGED <<prevBtn, btnPublished>>
  <2>1. q \notin Buttons
    BY <1>1 DEF Stays, RemoveReader, HotplugInv, RemovesReplayed
  <2>2. CASE ReadersOf(q) = {}
    BY <1>1, <2>2 DEF RemoveReader, button
  <2>3. CASE ReadersOf(q) # {}
    <3>1. DevType[q] = "touch"
      BY <1>0, <2>1, <2>3 DEF KnownOpen, ReadersOf
    <3>2. QED
      BY <1>1, <2>3, <3>1 DEF RemoveReader, Handle, HandleTouchInput, button
  <2>4. QED
    BY <2>2, <2>3
<1>2. CASE ParseReport
  <2>1. PICK q \in Paths : q = readers[reading].path /\ Known(q) /\ q \notin Buttons
    BY <1>2 DEF ParseReport, Handles, ReadersOf, Base, ReadingOpen, TypeOK, KnownOpen
  <2>2. DevType[q] = "touch"
    BY <1>0, <2>1
  <2>3. QED
    BY <1>2, <2>1, <2>2 DEF ParseReport, Handle, HandleTouchInput, button
<1>3. CASE Environment
  BY <1>3 DEF Environment, Press, Release, Chord, Repeat, Fingers, Keep, Report, Plug, Unplug,
     Notice, OtherOpen, OtherClose, button
<1>4. ASSUME NEW q \in Paths, AddReader(q) PROVE UNCHANGED <<prevBtn, btnPublished>>
  BY <1>4 DEF AddReader, button
<1>5. CASE \/ Unclaimed \/ OnInputDevUpdated \/ PollFails \/ Scanned \/ Start
           \/ StoreItem \/ Flush \/ Poll \/ HandleInput \/ LoopAgain
  BY <1>5 DEF Unclaimed, OnInputDevUpdated, PollFails, Scanned, Start, StoreItem, Flush, Poll,
     HandleInput, LoopAgain, button
<1>6. CASE UNCHANGED vars
  BY <1>6 DEF vars, button
<1>7. QED
  BY <1>1, <1>2, <1>3, <1>4, <1>5, <1>6 DEF Next, Thread

LEMMA KnownOpenStep == Base /\ KnownOpen /\ [Next]_vars => KnownOpen'
<1> SUFFICES ASSUME Base, KnownOpen, [Next]_vars PROVE KnownOpen'
  OBVIOUS
<1>0. \A f \in DOMAIN readers : readers[f] \in ReaderType
  BY DEF Base, TypeOK, ReaderType
<1>1. ASSUME NEW q \in Paths, AddReader(q) PROVE KnownOpen'
  <2>1. CASE UNCHANGED readers
    BY <2>1 DEF KnownOpen, Known
  <2>2. CASE Known(q) /\ ~UNCHANGED readers
    <3>1. PICK fd : readers' = [f \in DOMAIN readers \cup {fd} |->
                                  IF f = fd THEN NewReader(q) ELSE readers[f]]
      BY <1>1, <2>2 DEF AddReader
    <3>2. NewReader(q).path = q
      BY DEF NewReader
    <3>3. QED
      BY <2>2, <3>1, <3>2 DEF KnownOpen, Known
  <2>3. QED
    BY <1>1, <2>1, <2>2 DEF AddReader, Known
<1>2. ASSUME NEW q \in Paths, RemoveReader(q) PROVE KnownOpen'
  BY <1>2 DEF RemoveReader, KnownOpen, Known
<1>3. CASE Environment
  <2>1. DOMAIN readers' = DOMAIN readers /\ \A f \in DOMAIN readers : readers'[f].path = readers[f].path
    <3>1. ASSUME NEW p \in Paths, Reports(p)
          PROVE  /\ DOMAIN readers' = DOMAIN readers
                 /\ \A f \in DOMAIN readers : readers'[f].path = readers[f].path
      BY <1>0, <3>1, ReportsSend DEF Report, ReaderType
    <3>2. ASSUME NEW p \in Paths, Plug(p) \/ Unplug(p)
          PROVE  /\ DOMAIN readers' = DOMAIN readers
                 /\ \A f \in DOMAIN readers : readers'[f].path = readers[f].path
      <4>1. CASE Plug(p)
        BY <4>1 DEF Plug
      <4>2. CASE Unplug(p)
        BY <1>0, <4>2 DEF Unplug, ReaderType
      <4>3. QED
        BY <3>2, <4>1, <4>2
    <3>3. ASSUME NEW f \in Fds, OtherOpen(f) \/ OtherClose(f)
          PROVE  readers' = readers
      BY <3>3 DEF OtherOpen, OtherClose
    <3>4. QED
      BY <1>3, <3>1, <3>2, <3>3 DEF Environment, Reports
  <2>2. QED
    BY <2>1 DEF KnownOpen, Known
<1>4. CASE \/ Unclaimed \/ OnInputDevUpdated \/ PollFails \/ Scanned \/ Start
           \/ StoreItem \/ Flush \/ Poll \/ LoopAgain \/ UNCHANGED vars
  <2>1. UNCHANGED readers
    BY <1>4 DEF Unclaimed, OnInputDevUpdated, PollFails, Scanned, Start, StoreItem, Flush, Poll,
       LoopAgain, vars
  <2>2. QED
    BY <2>1 DEF KnownOpen, Known
<1>5. CASE HandleInput \/ ParseReport
  <2>1. DOMAIN readers' = DOMAIN readers /\ \A f \in DOMAIN readers : readers'[f].path = readers[f].path
    BY <1>0, <1>5 DEF HandleInput, ParseReport, ReaderType
  <2>2. QED
    BY <2>1 DEF KnownOpen, Known
<1>6. QED
  BY <1>1, <1>2, <1>3, <1>4, <1>5 DEF Next, Thread

LEMMA ButtonStep ==
  ASSUME ButtonsFixed
  PROVE  Base /\ HotplugInv /\ ButtonInv /\ [Next]_vars => ButtonInv'
<1> SUFFICES ASSUME Base, HotplugInv, ButtonInv, [Next]_vars PROVE ButtonInv'
  OBVIOUS
<1>1. /\ KnownOpen /\ \A p \in Buttons : Stays(p)
      /\ btnPublished = (prevBtn > 0)
      /\ Buttons \cap unheard = {} => Counted
  BY DEF ButtonInv
<1>2. KnownOpen' /\ \A p \in Buttons : Stays(p)'
  BY <1>1, KnownOpenStep, ButtonKept
<1>3. CASE \A p \in Buttons : ~Handles(p)
  <2>1. UNCHANGED <<prevBtn, btnPublished>>
    BY <1>1, <1>3, CounterKept
  <2>2. ASSUME Buttons \cap unheard' = {} PROVE Counted'
    <3>1. Buttons \cap unheard = {}
      BY <1>1, <1>3, <2>2, ButtonKept
    <3>2. PICK bal \in [Buttons -> 0 .. MaxHeld] :
            (\A p \in Buttons : InStep(p, bal[p])) /\ prevBtn = Cardinality(KeysDown(bal))
      BY <1>1, <3>1 DEF Counted
    <3>3. \A p \in Buttons : InStep(p, bal[p])'
      BY <1>1, <1>3, <2>2, <3>2, ButtonKept
    <3>4. QED
      BY <2>1, <3>2, <3>3 DEF Counted
  <2>3. QED
    BY <1>1, <1>2, <2>1, <2>2 DEF ButtonInv
<1>4. ASSUME NEW p \in Buttons, Handles(p) PROVE ButtonInv'
  <2>1. PICK down \in BOOLEAN :
          /\ HandleBtnInput(down)
          /\ \A b \in 0 .. MaxHeld : InStep(p, b) =>
                \E n \in 0 .. MaxHeld : InStep(p, n)' /\ IF down THEN n = b + 1 ELSE b = n + 1
    BY <1>1, <1>4, ButtonHandled
  <2>2. btnPublished' = (prevBtn' > 0)
    BY <1>1, <2>1, PublishedKept DEF Base
  <2>3. \A q \in Buttons : q # p => ~Handles(q)
    BY <1>4 DEF Handles, ReadersOf
  <2>4. ASSUME Buttons \cap unheard' = {} PROVE Counted'
    <3>1. Buttons \cap unheard = {}
      BY <1>4, <2>4 DEF Handles, ParseReport, history
    <3>2. PICK bal \in [Buttons -> 0 .. MaxHeld] :
            (\A q \in Buttons : InStep(q, bal[q])) /\ prevBtn = Cardinality(KeysDown(bal))
      BY <1>1, <3>1 DEF Counted
    <3>3. PICK n \in 0 .. MaxHeld : InStep(p, n)' /\ IF down THEN n = bal[p] + 1 ELSE bal[p] = n + 1
      BY <2>1, <3>2
    <3>4. PICK now \in [Buttons -> 0 .. MaxHeld] : now = [bal EXCEPT ![p] = n]
      OBVIOUS
    <3>5. ASSUME NEW q \in Buttons PROVE InStep(q, now[q])'
      <4>1. CASE q = p
        BY <3>3, <3>4, <4>1
      <4>2. CASE q # p
        <5>1. now[q] = bal[q] /\ InStep(q, bal[q])'
          BY <1>1, <2>3, <2>4, <3>2, <3>4, <4>2, ButtonKept
        <5>2. QED
          BY <5>1
      <4>3. QED
        BY <4>1, <4>2
    <3>6. /\ Cardinality(KeysDown(bal)) \in Nat /\ Cardinality(KeysDown(now)) \in Nat
          /\ Cardinality(KeysDown(now)) <= IntMax
      BY KeysFinite
    <3>7. prevBtn' = Count(down) /\ IntMax \in Nat
      BY <2>1, BoundsAssumption DEF HandleBtnInput
    <3>8. prevBtn' = Cardinality(KeysDown(now))
      <4>1. CASE down
        <5>1. Cardinality(KeysDown(now)) = Cardinality(KeysDown(bal)) + 1
          BY <3>3, <3>4, <4>1, OneKeyMore
        <5>2. QED
          BY <3>2, <3>6, <3>7, <4>1, <5>1 DEF Count
      <4>2. CASE ~down
        <5>1. Cardinality(KeysDown(now)) + 1 = Cardinality(KeysDown(bal))
          BY <3>3, <3>4, <4>2, OneKeyLess
        <5>2. QED
          BY <3>2, <3>6, <3>7, <4>2, <5>1 DEF Count
      <4>3. QED
        BY <4>1, <4>2
    <3>9. QED
      BY <3>5, <3>8 DEF Counted
  <2>5. QED
    BY <1>2, <2>2, <2>4 DEF ButtonInv
<1>5. QED
  BY <1>3, <1>4

(* With buttons and mice that stay, with no more keys than the counter     *)
(* counts, among any devices that come and go: once the thread waits in    *)
(* poll() and has read all they sent, and none but a mouse sent a packet   *)
(* that is not the press or release of one key, a button has been          *)
(* published exactly when a key is down on some device, whatever the order *)
(* of the presses, the releases and the reads.                             *)
THEOREM ButtonsFollowed ==
  ASSUME ButtonsFixed
  PROVE  SafeSpec => []ButtonsReported
<1>1. Init => ButtonInv
  <2>1. SUFFICES ASSUME Init PROVE ButtonInv
    OBVIOUS
  <2>2. DOMAIN readers = {} /\ \A p \in Paths : ReadersOf(p) = {}
    BY <2>1 DEF Init, ReadersOf
  <2>3. KnownOpen /\ \A p \in Buttons : Stays(p)
    BY <2>1, <2>2, ButtonType DEF KnownOpen, Stays, Told, Init
  <2>4. btnPublished = (prevBtn > 0)
    <3>1. (0 > 0) = FALSE
      OBVIOUS
    <3>2. QED
      BY <2>1, <3>1 DEF Init
  <2>5. PICK bal \in [Buttons -> 0 .. MaxHeld] : bal = [p \in Buttons |-> 0]
    <3>1. 0 \in 0 .. MaxHeld
      BY BoundsAssumption
    <3>2. QED
      BY <3>1
  <2>6. \A p \in Buttons : InStep(p, bal[p])
    BY <2>1, <2>2, <2>5, ButtonType DEF InStep, Init
  <2>7. KeysDown(bal) = {}
    BY <2>5 DEF KeysDown
  <2>8. prevBtn = Cardinality(KeysDown(bal))
    BY <2>1, <2>7, FS_EmptySet DEF Init
  <2>9. QED
    BY <2>3, <2>4, <2>6, <2>8 DEF ButtonInv, Counted
<1>2. Base /\ ButtonInv => ButtonsReported
  <2>1. SUFFICES ASSUME Base, ButtonInv, AtRest(Buttons)
                 PROVE  btnPublished = HeldOnAny(Buttons)
    BY DEF ButtonsReported
  <2>2. /\ pc = "poll" /\ Buttons \cap unheard = {}
        /\ \A p \in Buttons : \A f \in ReadersOf(p) : readers[f].queue = <<>>
    BY <2>1 DEF AtRest, Unread
  <2>3. batch = <<>>
    BY <2>1, <2>2 DEF Base, ReadingOpen
  <2>4. PICK bal \in [Buttons -> 0 .. MaxHeld] :
          (\A p \in Buttons : InStep(p, bal[p])) /\ prevBtn = Cardinality(KeysDown(bal))
    BY <2>1, <2>2 DEF ButtonInv, Counted
  <2>5. ASSUME NEW p \in Buttons PROVE bal[p] = held[p]
    <3>1. bal[p] \in 0 .. MaxHeld /\ held[p] \in 0 .. MaxHeld
      BY <2>1, ButtonType DEF Base, TypeOK
    <3>2. ASSUME NEW f \in ReadersOf(p) PROVE bal[p] = held[p]
      <4>1. BatchOf(f) = <<>> /\ readers[f].queue = <<>>
        BY <2>2, <2>3 DEF BatchOf
      <4>2. PICK m \in 0 .. MaxHeld : Leads(bal[p], <<>>, m) /\ Leads(m, <<>>, held[p])
        BY <2>4, <4>1 DEF InStep
      <4>3. /\ Runs(0 .. MaxHeld, KeySteps, bal[p], <<>>, m)
            /\ Runs(0 .. MaxHeld, KeySteps, m, <<>>, held[p])
        BY <4>2 DEF Leads
      <4>4. bal[p] = m
        BY <3>1, <4>2, <4>3, RunsNowhere
      <4>5. m = held[p]
        BY <3>1, <4>2, <4>3, RunsNowhere
      <4>6. QED
        BY <4>4, <4>5
    <3>3. QED
      BY <2>4, <3>2 DEF InStep
  <2>6. KeysDown(bal) # {} <=> HeldOnAny(Buttons)
    <3>1. ASSUME NEW p \in Buttons, held[p] > 0 PROVE <<p, 1>> \in KeysDown(bal)
      <4>1. held[p] \in 0 .. MaxHeld /\ bal[p] = held[p] /\ MaxHeld \in Nat
        BY <2>1, <2>5, ButtonType, BoundsAssumption DEF Base, TypeOK
      <4>2. QED
        BY <3>1, <4>1 DEF KeysDown
    <3>2. ASSUME NEW d \in KeysDown(bal) PROVE d[1] \in Buttons /\ held[d[1]] > 0
      <4>1. d[1] \in Buttons /\ d[2] \in 1 .. MaxHeld /\ d[2] <= bal[d[1]]
        BY DEF KeysDown
      <4>2. bal[d[1]] = held[d[1]] /\ bal[d[1]] \in Nat
        BY <2>5, <4>1, BoundsAssumption
      <4>3. QED
        BY <4>1, <4>2
    <3>3. QED
      BY <3>1, <3>2 DEF HeldOnAny
  <2>7. prevBtn > 0 <=> KeysDown(bal) # {}
    <3>1. IsFiniteSet(KeysDown(bal)) /\ Cardinality(KeysDown(bal)) \in Nat
      BY KeysFinite
    <3>2. QED
      BY <2>4, <3>1, FS_EmptySet
  <2>8. btnPublished = (prevBtn > 0) /\ btnPublished \in BOOLEAN
    BY <2>1 DEF ButtonInv, Base, TypeOK
  <2>9. btnPublished <=> HeldOnAny(Buttons)
    BY <2>6, <2>7, <2>8
  <2>10. QED
    BY <2>8, <2>9 DEF HeldOnAny
<1>3. QED
  BY <1>1, <1>2, ButtonStep, BaseInvariant, HotplugInvariant, PTL DEF SafeSpec

=============================================================================
