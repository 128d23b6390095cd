--------------------------- MODULE Monitors_proofs ---------------------------
(***************************************************************************)
(* Monitors for any apps that are far enough apart in their numbers of     *)
(* tasks, any jitter and any restricted counts: types, no change forgotten *)
(* before it is read, and what DynamicFps knows of the app and the screen. *)
(***************************************************************************)
EXTENDS Monitors, TLAPS

Tracking == tracked # {} => started = Len(Startup)

(* An Updater's millisecond swallows events only while its scan waits.     *)
ThrottledWaits == \A u \in recent \cap tracked : u \in scheduled

Base == TypeOK /\ Tracking /\ ThrottledWaits /\ ChangesNoticed

-----------------------------------------------------------------------------
(* The start-up is over when every step is done.                           *)
LEMMA StartupSteps == Len(Startup) = 11
  BY DEF Startup

LEMMA AllDone ==
  ASSUME started = Len(Startup)
  PROVE  /\ \A c \in Cgroups : Done(<<"watch", c>>) /\ Done(<<"store", c>>)
         /\ \A u \in Lists : Subscribed(ListOf[u])
         /\ Subscribed("DynamicFps")
<1>1. \A i \in 1 .. 11 : i \in 1 .. started
  BY StartupSteps
<1>2. /\ Startup[1] = <<"watch", "ta">> /\ Startup[2] = <<"store", "ta">>
      /\ Startup[3] = <<"watch", "fg">> /\ Startup[4] = <<"store", "fg">>
      /\ Startup[5] = <<"watch", "bg">> /\ Startup[6] = <<"store", "bg">>
      /\ Startup[7] = <<"watch", "re">> /\ Startup[8] = <<"store", "re">>
      /\ Startup[9] = <<"subscribe", "cgroup.ta.list">>
      /\ Startup[10] = <<"subscribe", "cgroup.re.list">>
      /\ Startup[11] = <<"subscribe", "DynamicFps">>
  BY DEF Startup
<1>3. \A c \in Cgroups : Done(<<"watch", c>>) /\ Done(<<"store", c>>)
  <2>1. \A i \in 1 .. 11 : Done(Startup[i])
    BY <1>1 DEF Done
  <2>2. /\ Done(Startup[1]) /\ Done(Startup[2]) /\ Done(Startup[3]) /\ Done(Startup[4])
        /\ Done(Startup[5]) /\ Done(Startup[6]) /\ Done(Startup[7]) /\ Done(Startup[8])
    BY <2>1
  <2>3. /\ Done(<<"watch", "ta">>) /\ Done(<<"store", "ta">>)
        /\ Done(<<"watch", "fg">>) /\ Done(<<"store", "fg">>)
        /\ Done(<<"watch", "bg">>) /\ Done(<<"store", "bg">>)
        /\ Done(<<"watch", "re">>) /\ Done(<<"store", "re">>)
    BY <2>2, <1>2, Zenon
  <2>4. SUFFICES ASSUME NEW c \in Cgroups
                 PROVE  Done(<<"watch", c>>) /\ Done(<<"store", c>>)
    OBVIOUS
  <2>5. c = "ta" \/ c = "fg" \/ c = "bg" \/ c = "re"
    BY DEF Cgroups
  <2>6. QED
    BY <2>3, <2>5, Zenon
<1>4. Subscribed("DynamicFps") /\ Subscribed("cgroup.ta.list") /\ Subscribed("cgroup.re.list")
  BY <1>1, <1>2 DEF Done, Subscribed
<1>5. \A u \in Lists : ListOf[u] \in {"cgroup.ta.list", "cgroup.re.list"}
  BY DEF ListOf, Lists
<1>6. QED
  BY <1>3, <1>4, <1>5

-----------------------------------------------------------------------------
LEMMA TypeInit == Init => TypeOK
<1> SUFFICES ASSUME Init PROVE TypeOK
  OBVIOUS
<1>1. started \in 0 .. Len(Startup) /\ topappNr_ \in Nat
  BY StartupSteps DEF Init
<1>2. /\ looking \in BOOLEAN /\ prevOffscreen_ \in BOOLEAN /\ isOffscreen_ \in BOOLEAN
      /\ missed \in BOOLEAN /\ lost \in BOOLEAN
  BY Zenon DEF Init
<1>3. QED
  BY <1>1, <1>2 DEF Init, TypeOK

LEMMA RestrictedTypes ==
  ASSUME TypeOK, NEW nr \in Nat, RestrictedList(nr)
  PROVE  lost' \in BOOLEAN /\ isOffscreen_' \in BOOLEAN /\ prevOffscreen_' \in BOOLEAN
<1>1. (nr > RESTRICTED_TASK_NR_MIN) \in BOOLEAN
  BY DEF RESTRICTED_TASK_NR_MIN
<1>2. Subscribed("DynamicFps") \in BOOLEAN
  BY Zenon DEF Subscribed, Done
<1>3. PICK o \in BOOLEAN, d \in BOOLEAN :
        /\ prevOffscreen_' = o
        /\ IF o = prevOffscreen_
           THEN UNCHANGED <<isOffscreen_, lost>>
           ELSE lost' = d /\ isOffscreen_' \in {o, isOffscreen_}
  BY <1>1, <1>2, Zenon DEF RestrictedList
<1>4. QED
  BY <1>3, Zenon DEF TypeOK

LEMMA TypeStep == TypeOK /\ [Next]_vars => TypeOK'
<1> SUFFICES ASSUME TypeOK, [Next]_vars PROVE TypeOK'
  OBVIOUS
<1> USE DEF kernel, program, memory
<1>1. CASE SwitchApp
  BY <1>1 DEF TypeOK, SwitchApp, Modify, Changed, Cgroups, Lists
<1>2. CASE Restrict
  BY <1>2 DEF TypeOK, Restrict, Modify, Changed, Cgroups, Lists
<1>3. CASE OtherWrite
  BY <1>3, WritesAssumption DEF TypeOK, OtherWrite, Modify
<1>4. CASE Millisecond
  BY <1>4 DEF TypeOK, Millisecond
<1>5. CASE Boot
  BY <1>5, StartupSteps DEF TypeOK, Boot
<1>6. ASSUME NEW c \in Cgroups, OnModified(c) PROVE TypeOK'
  BY <1>6 DEF TypeOK, OnModified, Started
<1>7. CASE ScanTopapp
  <2>1. PICK n \in {0, Jitter} : TopappList(Tasks[topApp] + n)
    BY <1>7 DEF ScanTopapp
  <2>2. Tasks[topApp] + n \in Nat
    BY AppsAssumption DEF TypeOK
  <2>3. topappNr_' \in Nat /\ missed' \in BOOLEAN
    BY <1>7, <2>1, <2>2 DEF TypeOK, TopappList, ScanTopapp
  <2>4. scheduled' \subseteq Lists \cup {"look"}
    BY <2>1 DEF TypeOK, TopappList
  <2>5. QED
    BY <1>7, <2>3, <2>4 DEF TypeOK, ScanTopapp
<1>8. CASE ScanRestricted
  BY <1>8, WritesAssumption, RestrictedTypes DEF TypeOK, ScanRestricted
<1>9. ASSUME NEW u \in Lists, ScanFails(u) PROVE TypeOK'
  <2>1. missed' \in BOOLEAN
    BY <1>9, Zenon DEF TypeOK, ScanFails
  <2>2. QED
    BY <1>9, <2>1 DEF TypeOK, ScanFails
<1>10. CASE Look
  BY <1>10 DEF TypeOK, Look
<1>11. CASE Ask
  <2>1. missed' \in BOOLEAN
    BY <1>11, Zenon DEF TypeOK, Ask
  <2>2. prevPkgName_' \in Apps \cup {NoApp}
    BY <1>11 DEF TypeOK, Ask, GetTopAppName
  <2>3. QED
    BY <1>11, <2>1, <2>2 DEF TypeOK, Ask
<1>12. CASE TopappCut
  <2>1. PICK n \in Nat : TopappList(n)
    BY <1>12, WritesAssumption DEF TopappCut
  <2>2. topappNr_' \in Nat /\ scheduled' \subseteq Lists \cup {"look"}
    BY <2>1 DEF TypeOK, TopappList
  <2>3. QED
    BY <1>12, <2>2 DEF TypeOK, TopappCut
<1>13. CASE RestrictedCut
  <2>1. PICK n \in Nat : RestrictedList(n)
    BY <1>13, WritesAssumption DEF RestrictedCut
  <2>2. QED
    BY <1>13, <2>1, RestrictedTypes DEF TypeOK, RestrictedCut
<1>14. CASE UNCHANGED vars
  BY <1>14 DEF TypeOK, vars
<1>15. QED
  BY <1>1, <1>2, <1>3, <1>4, <1>5, <1>6, <1>7, <1>8, <1>9, <1>10, <1>11, <1>12, <1>13, <1>14
  DEF Next, Environment, Inotify, Scan

(* Every state the program can be in is of its type.                       *)
THEOREM TypeCorrect == Spec => []TypeOK
<1>1. Spec => Init /\ [][Next]_vars
  BY DEF Spec, SafeSpec
<1>2. QED
  BY <1>1, TypeInit, TypeStep, PTL

-----------------------------------------------------------------------------
LEMMA BaseInit == Init => Base
  BY TypeInit DEF Init, Base, Tracking, ThrottledWaits, ChangesNoticed

(* A change puts its event into the queue; an event that is taken out      *)
(* starts every scan it stands for that is not waiting already.            *)
LEMMA BaseStep == Base /\ [Next]_vars => Base'
<1> SUFFICES ASSUME Base, [Next]_vars PROVE Base'
  OBVIOUS
<1> USE DEF kernel, program, memory, Base
<1>0. TypeOK'
  BY TypeStep
<1>1. ASSUME NEW c \in {"ta", "re"}, Modify(c), Changed(c), 
             UNCHANGED <<started, recent, scheduled>>
      PROVE  Base'
  <2>1. Tracking' /\ ThrottledWaits'
    BY <1>1 DEF Changed, Tracking, ThrottledWaits, Listens
  <2>2. c \in tracked' => c \in unread'
    BY <1>1, <2>1, AllDone DEF Modify, Tracking, Cgroups
  <2>3. c \in Starts(c)
    BY DEF Starts
  <2>4. ChangesNoticed'
    BY <1>1, <2>2, <2>3 DEF ChangesNoticed, Changed, Modify
  <2>5. QED
    BY <1>0, <2>1, <2>4
<1>2. CASE OtherWrite
  BY <1>0, <1>2 DEF OtherWrite, Modify, Tracking, ThrottledWaits, ChangesNoticed
<1>3. CASE Millisecond
  BY <1>0, <1>3 DEF Millisecond, Tracking, ThrottledWaits, ChangesNoticed
<1>4. CASE Boot
  BY <1>0, <1>4 DEF Boot, Tracking, ThrottledWaits, ChangesNoticed
<1>5. ASSUME NEW c \in Cgroups, OnModified(c) PROVE Base'
  <2>1. Tracking'
    BY <1>5 DEF OnModified, Tracking
  <2>2. ThrottledWaits'
    BY <1>5 DEF OnModified, ThrottledWaits
  <2>3. ASSUME NEW u \in unseen' \cap tracked'
        PROVE  u \in scheduled' \/ \E d \in unread' : u \in Starts(d)
    <3>1. u \in unseen \cap tracked
      BY <1>5, <2>3 DEF OnModified
    <3>2. u \in Lists /\ started = Len(Startup)
      BY <3>1 DEF TypeOK, Tracking
    <3>3. CASE u \in scheduled
      BY <1>5, <3>3 DEF OnModified
    <3>4. CASE u \notin scheduled /\ u \in Starts(c)
      <4>1. u \notin recent
        BY <3>1, <3>4 DEF ThrottledWaits
      <4>2. u \in Started(c)
        BY <3>2, <3>4, <4>1, AllDone DEF Started
      <4>3. QED
        BY <1>5, <3>2, <4>2, AllDone DEF OnModified
    <3>5. CASE u \notin scheduled /\ u \notin Starts(c)
      BY <1>5, <3>1, <3>5 DEF OnModified, ChangesNoticed
    <3>6. QED
      BY <3>3, <3>4, <3>5
  <2>4. ChangesNoticed'
    BY <2>3 DEF ChangesNoticed
  <2>5. QED
    BY <1>0, <2>1, <2>2, <2>4
<1>6. CASE ScanTopapp
  <2>1. scheduled \ {"ta"} \subseteq scheduled'
    BY <1>6 DEF ScanTopapp, TopappList
  <2>2. QED
    BY <1>0, <1>6, <2>1 DEF ScanTopapp, Tracking, ThrottledWaits, ChangesNoticed
<1>7. CASE ScanRestricted
  BY <1>0, <1>7 DEF ScanRestricted, Tracking, ThrottledWaits, ChangesNoticed
<1>8. ASSUME NEW u \in Lists, ScanFails(u) PROVE Base'
  BY <1>0, <1>8 DEF ScanFails, Tracking, ThrottledWaits, ChangesNoticed
<1>9. CASE Look
  BY <1>0, <1>9 DEF Look, Tracking, ThrottledWaits, ChangesNoticed, TypeOK, Lists
<1>10. CASE Ask
  BY <1>0, <1>10 DEF Ask, Tracking, ThrottledWaits, ChangesNoticed
<1>11. CASE TopappCut
  <2>1. scheduled \ {"ta"} \subseteq scheduled'
    BY <1>11 DEF TopappCut, TopappList
  <2>2. QED
    BY <1>0, <1>11, <2>1 DEF TopappCut, Tracking, ThrottledWaits, ChangesNoticed
<1>12. CASE RestrictedCut
  BY <1>0, <1>12 DEF RestrictedCut, Tracking, ThrottledWaits, ChangesNoticed
<1>13. CASE UNCHANGED vars
  BY <1>0, <1>13 DEF vars, Tracking, ThrottledWaits, ChangesNoticed
<1>14. QED
  BY <1>1, <1>2, <1>3, <1>4, <1>5, <1>6, <1>7, <1>8, <1>9, <1>10, <1>11, <1>12, <1>13
  DEF Next, Environment, Inotify, Scan, SwitchApp, Restrict

(* No change is forgotten: Start may drop an event only while the scan it  *)
(* asks for is waiting.                                                    *)
THEOREM ChangesAreNoticed == Spec => []ChangesNoticed
<1>1. Spec => Init /\ [][Next]_vars
  BY DEF Spec, SafeSpec
<1>2. Spec => []Base
  BY <1>1, BaseInit, BaseStep, PTL
<1>3. Base => ChangesNoticed
  BY DEF Base
<1>4. QED
  BY <1>2, <1>3, PTL

-----------------------------------------------------------------------------
(* The app.  Unless it is of a list that was cut short, topappNr_ is a     *)
(* number of tasks some app had.                                           *)
IsNrOf(a) == topappNr_ \in {Tasks[a], Tasks[a] + Jitter}

NrOfApp    == missed \/ topappNr_ = 0 \/ \E a \in Apps : IsNrOf(a)
NrNeedsApp == topappNr_ # 0 => Subscribed("DynamicFps")

(* Of the one in the foreground, once every switch has been read.          *)
NrUpToDate == ~missed /\ "ta" \notin unseen /\ topappNr_ # 0 => IsNrOf(topApp)

(* Whoever it is of has been announced, or a look is due.                  *)
NrAnnounced ==
  ~missed /\ topappNr_ # 0 =>
    \/ "look" \in scheduled
    \/ looking
    \/ prevPkgName_ \in Apps /\ IsNrOf(prevPkgName_)

(* A list that was read after start-up has set it.                         *)
NrSet == ~missed /\ "ta" \in tracked \ unseen => topappNr_ # 0

AppInv == Base /\ NrOfApp /\ NrNeedsApp /\ NrUpToDate /\ NrAnnounced /\ NrSet

(* FarApart: numbers within the threshold of each other are of one app.    *)
LEMMA NearIsSame ==
  ASSUME NEW a \in Apps, NEW b \in Apps,
         NEW m \in {Tasks[a], Tasks[a] + Jitter}, NEW n \in {Tasks[b], Tasks[b] + Jitter},
         Distance(m, n) <= TOP_TASK_NR_DIFF_MIN
  PROVE  a = b
<1> SUFFICES ASSUME a # b PROVE FALSE
  OBVIOUS
<1>1. Tasks[a] \in Nat /\ Tasks[b] \in Nat /\ Jitter \in Nat
  BY AppsAssumption
<1>2. Distance(Tasks[a], Tasks[b]) > TOP_TASK_NR_DIFF_MIN + Jitter
  BY FarApart
<1>3. QED
  BY <1>1, <1>2 DEF Distance, TOP_TASK_NR_DIFF_MIN

(* And none is within the threshold of the constructor's zero.             *)
LEMMA FarFromZero ==
  ASSUME NEW a \in Apps, NEW m \in {Tasks[a], Tasks[a] + Jitter}
  PROVE  m \in Nat /\ Distance(m, 0) > TOP_TASK_NR_DIFF_MIN
<1>1. Tasks[a] \in Nat /\ Tasks[a] > TOP_TASK_NR_DIFF_MIN /\ Jitter \in Nat
  BY AppsAssumption, FarApart
<1>2. QED
  BY <1>1 DEF Distance, TOP_TASK_NR_DIFF_MIN

LEMMA AppInit == Init => AppInv
  BY BaseInit DEF Init, AppInv, NrOfApp, NrNeedsApp, NrUpToDate, NrAnnounced, NrSet

LEMMA AppStep == AppInv /\ [Next]_vars => AppInv'
<1> SUFFICES ASSUME AppInv, [Next]_vars PROVE AppInv'
  OBVIOUS
<1> USE DEF kernel, program, memory
<1> DEFINE Parts == NrOfApp /\ NrNeedsApp /\ NrUpToDate /\ NrAnnounced /\ NrSet
<1>0. Base /\ Base' /\ Parts
  BY BaseStep DEF AppInv
<1> SUFFICES Parts'
  BY <1>0 DEF AppInv
<1>1. CASE SwitchApp
  BY <1>0, <1>1 DEF SwitchApp, Changed, NrOfApp, NrNeedsApp, NrUpToDate, NrAnnounced, NrSet,
                    IsNrOf, Subscribed, Done
<1>2. CASE Restrict
  BY <1>0, <1>2 DEF Restrict, Changed, NrOfApp, NrNeedsApp, NrUpToDate, NrAnnounced, NrSet,
                    IsNrOf, Subscribed, Done
<1>3. CASE OtherWrite \/ Millisecond \/ UNCHANGED vars
  BY <1>0, <1>3 DEF OtherWrite, Millisecond, vars, NrOfApp, NrNeedsApp, NrUpToDate,
                    NrAnnounced, NrSet, IsNrOf, Subscribed, Done
<1>4. CASE Boot
  <2>1. Subscribed("DynamicFps") => Subscribed("DynamicFps")'
    BY <1>0, <1>4, StartupSteps DEF Boot, Subscribed, Done, Base, TypeOK
  <2>2. QED
    BY <1>0, <1>4, <2>1 DEF Boot, NrOfApp, NrNeedsApp, NrUpToDate, NrAnnounced, NrSet, IsNrOf
<1>5. ASSUME NEW c \in Cgroups, OnModified(c) PROVE Parts'
  BY <1>0, <1>5 DEF OnModified, NrOfApp, NrNeedsApp, NrUpToDate, NrAnnounced, NrSet,
                    IsNrOf, Subscribed, Done
<1>6. CASE ScanTopapp
  <2>1. PICK n \in {0, Jitter} : TopappList(Tasks[topApp] + n)
    BY <1>6 DEF ScanTopapp
  <2> DEFINE nr == Tasks[topApp] + n
  <2>2. topApp \in Apps /\ Tasks[topApp] \in Nat /\ topappNr_ \in Nat /\ Jitter \in Nat
    BY <1>0, AppsAssumption DEF Base, TypeOK
  <2>3. nr \in {Tasks[topApp], Tasks[topApp] + Jitter} /\ nr \in Nat
    BY <2>2
  <2>4. CASE Subscribed("DynamicFps") /\ Distance(nr, topappNr_) > TOP_TASK_NR_DIFF_MIN
    <3>1. topappNr_' = nr /\ "look" \in scheduled'
      BY <2>1, <2>4 DEF TopappList
    <3>2. nr # 0
      BY <2>2, <2>3, FarFromZero DEF Distance, TOP_TASK_NR_DIFF_MIN
    <3>3. UNCHANGED <<topApp, started>>
      BY <1>6 DEF ScanTopapp
    <3>4. NrOfApp' /\ NrUpToDate'
      BY <2>2, <2>3, <3>1, <3>3 DEF NrOfApp, NrUpToDate, IsNrOf
    <3>5. NrNeedsApp' /\ NrAnnounced' /\ NrSet'
      BY <2>4, <3>1, <3>2, <3>3 DEF NrNeedsApp, NrAnnounced, NrSet, Subscribed, Done
    <3>6. QED
      BY <3>4, <3>5
  <2>5. CASE ~(Subscribed("DynamicFps") /\ Distance(nr, topappNr_) > TOP_TASK_NR_DIFF_MIN)
    <3>1. UNCHANGED topappNr_ /\ missed' = missed /\ scheduled' = scheduled \ {"ta"}
      <4>1. UNCHANGED topappNr_ /\ scheduled' = scheduled \ {"ta"}
        BY <2>1, <2>5 DEF TopappList
      <4>2. QED
        BY <1>0, <1>6, <4>1 DEF ScanTopapp, Base, TypeOK
    <3>2. UNCHANGED <<topApp, started, looking, prevPkgName_, tracked>>
      BY <1>6 DEF ScanTopapp
    <3>3. topappNr_ # 0 => Distance(nr, topappNr_) <= TOP_TASK_NR_DIFF_MIN
      BY <1>0, <2>2, <2>3, <2>5 DEF NrNeedsApp, Distance, TOP_TASK_NR_DIFF_MIN
    <3>4. ~missed /\ topappNr_ # 0 => IsNrOf(topApp)
      <4> SUFFICES ASSUME ~missed, topappNr_ # 0 PROVE IsNrOf(topApp)
        OBVIOUS
      <4>1. PICK a \in Apps : IsNrOf(a)
        BY <1>0 DEF NrOfApp
      <4>2. topApp = a
        BY <2>2, <2>3, <3>3, <4>1, NearIsSame DEF IsNrOf
      <4>3. QED
        BY <4>1, <4>2
    <3>5. "ta" \in tracked => topappNr_ # 0
      <4> SUFFICES ASSUME "ta" \in tracked, topappNr_ = 0 PROVE FALSE
        OBVIOUS
      <4>1. Subscribed("DynamicFps")
        BY <1>0, AllDone DEF Base, Tracking
      <4>2. QED
        BY <2>2, <2>3, <2>5, <4>1, FarFromZero
    <3>6. QED
      BY <1>0, <3>1, <3>2, <3>4, <3>5 DEF NrOfApp, NrNeedsApp, NrUpToDate, NrAnnounced, NrSet,
                                         IsNrOf, Subscribed, Done
  <2>6. QED
    BY <2>4, <2>5
<1>7. CASE ScanRestricted
  BY <1>0, <1>7 DEF ScanRestricted, NrOfApp, NrNeedsApp, NrUpToDate, NrAnnounced, NrSet,
                    IsNrOf, Subscribed, Done
<1>8. ASSUME NEW u \in Lists, ScanFails(u) PROVE Parts'
  BY <1>0, <1>8 DEF ScanFails, Lists, NrOfApp, NrNeedsApp, NrUpToDate, NrAnnounced, NrSet,
                    IsNrOf, Subscribed, Done
<1>9. CASE Look
  BY <1>0, <1>9 DEF Look, NrOfApp, NrNeedsApp, NrUpToDate, NrAnnounced, NrSet,
                    IsNrOf, Subscribed, Done
<1>10. CASE Ask
  <2>1. PICK a \in {topApp, NoApp} :
          /\ GetTopAppName(a)
          /\ missed' = (missed \/ ("look" \notin scheduled /\ (a = NoApp \/ "ta" \in unseen)))
    BY <1>10 DEF Ask
  <2>2. UNCHANGED <<topApp, started, scheduled, topappNr_, unseen, tracked>>
    BY <1>10 DEF Ask
  <2>3. ASSUME ~missed' PROVE ~missed
    BY <2>1, <2>3
  <2>4. NrAnnounced'
    <3> SUFFICES ASSUME ~missed', topappNr_ # 0, "look" \notin scheduled
                 PROVE  prevPkgName_' \in Apps
                        /\ topappNr_ \in {Tasks[prevPkgName_'], Tasks[prevPkgName_'] + Jitter}
      BY <2>2 DEF NrAnnounced, IsNrOf
    <3>1. a # NoApp /\ "ta" \notin unseen
      BY <2>1
    <3>2. prevPkgName_' = topApp /\ topApp \in Apps
      BY <1>0, <2>1, <3>1 DEF GetTopAppName, Base, TypeOK
    <3>3. IsNrOf(topApp)
      BY <1>0, <2>3, <3>1 DEF NrUpToDate
    <3>4. QED
      BY <2>2, <3>2, <3>3 DEF IsNrOf
  <2>5. QED
    BY <1>0, <2>2, <2>3, <2>4 DEF NrOfApp, NrNeedsApp, NrUpToDate, NrSet, IsNrOf,
                                  Subscribed, Done
<1>11. CASE TopappCut
  <2>1. PICK n \in Cut : TopappList(n)
    BY <1>11 DEF TopappCut
  <2>2. missed' = TRUE /\ UNCHANGED started
    BY <1>11 DEF TopappCut
  <2>3. topappNr_' = topappNr_ \/ Subscribed("DynamicFps")
    BY <2>1 DEF TopappList
  <2>4. NrNeedsApp'
    BY <1>0, <2>2, <2>3 DEF NrNeedsApp, Subscribed, Done
  <2>5. QED
    BY <2>2, <2>4 DEF NrOfApp, NrUpToDate, NrAnnounced, NrSet
<1>12. CASE RestrictedCut
  BY <1>0, <1>12 DEF RestrictedCut, NrOfApp, NrNeedsApp, NrUpToDate, NrAnnounced, NrSet,
                     IsNrOf, Subscribed, Done
<1>13. QED
  BY <1>0, <1>1, <1>2, <1>3, <1>4, <1>5, <1>6, <1>7, <1>8, <1>9, <1>10, <1>11, <1>12
  DEF Next, Environment, Inotify, Scan

LEMMA AppInvAnnounced == AppInv => AppAnnounced
<1> SUFFICES ASSUME AppInv, "ta" \in tracked \ unseen, "look" \notin scheduled,
                    ~looking, ~missed
             PROVE  prevPkgName_ = topApp
  BY DEF AppAnnounced
<1>1. topappNr_ # 0
  BY DEF AppInv, NrSet
<1>2. IsNrOf(topApp) /\ prevPkgName_ \in Apps /\ IsNrOf(prevPkgName_)
  BY <1>1 DEF AppInv, NrUpToDate, NrAnnounced
<1>3. topApp \in Apps /\ topappNr_ \in Nat
  BY DEF AppInv, Base, TypeOK
<1>4. Distance(topappNr_, topappNr_) <= TOP_TASK_NR_DIFF_MIN
  BY <1>3 DEF Distance, TOP_TASK_NR_DIFF_MIN
<1>5. QED
  BY <1>2, <1>3, <1>4, NearIsSame DEF IsNrOf

(* At rest DynamicFps knows the app in the foreground, unless a list or an *)
(* answer failed or the answer was ahead of the lists.                     *)
THEOREM AppIsAnnounced == Spec => []AppAnnounced
<1>1. Spec => Init /\ [][Next]_vars
  BY DEF Spec, SafeSpec
<1>2. Spec => []AppInv
  BY <1>1, AppInit, AppStep, PTL
<1>3. QED
  BY <1>2, AppInvAnnounced, PTL

-----------------------------------------------------------------------------
(* The screen.                                                             *)
ScreenSeen == "re" \in tracked \ unseen => prevOffscreen_ = (restricted > RESTRICTED_TASK_NR_MIN)
ScreenTold == ~lost => isOffscreen_ = prevOffscreen_

OffInv == Base /\ ScreenSeen /\ ScreenTold

LEMMA OffInit == Init => OffInv
  BY BaseInit DEF Init, OffInv, ScreenSeen, ScreenTold

LEMMA OffStep == OffInv /\ [Next]_vars => OffInv'
<1> SUFFICES ASSUME OffInv, [Next]_vars PROVE OffInv'
  OBVIOUS
<1> USE DEF kernel, program, memory
<1>0. Base /\ Base' /\ ScreenSeen /\ ScreenTold
  BY BaseStep DEF OffInv
<1> SUFFICES ScreenSeen' /\ ScreenTold'
  BY <1>0 DEF OffInv
<1>1. CASE Restrict
  BY <1>0, <1>1 DEF Restrict, Changed, ScreenSeen, ScreenTold
<1>2. CASE SwitchApp
  BY <1>0, <1>2 DEF SwitchApp, Changed, ScreenSeen, ScreenTold
<1>3. CASE ScanRestricted
  <2>1. ScreenSeen'
    BY <1>3 DEF ScanRestricted, RestrictedList, ScreenSeen
  <2>2. ScreenTold'
    BY <1>0, <1>3, Zenon DEF ScanRestricted, RestrictedList, ScreenTold
  <2>3. QED
    BY <2>1, <2>2
<1>4. CASE \/ OtherWrite \/ Millisecond \/ Boot \/ ScanTopapp \/ TopappCut \/ Look \/ Ask
           \/ UNCHANGED vars
  BY <1>0, <1>4 DEF OtherWrite, Millisecond, Boot, ScanTopapp, TopappCut, Look, Ask, vars,
                    ScreenSeen, ScreenTold
<1>5. ASSUME NEW c \in Cgroups, OnModified(c) PROVE ScreenSeen' /\ ScreenTold'
  BY <1>0, <1>5 DEF OnModified, ScreenSeen, ScreenTold
<1>6. ASSUME NEW u \in Lists, ScanFails(u) PROVE ScreenSeen' /\ ScreenTold'
  BY <1>0, <1>6 DEF ScanFails, Lists, ScreenSeen, ScreenTold
<1>7. CASE RestrictedCut
  <2>1. ScreenSeen'
    BY <1>7 DEF RestrictedCut, ScreenSeen
  <2>2. PICK n \in Cut : RestrictedList(n)
    BY <1>7 DEF RestrictedCut
  <2>3. ScreenTold'
    BY <1>0, <2>2, Zenon DEF RestrictedList, ScreenTold
  <2>4. QED
    BY <2>1, <2>3
<1>8. QED
  BY <1>0, <1>1, <1>2, <1>3, <1>4, <1>5, <1>6, <1>7
  DEF Next, Environment, Inotify, Scan

(* DynamicFps knows whether the screen is off once the last change was     *)
(* read in full, whatever failed before, unless the state was published    *)
(* before it had subscribed.                                               *)
THEOREM OffscreenIsKnown == Spec => []OffscreenKnown
<1>1. Spec => Init /\ [][Next]_vars
  BY DEF Spec, SafeSpec
<1>2. Spec => []OffInv
  BY <1>1, OffInit, OffStep, PTL
<1>3. OffInv => OffscreenKnown
  BY DEF OffInv, ScreenSeen, ScreenTold, OffscreenKnown
<1>4. QED
  BY <1>2, <1>3, PTL
=============================================================================
