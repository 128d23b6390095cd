--------------------------- MODULE MCInputListener ---------------------------
(* The devices the run of InputListener is about, and behaviours that keep *)
(* to one question each: a panel and a keyboard that report side by side,  *)
(* what each kind of device can report, and devices that come and go.      *)
EXTENDS InputListener

MCFeatures ==
  [p \in Paths |-> CASE p = "panel"  -> {"abs", "range", "key"}
                     [] p = "pad"    -> {"abs", "range", "key", "finger"}
                     [] p = "keys"   -> {"key"}
                     [] p = "mouse"  -> {"rel", "key"}
                     [] OTHER        -> {"abs"}]

FingerKinds == {"down", "more", "fewer", "second", "first", "up"}

(* An instance: the devices that are there at first, the ones that come    *)
(* and go, the kinds of report there are, the devices of which a report    *)
(* may go unheard.                                                         *)
Instances ==
  {[present |-> {"panel", "keys"}, moving |-> {}, kinds |-> {"down", "more", "fewer", "up"}, lossy |-> {}],
   [present |-> {"panel"}, moving |-> {}, kinds |-> ReportKinds, lossy |-> {"panel"}],
   [present |-> {"pad"}, moving |-> {}, kinds |-> FingerKinds, lossy |-> {"pad"}],
   [present |-> {"keys", "mouse"}, moving |-> {}, kinds |-> ReportKinds, lossy |-> {"keys"}],
   [present |-> {"panel", "joystick"}, moving |-> {"panel", "keys"}, kinds |-> {}, lossy |-> {}]}

VARIABLE instance

Withheld ==
  /\ unheard' \subseteq instance.lossy
  /\ \A f \in DOMAIN readers', i \in 1 .. MaxQueue :
       i \in DOMAIN readers'[f].queue => readers'[f].queue[i] \in instance.kinds
  /\ "edge" \notin instance.kinds => ~swiped'
  /\ \A p \in Paths \ instance.moving : plugged'[p] = plugged[p]
  /\ instance.moving = {} => foreign' = {}

MCInit == Init /\ instance \in Instances /\ plugged = [p \in Paths |-> p \in instance.present]
MCNext == Next /\ Withheld /\ UNCHANGED instance

MCSpec == MCInit /\ [][MCNext]_<<vars, instance>> /\ Fairness
=============================================================================
