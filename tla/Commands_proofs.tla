-------------------------- MODULE Commands_proofs ---------------------------
(***************************************************************************)
(* Config and Commands for any file, any rules, settings and number of     *)
(* processes: an accepted file is in force as it was written, no command   *)
(* is of the other kind, and once all commands have ended the system has   *)
(* the rate curHz_ says.                                                   *)
(***************************************************************************)
EXTENDS Commands, FiniteSetTheorems, SequenceTheorems, WellFoundedInduction, TLAPS

-----------------------------------------------------------------------------
(* The inductive invariant of the configuration.                           *)

ConfigTypes ==
  /\ phase \in {"reading", "loaded", "refused", "running"}
  /\ tuned \in [Tunables -> Int] /\ tuned["useSfBackdoor"] \in {0, 1}
  /\ ruleOf \in [Names -> Rules \cup {NoRule}]
  /\ read \in Seq(Lines)

BadLine == \E k \in DOMAIN read : read[k].kind = "malformed"

(* The tunables and the rules are those of the lines read so far: the file *)
(* is forgotten when the app runs.                                         *)
Followed ==
  phase # "running" =>
    /\ \A t \in Tunables : tuned[t] = Tuned(t, Meant(t))
    /\ \A n \in Names : ruleOf[n] = MeantRule(n)

Complete ==
  /\ NoRule \notin {ruleOf["-"], ruleOf["*"]}
  /\ \A n \in Names : ruleOf[n] # NoRule => ~IsInvalid(ruleOf[n])

(* Why reading has ended.                                                  *)
Judged ==
  /\ phase \in {"reading", "loaded"} => ~BadLine
  /\ phase \in {"loaded", "running"} => Complete
  /\ phase = "refused" => BadLine \/ ~Complete

ConfigInv == ConfigTypes /\ Followed /\ Judged

-----------------------------------------------------------------------------
(* The first and the last of a set of lines.                               *)

LEMMA MinIsLeast ==
  ASSUME NEW S, S \subseteq Nat, S # {}
  PROVE  Min(S) \in S /\ \A y \in S : Min(S) <= y
<1>1. PICK x \in S : \A y \in S : <<y, x>> \notin OpToRel(<, Nat)
  BY NatLessThanWellFounded, WFMin
<1>2. OpToRel(<, Nat) = {ss \in Nat \X Nat : ss[1] < ss[2]}
  BY DEF OpToRel
<1>3. \A y \in S : ~(y < x)
  BY <1>1, <1>2
<1>4. \A y \in S : x <= y
  BY <1>3
<1>5. QED
  BY <1>4 DEF Min

LEMMA MaxIsLast ==
  ASSUME NEW m \in Nat, NEW S, S \subseteq 1 .. m, S # {}
  PROVE  Max(S) \in S
<1> DEFINE T == {m - x : x \in S}
<1>1. T \subseteq Nat /\ T # {}
  <2>1. PICK x \in S : TRUE
    OBVIOUS
  <2>2. m - x \in T
    BY <2>1
  <2>3. QED
    BY <2>2
<1>2. PICK x \in S : m - x = Min(T) /\ \A y \in T : m - x <= y
  BY <1>1, MinIsLeast
<1>3. \A y \in S : x >= y
  <2>1. \A y \in S : m - x <= m - y
    BY <1>2
  <2>2. QED
    BY <2>1
<1>4. QED
  BY <1>3 DEF Max

(* A line after all others is the last one, and the first one when there   *)
(* is no other.                                                            *)
LEMMA LineAfter ==
  ASSUME NEW m \in Nat, NEW S, S \subseteq 1 .. m
  PROVE  /\ Max(S \cup {m + 1}) = m + 1
         /\ Min(S \cup {m + 1}) = IF S = {} THEN m + 1 ELSE Min(S)
<1> DEFINE T == S \cup {m + 1}
<1>1. Max(T) = m + 1
  <2>1. m + 1 \in T /\ \A y \in T : m + 1 >= y
    OBVIOUS
  <2>2. \A x \in T : (\A y \in T : x >= y) => x = m + 1
    OBVIOUS
  <2>3. QED
    BY <2>1, <2>2 DEF Max
<1>0. S \subseteq Nat /\ T \subseteq Nat /\ m + 1 \in T
  OBVIOUS
<1>2. Min(T) \in T /\ \A y \in T : Min(T) <= y
  <2> HIDE DEF T
  <2>1. QED
    BY <1>0, MinIsLeast
<1>3. CASE S = {}
  BY <1>1, <1>2, <1>3
<1>4. CASE S # {}
  <2> DEFINE a == Min(S)  b == Min(T)
  <2>1. a \in S /\ \A y \in S : a <= y
    BY <1>4, <1>0, MinIsLeast
  <2>2. b \in T /\ \A y \in T : b <= y
    BY <1>2
  <2> HIDE DEF a, b
  <2>3. a \in T /\ a <= m /\ a \in Nat
    BY <2>1
  <2>4. b <= a /\ b \in Nat
    BY <1>0, <2>2, <2>3
  <2>5. b \in S
    BY <2>2, <2>3, <2>4
  <2>6. a = b
    BY <2>1, <2>3, <2>4, <2>5
  <2>7. QED
    BY <1>1, <1>4, <2>6 DEF a, b
<1>5. QED
  BY <1>3, <1>4

-----------------------------------------------------------------------------
(* What a file means, line by line.                                        *)

LEMMA LineTypes ==
  ASSUME NEW l \in Lines
  PROVE  /\ l.kind \in {"skipped", "malformed", "tunable", "rule"}
         /\ l.kind = "rule" => l.name \in Names /\ l.rule \in Rules
         /\ l.kind = "tunable" => l.tuning[1] \in Tunables /\ l.tuning[2] \in Int
<1>1. CASE l \in [kind : {"tunable"}, tuning : Tunings]
  BY <1>1, ConfigAssumption
<1>2. CASE l \in [kind : {"rule"}, name : Names, rule : Rules]
  BY <1>2
<1>3. QED
  BY <1>1, <1>2 DEF Lines

LEMMA RulesAreNoNoRule == \A r \in Rules : r # NoRule /\ r[1] \in Int /\ r[2] \in Int
<1> SUFFICES ASSUME NEW r \in Rules
             PROVE  r # NoRule /\ r[1] \in Int /\ r[2] \in Int
  OBVIOUS
<1>0. Rules \subseteq Int \X Int
  BY ConfigAssumption
<1>1. PICK i \in Int, a \in Int : r = <<i, a>>
  BY <1>0
<1>2. Len(<<i, a>>) = 2 /\ Len(<<>>) = 0
  OBVIOUS
<1>3. QED
  BY <1>1, <1>2 DEF NoRule

(* A name has the rule of one of its lines.                                *)
LEMMA RuleOfLine ==
  ASSUME ConfigTypes, NEW n \in Names
  PROVE  /\ RulesFor(n) \subseteq 1 .. Len(read)
         /\ RulesFor(n) # {} => /\ Min(RulesFor(n)) \in RulesFor(n)
                                /\ Max(RulesFor(n)) \in RulesFor(n)
                                /\ MeantRule(n) \in Rules
         /\ RulesFor(n) = {} => MeantRule(n) = NoRule
<1>1. Len(read) \in Nat /\ DOMAIN read = 1 .. Len(read) /\ \A k \in 1 .. Len(read) : read[k] \in Lines
  BY DEF ConfigTypes
<1>2. RulesFor(n) \subseteq 1 .. Len(read)
  BY <1>1 DEF RulesFor
<1>3. ASSUME RulesFor(n) # {}
      PROVE  Min(RulesFor(n)) \in RulesFor(n) /\ Max(RulesFor(n)) \in RulesFor(n)
  BY <1>1, <1>2, <1>3, MinIsLeast, MaxIsLast
<1>4. \A k \in RulesFor(n) : read[k].rule \in Rules
  BY <1>1, LineTypes DEF RulesFor
<1>5. QED
  BY <1>2, <1>3, <1>4 DEF MeantRule

LEMMA SettingOfLine ==
  ASSUME ConfigTypes, NEW t \in Tunables
  PROVE  /\ Settings(t) \subseteq 1 .. Len(read)
         /\ Settings(t) # {} => Max(Settings(t)) \in Settings(t)
         /\ Meant(t) \in Int
<1>1. Len(read) \in Nat /\ DOMAIN read = 1 .. Len(read) /\ \A k \in 1 .. Len(read) : read[k] \in Lines
  BY DEF ConfigTypes
<1>2. Settings(t) \subseteq 1 .. Len(read)
  BY <1>1 DEF Settings
<1>3. ASSUME Settings(t) # {}
      PROVE  Max(Settings(t)) \in Settings(t)
  BY <1>1, <1>2, <1>3, MaxIsLast
<1>4. \A k \in Settings(t) : read[k].tuning[2] \in Int
  BY <1>1, LineTypes DEF Settings
<1>5. Defaults[t] \in Int
  BY DEF Defaults
<1>6. QED
  BY <1>2, <1>3, <1>4, <1>5 DEF Meant

(* What one more line changes: the rule of its name, unless that is an app *)
(* which has one, and the tunable it sets.                                 *)
LEMMA RuleAdded ==
  ASSUME ConfigTypes, NEW line \in Lines, read' = Append(read, line), NEW n \in Names
  PROVE  MeantRule(n)' = IF line.kind = "rule" /\ line.name = n /\ ~(n \in Apps /\ MeantRule(n) # NoRule)
                         THEN line.rule ELSE MeantRule(n)
<1> DEFINE m == Len(read)  S == RulesFor(n)
<1>1. /\ m \in Nat /\ DOMAIN read = 1 .. m /\ DOMAIN read' = 1 .. m + 1
      /\ \A k \in 1 .. m : read'[k] = read[k]
      /\ read'[m + 1] = line
  BY DEF ConfigTypes
<1>2. /\ S \subseteq 1 .. m
      /\ S # {} => Min(S) \in S /\ Max(S) \in S /\ MeantRule(n) # NoRule
      /\ S = {} => MeantRule(n) = NoRule
  BY RuleOfLine, RulesAreNoNoRule
<1>3. CASE line.kind = "rule" /\ line.name = n
  <2>1. RulesFor(n)' = S \cup {m + 1}
    BY <1>1, <1>3 DEF RulesFor
  <2>2. MeantRule(n)' = read'[IF n \in Apps THEN Min(S \cup {m + 1}) ELSE Max(S \cup {m + 1})].rule
    BY <2>1 DEF MeantRule
  <2>3. CASE n \in Apps /\ S # {}
    <3>1. MeantRule(n)' = read'[Min(S)].rule
      BY <1>1, <1>2, <2>2, <2>3, LineAfter
    <3>2. MeantRule(n) = read[Min(S)].rule
      BY <2>3 DEF MeantRule
    <3>3. QED
      BY <1>1, <1>2, <2>3, <3>1, <3>2
  <2>4. CASE ~(n \in Apps /\ S # {})
    <3>1. MeantRule(n)' = read'[m + 1].rule
      BY <1>1, <1>2, <2>2, <2>4, LineAfter
    <3>2. QED
      BY <1>1, <1>2, <1>3, <2>4, <3>1
  <2>5. QED
    BY <2>3, <2>4
<1>4. CASE ~(line.kind = "rule" /\ line.name = n)
  <2>1. RulesFor(n)' = S
    BY <1>1, <1>4 DEF RulesFor
  <2>2. QED
    BY <1>1, <1>2, <1>4, <2>1 DEF MeantRule
<1>5. QED
  BY <1>3, <1>4

LEMMA TunableSet ==
  ASSUME ConfigTypes, NEW line \in Lines, read' = Append(read, line), NEW t \in Tunables
  PROVE  Meant(t)' = IF line.kind = "tunable" /\ line.tuning[1] = t THEN line.tuning[2] ELSE Meant(t)
<1> DEFINE m == Len(read)  S == Settings(t)
<1>1. /\ m \in Nat /\ DOMAIN read = 1 .. m /\ DOMAIN read' = 1 .. m + 1
      /\ \A k \in 1 .. m : read'[k] = read[k]
      /\ read'[m + 1] = line
  BY DEF ConfigTypes
<1>2. S \subseteq 1 .. m /\ (S # {} => Max(S) \in S)
  BY SettingOfLine
<1>3. CASE line.kind = "tunable" /\ line.tuning[1] = t
  <2>1. Settings(t)' = S \cup {m + 1}
    BY <1>1, <1>3 DEF Settings
  <2>2. Max(S \cup {m + 1}) = m + 1
    BY <1>1, <1>2, LineAfter
  <2>3. QED
    BY <1>1, <1>3, <2>1, <2>2 DEF Meant
<1>4. CASE ~(line.kind = "tunable" /\ line.tuning[1] = t)
  <2>1. Settings(t)' = S
    BY <1>1, <1>4 DEF Settings
  <2>2. QED
    BY <1>1, <1>2, <1>4, <2>1 DEF Meant
<1>5. QED
  BY <1>3, <1>4

-----------------------------------------------------------------------------
(* Reading a file keeps the invariant, and the invariant is what           *)
(* ConfigAsWritten asks for.                                               *)

LEMMA TunedTypes ==
  ASSUME NEW t \in Tunables, NEW v \in Int
  PROVE  /\ Tuned(t, v) \in Int /\ Tuned(t, Defaults[t]) = Defaults[t]
         /\ Tuned("useSfBackdoor", v) \in {0, 1}
BY DEF Tuned, Defaults, Tunables, MIN_TOUCH_SLACK_MS, MAX_ENABLE_MIN_BRIGHTNESS

LEMMA ConfigStart == ConfigInit => ConfigInv
<1> SUFFICES ASSUME ConfigInit
             PROVE  ConfigInv
  OBVIOUS
<1>1. /\ phase = "reading" /\ tuned = Defaults /\ read = <<>> /\ DOMAIN read = {}
      /\ ruleOf = [n \in Names |-> NoRule]
  BY DEF ConfigInit
<1>2. Defaults \in [Tunables -> Int] /\ Defaults["useSfBackdoor"] = 0
  BY DEF Defaults, Tunables
<1>3. ConfigTypes
  BY <1>1, <1>2 DEF ConfigTypes
<1>4. /\ \A t \in Tunables : Meant(t) = Defaults[t]
      /\ \A n \in Names : MeantRule(n) = NoRule
  BY <1>1 DEF Meant, Settings, MeantRule, RulesFor
<1>5. Followed
  BY <1>1, <1>4, TunedTypes DEF Followed
<1>6. Judged
  BY <1>1 DEF Judged, BadLine
<1>7. QED
  BY <1>3, <1>5, <1>6 DEF ConfigInv

LEMMA ReadLineKeeps == ConfigInv /\ ReadLine => ConfigInv'
<1> SUFFICES ASSUME ConfigInv, ReadLine
             PROVE  ConfigInv'
  OBVIOUS
<1>1. PICK line \in Lines : /\ phase = "reading" /\ read' = Append(read, line)
                            /\ ParseLine(line)
  BY DEF ReadLine
<1>2. /\ ConfigTypes /\ ~BadLine
      /\ \A t \in Tunables : tuned[t] = Tuned(t, Meant(t))
      /\ \A n \in Names : ruleOf[n] = MeantRule(n)
  BY <1>1 DEF ConfigInv, Followed, Judged
<1>3. /\ read' \in Seq(Lines) /\ DOMAIN read' = 1 .. Len(read) + 1 /\ Len(read) \in Nat
      /\ \A k \in 1 .. Len(read) : read'[k] = read[k]
      /\ read'[Len(read) + 1] = line
  BY <1>1, <1>2 DEF ConfigTypes
<1>4. \A t \in Tunables : Meant(t)' = IF line.kind = "tunable" /\ line.tuning[1] = t
                                      THEN line.tuning[2] ELSE Meant(t)
  BY <1>1, <1>2, TunableSet
<1>5. \A n \in Names : MeantRule(n)' = IF line.kind = "rule" /\ line.name = n /\ ~(n \in Apps /\ MeantRule(n) # NoRule)
                                       THEN line.rule ELSE MeantRule(n)
  BY <1>1, <1>2, RuleAdded
<1>6. BadLine' <=> line.kind = "malformed"
  BY <1>2, <1>3 DEF BadLine
<1>7. CASE line.kind \in {"skipped", "malformed"}
  <2>1. /\ UNCHANGED <<tuned, ruleOf>>
        /\ phase' = IF line.kind = "malformed" THEN "refused" ELSE "reading"
    BY <1>1, <1>7 DEF ParseLine
  <2>2. ConfigTypes'
    BY <1>2, <1>3, <2>1 DEF ConfigTypes
  <2>3. Followed'
    BY <1>2, <1>4, <1>5, <1>7, <2>1 DEF Followed
  <2>4. Judged'
    BY <1>6, <1>7, <2>1 DEF Judged
  <2>5. QED
    BY <2>2, <2>3, <2>4 DEF ConfigInv
<1>8. CASE line.kind = "tunable"
  <2> DEFINE t == line.tuning[1]  v == line.tuning[2]
  <2>1. t \in Tunables /\ v \in Int
    BY <1>8, LineTypes
  <2>2. tuned' = [tuned EXCEPT ![t] = Tuned(t, v)] /\ UNCHANGED <<phase, ruleOf>>
    BY <1>1, <1>8 DEF ParseLine, SetTunable
  <2>3. /\ tuned \in [Tunables -> Int] /\ tuned["useSfBackdoor"] \in {0, 1}
        /\ Tuned(t, v) \in Int /\ (t = "useSfBackdoor" => Tuned(t, v) \in {0, 1})
    BY <1>2, <2>1, TunedTypes DEF ConfigTypes
  <2>4. ConfigTypes'
    <3>1. tuned' \in [Tunables -> Int] /\ tuned'["useSfBackdoor"] \in {0, 1}
      BY <2>1, <2>2, <2>3 DEF Tunables
    <3>2. QED
      BY <1>2, <1>3, <2>2, <3>1 DEF ConfigTypes
  <2>5. \A u \in Tunables : tuned'[u] = Tuned(u, Meant(u)')
    BY <1>2, <1>4, <1>8, <2>1, <2>2, <2>3
  <2>6. Followed'
    BY <1>2, <1>5, <1>8, <2>2, <2>5 DEF Followed
  <2>7. Judged'
    BY <1>1, <1>6, <1>8, <2>2 DEF Judged
  <2>8. QED
    BY <2>4, <2>6, <2>7 DEF ConfigInv
<1>9. CASE line.kind = "rule"
  <2>1. line.name \in Names /\ line.rule \in Rules
    BY <1>9, LineTypes
  <2>2. /\ ruleOf' = IF Takes(line.name) THEN [ruleOf EXCEPT ![line.name] = line.rule] ELSE ruleOf
        /\ UNCHANGED <<phase, tuned>>
    BY <1>1, <1>9 DEF ParseLine, AddRule
  <2>3. ruleOf \in [Names -> Rules \cup {NoRule}]
    BY <1>2 DEF ConfigTypes
  <2>4. ConfigTypes'
    BY <1>2, <1>3, <2>1, <2>2, <2>3 DEF ConfigTypes
  <2>5. \A n \in Names : ruleOf'[n] = MeantRule(n)'
    BY <1>2, <1>5, <1>9, <2>1, <2>2, <2>3 DEF Takes, Kept
  <2>6. Followed'
    BY <1>2, <1>4, <1>9, <2>2, <2>5 DEF Followed
  <2>7. Judged'
    BY <1>1, <1>6, <1>9, <2>2 DEF Judged
  <2>8. QED
    BY <2>4, <2>6, <2>7 DEF ConfigInv
<1>10. QED
  BY <1>7, <1>8, <1>9, LineTypes

LEMMA ConfigSame == ConfigInv /\ UNCHANGED configVars => ConfigInv'
<1> SUFFICES ASSUME ConfigInv, UNCHANGED configVars
             PROVE  ConfigInv'
  OBVIOUS
<1>1. UNCHANGED <<phase, tuned, ruleOf, read>>
  BY DEF configVars
<1>2. (Complete' <=> Complete) /\ (BadLine' <=> BadLine)
  BY <1>1 DEF Complete, BadLine, IsInvalid
<1>3. /\ \A t \in Tunables : Meant(t)' = Meant(t)
      /\ \A n \in Names : MeantRule(n)' = MeantRule(n)
  BY <1>1 DEF Meant, Settings, MeantRule, RulesFor
<1>4. QED
  BY <1>1, <1>2, <1>3 DEF ConfigInv, ConfigTypes, Followed, Judged

LEMMA EndOfFileKeeps == ConfigInv /\ EndOfFile => ConfigInv'
<1> SUFFICES ASSUME ConfigInv, EndOfFile
             PROVE  ConfigInv'
  OBVIOUS
<1>1. /\ phase = "reading" /\ UNCHANGED <<tuned, ruleOf, read>>
      /\ phase' = IF ~Complete THEN "refused" ELSE "loaded"
  BY DEF EndOfFile, Complete
<1>2. (Complete' <=> Complete) /\ (BadLine' <=> BadLine)
  BY <1>1 DEF Complete, BadLine, IsInvalid
<1>3. /\ \A t \in Tunables : Meant(t)' = Meant(t)
      /\ \A n \in Names : MeantRule(n)' = MeantRule(n)
  BY <1>1 DEF Meant, Settings, MeantRule, RulesFor
<1>4. ConfigTypes'
  BY <1>1 DEF ConfigInv, ConfigTypes
<1>5. Followed'
  BY <1>1, <1>3 DEF ConfigInv, Followed
<1>6. Judged'
  BY <1>1, <1>2 DEF ConfigInv, Judged
<1>7. QED
  BY <1>4, <1>5, <1>6 DEF ConfigInv

LEMMA StartKeeps == ConfigInv /\ Start => ConfigInv'
<1> SUFFICES ASSUME ConfigInv, Start
             PROVE  ConfigInv'
  OBVIOUS
<1>1. phase = "loaded" /\ phase' = "running" /\ read' = <<>> /\ UNCHANGED <<tuned, ruleOf>>
  BY DEF Start
<1>2. Complete' <=> Complete
  BY <1>1 DEF Complete, IsInvalid
<1>3. QED
  BY <1>1, <1>2 DEF ConfigInv, ConfigTypes, Followed, Judged

(* What FindInvalidRule makes of a rule under either method: it lets pass  *)
(* what suits the method and, with frequencies, what is mixed.             *)
LEMMA InvalidIsUnsuited ==
  ASSUME ConfigTypes,
         NEW n \in Names, ruleOf[n] = MeantRule(n), ruleOf[n] # NoRule,
         (tuned["useSfBackdoor"] = 1) <=> (Meant("useSfBackdoor") > 0)
  PROVE  ~IsInvalid(ruleOf[n]) <=> Suited(n) \/ Mixed(n)
<1> DEFINE r == ruleOf[n]
           backdoor == Meant("useSfBackdoor") > 0
<1>1. r[1] \in Int /\ r[2] \in Int /\ r = <<r[1], r[2]>>
  <2>1. r \in Rules
    BY DEF ConfigTypes
  <2>2. r \in Int \X Int
    BY <2>1, ConfigAssumption
  <2>3. QED
    BY <2>2
<1>2. r = DefaultRule <=> r[1] = -1 /\ r[2] = -1
  BY <1>1 DEF DefaultRule
<1>3. IsInvalid(r) <=> /\ ~(r[1] = -1 /\ r[2] = -1)
                       /\ ~(backdoor <=> (r[1] < 20 /\ r[2] < 20))
  BY <1>2 DEF IsInvalid, IsSfBackdoorRule
<1>4. Suited(n) <=> Suits(r[1]) /\ Suits(r[2])
  BY DEF Suited
<1>5. Mixed(n) <=> /\ ~backdoor
                   /\ \/ ~Suits(r[1]) /\ r[2] >= 20
                      \/ ~Suits(r[2]) /\ r[1] >= 20
  BY DEF Mixed
<1>6. CASE backdoor
  <2>1. \A v \in Int : Suits(v) <=> v < 20
    BY <1>6 DEF Suits
  <2>2. QED
    BY <1>1, <1>3, <1>4, <1>5, <1>6, <2>1
<1>7. CASE ~backdoor
  <2>1. /\ Suited(n) <=> (r[1] = -1 \/ r[1] >= 20) /\ (r[2] = -1 \/ r[2] >= 20)
        /\ Mixed(n) <=> \/ ~(r[1] = -1 \/ r[1] >= 20) /\ r[2] >= 20
                        \/ ~(r[2] = -1 \/ r[2] >= 20) /\ r[1] >= 20
    BY <1>4, <1>5, <1>7 DEF Suits
  <2>2. \A x, y \in Int :
          ~(~(x = -1 /\ y = -1) /\ x < 20 /\ y < 20) <=>
             \/ (x = -1 \/ x >= 20) /\ (y = -1 \/ y >= 20)
             \/ ~(x = -1 \/ x >= 20) /\ y >= 20
             \/ ~(y = -1 \/ y >= 20) /\ x >= 20
    OBVIOUS
  <2>3. QED
    BY <1>1, <1>3, <1>7, <2>1, <2>2
<1>8. QED
  BY <1>6, <1>7

(* A file read without a bad line is complete exactly when it has what it  *)
(* must and its rules suit the method or are mixed.                        *)
LEMMA CompleteIsAcceptable ==
  ASSUME ConfigInv, phase # "running"
  PROVE  ~BadLine /\ Complete <=> WellFormed /\ \A n \in Names : Suited(n) \/ Mixed(n)
<1>1. /\ ConfigTypes
      /\ \A t \in Tunables : tuned[t] = Tuned(t, Meant(t))
      /\ \A n \in Names : ruleOf[n] = MeantRule(n)
  BY DEF ConfigInv, Followed
<1>2. tuned["useSfBackdoor"] = 1 <=> Meant("useSfBackdoor") > 0
  <2>1. "useSfBackdoor" \in Tunables
    BY DEF Tunables
  <2>2. tuned["useSfBackdoor"] = IF Meant("useSfBackdoor") > 0 THEN 1 ELSE 0
    BY <1>1, <2>1 DEF Tuned
  <2>3. QED
    BY <2>2
<1>3. \A n \in Names : RulesFor(n) = {} <=> ruleOf[n] = NoRule
  BY <1>1, RuleOfLine, RulesAreNoNoRule
<1>4. (\A n \in {"-", "*"} : RulesFor(n) # {}) <=> NoRule \notin {ruleOf["-"], ruleOf["*"]}
  BY <1>3 DEF Names
<1>5. ASSUME NEW n \in Names
      PROVE  (ruleOf[n] # NoRule => ~IsInvalid(ruleOf[n])) <=> Suited(n) \/ Mixed(n)
  <2>1. CASE ruleOf[n] = NoRule
    BY <1>1, <2>1 DEF Suited
  <2>2. CASE ruleOf[n] # NoRule
    BY <1>1, <1>2, <2>2, InvalidIsUnsuited
  <2>3. QED
    BY <2>1, <2>2
<1>6. Complete <=> /\ \A n \in {"-", "*"} : RulesFor(n) # {}
                   /\ \A n \in Names : Suited(n) \/ Mixed(n)
  BY <1>4, <1>5 DEF Complete
<1>7. QED
  BY <1>6 DEF WellFormed, BadLine

LEMMA LargerAndSmaller ==
  ASSUME NEW a \in Int, NEW b \in Int
  PROVE  /\ Max({a, b}) = IF a > b THEN a ELSE b
         /\ Min({a, b}) = IF a < b THEN a ELSE b
<1>1. \A x \in {a, b} : (\A y \in {a, b} : x >= y) <=> x = IF a > b THEN a ELSE b
  OBVIOUS
<1>2. \A x \in {a, b} : (\A y \in {a, b} : x <= y) <=> x = IF a < b THEN a ELSE b
  OBVIOUS
<1>3. QED
  BY <1>1, <1>2 DEF Max, Min

LEMMA ConfigFollows == ConfigInv => ConfigAsWritten
<1> SUFFICES ASSUME ConfigInv
             PROVE  ConfigAsWritten
  OBVIOUS
<1>1. /\ phase = "refused" => ~Acceptable
      /\ phase = "loaded" => WellFormed /\ \A n \in Names : Suited(n) \/ Mixed(n)
  <2>1. phase # "running" =>
          (~BadLine /\ Complete <=> WellFormed /\ \A n \in Names : Suited(n) \/ Mixed(n))
    BY CompleteIsAcceptable
  <2>2. QED
    BY <2>1 DEF ConfigInv, Judged, Acceptable
<1>2. ASSUME phase = "loaded"
      PROVE  /\ ruleOf = [n \in Names |-> MeantRule(n)]
             /\ (tuned["useSfBackdoor"] = 1) <=> (Meant("useSfBackdoor") > 0)
             /\ tuned["touchSlackMs"] = Max({Meant("touchSlackMs"), MIN_TOUCH_SLACK_MS})
             /\ tuned["enableMinBrightness"] = Min({Meant("enableMinBrightness"), MAX_ENABLE_MIN_BRIGHTNESS})
  <2>1. /\ \A t \in Tunables : tuned[t] = Tuned(t, Meant(t)) /\ Meant(t) \in Int
        /\ \A n \in Names : ruleOf[n] = MeantRule(n)
        /\ ruleOf \in [Names -> Rules \cup {NoRule}]
    BY <1>2, SettingOfLine DEF ConfigInv, Followed, ConfigTypes
  <2>2. ruleOf = [n \in Names |-> MeantRule(n)]
    BY <2>1
  <2>3. (tuned["useSfBackdoor"] = 1) <=> (Meant("useSfBackdoor") > 0)
    <3>1. tuned["useSfBackdoor"] = IF Meant("useSfBackdoor") > 0 THEN 1 ELSE 0
      BY <2>1 DEF Tuned, Tunables
    <3>2. QED
      BY <3>1
  <2>4. tuned["touchSlackMs"] = Max({Meant("touchSlackMs"), MIN_TOUCH_SLACK_MS})
    <3> DEFINE v == Meant("touchSlackMs")
    <3>1. v \in Int /\ tuned["touchSlackMs"] = IF v > 100 THEN v ELSE 100
      BY <2>1 DEF Tuned, Tunables, MIN_TOUCH_SLACK_MS
    <3> HIDE DEF v
    <3>2. Max({v, 100}) = IF v > 100 THEN v ELSE 100
      BY <3>1, LargerAndSmaller
    <3>3. QED
      BY <3>1, <3>2 DEF v, MIN_TOUCH_SLACK_MS
  <2>5. tuned["enableMinBrightness"] = Min({Meant("enableMinBrightness"), MAX_ENABLE_MIN_BRIGHTNESS})
    BY <2>1, LargerAndSmaller DEF Tuned, Tunables, MAX_ENABLE_MIN_BRIGHTNESS
  <2>6. QED
    BY <2>2, <2>3, <2>4, <2>5
<1>3. QED
  BY <1>1, <1>2 DEF ConfigAsWritten

-----------------------------------------------------------------------------
(* The inductive invariant of the commands.                                *)

SettingPuts   == {Put(k, hz) : k \in SettingKeys, hz \in Int}
BackdoorCalls == {Call(code, i) : code \in {"1035", "1036"}, i \in Int}
AllCommands   == {Query} \cup SettingPuts \cup BackdoorCalls

CommandTypes ==
  /\ curHz \in Int
  /\ todo \in Seq(AllCommands)
  /\ waitingFor \in Pids \cup {0}
  /\ child \in [Pids -> {"free", "running", "zombie"}]
  /\ command \in [Pids -> AllCommands]
  /\ system \in [Keys -> Int]

OfKind(c) ==
  \/ c = Query
  \/ IF tuned["useSfBackdoor"] = 1 THEN c \in BackdoorCalls /\ c.value < 20 ELSE c \in SettingPuts

Kinds ==
  /\ phase # "running" => curHz = UnsetHz /\ todo = <<>> /\ waitingFor = 0 /\ Running = {}
  /\ \A k \in DOMAIN todo : OfKind(todo[k])
  /\ \A p \in Running : OfKind(command[p])

(* Only the child it waits for runs a command that the heavy thread runs   *)
(* to its end.                                                             *)
SyncWaited == \A p \in Running : command[p].sync => waitingFor = p

KindInv == ConfigInv /\ CommandTypes /\ Kinds /\ SyncWaited

Asked == \A k \in DOMAIN todo : todo[k] = Query

(* The last call, or the one that runs when there is no other, tells       *)
(* SurfaceFlinger what curHz_ says, if it has not been told already.       *)
BackdoorPending ==
  IF Asked
    THEN /\ \A p \in Running : command[p] \in {Query, Call("1035", curHz)}
         /\ system["1035"] = curHz \/ \E p \in Running : command[p] = Call("1035", curHz)
    ELSE todo[Len(todo)] = Call("1035", curHz)

(* All settings under way are put to curHz_, and each that is not yet is   *)
(* under way.                                                              *)
SettingsPending ==
  /\ \A i \in DOMAIN todo : todo[i] = Query \/ todo[i].value = curHz
  /\ \A p \in Running : command[p] = Query \/ command[p].value = curHz
  /\ \A k \in SettingKeys : \/ system[k] = curHz
                            \/ \E i \in DOMAIN todo : todo[i] = Put(k, curHz)
                            \/ \E p \in Running : command[p] = Put(k, curHz)

Pending ==
  ~overlapped /\ ~failed /\ curHz # UnsetHz =>
    IF tuned["useSfBackdoor"] = 1 THEN BackdoorPending ELSE SettingsPending

Inv == KindInv /\ Pending

-----------------------------------------------------------------------------
(* Commands.                                                               *)

LEMMA CommandShapes ==
  /\ \A c \in SettingPuts : /\ c.key \in SettingKeys /\ c.value \in Int /\ c.sync = FALSE
                            /\ c # Query /\ c = Put(c.key, c.value)
  /\ \A c \in BackdoorCalls : /\ c.key \in {"1035", "1036"} /\ c.value \in Int /\ c.sync = TRUE
                              /\ c # Query
  /\ Query.sync = TRUE
<1>1. \A c \in SettingPuts : /\ c.key \in SettingKeys /\ c.value \in Int /\ c.sync = FALSE
                             /\ c = Put(c.key, c.value)
  BY DEF SettingPuts, Put
<1>2. \A c \in BackdoorCalls : /\ c.key \in {"1035", "1036"} /\ c.value \in Int /\ c.sync = TRUE
  BY DEF BackdoorCalls, Call
<1>3. Query.sync = TRUE /\ Query.key = "query"
  BY DEF Query
<1>4. QED
  BY <1>1, <1>2, <1>3

(* SysPeakRefreshRate puts every setting, and every one to the given rate. *)
LEMMA EverySettingPut ==
  ASSUME NEW hz \in Int
  PROVE  /\ SysPeakRefreshRate(hz) \in Seq(SettingPuts)
         /\ \A i \in DOMAIN SysPeakRefreshRate(hz) : SysPeakRefreshRate(hz)[i].value = hz
         /\ \A k \in SettingKeys : \E i \in DOMAIN SysPeakRefreshRate(hz) :
                                     SysPeakRefreshRate(hz)[i] = Put(k, hz)
<1> DEFINE S == {Put(k, hz) : k \in SettingKeys}  n == Cardinality(S)
<1>1. IsFiniteSet(S)
  <2>1. IsFiniteSet(SettingKeys)
    BY CommandsAssumption
  <2> DEFINE g == [k \in SettingKeys |-> Put(k, hz)]
  <2>2. g \in [SettingKeys -> S] /\ \A c \in S : \E k \in SettingKeys : g[k] = c
    OBVIOUS
  <2> HIDE DEF g, S
  <2>3. g \in Surjection(SettingKeys, S)
    BY <2>2 DEF Surjection
  <2>4. QED
    BY <2>1, <2>3, FS_Surjection
<1>2. S \subseteq SettingPuts /\ \A c \in S : c.value = hz
  BY DEF SettingPuts, Put
<1>3. \A k \in SettingKeys : Put(k, hz) \in S
  OBVIOUS
<1>4. SysPeakRefreshRate(hz) = SetToSeq(S)
  BY DEF SysPeakRefreshRate
<1> HIDE DEF S
<1>5. n \in Nat /\ ExistsBijection(1 .. n, S)
  BY <1>1, FS_CardinalityType
<1> HIDE DEF n
<1>6. \E f \in [1 .. n -> S] : IsInjective(f)
  BY <1>5 DEF ExistsBijection, Bijection, Injection
<1>7. SetToSeq(S) \in [1 .. n -> S] /\ IsInjective(SetToSeq(S))
  BY <1>6 DEF SetToSeq, n
<1> DEFINE f == SetToSeq(S)
<1> HIDE DEF f
<1>8. f \in Injection(1 .. n, S) /\ f \in [1 .. n -> S]
  BY <1>7 DEF Injection, f
<1>9. Cardinality(1 .. n) = Cardinality(S)
  BY <1>5, FS_Interval DEF n
<1>10. f \in Surjection(1 .. n, S)
  BY <1>1, <1>8, <1>9, FS_Injection
<1>11. \A c \in S : \E i \in 1 .. n : f[i] = c
  BY <1>10 DEF Surjection
<1>12. f \in Seq(SettingPuts) /\ DOMAIN f = 1 .. n
  BY <1>2, <1>5, <1>8
<1>13. QED
  BY <1>2, <1>3, <1>4, <1>8, <1>11, <1>12 DEF f

(* The last call of SysSurfaceflingerBackdoor sets the rate, and none of   *)
(* its values is that of a setting.                                        *)
LEMMA BackdoorSequence ==
  ASSUME NEW i \in Int, i < 20, NEW force \in BOOLEAN
  PROVE  LET s == SysSurfaceflingerBackdoor(i, force)
         IN  /\ s \in Seq(BackdoorCalls) /\ s # <<>>
             /\ \A k \in DOMAIN s : s[k].value < 20
             /\ s[Len(s)] = Call("1035", i)
<1> DEFINE B == {c \in BackdoorCalls : c.value < 20}
<1>1. \A v \in Int, code \in {"1035", "1036"} : v < 20 => Call(code, v) \in B
  <2> SUFFICES ASSUME NEW v \in Int, NEW code \in {"1035", "1036"}, v < 20
               PROVE  Call(code, v) \in B
    OBVIOUS
  <2>1. Call(code, v) \in BackdoorCalls
    BY DEF BackdoorCalls
  <2>2. Call(code, v).value = v
    BY DEF Call
  <2>3. QED
    BY <2>1, <2>2
<1> DEFINE s == SysSurfaceflingerBackdoor(i, force)
           u == <<Call("1035", i)>>
           w == <<Call("1036", 1), Call("1035", -1), Call("1036", 0), Call("1035", i)>>
<1> HIDE DEF B
<1>2. /\ Call("1035", i) \in B /\ Call("1036", 1) \in B /\ Call("1035", -1) \in B
      /\ Call("1036", 0) \in B
  BY <1>1
<1>3. u \in Seq(B) /\ Len(u) = 1 /\ u[1] = Call("1035", i)
  BY <1>2
<1>4. w \in Seq(B) /\ Len(w) = 4 /\ w[4] = Call("1035", i)
  BY <1>2
<1>5. s = u \o (IF force THEN w ELSE <<>>)
  BY DEF SysSurfaceflingerBackdoor
<1> HIDE DEF u, w, s
<1>6. s \in Seq(B) /\ s # <<>> /\ s[Len(s)] = Call("1035", i)
  <2>1. CASE force
    <3>1. s = u \o w
      BY <1>5, <2>1
    <3>2. /\ s \in Seq(B) /\ Len(s) = Len(u) + Len(w)
          /\ \A k \in 1 .. Len(u) + Len(w) : s[k] = IF k <= Len(u) THEN u[k] ELSE w[k - Len(u)]
      BY <1>3, <1>4, <3>1, ConcatProperties
    <3>3. Len(s) = 5 /\ s[5] = w[5 - 1]
      BY <1>3, <1>4, <3>2
    <3>4. QED
      BY <1>4, <3>2, <3>3
  <2>2. CASE ~force
    <3>1. s = u
      BY <1>3, <1>5, <2>2
    <3>2. s \in Seq(B) /\ Len(s) = 1 /\ s[1] = Call("1035", i)
      BY <1>3, <3>1
    <3>3. QED
      BY <3>2
  <2>3. QED
    BY <2>1, <2>2
<1>7. \A c \in B : c \in BackdoorCalls /\ c.value < 20
  BY DEF B
<1>8. \A k \in DOMAIN s : s[k] \in B
  BY <1>6
<1>9. s \in Seq(BackdoorCalls)
  BY <1>6, <1>7
<1>10. QED
  BY <1>6, <1>7, <1>8, <1>9 DEF s

-----------------------------------------------------------------------------
(* Every step keeps the invariant.                                         *)

LEMMA InvInit == Init => Inv
<1> SUFFICES ASSUME Init
             PROVE  Inv
  OBVIOUS
<1>1. /\ curHz = UnsetHz /\ UnsetHz \in Int /\ todo = <<>> /\ waitingFor = 0
      /\ child = [p \in Pids |-> "free"] /\ command = [p \in Pids |-> Query]
      /\ system = [k \in Keys |-> UnsetHz]
  BY CommandsAssumption DEF Init
<1>2. ConfigInv
  BY ConfigStart DEF Init
<1>3. CommandTypes
  BY <1>1 DEF CommandTypes, AllCommands
<1>4. Running = {}
  BY <1>1 DEF Running
<1>5. QED
  BY <1>1, <1>2, <1>3, <1>4 DEF Inv, KindInv, Kinds, SyncWaited, Pending

(* Before the app runs there are no commands.                              *)
LEMMA QuietKeeps ==
  ASSUME Inv, phase # "running", ConfigInv',
         UNCHANGED <<curHz, todo, waitingFor, procVars, signalVars, system, history>>
  PROVE  Inv'
<1>1. UNCHANGED <<curHz, todo, waitingFor, child, command, system>>
  BY DEF procVars
<1>2. curHz = UnsetHz /\ todo = <<>> /\ waitingFor = 0 /\ Running = {} /\ Running' = {}
  BY <1>1 DEF Inv, KindInv, Kinds, Running
<1>3. CommandTypes'
  BY <1>1 DEF Inv, KindInv, CommandTypes
<1>4. QED
  BY <1>1, <1>2, <1>3 DEF Inv, KindInv, Kinds, SyncWaited, Pending

LEMMA LoadKeeps == Inv /\ Load => Inv'
<1> SUFFICES ASSUME Inv, Load
             PROVE  Inv'
  OBVIOUS
<1>1. phase = "reading"
  BY DEF Load, LoadConfig, ReadLine, EndOfFile
<1>2. ConfigInv'
  BY ReadLineKeeps, EndOfFileKeeps DEF Inv, KindInv, Load, LoadConfig
<1>3. QED
  BY <1>1, <1>2, QuietKeeps DEF Load

LEMMA StartStep == Inv /\ Start => Inv'
<1> SUFFICES ASSUME Inv, Start
             PROVE  Inv'
  OBVIOUS
<1>1. ConfigInv'
  BY StartKeeps DEF Inv, KindInv
<1>2. QED
  BY <1>1, QuietKeeps DEF Start

(* The check after the last line is enough for every rate there is.        *)
LEMMA RatesChecked ==
  ASSUME ConfigInv, phase = "running", NEW hz \in Rates
  PROVE  hz \in Int /\ (tuned["useSfBackdoor"] = 1 => hz < 20)
<1>1. PICK n \in Names : ruleOf[n] # NoRule /\ hz \in {ruleOf[n][1], ruleOf[n][2]}
  BY DEF Rates
<1> DEFINE r == ruleOf[n]
<1>2. r \in Rules /\ ~IsInvalid(r)
  BY <1>1 DEF ConfigInv, ConfigTypes, Judged, Complete
<1>3. hz \in Int
  BY <1>1, <1>2, RulesAreNoNoRule
<1>4. CASE r = DefaultRule
  <2>1. hz = -1
    BY <1>1, <1>4 DEF DefaultRule
  <2>2. QED
    BY <2>1
<1>5. CASE r # DefaultRule
  BY <1>1, <1>2, <1>3, <1>5 DEF IsInvalid, IsSfBackdoorRule
<1>6. QED
  BY <1>3, <1>4, <1>5

LEMMA SwitchKeeps == Inv /\ SwitchRefreshRate => Inv'
<1> SUFFICES ASSUME Inv, SwitchRefreshRate
             PROVE  Inv'
  OBVIOUS
<1>1. PICK hz \in Rates, force \in BOOLEAN :
        /\ phase = "running" /\ HeavyIdle /\ curHz' = hz
        /\ todo' = IF tuned["useSfBackdoor"] = 1 THEN SysSurfaceflingerBackdoor(hz, force)
                                                 ELSE SysPeakRefreshRate(hz)
        /\ overlapped' = (Running # {}) /\ failed' = FALSE
        /\ UNCHANGED <<configVars, waitingFor, procVars, signalVars, system, faults>>
  BY DEF SwitchRefreshRate
<1>2. hz \in Int /\ (tuned["useSfBackdoor"] = 1 => hz < 20)
  BY <1>1, RatesChecked DEF Inv, KindInv
<1>3. /\ UNCHANGED <<phase, tuned, waitingFor, child, command, system>>
      /\ Running' = Running /\ waitingFor = 0
  BY <1>1 DEF configVars, procVars, Running, HeavyIdle
<1>4. ConfigInv'
  BY <1>1, ConfigSame DEF Inv, KindInv
<1>5. CASE tuned["useSfBackdoor"] = 1
  <2>1. /\ todo' \in Seq(BackdoorCalls) /\ todo' # <<>>
        /\ \A k \in DOMAIN todo' : todo'[k].value < 20
        /\ todo'[Len(todo')] = Call("1035", hz)
    BY <1>1, <1>2, <1>5, BackdoorSequence
  <2>2. /\ todo' \in Seq(AllCommands) /\ Len(todo') \in DOMAIN todo'
        /\ \A k \in DOMAIN todo' : todo'[k] \in BackdoorCalls
    BY <2>1 DEF AllCommands
  <2>3. CommandTypes'
    BY <1>1, <1>2, <1>3, <2>2 DEF Inv, KindInv, CommandTypes
  <2>4. \A k \in DOMAIN todo' : OfKind(todo[k])'
    BY <1>3, <1>5, <2>1, <2>2 DEF OfKind
  <2>5. Kinds'
    BY <1>1, <1>3, <2>4 DEF Inv, KindInv, Kinds, OfKind
  <2>6. ~Asked'
    BY <2>2, CommandShapes DEF Asked
  <2>7. Pending'
    BY <1>1, <1>3, <1>5, <2>1, <2>6 DEF Pending, BackdoorPending
  <2>8. QED
    BY <1>3, <1>4, <2>3, <2>5, <2>7 DEF Inv, KindInv, SyncWaited
<1>6. CASE tuned["useSfBackdoor"] # 1
  <2>1. /\ todo' \in Seq(SettingPuts) /\ \A k \in DOMAIN todo' : todo'[k].value = hz
        /\ \A k \in SettingKeys : \E i \in DOMAIN todo' : todo'[i] = Put(k, hz)
    BY <1>1, <1>2, <1>6, EverySettingPut
  <2>2. /\ todo' \in Seq(AllCommands)
        /\ \A k \in DOMAIN todo' : todo'[k] \in SettingPuts
    BY <2>1 DEF AllCommands
  <2>3. CommandTypes'
    BY <1>1, <1>2, <1>3, <2>2 DEF Inv, KindInv, CommandTypes
  <2>4. \A k \in DOMAIN todo' : OfKind(todo[k])'
    BY <1>3, <1>6, <2>2 DEF OfKind
  <2>5. Kinds'
    BY <1>1, <1>3, <2>4 DEF Inv, KindInv, Kinds, OfKind
  <2>6. Pending'
    BY <1>1, <1>3, <1>6, <2>1 DEF Pending, SettingsPending
  <2>7. QED
    BY <1>3, <1>4, <2>3, <2>5, <2>6 DEF Inv, KindInv, SyncWaited
<1>7. QED
  BY <1>5, <1>6

LEMMA AskKeeps == Inv /\ Ask => Inv'
<1> SUFFICES ASSUME Inv, Ask
             PROVE  Inv'
  OBVIOUS
<1>1. /\ phase = "running" /\ todo = <<>> /\ waitingFor = 0 /\ todo' = <<Query>>
      /\ UNCHANGED <<configVars, phase, tuned, curHz, waitingFor, child, command, system, overlapped, failed>>
  BY DEF Ask, HeavyIdle, configVars, procVars, history
<1>2. DOMAIN todo = {} /\ DOMAIN todo' = {1} /\ todo'[1] = Query
  BY <1>1
<1>3. Running' = Running
  BY <1>1 DEF Running
<1>4. ConfigInv'
  BY <1>1, ConfigSame DEF Inv, KindInv
<1>5. CommandTypes'
  BY <1>1 DEF Inv, KindInv, CommandTypes, AllCommands
<1>6. Kinds' /\ SyncWaited'
  BY <1>1, <1>2, <1>3 DEF Inv, KindInv, Kinds, SyncWaited, OfKind
<1>7. Asked /\ Asked'
  BY <1>2 DEF Asked
<1>8. Pending'
  <2>1. BackdoorPending => BackdoorPending'
    BY <1>1, <1>3, <1>7 DEF BackdoorPending
  <2>2. SettingsPending => SettingsPending'
    BY <1>1, <1>2, <1>3 DEF SettingsPending
  <2>3. QED
    BY <1>1, <2>1, <2>2 DEF Inv, Pending
<1>9. QED
  BY <1>4, <1>5, <1>6, <1>8 DEF Inv, KindInv

(* The first command is taken off todo; the rest keeps its order.          *)
LEMMA HeadTaken ==
  ASSUME CommandTypes, todo # <<>>, todo' = Tail(todo)
  PROVE  /\ Head(todo) = todo[1] /\ 1 \in DOMAIN todo /\ Head(todo) \in AllCommands
         /\ Len(todo) \in DOMAIN todo /\ (Len(todo) = 1 \/ Len(todo) > 1)
         /\ todo' \in Seq(AllCommands)
         /\ \A k \in DOMAIN todo' : k + 1 \in DOMAIN todo /\ todo'[k] = todo[k + 1]
         /\ \A k \in DOMAIN todo : k = 1 \/ (k - 1 \in DOMAIN todo' /\ todo'[k - 1] = todo[k])
         /\ Len(todo) > 1 => Len(todo') \in DOMAIN todo' /\ todo'[Len(todo')] = todo[Len(todo)]
         /\ Len(todo) = 1 => todo' = <<>>
<1>1. todo \in Seq(AllCommands) /\ Len(todo) \in Nat \ {0} /\ DOMAIN todo = 1 .. Len(todo)
  BY DEF CommandTypes
<1>2. /\ todo' \in Seq(AllCommands) /\ Len(todo') = Len(todo) - 1 /\ DOMAIN todo' = 1 .. Len(todo) - 1
      /\ \A k \in 1 .. Len(todo) - 1 : todo'[k] = todo[k + 1]
  BY <1>1
<1>3. QED
  BY <1>1, <1>2

LEMMA ExecCmdKeeps == Inv /\ ExecCmd => Inv'
<1> SUFFICES ASSUME Inv, ExecCmd
             PROVE  Inv'
  OBVIOUS
<1> DEFINE c == Head(todo)
<1>1. PICK p \in Pids \ Children :
        /\ todo # <<>> /\ waitingFor = 0
        /\ child' = [child EXCEPT ![p] = "running"] /\ command' = [command EXCEPT ![p] = c]
        /\ waitingFor' = IF c.sync THEN p ELSE 0
        /\ todo' = Tail(todo)
        /\ UNCHANGED <<configVars, curHz, system, history>>
  BY DEF ExecCmd
<1>2. UNCHANGED <<phase, tuned, overlapped, failed>>
  BY <1>1 DEF configVars, history
<1>3. /\ c = todo[1] /\ 1 \in DOMAIN todo /\ c \in AllCommands
      /\ Len(todo) \in DOMAIN todo /\ (Len(todo) = 1 \/ Len(todo) > 1)
      /\ todo' \in Seq(AllCommands)
      /\ \A k \in DOMAIN todo' : k + 1 \in DOMAIN todo /\ todo'[k] = todo[k + 1]
      /\ \A k \in DOMAIN todo : k = 1 \/ (k - 1 \in DOMAIN todo' /\ todo'[k - 1] = todo[k])
      /\ Len(todo) > 1 => Len(todo') \in DOMAIN todo' /\ todo'[Len(todo')] = todo[Len(todo)]
      /\ Len(todo) = 1 => todo' = <<>>
  BY <1>1, HeadTaken DEF Inv, KindInv
<1> HIDE DEF c
<1>4. /\ Running' = Running \cup {p} /\ p \notin Running
      /\ command'[p] = c /\ \A q \in Running : command'[q] = command[q]
  BY <1>1 DEF Inv, KindInv, CommandTypes, Running, Children
<1>5. phase = "running"
  BY <1>1 DEF Inv, KindInv, Kinds
<1>6. ConfigInv'
  BY <1>1, ConfigSame DEF Inv, KindInv
<1>7. CommandTypes'
  BY <1>1, <1>3 DEF Inv, KindInv, CommandTypes
<1>8. OfKind(c)
  BY <1>3 DEF Inv, KindInv, Kinds
<1>9. Kinds'
  <2>1. \A k \in DOMAIN todo' : OfKind(todo[k])'
    BY <1>2, <1>3 DEF Inv, KindInv, Kinds, OfKind
  <2>2. \A q \in Running' : OfKind(command[q])'
    BY <1>2, <1>4, <1>8 DEF Inv, KindInv, Kinds, OfKind
  <2>3. QED
    BY <1>2, <1>5, <2>1, <2>2 DEF Kinds
<1>10. \A q \in Running : ~command[q].sync
  BY <1>1 DEF Inv, KindInv, SyncWaited, Running, Pids
<1>11. SyncWaited'
  BY <1>1, <1>4, <1>10 DEF SyncWaited
<1>12. ASSUME BackdoorPending, tuned["useSfBackdoor"] = 1
       PROVE  BackdoorPending'
  <2>1. \A q \in Running : FALSE
    BY <1>10, <1>12, CommandShapes DEF Inv, KindInv, Kinds, OfKind
  <2>2. CASE Asked
    <3>1. Asked' /\ c = Query
      BY <1>3, <2>2 DEF Asked
    <3>2. QED
      BY <1>1, <1>4, <1>12, <2>1, <2>2, <3>1 DEF BackdoorPending
  <2>3. CASE ~Asked /\ Len(todo) > 1
    <3>1. todo[Len(todo)] = Call("1035", curHz) /\ Call("1035", curHz) # Query
      BY <1>12, <2>3 DEF BackdoorPending, Call, Query
    <3>2. ~Asked'
      BY <1>3, <2>3, <3>1 DEF Asked
    <3>3. QED
      BY <1>1, <1>3, <2>3, <3>1, <3>2 DEF BackdoorPending
  <2>4. CASE ~Asked /\ Len(todo) = 1
    <3>1. c = Call("1035", curHz) /\ todo' = <<>>
      BY <1>3, <1>12, <2>4 DEF BackdoorPending
    <3>2. Asked'
      BY <3>1 DEF Asked
    <3>3. QED
      BY <1>1, <1>4, <2>1, <3>1, <3>2 DEF BackdoorPending
  <2>5. Len(todo) = 1 \/ Len(todo) > 1
    BY <1>3
  <2>6. QED
    BY <2>2, <2>3, <2>4, <2>5
<1>13. ASSUME SettingsPending
       PROVE  SettingsPending'
  <2>1. \A i \in DOMAIN todo' : todo'[i] = Query \/ todo'[i].value = curHz'
    BY <1>1, <1>3, <1>13 DEF SettingsPending
  <2>2. \A q \in Running' : command'[q] = Query \/ command'[q].value = curHz'
    BY <1>1, <1>3, <1>4, <1>13 DEF SettingsPending
  <2>3. ASSUME NEW k \in SettingKeys
        PROVE  \/ system'[k] = curHz'
               \/ \E i \in DOMAIN todo' : todo'[i] = Put(k, curHz')
               \/ \E q \in Running' : command'[q] = Put(k, curHz')
    <3>1. CASE system[k] = curHz
      BY <1>1, <3>1
    <3>2. CASE \E i \in DOMAIN todo : todo[i] = Put(k, curHz)
      <4>1. PICK i \in DOMAIN todo : todo[i] = Put(k, curHz)
        BY <3>2
      <4>2. CASE i = 1
        BY <1>1, <1>3, <1>4, <4>1, <4>2
      <4>3. CASE i - 1 \in DOMAIN todo' /\ todo'[i - 1] = todo[i]
        BY <1>1, <4>1, <4>3
      <4>4. QED
        BY <1>3, <4>2, <4>3
    <3>3. CASE \E q \in Running : command[q] = Put(k, curHz)
      BY <1>1, <1>4, <3>3
    <3>4. QED
      BY <1>13, <3>1, <3>2, <3>3 DEF SettingsPending
  <2>4. QED
    BY <2>1, <2>2, <2>3 DEF SettingsPending
<1>14. Pending'
  BY <1>1, <1>2, <1>12, <1>13 DEF Inv, Pending
<1>15. QED
  BY <1>6, <1>7, <1>9, <1>11, <1>14 DEF Inv, KindInv

LEMMA ExecCmdFailsKeeps == Inv /\ ExecCmdFails => Inv'
<1> SUFFICES ASSUME Inv, ExecCmdFails
             PROVE  Inv'
  OBVIOUS
<1> DEFINE c == Head(todo)
<1>1. /\ todo # <<>> /\ todo' = Tail(todo)
      /\ failed' = (failed \/ c # Query)
      /\ UNCHANGED <<configVars, curHz, waitingFor, child, command, system, overlapped>>
  BY DEF ExecCmdFails, procVars
<1>2. UNCHANGED <<phase, tuned>> /\ Running' = Running
  BY <1>1 DEF configVars, Running
<1>3. /\ c = todo[1] /\ 1 \in DOMAIN todo /\ c \in AllCommands
      /\ Len(todo) \in DOMAIN todo /\ (Len(todo) = 1 \/ Len(todo) > 1)
      /\ todo' \in Seq(AllCommands)
      /\ \A k \in DOMAIN todo' : k + 1 \in DOMAIN todo /\ todo'[k] = todo[k + 1]
      /\ \A k \in DOMAIN todo : k = 1 \/ (k - 1 \in DOMAIN todo' /\ todo'[k - 1] = todo[k])
      /\ Len(todo) > 1 => Len(todo') \in DOMAIN todo' /\ todo'[Len(todo')] = todo[Len(todo)]
      /\ Len(todo) = 1 => todo' = <<>>
  BY <1>1, HeadTaken DEF Inv, KindInv
<1> HIDE DEF c
<1>4. ConfigInv'
  BY <1>1, ConfigSame DEF Inv, KindInv
<1>5. CommandTypes'
  BY <1>1, <1>3 DEF Inv, KindInv, CommandTypes
<1>6. Kinds'
  <2>1. phase = "running"
    BY <1>1 DEF Inv, KindInv, Kinds
  <2>2. \A k \in DOMAIN todo' : OfKind(todo[k])'
    BY <1>2, <1>3 DEF Inv, KindInv, Kinds, OfKind
  <2>3. \A q \in Running' : OfKind(command[q])'
    BY <1>1, <1>2 DEF Inv, KindInv, Kinds, OfKind
  <2>4. QED
    BY <1>2, <2>1, <2>2, <2>3 DEF Kinds
<1>7. SyncWaited'
  BY <1>1, <1>2 DEF Inv, KindInv, SyncWaited
<1>8. ASSUME BackdoorPending, c = Query
      PROVE  BackdoorPending'
  <2>1. CASE Asked
    <3>1. Asked'
      BY <1>3, <2>1 DEF Asked
    <3>2. QED
      BY <1>1, <1>2, <1>8, <2>1, <3>1 DEF BackdoorPending
  <2>2. CASE ~Asked
    <3>1. todo[Len(todo)] = Call("1035", curHz) /\ Call("1035", curHz) # Query
      BY <1>8, <2>2 DEF BackdoorPending, Call, Query
    <3>2. Len(todo) > 1
      <4>1. Len(todo) # 1
        BY <1>3, <1>8, <3>1
      <4>2. Len(todo) = 1 \/ Len(todo) > 1
        BY <1>3
      <4>3. QED
        BY <4>1, <4>2
    <3>3. ~Asked'
      BY <1>3, <3>1, <3>2 DEF Asked
    <3>4. QED
      BY <1>1, <1>3, <3>1, <3>2, <3>3 DEF BackdoorPending
  <2>3. QED
    BY <2>1, <2>2
<1>9. ASSUME SettingsPending, c = Query
      PROVE  SettingsPending'
  <2>1. \A k \in SettingKeys : Put(k, curHz) # Query
    BY DEF Put, Query
  <2>2. \A i \in DOMAIN todo' : todo'[i] = Query \/ todo'[i].value = curHz'
    BY <1>1, <1>3, <1>9 DEF SettingsPending
  <2>3. ASSUME NEW k \in SettingKeys, NEW i \in DOMAIN todo, todo[i] = Put(k, curHz)
        PROVE  \E j \in DOMAIN todo' : todo'[j] = Put(k, curHz)
    BY <1>3, <1>9, <2>1, <2>3
  <2>4. QED
    BY <1>1, <1>2, <1>9, <2>2, <2>3 DEF SettingsPending
<1>10. Pending'
  BY <1>1, <1>2, <1>8, <1>9 DEF Inv, Pending
<1>11. QED
  BY <1>4, <1>5, <1>6, <1>7, <1>10 DEF Inv, KindInv

(* What changes neither the commands that run nor those to come.           *)
LEMMA Undisturbed ==
  ASSUME Inv, UNCHANGED <<configVars, curHz, todo, command, system, overlapped, failed>>,
         child' \in [Pids -> {"free", "running", "zombie"}], Running' = Running,
         \/ waitingFor' = waitingFor
         \/ waitingFor' = 0 /\ waitingFor \notin Running
  PROVE  Inv'
<1>1. UNCHANGED <<phase, tuned>>
  BY DEF configVars
<1>2. ConfigInv'
  BY ConfigSame DEF Inv, KindInv
<1>3. CommandTypes'
  BY DEF Inv, KindInv, CommandTypes
<1>4. Kinds'
  BY <1>1 DEF Inv, KindInv, Kinds, OfKind
<1>5. SyncWaited'
  BY DEF Inv, KindInv, SyncWaited
<1>6. BackdoorPending' <=> BackdoorPending
  BY DEF BackdoorPending, Asked
<1>7. SettingsPending' <=> SettingsPending
  BY DEF SettingsPending
<1>8. Pending'
  BY <1>1, <1>6, <1>7 DEF Inv, Pending
<1>9. QED
  BY <1>2, <1>3, <1>4, <1>5, <1>8 DEF Inv, KindInv

LEMMA WaitAndReadKeeps == Inv /\ WaitAndRead => Inv'
<1> SUFFICES ASSUME Inv, WaitAndRead
             PROVE  Inv'
  OBVIOUS
<1>1. /\ waitingFor # 0 /\ child[waitingFor] \in {"zombie", "free"} /\ waitingFor' = 0
      /\ child' = [child EXCEPT ![waitingFor] = IF @ = "zombie" THEN "free" ELSE @]
      /\ UNCHANGED <<configVars, curHz, todo, command, system, overlapped, failed>>
  BY DEF WaitAndRead, Ended, history
<1>2. child \in [Pids -> {"free", "running", "zombie"}] /\ waitingFor \in Pids
  BY <1>1 DEF Inv, KindInv, CommandTypes
<1>3. /\ child' \in [Pids -> {"free", "running", "zombie"}]
      /\ Running' = Running /\ waitingFor \notin Running
  BY <1>1, <1>2 DEF Running
<1>4. QED
  BY <1>1, <1>3, Undisturbed

LEMMA WriteOutKeeps == \A p \in Pids : Inv /\ WriteOut(p) => Inv'
<1> SUFFICES ASSUME NEW p \in Pids, Inv, WriteOut(p)
             PROVE  Inv'
  OBVIOUS
<1>1. UNCHANGED <<configVars, curHz, todo, waitingFor, child, command, system, overlapped, failed>>
  BY DEF WriteOut, history
<1>2. child' \in [Pids -> {"free", "running", "zombie"}] /\ Running' = Running
  BY <1>1 DEF Inv, KindInv, CommandTypes, Running
<1>3. QED
  BY <1>1, <1>2, Undisturbed

LEMMA HandlerKeeps == \A t \in Threads : Inv /\ (EnterHandler(t) \/ LeaveHandler(t)) => Inv'
<1> SUFFICES ASSUME NEW t \in Threads, Inv, EnterHandler(t) \/ LeaveHandler(t)
             PROVE  Inv'
  OBVIOUS
<1>1. UNCHANGED <<configVars, curHz, todo, waitingFor, command, system, overlapped, failed>>
  BY DEF EnterHandler, LeaveHandler, procVars, history
<1>2. child \in [Pids -> {"free", "running", "zombie"}]
  BY DEF Inv, KindInv, CommandTypes
<1>3. CASE UNCHANGED child
  BY <1>1, <1>2, <1>3, Undisturbed DEF Running
<1>4. CASE \E p \in Pids : child[p] = "zombie" /\ child' = [child EXCEPT ![p] = "free"]
  <2>1. child' \in [Pids -> {"free", "running", "zombie"}] /\ Running' = Running
    BY <1>2, <1>4 DEF Running
  <2>2. QED
    BY <1>1, <2>1, Undisturbed
<1>5. QED
  BY <1>3, <1>4 DEF EnterHandler, LeaveHandler, procVars

(* A command ends: it was a question, it has failed, or its value is in    *)
(* force.                                                                  *)
LEMMA CommandEnds ==
  ASSUME Inv, NEW p \in Running, Ends(p),
         UNCHANGED <<configVars, curHz, todo, waitingFor, overlapped>>,
         failed => failed',
         \/ command[p] = Query /\ UNCHANGED system
         \/ failed' /\ UNCHANGED system
         \/ /\ command[p] # Query
            /\ system' = [system EXCEPT ![command[p].key] = command[p].value]
  PROVE  Inv'
<1> DEFINE c == command[p]
<1>1. UNCHANGED <<phase, tuned>>
  BY DEF configVars
<1>2. /\ p \in Pids /\ child \in [Pids -> {"free", "running", "zombie"}]
      /\ command \in [Pids -> AllCommands] /\ system \in [Keys -> Int]
  BY DEF Inv, KindInv, CommandTypes, Running
<1>3. /\ child' = [child EXCEPT ![p] = "zombie"] /\ command' = [command EXCEPT ![p] = Query]
  BY DEF Ends
<1>4. /\ Running' = Running \ {p} /\ \A q \in Running' : command'[q] = command[q]
  BY <1>2, <1>3 DEF Running
<1>5. phase = "running" /\ OfKind(c) /\ c \in AllCommands
  BY <1>2 DEF Inv, KindInv, Kinds
<1>6. c # Query => c.key \in Keys /\ c.value \in Int
  BY <1>5, CommandShapes DEF AllCommands, Keys
<1>7. ConfigInv'
  BY ConfigSame DEF Inv, KindInv
<1>8. CommandTypes'
  <2>1. child' \in [Pids -> {"free", "running", "zombie"}] /\ command' \in [Pids -> AllCommands]
    BY <1>2, <1>3 DEF AllCommands
  <2>2. system' \in [Keys -> Int]
    BY <1>2, <1>6
  <2>3. QED
    BY <2>1, <2>2 DEF Inv, KindInv, CommandTypes
<1>9. Kinds'
  <2>1. \A k \in DOMAIN todo' : OfKind(todo[k])'
    BY <1>1 DEF Inv, KindInv, Kinds, OfKind
  <2>2. \A q \in Running' : OfKind(command[q])'
    BY <1>1, <1>4 DEF Inv, KindInv, Kinds, OfKind
  <2>3. QED
    BY <1>1, <1>5, <2>1, <2>2 DEF Kinds
<1>10. SyncWaited'
  BY <1>4 DEF Inv, KindInv, SyncWaited
<1>11. ASSUME BackdoorPending, ~failed'
       PROVE  BackdoorPending'
  <2>1. CASE ~Asked
    BY <2>1, <1>11 DEF BackdoorPending, Asked
  <2>2. CASE Asked
    <3>1. /\ \A q \in Running : command[q] \in {Query, Call("1035", curHz)}
          /\ system["1035"] = curHz \/ \E q \in Running : command[q] = Call("1035", curHz)
      BY <1>11, <2>2 DEF BackdoorPending
    <3>2. Call("1035", curHz) # Query /\ Call("1035", curHz).key = "1035" /\ Call("1035", curHz).value = curHz
      BY DEF Call, Query
    <3>3. \A q \in Running' : command'[q] \in {Query, Call("1035", curHz)}
      BY <1>4, <3>1
    <3>4. CASE c = Query
      <4>1. UNCHANGED system
        BY <1>11, <3>4
      <4>2. system'["1035"] = curHz \/ \E q \in Running' : command'[q] = Call("1035", curHz)
        BY <1>4, <3>1, <3>2, <3>4, <4>1
      <4>3. QED
        BY <2>2, <3>3, <4>2 DEF BackdoorPending, Asked
    <3>5. CASE c # Query
      <4>1. c = Call("1035", curHz)
        BY <3>1, <3>5
      <4>2. system' = [system EXCEPT !["1035"] = curHz]
        BY <1>11, <3>2, <3>5, <4>1
      <4>3. system'["1035"] = curHz
        BY <1>2, <4>2 DEF Keys
      <4>4. QED
        BY <2>2, <3>3, <4>3 DEF BackdoorPending, Asked
    <3>6. QED
      BY <3>4, <3>5
  <2>3. QED
    BY <2>1, <2>2
<1>12. ASSUME SettingsPending, ~failed'
       PROVE  SettingsPending'
  <2>1. \A q \in Running' : command'[q] = Query \/ command'[q].value = curHz'
    BY <1>4, <1>12 DEF SettingsPending
  <2>2. ASSUME NEW k \in SettingKeys
        PROVE  \/ system'[k] = curHz'
               \/ \E i \in DOMAIN todo' : todo'[i] = Put(k, curHz')
               \/ \E q \in Running' : command'[q] = Put(k, curHz')
    <3>1. k \in Keys /\ Put(k, curHz) # Query /\ Put(k, curHz).key = k /\ Put(k, curHz).value = curHz
      BY DEF Keys, Put, Query
    <3>2. CASE c = Query
      BY <1>4, <1>12, <3>1, <3>2 DEF SettingsPending
    <3>3. CASE c # Query
      <4>1. system' = [system EXCEPT ![c.key] = curHz] /\ c.key \in Keys
        BY <1>6, <1>12, <3>3 DEF SettingsPending
      <4>2. CASE c = Put(k, curHz)
        BY <1>2, <3>1, <4>1, <4>2
      <4>3. CASE c # Put(k, curHz)
        <5>1. system[k] = curHz => system'[k] = curHz
          BY <1>2, <3>1, <4>1
        <5>2. \A q \in Running : command[q] = Put(k, curHz) => q \in Running' /\ command'[q] = Put(k, curHz)
          BY <1>4, <4>3
        <5>3. QED
          BY <1>12, <5>1, <5>2 DEF SettingsPending
      <4>4. QED
        BY <4>2, <4>3
    <3>4. QED
      BY <3>2, <3>3
  <2>3. QED
    BY <1>12, <2>1, <2>2 DEF SettingsPending
<1>13. Pending'
  BY <1>1, <1>11, <1>12 DEF Inv, Pending
<1>14. QED
  BY <1>7, <1>8, <1>9, <1>10, <1>13 DEF Inv, KindInv

LEMMA FinishKeeps == \A p \in Pids : Inv /\ (Finish(p) \/ Fail(p)) => Inv'
<1> SUFFICES ASSUME NEW p \in Pids, Inv, Finish(p) \/ Fail(p)
             PROVE  Inv'
  OBVIOUS
<1>1. /\ p \in Running /\ Ends(p)
      /\ UNCHANGED <<configVars, curHz, todo, waitingFor, overlapped>>
  BY DEF Finish, Fail, history, Running
<1>2. CASE Finish(p)
  <2>1. UNCHANGED failed
    BY <1>2 DEF Finish, history
  <2>2. \/ command[p] = Query /\ UNCHANGED system
        \/ /\ command[p] # Query
           /\ system' = [system EXCEPT ![command[p].key] = command[p].value]
    BY <1>2 DEF Finish
  <2>3. QED
    BY <1>1, <2>1, <2>2, CommandEnds
<1>3. CASE Fail(p)
  <2>1. failed' = (failed \/ command[p] # Query) /\ UNCHANGED system
    BY <1>3 DEF Fail
  <2>2. \/ command[p] = Query /\ UNCHANGED system
        \/ failed' /\ UNCHANGED system
    BY <2>1
  <2>3. failed => failed'
    BY <2>1
  <2>4. QED
    BY <1>1, <2>2, <2>3, CommandEnds
<1>4. QED
  BY <1>2, <1>3

-----------------------------------------------------------------------------
(* The theorems.                                                           *)

LEMMA InvKept == Inv /\ [Next]_vars => Inv'
<1> SUFFICES ASSUME Inv, [Next]_vars
             PROVE  Inv'
  OBVIOUS
<1>1. CASE Load
  BY <1>1, LoadKeeps
<1>2. CASE Start
  BY <1>2, StartStep
<1>3. CASE Work
  BY <1>3, SwitchKeeps, AskKeeps DEF Work
<1>4. CASE Heavy
  BY <1>4, ExecCmdKeeps, ExecCmdFailsKeeps, WaitAndReadKeeps DEF Heavy
<1>5. CASE \E p \in Pids : Process(p) \/ Fail(p)
  BY <1>5, WriteOutKeeps, FinishKeeps DEF Process
<1>6. CASE \E t \in Threads : EnterHandler(t) \/ LeaveHandler(t)
  BY <1>6, HandlerKeeps
<1>7. CASE UNCHANGED vars
  <2>1. /\ UNCHANGED <<configVars, curHz, todo, command, system, overlapped, failed>>
        /\ UNCHANGED <<child, waitingFor>>
    BY <1>7 DEF vars, procVars, history
  <2>2. child' \in [Pids -> {"free", "running", "zombie"}] /\ Running' = Running
    BY <2>1 DEF Inv, KindInv, CommandTypes, Running
  <2>3. QED
    BY <2>1, <2>2, Undisturbed
<1>8. QED
  BY <1>1, <1>2, <1>3, <1>4, <1>5, <1>6, <1>7 DEF Next

LEMMA InvAlways == Spec => []Inv
BY InvInit, InvKept, PTL DEF Spec

(* LoadConfig, AddRule, SetTunable, FindInvalidRule: whatever its lines    *)
(* and their order, a file is refused only when it is not what the help    *)
(* file asks for; one that is accepted is, but for rules that mix an index *)
(* with a rate under PEAK_REFRESH_RATE, and is in force as it was written: *)
(* the first rule of an app, the last of everything else.                  *)
THEOREM ConfigInForce == Spec => []ConfigAsWritten
<1>1. Inv => ConfigAsWritten
  BY ConfigFollows DEF Inv, KindInv
<1>2. QED
  BY <1>1, InvAlways, PTL

(* FindInvalidRule, SwitchRefreshRate: no switch hands a frequency to      *)
(* SurfaceFlinger where an index is expected, nor puts settings beside.    *)
THEOREM RatesAreOfTheirKind == Spec => []RatesOfTheirKind
<1>1. ASSUME Inv
      PROVE  RatesOfTheirKind
  <2> SUFFICES ASSUME NEW p \in Running, command[p] # Query
               PROVE  IF command[p].key \in SettingKeys THEN tuned["useSfBackdoor"] = 0
                      ELSE tuned["useSfBackdoor"] = 1 /\ command[p].value < 20
    BY DEF RatesOfTheirKind
  <2>1. OfKind(command[p]) /\ tuned["useSfBackdoor"] \in {0, 1}
    BY <1>1 DEF Inv, KindInv, Kinds, ConfigInv, ConfigTypes
  <2>2. {"1035", "1036"} \cap SettingKeys = {}
    BY CommandsAssumption
  <2>3. QED
    BY <2>1, <2>2, CommandShapes DEF OfKind
<1>2. QED
  BY <1>1, InvAlways, PTL

(* SwitchRefreshRate, ExecCmd, ExecCmdSync: once every command has ended,  *)
(* the system has the rate curHz_ says, whichever thread reaped them.      *)
THEOREM RateIsInForce == Spec => []RateInForce
<1>1. ASSUME Inv
      PROVE  RateInForce
  <2> SUFFICES ASSUME todo = <<>>, Running = {}, ~overlapped, ~failed, curHz # UnsetHz
               PROVE  IF tuned["useSfBackdoor"] = 1
                        THEN system["1035"] = curHz
                        ELSE \A k \in SettingKeys : system[k] = curHz
    BY DEF RateInForce, HeavyIdle
  <2>1. DOMAIN todo = {} /\ Asked
    BY DEF Asked
  <2>2. QED
    BY <1>1, <2>1 DEF Inv, Pending, BackdoorPending, SettingsPending
<1>2. QED
  BY <1>1, InvAlways, PTL
=============================================================================
