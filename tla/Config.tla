------------------------------- MODULE Config -------------------------------
(***************************************************************************)
(* modules/dynamic_fps.cpp: LoadConfig reads the configuration file line   *)
(* by line and then accepts or refuses it.                                 *)
(*                                                                         *)
(* A line is a rule, a tunable, a tunable whose value std::stoi cannot     *)
(* take, or one that is skipped: empty, a comment, an unknown tunable, or  *)
(* broken.                                                                 *)
(***************************************************************************)
EXTENDS Integers, SequencesExt

CONSTANTS
  Apps,       \* package names
  Rules,      \* the values of a rule: <<idle, active>>
  Tunings,    \* <<tunable, value>>
  MaxLines    \* bound: the length of the file

Tunables    == {"useSfBackdoor", "touchSlackMs", "enableMinBrightness"}
NoRule      == <<>>
DefaultRule == <<-1, -1>>
Names       == Apps \cup {"*", "-"}

ASSUME ConfigAssumption ==
  /\ Apps \cap {"*", "-", ""} = {} /\ Rules \subseteq Int \X Int
  /\ Tunings \subseteq Tunables \X Int /\ MaxLines \in Nat

MIN_TOUCH_SLACK_MS        == 100
MAX_ENABLE_MIN_BRIGHTNESS == 255

VARIABLES
  phase,    \* "reading", "loaded", "refused"; "running" once the app runs
  tuned,    \* the tunables: useSfBackdoor_, touchSlackMs_, enableMinBrightness_
  ruleOf,   \* universial_, offscreen_ and rules_, by name
  read      \* history: the lines so far

configVars == <<phase, tuned, ruleOf, read>>

Defaults == [t \in Tunables |-> CASE t = "useSfBackdoor" -> 0
                                  [] t = "touchSlackMs"  -> 4000
                                  [] OTHER               -> 8]

Lines == {[kind |-> "skipped"], [kind |-> "malformed"]}
           \cup [kind : {"tunable"}, tuning : Tunings]
           \cup [kind : {"rule"}, name : Names, rule : Rules]

ConfigInit == phase = "reading" /\ tuned = Defaults /\ ruleOf = [n \in Names |-> NoRule] /\ read = <<>>

-----------------------------------------------------------------------------
(* What SetTunable makes of a value.                                       *)
Tuned(tunable, value) ==
  CASE tunable = "useSfBackdoor" -> IF value > 0 THEN 1 ELSE 0
    [] tunable = "touchSlackMs"  -> IF value > MIN_TOUCH_SLACK_MS THEN value ELSE MIN_TOUCH_SLACK_MS
    [] OTHER -> IF value < MAX_ENABLE_MIN_BRIGHTNESS THEN value ELSE MAX_ENABLE_MIN_BRIGHTNESS

SetTunable(tunable, value) == /\ tuned' = [tuned EXCEPT ![tunable] = Tuned(tunable, value)]
                              /\ UNCHANGED <<phase, ruleOf>>

(* A defect for ConfigAsWritten to find: the last rule of an app wins.     *)
Replaces(name) == TRUE

(* emplace keeps the rule an app has.                                      *)
Kept(name) == name \in Apps /\ ruleOf[name] # NoRule
Takes(name) == ~Kept(name)

AddRule(name, rule) == /\ ruleOf' = IF Takes(name) THEN [ruleOf EXCEPT ![name] = rule] ELSE ruleOf
                       /\ UNCHANGED <<phase, tuned>>

ParseLine(line) ==
  \/ line.kind = "skipped" /\ UNCHANGED <<phase, tuned, ruleOf>>
  \/ line.kind = "malformed" /\ phase' = "refused" /\ UNCHANGED <<tuned, ruleOf>>
  \/ line.kind = "tunable" /\ SetTunable(line.tuning[1], line.tuning[2])
  \/ line.kind = "rule" /\ AddRule(line.name, line.rule)

ReadLine == \E line \in Lines :
  /\ phase = "reading" /\ Len(read) < MaxLines /\ read' = Append(read, line)
  /\ ParseLine(line)

(* A defect for RatesOfTheirKind to find: one value makes the kind.        *)
HasSfBackdoorValue(rule) == rule[1] < 20 \/ rule[2] < 20

IsSfBackdoorRule(rule) == rule[1] < 20 /\ rule[2] < 20

(* FindInvalidRule, after the last line.                                   *)
IsInvalid(rule) == rule # DefaultRule /\ (tuned["useSfBackdoor"] = 1) # IsSfBackdoorRule(rule)

EndOfFile ==
  /\ phase = "reading"
  /\ phase' = IF \/ NoRule \in {ruleOf["-"], ruleOf["*"]}
                 \/ \E n \in Names : ruleOf[n] # NoRule /\ IsInvalid(ruleOf[n])
              THEN "refused" ELSE "loaded"
  /\ UNCHANGED <<tuned, ruleOf, read>>

LoadConfig == ReadLine \/ EndOfFile

-----------------------------------------------------------------------------
(* What the file says, read as a whole: the lines with a rule for the name *)
(* and those that set the tunable.                                         *)
RulesFor(name)    == {k \in DOMAIN read : read[k].kind = "rule" /\ read[k].name = name}
Settings(tunable) == {k \in DOMAIN read : read[k].kind = "tunable" /\ read[k].tuning[1] = tunable}

(* Rules of an app have priority from the top of the file to its bottom;   *)
(* of the tunables and the two rules that are not an app's the last counts.*)
MeantRule(name) ==
  IF RulesFor(name) = {} THEN NoRule
  ELSE read[IF name \in Apps THEN Min(RulesFor(name)) ELSE Max(RulesFor(name))].rule

Meant(tunable) ==
  IF Settings(tunable) = {} THEN Defaults[tunable] ELSE read[Max(Settings(tunable))].tuning[2]

(* The values the method that is meant takes: indices below 20, or rates   *)
(* from 20 on, and -1 for what the system would do.                        *)
Suits(value) == value = -1 \/ IF Meant("useSfBackdoor") > 0 THEN value < 20 ELSE value >= 20

Suited(name) == MeantRule(name) # NoRule => \A i \in 1..2 : Suits(MeantRule(name)[i])

(* FindInvalidRule only asks whether both values are indices: under        *)
(* PEAK_REFRESH_RATE an index beside a rate is let through.                *)
Mixed(name) ==
  /\ MeantRule(name) # NoRule /\ ~(Meant("useSfBackdoor") > 0)
  /\ \E i \in 1..2 : ~Suits(MeantRule(name)[i]) /\ MeantRule(name)[3 - i] >= 20

(* What every file must have, and what a file must be in all.              *)
WellFormed == /\ \A k \in DOMAIN read : read[k].kind # "malformed"
              /\ \A n \in {"-", "*"} : RulesFor(n) # {}
Acceptable == WellFormed /\ \A n \in Names : Suited(n)

(* LoadConfig, AddRule, SetTunable, FindInvalidRule: a file is refused     *)
(* only when it is not what the help file asks for; one that is accepted   *)
(* is, except for its mixed rules, and it is in force as written, whatever *)
(* the order of its lines: the first rule of an app, the last of the rest. *)
ConfigAsWritten ==
  /\ phase = "refused" => ~Acceptable
  /\ phase = "loaded" =>
       /\ WellFormed /\ \A n \in Names : Suited(n) \/ Mixed(n)
       /\ ruleOf = [n \in Names |-> MeantRule(n)]
       /\ (tuned["useSfBackdoor"] = 1) <=> (Meant("useSfBackdoor") > 0)
       /\ tuned["touchSlackMs"] = Max({Meant("touchSlackMs"), MIN_TOUCH_SLACK_MS})
       /\ tuned["enableMinBrightness"] = Min({Meant("enableMinBrightness"), MAX_ENABLE_MIN_BRIGHTNESS})

(* dfps_help_en.md:38,43: the values of the rules of a file that is        *)
(* accepted are rates from 20 on, with the backdoor indices below 20. They *)
(* need not be: one rate makes the rule of the other value pass.           *)
RulesOfTheirKind == phase = "loaded" => \A n \in Names : Suited(n)
=============================================================================
