----------------------------- MODULE MCCommands -----------------------------
(* The least values that tell the kinds of rule and the bounds apart.      *)
(* Every file is read; of those that are accepted two are run.             *)
EXTENDS Commands

MCRules == {<<-1, -1>>, <<1, 0>>, <<60, 120>>, <<10, 60>>}
MCTunings == {<<"useSfBackdoor", 0>>, <<"useSfBackdoor", 1>>,
              <<"touchSlackMs", 50>>, <<"enableMinBrightness", 300>>}

RuleLine(n, i, a) == [kind |-> "rule", name |-> n, rule |-> <<i, a>>]
BackdoorLine      == [kind |-> "tunable", tuning |-> <<"useSfBackdoor", 1>>]

(* The third is refused for its mixed rule.                                *)
MCFiles == {<<RuleLine("-", 60, 120), RuleLine("*", 60, 120)>>,
            <<RuleLine("-", 1, 0), RuleLine("*", 1, 0), BackdoorLine>>,
            <<RuleLine("-", 1, 0), RuleLine("*", 10, 60), BackdoorLine>>}

MCNext == Next /\ (phase = "loaded" => read \in MCFiles)
MCSpec == Init /\ [][MCNext]_vars /\ Fairness
=============================================================================
