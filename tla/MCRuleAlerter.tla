--------------------------- MODULE MCRuleAlerter ---------------------------
(* Options of rules for the runs of RuleAlerter.                           *)
EXTENDS RuleAlerter

Plain ==
  [failureThreshold |-> 1, successThreshold |-> 1, recoveryWindow |-> 0,
   warmupWindow |-> 0, notifyInterval |-> 0, maxAlertsPerEvent |-> 1,
   alertOnReset |-> FALSE, hasChannels |-> TRUE]

\* Two violations open it, two good results close it.
Patient == [Plain EXCEPT !.failureThreshold = 2, !.successThreshold = 2]

\* Warms up first, and cools down.
Windows == [Plain EXCEPT !.warmupWindow = 1, !.recoveryWindow = 1]

MCAllOptions == {Plain, Patient, Windows}
MCTimedOptions == {Plain, Windows}
=============================================================================
