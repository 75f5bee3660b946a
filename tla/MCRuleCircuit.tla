--------------------------- MODULE MCRuleCircuit ---------------------------
(* Small instances of RuleCircuit.                                          *)
EXTENDS RuleCircuit

Option(failures, successes, recovery, warmup, interval, max, onReset, ch) ==
  [failureThreshold |-> failures, successThreshold |-> successes,
   recoveryWindow |-> recovery, warmupWindow |-> warmup,
   notifyInterval |-> interval, maxAlertsPerEvent |-> max,
   alertOnReset |-> onReset, hasChannels |-> ch]

\* The defaults of the schema (trips at once, recovers by one success); every
\* window in use; no warm-up, so that a check may start the rule and count; and a
\* rule stored without thresholds (what rule.ts saves when a rule is created
\* without options) that warms up for longer than it recovers.
MCOptions ==
  { Option(1, 0, 0, 0, 0, 1, TRUE, TRUE),
    Option(2, 2, 2, 1, 2, 2, TRUE, TRUE),
    Option(2, 0, 1, 0, 0, 1, FALSE, TRUE),
    Option(0, 0, 1, 2, 0, 1, FALSE, FALSE) }
=============================================================================
