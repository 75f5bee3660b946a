-------------------------- MODULE RuleRegistryClaims --------------------------
(* What the tests say of the rule registry, and the code does not do.       *)
EXTENDS RuleRegistry

\* Setting the status of a rule changes its status: a rule that is created and not
\* deleted stays stored (rule-manager.spec.ts, 'updates the ACTIVE status').
StatusKeepsRule ==
  AtRest => \A r \in log.created \ (log.deleted \cup log.crossed) : Stored(r)

=============================================================================
