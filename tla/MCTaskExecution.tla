-------------------------- MODULE MCTaskExecution --------------------------
(* Small instances of TaskExecution for TLC.                               *)
EXTENDS TaskExecution, TLC

CONSTANTS t1, t2, p1, k1, k2

\* One policy whose daily cap admits either of two executions but not both.
TightTerms == {[maxValue |-> 2, dailyValue |-> 3, ttl |-> 1, human |-> TRUE]}

\* Policies with and without the human-approval flag.
MixedTerms == {[maxValue |-> 2, dailyValue |-> 3, ttl |-> 2, human |-> h] : h \in BOOLEAN}

TaskKeySymmetry == Permutations({t1, t2}) \union Permutations({k1, k2})
=============================================================================
