----------------------------- MODULE MCCronJobs -----------------------------
(* Instances of CronJobs for TLC: chats, tool calls, jobs and flags are      *)
(* interchangeable, so states that differ by a permutation of them are one.  *)
EXTENDS CronJobs, TLC

Symmetry == Permutations(Chats) \cup Permutations(Handlers)
              \cup Permutations(Jobs) \cup Permutations(Flags)

=============================================================================
