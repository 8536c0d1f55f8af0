----------------------------- MODULE MCChatRun -----------------------------
(* Instances of ChatRun for TLC; turns of one kind are interchangeable.     *)
EXTENDS ChatRun, TLC

Symmetry == Permutations(Replies) \cup Permutations(Scheduled)

\* Bound: the rows of the chat a run goes on from.
HistoryBound == Len(history) <= 7

=============================================================================
