---------------------------- MODULE MCChatAccess ----------------------------
(* Instances of ChatAccess for TLC; chats, profiles, handlers, presses and   *)
(* panel messages are interchangeable.                                       *)
EXTENDS ChatAccess, FiniteSets, TLC

Symmetry == Permutations(Chats) \cup Permutations(Profiles) \cup Permutations(Handlers)
              \cup Permutations(Presses) \cup Permutations(Messages)

Busy(states) == {x \in DOMAIN states : states[x].pc # "idle"}

\* Bound, on the states a run goes on from: two messages or presses at work; one while
\* three chats are listed, which then is by one panel; and only presses once both are.
Bound ==
  LET messages == Cardinality(Busy(handlers))
      atWork == messages + Cardinality(Busy(presses))
      spare == \E m \in Messages : panels[m] = NoPanel
  IN  /\ atWork <= (IF Len(order) < 3 THEN 2 ELSE 1)
      /\ Len(order) = 3 \/ messages > 0 => spare

=============================================================================
