------------------------------ MODULE TaskLife ------------------------------
(***************************************************************************)
(* What the chats are promised about their scheduled tasks, whatever the   *)
(* table, the runner and the tool calls do.                                *)
(*                                                                         *)
(* A task is stored, and before its storing ends it gets one trigger,      *)
(* which fires for the chat that owns it and stays until the task is       *)
(* deleted; the deletion ends when nothing fires for the id, which may     *)
(* then be given again.  A death takes the triggers and no task.           *)
(*                                                                         *)
(* An id may be set loose, until the next death: when its task is deleted  *)
(* during its storing, stored before that storing or a deletion has ended, *)
(* or left stored by a storing that failed.  Nothing is promised of a      *)
(* loose id then, but that what happens to it touches no other.            *)
(***************************************************************************)
CONSTANTS
  Ids,       \* the tasks' ids
  Owners,    \* the chats
  Numbers,   \* what triggers are told apart by
  Nobody

VARIABLES
  owner,     \* task id -> the chat it is stored for, or Nobody
  triggers,  \* [number, id, chat] of every trigger that fires
  storing,   \* ids whose storing has not ended
  clearing,  \* ids whose deletion has not ended
  loose      \* ids nothing is promised of

Quiet(t) == \A g \in triggers : g.id # t

Init ==
  /\ owner = [t \in Ids |-> Nobody] /\ triggers = {}
  /\ storing = {} /\ clearing = {} /\ loose = {}

Store(t, c) ==
  /\ owner[t] = Nobody /\ (t \notin loose' => Quiet(t))
  /\ owner' = [owner EXCEPT ![t] = c]
  /\ storing' = storing \cup {t}
  /\ loose' = IF t \in storing \cup clearing THEN loose \cup {t} ELSE loose
  /\ UNCHANGED <<triggers, clearing>>

Arm(t) ==
  /\ t \notin loose /\ owner[t] # Nobody /\ Quiet(t)
  /\ \E n \in Numbers :
       triggers' = triggers \cup {[number |-> n, id |-> t, chat |-> owner[t]]}
  /\ UNCHANGED <<owner, storing, clearing, loose>>

Stored(t) ==
  /\ t \notin loose /\ t \in storing /\ (owner[t] = Nobody \/ ~Quiet(t))
  /\ storing' = storing \ {t}
  /\ UNCHANGED <<owner, triggers, clearing, loose>>

Fail(t) ==
  /\ t \notin loose /\ t \in storing
  /\ storing' = storing \ {t} /\ loose' = loose \cup {t}
  /\ UNCHANGED <<owner, triggers, clearing>>

Delete(t) ==
  /\ owner[t] # Nobody
  /\ owner' = [owner EXCEPT ![t] = Nobody]
  /\ clearing' = clearing \cup {t}
  /\ loose' \in {loose} \cup {loose \cup {u} : u \in storing \cap {t}}
  /\ UNCHANGED <<triggers, storing>>

Cleared(t) ==
  /\ t \notin loose /\ t \in clearing /\ owner[t] = Nobody
  /\ triggers' = {g \in triggers : g.id # t}
  /\ clearing' = clearing \ {t}
  /\ UNCHANGED <<owner, storing, loose>>

Loose(t) ==
  /\ t \in loose /\ loose' = loose
  /\ \A u \in Ids \ {t} : /\ owner'[u] = owner[u]
                          /\ (u \in storing') = (u \in storing)
                          /\ (u \in clearing') = (u \in clearing)
  /\ {g \in triggers' : g.id # t} = {g \in triggers : g.id # t}

Crash ==
  /\ triggers' = {} /\ storing' = {} /\ clearing' = {} /\ loose' = {}
  /\ UNCHANGED owner

Next ==
  \/ Crash
  \/ \E t \in Ids : \/ \E c \in Owners : Store(t, c)
                    \/ Arm(t) \/ Stored(t) \/ Fail(t) \/ Delete(t) \/ Cleared(t)
                    \/ Loose(t)

Spec == Init /\ [][Next]_<<owner, triggers, storing, clearing, loose>>

=============================================================================
