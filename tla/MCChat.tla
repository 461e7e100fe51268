------------------------------- MODULE MCChat -------------------------------
(***************************************************************************)
(* Small instances of Chat: two users, a cluster of one or two instances.  *)
(***************************************************************************)
EXTENDS Chat, TLC

CONSTANTS u1, u2, d1, d2, i1, i2, p1, p2

MCUserOf == [d \in Devices |-> IF d = d1 THEN u1 ELSE u2]
MCStart == [d \in Devices |-> IF d = d1 THEN i1 ELSE IF i2 \in Instances THEN i2 ELSE i1]
MCHome == [p \in Procs |-> IF p = p1 \/ i2 \notin Instances THEN i1 ELSE i2]
\* The users write to each other; u1 also to himself.
MCTalksSelf == [u \in Users |-> IF u = u1 THEN Users ELSE Users \ {u}]
MCAlike == Permutations(Procs)
MCTalksOne == [u \in Users |-> IF u = u1 THEN {u2} ELSE {}]
=============================================================================
