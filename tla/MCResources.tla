---------------------------- MODULE MCResources ----------------------------
(***************************************************************************)
(* Instance of Resources: an admin, a user that the admin has created, one *)
(* that this user has created, and one that registered; two requests at a  *)
(* time to one controller.                                                 *)
(***************************************************************************)
EXTENDS Resources

CONSTANTS p1, p2, n1, n2, n3

admin == 1
user == 2
employee == 3
other == 4
MCUsers == {admin, user, employee, other}
MCBy == <<1, 1, 2, 4>>

MCCols == {"name", "by", "to"}
MCVals == {n1, n2, n3} \cup 0..4
Cols3(n, b, t) == [c \in MCCols |-> CASE c = "name" -> n [] c = "by" -> b [] OTHER -> t]

(* Newsfeeds of user and other, users 2 and 3, chats of the three.         *)
Cell(m, n, b, t) == [is |-> m, cols |-> Cols3(n, b, t), parts |-> {}]
MCTables == {<<Cell("live", n1, 2, 3), Cell("live", n1, 4, 2), Cell("free", n1, 0, 0)>>,
             <<Cell("live", n1, 1, 1), Cell("live", n1, 1, 3), Cell("live", n1, 2, 4)>>}

Body(n) == [c \in {"name"} |-> n]
Job(r, u, i) ==
    [call |-> [route |-> r, user |-> u,
               list |-> IF r.name = "updateBulk" THEN <<[id |-> 2, body |-> Body(n3)]>> ELSE <<>>],
     req |-> [op |-> r.op, id |-> i, where |-> n1,
              body |-> IF r.op = "create" THEN Cols3(n2, 0, 0) ELSE Body(n2),
              recs |-> {}, hard |-> FALSE, checked |-> r = Route("create", "create", "admin"),
              part |-> "none"]]

(* Where the service looks at who asks, every user asks, for two rows.     *)
Personal == {"newsfeed", "user", "chat"}
JobsOf(c) == {Job(r, u, i) : r \in Controllers[c],
                u \in IF c \in Personal THEN MCUsers ELSE {admin, user},
                i \in IF c \in Personal THEN {1, 2} ELSE {1}}

(* Beside any request, one that changes a row, to another name.            *)
Changes(c) == {IF j.req.op = "update" THEN [j EXCEPT !.req.body = Body(n3)] ELSE j :
                 j \in {k \in JobsOf(c) : k.req.op \in {"update", "delete"} /\ k.req.id = 1
                                             /\ k.call.user \in {admin, user}}}
                \cup {j \in JobsOf(c) : ~\E r \in Controllers[c] : r.op \in {"update", "delete"}}

MCCalls == [c \in DOMAIN Controllers |->
              {[p \in Jobs |-> IF p = p1 THEN j ELSE k] : j \in JobsOf(c), k \in Changes(c)}]
=============================================================================
