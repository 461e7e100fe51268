----------------------------- MODULE MCRecords -----------------------------
(***************************************************************************)
(* Instance of RecordServices: every pair of requests on small tables.     *)
(***************************************************************************)
EXTENDS RecordServices, TLC

CONSTANTS k1, k2, s1

MCCols == {"name", "text"}
MCVals == {k1, k2}

Full(k, t) == [c \in MCCols |-> IF c = "name" THEN k ELSE t]
NoBody == [c \in {} |-> k1]

(* A request with nothing but its operation; the others add to it.         *)
Base(o) == [op |-> o, id |-> 1, where |-> k1, body |-> NoBody, recs |-> {},
            hard |-> FALSE, checked |-> FALSE, part |-> s1]
WithId(o) == {Base(o)}
WithHard(S) == S \cup {[r EXCEPT !.hard = TRUE] : r \in S}
WithBody(S, bodies) == {[r EXCEPT !.body = b] : r \in S, b \in bodies}
OnName == {[c \in {"name"} |-> k2]}
OnText == {[c \in {"text"} |-> k2]}
OnBoth == {Full(k2, k1)}

MCRequests ==
    UNION { WithBody({Base("create"), [Base("create") EXCEPT !.checked = TRUE]}, {Full(k1, k2)}),
            {[Base("createBulk") EXCEPT !.recs = {Full(k1, k2), Full(k2, k2)}]},
            WithBody(WithId("update"), OnText \cup OnBoth),
            {[r EXCEPT !.checked = TRUE] : r \in WithBody({Base("update")}, OnName)},
            WithBody({Base("findAndUpdate")}, OnText),
            WithBody({Base("updateBulk")}, OnName),
            {Base(o) : o \in {"getAll", "countAll", "findOne", "aggregate", "addSub", "removeSub"}},
            {Base("findById")},
            WithHard(WithId("delete")),
            WithHard({Base("findAndDelete"), Base("deleteBulk")}),
            WithId("restore"),
            WithBody({Base("findOrCreate"), Base("createOrUpdate")}, {Full(k1, k2)}) }

Cells(m, k) == [is |-> m, cols |-> Full(k, k1), parts |-> {}]
MCTables == {[i \in Ids |-> IF i = 1 THEN a ELSE IF i = 2 THEN b ELSE Cells("free", k1)] :
               a \in {Cells("live", k1), Cells("deleted", k1)},
               b \in {Cells("free", k1), Cells("live", k2)}}
              \cup {[i \in Ids |-> Cells("free", k1)]}
=============================================================================
