------------------------------- MODULE Store -------------------------------
(***************************************************************************)
(* What a record service promises to the code that calls it, whatever the  *)
(* number of requests at work on a table: a request has its effect between *)
(* its call and its answer, each part of it once, and it changes only what *)
(* it names.  A row that is gone never comes back, a deleted row comes     *)
(* back by a restore only, and a column a request does not name keeps what *)
(* others wrote.                                                           *)
(*                                                                         *)
(* It does not promise that several columns change together, nor that the  *)
(* row is still live when it is changed: the services read, and save after *)
(* an await.  SqlRecords and MongoRecords are shown to implement it.       *)
(***************************************************************************)
CONSTANTS Jobs, Ids, Cols, Requests

VARIABLES rows,   \* the table
          req,    \* what each job asks
          open,   \* called and not yet answered
          made    \* the parts of its request that took effect

sVars == <<rows, req, open, made>>

(* A request has one part, but for the bulk insert: one for each record.   *)
PartsOf(r) == IF r.op = "createBulk" THEN r.recs ELSE {r.body}

(* The rows a request may change: one by its id, one or all by a filter.   *)
ById == {"update", "delete", "restore", "addSub", "removeSub"}
InBulk == {"createBulk", "updateBulk", "deleteBulk"}

Inserted(old, new, body) ==
    /\ old.is = "free" /\ new.is = "live" /\ new.parts = {}
    /\ new.cols = body

Changed(old, new, body) ==
    /\ old.is \in {"live", "deleted"} /\ new.is = old.is
    /\ new.parts = old.parts
    /\ \A c \in Cols : \/ new.cols[c] = old.cols[c]
                       \/ c \in DOMAIN body /\ new.cols[c] = body[c]

(* What request r may do to one row.                                       *)
Allowed(r, parts, old, new) ==
    CASE r.op \in {"create", "createBulk", "findOrCreate"} ->
            \E b \in parts : Inserted(old, new, b)
      [] r.op = "createOrUpdate" ->
            Inserted(old, new, r.body) \/ Changed(old, new, r.body)
      [] r.op \in {"update", "findAndUpdate", "updateBulk"} ->
            Changed(old, new, r.body)
      [] r.op \in {"delete", "findAndDelete", "deleteBulk"} ->
            /\ old.is \in {"live", "deleted"}
            /\ IF r.hard THEN new.is \in {"gone", "swept"}
                         ELSE new = [old EXCEPT !.is = "deleted"]
      [] r.op = "restore" ->
            old.is \in {"live", "deleted"} /\ new = [old EXCEPT !.is = "live"]
      [] r.op \in {"addSub", "removeSub"} ->
            /\ old.is \in {"live", "deleted"}
            /\ new = [old EXCEPT !.parts = IF r.op = "addSub" THEN @ \cup {r.part}
                                                              ELSE @ \ {r.part}]
      [] OTHER -> FALSE

Init == /\ req \in [Jobs -> Requests]
        /\ open = [p \in Jobs |-> FALSE]
        /\ made = [p \in Jobs |-> {}]
        /\ \A i \in Ids : rows[i].is \in {"free", "live", "deleted"}

Begin(p) == /\ ~open[p] /\ open' = [open EXCEPT ![p] = TRUE]
            /\ UNCHANGED <<rows, req, made>>

Apply(p, parts) ==
    LET touched == {i \in Ids : rows'[i] # rows[i]}
    IN /\ open[p]
       /\ parts \subseteq PartsOf(req[p]) \ made[p]
       /\ made' = [made EXCEPT ![p] = @ \cup parts]
       /\ \A i \in touched : Allowed(req[p], parts, rows[i], rows'[i])
       /\ req[p].op \in ById => touched \subseteq {req[p].id}
       /\ req[p].op \notin InBulk => \A i, j \in touched : i = j
       /\ req[p].op = "createBulk" =>
             \E at \in [parts -> Ids] : touched \subseteq {at[b] : b \in parts}
       /\ parts = {} => touched = {}
       /\ UNCHANGED req

(* The answer may come with the effect: the last await was the save's.     *)
Next == \E p \in Jobs : \/ Begin(p)
                        \/ \E parts \in SUBSET PartsOf(req[p]) :
                             /\ Apply(p, parts)
                             /\ open' \in {open, [open EXCEPT ![p] = FALSE]}

Spec == Init /\ [][Next]_sVars
=============================================================================
