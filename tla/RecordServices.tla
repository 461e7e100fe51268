--------------------------- MODULE RecordServices ---------------------------
(***************************************************************************)
(* Jobs at work on one model of either service, and what holds whatever    *)
(* their order.  Each job is one call, so that answer, made and before     *)
(* speak of it to the end.                                                 *)
(***************************************************************************)
EXTENDS SqlRecords, MongoRecords

vars == <<backend, rows, req, pc, copy, made, answer, shown, before, logs, kept, faults>>

MongoOnly == {"aggregate", "addSub", "removeSub"}

(* A body names columns, that of a new row all of them; a POST or PUT with *)
(* a @IsUnique property is validated.  Tables have rows that are there, or *)
(* marked as deleted, and room for new ones; no live rows share a value.   *)
Inserting == {"create", "findOrCreate", "createOrUpdate"}
ASSUME RequestsAssumption ==
    \A r \in Requests :
        /\ r.id \in Ids /\ r.hard \in BOOLEAN /\ r.checked \in BOOLEAN
        /\ DOMAIN r.body \subseteq Cols /\ \A c \in DOMAIN r.body : r.body[c] \in Vals
        /\ r.op \in Inserting => r.body \in [Cols -> Vals]
        /\ r.op = "createBulk" => r.recs \subseteq [Cols -> Vals]
        /\ r.op \in {"addSub", "removeSub"} => r.part \in Parts
        /\ r.checked => r.op \in {"create", "update"}
ASSUME TablesAssumption ==
    \A t \in Tables :
        /\ t \in [Ids -> Row]
        /\ \A i \in Ids : t[i].is \in {"free", "live", "deleted"}
        /\ \A i, j \in Ids : t[i].is = "live" /\ t[j].is = "live"
                             /\ t[i].cols[Key] = t[j].cols[Key] => i = j

Init ==
    /\ backend \in {"sql", "mongo"}
    /\ rows \in Tables
    /\ req \in [Jobs -> {r \in Requests : backend = "mongo" \/ r.op \notin MongoOnly}]
    /\ pc = [p \in Jobs |-> "idle"]
    /\ copy = [p \in Jobs |-> [id |-> req[p].id, row |-> rows[req[p].id]]]
    /\ made = [p \in Jobs |-> {}]
    /\ answer = [p \in Jobs |-> "none"]
    /\ shown = [p \in Jobs |-> {}]
    /\ before = [p \in Jobs |-> {}]
    /\ logs = {} /\ kept = {} /\ faults = 0

Next ==
    \/ \E p \in Jobs : \/ Begin(p) \/ SqlStep(p) \/ MongoStep(p)
                       \/ CallFails(p) \/ Crash(p)
    \/ LogWritten \/ LogFails
    \/ DeleteExpiredHistory \/ DeleteExpiredTrash

(* A create in flight is answered by the database.                         *)
Spec == Init /\ [][Next]_vars /\ WF_vars(LogWritten)

-----------------------------------------------------------------------------
(* Every variable keeps its type.                                          *)
TypeOK ==
    /\ backend \in {"sql", "mongo"}
    /\ rows \in [Ids -> Row]
    /\ req \in [Jobs -> Requests]
    /\ pc \in [Jobs -> {"idle", "check", "find", "insert", "write", "reread",
                        "after", "done"}]
    /\ copy \in [Jobs -> [id : Ids, row : Row]]
    /\ \A p \in Jobs : made[p] \subseteq PartsOf(req[p])
    /\ answer \in [Jobs -> {"none", "ok", "error"}]
    /\ shown \in [Jobs -> SUBSET Ids]
    /\ before \in [Jobs -> SUBSET Jobs]
    /\ logs \subseteq Entry /\ kept \subseteq Entry
    /\ faults \in 0..MaxFaults

(* Both services implement the promise of Store: whatever happens between  *)
(* the find and the save of a request, it changes once what it names.      *)
Promise == INSTANCE Store WITH open <- [p \in Jobs |-> pc[p] \notin {"idle", "done"}]
ImplementsStore == Promise!Spec

Writing == {"create", "createBulk", "update", "findAndUpdate", "delete",
            "findAndDelete", "restore", "createOrUpdate", "addSub", "removeSub"}

(* An answer without error means that the request took effect, except when *)
(* its row was removed between the find and the save, and the request was  *)
(* SQL's, or another hard delete.                                          *)
AnswersHonest ==
    \A p \in Jobs : answer[p] = "ok" /\ req[p].op \in Writing =>
        \/ made[p] = PartsOf(req[p])
        \/ ~Stored(copy[p].id) /\ (backend = "sql" \/ req[p].hard)

(* An entry of the history tells of a change that was made, but for those  *)
(* SQL writes first (restore) or without looking at the count (update).    *)
HistoryHonest ==
    \A e \in logs \cup kept : e.kind = "history" /\ made[e.job] = {} =>
        backend = "sql" /\ (e.action = "restore" \/ ~Stored(e.id))

(* A deleted record is not shown to a request that begins after the delete *)
(* was answered, unless a restore is asked that had not ended before it.   *)
Deletes == {"delete", "findAndDelete"}
HiddenOnceDeleted ==
    \A p, q \in Jobs :
        /\ answer[p] = "ok" /\ req[p].op \in Deletes /\ p \in before[q]
        /\ copy[p].id \in shown[q]
        => \E r \in Jobs : req[r].op = "restore" /\ r \notin before[p]

(* Two live rows share a value of the unique column only if a request that *)
(* nobody validates made one of them, or two that look first overlapped.   *)
Looks(r) == \/ r.checked
            \/ r.op \in {"findOrCreate", "createOrUpdate"} /\ r.where = r.body[Key]
Overlap(p, q) == p # q /\ p \notin before[q] /\ q \notin before[p]
UniqueButForRaces ==
    \A i, j \in Ids :
        Live(i) /\ Live(j) /\ i # j /\ rows[i].cols[Key] = rows[j].cols[Key] =>
            \/ \E p \in Jobs : made[p] # {} /\ ~Looks(req[p])
            \/ \E p, q \in Jobs : Overlap(p, q) /\ made[p] # {} /\ made[q] # {}

(* A record deleted for good is found in the trash in the end, unless its  *)
(* entry could not be written or its process died.                         *)
HardDeletesReachTrash ==
    \A i \in Ids : <>(rows[i].is = "gone") =>
        <>(faults > 0 \/ \E e \in kept : e.kind = "trash" /\ e.id = i)
=============================================================================
