---------------------------- MODULE MongoRecords ----------------------------
(***************************************************************************)
(* MongoService: each operation of a job on a Mongoose model.  It differs  *)
(* from SqlService where the drivers do: a save writes every path of the   *)
(* body (markModified), and fails on a document that is gone; filters of   *)
(* bulk statements do not leave deleted documents out (no hook for them);  *)
(* a restore finds deleted documents only; a batch is saved one by one.    *)
(***************************************************************************)
EXTENDS Records

MongoUnchanged(p) == UNCHANGED <<rows, copy, made, logs>>

(* MongoUniqueValidator, as its SQL counterpart.                           *)
MongoValidate(p) ==
    LET same == {i \in Ids : Live(i) /\ Is(i, req[p].body[Key])}
        own == IF req[p].op = "update" THEN {req[p].id} ELSE {}
    IN /\ pc[p] = "check"
       /\ IF same \subseteq own THEN AfterCheck(p) ELSE End(p, "error")
       /\ MongoUnchanged(p)

MongoCreate(p) == /\ pc[p] = "write"
                  /\ Insert(p, req[p].body) /\ Finish(p, "ok")

(* Model.create(records): each document is saved on its own.               *)
MongoCreateBulk(p) ==
    /\ pc[p] = "write"
    /\ \/ /\ \E b \in req[p].recs \ made[p] : Insert(p, b)
          /\ GoTo(p, "write")
       \/ made[p] = req[p].recs /\ End(p, "ok") /\ MongoUnchanged(p)

(* Mutant: a save that puts the document back when it is gone.             *)
MongoUpsert(p) ==
    /\ pc[p] = "write"
    /\ rows' = [rows EXCEPT ![copy[p].id] =
                  [copy[p].row EXCEPT !.cols = Over(@, req[p].body, Cols)]]
    /\ made' = [made EXCEPT ![p] = PartsOf(req[p])]
    /\ logs' = logs \cup History(p, "update", copy[p].id)
    /\ Finish(p, "ok") /\ UNCHANGED copy

(* document.save() after data.set of each property of the body.            *)
MongoSave(p) ==
    /\ pc[p] = "write"
    /\ IF Stored(copy[p].id)
       THEN /\ Write(p, {copy[p].id}, Rewritten(req[p].body, Cols))
            /\ logs' = logs \cup History(p, "update", copy[p].id)
            /\ Finish(p, "ok") /\ UNCHANGED copy
       ELSE End(p, "error") /\ MongoUnchanged(p)

MongoUpdate(p) == \/ FindAmong(p, {i \in {req[p].id} : Live(i)}, "error")
                  \/ MongoSave(p)

MongoFindAndUpdate(p) ==
    \/ FindAmong(p, {i \in Ids : Live(i) /\ Is(i, req[p].where)}, "error")
    \/ MongoSave(p)

MongoUpdateBulk(p) ==
    /\ pc[p] = "write"
    /\ Write(p, {i \in Ids : Is(i, req[p].where)}, Rewritten(req[p].body, Cols))
    /\ End(p, "ok") /\ UNCHANGED <<copy, logs>>

MongoGetAll(p) == ShowPage(p, {i \in Ids : Live(i)})
MongoCountAll(p) == Show(p, {i \in Ids : Live(i)})
MongoFindById(p) == ShowOne(p, {i \in {req[p].id} : Live(i)})
MongoFindOne(p) == ShowOne(p, {i \in Ids : Live(i) /\ Is(i, req[p].where)})

(* A pipeline, behind the default $match on deleted.                       *)
MongoAggregate(p) == /\ Show(p, {i \in Ids : Live(i) /\ Is(i, req[p].where)})

(* Mutant: the history is written whether the save succeeds or not.        *)
MongoLogParts(p, new) ==
    /\ pc[p] = "write"
    /\ Write(p, {copy[p].id}, new)
    /\ logs' = logs \cup History(p, "update", copy[p].id)
    /\ End(p, IF Stored(copy[p].id) THEN "ok" ELSE "error") /\ UNCHANGED copy

(* push and pull become $push and $pull: what others added stays.          *)
MongoSaveParts(p, new) ==
    /\ pc[p] = "write"
    /\ IF Stored(copy[p].id)
       THEN /\ Write(p, {copy[p].id}, new)
            /\ logs' = logs \cup History(p, "update", copy[p].id)
            /\ End(p, "ok") /\ UNCHANGED copy
       ELSE End(p, "error") /\ MongoUnchanged(p)

(* Mutant: the id of the document is pushed, not the part.                 *)
MongoAddId(p) ==
    \/ FindAmong(p, {i \in {req[p].id} : Live(i)}, "error")
    \/ MongoSaveParts(p, [i \in Ids |-> [rows[i] EXCEPT !.parts = @ \cup {i}]])

MongoAddSubDocument(p) ==
    \/ FindAmong(p, {i \in {req[p].id} : Live(i)}, "error")
    \/ MongoSaveParts(p, [i \in Ids |-> [rows[i] EXCEPT !.parts = @ \cup {req[p].part}]])

MongoRemoveSubDocument(p) ==
    \/ FindAmong(p, {i \in {req[p].id} : Live(i)}, "error")
    \/ MongoSaveParts(p, [i \in Ids |-> [rows[i] EXCEPT !.parts = @ \ {req[p].part}]])

(* Mutant: a mark on a document that is gone does not fail.                *)
MongoRemoveQuietly(p) ==
    /\ pc[p] = "write"
    /\ Write(p, {copy[p].id}, Marked(IF req[p].hard THEN "gone" ELSE "deleted"))
    /\ logs' = logs \cup Trash(p, copy[p].id)
    /\ Finish(p, "ok") /\ UNCHANGED copy

(* schema.methods.delete: deleteOne by id, or a save of the mark, which    *)
(* fails on a document that is gone.                                       *)
MongoRemove(p) ==
    /\ pc[p] = "write"
    /\ IF req[p].hard \/ Stored(copy[p].id)
       THEN /\ Write(p, {copy[p].id}, Marked(IF req[p].hard THEN "gone" ELSE "deleted"))
            /\ logs' = logs \cup IF req[p].hard THEN Trash(p, copy[p].id)
                                                ELSE History(p, "delete", copy[p].id)
            /\ Finish(p, "ok") /\ UNCHANGED copy
       ELSE End(p, "error") /\ MongoUnchanged(p)

MongoDelete(p) ==
    \/ FindAmong(p, {i \in {req[p].id} : Live(i) \/ (req[p].hard /\ Stored(i))}, "error")
    \/ MongoRemove(p)

MongoFindAndDelete(p) ==
    \/ FindAmong(p, {i \in Ids : /\ Live(i) \/ (req[p].hard /\ Stored(i))
                                 /\ Is(i, req[p].where)}, "error")
    \/ MongoRemove(p)

(* schema.statics.bulkDelete.                                              *)
MongoDeleteBulk(p) ==
    /\ pc[p] = "write"
    /\ Write(p, {i \in Ids : Is(i, req[p].where)},
             Marked(IF req[p].hard THEN "swept" ELSE "deleted"))
    /\ End(p, "ok") /\ UNCHANGED <<copy, logs>>

MongoRestore(p) ==
    \/ FindAmong(p, {i \in {req[p].id} : rows[i].is = "deleted"}, "error")
    \/ /\ pc[p] = "write"
       /\ IF Stored(copy[p].id)
          THEN /\ Write(p, {copy[p].id}, Marked("live"))
               /\ logs' = logs \cup History(p, "restore", copy[p].id)
               /\ End(p, "ok") /\ UNCHANGED copy
          ELSE End(p, "error") /\ MongoUnchanged(p)

MongoFindOrCreate(p) ==
    \/ /\ pc[p] = "find"
       /\ IF \E i \in Ids : Live(i) /\ Is(i, req[p].where)
          THEN End(p, "ok") ELSE GoTo(p, "insert")
       /\ MongoUnchanged(p)
    \/ pc[p] = "insert" /\ Insert(p, req[p].body) /\ End(p, "ok")

MongoCreateOrUpdate(p) ==
    \/ FindAmong(p, {i \in Ids : Live(i) /\ Is(i, req[p].where)}, "insert")
    \/ pc[p] = "insert" /\ Insert(p, req[p].body) /\ End(p, "ok")
    \/ MongoSave(p)

(* ModelService (Mongo): the after hooks.                                  *)
MongoAfterHooks(p) == /\ pc[p] = "after" /\ End(p, "ok")
                      /\ MongoUnchanged(p)

MongoOperation(p) ==
    \/ req[p].op = "create" /\ MongoCreate(p)
    \/ req[p].op = "createBulk" /\ MongoCreateBulk(p)
    \/ req[p].op = "update" /\ MongoUpdate(p)
    \/ req[p].op = "findAndUpdate" /\ MongoFindAndUpdate(p)
    \/ req[p].op = "updateBulk" /\ MongoUpdateBulk(p)
    \/ req[p].op = "getAll" /\ MongoGetAll(p)
    \/ req[p].op = "countAll" /\ MongoCountAll(p)
    \/ req[p].op = "findById" /\ MongoFindById(p)
    \/ req[p].op = "findOne" /\ MongoFindOne(p)
    \/ req[p].op = "aggregate" /\ MongoAggregate(p)
    \/ req[p].op = "addSub" /\ MongoAddSubDocument(p)
    \/ req[p].op = "removeSub" /\ MongoRemoveSubDocument(p)
    \/ req[p].op = "delete" /\ MongoDelete(p)
    \/ req[p].op = "findAndDelete" /\ MongoFindAndDelete(p)
    \/ req[p].op = "deleteBulk" /\ MongoDeleteBulk(p)
    \/ req[p].op = "restore" /\ MongoRestore(p)
    \/ req[p].op = "findOrCreate" /\ MongoFindOrCreate(p)
    \/ req[p].op = "createOrUpdate" /\ MongoCreateOrUpdate(p)

MongoStep(p) ==
    /\ backend = "mongo"
    /\ MongoOperation(p) \/ MongoValidate(p) \/ MongoAfterHooks(p)
    /\ UNCHANGED <<backend, req, before, kept, faults>>
=============================================================================
