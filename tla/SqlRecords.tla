----------------------------- MODULE SqlRecords -----------------------------
(***************************************************************************)
(* SqlService: each operation of a job on a Sequelize model.  save() of an *)
(* instance writes the changed columns, by id: on a row that is gone it    *)
(* writes nothing and does not fail.                                       *)
(***************************************************************************)
EXTENDS Records

SqlUnchanged(p) == UNCHANGED <<rows, copy, made, logs>>

(* SqlUniqueValidator: a live row with the value, other than the row of a  *)
(* PUT, refuses the request.                                               *)
SqlValidate(p) ==
    LET same == {i \in Ids : Live(i) /\ Is(i, req[p].body[Key])}
        own == IF req[p].op = "update" THEN {req[p].id} ELSE {}
    IN /\ pc[p] = "check"
       /\ IF same \subseteq own THEN AfterCheck(p) ELSE End(p, "error")
       /\ SqlUnchanged(p)

(* Mutant: a row that is gone by then is an error.                         *)
SqlRereadOrFail(p) ==
    /\ pc[p] = "reread"
    /\ IF Live(copy[p].id)
       THEN GoTo(p, IF req[p].op \in Hooked THEN "after" ELSE "done")
       ELSE End(p, "error")
    /\ SqlUnchanged(p)

(* The row is read again before the answer, and may not be there any more: *)
(* ModelService gives a create or update an include, be it an empty one, as*)
(* the callers of findOrCreate may.                                        *)
SqlReread(p) ==
    /\ pc[p] = "reread"
    /\ pc' = [pc EXCEPT ![p] = IF req[p].op \in Hooked THEN "after" ELSE "done"]
    /\ answer' = IF req[p].op \in Hooked THEN answer ELSE [answer EXCEPT ![p] = "ok"]
    /\ shown' = [shown EXCEPT ![p] = {i \in {copy[p].id} : Live(i)}]
    /\ SqlUnchanged(p)

SqlInsert(p, l) == Insert(p, req[p].body) /\ GoTo(p, l)

SqlCreate(p) == pc[p] = "write" /\ SqlInsert(p, "reread")

(* One INSERT of all records.                                              *)
SqlCreateBulk(p) ==
    /\ pc[p] = "write"
    /\ \E at \in [req[p].recs -> {i \in Ids : rows[i].is = "free"}] :
         /\ \A b, c \in req[p].recs : at[b] = at[c] => b = c
         /\ rows' = [i \in Ids |-> IF \E b \in req[p].recs : at[b] = i
                                   THEN NewRow(CHOOSE b \in req[p].recs : at[b] = i)
                                   ELSE rows[i]]
         /\ logs' = logs \cup UNION {History(p, "create", at[b]) : b \in req[p].recs}
    /\ made' = [made EXCEPT ![p] = req[p].recs]
    /\ End(p, "ok") /\ UNCHANGED copy

(* The columns whose new value differs from the one read.                  *)
SqlChanged(p) == {c \in DOMAIN req[p].body : req[p].body[c] # copy[p].row.cols[c]}

(* Mutant: the save writes every column of the instance.                   *)
SqlSaveAll(p) ==
    /\ pc[p] = "write"
    /\ Write(p, {copy[p].id},
             [i \in Ids |-> [rows[i] EXCEPT !.cols = Over(copy[p].row.cols, req[p].body, Cols)]])
    /\ logs' = logs \cup History(p, "update", copy[p].id)
    /\ UNCHANGED copy

SqlSave(p) ==
    /\ pc[p] = "write"
    /\ Write(p, {copy[p].id}, Rewritten(req[p].body, SqlChanged(p)))
    /\ logs' = logs \cup History(p, "update", copy[p].id)
    /\ UNCHANGED copy

SqlUpdate(p) == \/ FindAmong(p, {i \in {req[p].id} : Live(i)}, "error")
                \/ SqlSave(p) /\ GoTo(p, "reread")

SqlFindAndUpdate(p) ==
    \/ FindAmong(p, {i \in Ids : Live(i) /\ Is(i, req[p].where)}, "error")
    \/ SqlSave(p) /\ End(p, "ok")

SqlUpdateBulk(p) ==
    /\ pc[p] = "write"
    /\ Write(p, {i \in Ids : Live(i) /\ Is(i, req[p].where)}, Rewritten(req[p].body, Cols))
    /\ End(p, "ok") /\ UNCHANGED <<copy, logs>>

SqlGetAll(p) == ShowPage(p, {i \in Ids : Live(i)})
SqlCountAll(p) == Show(p, {i \in Ids : Live(i)})
(* Mutant: deleted rows are found too.                                     *)
SqlFindDeleted(p) == ShowOne(p, {i \in {req[p].id} : Stored(i)})

SqlFindById(p) == ShowOne(p, {i \in {req[p].id} : Live(i)})
SqlFindOne(p) == ShowOne(p, {i \in Ids : Live(i) /\ Is(i, req[p].where)})

(* Mutant: a hard delete leaves no entry in the trash.                     *)
SqlDestroyOnly(p) ==
    /\ pc[p] = "write"
    /\ Write(p, {copy[p].id}, Marked(IF req[p].hard THEN "gone" ELSE "deleted"))
    /\ Finish(p, "ok") /\ UNCHANGED <<copy, logs>>

(* destroy(): a soft delete saves the instance, a hard one deletes by id.  *)
SqlDestroy(p) ==
    /\ pc[p] = "write"
    /\ Write(p, {copy[p].id}, Marked(IF req[p].hard THEN "gone" ELSE "deleted"))
    /\ logs' = logs \cup IF req[p].hard THEN Trash(p, copy[p].id)
                                        ELSE History(p, "delete", copy[p].id)
    /\ Finish(p, "ok") /\ UNCHANGED copy

(* paranoid: !force, so that a hard delete finds deleted rows too.         *)
SqlDelete(p) ==
    \/ FindAmong(p, {i \in {req[p].id} : Live(i) \/ (req[p].hard /\ Stored(i))}, "error")
    \/ SqlDestroy(p)

SqlFindAndDelete(p) ==
    \/ FindAmong(p, {i \in Ids : /\ Live(i) \/ (req[p].hard /\ Stored(i))
                                 /\ Is(i, req[p].where)}, "error")
    \/ SqlDestroy(p)

(* Neither history nor trash.                                              *)
SqlDeleteBulk(p) ==
    /\ pc[p] = "write"
    /\ Write(p, {i \in Ids : /\ Live(i) \/ (req[p].hard /\ Stored(i))
                             /\ Is(i, req[p].where)},
             Marked(IF req[p].hard THEN "swept" ELSE "deleted"))
    /\ End(p, "ok") /\ UNCHANGED <<copy, logs>>

(* The history entry is made before the row is restored.                   *)
SqlRestore(p) ==
    \/ /\ pc[p] = "find"
       /\ LET i == req[p].id
          IN IF Stored(i)
             THEN /\ copy' = [copy EXCEPT ![p] = [id |-> i, row |-> rows[i]]]
                  /\ logs' = logs \cup History(p, "restore", i)
                  /\ GoTo(p, "write")
             ELSE End(p, "error") /\ UNCHANGED <<copy, logs>>
       /\ UNCHANGED <<rows, made>>
    \/ /\ pc[p] = "write"
       /\ Write(p, {copy[p].id},
                IF copy[p].row.is = "deleted" THEN Marked("live") ELSE rows)
       /\ End(p, "ok") /\ UNCHANGED <<copy, logs>>

(* Mutant: builds without looking.                                         *)
SqlBuild(p) == SqlInsert(p, "reread") /\ pc[p] = "find"

SqlFindOrCreate(p) ==
    \/ /\ pc[p] = "find"
       /\ IF \E i \in Ids : Live(i) /\ Is(i, req[p].where)
          THEN End(p, "ok") ELSE GoTo(p, "insert")
       /\ SqlUnchanged(p)
    \/ pc[p] = "insert" /\ SqlInsert(p, "reread")

SqlCreateOrUpdate(p) ==
    \/ FindAmong(p, {i \in Ids : Live(i) /\ Is(i, req[p].where)}, "insert")
    \/ pc[p] = "insert" /\ Insert(p, req[p].body) /\ End(p, "ok")
    \/ SqlSave(p) /\ End(p, "ok")

(* ModelService (SQL): the after hooks of a create, update, delete or find.*)
SqlAfterHooks(p) == /\ pc[p] = "after" /\ End(p, "ok")
                    /\ SqlUnchanged(p)

SqlOperation(p) ==
    \/ req[p].op = "create" /\ SqlCreate(p)
    \/ req[p].op = "createBulk" /\ SqlCreateBulk(p)
    \/ req[p].op = "update" /\ SqlUpdate(p)
    \/ req[p].op = "findAndUpdate" /\ SqlFindAndUpdate(p)
    \/ req[p].op = "updateBulk" /\ SqlUpdateBulk(p)
    \/ req[p].op = "getAll" /\ SqlGetAll(p)
    \/ req[p].op = "countAll" /\ SqlCountAll(p)
    \/ req[p].op = "findById" /\ SqlFindById(p)
    \/ req[p].op = "findOne" /\ SqlFindOne(p)
    \/ req[p].op = "delete" /\ SqlDelete(p)
    \/ req[p].op = "findAndDelete" /\ SqlFindAndDelete(p)
    \/ req[p].op = "deleteBulk" /\ SqlDeleteBulk(p)
    \/ req[p].op = "restore" /\ SqlRestore(p)
    \/ req[p].op = "findOrCreate" /\ SqlFindOrCreate(p)
    \/ req[p].op = "createOrUpdate" /\ SqlCreateOrUpdate(p)

SqlStep(p) ==
    /\ backend = "sql"
    /\ SqlOperation(p) \/ SqlValidate(p) \/ SqlReread(p) \/ SqlAfterHooks(p)
    /\ UNCHANGED <<backend, req, before, kept, faults>>
=============================================================================
