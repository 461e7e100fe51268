------------------------------ MODULE Records ------------------------------
(***************************************************************************)
(* State and steps that SqlService and MongoService have in common: one    *)
(* table, the jobs at work on it, the entries on their way to the History  *)
(* and Trash collections, and those that are there.  A job runs from one   *)
(* await to the next; between two of its steps any other job may run.      *)
(*                                                                         *)
(* Abstracted: the owner columns (written with the others, read by no      *)
(* decision here), projections, and what a filter selects on: the column   *)
(* Key.  Of several rows that match, findOne may return any.               *)
(***************************************************************************)
EXTENDS Naturals, FiniteSets

CONSTANTS
    Jobs,       \* each one call of a service
    Ids,        \* primary keys, used and unused
    Cols, Vals, \* columns and their values
    Key,        \* the column that lookups and @IsUnique use
    Parts,      \* sub-documents
    Requests,   \* what a job may ask
    Tables,     \* tables to start from
    HistoryOn,  \* MODEL_OPTIONS.history
    Expires,    \* MODEL_OPTIONS.historyExpireIn, trashExpireIn
    PageLimit,  \* paginationLimit
    MaxFaults

ASSUME RecordsAssumption == /\ Key \in Cols /\ HistoryOn \in BOOLEAN
                            /\ Expires \in BOOLEAN /\ PageLimit \in Nat
                            /\ MaxFaults \in Nat

VARIABLES backend,  \* which of the two services the model uses
          rows, req, pc,
          copy,     \* the row a job read, and where
          made,     \* the parts of the request that took effect
          answer, shown,
          before,   \* the jobs that had ended when this one began
          logs,     \* History.create and Trash.create in flight
          kept,     \* the two collections
          faults

Row == [is : {"free", "live", "deleted", "gone", "swept"},
        cols : [Cols -> Vals], parts : SUBSET Parts]

Entry == [kind : {"history", "trash"}, job : Jobs, id : Ids,
          action : {"create", "update", "delete", "restore"}]

PartsOf(r) == IF r.op = "createBulk" THEN r.recs ELSE {r.body}

Live(i) == rows[i].is = "live"
Stored(i) == rows[i].is \in {"live", "deleted"}
Is(i, v) == rows[i].cols[Key] = v

NewRow(body) == [is |-> "live", cols |-> body, parts |-> {}]

(* The columns of body in cs written over cols.                            *)
Over(cols, body, cs) ==
    [c \in Cols |-> IF c \in cs \cap DOMAIN body THEN body[c] ELSE cols[c]]

(* The table with new columns, with a new mark.                            *)
Rewritten(body, cs) ==
    [i \in Ids |-> [rows[i] EXCEPT !.cols = Over(@, body, cs)]]
Marked(mark) == [i \in Ids |-> [rows[i] EXCEPT !.is = mark]]

-----------------------------------------------------------------------------
(* Steps of a job.                                                         *)

GoTo(p, l) == /\ pc' = [pc EXCEPT ![p] = l]
              /\ UNCHANGED <<answer, shown>>

End(p, a) == /\ pc' = [pc EXCEPT ![p] = "done"]
             /\ answer' = [answer EXCEPT ![p] = a]
             /\ UNCHANGED shown

(* Create, update, delete and the finds are called through ModelService,   *)
(* which runs the model's after hooks; the others are called directly.     *)
Hooked == {"create", "update", "delete", "findById", "findOne", "getAll", "countAll"}

Finish(p, a) ==
    IF req[p].op \in Hooked /\ a # "error" THEN GoTo(p, "after") ELSE End(p, a)

(* addToHistory, addToTrash: a create that nobody awaits.                  *)
History(p, action, i) ==
    IF HistoryOn THEN {[kind |-> "history", job |-> p, id |-> i, action |-> action]} ELSE {}
Trash(p, i) == {[kind |-> "trash", job |-> p, id |-> i, action |-> "delete"]}

(* findOne among the ids of S, for a later save.                           *)
FindAmong(p, S, otherwise) ==
    /\ pc[p] = "find"
    /\ \/ /\ \E i \in S : copy' = [copy EXCEPT ![p] = [id |-> i, row |-> rows[i]]]
          /\ GoTo(p, "write")
       \/ /\ S = {} /\ UNCHANGED copy
          /\ IF otherwise = "error" THEN End(p, "error") ELSE GoTo(p, otherwise)
    /\ UNCHANGED <<rows, made, logs>>

(* A statement that changes the rows of ids (those still there) to new[i]. *)
Write(p, ids, new) ==
    LET hit == {i \in ids : Stored(i)}
    IN /\ rows' = [i \in Ids |-> IF i \in hit THEN new[i] ELSE rows[i]]
       /\ made' = [made EXCEPT ![p] = IF hit = {} THEN @ ELSE @ \cup PartsOf(req[p])]

Insert(p, body) ==
    /\ \E i \in Ids :
         /\ rows[i].is = "free"
         /\ rows' = [rows EXCEPT ![i] = NewRow(body)]
         /\ copy' = [copy EXCEPT ![p] = [id |-> i, row |-> NewRow(body)]]
         /\ logs' = logs \cup History(p, "create", i)
    /\ made' = [made EXCEPT ![p] = @ \cup {body}]

Show(p, S) == /\ pc[p] = "find"
              /\ pc' = [pc EXCEPT ![p] = "after"]
              /\ answer' = answer
              /\ shown' = [shown EXCEPT ![p] = S]
              /\ UNCHANGED <<rows, copy, made, logs>>

ShowPage(p, S) ==
    \E page \in SUBSET S :
       /\ Cardinality(page) = IF Cardinality(S) < PageLimit THEN Cardinality(S) ELSE PageLimit
       /\ Show(p, page)

ShowOne(p, S) == \/ \E i \in S : Show(p, {i})
                 \/ /\ S = {} /\ pc[p] = "find" /\ End(p, "error")
                    /\ UNCHANGED <<rows, copy, made, logs>>

-----------------------------------------------------------------------------
(* A request is called.  A body with a @IsUnique column is validated first,*)
(* and what creates or writes in one statement finds nothing.              *)
Begin(p) ==
    /\ pc[p] = "idle"
    /\ GoTo(p, IF req[p].checked THEN "check"
               ELSE IF req[p].op \in {"create", "createBulk", "updateBulk", "deleteBulk"}
                    THEN "write" ELSE "find")
    /\ before' = [before EXCEPT ![p] = {q \in Jobs : pc[q] = "done"}]
    /\ UNCHANGED <<backend, rows, req, copy, made, logs, kept, faults>>

AfterCheck(p) == GoTo(p, IF req[p].op = "create" THEN "write" ELSE "find")

LogWritten ==
    /\ \E e \in logs : logs' = logs \ {e} /\ kept' = kept \cup {e}
    /\ UNCHANGED <<backend, rows, req, pc, copy, made, answer, shown, before, faults>>

LogFails ==
    /\ faults < MaxFaults /\ faults' = faults + 1
    /\ \E e \in logs : logs' = logs \ {e}
    /\ UNCHANGED <<backend, rows, req, pc, copy, made, answer, shown, before, kept>>

(* The nightly HistoryCron and TrashCron delete what is past its expire_in.*)
DeleteExpired(kind) ==
    /\ Expires
    /\ \E due \in SUBSET {e \in kept : e.kind = kind} :
         due # {} /\ kept' = kept \ due
    /\ UNCHANGED <<backend, rows, req, pc, copy, made, answer, shown, before, logs, faults>>

DeleteExpiredHistory == DeleteExpired("history")
DeleteExpiredTrash == DeleteExpired("trash")

(* The call a job awaits fails: caught, and answered as an error.  What    *)
(* was saved before an after hook failed stays saved.                      *)
CallFails(p) ==
    /\ pc[p] \notin {"idle", "done"}
    /\ faults < MaxFaults /\ faults' = faults + 1
    /\ End(p, "error")
    /\ UNCHANGED <<backend, rows, req, copy, made, before, logs, kept>>

(* The process of a job dies: no answer, and its entries in flight are lost*)
Crash(p) ==
    /\ pc[p] # "idle"
    /\ faults < MaxFaults /\ faults' = faults + 1
    /\ pc' = [pc EXCEPT ![p] = "done"]
    /\ logs' = {e \in logs : e.job # p}
    /\ UNCHANGED <<backend, rows, req, copy, made, answer, shown, before, kept>>

=============================================================================
