--------------------------- MODULE RecordsProofs ---------------------------
(***************************************************************************)
(* Proofs about RecordServices, for any jobs, tables, requests and bounds: *)
(* both services implement Store, answers and history are honest, and a    *)
(* deleted record stays hidden.                                            *)
(*                                                                         *)
(* Each step of a job is shown to have an Outcome: an effect that Store    *)
(* allows, after which the job itself is in a good state (Local).  What a  *)
(* job holds about a row stays true under the effects of the others, as a  *)
(* row that is gone stays gone, no row becomes free, and only a restore    *)
(* makes a deleted row live.                                               *)
(***************************************************************************)
EXTENDS RecordServices, TLAPS

Gone(i) == rows[i].is \in {"gone", "swept"}

(* Nothing of the request took effect yet.                                 *)
Unwritten(p) == \/ pc[p] \in {"idle", "check", "find", "insert"}
                \/ pc[p] = "write" /\ (req[p].op = "createBulk" => backend = "sql")

Succeeding(p) == pc[p] \in {"reread", "after"} \/ answer[p] = "ok"

(* The request's find is behind it: copy is a row it found.                *)
Found(p) == \/ pc[p] = "write" /\ req[p].op \notin {"create", "createBulk",
                                                    "updateBulk", "deleteBulk"}
            \/ Succeeding(p) /\ req[p].op \in Deletes

RestoredBefore(p) == \A r \in Jobs : req[r].op = "restore" => r \in before[p]

FreshOK(p) == Unwritten(p) => made[p] = {}
AnswerOK(p) == /\ answer[p] # "none" => pc[p] = "done"
               /\ pc[p] = "idle" => shown[p] = {}
ByIdOK(p) == req[p].op \in Promise!ById => copy[p].id = req[p].id
FoundOK(p) == Found(p) => rows[copy[p].id].is # "free"
ActedOK(p) ==
    Succeeding(p) /\ req[p].op \in Writing =>
        \/ made[p] = PartsOf(req[p])
        \/ Gone(copy[p].id) /\ (backend = "sql" \/ req[p].hard)
DeletedOK(p) ==
    Succeeding(p) /\ req[p].op \in Deletes /\ RestoredBefore(p) =>
        ~Live(copy[p].id)

Local(p) == /\ FreshOK(p) /\ AnswerOK(p) /\ ByIdOK(p)
            /\ FoundOK(p) /\ ActedOK(p) /\ DeletedOK(p)

(* What a job holds and knows of the table.                                *)
LocalInv == \A p \in Jobs : Local(p)

BeforeInv == \A p, q \in Jobs : p \in before[q] => pc[p] = "done"

HistoryInv ==
    \A e \in logs \cup kept : e.kind = "history" /\ made[e.job] = {} =>
        backend = "sql" /\ (e.action = "restore" \/ Gone(e.id))

MadeInv == made = [p \in Jobs |-> made[p]]

(* The inductive invariant.                                                *)
IInv == /\ TypeOK /\ MadeInv /\ LocalInv /\ BeforeInv
        /\ HistoryInv /\ HiddenOnceDeleted

-----------------------------------------------------------------------------
PCs == {"idle", "check", "find", "insert", "write", "reread", "after", "done"}

(* A step of job p alone.                                                  *)
Frame(p) ==
    /\ pc[p] \notin {"idle", "done"} /\ pc'[p] \in PCs \ {"idle"}
    /\ pc' = [pc EXCEPT ![p] = pc'[p]]
    /\ copy'[p] \in [id : Ids, row : Row]
    /\ copy' = [copy EXCEPT ![p] = copy'[p]]
    /\ answer'[p] \in {"none", "ok", "error"}
    /\ answer' = [answer EXCEPT ![p] = answer'[p]]
    /\ shown'[p] \subseteq Ids
    /\ shown' = [shown EXCEPT ![p] = shown'[p]]
    /\ UNCHANGED <<backend, req, before, kept>>
    /\ faults' \in 0..MaxFaults

(* Its effect on the table, one that Store allows.                         *)
Effect(p) == /\ rows' \in [Ids -> Row]
             /\ \E parts \in SUBSET PartsOf(req[p]) : Promise!Apply(p, parts)

(* What it logs.                                                           *)
Logged(p) ==
    \A e \in logs' : e \in logs \/
        /\ e \in Entry /\ e.job = p
        /\ e.kind = "history" /\ made'[p] = {} =>
              backend = "sql" /\ (e.action = "restore" \/ Gone(e.id)')

(* What it shows is live.                                                  *)
Shows(p) == shown'[p] = shown[p] \/ \A i \in shown'[p] : Live(i)

Outcome(p) == Frame(p) /\ Effect(p) /\ Logged(p) /\ Shows(p) /\ Local(p)'

(* What Store allows does to any row: gone stays gone, none becomes free,  *)
(* and only a restore or an insert makes one live.                         *)
LEMMA EffectOnRow ==
    ASSUME TypeOK, NEW p \in Jobs, Effect(p), NEW i \in Ids
    PROVE  /\ Gone(i) => Gone(i)'
           /\ rows[i].is # "free" => rows'[i].is # "free"
           /\ rows[i].is # "free" /\ ~Live(i) /\ req[p].op # "restore" => ~Live(i)'
<1>1. PICK parts \in SUBSET PartsOf(req[p]) : Promise!Apply(p, parts)
  BY DEF Effect
<1>2. rows'[i] = rows[i] \/ Promise!Allowed(req[p], parts, rows[i], rows'[i])
  BY <1>1 DEF Promise!Apply
<1>3. rows[i] \in Row /\ rows'[i] \in Row
  BY DEF TypeOK, Effect
<1>4. CASE rows'[i] = rows[i]
  BY <1>4 DEF Gone, Live
<1>5. CASE Promise!Allowed(req[p], parts, rows[i], rows'[i])
  BY <1>3, <1>5 DEF Promise!Allowed, Promise!Inserted, Promise!Changed, Gone, Live, Row
<1> QED  BY <1>2, <1>4, <1>5

(* The parts of other jobs stay, those of p grow.                          *)
LEMMA EffectOnMade ==
    ASSUME TypeOK, MadeInv, NEW p \in Jobs, Effect(p)
    PROVE  /\ MadeInv' /\ \A q \in Jobs : q # p => made'[q] = made[q]
           /\ made'[p] \subseteq PartsOf(req[p]) /\ made[p] \subseteq made'[p]
<1>1. PICK parts \in SUBSET PartsOf(req[p]) : Promise!Apply(p, parts)
  BY DEF Effect
<1>2. made' = [made EXCEPT ![p] = @ \cup parts]
  BY <1>1 DEF Promise!Apply
<1> QED  BY <1>2 DEF TypeOK, MadeInv

(* A step with an outcome keeps the invariant.                             *)
LEMMA OutcomeKeeps ==
    ASSUME IInv, NEW p \in Jobs, Outcome(p)
    PROVE  IInv'
<1> USE DEF Outcome
<1>0. TypeOK /\ MadeInv
  BY DEF IInv
<1>1. /\ MadeInv' /\ \A q \in Jobs : q # p => made'[q] = made[q]
      /\ made'[p] \subseteq PartsOf(req[p]) /\ made[p] \subseteq made'[p]
  BY <1>0, EffectOnMade
<1>2. \A i \in Ids : /\ Gone(i) => Gone(i)'
                     /\ rows[i].is # "free" => rows'[i].is # "free"
                     /\ rows[i].is # "free" /\ ~Live(i) /\ req[p].op # "restore"
                           => ~Live(i)'
  BY <1>0, EffectOnRow
<1>3. TypeOK'
  <2>1. logs' \subseteq Entry
    BY <1>0 DEF Logged, TypeOK
  <2>2. \A q \in Jobs : (made[q] \subseteq PartsOf(req[q]))'
    BY <1>0, <1>1 DEF Frame, TypeOK
  <2>3. rows' \in [Ids -> Row]
    BY DEF Effect
  <2> QED  BY <1>0, <2>1, <2>2, <2>3 DEF Frame, TypeOK, PCs
<1>4. \A q \in Jobs \ {p} : /\ pc'[q] = pc[q] /\ copy'[q] = copy[q] /\ made'[q] = made[q]
                            /\ answer'[q] = answer[q] /\ shown'[q] = shown[q]
  BY <1>0, <1>1 DEF Frame, TypeOK
<1>5. UNCHANGED <<backend, req, before, kept>> /\ pc[p] \notin {"idle", "done"}
  BY DEF Frame
<1>6. LocalInv'
  <2> SUFFICES ASSUME NEW q \in Jobs, q # p PROVE Local(q)'
    BY DEF LocalInv
  <2>1. Local(q)
    BY DEF IInv, LocalInv
  <2>2. copy[q].id \in Ids
    BY <1>0 DEF TypeOK
  <2>3. FreshOK(q)' /\ AnswerOK(q)' /\ ByIdOK(q)'
    BY <1>4, <1>5, <2>1 DEF Local, FreshOK, AnswerOK, ByIdOK, Unwritten, Promise!ById
  <2>4. FoundOK(q)'
    BY <1>2, <1>4, <1>5, <2>1, <2>2 DEF Local, FoundOK, Found, Succeeding
  <2>5. ActedOK(q)'
    <3> SUFFICES ASSUME Succeeding(q)', (req[q].op \in Writing)'
                 PROVE  \/ made'[q] = PartsOf(req[q])'
                        \/ Gone(copy[q].id)' /\ (backend = "sql" \/ req[q].hard)'
      BY DEF ActedOK
    <3>1. Succeeding(q) /\ req[q].op \in Writing
      BY <1>4, <1>5 DEF Succeeding
    <3>2. \/ made[q] = PartsOf(req[q])
          \/ Gone(copy[q].id) /\ (backend = "sql" \/ req[q].hard)
      BY <2>1, <3>1 DEF Local, ActedOK
    <3>3. Gone(copy[q].id) => Gone(copy[q].id)'
      BY <1>2, <1>4, <2>2 DEF Gone
    <3> QED  BY <1>4, <1>5, <3>2, <3>3 DEF PartsOf
  <2>6. DeletedOK(q)'
    <3> SUFFICES ASSUME Succeeding(q)', (req[q].op \in Deletes)', RestoredBefore(q)'
                 PROVE  ~Live(copy[q].id)'
      BY DEF DeletedOK
    <3>1. Succeeding(q) /\ req[q].op \in Deletes /\ RestoredBefore(q)
      BY <1>4, <1>5 DEF Succeeding, RestoredBefore
    <3>2. ~Live(copy[q].id)
      BY <2>1, <3>1 DEF Local, DeletedOK
    <3>3. req[p].op # "restore"
      BY <1>5, <3>1 DEF RestoredBefore, IInv, BeforeInv
    <3>4. rows[copy[q].id].is # "free"
      BY <2>1, <3>1 DEF Local, FoundOK, Found
    <3>5. ~Live(copy[q].id)'
      BY <1>2, <1>4, <2>2, <3>2, <3>3, <3>4 DEF Live
    <3> QED  BY <3>5
  <2> QED  BY <2>3, <2>4, <2>5, <2>6 DEF Local
<1>7. BeforeInv'
  BY <1>0, <1>4, <1>5 DEF IInv, BeforeInv, TypeOK
<1>8. HistoryInv'
  <2> SUFFICES ASSUME NEW e \in (logs \cup kept)', e.kind = "history", made'[e.job] = {}
               PROVE  backend' = "sql" /\ (e.action = "restore" \/ Gone(e.id)')
    BY DEF HistoryInv
  <2>1. CASE e \in logs \cup kept
    <3>1. e.job \in Jobs /\ e.id \in Ids
      BY <1>0, <2>1 DEF TypeOK, Entry
    <3>2. made[e.job] = {}
      BY <1>1, <3>1
    <3>3. backend = "sql" /\ (e.action = "restore" \/ Gone(e.id))
      BY <2>1, <3>2 DEF IInv, HistoryInv
    <3> QED  BY <1>2, <1>5, <3>1, <3>3
  <2>2. CASE e \notin logs \cup kept
    BY <1>5, <2>2 DEF Logged
  <2> QED  BY <2>1, <2>2
<1>9. HiddenOnceDeleted'
  <2> SUFFICES ASSUME NEW d \in Jobs, NEW q \in Jobs, answer'[d] = "ok",
                      req'[d].op \in Deletes, d \in before'[q], copy'[d].id \in shown'[q]
               PROVE  \E r \in Jobs : req'[r].op = "restore" /\ r \notin before'[d]
    BY DEF HiddenOnceDeleted
  <2>1. pc[d] = "done" /\ d # p
    BY <1>5 DEF IInv, BeforeInv
  <2>2. answer[d] = "ok" /\ req[d].op \in Deletes /\ d \in before[q]
        /\ copy'[d] = copy[d]
    BY <1>4, <1>5, <2>1
  <2>3. CASE copy[d].id \in shown[q]
    BY <1>5, <2>2, <2>3 DEF IInv, HiddenOnceDeleted
  <2>4. CASE copy[d].id \notin shown[q]
    <3>1. q = p /\ Live(copy[d].id)
      BY <1>4, <2>2, <2>4 DEF Shows
    <3>2. DeletedOK(d) /\ Succeeding(d)
      BY <2>2 DEF IInv, LocalInv, Local, Succeeding
    <3> QED  BY <1>5, <2>2, <3>1, <3>2 DEF DeletedOK, RestoredBefore
  <2> QED  BY <2>3, <2>4
<1> QED  BY <1>1, <1>3, <1>6, <1>7, <1>8, <1>9 DEF IInv

-----------------------------------------------------------------------------
(* Effects.                                                                *)

(* Nothing changes in the table.                                           *)
LEMMA NoEffect ==
    ASSUME TypeOK, MadeInv, NEW p \in Jobs, pc[p] \notin {"idle", "done"},
           UNCHANGED <<rows, req, made>>
    PROVE  Effect(p)
<1>1. Promise!Apply(p, {})
  <2>1. made' = [made EXCEPT ![p] = @ \cup {}]
    BY DEF MadeInv
  <2>2. \E at \in [{} -> Ids] : {} \subseteq {at[b] : b \in {}}
    <3>1. [b \in {} |-> 0] \in [{} -> Ids]
      OBVIOUS
    <3> QED  BY <3>1
  <2>3. {i \in Ids : rows'[i] # rows[i]} = {}
    OBVIOUS
  <2> QED  BY <2>1, <2>2, <2>3 DEF Promise!Apply, TypeOK
<1> QED  BY <1>1 DEF Effect, TypeOK

(* A statement on the rows of ids that Store allows on each of them.       *)
LEMMA WriteEffect ==
    ASSUME TypeOK, MadeInv, NEW p \in Jobs, pc[p] \notin {"idle", "done"},
           made[p] = {}, req[p].op # "createBulk",
           NEW ids \in SUBSET Ids, NEW new \in [Ids -> Row], Write(p, ids, new),
           req[p].op \in Promise!ById => ids \subseteq {req[p].id},
           req[p].op \notin Promise!InBulk => \A i, j \in ids : i = j,
           \A i \in ids : Stored(i) =>
               \/ new[i] = rows[i]
               \/ Promise!Allowed(req[p], PartsOf(req[p]), rows[i], new[i]),
           req' = req
    PROVE  Effect(p)
<1> DEFINE hit == {i \in ids : Stored(i)}
           parts == IF hit = {} THEN {} ELSE PartsOf(req[p])
           touched == {i \in Ids : rows'[i] # rows[i]}
<1>1. rows' = [i \in Ids |-> IF i \in hit THEN new[i] ELSE rows[i]]
  BY DEF Write
<1>2. made' = [made EXCEPT ![p] = @ \cup parts]
  BY DEF Write, MadeInv
<1>3. touched \subseteq hit
  BY <1>1
<1>4. \A i \in touched : Promise!Allowed(req[p], parts, rows[i], rows'[i])
  <2> SUFFICES ASSUME NEW i \in touched
               PROVE  Promise!Allowed(req[p], parts, rows[i], rows'[i])
    OBVIOUS
  <2>1. i \in ids /\ Stored(i) /\ hit # {} /\ rows'[i] = new[i] /\ rows'[i] # rows[i]
    BY <1>1, <1>3
  <2> QED  BY <2>1
<1>5. Promise!Apply(p, parts)
  <2>1. parts \subseteq Promise!PartsOf(req[p]) \ made[p]
    BY DEF PartsOf, Promise!PartsOf
  <2>2. parts = {} => touched = {}
    <3>1. PartsOf(req[p]) # {}
      BY DEF PartsOf
    <3> QED  BY <1>3, <3>1
  <2>3. req[p].op \in Promise!ById => touched \subseteq {req[p].id}
    BY <1>3
  <2>4. req[p].op \notin Promise!InBulk => \A i, j \in touched : i = j
    BY <1>3
  <2> HIDE DEF parts
  <2> QED  BY <1>2, <1>4, <2>1, <2>2, <2>3, <2>4 DEF Promise!Apply
<1>6. rows' \in [Ids -> Row]
  BY <1>1 DEF TypeOK
<1>7. parts \in SUBSET PartsOf(req[p])
  OBVIOUS
<1> QED  BY <1>5, <1>6, <1>7 DEF Effect

(* A new row.                                                              *)
LEMMA InsertEffect ==
    ASSUME TypeOK, MadeInv, NEW p \in Jobs, pc[p] \notin {"idle", "done"},
           req[p].op \in {"create", "createBulk", "findOrCreate", "createOrUpdate"},
           NEW body \in PartsOf(req[p]) \ made[p], body \in [Cols -> Vals],
           Insert(p, body), req' = req
    PROVE  Effect(p)
<1>1. PICK k \in Ids : rows[k].is = "free" /\ rows' = [rows EXCEPT ![k] = NewRow(body)]
  BY DEF Insert
<1>2. NewRow(body) \in Row
  BY DEF NewRow, Row
<1>3. rows' \in [Ids -> Row]
  BY <1>1, <1>2 DEF TypeOK
<1> DEFINE touched == {i \in Ids : rows'[i] # rows[i]}
<1>4. touched \subseteq {k}
  BY <1>1 DEF TypeOK
<1>5. Promise!Allowed(req[p], {body}, rows[k], rows'[k])
  <2>1. rows'[k] = NewRow(body)
    BY <1>1 DEF TypeOK
  <2>2. Promise!Inserted(rows[k], rows'[k], body)
    BY <1>1, <2>1 DEF Promise!Inserted, NewRow
  <2>3. CASE req[p].op = "createOrUpdate"
    <3>1. body = req[p].body
      BY <2>3 DEF PartsOf
    <3> QED  BY <2>2, <2>3, <3>1 DEF Promise!Allowed
  <2>4. CASE req[p].op \in {"create", "createBulk", "findOrCreate"}
    BY <2>2, <2>4 DEF Promise!Allowed
  <2> QED  BY <2>3, <2>4
<1>6. Promise!Apply(p, {body})
  <2>1. made' = [made EXCEPT ![p] = @ \cup {body}]
    BY DEF Insert
  <2>2. \E at \in [{body} -> Ids] : touched \subseteq {at[b] : b \in {body}}
    <3>1. [b \in {body} |-> k] \in [{body} -> Ids]
      OBVIOUS
    <3> QED  BY <1>4, <3>1
  <2>3. {body} \subseteq Promise!PartsOf(req[p]) \ made[p]
    BY DEF PartsOf, Promise!PartsOf
  <2>4. \A i \in touched : Promise!Allowed(req[p], {body}, rows[i], rows'[i])
    BY <1>4, <1>5
  <2>5. req[p].op \notin Promise!ById
    BY DEF Promise!ById
  <2> QED  BY <1>4, <2>1, <2>2, <2>3, <2>4, <2>5 DEF Promise!Apply
<1> QED  BY <1>3, <1>6 DEF Effect

-----------------------------------------------------------------------------
(* Outcomes.                                                               *)

Busy(p) == pc[p] \notin {"idle", "done"}

Alone == UNCHANGED <<backend, req, before, kept, faults>>

(* What comes after the last statement of a request that succeeds.         *)
Leaves(p) == GoTo(p, "reread") \/ GoTo(p, "after") \/ End(p, "ok")

(* An error, after which nothing is said of the request.                   *)
LEMMA ErrorOutcome ==
    ASSUME IInv, NEW p \in Jobs, Busy(p), End(p, "error"), logs' \subseteq logs,
           UNCHANGED <<backend, rows, req, copy, made, before, kept>>,
           faults' \in 0..MaxFaults
    PROVE  Outcome(p)
<1>1. TypeOK /\ MadeInv /\ Local(p)
  BY DEF IInv, LocalInv
<1>2. Effect(p)
  BY <1>1, NoEffect DEF Busy
<1>3. Frame(p)
  BY <1>1 DEF Frame, TypeOK, End, Busy, PCs
<1>4. Local(p)'
  <2>1. pc'[p] = "done" /\ answer'[p] = "error"
    BY <1>1 DEF End, TypeOK
  <2>2. ~Unwritten(p)' /\ ~Found(p)' /\ ~Succeeding(p)'
    BY <2>1 DEF Unwritten, Found, Succeeding
  <2>3. ByIdOK(p)' /\ AnswerOK(p)'
    BY <1>1, <2>1 DEF Local, ByIdOK, AnswerOK
  <2> QED  BY <2>2, <2>3 DEF Local, FreshOK, FoundOK, ActedOK, DeletedOK
<1> QED  BY <1>2, <1>3, <1>4 DEF Outcome, Logged, Shows, End

(* A check passed, or a find that leaves the row alone.                    *)
LEMMA OnwardOutcome ==
    ASSUME IInv, NEW p \in Jobs, pc[p] \in {"check", "find"}, Alone,
           NEW l \in {"find", "insert", "write"}, GoTo(p, l),
           l = "write" => req[p].op = "create",
           UNCHANGED <<rows, copy, made, logs>>
    PROVE  Outcome(p)
<1>1. TypeOK /\ MadeInv /\ Local(p)
  BY DEF IInv, LocalInv
<1>2. Effect(p)
  BY <1>1, NoEffect DEF Alone
<1>3. Frame(p)
  BY <1>1 DEF Frame, TypeOK, GoTo, PCs, Alone
<1>4. Local(p)'
  <2>1. pc'[p] = l /\ answer'[p] = answer[p] /\ answer[p] = "none"
    BY <1>1 DEF GoTo, TypeOK, Local, AnswerOK
  <2>2. ~Succeeding(p)' /\ ~Found(p)'
    BY <2>1 DEF Succeeding, Found, Alone
  <2>3. FreshOK(p)' /\ ByIdOK(p)' /\ AnswerOK(p)'
    BY <1>1, <2>1 DEF Local, FreshOK, Unwritten, ByIdOK, AnswerOK, Alone
  <2> QED  BY <2>2, <2>3 DEF Local, FoundOK, ActedOK, DeletedOK
<1> QED  BY <1>2, <1>3, <1>4 DEF Outcome, Logged, Shows, GoTo

(* A find whose row is kept for a later save.                              *)
LEMMA FindOutcome ==
    ASSUME IInv, NEW p \in Jobs, pc[p] = "find", Alone, GoTo(p, "write"),
           NEW i \in Ids, copy' = [copy EXCEPT ![p] = [id |-> i, row |-> rows[i]]],
           rows[i].is # "free", req[p].op \in Promise!ById => i = req[p].id,
           req[p].op # "createBulk",
           \A e \in logs' : e \in logs \/
               /\ e \in Entry /\ e.job = p
               /\ backend = "sql" /\ e.action = "restore",
           UNCHANGED <<rows, made>>
    PROVE  Outcome(p)
<1>1. TypeOK /\ MadeInv /\ Local(p)
  BY DEF IInv, LocalInv
<1>2. Effect(p)
  BY <1>1, NoEffect DEF Alone
<1>3. copy'[p] = [id |-> i, row |-> rows[i]]
  BY <1>1 DEF TypeOK
<1>4. Frame(p)
  BY <1>1, <1>3 DEF Frame, TypeOK, GoTo, PCs, Alone
<1>5. Local(p)'
  <2>1. pc'[p] = "write" /\ answer'[p] = answer[p] /\ answer[p] = "none"
    BY <1>1 DEF GoTo, TypeOK, Local, AnswerOK
  <2>2. ~Succeeding(p)'
    BY <2>1 DEF Succeeding
  <2>3. FreshOK(p)' /\ ByIdOK(p)' /\ AnswerOK(p)' /\ FoundOK(p)'
    BY <1>1, <1>3, <2>1 DEF Local, FreshOK, Unwritten, ByIdOK, AnswerOK, FoundOK, Alone
  <2> QED  BY <2>2, <2>3 DEF Local, ActedOK, DeletedOK
<1> QED  BY <1>2, <1>4, <1>5 DEF Outcome, Logged, Shows, GoTo

(* findOne for a save, whatever comes when nothing is found.               *)
LEMMA FindAmongOutcome ==
    ASSUME IInv, NEW p \in Jobs, Alone, req[p].op # "createBulk",
           NEW S \in SUBSET Ids, NEW otherwise \in {"error", "insert"},
           FindAmong(p, S, otherwise), \A i \in S : Stored(i),
           req[p].op \in Promise!ById => S \subseteq {req[p].id}
    PROVE  Outcome(p)
<1>0. pc[p] = "find" /\ UNCHANGED <<rows, made, logs>>
  BY DEF FindAmong
<1>1. CASE \E i \in S : /\ copy' = [copy EXCEPT ![p] = [id |-> i, row |-> rows[i]]]
                        /\ GoTo(p, "write")
  <2>1. PICK i \in S : /\ copy' = [copy EXCEPT ![p] = [id |-> i, row |-> rows[i]]]
                       /\ GoTo(p, "write")
    BY <1>1
  <2>2. i \in Ids /\ rows[i].is # "free" /\ (req[p].op \in Promise!ById => i = req[p].id)
    BY <2>1 DEF Stored
  <2> QED  BY <1>0, <2>1, <2>2, FindOutcome
<1>2. CASE otherwise = "error" /\ UNCHANGED copy /\ End(p, "error")
  <2>1. UNCHANGED <<backend, rows, req, copy, made, before, kept>>
        /\ logs' \subseteq logs /\ faults' \in 0..MaxFaults /\ Busy(p)
    BY <1>0, <1>2 DEF Alone, IInv, TypeOK, Busy
  <2> QED  BY <1>2, <2>1, ErrorOutcome
<1>3. CASE otherwise = "insert" /\ UNCHANGED copy /\ GoTo(p, "insert")
  BY <1>0, <1>3, OnwardOutcome
<1> QED  BY <1>1, <1>2, <1>3 DEF FindAmong

(* A find that shows what it found.                                        *)
LEMMA ShowOutcome ==
    ASSUME IInv, NEW p \in Jobs, Alone, NEW S \in SUBSET Ids, Show(p, S),
           \A i \in S : Live(i), req[p].op \notin Writing \cup Deletes
    PROVE  Outcome(p)
<1>1. TypeOK /\ MadeInv /\ Local(p)
  BY DEF IInv, LocalInv
<1>2. Effect(p)
  BY <1>1, NoEffect DEF Alone, Show
<1>3. Frame(p)
  BY <1>1 DEF Frame, TypeOK, Show, PCs, Alone
<1>4. Local(p)'
  <2>1. pc'[p] = "after" /\ answer'[p] = answer[p] /\ answer[p] = "none"
    BY <1>1 DEF Show, TypeOK, Local, AnswerOK
  <2>2. FreshOK(p)' /\ ByIdOK(p)' /\ AnswerOK(p)' /\ FoundOK(p)'
    BY <1>1, <2>1 DEF Local, FreshOK, Unwritten, ByIdOK, AnswerOK, FoundOK, Found, Alone, Show
  <2> QED  BY <2>2 DEF Local, ActedOK, DeletedOK, Alone
<1>5. shown'[p] = S
  BY <1>1 DEF Show, TypeOK
<1> QED  BY <1>2, <1>3, <1>4, <1>5 DEF Outcome, Logged, Shows, Show

(* The last awaits of a request that has succeeded.                        *)
LEMMA AnswerOutcome ==
    ASSUME IInv, NEW p \in Jobs, Alone, pc[p] \in {"reread", "after"},
           pc'[p] \in {"after", "done"}, pc' = [pc EXCEPT ![p] = pc'[p]],
           answer' = [answer EXCEPT ![p] = answer'[p]], answer'[p] \in {"none", "ok"},
           answer'[p] = "ok" => pc'[p] = "done",
           shown' = [shown EXCEPT ![p] = shown'[p]], shown'[p] \subseteq Ids,
           Shows(p), UNCHANGED <<rows, copy, made, logs>>
    PROVE  Outcome(p)
<1>1. TypeOK /\ MadeInv /\ Local(p)
  BY DEF IInv, LocalInv
<1>2. Effect(p)
  BY <1>1, NoEffect DEF Alone
<1>3. Frame(p)
  BY <1>1 DEF Frame, TypeOK, PCs, Alone
<1>4. Local(p)'
  <2>1. Succeeding(p) /\ answer[p] = "none"
    BY <1>1 DEF Succeeding, Local, AnswerOK
  <2>2. FreshOK(p)' /\ ByIdOK(p)' /\ AnswerOK(p)'
    BY <1>1, <2>1 DEF Local, FreshOK, Unwritten, ByIdOK, AnswerOK, Alone
  <2>3. FoundOK(p)'
    BY <1>1, <2>1 DEF Local, FoundOK, Found, Alone
  <2>4. ActedOK(p)'
    BY <1>1, <2>1 DEF Local, ActedOK, Gone, PartsOf, Alone
  <2>5. DeletedOK(p)'
    BY <1>1, <2>1 DEF Local, DeletedOK, Live, RestoredBefore, Alone
  <2> QED  BY <2>2, <2>3, <2>4, <2>5 DEF Local
<1> QED  BY <1>2, <1>3, <1>4 DEF Outcome, Logged

(* How a request leaves its last statement.                                *)
LEMMA LeavesFrame ==
    ASSUME TypeOK, NEW p \in Jobs, Busy(p), Alone, Leaves(p),
           copy' = [copy EXCEPT ![p] = copy'[p]], copy'[p] \in [id : Ids, row : Row]
    PROVE  /\ Frame(p) /\ shown'[p] = shown[p]
           /\ Succeeding(p)' /\ ~Unwritten(p)'
           /\ answer[p] = "none" => AnswerOK(p)'
<1> USE DEF Leaves, TypeOK
<1>1. CASE GoTo(p, "reread")
  BY <1>1 DEF GoTo, Frame, PCs, Alone, Busy, Succeeding, Unwritten, AnswerOK
<1>2. CASE GoTo(p, "after")
  BY <1>2 DEF GoTo, Frame, PCs, Alone, Busy, Succeeding, Unwritten, AnswerOK
<1>3. CASE End(p, "ok")
  BY <1>3 DEF End, Frame, PCs, Alone, Busy, Succeeding, Unwritten, AnswerOK
<1> QED  BY <1>1, <1>2, <1>3

(* The save of a row the request has found.  A row that is no longer there *)
(* does not stop SQL, nor a delete by id.                                  *)
LEMMA SaveOutcome ==
    ASSUME IInv, NEW p \in Jobs, Alone, pc[p] = "write", Leaves(p),
           req[p].op \notin {"create", "createBulk", "updateBulk", "deleteBulk"},
           NEW new \in [Ids -> Row], Write(p, {copy[p].id}, new),
           Stored(copy[p].id) =>
               \/ new[copy[p].id] = rows[copy[p].id]
               \/ Promise!Allowed(req[p], PartsOf(req[p]), rows[copy[p].id], new[copy[p].id]),
           req[p].op \in Deletes => new[copy[p].id].is # "live",
           backend = "sql" \/ req[p].hard \/ Stored(copy[p].id),
           \A e \in logs' : e \in logs \/
               /\ e \in Entry /\ e.job = p
               /\ e.kind = "history" =>
                     e.id = copy[p].id /\ (backend = "sql" \/ Stored(e.id)),
           UNCHANGED copy
    PROVE  Outcome(p)
<1>0. TypeOK /\ MadeInv /\ Local(p)
  BY DEF IInv, LocalInv
<1> DEFINE k == copy[p].id
<1>1. /\ k \in Ids /\ rows[k] \in Row /\ rows[k].is # "free" /\ made[p] = {}
      /\ answer[p] = "none" /\ Busy(p)
  BY <1>0 DEF Local, FoundOK, Found, FreshOK, Unwritten, AnswerOK, TypeOK, Busy
<1>2. /\ Frame(p) /\ shown'[p] = shown[p] /\ AnswerOK(p)'
      /\ Succeeding(p)' /\ ~Unwritten(p)'
  BY <1>0, <1>1, LeavesFrame DEF TypeOK
<1>3. Effect(p)
  <2>1. req[p].op \in Promise!ById => {k} \subseteq {req[p].id}
    BY <1>0 DEF Local, ByIdOK
  <2> QED  BY <1>0, <1>1, <2>1, WriteEffect DEF Busy, Alone
<1>4. Stored(k) => made'[p] = PartsOf(req[p]) /\ rows'[k] = new[k]
  BY <1>0, <1>1 DEF Write, MadeInv
<1>10. ~Stored(k) => Gone(k)'
  <2> SUFFICES ASSUME ~Stored(k) PROVE Gone(k)'
    OBVIOUS
  <2>1. Gone(k)
    BY <1>1 DEF Gone, Stored, Row
  <2>2. rows'[k] = rows[k]
    BY <1>1 DEF Write
  <2> QED  BY <2>1, <2>2 DEF Gone
<1>5. PartsOf(req[p]) # {} /\ PartsOf(req[p])' = PartsOf(req[p])
  BY DEF PartsOf, Alone
<1>6. rows'[k].is # "free"
  BY <1>0, <1>1, <1>3, EffectOnRow
<1>7. copy'[p].id = k /\ req' = req /\ backend' = backend
  BY DEF Alone
<1>8. Local(p)'
  <2>1. FreshOK(p)' /\ ByIdOK(p)' /\ FoundOK(p)'
    BY <1>0, <1>2, <1>6, <1>7 DEF Local, FreshOK, ByIdOK, FoundOK
  <2>2. ActedOK(p)'
    <3>1. \/ made'[p] = PartsOf(req[p])'
          \/ Gone(copy[p].id)' /\ (backend = "sql" \/ req[p].hard)'
      BY <1>4, <1>5, <1>7, <1>10
    <3> QED  BY <3>1 DEF ActedOK
  <2>3. DeletedOK(p)'
    <3> SUFFICES ASSUME req[p].op \in Deletes PROVE rows'[k].is # "live"
      BY <1>7 DEF DeletedOK, Live
    <3> QED  BY <1>4, <1>10 DEF Gone
  <2> QED  BY <1>2, <2>1, <2>2, <2>3 DEF Local
<1>9. Logged(p)
  <2> SUFFICES ASSUME NEW e \in logs', e \notin logs, e.kind = "history", made'[p] = {}
               PROVE  backend = "sql" /\ Gone(e.id)'
    BY DEF Logged
  <2>1. e.id = k /\ (backend = "sql" \/ Stored(k))
    OBVIOUS
  <2> QED  BY <1>4, <1>5, <1>10, <2>1
<1> QED  BY <1>2, <1>3, <1>8, <1>9 DEF Outcome, Shows

(* One statement on all rows of a filter.                                  *)
LEMMA BulkOutcome ==
    ASSUME IInv, NEW p \in Jobs, Alone, pc[p] = "write", End(p, "ok"),
           req[p].op \in {"updateBulk", "deleteBulk"},
           NEW ids \in SUBSET Ids, NEW new \in [Ids -> Row], Write(p, ids, new),
           \A i \in ids : Stored(i) =>
               Promise!Allowed(req[p], PartsOf(req[p]), rows[i], new[i]),
           UNCHANGED <<copy, logs>>
    PROVE  Outcome(p)
<1>0. TypeOK /\ MadeInv /\ Local(p)
  BY DEF IInv, LocalInv
<1>1. made[p] = {} /\ answer[p] = "none" /\ Busy(p)
  BY <1>0 DEF Local, FreshOK, Unwritten, AnswerOK, Busy
<1>2. /\ Frame(p) /\ shown'[p] = shown[p] /\ AnswerOK(p)'
      /\ Succeeding(p)' /\ ~Unwritten(p)'
  BY <1>0, <1>1, LeavesFrame DEF TypeOK, Leaves
<1>3. Effect(p)
  BY <1>0, <1>1, WriteEffect DEF Busy, Alone, Promise!ById, Promise!InBulk
<1>4. req'[p].op \notin Writing \cup Deletes \cup Promise!ById /\ pc'[p] = "done"
  BY <1>0 DEF Alone, Writing, Deletes, Promise!ById, End, TypeOK
<1>5. Local(p)'
  BY <1>2, <1>4 DEF Local, FreshOK, ByIdOK, FoundOK, Found, ActedOK, DeletedOK
<1> QED  BY <1>2, <1>3, <1>5 DEF Outcome, Shows, Logged

(* What an insert logs is made.                                            *)
LEMMA InsertLogged ==
    ASSUME TypeOK, MadeInv, NEW p \in Jobs, NEW body, Insert(p, body)
    PROVE  Logged(p)
<1>1. PICK i \in Ids : logs' = logs \cup History(p, "create", i)
  BY DEF Insert
<1>2. made'[p] # {}
  BY DEF Insert, MadeInv
<1> QED  BY <1>1, <1>2 DEF Logged, History, Entry

(* A request that adds its row, and is through with it.                    *)
LEMMA InsertOutcome ==
    ASSUME IInv, NEW p \in Jobs, Alone, pc[p] \in {"insert", "write"}, Leaves(p),
           req[p].op \in {"create", "findOrCreate", "createOrUpdate"},
           Insert(p, req[p].body)
    PROVE  Outcome(p)
<1>0. TypeOK /\ MadeInv /\ Local(p)
  BY DEF IInv, LocalInv
<1>1. made[p] = {} /\ answer[p] = "none" /\ Busy(p)
  BY <1>0 DEF Local, FreshOK, Unwritten, AnswerOK, Busy
<1>2. req[p].body \in [Cols -> Vals] /\ PartsOf(req[p]) = {req[p].body}
  BY <1>0, RequestsAssumption DEF TypeOK, Inserting, PartsOf
<1>3. copy' = [copy EXCEPT ![p] = copy'[p]] /\ copy'[p] \in [id : Ids, row : Row]
  <2>1. PICK i \in Ids : copy' = [copy EXCEPT ![p] = [id |-> i, row |-> NewRow(req[p].body)]]
    BY DEF Insert
  <2>2. NewRow(req[p].body) \in Row
    BY <1>2 DEF NewRow, Row
  <2> QED  BY <1>0, <2>1, <2>2 DEF TypeOK
<1>4. /\ Frame(p) /\ shown'[p] = shown[p] /\ AnswerOK(p)'
      /\ Succeeding(p)' /\ ~Unwritten(p)'
  BY <1>0, <1>1, <1>3, LeavesFrame
<1>5. Effect(p)
  BY <1>0, <1>1, <1>2, InsertEffect DEF Busy, Alone
<1>6. Logged(p)
  BY <1>0, InsertLogged
<1>7. Local(p)'
  <2>1. made'[p] = PartsOf(req[p])'
    BY <1>0, <1>1, <1>2 DEF Insert, MadeInv, Alone
  <2>2. pc'[p] # "write" /\ req'[p].op \notin Deletes \cup Promise!ById
    BY <1>0 DEF Leaves, GoTo, End, TypeOK, Alone, Deletes, Promise!ById
  <2> QED  BY <1>4, <2>1, <2>2
           DEF Local, FreshOK, ByIdOK, FoundOK, Found, ActedOK, DeletedOK
<1> QED  BY <1>4, <1>5, <1>6, <1>7 DEF Outcome, Shows

(* Mongo saves one more document of a batch.                               *)
LEMMA BatchOutcome ==
    ASSUME IInv, NEW p \in Jobs, Alone, pc[p] = "write", GoTo(p, "write"),
           req[p].op = "createBulk", backend = "mongo",
           NEW body \in req[p].recs \ made[p], Insert(p, body)
    PROVE  Outcome(p)
<1>0. TypeOK /\ MadeInv /\ Local(p)
  BY DEF IInv, LocalInv
<1>1. body \in [Cols -> Vals] /\ PartsOf(req[p]) = req[p].recs
  BY <1>0, RequestsAssumption DEF TypeOK, PartsOf
<1>2. copy' = [copy EXCEPT ![p] = copy'[p]] /\ copy'[p] \in [id : Ids, row : Row]
  <2>1. PICK i \in Ids : copy' = [copy EXCEPT ![p] = [id |-> i, row |-> NewRow(body)]]
    BY DEF Insert
  <2>2. NewRow(body) \in Row
    BY <1>1 DEF NewRow, Row
  <2> QED  BY <1>0, <2>1, <2>2 DEF TypeOK
<1>3. Frame(p)
  BY <1>0, <1>2 DEF Frame, GoTo, TypeOK, PCs, Alone
<1>4. Effect(p)
  BY <1>0, <1>1, InsertEffect DEF Alone
<1>5. Logged(p)
  BY <1>0, InsertLogged
<1>6. Local(p)'
  <2>1. pc'[p] = "write" /\ answer'[p] = "none"
    BY <1>0 DEF GoTo, TypeOK, Local, AnswerOK
  <2> QED  BY <2>1 DEF Local, FreshOK, Unwritten, AnswerOK, ByIdOK, Promise!ById, FoundOK,
                       Found, ActedOK, DeletedOK, Succeeding, Deletes, Alone
<1> QED  BY <1>3, <1>4, <1>5, <1>6 DEF Outcome, Shows, GoTo

(* One INSERT of all records.                                              *)
LEMMA SqlCreateBulkOutcome ==
    ASSUME IInv, NEW p \in Jobs, Alone, req[p].op = "createBulk", backend = "sql",
           SqlCreateBulk(p)
    PROVE  Outcome(p)
<1> DEFINE recs == req[p].recs
<1>0. TypeOK /\ MadeInv /\ Local(p)
  BY DEF IInv, LocalInv
<1>1. recs \subseteq [Cols -> Vals] /\ PartsOf(req[p]) = recs
  BY <1>0, RequestsAssumption DEF TypeOK, PartsOf
<1>2. PICK at \in [recs -> {i \in Ids : rows[i].is = "free"}] :
         /\ rows' = [i \in Ids |-> IF \E b \in recs : at[b] = i
                                   THEN NewRow(CHOOSE b \in recs : at[b] = i)
                                   ELSE rows[i]]
         /\ logs' = logs \cup UNION {History(p, "create", at[b]) : b \in recs}
  BY DEF SqlCreateBulk
<1>3. /\ made' = [made EXCEPT ![p] = recs] /\ End(p, "ok") /\ UNCHANGED copy
      /\ pc[p] = "write"
  BY DEF SqlCreateBulk
<1>4. made[p] = {} /\ answer[p] = "none" /\ Busy(p)
  BY <1>0, <1>3 DEF Local, FreshOK, Unwritten, AnswerOK, Busy
<1>5. /\ Frame(p) /\ shown'[p] = shown[p] /\ AnswerOK(p)'
      /\ Succeeding(p)' /\ ~Unwritten(p)'
  BY <1>0, <1>3, <1>4, LeavesFrame DEF Leaves, TypeOK
<1>6. \A i \in Ids : \/ rows'[i] = rows[i]
                     \/ \E b \in recs : at[b] = i /\ rows[i].is = "free"
                                        /\ rows'[i] = NewRow(b)
  <2> SUFFICES ASSUME NEW i \in Ids, rows'[i] # rows[i]
               PROVE  \E b \in recs : at[b] = i /\ rows[i].is = "free"
                                      /\ rows'[i] = NewRow(b)
    OBVIOUS
  <2> DEFINE c == CHOOSE b \in recs : at[b] = i
  <2>1. \E b \in recs : at[b] = i
    BY <1>2
  <2>2. c \in recs /\ at[c] = i
    BY <2>1
  <2>3. rows'[i] = NewRow(c)
    BY <1>2, <2>1
  <2> QED  BY <1>2, <2>2, <2>3
<1>7. rows' \in [Ids -> Row]
  <2>1. \A b \in recs : NewRow(b) \in Row
    BY <1>1 DEF NewRow, Row
  <2>2. \A i \in Ids : rows'[i] \in Row
    BY <1>0, <1>6, <2>1 DEF TypeOK
  <2>3. rows' = [i \in Ids |-> rows'[i]]
    BY <1>2
  <2> QED  BY <2>2, <2>3
<1>8. Promise!Apply(p, recs)
  <2> DEFINE touched == {i \in Ids : rows'[i] # rows[i]}
  <2>1. \A i \in touched : Promise!Allowed(req[p], recs, rows[i], rows'[i])
    <3> SUFFICES ASSUME NEW i \in touched
                 PROVE  Promise!Allowed(req[p], recs, rows[i], rows'[i])
      OBVIOUS
    <3>1. PICK b \in recs : at[b] = i /\ rows[i].is = "free" /\ rows'[i] = NewRow(b)
      BY <1>6
    <3>2. Promise!Inserted(rows[i], rows'[i], b)
      BY <3>1 DEF Promise!Inserted, NewRow
    <3>3. \E d \in recs : Promise!Inserted(rows[i], rows'[i], d)
      BY <3>2
    <3> QED  BY <3>3 DEF Promise!Allowed
  <2>2. at \in [recs -> Ids] /\ touched \subseteq {at[b] : b \in recs}
    BY <1>2, <1>6
  <2>3. recs = {} => touched = {}
    BY <1>6
  <2>4. made' = [made EXCEPT ![p] = @ \cup recs] /\ recs \subseteq Promise!PartsOf(req[p]) \ made[p]
    BY <1>0, <1>1, <1>3, <1>4 DEF PartsOf, Promise!PartsOf, MadeInv
  <2>5. Busy(p) /\ req[p].op \notin Promise!ById /\ req[p].op \in Promise!InBulk
    BY <1>4 DEF Promise!ById, Promise!InBulk
  <2> HIDE DEF recs, touched
  <2>6. \E a \in [recs -> Ids] : touched \subseteq {a[b] : b \in recs}
    BY <2>2
  <2> QED  BY <2>1, <2>3, <2>4, <2>5, <2>6 DEF Promise!Apply, Busy, Alone, touched
<1>9. Effect(p)
  BY <1>1, <1>7, <1>8 DEF Effect
<1>10. made'[p] = recs
  BY <1>3, <1>0 DEF MadeInv
<1>11. Logged(p)
  <2> SUFFICES ASSUME NEW e \in logs', e \notin logs
               PROVE  e \in Entry /\ e.job = p /\ made'[p] # {}
    BY DEF Logged
  <2>1. PICK b \in recs : e \in History(p, "create", at[b])
    BY <1>2
  <2>2. at[b] \in Ids
    BY <1>2
  <2> QED  BY <1>10, <2>1, <2>2 DEF History, Entry
<1>12. Local(p)'
  <2>1. made'[p] = PartsOf(req[p])'
    BY <1>1, <1>10 DEF Alone, PartsOf
  <2>2. pc'[p] # "write" /\ req'[p].op \notin Deletes \cup Promise!ById
    BY <1>0, <1>3 DEF End, TypeOK, Alone, Deletes, Promise!ById
  <2> QED  BY <1>5, <2>1, <2>2
           DEF Local, FreshOK, ByIdOK, FoundOK, Found, ActedOK, DeletedOK
<1> QED  BY <1>5, <1>9, <1>11, <1>12 DEF Outcome, Shows

-----------------------------------------------------------------------------
(* What the services write is what Store allows.                           *)

(* New columns: those of the body, or the old ones.                        *)
LEMMA RewrittenAllowed ==
    ASSUME TypeOK, NEW p \in Jobs, NEW cs
    PROVE  /\ Rewritten(req[p].body, cs) \in [Ids -> Row]
           /\ req[p].op \in {"update", "findAndUpdate", "updateBulk", "createOrUpdate"} =>
                 \A i \in Ids : Stored(i) =>
                   Promise!Allowed(req[p], PartsOf(req[p]), rows[i],
                                   Rewritten(req[p].body, cs)[i])
<1> DEFINE body == req[p].body
           new == Rewritten(body, cs)
<1>1. \A c \in DOMAIN body : body[c] \in Vals
  BY RequestsAssumption DEF TypeOK
<1>2. ASSUME NEW i \in Ids
      PROVE  /\ new[i] \in Row /\ new[i].is = rows[i].is /\ new[i].parts = rows[i].parts
             /\ \A c \in Cols : \/ new[i].cols[c] = rows[i].cols[c]
                                \/ c \in DOMAIN body /\ new[i].cols[c] = body[c]
  <2> DEFINE cols == Over(rows[i].cols, body, cs)
  <2>1. rows[i] \in Row
    BY DEF TypeOK
  <2>2. \A c \in Cols : \/ cols[c] = rows[i].cols[c]
                        \/ c \in DOMAIN body /\ cols[c] = body[c]
    BY DEF Over
  <2>3. cols \in [Cols -> Vals]
    BY <1>1, <2>1, <2>2 DEF Over, Row
  <2>4. new[i] = [rows[i] EXCEPT !.cols = cols]
    BY <2>1 DEF Rewritten, Row
  <2> HIDE DEF cols, new, body
  <2> QED  BY <2>1, <2>2, <2>3, <2>4 DEF Row
<1>3. new \in [Ids -> Row]
  BY <1>2 DEF Rewritten
<1>4. ASSUME NEW i \in Ids, Stored(i),
             req[p].op \in {"update", "findAndUpdate", "updateBulk", "createOrUpdate"}
      PROVE  Promise!Allowed(req[p], PartsOf(req[p]), rows[i], new[i])
  <2>1. Promise!Changed(rows[i], new[i], req[p].body)
    BY <1>2, <1>4 DEF Promise!Changed, Stored
  <2> HIDE DEF new
  <2> QED  BY <1>4, <2>1 DEF Promise!Allowed
<1> QED  BY <1>3, <1>4

(* A delete: for good, or a mark.                                          *)
LEMMA MarkedAllowed ==
    ASSUME TypeOK, NEW p \in Jobs, NEW away \in {"gone", "swept"},
           req[p].op \in {"delete", "findAndDelete", "deleteBulk"}
    PROVE  LET new == Marked(IF req[p].hard THEN away ELSE "deleted")
           IN /\ new \in [Ids -> Row] /\ \A i \in Ids : new[i].is # "live"
              /\ \A i \in Ids : Stored(i) =>
                   Promise!Allowed(req[p], PartsOf(req[p]), rows[i], new[i])
<1> DEFINE mark == IF req[p].hard THEN away ELSE "deleted"
           new == Marked(mark)
<1>1. req[p].hard \in BOOLEAN
  BY RequestsAssumption DEF TypeOK
<1>2. ASSUME NEW i \in Ids
      PROVE  new[i] \in Row /\ new[i] = [rows[i] EXCEPT !.is = mark] /\ new[i].is = mark
  <2>1. mark \in {"gone", "swept", "deleted"}
    BY <1>1
  <2>2. rows[i] \in Row
    BY DEF TypeOK
  <2>3. new[i] = [rows[i] EXCEPT !.is = mark]
    BY DEF Marked
  <2> HIDE DEF mark, new
  <2> QED  BY <2>1, <2>2, <2>3 DEF Row
<1>3. new \in [Ids -> Row]
  BY <1>2 DEF Marked
<1>4. ASSUME NEW i \in Ids, Stored(i)
      PROVE  Promise!Allowed(req[p], PartsOf(req[p]), rows[i], new[i])
  BY <1>1, <1>2, <1>4 DEF Promise!Allowed, Stored
<1> QED  BY <1>2, <1>3, <1>4

(* A restore.                                                              *)
LEMMA RestoreAllowed ==
    ASSUME TypeOK, NEW p \in Jobs, req[p].op = "restore"
    PROVE  /\ Marked("live") \in [Ids -> Row]
           /\ \A i \in Ids : Stored(i) =>
                 Promise!Allowed(req[p], PartsOf(req[p]), rows[i], Marked("live")[i])
<1> DEFINE new == Marked("live")
<1>1. ASSUME NEW i \in Ids
      PROVE  new[i] \in Row /\ new[i] = [rows[i] EXCEPT !.is = "live"]
  BY DEF Marked, TypeOK, Row
<1>2. new \in [Ids -> Row]
  BY <1>1 DEF Marked
<1>3. ASSUME NEW i \in Ids, Stored(i)
      PROVE  Promise!Allowed(req[p], PartsOf(req[p]), rows[i], new[i])
  BY <1>1, <1>3 DEF Promise!Allowed, Stored
<1> QED  BY <1>2, <1>3

(* A sub-document more or less.                                            *)
LEMMA PartsAllowed ==
    ASSUME TypeOK, NEW p \in Jobs, req[p].op \in {"addSub", "removeSub"},
           NEW new, new = [i \in Ids |-> [rows[i] EXCEPT !.parts =
                             IF req[p].op = "addSub" THEN @ \cup {req[p].part}
                                                     ELSE @ \ {req[p].part}]]
    PROVE  /\ new \in [Ids -> Row]
           /\ \A i \in Ids : Stored(i) =>
                 Promise!Allowed(req[p], PartsOf(req[p]), rows[i], new[i])
<1>1. req[p].part \in Parts
  BY RequestsAssumption DEF TypeOK
<1>2. ASSUME NEW i \in Ids PROVE new[i] \in Row
  BY <1>1 DEF TypeOK, Row
<1>3. new \in [Ids -> Row]
  BY <1>2
<1>4. ASSUME NEW i \in Ids, Stored(i)
      PROVE  Promise!Allowed(req[p], PartsOf(req[p]), rows[i], new[i])
  BY <1>4 DEF Promise!Allowed, Stored
<1> QED  BY <1>3, <1>4

-----------------------------------------------------------------------------
(* The operations.                                                         *)

(* A success with nothing left to do.                                      *)
LEMMA OkOutcome ==
    ASSUME IInv, NEW p \in Jobs, Alone, Busy(p), End(p, "ok"),
           req[p].op \notin Deletes,
           req[p].op \in Writing => made[p] = PartsOf(req[p]),
           UNCHANGED <<rows, copy, made, logs>>
    PROVE  Outcome(p)
<1>1. TypeOK /\ MadeInv /\ Local(p)
  BY DEF IInv, LocalInv
<1>2. Effect(p)
  BY <1>1, NoEffect DEF Alone, Busy
<1>3. /\ Frame(p) /\ shown'[p] = shown[p] /\ ~Unwritten(p)'
      /\ answer[p] = "none" => AnswerOK(p)'
  BY <1>1, LeavesFrame DEF TypeOK, Leaves
<1>4. Local(p)'
  <2>1. pc'[p] = "done" /\ answer[p] = "none"
    BY <1>1 DEF End, TypeOK, Local, AnswerOK, Busy
  <2>2. ByIdOK(p)' /\ FreshOK(p)' /\ FoundOK(p)' /\ AnswerOK(p)'
    BY <1>1, <1>3, <2>1 DEF Local, ByIdOK, FreshOK, FoundOK, Found, Alone
  <2>3. ActedOK(p)' /\ DeletedOK(p)'
    BY DEF ActedOK, DeletedOK, Alone, PartsOf
  <2> QED  BY <2>2, <2>3 DEF Local
<1> QED  BY <1>2, <1>3, <1>4 DEF Outcome, Shows, Logged

(* findOrCreate looks, and ends if there is one.                           *)
LEMMA LookOutcome ==
    ASSUME IInv, NEW p \in Jobs, Alone, req[p].op = "findOrCreate", pc[p] = "find",
           End(p, "ok") \/ GoTo(p, "insert"), UNCHANGED <<rows, copy, made, logs>>
    PROVE  Outcome(p)
<1>1. CASE End(p, "ok")
  BY <1>1, OkOutcome DEF Busy, Writing, Deletes
<1>2. CASE GoTo(p, "insert")
  BY <1>2, OnwardOutcome
<1> QED  BY <1>1, <1>2

(* The uniqueness check.                                                   *)
LEMMA CheckOutcome ==
    ASSUME IInv, NEW p \in Jobs, Alone, pc[p] = "check", AfterCheck(p) \/ End(p, "error"),
           UNCHANGED <<rows, copy, made, logs>>
    PROVE  Outcome(p)
<1>1. CASE AfterCheck(p)
  <2> DEFINE l == IF req[p].op = "create" THEN "write" ELSE "find"
  <2>1. l \in {"find", "insert", "write"} /\ (l = "write" => req[p].op = "create")
    OBVIOUS
  <2>2. GoTo(p, l)
    BY <1>1 DEF AfterCheck
  <2> HIDE DEF l
  <2> QED  BY <2>1, <2>2, OnwardOutcome
<1>2. CASE End(p, "error")
  <2>1. UNCHANGED <<backend, rows, req, copy, made, before, kept>>
        /\ logs' \subseteq logs /\ faults' \in 0..MaxFaults /\ Busy(p)
    BY DEF Alone, IInv, TypeOK, Busy
  <2> QED  BY <1>2, <2>1, ErrorOutcome
<1> QED  BY <1>1, <1>2

(* Finds.                                                                  *)
LEMMA FindsOutcome ==
    ASSUME IInv, NEW p \in Jobs, Alone, req[p].op \notin Writing \cup Deletes,
           NEW S \in SUBSET Ids, \A i \in S : Live(i),
           ShowPage(p, S) \/ Show(p, S) \/ ShowOne(p, S)
    PROVE  Outcome(p)
<1>1. CASE \E T \in SUBSET S : Show(p, T)
  <2>1. PICK T \in SUBSET S : Show(p, T)
    BY <1>1
  <2> QED  BY <2>1, ShowOutcome
<1>2. CASE /\ pc[p] = "find" /\ End(p, "error")
           /\ UNCHANGED <<rows, copy, made, logs>>
  <2>1. UNCHANGED <<backend, rows, req, copy, made, before, kept>>
        /\ logs' \subseteq logs /\ faults' \in 0..MaxFaults /\ Busy(p)
    BY <1>2 DEF Alone, IInv, TypeOK, Busy
  <2> QED  BY <1>2, <2>1, ErrorOutcome
<1> QED
  <2>1. CASE ShowPage(p, S)
    BY <1>1, <2>1 DEF ShowPage
  <2>2. CASE Show(p, S)
    BY <1>1, <2>2
  <2>3. CASE ShowOne(p, S)
    <3>1. CASE \E i \in S : Show(p, {i})
      <4>1. PICK i \in S : Show(p, {i})
        BY <3>1
      <4>2. {i} \in SUBSET S
        OBVIOUS
      <4> QED  BY <1>1, <4>1, <4>2
    <3> QED  BY <1>2, <2>3, <3>1 DEF ShowOne
  <2> QED  BY <2>1, <2>2, <2>3

Updates == {"update", "findAndUpdate", "createOrUpdate"}

(* SQL: the save of an update.                                             *)
LEMMA SqlSaveOutcome ==
    ASSUME IInv, NEW p \in Jobs, Alone, backend = "sql", req[p].op \in Updates,
           SqlSave(p), Leaves(p)
    PROVE  Outcome(p)
<1> DEFINE new == Rewritten(req[p].body, SqlChanged(p))
<1>1. TypeOK /\ copy[p].id \in Ids
  BY DEF IInv, TypeOK
<1>2. /\ new \in [Ids -> Row]
      /\ Stored(copy[p].id) =>
            Promise!Allowed(req[p], PartsOf(req[p]), rows[copy[p].id], new[copy[p].id])
  BY <1>1, RewrittenAllowed DEF Updates
<1>3. /\ pc[p] = "write" /\ Write(p, {copy[p].id}, new) /\ UNCHANGED copy
      /\ logs' = logs \cup History(p, "update", copy[p].id)
  BY DEF SqlSave
<1>4. req[p].op \notin Deletes \cup {"create", "createBulk", "updateBulk", "deleteBulk"}
  BY DEF Updates, Deletes
<1>5. \A e \in logs' : e \in logs \/
           /\ e \in Entry /\ e.job = p
           /\ e.kind = "history" => e.id = copy[p].id
  BY <1>1, <1>3 DEF History, Entry
<1> HIDE DEF new
<1> QED  BY <1>2, <1>3, <1>4, <1>5, SaveOutcome

(* SQL: a destroy.                                                         *)
LEMMA SqlDestroyOutcome ==
    ASSUME IInv, NEW p \in Jobs, Alone, backend = "sql", req[p].op \in Deletes,
           SqlDestroy(p)
    PROVE  Outcome(p)
<1> DEFINE new == Marked(IF req[p].hard THEN "gone" ELSE "deleted")
<1>1. TypeOK /\ copy[p].id \in Ids
  BY DEF IInv, TypeOK
<1>2. /\ new \in [Ids -> Row] /\ new[copy[p].id].is # "live"
      /\ Stored(copy[p].id) =>
            Promise!Allowed(req[p], PartsOf(req[p]), rows[copy[p].id], new[copy[p].id])
  BY <1>1, MarkedAllowed DEF Deletes
<1>3. /\ pc[p] = "write" /\ Write(p, {copy[p].id}, new) /\ UNCHANGED copy
      /\ logs' = logs \cup IF req[p].hard THEN Trash(p, copy[p].id)
                                          ELSE History(p, "delete", copy[p].id)
      /\ Leaves(p)
  BY DEF SqlDestroy, Finish, Leaves
<1>4. req[p].op \notin {"create", "createBulk", "updateBulk", "deleteBulk"}
  BY DEF Deletes
<1>5. \A e \in logs' : e \in logs \/
           /\ e \in Entry /\ e.job = p
           /\ e.kind = "history" => e.id = copy[p].id
  BY <1>1, <1>3 DEF History, Trash, Entry
<1> HIDE DEF new
<1> QED  BY <1>2, <1>3, <1>4, <1>5, SaveOutcome

(* SQL: a restore, which logs before it saves.                             *)
LEMMA SqlRestoreOutcome ==
    ASSUME IInv, NEW p \in Jobs, Alone, backend = "sql", req[p].op = "restore",
           SqlRestore(p)
    PROVE  Outcome(p)
<1>1. TypeOK /\ copy[p].id \in Ids /\ req[p].id \in Ids
  BY RequestsAssumption DEF IInv, TypeOK
<1>2. CASE pc[p] = "find" /\ Stored(req[p].id)
  <2> DEFINE i == req[p].id
  <2>1. /\ copy' = [copy EXCEPT ![p] = [id |-> i, row |-> rows[i]]]
        /\ logs' = logs \cup History(p, "restore", i)
        /\ GoTo(p, "write") /\ UNCHANGED <<rows, made>>
    BY <1>2 DEF SqlRestore
  <2>2. \A e \in logs' : e \in logs \/
             /\ e \in Entry /\ e.job = p
             /\ backend = "sql" /\ e.action = "restore"
    BY <1>1, <2>1 DEF History, Entry
  <2>3. rows[i].is # "free"
    BY <1>2 DEF Stored
  <2> QED  BY <1>1, <1>2, <2>1, <2>2, <2>3, FindOutcome
<1>3. CASE pc[p] = "find" /\ ~Stored(req[p].id)
  <2>1. End(p, "error") /\ UNCHANGED <<rows, copy, made, logs>>
    BY <1>3 DEF SqlRestore
  <2>2. UNCHANGED <<backend, rows, req, copy, made, before, kept>>
        /\ logs' \subseteq logs /\ faults' \in 0..MaxFaults /\ Busy(p)
    BY <1>1, <1>3, <2>1 DEF Alone, TypeOK, Busy
  <2> QED  BY <2>1, <2>2, ErrorOutcome
<1>4. CASE pc[p] = "write"
  <2> DEFINE new == IF copy[p].row.is = "deleted" THEN Marked("live") ELSE rows
  <2>1. /\ Write(p, {copy[p].id}, new) /\ UNCHANGED <<copy, logs>> /\ Leaves(p)
    BY <1>4 DEF SqlRestore, Leaves
  <2>2. /\ new \in [Ids -> Row]
        /\ Stored(copy[p].id) =>
              \/ new[copy[p].id] = rows[copy[p].id]
              \/ Promise!Allowed(req[p], PartsOf(req[p]), rows[copy[p].id], new[copy[p].id])
    BY <1>1, RestoreAllowed DEF TypeOK
  <2>3. req[p].op \notin Deletes \cup {"create", "createBulk", "updateBulk", "deleteBulk"}
    BY DEF Deletes
  <2> HIDE DEF new
  <2> QED  BY <1>4, <2>1, <2>2, <2>3, SaveOutcome
<1> QED  BY <1>2, <1>3, <1>4 DEF SqlRestore

(* Every operation of SqlService.                                          *)
LEMMA SqlOperationOutcome ==
    ASSUME IInv, NEW p \in Jobs, Alone, backend = "sql", SqlOperation(p)
    PROVE  Outcome(p)
<1>0. TypeOK /\ req[p].id \in Ids
  BY RequestsAssumption DEF IInv, TypeOK
<1>1. CASE req[p].op = "create" /\ SqlCreate(p)
  BY <1>1, InsertOutcome DEF SqlCreate, SqlInsert, Leaves
<1>2. CASE req[p].op = "createBulk" /\ SqlCreateBulk(p)
  BY <1>2, SqlCreateBulkOutcome
<1>3. CASE req[p].op = "update" /\ SqlUpdate(p)
  <2>1. CASE SqlSave(p) /\ GoTo(p, "reread")
    BY <1>3, <2>1, SqlSaveOutcome DEF Updates, Leaves
  <2>2. CASE FindAmong(p, {i \in {req[p].id} : Live(i)}, "error")
    BY <1>0, <1>3, <2>2, FindAmongOutcome DEF Live, Stored
  <2> QED  BY <1>3, <2>1, <2>2 DEF SqlUpdate
<1>4. CASE req[p].op = "findAndUpdate" /\ SqlFindAndUpdate(p)
  <2>1. CASE SqlSave(p) /\ End(p, "ok")
    BY <1>4, <2>1, SqlSaveOutcome DEF Updates, Leaves
  <2>2. CASE FindAmong(p, {i \in Ids : Live(i) /\ Is(i, req[p].where)}, "error")
    BY <1>4, <2>2, FindAmongOutcome DEF Live, Stored, Promise!ById
  <2> QED  BY <1>4, <2>1, <2>2 DEF SqlFindAndUpdate
<1>5. CASE req[p].op = "updateBulk" /\ SqlUpdateBulk(p)
  <2> DEFINE ids == {i \in Ids : Live(i) /\ Is(i, req[p].where)}
             new == Rewritten(req[p].body, Cols)
  <2>1. new \in [Ids -> Row]
        /\ \A i \in Ids : Stored(i) => Promise!Allowed(req[p], PartsOf(req[p]), rows[i], new[i])
    BY <1>0, <1>5, RewrittenAllowed
  <2>2. /\ pc[p] = "write" /\ Write(p, ids, new) /\ End(p, "ok")
        /\ UNCHANGED <<copy, logs>> /\ ids \in SUBSET Ids
    BY <1>5 DEF SqlUpdateBulk
  <2> HIDE DEF ids, new
  <2> QED  BY <1>5, <2>1, <2>2, BulkOutcome
<1>6. CASE req[p].op = "getAll" /\ SqlGetAll(p)
  BY <1>6, FindsOutcome DEF SqlGetAll, Writing, Deletes
<1>7. CASE req[p].op = "countAll" /\ SqlCountAll(p)
  BY <1>7, FindsOutcome DEF SqlCountAll, Writing, Deletes
<1>8. CASE req[p].op = "findById" /\ SqlFindById(p)
  BY <1>0, <1>8, FindsOutcome DEF SqlFindById, Writing, Deletes
<1>9. CASE req[p].op = "findOne" /\ SqlFindOne(p)
  BY <1>9, FindsOutcome DEF SqlFindOne, Writing, Deletes
<1>10. CASE req[p].op = "delete" /\ SqlDelete(p)
  <2>1. CASE SqlDestroy(p)
    BY <1>10, <2>1, SqlDestroyOutcome DEF Deletes
  <2>2. CASE FindAmong(p, {i \in {req[p].id} : Live(i) \/ (req[p].hard /\ Stored(i))}, "error")
    BY <1>0, <1>10, <2>2, FindAmongOutcome DEF Live, Stored
  <2> QED  BY <1>10, <2>1, <2>2 DEF SqlDelete
<1>11. CASE req[p].op = "findAndDelete" /\ SqlFindAndDelete(p)
  <2>1. CASE SqlDestroy(p)
    BY <1>11, <2>1, SqlDestroyOutcome DEF Deletes
  <2>2. CASE FindAmong(p, {i \in Ids : /\ Live(i) \/ (req[p].hard /\ Stored(i))
                                       /\ Is(i, req[p].where)}, "error")
    BY <1>11, <2>2, FindAmongOutcome DEF Live, Stored, Promise!ById
  <2> QED  BY <1>11, <2>1, <2>2 DEF SqlFindAndDelete
<1>12. CASE req[p].op = "deleteBulk" /\ SqlDeleteBulk(p)
  <2> DEFINE ids == {i \in Ids : /\ Live(i) \/ (req[p].hard /\ Stored(i))
                                 /\ Is(i, req[p].where)}
             new == Marked(IF req[p].hard THEN "swept" ELSE "deleted")
  <2>1. new \in [Ids -> Row]
        /\ \A i \in Ids : Stored(i) => Promise!Allowed(req[p], PartsOf(req[p]), rows[i], new[i])
    BY <1>0, <1>12, MarkedAllowed
  <2>2. /\ pc[p] = "write" /\ Write(p, ids, new) /\ End(p, "ok")
        /\ UNCHANGED <<copy, logs>> /\ ids \in SUBSET Ids
    BY <1>12 DEF SqlDeleteBulk
  <2> HIDE DEF ids, new
  <2> QED  BY <1>12, <2>1, <2>2, BulkOutcome
<1>13. CASE req[p].op = "restore" /\ SqlRestore(p)
  BY <1>13, SqlRestoreOutcome
<1>14. CASE req[p].op = "findOrCreate" /\ SqlFindOrCreate(p)
  <2>1. CASE pc[p] = "insert" /\ SqlInsert(p, "reread")
    BY <1>14, <2>1, InsertOutcome DEF SqlInsert, Leaves
  <2>2. CASE pc[p] = "find"
    BY <1>14, <2>2, LookOutcome DEF SqlFindOrCreate, SqlUnchanged
  <2> QED  BY <1>14, <2>1, <2>2 DEF SqlFindOrCreate
<1>15. CASE req[p].op = "createOrUpdate" /\ SqlCreateOrUpdate(p)
  <2>1. CASE FindAmong(p, {i \in Ids : Live(i) /\ Is(i, req[p].where)}, "insert")
    BY <1>15, <2>1, FindAmongOutcome DEF Live, Stored, Promise!ById
  <2>2. CASE pc[p] = "insert" /\ Insert(p, req[p].body) /\ End(p, "ok")
    BY <1>15, <2>2, InsertOutcome DEF Leaves
  <2>3. CASE SqlSave(p) /\ End(p, "ok")
    BY <1>15, <2>3, SqlSaveOutcome DEF Updates, Leaves
  <2> QED  BY <1>15, <2>1, <2>2, <2>3 DEF SqlCreateOrUpdate
<1> QED  BY <1>1, <1>2, <1>3, <1>4, <1>5, <1>6, <1>7, <1>8, <1>9, <1>10, <1>11, <1>12,
            <1>13, <1>14, <1>15 DEF SqlOperation

(* Every step of a job in SqlService.                                      *)
LEMMA SqlStepOutcome ==
    ASSUME IInv, NEW p \in Jobs, SqlStep(p)
    PROVE  Outcome(p)
<1>0. Alone /\ backend = "sql" /\ TypeOK
  BY DEF SqlStep, Alone, IInv
<1>1. CASE SqlOperation(p)
  BY <1>0, <1>1, SqlOperationOutcome
<1>2. CASE SqlValidate(p)
  BY <1>0, <1>2, CheckOutcome DEF SqlValidate, SqlUnchanged
<1>3. CASE SqlReread(p)
  <2>1. /\ pc[p] = "reread" /\ pc'[p] \in {"after", "done"}
        /\ pc' = [pc EXCEPT ![p] = pc'[p]]
    BY <1>0, <1>3 DEF SqlReread, TypeOK
  <2>2. answer[p] = "none"
    BY <2>1 DEF IInv, LocalInv, Local, AnswerOK
  <2>3. /\ answer' = [answer EXCEPT ![p] = answer'[p]] /\ answer'[p] \in {"none", "ok"}
        /\ answer'[p] = "ok" => pc'[p] = "done"
    BY <1>0, <1>3, <2>2 DEF SqlReread, TypeOK
  <2>4. /\ shown' = [shown EXCEPT ![p] = shown'[p]] /\ shown'[p] \subseteq Ids
        /\ Shows(p)
    BY <1>0, <1>3 DEF SqlReread, Shows, TypeOK
  <2>5. UNCHANGED <<rows, copy, made, logs>>
    BY <1>3 DEF SqlReread, SqlUnchanged
  <2> QED  BY <1>0, <2>1, <2>3, <2>4, <2>5, AnswerOutcome
<1>4. CASE SqlAfterHooks(p)
  <2>1. UNCHANGED <<rows, copy, made, logs, shown>> /\ pc[p] = "after" /\ Shows(p)
    BY <1>4 DEF SqlAfterHooks, SqlUnchanged, End, Shows
  <2>2. /\ pc'[p] = "done" /\ pc' = [pc EXCEPT ![p] = pc'[p]] /\ answer'[p] = "ok"
        /\ answer' = [answer EXCEPT ![p] = answer'[p]]
        /\ shown' = [shown EXCEPT ![p] = shown'[p]] /\ shown'[p] \subseteq Ids
    BY <1>0, <1>4 DEF SqlAfterHooks, End, TypeOK
  <2> QED  BY <1>0, <2>1, <2>2, AnswerOutcome
<1> QED  BY <1>1, <1>2, <1>3, <1>4 DEF SqlStep

-----------------------------------------------------------------------------
(* Mongo: a save that fails when the document is gone.                     *)
LEMMA FailedSaveOutcome ==
    ASSUME IInv, NEW p \in Jobs, Alone, pc[p] = "write",
           End(p, "error"), MongoUnchanged(p)
    PROVE  Outcome(p)
<1>1. UNCHANGED <<backend, rows, req, copy, made, before, kept>>
      /\ logs' \subseteq logs /\ faults' \in 0..MaxFaults /\ Busy(p)
  BY DEF MongoUnchanged, Alone, IInv, TypeOK, Busy
<1> QED  BY <1>1, ErrorOutcome

(* Mongo: any save of a document that is there.                            *)
LEMMA StoredSaveOutcome ==
    ASSUME IInv, NEW p \in Jobs, Alone, pc[p] = "write", Leaves(p),
           req[p].op \notin Deletes \cup {"create", "createBulk", "updateBulk", "deleteBulk"},
           NEW new \in [Ids -> Row], Write(p, {copy[p].id}, new), Stored(copy[p].id),
           Promise!Allowed(req[p], PartsOf(req[p]), rows[copy[p].id], new[copy[p].id]),
           NEW action \in {"update", "restore"},
           logs' = logs \cup History(p, action, copy[p].id), UNCHANGED copy
    PROVE  Outcome(p)
<1>1. copy[p].id \in Ids
  BY DEF IInv, TypeOK
<1>2. \A e \in logs' : e \in logs \/
           /\ e \in Entry /\ e.job = p
           /\ e.kind = "history" => e.id = copy[p].id
  BY <1>1 DEF History, Entry
<1> QED  BY <1>2, SaveOutcome

(* Mongo: the save of an update.                                           *)
LEMMA MongoSaveOutcome ==
    ASSUME IInv, NEW p \in Jobs, Alone, backend = "mongo", req[p].op \in Updates,
           MongoSave(p)
    PROVE  Outcome(p)
<1> DEFINE new == Rewritten(req[p].body, Cols)
<1>1. TypeOK /\ copy[p].id \in Ids
  BY DEF IInv, TypeOK
<1>2. CASE Stored(copy[p].id)
  <2>1. /\ new \in [Ids -> Row]
        /\ Promise!Allowed(req[p], PartsOf(req[p]), rows[copy[p].id], new[copy[p].id])
    BY <1>1, <1>2, RewrittenAllowed DEF Updates
  <2>2. /\ pc[p] = "write" /\ Write(p, {copy[p].id}, new) /\ UNCHANGED copy
        /\ logs' = logs \cup History(p, "update", copy[p].id) /\ Leaves(p)
    BY <1>2 DEF MongoSave, Finish, Leaves
  <2>3. req[p].op \notin Deletes \cup {"create", "createBulk", "updateBulk", "deleteBulk"}
    BY DEF Updates, Deletes
  <2> HIDE DEF new
  <2> QED  BY <1>2, <2>1, <2>2, <2>3, StoredSaveOutcome
<1>3. CASE ~Stored(copy[p].id)
  BY <1>3, FailedSaveOutcome DEF MongoSave
<1> QED  BY <1>2, <1>3

(* Mongo: a sub-document is pushed or pulled.                              *)
LEMMA MongoSavePartsOutcome ==
    ASSUME IInv, NEW p \in Jobs, Alone, req[p].op \in {"addSub", "removeSub"},
           NEW new, new = [i \in Ids |-> [rows[i] EXCEPT !.parts =
                             IF req[p].op = "addSub" THEN @ \cup {req[p].part}
                                                     ELSE @ \ {req[p].part}]],
           MongoSaveParts(p, new)
    PROVE  Outcome(p)
<1>1. TypeOK /\ copy[p].id \in Ids
  BY DEF IInv, TypeOK
<1>2. CASE Stored(copy[p].id)
  <2>1. /\ new \in [Ids -> Row]
        /\ Promise!Allowed(req[p], PartsOf(req[p]), rows[copy[p].id], new[copy[p].id])
    BY <1>1, <1>2, PartsAllowed
  <2>2. /\ pc[p] = "write" /\ Write(p, {copy[p].id}, new) /\ UNCHANGED copy
        /\ logs' = logs \cup History(p, "update", copy[p].id) /\ Leaves(p)
    BY <1>2 DEF MongoSaveParts, Leaves
  <2>3. req[p].op \notin Deletes \cup {"create", "createBulk", "updateBulk", "deleteBulk"}
    BY DEF Deletes
  <2> QED  BY <1>2, <2>1, <2>2, <2>3, StoredSaveOutcome
<1>3. CASE ~Stored(copy[p].id)
  BY <1>3, FailedSaveOutcome DEF MongoSaveParts
<1> QED  BY <1>2, <1>3

(* Mongo: a delete.                                                        *)
LEMMA MongoRemoveOutcome ==
    ASSUME IInv, NEW p \in Jobs, Alone, req[p].op \in Deletes, MongoRemove(p)
    PROVE  Outcome(p)
<1> DEFINE new == Marked(IF req[p].hard THEN "gone" ELSE "deleted")
<1>1. TypeOK /\ copy[p].id \in Ids
  BY DEF IInv, TypeOK
<1>2. CASE req[p].hard \/ Stored(copy[p].id)
  <2>1. /\ new \in [Ids -> Row] /\ new[copy[p].id].is # "live"
        /\ Stored(copy[p].id) =>
              Promise!Allowed(req[p], PartsOf(req[p]), rows[copy[p].id], new[copy[p].id])
    BY <1>1, MarkedAllowed DEF Deletes
  <2>2. /\ pc[p] = "write" /\ Write(p, {copy[p].id}, new) /\ UNCHANGED copy
        /\ logs' = logs \cup IF req[p].hard THEN Trash(p, copy[p].id)
                                            ELSE History(p, "delete", copy[p].id)
        /\ Leaves(p)
    BY <1>2 DEF MongoRemove, Finish, Leaves
  <2>3. req[p].op \notin {"create", "createBulk", "updateBulk", "deleteBulk"}
    BY DEF Deletes
  <2>4. \A e \in logs' : e \in logs \/
             /\ e \in Entry /\ e.job = p
             /\ e.kind = "history" => e.id = copy[p].id /\ Stored(e.id)
    BY <1>1, <1>2, <2>2 DEF History, Trash, Entry
  <2> HIDE DEF new
  <2> QED  BY <1>2, <2>1, <2>2, <2>3, <2>4, SaveOutcome
<1>3. CASE ~(req[p].hard \/ Stored(copy[p].id))
  BY <1>3, FailedSaveOutcome DEF MongoRemove
<1> QED  BY <1>2, <1>3

(* Mongo: a restore.                                                       *)
LEMMA MongoRestoreOutcome ==
    ASSUME IInv, NEW p \in Jobs, Alone, req[p].op = "restore", MongoRestore(p)
    PROVE  Outcome(p)
<1>1. TypeOK /\ copy[p].id \in Ids /\ req[p].id \in Ids
  BY RequestsAssumption DEF IInv, TypeOK
<1>2. CASE FindAmong(p, {i \in {req[p].id} : rows[i].is = "deleted"}, "error")
  BY <1>1, <1>2, FindAmongOutcome DEF Stored
<1>3. CASE pc[p] = "write" /\ Stored(copy[p].id)
  <2>1. /\ Marked("live") \in [Ids -> Row]
        /\ Promise!Allowed(req[p], PartsOf(req[p]), rows[copy[p].id], Marked("live")[copy[p].id])
    BY <1>1, <1>3, RestoreAllowed
  <2>2. CASE FindAmong(p, {i \in {req[p].id} : rows[i].is = "deleted"}, "error")
    BY <1>2, <2>2
  <2>3. CASE /\ Write(p, {copy[p].id}, Marked("live")) /\ UNCHANGED copy
             /\ logs' = logs \cup History(p, "restore", copy[p].id) /\ End(p, "ok")
    BY <1>3, <2>1, <2>3, StoredSaveOutcome DEF Leaves, Deletes
  <2> QED  BY <1>3, <2>2, <2>3 DEF MongoRestore
<1>4. CASE pc[p] = "write" /\ ~Stored(copy[p].id)
  BY <1>2, <1>4, FailedSaveOutcome DEF MongoRestore
<1> QED  BY <1>2, <1>3, <1>4 DEF MongoRestore

(* Every operation of MongoService.                                        *)
LEMMA MongoOperationOutcome ==
    ASSUME IInv, NEW p \in Jobs, Alone, backend = "mongo", MongoOperation(p)
    PROVE  Outcome(p)
<1>0. TypeOK /\ req[p].id \in Ids
  BY RequestsAssumption DEF IInv, TypeOK
<1>1. CASE req[p].op = "create" /\ MongoCreate(p)
  BY <1>1, InsertOutcome DEF MongoCreate, Finish, Leaves
<1>2. CASE req[p].op = "createBulk" /\ MongoCreateBulk(p)
  <2>1. CASE /\ \E b \in req[p].recs \ made[p] : Insert(p, b)
             /\ GoTo(p, "write")
    BY <1>2, <2>1, BatchOutcome DEF MongoCreateBulk
  <2>2. CASE made[p] = req[p].recs /\ End(p, "ok") /\ MongoUnchanged(p)
    BY <1>2, <2>2, OkOutcome DEF MongoCreateBulk, MongoUnchanged, Busy, Deletes, PartsOf
  <2> QED  BY <1>2, <2>1, <2>2 DEF MongoCreateBulk
<1>3. CASE req[p].op = "update" /\ MongoUpdate(p)
  <2>1. CASE MongoSave(p)
    BY <1>3, <2>1, MongoSaveOutcome DEF Updates
  <2>2. CASE FindAmong(p, {i \in {req[p].id} : Live(i)}, "error")
    BY <1>0, <1>3, <2>2, FindAmongOutcome DEF Live, Stored
  <2> QED  BY <1>3, <2>1, <2>2 DEF MongoUpdate
<1>4. CASE req[p].op = "findAndUpdate" /\ MongoFindAndUpdate(p)
  <2>1. CASE MongoSave(p)
    BY <1>4, <2>1, MongoSaveOutcome DEF Updates
  <2>2. CASE FindAmong(p, {i \in Ids : Live(i) /\ Is(i, req[p].where)}, "error")
    BY <1>4, <2>2, FindAmongOutcome DEF Live, Stored, Promise!ById
  <2> QED  BY <1>4, <2>1, <2>2 DEF MongoFindAndUpdate
<1>5. CASE req[p].op = "updateBulk" /\ MongoUpdateBulk(p)
  <2> DEFINE ids == {i \in Ids : Is(i, req[p].where)}
             new == Rewritten(req[p].body, Cols)
  <2>1. new \in [Ids -> Row]
        /\ \A i \in Ids : Stored(i) => Promise!Allowed(req[p], PartsOf(req[p]), rows[i], new[i])
    BY <1>0, <1>5, RewrittenAllowed
  <2>2. /\ pc[p] = "write" /\ Write(p, ids, new) /\ End(p, "ok")
        /\ UNCHANGED <<copy, logs>> /\ ids \in SUBSET Ids
    BY <1>5 DEF MongoUpdateBulk
  <2> HIDE DEF ids, new
  <2> QED  BY <1>5, <2>1, <2>2, BulkOutcome
<1>6. CASE req[p].op = "getAll" /\ MongoGetAll(p)
  BY <1>6, FindsOutcome DEF MongoGetAll, Writing, Deletes
<1>7. CASE req[p].op = "countAll" /\ MongoCountAll(p)
  BY <1>7, FindsOutcome DEF MongoCountAll, Writing, Deletes
<1>8. CASE req[p].op = "findById" /\ MongoFindById(p)
  BY <1>0, <1>8, FindsOutcome DEF MongoFindById, Writing, Deletes
<1>9. CASE req[p].op = "findOne" /\ MongoFindOne(p)
  BY <1>9, FindsOutcome DEF MongoFindOne, Writing, Deletes
<1>10. CASE req[p].op = "aggregate" /\ MongoAggregate(p)
  BY <1>10, FindsOutcome DEF MongoAggregate, Writing, Deletes
<1>11. CASE req[p].op = "addSub" /\ MongoAddSubDocument(p)
  <2> DEFINE new == [i \in Ids |-> [rows[i] EXCEPT !.parts = @ \cup {req[p].part}]]
  <2>1. CASE MongoSaveParts(p, new)
    <3>1. new = [i \in Ids |-> [rows[i] EXCEPT !.parts =
                    IF req[p].op = "addSub" THEN @ \cup {req[p].part}
                                            ELSE @ \ {req[p].part}]]
      BY <1>11
    <3> HIDE DEF new
    <3> QED  BY <1>11, <2>1, <3>1, MongoSavePartsOutcome
  <2>2. CASE FindAmong(p, {i \in {req[p].id} : Live(i)}, "error")
    BY <1>0, <1>11, <2>2, FindAmongOutcome DEF Live, Stored
  <2> QED  BY <1>11, <2>1, <2>2 DEF MongoAddSubDocument
<1>12. CASE req[p].op = "removeSub" /\ MongoRemoveSubDocument(p)
  <2> DEFINE new == [i \in Ids |-> [rows[i] EXCEPT !.parts = @ \ {req[p].part}]]
  <2>1. CASE MongoSaveParts(p, new)
    <3>1. new = [i \in Ids |-> [rows[i] EXCEPT !.parts =
                    IF req[p].op = "addSub" THEN @ \cup {req[p].part}
                                            ELSE @ \ {req[p].part}]]
      BY <1>12
    <3> HIDE DEF new
    <3> QED  BY <1>12, <2>1, <3>1, MongoSavePartsOutcome
  <2>2. CASE FindAmong(p, {i \in {req[p].id} : Live(i)}, "error")
    BY <1>0, <1>12, <2>2, FindAmongOutcome DEF Live, Stored
  <2> QED  BY <1>12, <2>1, <2>2 DEF MongoRemoveSubDocument
<1>13. CASE req[p].op = "delete" /\ MongoDelete(p)
  <2>1. CASE MongoRemove(p)
    BY <1>13, <2>1, MongoRemoveOutcome DEF Deletes
  <2>2. CASE FindAmong(p, {i \in {req[p].id} : Live(i) \/ (req[p].hard /\ Stored(i))}, "error")
    BY <1>0, <1>13, <2>2, FindAmongOutcome DEF Live, Stored
  <2> QED  BY <1>13, <2>1, <2>2 DEF MongoDelete
<1>14. CASE req[p].op = "findAndDelete" /\ MongoFindAndDelete(p)
  <2>1. CASE MongoRemove(p)
    BY <1>14, <2>1, MongoRemoveOutcome DEF Deletes
  <2>2. CASE FindAmong(p, {i \in Ids : /\ Live(i) \/ (req[p].hard /\ Stored(i))
                                       /\ Is(i, req[p].where)}, "error")
    BY <1>14, <2>2, FindAmongOutcome DEF Live, Stored, Promise!ById
  <2> QED  BY <1>14, <2>1, <2>2 DEF MongoFindAndDelete
<1>15. CASE req[p].op = "deleteBulk" /\ MongoDeleteBulk(p)
  <2> DEFINE ids == {i \in Ids : Is(i, req[p].where)}
             new == Marked(IF req[p].hard THEN "swept" ELSE "deleted")
  <2>1. new \in [Ids -> Row]
        /\ \A i \in Ids : Stored(i) => Promise!Allowed(req[p], PartsOf(req[p]), rows[i], new[i])
    BY <1>0, <1>15, MarkedAllowed
  <2>2. /\ pc[p] = "write" /\ Write(p, ids, new) /\ End(p, "ok")
        /\ UNCHANGED <<copy, logs>> /\ ids \in SUBSET Ids
    BY <1>15 DEF MongoDeleteBulk
  <2> HIDE DEF ids, new
  <2> QED  BY <1>15, <2>1, <2>2, BulkOutcome
<1>16. CASE req[p].op = "restore" /\ MongoRestore(p)
  BY <1>16, MongoRestoreOutcome
<1>17. CASE req[p].op = "findOrCreate" /\ MongoFindOrCreate(p)
  <2>1. CASE pc[p] = "insert" /\ Insert(p, req[p].body) /\ End(p, "ok")
    BY <1>17, <2>1, InsertOutcome DEF Leaves
  <2>2. CASE pc[p] = "find"
    BY <1>17, <2>2, LookOutcome DEF MongoFindOrCreate, MongoUnchanged
  <2> QED  BY <1>17, <2>1, <2>2 DEF MongoFindOrCreate
<1>18. CASE req[p].op = "createOrUpdate" /\ MongoCreateOrUpdate(p)
  <2>1. CASE FindAmong(p, {i \in Ids : Live(i) /\ Is(i, req[p].where)}, "insert")
    BY <1>18, <2>1, FindAmongOutcome DEF Live, Stored, Promise!ById
  <2>2. CASE pc[p] = "insert" /\ Insert(p, req[p].body) /\ End(p, "ok")
    BY <1>18, <2>2, InsertOutcome DEF Leaves
  <2>3. CASE MongoSave(p)
    BY <1>18, <2>3, MongoSaveOutcome DEF Updates
  <2> QED  BY <1>18, <2>1, <2>2, <2>3 DEF MongoCreateOrUpdate
<1> QED  BY <1>1, <1>2, <1>3, <1>4, <1>5, <1>6, <1>7, <1>8, <1>9, <1>10, <1>11, <1>12,
            <1>13, <1>14, <1>15, <1>16, <1>17, <1>18 DEF MongoOperation

(* Every step of a job in MongoService.                                    *)
LEMMA MongoStepOutcome ==
    ASSUME IInv, NEW p \in Jobs, MongoStep(p)
    PROVE  Outcome(p)
<1>0. Alone /\ backend = "mongo" /\ TypeOK
  BY DEF MongoStep, Alone, IInv
<1>1. CASE MongoOperation(p)
  BY <1>0, <1>1, MongoOperationOutcome
<1>2. CASE MongoValidate(p)
  BY <1>0, <1>2, CheckOutcome DEF MongoValidate, MongoUnchanged
<1>3. CASE MongoAfterHooks(p)
  <2>1. UNCHANGED <<rows, copy, made, logs, shown>> /\ pc[p] = "after" /\ Shows(p)
    BY <1>3 DEF MongoAfterHooks, MongoUnchanged, End, Shows
  <2>2. /\ pc'[p] = "done" /\ pc' = [pc EXCEPT ![p] = pc'[p]] /\ answer'[p] = "ok"
        /\ answer' = [answer EXCEPT ![p] = answer'[p]]
        /\ shown' = [shown EXCEPT ![p] = shown'[p]] /\ shown'[p] \subseteq Ids
    BY <1>0, <1>3 DEF MongoAfterHooks, End, TypeOK
  <2> QED  BY <1>0, <2>1, <2>2, AnswerOutcome
<1> QED  BY <1>1, <1>2, <1>3 DEF MongoStep

(* A failing call, and a crash in the middle of a request.                 *)
LEMMA FaultOutcome ==
    ASSUME IInv, NEW p \in Jobs, CallFails(p) \/ (Crash(p) /\ pc[p] # "done")
    PROVE  Outcome(p)
<1>1. TypeOK /\ MadeInv /\ Local(p)
  BY DEF IInv, LocalInv
<1>2. faults' \in 0..MaxFaults
  BY <1>1, RecordsAssumption DEF CallFails, Crash, TypeOK
<1>3. CASE CallFails(p)
  <2>1. UNCHANGED <<backend, rows, req, copy, made, before, kept>>
        /\ logs' \subseteq logs /\ Busy(p) /\ End(p, "error")
    BY <1>3 DEF CallFails, Busy
  <2> QED  BY <1>2, <2>1, ErrorOutcome
<1>4. CASE Crash(p) /\ pc[p] # "done"
  <2>1. Effect(p)
    BY <1>1, <1>4, NoEffect DEF Crash
  <2>2. Frame(p)
    BY <1>1, <1>2, <1>4 DEF Frame, Crash, TypeOK, PCs
  <2>3. Local(p)'
    <3>1. pc'[p] = "done" /\ answer'[p] = "none"
      BY <1>1, <1>4 DEF Crash, TypeOK, Local, AnswerOK
    <3>2. ~Unwritten(p)' /\ ~Found(p)' /\ ~Succeeding(p)'
      BY <3>1 DEF Unwritten, Found, Succeeding
    <3>3. ByIdOK(p)' /\ AnswerOK(p)'
      BY <1>1, <1>4, <3>1 DEF Local, ByIdOK, AnswerOK, Crash
    <3> QED  BY <3>2, <3>3 DEF Local, FreshOK, FoundOK, ActedOK, DeletedOK
  <2>4. Logged(p) /\ Shows(p)
    BY <1>4 DEF Logged, Shows, Crash
  <2> QED  BY <2>1, <2>2, <2>3, <2>4 DEF Outcome
<1> QED  BY <1>3, <1>4

-----------------------------------------------------------------------------
(* The beginning of a request.                                             *)
LEMMA BeginKeeps ==
    ASSUME IInv, NEW p \in Jobs, Begin(p)
    PROVE  IInv'
<1>1. TypeOK /\ Local(p) /\ pc[p] = "idle" /\ BeforeInv /\ MadeInv
  BY DEF IInv, LocalInv, Begin
<1>2. UNCHANGED <<backend, rows, req, copy, made, answer, shown, logs, kept, faults>>
  BY DEF Begin, GoTo
<1>3. /\ pc'[p] \in {"check", "find", "write"} /\ pc' = [pc EXCEPT ![p] = pc'[p]]
      /\ pc'[p] = "write" => req[p].op \in {"create", "createBulk", "updateBulk", "deleteBulk"}
  BY <1>1 DEF Begin, GoTo, TypeOK
<1>4. before' = [before EXCEPT ![p] = {q \in Jobs : pc[q] = "done"}]
  BY DEF Begin
<1>5. TypeOK'
  BY <1>1, <1>2, <1>3, <1>4 DEF TypeOK, PartsOf
<1>6. answer[p] = "none" /\ shown[p] = {} /\ made[p] = {}
  BY <1>1 DEF Local, AnswerOK, FreshOK, Unwritten, TypeOK
<1>7. \A q \in Jobs \ {p} : pc'[q] = pc[q] /\ before'[q] = before[q]
  BY <1>1, <1>3, <1>4 DEF TypeOK
<1>8. LocalInv'
  <2> SUFFICES ASSUME NEW q \in Jobs PROVE Local(q)'
    BY DEF LocalInv
  <2>1. CASE q = p
    <3>1. ~Succeeding(p)' /\ ~Found(p)'
      BY <1>2, <1>3, <1>6 DEF Succeeding, Found
    <3>2. FreshOK(p)' /\ AnswerOK(p)' /\ ByIdOK(p)'
      BY <1>1, <1>2, <1>3, <1>6 DEF FreshOK, AnswerOK, ByIdOK, Local
    <3> QED  BY <2>1, <3>1, <3>2 DEF Local, FoundOK, ActedOK, DeletedOK
  <2>2. CASE q # p
    <3>1. Local(q)
      BY DEF IInv, LocalInv
    <3> QED  BY <1>2, <1>7, <2>2, <3>1
             DEF Local, FreshOK, Unwritten, AnswerOK, ByIdOK, FoundOK, Found, ActedOK,
                 DeletedOK, Succeeding, RestoredBefore, Gone, Live, PartsOf
  <2> QED  BY <2>1, <2>2
<1>9. BeforeInv'
  BY <1>1, <1>3, <1>4, <1>7 DEF BeforeInv, TypeOK
<1>10. HistoryInv' /\ MadeInv'
  BY <1>1, <1>2 DEF IInv, HistoryInv, MadeInv, Gone
<1>11. HiddenOnceDeleted'
  <2> SUFFICES ASSUME NEW d \in Jobs, NEW q \in Jobs, answer'[d] = "ok",
                      req'[d].op \in Deletes, d \in before'[q], copy'[d].id \in shown'[q]
               PROVE  \E r \in Jobs : req'[r].op = "restore" /\ r \notin before'[d]
    BY DEF HiddenOnceDeleted
  <2>1. d # p /\ q # p
    BY <1>2, <1>6
  <2>2. answer[d] = "ok" /\ req[d].op \in Deletes /\ d \in before[q]
        /\ copy[d].id \in shown[q]
    BY <1>2, <1>7, <2>1
  <2> QED  BY <1>2, <1>7, <2>1, <2>2 DEF IInv, HiddenOnceDeleted
<1> QED  BY <1>5, <1>8, <1>9, <1>10, <1>11 DEF IInv

(* What happens to the entries alone.                                      *)
LEMMA EntriesKeep ==
    ASSUME IInv, UNCHANGED <<backend, rows, req, pc, copy, made, answer, shown, before>>,
           (logs \cup kept)' \subseteq logs \cup kept, faults' \in 0..MaxFaults
    PROVE  IInv'
<1>1. TypeOK'
  <2>1. (logs' \subseteq Entry) /\ (kept' \subseteq Entry)
    BY DEF IInv, TypeOK
  <2> QED  BY <2>1 DEF IInv, TypeOK, PartsOf
<1>2. LocalInv'
  BY DEF IInv, LocalInv, Local, FreshOK, Unwritten, AnswerOK, ByIdOK, FoundOK, Found,
         ActedOK, DeletedOK, Succeeding, RestoredBefore, Gone, Live, PartsOf
<1>3. HistoryInv'
  BY DEF IInv, HistoryInv, Gone
<1>4. BeforeInv' /\ MadeInv' /\ HiddenOnceDeleted'
  BY DEF IInv, BeforeInv, MadeInv, HiddenOnceDeleted
<1> QED  BY <1>1, <1>2, <1>3, <1>4 DEF IInv

-----------------------------------------------------------------------------
(* The invariant holds in the beginning: nothing is called yet.            *)
LEMMA InitIInv == Init => IInv
<1> SUFFICES ASSUME Init PROVE IInv
  OBVIOUS
<1>1. TypeOK
  <2>1. \A p \in Jobs : req[p] \in Requests /\ req[p].id \in Ids
    BY RequestsAssumption DEF Init
  <2>2. rows \in [Ids -> Row]
    BY TablesAssumption DEF Init
  <2> QED  BY <2>1, <2>2, RecordsAssumption DEF Init, TypeOK
<1>2. LocalInv
  BY DEF Init, LocalInv, Local, FreshOK, AnswerOK, ByIdOK, FoundOK, Found, ActedOK,
         DeletedOK, Succeeding
<1>3. MadeInv /\ BeforeInv /\ HistoryInv /\ HiddenOnceDeleted
  BY DEF Init, MadeInv, BeforeInv, HistoryInv, HiddenOnceDeleted
<1> QED  BY <1>1, <1>2, <1>3 DEF IInv

(* Every step keeps it.                                                    *)
LEMMA NextIInv == IInv /\ [Next]_vars => IInv'
<1> SUFFICES ASSUME IInv, [Next]_vars PROVE IInv'
  OBVIOUS
<1>0. faults \in 0..MaxFaults
  BY DEF IInv, TypeOK
<1>1. ASSUME NEW p \in Jobs, Begin(p) PROVE IInv'
  BY <1>1, BeginKeeps
<1>2. ASSUME NEW p \in Jobs, SqlStep(p) PROVE IInv'
  BY <1>2, SqlStepOutcome, OutcomeKeeps
<1>3. ASSUME NEW p \in Jobs, MongoStep(p) PROVE IInv'
  BY <1>3, MongoStepOutcome, OutcomeKeeps
<1>4. ASSUME NEW p \in Jobs, CallFails(p) PROVE IInv'
  BY <1>4, FaultOutcome, OutcomeKeeps
<1>5. ASSUME NEW p \in Jobs, Crash(p) PROVE IInv'
  <2>1. CASE pc[p] = "done"
    <3>1. UNCHANGED <<backend, rows, req, pc, copy, made, answer, shown, before>>
          /\ (logs \cup kept)' \subseteq logs \cup kept
      BY <1>5, <2>1 DEF Crash, IInv, TypeOK
    <3>2. faults' \in 0..MaxFaults
      BY <1>0, <1>5, RecordsAssumption DEF Crash
    <3> QED  BY <3>1, <3>2, EntriesKeep
  <2>2. CASE pc[p] # "done"
    BY <1>5, <2>2, FaultOutcome, OutcomeKeeps
  <2> QED  BY <2>1, <2>2
<1>6. CASE LogWritten \/ LogFails \/ DeleteExpiredHistory \/ DeleteExpiredTrash
  <2>1. UNCHANGED <<backend, rows, req, pc, copy, made, answer, shown, before>>
        /\ (logs \cup kept)' \subseteq logs \cup kept
    BY <1>6 DEF LogWritten, LogFails, DeleteExpiredHistory, DeleteExpiredTrash, DeleteExpired
  <2>2. faults' \in 0..MaxFaults
    BY <1>0, <1>6, RecordsAssumption
       DEF LogWritten, LogFails, DeleteExpiredHistory, DeleteExpiredTrash, DeleteExpired
  <2> QED  BY <2>1, <2>2, EntriesKeep
<1>7. CASE UNCHANGED vars
  <2>1. UNCHANGED <<backend, rows, req, pc, copy, made, answer, shown, before>>
        /\ (logs \cup kept)' \subseteq logs \cup kept /\ faults' \in 0..MaxFaults
    BY <1>0, <1>7 DEF vars
  <2> QED  BY <2>1, EntriesKeep
<1> QED  BY <1>1, <1>2, <1>3, <1>4, <1>5, <1>6, <1>7 DEF Next

(* The inductive invariant of both services.                               *)
THEOREM Invariant == Spec => []IInv
<1> QED  BY InitIInv, NextIInv, PTL DEF Spec

(* Every variable keeps its type, whatever the jobs ask.                   *)
THEOREM TypeCorrect == Spec => []TypeOK
<1>1. IInv => TypeOK
  BY DEF IInv
<1> QED  BY <1>1, Invariant, PTL

(* An answer without error means that the request took effect, but for a   *)
(* row that was removed meanwhile.                                         *)
THEOREM AnswersCorrect == Spec => []AnswersHonest
<1>1. ASSUME IInv PROVE AnswersHonest
  <2> SUFFICES ASSUME NEW p \in Jobs, answer[p] = "ok", req[p].op \in Writing
               PROVE  \/ made[p] = PartsOf(req[p])
                      \/ ~Stored(copy[p].id) /\ (backend = "sql" \/ req[p].hard)
    BY DEF AnswersHonest
  <2>1. ActedOK(p) /\ Succeeding(p)
    BY <1>1 DEF IInv, LocalInv, Local, Succeeding
  <2> QED  BY <2>1 DEF ActedOK, Gone, Stored
<1> QED  BY <1>1, Invariant, PTL

(* An entry of the history tells of a change that was made, but for the    *)
(* two entries that SQL writes too early.                                  *)
THEOREM HistoryCorrect == Spec => []HistoryHonest
<1>1. ASSUME IInv PROVE HistoryHonest
  BY <1>1 DEF IInv, HistoryInv, HistoryHonest, Gone, Stored
<1> QED  BY <1>1, Invariant, PTL

(* A deleted record is not shown to later requests, unless one that had    *)
(* not ended before the delete began restores it.                          *)
THEOREM HiddenCorrect == Spec => []HiddenOnceDeleted
<1>1. IInv => HiddenOnceDeleted
  BY DEF IInv
<1> QED  BY <1>1, Invariant, PTL

-----------------------------------------------------------------------------
(* A step with an outcome is an effect that Store allows, alone or with    *)
(* the answer.                                                             *)
LEMMA OutcomeImplements ==
    ASSUME IInv, NEW p \in Jobs, Outcome(p)
    PROVE  Promise!Next
<1> DEFINE open == [q \in Jobs |-> pc[q] \notin {"idle", "done"}]
<1>1. open' \in {open, [open EXCEPT ![p] = FALSE]}
  <2>1. pc' = [pc EXCEPT ![p] = pc'[p]] /\ pc'[p] # "idle" /\ open[p]
    BY DEF Outcome, Frame
  <2>2. pc \in [Jobs -> PCs]
    BY DEF IInv, TypeOK, PCs
  <2>3. CASE pc'[p] = "done"
    <3>1. open' = [open EXCEPT ![p] = FALSE]
      BY <2>1, <2>2, <2>3
    <3> QED  BY <3>1
  <2>4. CASE pc'[p] # "done"
    <3>1. open' = open
      BY <2>1, <2>2, <2>4
    <3> QED  BY <3>1
  <2> QED  BY <2>3, <2>4
<1>2. \E parts \in SUBSET Promise!PartsOf(req[p]) : Promise!Apply(p, parts)
  BY DEF Outcome, Effect, PartsOf, Promise!PartsOf
<1> QED  BY <1>1, <1>2 DEF Promise!Next

(* So is the beginning of a request, and the rest does not concern it.     *)
LEMMA StepImplements ==
    IInv /\ [Next]_vars => [Promise!Next]_(Promise!sVars)
<1> SUFFICES ASSUME IInv, [Next]_vars PROVE [Promise!Next]_(Promise!sVars)
  OBVIOUS
<1> DEFINE open == [q \in Jobs |-> pc[q] \notin {"idle", "done"}]
<1>1. ASSUME NEW p \in Jobs, Begin(p) PROVE Promise!Next
  <2>1. pc \in [Jobs -> PCs]
    BY DEF IInv, TypeOK, PCs
  <2>2. ~open[p] /\ open' = [open EXCEPT ![p] = TRUE]
    BY <1>1, <2>1 DEF Begin, GoTo
  <2>3. Promise!Begin(p)
    BY <1>1, <2>2 DEF Promise!Begin, Begin
  <2> QED  BY <2>3 DEF Promise!Next
<1>2. ASSUME NEW p \in Jobs, SqlStep(p) PROVE Promise!Next
  BY <1>2, SqlStepOutcome, OutcomeImplements
<1>3. ASSUME NEW p \in Jobs, MongoStep(p) PROVE Promise!Next
  BY <1>3, MongoStepOutcome, OutcomeImplements
<1>4. ASSUME NEW p \in Jobs, CallFails(p) PROVE Promise!Next
  BY <1>4, FaultOutcome, OutcomeImplements
<1>5. ASSUME NEW p \in Jobs, Crash(p), pc[p] # "done" PROVE Promise!Next
  BY <1>5, FaultOutcome, OutcomeImplements
<1>6. ASSUME UNCHANGED <<rows, req, pc, made>> PROVE UNCHANGED Promise!sVars
  BY <1>6 DEF Promise!sVars
<1>7. ASSUME NEW p \in Jobs, Crash(p), pc[p] = "done"
      PROVE  UNCHANGED <<rows, req, pc, made>>
  BY <1>7 DEF Crash, IInv, TypeOK
<1>8. CASE LogWritten \/ LogFails \/ DeleteExpiredHistory \/ DeleteExpiredTrash
           \/ UNCHANGED vars
  <2>1. UNCHANGED <<rows, req, pc, made>>
    BY <1>8 DEF LogWritten, LogFails, DeleteExpiredHistory, DeleteExpiredTrash,
                DeleteExpired, vars
  <2> QED  BY <1>6, <2>1
<1> QED  BY <1>1, <1>2, <1>3, <1>4, <1>5, <1>6, <1>7, <1>8 DEF Next

(* SqlService and MongoService implement the promise of Store: each part   *)
(* of a request takes effect at most once, between its call and its        *)
(* answer, and on the rows and columns it names only.                      *)
THEOREM Implements == Spec => ImplementsStore
<1>1. Init => Promise!Init
  <2> SUFFICES ASSUME Init PROVE Promise!Init
    OBVIOUS
  <2>1. [p \in Jobs |-> pc[p] \notin {"idle", "done"}] = [p \in Jobs |-> FALSE]
    BY DEF Init
  <2>2. \A i \in Ids : rows[i].is \in {"free", "live", "deleted"}
    BY TablesAssumption DEF Init
  <2>3. req \in [Jobs -> Requests]
    BY DEF Init
  <2> QED  BY <2>1, <2>2, <2>3 DEF Init, Promise!Init
<1> QED  BY <1>1, Invariant, StepImplements, PTL DEF Spec, ImplementsStore, Promise!Spec

-----------------------------------------------------------------------------
(* Uniqueness: a request that looks first, and finds no live row with its  *)
(* value but its own, stays right about it unless an overlapping request   *)
(* takes effect.                                                           *)
Excused ==
    \/ \E p \in Jobs : made[p] # {} /\ ~Looks(req[p])
    \/ \E p, q \in Jobs : Overlap(p, q) /\ made[p] # {} /\ made[q] # {}

Sought(p) == req[p].body[Key]
Same(p) == {i \in Ids : Live(i) /\ Is(i, Sought(p))}

(* It has looked.                                                          *)
Armed(p) == pc[p] \in {"insert", "write"} \/ (pc[p] = "find" /\ req[p].checked)

Own(p) == IF req[p].op = "update" THEN {req[p].id}
          ELSE IF req[p].op = "createOrUpdate" /\ pc[p] = "write" THEN {copy[p].id}
          ELSE {}

SeenOK(p) ==
    Looks(req[p]) /\ Armed(p) /\ ~(Same(p) \subseteq Own(p)) =>
        Excused \/ \E q \in Jobs : q # p /\ made[q] # {} /\ q \notin before[p]
SeenInv == \A p \in Jobs : SeenOK(p)

UniqueInv == SeenInv /\ UniqueButForRaces

(* A request changes a row after it has looked, only its own if it has one,*)
(* and it looks at the table as it is.                                     *)
Sight(p) ==
    /\ rows' # rows => Armed(p)
    /\ Own(p) # {} => \A i \in Ids \ Own(p) : rows'[i] = rows[i]
    /\ Armed(p)' =>
          /\ rows' = rows
          /\ \/ Same(p) \subseteq Own(p)'
             \/ Armed(p) /\ Own(p)' = Own(p)
             \/ \E i \in Same(p) : Own(p)' = {i}

(* SQL: what a request that looks does in a step.                          *)
LEMMA SqlSight ==
    ASSUME IInv, NEW p \in Jobs, SqlStep(p), Looks(req[p])
    PROVE  Sight(p)
<1>0. TypeOK /\ req' = req /\ ByIdOK(p) /\ req[p] \in Requests
  BY DEF IInv, LocalInv, Local, TypeOK, SqlStep
<1>1. CASE SqlValidate(p)
  <2>1. req[p].checked => req[p].op \in {"create", "update"}
    BY <1>0, RequestsAssumption
  <2>2. rows' = rows /\ copy' = copy /\ pc[p] = "check"
    BY <1>1 DEF SqlValidate, SqlUnchanged
  <2>3. Armed(p)' => Same(p) \subseteq IF req[p].op = "update" THEN {req[p].id} ELSE {}
    BY <1>0, <1>1 DEF SqlValidate, Armed, Same, Sought, End, TypeOK
  <2>4. Armed(p)' => (req[p].op = "createOrUpdate" => pc'[p] # "write")
    BY <1>0, <1>1 DEF SqlValidate, AfterCheck, GoTo, End, Armed, TypeOK
  <2>5. Armed(p)' => Same(p) \subseteq Own(p)'
    BY <1>0, <2>3, <2>4 DEF Own
  <2> QED  BY <2>2, <2>5 DEF Sight
<1>2. CASE SqlReread(p) \/ SqlAfterHooks(p)
  <2>1. rows' = rows /\ pc'[p] \in {"after", "done"}
    BY <1>0, <1>2 DEF SqlReread, SqlAfterHooks, SqlUnchanged, End, TypeOK
  <2> QED  BY <2>1 DEF Sight, Armed
<1>3. CASE req[p].op = "create" /\ SqlCreate(p)
  <2>1. pc[p] = "write" /\ pc'[p] = "reread" /\ Own(p) = {}
    BY <1>0, <1>3 DEF SqlCreate, SqlInsert, GoTo, TypeOK, Own
  <2> QED  BY <2>1 DEF Sight, Armed
<1>4. CASE req[p].op = "update" /\ SqlUpdate(p)
  <2>1. copy[p].id = req[p].id /\ req[p].checked /\ Own(p) = {req[p].id} /\ Own(p)' = Own(p)
    BY <1>0, <1>4 DEF ByIdOK, Promise!ById, Own, Looks
  <2>2. CASE SqlSave(p) /\ GoTo(p, "reread")
    <3>1. pc[p] = "write" /\ pc'[p] = "reread"
      BY <1>0, <2>2 DEF SqlSave, GoTo, TypeOK
    <3>2. \A i \in Ids \ {req[p].id} : rows'[i] = rows[i]
      BY <2>1, <2>2 DEF SqlSave, Write
    <3> QED  BY <2>1, <3>1, <3>2 DEF Sight, Armed
  <2>3. CASE FindAmong(p, {i \in {req[p].id} : Live(i)}, "error")
    <3>1. pc[p] = "find" /\ rows' = rows
      BY <2>3 DEF FindAmong
    <3> QED  BY <2>1, <3>1 DEF Sight, Armed
  <2> QED  BY <1>4, <2>2, <2>3 DEF SqlUpdate
<1>5. CASE req[p].op = "findOrCreate" /\ SqlFindOrCreate(p)
  <2>1. Own(p) = {} /\ Own(p)' = {} /\ ~req[p].checked /\ req[p].where = Sought(p)
    BY <1>0, <1>5, RequestsAssumption DEF Own, Looks, Sought
  <2>2. CASE pc[p] = "insert" /\ SqlInsert(p, "reread")
    <3>1. pc'[p] = "reread"
      BY <1>0, <2>2 DEF SqlInsert, GoTo, TypeOK
    <3> QED  BY <2>1, <2>2, <3>1 DEF Sight, Armed
  <2>3. CASE pc[p] = "find"
    <3>1. rows' = rows /\ (pc'[p] = "done" \/ Same(p) = {})
      BY <1>0, <1>5, <2>1, <2>3 DEF SqlFindOrCreate, SqlUnchanged, Same, End, TypeOK
    <3> QED  BY <2>1, <3>1 DEF Sight, Armed
  <2> QED  BY <1>5, <2>2, <2>3 DEF SqlFindOrCreate
<1>6. CASE req[p].op = "createOrUpdate" /\ SqlCreateOrUpdate(p)
  <2>1. ~req[p].checked /\ req[p].where = Sought(p)
    BY <1>0, <1>6, RequestsAssumption DEF Looks, Sought
  <2>2. CASE FindAmong(p, {i \in Ids : Live(i) /\ Is(i, req[p].where)}, "insert")
    <3>1. pc[p] = "find" /\ rows' = rows /\ Own(p) = {}
      BY <1>6, <2>2 DEF FindAmong, Own
    <3>2. CASE \E i \in Same(p) : copy' = [copy EXCEPT ![p] = [id |-> i, row |-> rows[i]]]
                                 /\ GoTo(p, "write")
      <4>1. PICK i \in Same(p) : copy' = [copy EXCEPT ![p] = [id |-> i, row |-> rows[i]]]
                               /\ GoTo(p, "write")
        BY <3>2
      <4>2. Own(p)' = {i}
        BY <1>0, <1>6, <4>1 DEF Own, GoTo, TypeOK
      <4> QED  BY <3>1, <4>1, <4>2 DEF Sight
    <3>3. CASE Same(p) = {}
      BY <3>1, <3>3 DEF Sight
    <3> QED  BY <2>1, <2>2, <3>2, <3>3 DEF FindAmong, Same
  <2>3. CASE pc[p] = "insert" /\ Insert(p, req[p].body) /\ End(p, "ok")
    <3>1. pc'[p] = "done" /\ Own(p) = {}
      BY <1>0, <1>6, <2>3 DEF End, TypeOK, Own
    <3> QED  BY <2>3, <3>1 DEF Sight, Armed
  <2>4. CASE SqlSave(p) /\ End(p, "ok")
    <3>1. pc[p] = "write" /\ pc'[p] = "done" /\ Own(p) = {copy[p].id}
      BY <1>0, <1>6, <2>4 DEF SqlSave, End, TypeOK, Own
    <3>2. \A i \in Ids \ {copy[p].id} : rows'[i] = rows[i]
      BY <2>4 DEF SqlSave, Write
    <3> QED  BY <3>1, <3>2 DEF Sight, Armed
  <2> QED  BY <1>6, <2>2, <2>3, <2>4 DEF SqlCreateOrUpdate
<1>7. req[p].op \in {"create", "update", "findOrCreate", "createOrUpdate"}
  BY <1>0, RequestsAssumption DEF Looks
<1>8. SqlOperation(p) =>
         \/ req[p].op = "create" /\ SqlCreate(p)
         \/ req[p].op = "update" /\ SqlUpdate(p)
         \/ req[p].op = "findOrCreate" /\ SqlFindOrCreate(p)
         \/ req[p].op = "createOrUpdate" /\ SqlCreateOrUpdate(p)
  BY <1>7 DEF SqlOperation
<1> QED  BY <1>1, <1>2, <1>3, <1>4, <1>5, <1>6, <1>8 DEF SqlStep

(* Mongo: the same.                                                        *)
LEMMA MongoSight ==
    ASSUME IInv, NEW p \in Jobs, MongoStep(p), Looks(req[p])
    PROVE  Sight(p)
<1>0. TypeOK /\ req' = req /\ ByIdOK(p) /\ req[p] \in Requests
  BY DEF IInv, LocalInv, Local, TypeOK, MongoStep
<1>1. CASE MongoValidate(p)
  <2>1. req[p].checked => req[p].op \in {"create", "update"}
    BY <1>0, RequestsAssumption
  <2>2. rows' = rows /\ copy' = copy /\ pc[p] = "check"
    BY <1>1 DEF MongoValidate, MongoUnchanged
  <2>3. Armed(p)' => Same(p) \subseteq IF req[p].op = "update" THEN {req[p].id} ELSE {}
    BY <1>0, <1>1 DEF MongoValidate, Armed, Same, Sought, End, TypeOK
  <2>4. Armed(p)' => (req[p].op = "createOrUpdate" => pc'[p] # "write")
    BY <1>0, <1>1 DEF MongoValidate, AfterCheck, GoTo, End, Armed, TypeOK
  <2>5. Armed(p)' => Same(p) \subseteq Own(p)'
    BY <1>0, <2>3, <2>4 DEF Own
  <2> QED  BY <2>2, <2>5 DEF Sight
<1>2. CASE MongoAfterHooks(p)
  <2>1. rows' = rows /\ pc'[p] \in {"after", "done"}
    BY <1>0, <1>2 DEF MongoAfterHooks, MongoUnchanged, End, TypeOK
  <2> QED  BY <2>1 DEF Sight, Armed
<1>3. CASE req[p].op = "create" /\ MongoCreate(p)
  <2>1. pc[p] = "write" /\ pc'[p] \in {"after", "done"} /\ Own(p) = {}
    BY <1>0, <1>3 DEF MongoCreate, Finish, GoTo, End, TypeOK, Own
  <2> QED  BY <2>1 DEF Sight, Armed
<1>10. ASSUME MongoSave(p)
       PROVE  /\ pc[p] = "write" /\ pc'[p] \in {"after", "done"}
              /\ \A i \in Ids \ {copy[p].id} : rows'[i] = rows[i]
  <2>1. pc[p] = "write"
    BY <1>10 DEF MongoSave
  <2>2. CASE Stored(copy[p].id)
    <3>1. Write(p, {copy[p].id}, Rewritten(req[p].body, Cols)) /\ Finish(p, "ok")
      BY <1>10, <2>2 DEF MongoSave
    <3>2. pc'[p] \in {"after", "done"}
      BY <1>0, <3>1 DEF Finish, GoTo, End, TypeOK
    <3>3. \A i \in Ids \ {copy[p].id} : rows'[i] = rows[i]
      BY <3>1 DEF Write
    <3> QED  BY <2>1, <3>2, <3>3
  <2>3. CASE ~Stored(copy[p].id)
    <3>1. End(p, "error") /\ rows' = rows
      BY <1>10, <2>3 DEF MongoSave, MongoUnchanged
    <3>2. pc'[p] = "done"
      BY <1>0, <3>1 DEF End, TypeOK
    <3> QED  BY <2>1, <3>1, <3>2
  <2> QED  BY <2>2, <2>3
<1>4. CASE req[p].op = "update" /\ MongoUpdate(p)
  <2>1. copy[p].id = req[p].id /\ req[p].checked /\ Own(p) = {req[p].id} /\ Own(p)' = Own(p)
    BY <1>0, <1>4 DEF ByIdOK, Promise!ById, Own, Looks
  <2>2. CASE MongoSave(p)
    BY <1>10, <2>1, <2>2 DEF Sight, Armed
  <2>3. CASE FindAmong(p, {i \in {req[p].id} : Live(i)}, "error")
    <3>1. pc[p] = "find" /\ rows' = rows
      BY <2>3 DEF FindAmong
    <3> QED  BY <2>1, <3>1 DEF Sight, Armed
  <2> QED  BY <1>4, <2>2, <2>3 DEF MongoUpdate
<1>5. CASE req[p].op = "findOrCreate" /\ MongoFindOrCreate(p)
  <2>1. Own(p) = {} /\ Own(p)' = {} /\ ~req[p].checked /\ req[p].where = Sought(p)
    BY <1>0, <1>5, RequestsAssumption DEF Own, Looks, Sought
  <2>2. CASE pc[p] = "insert" /\ Insert(p, req[p].body) /\ End(p, "ok")
    <3>1. pc'[p] = "done"
      BY <1>0, <2>2 DEF End, TypeOK
    <3> QED  BY <2>1, <2>2, <3>1 DEF Sight, Armed
  <2>3. CASE pc[p] = "find"
    <3>1. rows' = rows /\ (pc'[p] = "done" \/ Same(p) = {})
      BY <1>0, <1>5, <2>1, <2>3 DEF MongoFindOrCreate, MongoUnchanged, Same, End, TypeOK
    <3> QED  BY <2>1, <3>1 DEF Sight, Armed
  <2> QED  BY <1>5, <2>2, <2>3 DEF MongoFindOrCreate
<1>6. CASE req[p].op = "createOrUpdate" /\ MongoCreateOrUpdate(p)
  <2>1. ~req[p].checked /\ req[p].where = Sought(p)
    BY <1>0, <1>6, RequestsAssumption DEF Looks, Sought
  <2>2. CASE FindAmong(p, {i \in Ids : Live(i) /\ Is(i, req[p].where)}, "insert")
    <3>1. pc[p] = "find" /\ rows' = rows /\ Own(p) = {}
      BY <1>6, <2>2 DEF FindAmong, Own
    <3>2. CASE \E i \in Same(p) : copy' = [copy EXCEPT ![p] = [id |-> i, row |-> rows[i]]]
                                 /\ GoTo(p, "write")
      <4>1. PICK i \in Same(p) : copy' = [copy EXCEPT ![p] = [id |-> i, row |-> rows[i]]]
                               /\ GoTo(p, "write")
        BY <3>2
      <4>2. Own(p)' = {i}
        BY <1>0, <1>6, <4>1 DEF Own, GoTo, TypeOK
      <4> QED  BY <3>1, <4>1, <4>2 DEF Sight
    <3>3. CASE Same(p) = {}
      BY <3>1, <3>3 DEF Sight
    <3> QED  BY <2>1, <2>2, <3>2, <3>3 DEF FindAmong, Same
  <2>3. CASE pc[p] = "insert" /\ Insert(p, req[p].body) /\ End(p, "ok")
    <3>1. pc'[p] = "done" /\ Own(p) = {}
      BY <1>0, <1>6, <2>3 DEF End, TypeOK, Own
    <3> QED  BY <2>3, <3>1 DEF Sight, Armed
  <2>4. CASE MongoSave(p)
    <3>1. Own(p) = {copy[p].id}
      BY <1>6, <1>10, <2>4 DEF Own
    <3> QED  BY <1>10, <2>4, <3>1 DEF Sight, Armed
  <2> QED  BY <1>6, <2>2, <2>3, <2>4 DEF MongoCreateOrUpdate
<1>7. req[p].op \in {"create", "update", "findOrCreate", "createOrUpdate"}
  BY <1>0, RequestsAssumption DEF Looks
<1>8. MongoOperation(p) =>
         \/ req[p].op = "create" /\ MongoCreate(p)
         \/ req[p].op = "update" /\ MongoUpdate(p)
         \/ req[p].op = "findOrCreate" /\ MongoFindOrCreate(p)
         \/ req[p].op = "createOrUpdate" /\ MongoCreateOrUpdate(p)
  BY <1>7 DEF MongoOperation
<1> QED  BY <1>1, <1>2, <1>3, <1>4, <1>5, <1>6, <1>8 DEF MongoStep

(* A fault looks at nothing and changes nothing.                           *)
LEMMA FaultSight ==
    ASSUME IInv, NEW p \in Jobs, CallFails(p) \/ Crash(p)
    PROVE  Sight(p)
<1>1. rows' = rows /\ pc'[p] = "done"
  BY DEF CallFails, Crash, End, IInv, TypeOK
<1> QED  BY <1>1 DEF Sight, Armed

(* The effect of a request that looks: a live row had its value before, or *)
(* has the one the request looked for.                                     *)
LEMMA LookingEffect ==
    ASSUME IInv, NEW p \in Jobs, Outcome(p), Looks(req[p]), NEW i \in Ids, Live(i)'
    PROVE  \/ Live(i) /\ rows'[i].cols[Key] = rows[i].cols[Key]
           \/ rows'[i] # rows[i] /\ rows'[i].cols[Key] = Sought(p)
<1>1. PICK parts \in SUBSET PartsOf(req[p]) : Promise!Apply(p, parts)
  BY DEF Outcome, Effect
<1>2. req[p].op \in {"create", "update", "findOrCreate", "createOrUpdate"}
  BY RequestsAssumption DEF Looks, IInv, TypeOK
<1>3. CASE rows'[i] = rows[i]
  BY <1>3 DEF Live
<1>4. CASE rows'[i] # rows[i]
  <2>1. Promise!Allowed(req[p], parts, rows[i], rows'[i])
    BY <1>1, <1>4 DEF Promise!Apply
  <2>2. parts \subseteq {req[p].body} /\ Key \in Cols
    BY <1>2, RecordsAssumption DEF PartsOf
  <2>3. \/ Promise!Inserted(rows[i], rows'[i], req[p].body)
        \/ Promise!Changed(rows[i], rows'[i], req[p].body)
    BY <1>2, <2>1, <2>2 DEF Promise!Allowed
  <2>4. CASE Promise!Inserted(rows[i], rows'[i], req[p].body)
    BY <1>4, <2>4 DEF Promise!Inserted, Sought
  <2>5. CASE Promise!Changed(rows[i], rows'[i], req[p].body)
    BY <1>4, <2>2, <2>5 DEF Promise!Changed, Sought, Live
  <2> QED  BY <2>3, <2>4, <2>5
<1> QED  BY <1>3, <1>4

(* It changes one row at most.                                             *)
LEMMA LookingTouchesOne ==
    ASSUME IInv, NEW p \in Jobs, Outcome(p), Looks(req[p]), NEW i \in Ids, NEW j \in Ids,
           rows'[i] # rows[i], rows'[j] # rows[j]
    PROVE  i = j
<1>1. PICK parts \in SUBSET PartsOf(req[p]) : Promise!Apply(p, parts)
  BY DEF Outcome, Effect
<1>2. req[p].op \notin Promise!InBulk
  BY RequestsAssumption DEF Looks, IInv, TypeOK, Promise!InBulk
<1> QED  BY <1>1, <1>2 DEF Promise!Apply

(* What excuses two rows with one value stays.                             *)
LEMMA ExcusedStays ==
    ASSUME IInv, NEW p \in Jobs, Outcome(p), Excused
    PROVE  Excused'
<1>1. \A q \in Jobs : made[q] # {} => made'[q] # {}
  <2>1. \A q \in Jobs : q # p => made'[q] = made[q]
    BY EffectOnMade DEF IInv, Outcome
  <2>2. made[p] \subseteq made'[p]
    BY EffectOnMade DEF IInv, Outcome
  <2> QED  BY <2>1, <2>2
<1>2. req' = req /\ before' = before
  BY DEF Outcome, Frame
<1> QED  BY <1>1, <1>2 DEF Excused, Overlap

(* A step of a job keeps uniqueness.                                       *)
LEMMA OutcomeUnique ==
    ASSUME IInv, UniqueInv, NEW p \in Jobs, Outcome(p), Looks(req[p]) => Sight(p)
    PROVE  UniqueInv'
<1>1. CASE Excused'
  BY <1>1 DEF UniqueInv, SeenInv, SeenOK, UniqueButForRaces, Excused
<1>2. CASE ~Excused'
  <2>1. ~Excused
    BY <1>2, ExcusedStays
  <2>2. /\ TypeOK /\ MadeInv /\ BeforeInv /\ req' = req /\ before' = before /\ pc[p] # "done"
    BY DEF IInv, Outcome, Frame
  <2>3. /\ \A q \in Jobs : q # p => made'[q] = made[q]
        /\ made[p] \subseteq made'[p]
    BY <2>2, EffectOnMade DEF Outcome
  <2>4. \A q \in Jobs : q # p => pc'[q] = pc[q] /\ copy'[q] = copy[q]
    BY <2>2 DEF Outcome, Frame, TypeOK
  <2>5. rows' # rows => made'[p] # {}
    <3> SUFFICES ASSUME made'[p] = {} PROVE rows' = rows
      OBVIOUS
    <3>1. PICK parts \in SUBSET PartsOf(req[p]) : Promise!Apply(p, parts)
      BY DEF Outcome, Effect
    <3>2. made'[p] = made[p] \cup parts
      BY <2>2, <3>1 DEF Promise!Apply, MadeInv
    <3>3. parts = {}
      BY <3>2
    <3>4. \A i \in Ids : rows'[i] = rows[i]
      BY <3>1, <3>3 DEF Promise!Apply
    <3>5. rows' \in [Ids -> Row] /\ rows \in [Ids -> Row]
      BY <2>2 DEF TypeOK, Outcome, Effect
    <3> QED  BY <3>4, <3>5
  <2>6. \A i, j \in Ids : Live(i) /\ Live(j) /\ rows[i].cols[Key] = rows[j].cols[Key] => i = j
    BY <2>1 DEF UniqueInv, UniqueButForRaces, Excused
  <2>7. ASSUME NEW q \in Jobs, Looks(req[q]), Armed(q), ~(Same(q) \subseteq Own(q))
        PROVE  \E r \in Jobs : r # q /\ made[r] # {} /\ r \notin before[q]
    BY <2>1, <2>7 DEF UniqueInv, SeenInv, SeenOK
  <2>8. CASE rows' = rows
    <3>1. UniqueButForRaces'
      BY <2>6, <2>8 DEF UniqueButForRaces, Live
    <3>2. SeenInv'
      <4> SUFFICES ASSUME NEW q \in Jobs, Looks(req[q]), Armed(q)',
                          ~(Same(q) \subseteq Own(q))'
                   PROVE  \E r \in Jobs : r # q /\ made'[r] # {} /\ r \notin before[q]
        BY <2>2 DEF SeenInv, SeenOK
      <4>1. Same(q)' = Same(q)
        BY <2>2, <2>8 DEF Same, Sought, Live, Is
      <4>2. CASE Armed(q) /\ Own(q)' = Own(q)
        <5>1. PICK r \in Jobs : r # q /\ made[r] # {} /\ r \notin before[q]
          BY <2>7, <4>1, <4>2
        <5>2. made'[r] # {}
          BY <2>3, <5>1
        <5> QED  BY <5>1, <5>2
      <4>3. CASE q # p
        <5>1. Armed(q) /\ Own(q)' = Own(q)
          BY <2>2, <2>4, <4>3 DEF Armed, Own
        <5> QED  BY <4>2, <5>1
      <4>4. CASE q = p
        <5>1. CASE Same(p) \subseteq Own(p)'
          BY <4>1, <4>4, <5>1
        <5>2. CASE \E i \in Same(p) : Own(p)' = {i}
          <6>1. PICK i \in Same(p) : Own(p)' = {i}
            BY <5>2
          <6>2. \A j \in Same(p) : j = i
            BY <2>6 DEF Same, Is
          <6> QED  BY <4>1, <4>4, <6>1, <6>2
        <5> QED  BY <4>2, <4>4, <5>1, <5>2 DEF Sight
      <4> QED  BY <4>3, <4>4
    <3> QED  BY <3>1, <3>2 DEF UniqueInv
  <2>9. CASE rows' # rows
    <3>1. made'[p] # {} /\ Looks(req[p])
      BY <1>2, <2>2, <2>5, <2>9 DEF Excused
    <3>2. Sight(p) /\ Armed(p) /\ ~Armed(p)'
      BY <2>9, <3>1 DEF Sight
    <3>3. SeenInv'
      <4> SUFFICES ASSUME NEW q \in Jobs, Armed(q)'
                   PROVE  \E r \in Jobs : r # q /\ made'[r] # {} /\ r \notin before[q]
        BY <2>2 DEF SeenInv, SeenOK
      <4> QED  BY <2>2, <3>1, <3>2 DEF BeforeInv
    <3>4. Same(p) \subseteq Own(p)
      <4> SUFFICES ASSUME ~(Same(p) \subseteq Own(p)) PROVE FALSE
        OBVIOUS
      <4>1. PICK r \in Jobs : r # p /\ made[r] # {} /\ r \notin before[p]
        BY <2>7, <3>1, <3>2
      <4>2. p \notin before[r]
        BY <2>2 DEF BeforeInv
      <4>3. Overlap(p, r)' /\ made'[r] # {}
        BY <2>2, <2>3, <4>1, <4>2 DEF Overlap
      <4> QED  BY <1>2, <3>1, <4>3 DEF Excused
    <3>5. ASSUME NEW i \in Ids, NEW j \in Ids, rows'[i] # rows[i], rows'[j] = rows[j],
                 Live(j)', rows'[i].cols[Key] = Sought(p)
          PROVE  rows'[j].cols[Key] # Sought(p)
      <4> SUFFICES ASSUME rows'[j].cols[Key] = Sought(p) PROVE FALSE
        OBVIOUS
      <4>1. j \in Same(p)
        BY <3>5 DEF Same, Live, Is
      <4>2. j \in Own(p)
        BY <3>4, <4>1
      <4>3. i \in Own(p)
        BY <3>2, <3>5, <4>2 DEF Sight
      <4>4. i = j
        BY <4>2, <4>3 DEF Own
      <4> QED  BY <3>5, <4>4
    <3>6. UniqueButForRaces'
      <4> SUFFICES ASSUME NEW i \in Ids, NEW j \in Ids, Live(i)', Live(j)', i # j,
                          rows'[i].cols[Key] = rows'[j].cols[Key]
                   PROVE  FALSE
        BY DEF UniqueButForRaces
      <4>1. \/ Live(i) /\ rows'[i].cols[Key] = rows[i].cols[Key]
            \/ rows'[i] # rows[i] /\ rows'[i].cols[Key] = Sought(p)
        BY <3>1, LookingEffect
      <4>2. \/ Live(j) /\ rows'[j].cols[Key] = rows[j].cols[Key]
            \/ rows'[j] # rows[j] /\ rows'[j].cols[Key] = Sought(p)
        BY <3>1, LookingEffect
      <4>3. rows'[i] = rows[i] \/ rows'[j] = rows[j]
        BY <3>1, LookingTouchesOne
      <4>4. CASE Live(i) /\ rows'[i].cols[Key] = rows[i].cols[Key]
                 /\ Live(j) /\ rows'[j].cols[Key] = rows[j].cols[Key]
        BY <2>6, <4>4
      <4>5. CASE rows'[i] # rows[i] /\ rows'[i].cols[Key] = Sought(p)
        BY <3>5, <4>3, <4>5
      <4>6. CASE rows'[j] # rows[j] /\ rows'[j].cols[Key] = Sought(p)
        BY <3>5, <4>3, <4>6
      <4> QED  BY <4>1, <4>2, <4>4, <4>5, <4>6
    <3> QED  BY <3>3, <3>6 DEF UniqueInv
  <2> QED  BY <2>8, <2>9
<1> QED  BY <1>1, <1>2

(* So do the beginnings of requests, and what happens to entries.          *)
LEMMA BeginUnique ==
    ASSUME IInv, UniqueInv, NEW p \in Jobs, Begin(p)
    PROVE  UniqueInv'
<1>1. /\ TypeOK /\ pc[p] = "idle" /\ made[p] = {} /\ BeforeInv
      /\ UNCHANGED <<rows, req, copy, made>>
      /\ \A q \in Jobs : q # p => before'[q] = before[q] /\ pc'[q] = pc[q]
  <2>1. pc[p] = "idle" /\ Local(p) /\ TypeOK /\ BeforeInv
    BY DEF Begin, IInv, LocalInv
  <2>2. made[p] = {}
    BY <2>1 DEF Local, FreshOK, Unwritten
  <2> QED  BY <2>1, <2>2 DEF Begin, GoTo, TypeOK
<1>2. Excused => Excused'
  BY <1>1 DEF Excused, Overlap
<1>3. UniqueButForRaces'
  <2>1. UniqueButForRaces <=>
          \A i, j \in Ids : Live(i) /\ Live(j) /\ i # j /\ rows[i].cols[Key] = rows[j].cols[Key]
                            => Excused
    BY DEF UniqueButForRaces, Excused
  <2>2. UniqueButForRaces' <=>
          (\A i, j \in Ids : Live(i) /\ Live(j) /\ i # j /\ rows[i].cols[Key] = rows[j].cols[Key]
                             => Excused)'
    BY DEF UniqueButForRaces, Excused
  <2> QED  BY <1>1, <1>2, <2>1, <2>2 DEF UniqueInv, Live
<1>4. SeenInv'
  <2> SUFFICES ASSUME NEW q \in Jobs PROVE SeenOK(q)'
    BY DEF SeenInv
  <2>1. CASE q = p
    <3>1. req[p].checked \in BOOLEAN /\ (req[p].checked => req[p].op \in {"create", "update"})
      BY <1>1, RequestsAssumption DEF TypeOK
    <3>2. Looks(req[p]) => ~Armed(p)'
      BY <1>1, <3>1 DEF Begin, GoTo, Looks, Armed, TypeOK
    <3> QED  BY <1>1, <2>1, <3>2 DEF SeenOK
  <2>2. CASE q # p
    <3>1. SeenOK(q)
      BY DEF UniqueInv, SeenInv
    <3>2. Armed(q)' = Armed(q) /\ Same(q)' = Same(q) /\ Own(q)' = Own(q)
      BY <1>1, <2>2 DEF Armed, Same, Own, Sought, Live, Is
    <3> QED  BY <1>1, <1>2, <2>2, <3>1, <3>2 DEF SeenOK
  <2> QED  BY <2>1, <2>2
<1> QED  BY <1>3, <1>4 DEF UniqueInv

(* A step that changes nothing of this.                                    *)
LEMMA RestUnique ==
    ASSUME UniqueInv, UNCHANGED <<rows, req, pc, copy, made, before>>
    PROVE  UniqueInv'
BY DEF UniqueInv, SeenInv, SeenOK, UniqueButForRaces, Excused, Overlap, Armed, Same, Own,
       Sought, Live, Is

(* Two live rows share a value of the unique column only if a request that *)
(* did not look, or looked for something else, took effect, or two that    *)
(* overlapped.                                                             *)
THEOREM UniqueCorrect == Spec => []UniqueButForRaces
<1>1. Init => UniqueInv
  <2> SUFFICES ASSUME Init PROVE UniqueInv
    OBVIOUS
  <2>1. SeenInv
    BY DEF Init, SeenInv, SeenOK, Armed
  <2>2. UniqueButForRaces
    BY TablesAssumption DEF Init, UniqueButForRaces, Live
  <2> QED  BY <2>1, <2>2 DEF UniqueInv
<1>2. IInv /\ UniqueInv /\ [Next]_vars => UniqueInv'
  <2> SUFFICES ASSUME IInv, UniqueInv, [Next]_vars PROVE UniqueInv'
    OBVIOUS
  <2>1. ASSUME NEW p \in Jobs, Begin(p) PROVE UniqueInv'
    BY <2>1, BeginUnique
  <2>2. ASSUME NEW p \in Jobs, SqlStep(p) PROVE UniqueInv'
    BY <2>2, SqlStepOutcome, SqlSight, OutcomeUnique
  <2>3. ASSUME NEW p \in Jobs, MongoStep(p) PROVE UniqueInv'
    BY <2>3, MongoStepOutcome, MongoSight, OutcomeUnique
  <2>4. ASSUME NEW p \in Jobs, CallFails(p) \/ (Crash(p) /\ pc[p] # "done") PROVE UniqueInv'
    BY <2>4, FaultOutcome, FaultSight, OutcomeUnique
  <2>5. ASSUME NEW p \in Jobs, Crash(p), pc[p] = "done" PROVE UniqueInv'
    <3>1. UNCHANGED <<rows, req, pc, copy, made, before>>
      BY <2>5 DEF Crash, IInv, TypeOK
    <3> QED  BY <3>1, RestUnique
  <2>6. CASE LogWritten \/ LogFails \/ DeleteExpiredHistory \/ DeleteExpiredTrash
             \/ UNCHANGED vars
    <3>1. UNCHANGED <<rows, req, pc, copy, made, before>>
      BY <2>6 DEF LogWritten, LogFails, DeleteExpiredHistory, DeleteExpiredTrash,
                  DeleteExpired, vars
    <3> QED  BY <3>1, RestUnique
  <2> QED  BY <2>1, <2>2, <2>3, <2>4, <2>5, <2>6 DEF Next
<1>3. UniqueInv => UniqueButForRaces
  BY DEF UniqueInv
<1> QED  BY <1>1, <1>2, <1>3, Invariant, PTL DEF Spec

=============================================================================
