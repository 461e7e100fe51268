-------------------------- MODULE ResourcesProofs --------------------------
(***************************************************************************)
(* Proofs about Resources, for any users, tables, requests and bounds:     *)
(* what is changed and shown is changed by and shown to those who may,     *)
(* a failed request has changed nothing, and updateBulk tells what it did. *)
(*                                                                         *)
(* The invariant says of each job what its guards have let through so far  *)
(* (JobInv).  A step of another job keeps it, because no step frees a row  *)
(* or rewrites its owners (RowsKept).  A second invariant (ToldInv), of the*)
(* settings, follows the values of a row from the find over the save to    *)
(* where the row is read again and told.                                   *)
(***************************************************************************)
EXTENDS Resources, TLAPS

Op(p) == req[p].op
Who(p) == call[p].route.who
Ops == {"create", "update", "delete"} \cup Reads
AnyBody == Bodies \cup [Cols -> Vals]
Answer == [body : AnyBody, row : [Cols -> Vals]]
Stages == {"idle", "access", "managed", "permit", "noid", "check", "find",
           "write", "reread", "after", "done"}

(* The types of the variables that the steps of a job read.                *)
TypeInv ==
    /\ ctl \in DOMAIN Controllers
    /\ rows \in [Ids -> Row]
    /\ call \in [Jobs -> [route : Controllers[ctl], user : Users, list : Seq(Setting)]]
    /\ req \in [Jobs -> UNION {Request(op) : op \in Ops}]
    /\ \A p \in Jobs : req[p] \in Request(call[p].route.op)
    /\ pc \in [Jobs -> Stages]
    /\ copy \in [Jobs -> [id : Ids, row : Row]]
    /\ made \in [Jobs -> SUBSET AnyBody]
    /\ data \in [Jobs -> [Cols -> Vals]]
    /\ told \in [Jobs -> SUBSET Answer]
    /\ before \in [Jobs -> SUBSET Jobs]
    /\ answer \in [Jobs -> {"none", "ok", "error"}]
    /\ status \in [Jobs -> {"none", "ok", "failed", "refused"}]
    /\ shown \in [Jobs -> SUBSET Ids]
    /\ managed \in [Jobs -> SUBSET Users]
    /\ staff \subseteq Users
    /\ faults \in 0..MaxFaults

(* doBeforeUpdate of the pages has left the name out.                      *)
PageOK(p) ==
    ctl = "page" /\ Op(p) = "update" /\ pc[p] \notin {"idle", "done"}
        => "name" \notin DOMAIN req[p].body

(* The guards have let the job in, or it has done nothing.                 *)
AdmittedOK(p) ==
    /\ pc[p] = "idle" => shown[p] = {} /\ made[p] = {} /\ told[p] = {}
    /\ status[p] # "none" \/ answer[p] # "none" => pc[p] = "done"
    /\ status[p] = "refused" => made[p] = {}
    /\ pc[p] # "idle" /\ status[p] # "refused" /\ Who(p) = "admin" => IsAdmin(p)

(* Reads write nothing, and nothing is written before the save.            *)
Early == {"idle", "access", "managed", "permit", "noid", "check"}
StageOK(p) ==
    /\ Op(p) \in Reads => pc[p] \notin {"check", "write", "reread"} /\ made[p] = {}
    /\ pc[p] = "managed" => ctl = "newsfeed" /\ Op(p) \in Reads
    /\ pc[p] = "check" => Op(p) = "create"
    /\ pc[p] \in Early => made[p] = {}
    /\ pc[p] \in {"find", "write"} /\ Name(p) # "updateBulk" => made[p] = {}
    /\ status[p] = "failed" => answer[p] = "error" /\ Name(p) # "updateBulk"
    /\ faults = 0 /\ answer[p] = "error" /\ Name(p) # "updateBulk" => made[p] = {}

Used(i) == rows[i].is # "free"

(* What a job was permitted is still so: the managed users are managed,    *)
(* the user asked for is visible, the newsfeed to be saved is one's own.   *)
PermitOK(p) ==
    /\ managed[p] \subseteq {u \in Users : By[u] = Me(p)}
    /\ pc[p] = "find" /\ ctl = "user" /\ Name(p) = "findByUid" =>
         /\ Used(req[p].id)
         /\ \/ IsAdmin(p) \/ req[p].id = By[Me(p)]
            \/ rows[req[p].id].cols["by"] = Me(p)
    /\ ctl = "newsfeed" /\ Op(p) = "delete" =>
         pc[p] \in {"idle", "permit", "noid", "done"} /\ made[p] = {}
    /\ ctl = "newsfeed" /\ Op(p) = "update" /\ ~IsAdmin(p) =>
         /\ pc[p] = "find" => Used(req[p].id) /\ rows[req[p].id].cols["by"] = Me(p)
         /\ pc[p] = "write" \/ made[p] # {} => copy[p].row.cols["by"] = Me(p)

(* What was shown was not free, and the property of it.                    *)
MaySee(p, i) ==
    LET by == rows[i].cols["by"]
    IN /\ ctl = "newsfeed" => IsAdmin(p) \/ Related(Me(p), by)
       /\ ctl = "user" => IsAdmin(p) \/ i \in {Me(p), By[Me(p)]} \/ by = Me(p)
       /\ ctl = "chat" /\ Name(p) # "findById" => Me(p) \in {by, rows[i].cols["to"]}
ShownOK(p) ==
    Op(p) \in {"getAll", "findById"} => \A i \in shown[p] : Used(i) /\ MaySee(p, i)

(* No setting is deleted, so that the one that was found is saved.  A      *)
(* setting that was saved and is not told yet is the one at hand.          *)
Untold(p) == pc[p] \in {"reread", "after"} \/ (pc[p] = "done" /\ answer[p] = "ok")
BulkOK(p) ==
    /\ ctl = "setting" /\ pc[p] = "write" => Live(copy[p].id)
    /\ Name(p) = "updateBulk" =>
        /\ ToldOf(p) \subseteq made[p]
        /\ Untold(p) => req[p].body \in made[p]
        /\ faults = 0 => made[p] = IF Untold(p) /\ status[p] = "none"
                                  THEN ToldOf(p) \cup {req[p].body} ELSE ToldOf(p)

JobInv(p) == /\ PageOK(p) /\ AdmittedOK(p) /\ StageOK(p)
             /\ PermitOK(p) /\ ShownOK(p) /\ BulkOK(p)

(* The inductive invariant.                                                *)
IInv == TypeInv /\ \A p \in Jobs : JobInv(p)

-----------------------------------------------------------------------------
(* What the routes have in common.                                         *)
LEMMA RouteFacts ==
    ASSUME NEW c, c \in DOMAIN Controllers, NEW r, r \in Controllers[c]
    PROVE  /\ r.op \in Ops
           /\ c \in ForAdmins /\ r.op \notin Reads => r.who = "admin"
           /\ r.name = "updateBulk" => c = "setting" /\ r.op = "update"
           /\ c = "setting" => r.op \in {"update"} \cup Reads
           /\ c = "newsfeed" => r.who = "user"
           /\ c = "newsfeed" /\ r.op = "update" => r.name = "update"
           /\ c = "newsfeed" /\ r.op = "delete" => r.name = "deleteByUid"
           /\ c = "user" => r.op \in Reads
           /\ c = "user" /\ r.op = "findById" => r.name \in {"findMe", "findByUid"}
           /\ c = "chat" /\ r.op \in {"getAll", "findById"} =>
                r.name \in {"getMine", "getMessages", "findById"}
           /\ r.name = "findMe" => c = "user"
<1> USE DEF Controllers, Routes, Route, Reads, Ops, ForAdmins
<1>1. CASE c \in {"country", "state", "page"}
  BY <1>1 DEF CountryWrites, CountryReads, CountryRemoval, StateWrites, StateReads,
       StateRemoval, PageWrites, PageReads, PageRemoval, PageWebview
<1>2. CASE c \in {"template", "setting"}
  BY <1>2 DEF TemplateRoutes, SettingUpdates, SettingReads
<1>3. CASE c \in {"sample", "channel", "channel_member", "message"}
  BY <1>3 DEF SampleWrites, SampleReads, SampleRemoval, ChannelWrites, ChannelReads,
       ChannelRemoval, ChannelMemberWrites, ChannelMemberReads, ChannelMemberRemoval,
       MessageWrites, MessageReads, MessageRemoval
<1>4. CASE c = "subscription"
  BY <1>4 DEF SubscriptionWrites, SubscriptionReads, SubscriptionHistory, SubscriptionRemoval
<1>5. CASE c = "newsfeed"
  BY <1>5 DEF NewsfeedWrites, NewsfeedReads, NewsfeedRemoval
<1>6. CASE c = "user"
  BY <1>6 DEF UserList, UserFinds
<1>7. CASE c \in {"chat", "chat_message"}
  BY <1>7 DEF ChatUpdate, ChatLists, ChatFinds, ChatMessages, ChatRemoval,
       ChatMessageWrites, ChatMessageReads, ChatMessageRemoval
<1>8. c \in {"country", "state", "page", "template", "setting", "sample", "channel",
             "channel_member", "message", "subscription", "newsfeed", "user", "chat",
             "chat_message"}
  OBVIOUS
<1> QED  BY <1>1, <1>2, <1>3, <1>4, <1>5, <1>6, <1>7, <1>8

(* What TypeInv says of a job.                                             *)
LEMMA JobFacts ==
    ASSUME TypeInv, NEW p, p \in Jobs
    PROVE  /\ call[p].route \in Controllers[ctl] /\ Me(p) \in Users /\ Me(p) \in Vals
           /\ call[p] = [route |-> call[p].route, user |-> Me(p), list |-> call[p].list]
           /\ call[p].list \in Seq(Setting)
           /\ Op(p) = call[p].route.op /\ Op(p) \in Ops /\ req[p] \in Request(Op(p))
           /\ req[p].id \in Ids
           /\ Op(p) = "create" => req[p].body \in [Cols -> Vals]
           /\ Op(p) # "create" => req[p].body \in Bodies
           /\ req[p].body \in AnyBody
           /\ req[p].checked => Op(p) = "create"
           /\ copy[p] \in [id : Ids, row : Row] /\ copy[p].id \in Ids /\ copy[p].row \in Row
           /\ shown[p] \subseteq Ids
<1>1. /\ call[p] \in [route : Controllers[ctl], user : Users, list : Seq(Setting)]
      /\ req[p] \in Request(call[p].route.op)
      /\ copy[p] \in [id : Ids, row : Row] /\ shown[p] \subseteq Ids
  BY DEF TypeInv
<1>2. /\ req[p].op = call[p].route.op /\ req[p].id \in Ids
      /\ req[p].body \in IF call[p].route.op = "create" THEN [Cols -> Vals] ELSE Bodies
      /\ req[p].checked \in {FALSE, call[p].route.op = "create"}
  BY <1>1 DEF Request
<1>3. call[p].route.op \in Ops
  BY <1>1, RouteFacts DEF TypeInv
<1>4. /\ Op(p) = "create" => req[p].body \in [Cols -> Vals]
      /\ Op(p) # "create" => req[p].body \in Bodies
  BY <1>2 DEF Op
<1>5. req[p].checked => Op(p) = "create"
  BY <1>2 DEF Op
<1>6. Me(p) \in Users /\ Me(p) \in Vals
  BY <1>1, TablesAssumption DEF Me
<1>7. call[p] = [route |-> call[p].route, user |-> Me(p), list |-> call[p].list]
  BY <1>1 DEF Me
<1> QED  BY <1>1, <1>2, <1>3, <1>4, <1>5, <1>6, <1>7 DEF Op, AnyBody

(* What the routes say of a job.                                           *)
LEMMA JobRoute ==
    ASSUME TypeInv, NEW p, p \in Jobs
    PROVE  /\ ctl \in ForAdmins /\ Op(p) \notin Reads => Who(p) = "admin"
           /\ Name(p) = "updateBulk" => ctl = "setting" /\ Op(p) = "update"
           /\ ctl = "setting" => Op(p) \in {"update"} \cup Reads
           /\ ctl = "newsfeed" => Who(p) = "user"
           /\ ctl = "newsfeed" /\ Op(p) = "update" => Name(p) = "update"
           /\ ctl = "newsfeed" /\ Op(p) = "delete" => Name(p) = "deleteByUid"
           /\ ctl = "user" => Op(p) \in Reads
           /\ ctl = "user" /\ Op(p) = "findById" => Name(p) \in {"findMe", "findByUid"}
           /\ ctl = "chat" /\ Op(p) \in {"getAll", "findById"} =>
                Name(p) \in {"getMine", "getMessages", "findById"}
           /\ Name(p) = "findMe" => ctl = "user"
<1>1. ctl \in DOMAIN Controllers /\ call[p].route \in Controllers[ctl]
      /\ Op(p) = call[p].route.op
  BY JobFacts DEF TypeInv
<1> HIDE DEF Op
<1> QED  BY <1>1, RouteFacts DEF Name, Who

-----------------------------------------------------------------------------
(* The table and the other jobs.                                           *)

(* No step frees a row, rewrites its owners, or takes a setting away.      *)
RowsKept ==
    /\ rows' \in [Ids -> Row]
    /\ \A i \in Ids : Used(i) =>
         /\ Used(i)'
         /\ rows'[i].cols["by"] = rows[i].cols["by"]
         /\ rows'[i].cols["to"] = rows[i].cols["to"]
         /\ ctl = "setting" /\ Live(i) => Live(i)'

Same(q) == /\ call'[q] = call[q] /\ req'[q] = req[q] /\ pc'[q] = pc[q]
           /\ copy'[q] = copy[q] /\ made'[q] = made[q] /\ told'[q] = told[q]
           /\ answer'[q] = answer[q] /\ status'[q] = status[q]
           /\ shown'[q] = shown[q] /\ managed'[q] = managed[q]
           /\ data'[q] = data[q] /\ before'[q] = before[q]

(* What the step of a job must come to.                                    *)
Outcome(p) == /\ TypeInv' /\ JobInv(p)' /\ RowsKept
              /\ ctl' = ctl /\ faults' \in {faults, faults + 1}
              /\ \A q \in Jobs \ {p} : Same(q)

(* A step of another job keeps what is known of a job.                     *)
LEMMA OthersKept ==
    ASSUME TypeInv, RowsKept, ctl' = ctl, faults' \in {faults, faults + 1},
           NEW q, q \in Jobs, Same(q), JobInv(q)
    PROVE  JobInv(q)'
<1>1. /\ req[q].id \in Ids /\ copy[q].id \in Ids /\ shown[q] \subseteq Ids
      /\ faults \in Nat
  BY JobFacts, RecordsAssumption DEF TypeInv
<1>2. faults' = 0 => faults = 0
  BY <1>1
<1> USE DEF Same, Op, Who, Name, Me, IsAdmin
<1>3. PageOK(q)' /\ AdmittedOK(q)' /\ StageOK(q)'
  BY <1>2 DEF JobInv, PageOK, AdmittedOK, StageOK
<1>4. PermitOK(q)'
  BY <1>1 DEF JobInv, PermitOK, RowsKept
<1>5. ShownOK(q)'
  BY <1>1 DEF JobInv, ShownOK, RowsKept, MaySee
<1>6. BulkOK(q)'
  <2>1. ctl' = "setting" /\ pc'[q] = "write" => Live(copy[q].id)'
    <3> SUFFICES ASSUME ctl = "setting", pc[q] = "write" PROVE Live(copy[q].id)'
      OBVIOUS
    <3>1. Live(copy[q].id) /\ Used(copy[q].id)
      BY DEF JobInv, BulkOK, ToldOf, Live, Used
    <3> QED  BY <1>1, <3>1 DEF RowsKept
  <2>2. Untold(q)' = Untold(q)
    BY DEF Untold
  <2> QED  BY <1>2, <2>1, <2>2 DEF JobInv, BulkOK, ToldOf
<1> QED  BY <1>3, <1>4, <1>5, <1>6 DEF JobInv

(* So an outcome keeps the invariant.                                      *)
LEMMA OutcomeKeeps ==
    ASSUME IInv, NEW p, p \in Jobs, Outcome(p)
    PROVE  IInv'
<1> SUFFICES ASSUME NEW q, q \in Jobs, q # p PROVE JobInv(q)'
  BY DEF Outcome, IInv
<1> QED  BY OthersKept DEF Outcome, IInv

(* New columns for rows, but for those of the owners.                      *)
LEMMA RewrittenRow ==
    ASSUME rows \in [Ids -> Row], NEW body, body \in Bodies, NEW cs, NEW i, i \in Ids
    PROVE  /\ Rewritten(body, cs)[i] \in Row
           /\ Rewritten(body, cs)[i].is = rows[i].is
           /\ Rewritten(body, cs)[i].cols["by"] = rows[i].cols["by"]
           /\ Rewritten(body, cs)[i].cols["to"] = rows[i].cols["to"]
<1>1. PICK ds \in SUBSET (Cols \ {"by", "to"}) : body \in [ds -> Vals]
  BY DEF Bodies
<1>2. rows[i] \in Row /\ rows[i].cols \in [Cols -> Vals]
  BY DEF Row
<1> DEFINE new == Over(rows[i].cols, body, cs)
<1>3. new \in [Cols -> Vals] /\ new["by"] = rows[i].cols["by"] /\ new["to"] = rows[i].cols["to"]
  BY <1>1, <1>2, TablesAssumption DEF Over
<1>4. Rewritten(body, cs)[i] = [rows[i] EXCEPT !.cols = new]
  BY DEF Rewritten
<1> HIDE DEF new
<1>5. [rows[i] EXCEPT !.cols = new] \in Row
  BY <1>2, <1>3 DEF Row
<1> QED  BY <1>2, <1>3, <1>4, <1>5 DEF Row

(* A mark on rows.                                                         *)
LEMMA MarkedRow ==
    ASSUME rows \in [Ids -> Row], NEW mark, mark \in {"deleted", "gone"}, NEW i, i \in Ids
    PROVE  Marked(mark)[i] \in Row /\ Marked(mark)[i].is = mark
           /\ Marked(mark)[i].cols = rows[i].cols
<1>1. rows[i] \in Row
  OBVIOUS
<1>2. Marked(mark)[i] = [rows[i] EXCEPT !.is = mark]
  BY DEF Marked
<1>3. [rows[i] EXCEPT !.is = mark] \in Row
  BY <1>1 DEF Row
<1> QED  BY <1>1, <1>2, <1>3 DEF Row

(* Columns that the pages do not let one change leave a body a body.       *)
LEMMA BodyFacts ==
    ASSUME TypeInv, NEW p, p \in Jobs
    PROVE  /\ [req[p] EXCEPT !.body = BodyOf(p)] \in Request(Op(p))
           /\ ctl = "page" /\ Op(p) = "update" => "name" \notin DOMAIN BodyOf(p)
<1>1. Op(p) = "create" => NewBody(p) \in [Cols -> Vals]
  BY JobFacts, TablesAssumption DEF NewBody
<1>2. Op(p) # "create" => PageBody(p) \in Bodies /\ "name" \notin DOMAIN PageBody(p)
  <2> SUFFICES ASSUME Op(p) # "create"
               PROVE  PageBody(p) \in Bodies /\ "name" \notin DOMAIN PageBody(p)
    OBVIOUS
  <2>1. PICK cs \in SUBSET (Cols \ {"by", "to"}) : req[p].body \in [cs -> Vals]
    BY JobFacts DEF Bodies
  <2>2. PageBody(p) \in [cs \ {"name"} -> Vals]
    BY <2>1 DEF PageBody
  <2>3. cs \ {"name"} \in SUBSET (Cols \ {"by", "to"})
    BY <2>1
  <2>4. PageBody(p) \in Bodies
    BY <2>2, <2>3 DEF Bodies
  <2> QED  BY <2>2, <2>4
<1>3. BodyOf(p) \in IF Op(p) = "create" THEN [Cols -> Vals] ELSE Bodies
  BY <1>1, <1>2, JobFacts DEF BodyOf, Op
<1>4. [req[p] EXCEPT !.body = BodyOf(p)] \in Request(Op(p))
  <2> DEFINE b == BodyOf(p)
  <2>1. req[p] \in Request(Op(p))
    BY JobFacts
  <2> HIDE DEF b
  <2>2. b \in IF Op(p) = "create" THEN [Cols -> Vals] ELSE Bodies
    BY <1>3 DEF b
  <2>3. [req[p] EXCEPT !.body = b] \in Request(Op(p))
    BY <2>1, <2>2 DEF Request
  <2> QED  BY <2>3 DEF b
<1> QED  BY <1>2, <1>4 DEF BodyOf, Op

(* The first call leads to a find or a save only of those who need no      *)
(* permit.                                                                 *)
LEMMA FirstCallFacts ==
    ASSUME TypeInv, NEW p, p \in Jobs
    PROVE  /\ FirstCall(p) \in {"managed", "permit", "noid", "check", "find", "write"}
           /\ FirstCall(p) = "find" => ctl # "user" \/ Name(p) # "findByUid"
           /\ ctl = "newsfeed" /\ Op(p) = "delete" => FirstCall(p) \in {"permit", "noid"}
           /\ ctl = "newsfeed" /\ Op(p) = "update" /\ ~IsAdmin(p) =>
                FirstCall(p) = "permit"
           /\ Op(p) \in Reads => FirstCall(p) \notin {"check", "write"}
           /\ ctl = "setting" => FirstCall(p) # "write"
           /\ FirstCall(p) = "managed" => ctl = "newsfeed" /\ Op(p) \in Reads
           /\ FirstCall(p) = "check" => Op(p) = "create"
<1>1. FirstCall(p) \in {"managed", "permit", "noid", "check", "find", "write"}
  BY DEF FirstCall
<1>2. FirstCall(p) = "find" => ctl # "user" \/ Name(p) # "findByUid"
  BY DEF FirstCall
<1>3. ctl = "newsfeed" /\ Op(p) = "delete" => FirstCall(p) \in {"permit", "noid"}
  <2> SUFFICES ASSUME ctl = "newsfeed", Op(p) = "delete"
               PROVE  FirstCall(p) \in {"permit", "noid"}
    OBVIOUS
  <2>1. Name(p) = "deleteByUid" /\ req[p].op = "delete"
    BY JobRoute DEF Op
  <2> QED  BY <2>1 DEF FirstCall, ByUid
<1>4. ctl = "newsfeed" /\ Op(p) = "update" /\ ~IsAdmin(p) => FirstCall(p) = "permit"
  <2> SUFFICES ASSUME ctl = "newsfeed", Op(p) = "update", ~IsAdmin(p)
               PROVE  FirstCall(p) = "permit"
    OBVIOUS
  <2>1. Name(p) = "update" /\ req[p].op = "update"
    BY JobRoute DEF Op
  <2> QED  BY <2>1 DEF FirstCall, ByUid
<1>5. Op(p) \in Reads => FirstCall(p) \notin {"check", "write"}
  BY JobFacts DEF FirstCall, Reads, Op
<1>6. ctl = "setting" => FirstCall(p) # "write"
  BY JobRoute DEF FirstCall, Op, Reads
<1>7. FirstCall(p) = "managed" => ctl = "newsfeed" /\ Op(p) \in Reads
  BY DEF FirstCall, Op, Reads
<1>8. FirstCall(p) = "check" => Op(p) = "create"
  <2>1. FirstCall(p) = "check" => req[p].checked
    BY DEF FirstCall
  <2> QED  BY <2>1, JobFacts
<1> QED  BY <1>1, <1>2, <1>3, <1>4, <1>5, <1>6, <1>7, <1>8

(* The guards let in or refuse.                                            *)
LEMMA ArriveStep ==
    ASSUME IInv, NEW p, p \in Jobs, Arrive(p)
    PROVE  Outcome(p)
<1>0. TypeInv /\ JobInv(p)
  BY DEF IInv
<1>1. pc[p] = "idle" /\ shown[p] = {} /\ made[p] = {} /\ told[p] = {}
      /\ status[p] = "none" /\ answer[p] = "none"
  BY <1>0 DEF Arrive, JobInv, AdmittedOK, TypeInv
<1> DEFINE stage == IF call[p].route.who = "chat" /\ ~IsAdmin(p) THEN "access" ELSE FirstCall(p)
<1>2. /\ UNCHANGED <<rows, copy, made, faults, ctl, call, staff, managed, data, told, answer, shown>>
      /\ before' = [before EXCEPT ![p] = {q \in Jobs : Ended(q)}]
  BY DEF Arrive, GoTo
<1>3. RowsKept
  BY <1>0, <1>2 DEF RowsKept, TypeInv, Used, Live
<1>4. CASE ~MayCall(p)
  <2>1. /\ pc' = [pc EXCEPT ![p] = "done"] /\ status' = [status EXCEPT ![p] = "refused"]
        /\ req' = req
    BY <1>4 DEF Arrive, Respond
  <2>2. TypeInv'
    BY <1>0, <1>2, <2>1 DEF TypeInv, Stages
  <2>3. JobInv(p)'
    <3>1. pc'[p] = "done" /\ status'[p] = "refused"
      BY <1>0, <2>1 DEF TypeInv
    <3> QED  BY <1>0, <1>1, <1>2, <2>1, <3>1
          DEF JobInv, PageOK, AdmittedOK, StageOK, PermitOK, ShownOK, BulkOK, ToldOf, Early,
              Untold, Op, Name, Me, Who
  <2>4. \A q \in Jobs \ {p} : Same(q)
    BY <1>0, <1>2, <2>1 DEF TypeInv, Same
  <2> QED  BY <1>2, <1>3, <2>2, <2>3, <2>4 DEF Outcome
<1>5. CASE MayCall(p)
  <2>1. /\ pc' = [pc EXCEPT ![p] = stage] /\ status' = status
        /\ req' = [req EXCEPT ![p] = [req[p] EXCEPT !.body = BodyOf(p)]]
    BY <1>0, <1>5 DEF Arrive, GoTo, TypeInv
  <2>2. stage \in {"access", "managed", "permit", "noid", "check", "find", "write"}
    BY DEF FirstCall
  <2> HIDE DEF stage
  <2>3. req'[p] = [req[p] EXCEPT !.body = BodyOf(p)] /\ pc'[p] = stage
    BY <1>0, <2>1 DEF TypeInv
  <2>4. /\ req'[p] \in Request(Op(p)) /\ req'[p].op = Op(p) /\ req'[p].id = req[p].id
        /\ req'[p].body = BodyOf(p)
    <3>1. req'[p] \in Request(Op(p))
      BY <1>0, <2>3, BodyFacts
    <3>2. req[p] \in Request(Op(p))
      BY <1>0, JobFacts
    <3> QED  BY <2>3, <3>1, <3>2 DEF Request
  <2>5. TypeInv'
    <3>1. req' \in [Jobs -> UNION {Request(op) : op \in Ops}]
      <4>1. req'[p] \in UNION {Request(op) : op \in Ops}
        BY <1>0, <2>4, JobFacts
      <4> QED  BY <1>0, <2>1, <2>3, <4>1 DEF TypeInv
    <3>2. \A q \in Jobs : req'[q] \in Request(call'[q].route.op)
      BY <1>0, <1>2, <2>1, <2>4, JobFacts DEF TypeInv
    <3>3. pc' \in [Jobs -> Stages]
      BY <1>0, <2>1, <2>2 DEF TypeInv, Stages
    <3> QED  BY <1>0, <1>2, <2>1, <3>1, <3>2, <3>3 DEF TypeInv
  <2>6. Op(p)' = Op(p) /\ Name(p)' = Name(p) /\ Who(p)' = Who(p) /\ Me(p)' = Me(p)
        /\ IsAdmin(p)' = IsAdmin(p)
    BY <1>2, <2>4 DEF Op, Name, Who, Me, IsAdmin
  <2>7. PageOK(p)'
    BY <1>0, <1>2, <2>4, <2>6, BodyFacts DEF PageOK
  <2>8. AdmittedOK(p)'
    BY <1>1, <1>2, <1>5, <2>1, <2>2, <2>3, <2>6 DEF AdmittedOK, MayCall, IsAdmin, Who
  <2>9. StageOK(p)'
    BY <1>0, <1>1, <1>2, <2>1, <2>2, <2>3, <2>6, FirstCallFacts DEF StageOK, stage
  <2>10. PermitOK(p)'
    <3>1. ctl = "newsfeed" => stage = FirstCall(p)
      BY <1>0, JobRoute DEF stage, Who
    <3>2. stage = "find" => ctl # "user" \/ Name(p) # "findByUid"
      BY <1>0, FirstCallFacts DEF stage
    <3>3. managed[p] \subseteq {u \in Users : By[u] = Me(p)}
      BY <1>0 DEF JobInv, PermitOK
    <3> QED  BY <1>0, <1>1, <1>2, <2>3, <2>6, <3>1, <3>2, <3>3, FirstCallFacts
          DEF PermitOK
  <2>11. ShownOK(p)'
    BY <1>1, <1>2 DEF ShownOK
  <2>12. BulkOK(p)'
    <3>1. ctl = "setting" => stage # "write"
      BY <1>0, FirstCallFacts DEF stage
    <3> QED  BY <1>1, <1>2, <2>2, <2>3, <2>6, <3>1 DEF BulkOK, ToldOf, Untold
  <2>13. \A q \in Jobs \ {p} : Same(q)
    BY <1>0, <1>2, <2>1 DEF TypeInv, Same
  <2> QED  BY <1>2, <1>3, <2>5, <2>7, <2>8, <2>9, <2>10, <2>11, <2>12, <2>13
        DEF Outcome, JobInv
<1> QED  BY <1>4, <1>5

-----------------------------------------------------------------------------
(* Steps that write nothing.                                               *)

Quiet(p) ==
    /\ UNCHANGED <<rows, req, copy, made, told, before, ctl, call, staff>>
    /\ data'[p] \in [Cols -> Vals] /\ data' = [data EXCEPT ![p] = data'[p]]
    /\ faults' \in 0..MaxFaults /\ faults' \in {faults, faults + 1}
    /\ pc'[p] \in Stages \ {"idle"} /\ pc' = [pc EXCEPT ![p] = pc'[p]]
    /\ answer'[p] \in {"none", "ok", "error"} /\ answer' = [answer EXCEPT ![p] = answer'[p]]
    /\ status'[p] \in {"none", "ok", "failed", "refused"}
    /\ status' = [status EXCEPT ![p] = status'[p]]
    /\ shown'[p] \subseteq Ids /\ shown' = [shown EXCEPT ![p] = shown'[p]]
    /\ managed'[p] \subseteq Users /\ managed' = [managed EXCEPT ![p] = managed'[p]]

(* What is left to show of a step that writes nothing.                     *)
LEMMA QuietOutcome ==
    ASSUME IInv, NEW p, p \in Jobs, Quiet(p), JobInv(p)'
    PROVE  Outcome(p)
<1>0. TypeInv
  BY DEF IInv
<1>1. TypeInv'
  BY <1>0 DEF TypeInv, Quiet
<1>2. RowsKept
  BY <1>0 DEF TypeInv, Quiet, RowsKept, Used, Live
<1>3. \A q \in Jobs \ {p} : Same(q)
  BY <1>0 DEF TypeInv, Quiet, Same
<1> QED  BY <1>1, <1>2, <1>3 DEF Outcome, Quiet

(* What the conjuncts of JobInv are about.                                 *)
LEMMA QuietFrame ==
    ASSUME TypeInv, NEW p, p \in Jobs, Quiet(p)
    PROVE  /\ Op(p)' = Op(p) /\ Name(p)' = Name(p) /\ Who(p)' = Who(p)
           /\ Me(p)' = Me(p) /\ IsAdmin(p)' = IsAdmin(p)
           /\ \A i \in Ids : Used(i)' = Used(i) /\ Live(i)' = Live(i)
           /\ \A i \in Ids : MaySee(p, i) => MaySee(p, i)'
  BY DEF Quiet, Op, Name, Who, Me, IsAdmin, Used, Live, MaySee

(* A step before the find, to a stage that needs no permit or has it.      *)
LEMMA EarlyStep ==
    ASSUME IInv, NEW p, p \in Jobs, Quiet(p),
           pc[p] \in Early \ {"idle"},
           pc'[p] \in {"managed", "permit", "noid", "check", "find", "write", "done"},
           pc'[p] # "done" => status'[p] = "none" /\ answer'[p] = "none",
           answer'[p] # "ok", status'[p] \in {"none", "refused"},
           Op(p) \in Reads => pc'[p] \notin {"check", "write"},
           ctl = "setting" => pc'[p] # "write",
           pc'[p] = "managed" => ctl = "newsfeed" /\ Op(p) \in Reads,
           pc'[p] = "check" => Op(p) = "create",
           shown'[p] = shown[p],
           PermitOK(p)'
    PROVE  Outcome(p)
<1>0. TypeInv /\ JobInv(p)
  BY DEF IInv
<1>1. /\ status[p] = "none" /\ answer[p] = "none"
      /\ made[p] = {}
      /\ Who(p) = "admin" => IsAdmin(p)
      /\ Name(p) = "updateBulk" => told[p] \subseteq made[p]
      /\ Name(p) = "updateBulk" /\ faults = 0 => made[p] = told[p]
  BY <1>0 DEF JobInv, AdmittedOK, StageOK, BulkOK, ToldOf, Early, Untold
<1>2. UNCHANGED <<made, told, req, ctl>> /\ (faults' = 0 => faults = 0)
  BY <1>0 DEF Quiet, TypeInv
<1>3. PageOK(p)'
  BY <1>0, <1>2, QuietFrame DEF JobInv, PageOK, Early
<1>4. AdmittedOK(p)' /\ StageOK(p)'
  BY <1>0, <1>1, <1>2, QuietFrame DEF AdmittedOK, StageOK
<1>5. ShownOK(p)'
  BY <1>0, QuietFrame, JobFacts DEF JobInv, ShownOK
<1>6. BulkOK(p)'
  BY <1>0, <1>1, <1>2, QuietFrame DEF BulkOK, ToldOf, Untold
<1>7. JobInv(p)'
  BY <1>3, <1>4, <1>5, <1>6 DEF JobInv
<1> QED  BY <1>7, QuietOutcome

(* A job ends in an error, or with its process, before it wrote or not.    *)
LEMMA EndStep ==
    ASSUME IInv, NEW p, p \in Jobs, Quiet(p),
           pc[p] # "idle", pc'[p] = "done", answer'[p] = "error" \/ answer'[p] = answer[p],
           answer'[p] = "error" => pc[p] # "done" \/ answer[p] = "error",
           UNCHANGED <<status, shown, managed>>,
           faults' # 0 \/ pc[p] \in Early \cup {"find"}
    PROVE  Outcome(p)
<1>0. TypeInv /\ JobInv(p)
  BY DEF IInv
<1>1. UNCHANGED <<made, told, req, ctl, copy, rows>> /\ (faults' = 0 => faults = 0)
  BY <1>0 DEF Quiet, TypeInv
<1>2. PageOK(p)'
  BY DEF PageOK
<1>3. AdmittedOK(p)'
  BY <1>0, <1>1, QuietFrame DEF JobInv, AdmittedOK
<1>3a. StageOK(p)'
  <2>1. AdmittedOK(p) /\ StageOK(p)
    BY <1>0 DEF JobInv
  <2>2. status'[p] = "failed" => answer'[p] = "error" /\ Name(p) # "updateBulk"
    BY <1>0, <2>1 DEF AdmittedOK, StageOK, TypeInv
  <2>3. faults' = 0 /\ Name(p) # "updateBulk" => made[p] = {}
    BY <2>1 DEF StageOK, Early
  <2> QED  BY <1>0, <1>1, <2>1, <2>2, <2>3, QuietFrame DEF StageOK, Early
<1>4. PermitOK(p)'
  BY <1>0, <1>1, QuietFrame DEF JobInv, PermitOK
<1>5. ShownOK(p)'
  BY <1>0, <1>1, QuietFrame, JobFacts DEF JobInv, ShownOK
<1>6. BulkOK(p)'
  BY <1>0, <1>1, QuietFrame DEF JobInv, BulkOK, ToldOf, AdmittedOK, Untold, Early
<1>7. JobInv(p)'
  BY <1>2, <1>3, <1>3a, <1>4, <1>5, <1>6 DEF JobInv
<1> QED  BY <1>7, QuietOutcome

(* The call that a job awaits fails, or its process dies.                  *)
LEMMA FaultStep ==
    ASSUME IInv, NEW p, p \in Jobs, CallFails(p) \/ Crash(p), UNCHANGED hVars
    PROVE  Outcome(p)
<1>0. TypeInv
  BY DEF IInv
<1>1. faults < MaxFaults /\ faults' = faults + 1
  BY DEF CallFails, Crash
<1>2. faults' \in 0..MaxFaults /\ faults' # 0
  BY <1>0, <1>1, RecordsAssumption DEF TypeInv
<1>3. /\ UNCHANGED <<rows, req, copy, made, told, data, before, ctl, call, staff, status, shown,
                      managed>>
      /\ pc' = [pc EXCEPT ![p] = "done"] /\ pc[p] # "idle"
      /\ answer' = answer \/ (pc[p] # "done" /\ answer' = [answer EXCEPT ![p] = "error"])
  BY DEF CallFails, Crash, End, hVars
<1>4. Quiet(p)
  BY <1>0, <1>1, <1>2, <1>3 DEF Quiet, TypeInv, Stages
<1>5. /\ pc'[p] = "done"
      /\ answer'[p] = answer[p] \/ (pc[p] # "done" /\ answer'[p] = "error")
  BY <1>0, <1>3 DEF TypeInv
<1> QED  BY <1>2, <1>3, <1>4, <1>5, EndStep

(* ChatAccessGuard.                                                        *)
LEMMA ChatAccessStep ==
    ASSUME IInv, NEW p, p \in Jobs, ChatAccess(p),
           UNCHANGED <<call, data, before, faults, ctl, staff>>
    PROVE  Outcome(p)
<1>0. TypeInv /\ JobInv(p)
  BY DEF IInv
<1>1. pc[p] = "access" /\ answer[p] = "none" /\ status[p] = "none"
  BY <1>0 DEF ChatAccess, JobInv, AdmittedOK
<1>2. UNCHANGED <<rows, req, copy, made, told, managed, answer, shown>>
  BY DEF ChatAccess, SqlUnchanged, GoTo
<1>3. CASE pc' = [pc EXCEPT ![p] = FirstCall(p)] /\ status' = status
  <2> DEFINE stage == FirstCall(p)
  <2>1. stage \in {"managed", "permit", "noid", "check", "find", "write"}
    BY <1>0, FirstCallFacts
  <2>2. pc' = [pc EXCEPT ![p] = stage] /\ pc'[p] = stage
    BY <1>0, <1>3 DEF TypeInv
  <2> HIDE DEF stage
  <2>3. Quiet(p)
    BY <1>0, <1>2, <1>3, <2>1, <2>2 DEF Quiet, TypeInv, Stages
  <2>4. PermitOK(p)'
    <3>1. made[p] = {}
      BY <1>0, <1>1 DEF JobInv, StageOK, Early
    <3> QED  BY <1>0, <1>2, <2>1, <2>2, <2>3, <3>1, FirstCallFacts, QuietFrame
          DEF PermitOK, JobInv, stage
  <2> QED  BY <1>0, <1>1, <1>2, <1>3, <2>1, <2>2, <2>3, <2>4, FirstCallFacts, EarlyStep DEF stage, Early
<1>4. CASE pc' = [pc EXCEPT ![p] = "done"] /\ status' = [status EXCEPT ![p] = "refused"]
  <2>1. pc'[p] = "done" /\ status'[p] = "refused"
    BY <1>0, <1>4 DEF TypeInv
  <2>2. Quiet(p)
    BY <1>0, <1>2, <1>4, <2>1 DEF Quiet, TypeInv, Stages
  <2>3. PermitOK(p)'
    BY <1>0, <1>2, <2>1, <2>2, QuietFrame DEF PermitOK, JobInv
  <2> QED  BY <1>1, <1>2, <2>1, <2>2, <2>3, EarlyStep DEF Early
<1> QED  BY <1>3, <1>4 DEF ChatAccess, GoTo, Respond

(* The users that one manages are read.                                    *)
LEMMA ReadManagedStep ==
    ASSUME IInv, NEW p, p \in Jobs, ReadManaged(p),
           UNCHANGED <<call, data, before, faults, ctl, staff>>
    PROVE  Outcome(p)
<1>0. TypeInv /\ JobInv(p)
  BY DEF IInv
<1>1. pc[p] = "managed" /\ answer[p] = "none" /\ status[p] = "none"
  BY <1>0 DEF ReadManaged, JobInv, AdmittedOK
<1> DEFINE mine == {u \in staff : By[u] = Me(p)}
<1>2. /\ UNCHANGED <<rows, req, copy, made, told, answer, shown, status>>
      /\ pc' = [pc EXCEPT ![p] = "find"] /\ managed' = [managed EXCEPT ![p] = mine]
  BY DEF ReadManaged, SqlUnchanged, GoTo
<1>3. mine \subseteq Users
  BY <1>0 DEF TypeInv
<1>4. pc'[p] = "find" /\ managed'[p] = mine
  BY <1>0, <1>2 DEF TypeInv
<1>5. Quiet(p)
  <2> HIDE DEF mine
  <2> QED  BY <1>0, <1>2, <1>3, <1>4 DEF Quiet, TypeInv, Stages
<1>6. PermitOK(p)'
  <2>1. ctl = "newsfeed" /\ Op(p) \in Reads
    BY <1>0, <1>1 DEF JobInv, StageOK
  <2>2. managed'[p] \subseteq {u \in Users : By[u] = Me(p)}
    BY <1>0, <1>4 DEF TypeInv
  <2> QED  BY <1>0, <1>2, <1>5, <2>1, <2>2, QuietFrame DEF PermitOK, Quiet, Reads
<1> QED  BY <1>1, <1>2, <1>4, <1>5, <1>6, EarlyStep DEF Early

(* The row asked for is looked at.                                         *)
LEMMA PermitStep ==
    ASSUME IInv, NEW p, p \in Jobs, Permit(p),
           UNCHANGED <<call, data, before, faults, ctl, staff>>
    PROVE  Outcome(p)
<1>0. TypeInv /\ JobInv(p)
  BY DEF IInv
<1>1. pc[p] = "permit" /\ answer[p] = "none" /\ status[p] = "none"
  BY <1>0 DEF Permit, JobInv, AdmittedOK
<1> DEFINE stage == IF Name(p) = "deleteByUid" THEN "noid" ELSE "find"
<1>2. UNCHANGED <<rows, req, copy, made, told, shown, status, managed>>
  BY DEF Permit, SqlUnchanged, GoTo, End
<1>3. CASE Live(req[p].id) /\ req[p].id \in Permitted(p)
  <2>1. pc' = [pc EXCEPT ![p] = stage] /\ answer' = answer
    BY <1>3 DEF Permit, GoTo
  <2>2. stage \in {"noid", "find"}
    OBVIOUS
  <2>3. pc'[p] = stage
    BY <1>0, <2>1 DEF TypeInv
  <2>4. Quiet(p)
    <3> HIDE DEF stage
    <3> QED  BY <1>0, <1>2, <2>1, <2>2, <2>3 DEF Quiet, TypeInv, Stages
  <2>5. PermitOK(p)'
    <3>1. ctl = "user" => \/ IsAdmin(p) \/ req[p].id = By[Me(p)]
                          \/ rows[req[p].id].cols["by"] = Me(p)
      BY <1>3 DEF Permitted, Mine
    <3>2. ctl = "newsfeed" => rows[req[p].id].cols["by"] = Me(p)
      BY <1>3 DEF Permitted, Mine
    <3>3. Used(req[p].id) /\ made[p] = {}
      BY <1>0, <1>1, <1>3 DEF Used, Live, JobInv, StageOK, Early
    <3>4. ctl = "newsfeed" /\ Op(p) = "delete" => stage = "noid"
      BY <1>0, JobRoute
    <3>5. managed[p] \subseteq {u \in Users : By[u] = Me(p)}
      BY <1>0 DEF JobInv, PermitOK
    <3>6. req[p].id \in Ids
      BY <1>0, JobFacts
    <3> QED  BY <1>0, <1>2, <2>2, <2>3, <2>4, <3>1, <3>2, <3>3, <3>4, <3>5, <3>6, QuietFrame
          DEF PermitOK
  <2> QED  BY <1>1, <1>2, <2>1, <2>2, <2>3, <2>4, <2>5, EarlyStep DEF Early
<1>4. CASE ~(Live(req[p].id) /\ req[p].id \in Permitted(p))
  <2>1. pc' = [pc EXCEPT ![p] = "done"] /\ answer' = [answer EXCEPT ![p] = "error"]
    BY <1>4 DEF Permit, End
  <2>2. pc'[p] = "done" /\ answer'[p] = "error"
    BY <1>0, <2>1 DEF TypeInv
  <2>3. Quiet(p)
    BY <1>0, <1>2, <2>1, <2>2 DEF Quiet, TypeInv, Stages
  <2> QED  BY <1>1, <1>2, <2>2, <2>3, EndStep DEF Early
<1> QED  BY <1>3, <1>4

(* A job ends with an error that it answers at once.                       *)
LEMMA ErrorStep ==
    ASSUME IInv, NEW p, p \in Jobs, End(p, "error"), pc[p] \in (Early \ {"idle"}) \cup {"find"},
           UNCHANGED <<rows, req, copy, made, told, data, before, status, managed, call,
                       faults, ctl, staff>>
    PROVE  Outcome(p)
<1>0. TypeInv
  BY DEF IInv
<1>1. pc'[p] = "done" /\ answer'[p] = "error" /\ shown' = shown
  BY <1>0 DEF End, TypeInv
<1>2. Quiet(p)
  BY <1>0, <1>1 DEF Quiet, TypeInv, Stages, End
<1> QED  BY <1>1, <1>2, EndStep DEF Early

(* The response is sent.                                                   *)
LEMMA SendStatusStep ==
    ASSUME IInv, NEW p, p \in Jobs, SendStatus(p),
           UNCHANGED <<call, data, before, faults, ctl, staff>>
    PROVE  Outcome(p)
<1>0. TypeInv /\ JobInv(p)
  BY DEF IInv
<1> DEFINE s == IF answer[p] = "ok" THEN "ok" ELSE "failed"
<1>1. /\ UNCHANGED <<rows, req, copy, made, told, shown, pc, answer, managed>>
      /\ status' = [status EXCEPT ![p] = s] /\ pc[p] = "done" /\ answer[p] # "none"
      /\ status[p] = "none" /\ Name(p) # "updateBulk"
  BY DEF SendStatus, SqlUnchanged, Respond, Answered
<1>2. status'[p] = s /\ s \in {"ok", "failed"} /\ (s = "failed" => answer[p] = "error")
  BY <1>0, <1>1 DEF TypeInv
<1> HIDE DEF s
<1>3. Quiet(p)
  BY <1>0, <1>1, <1>2 DEF Quiet, TypeInv
<1>4. JobInv(p)'
  <2>1. PageOK(p)' /\ AdmittedOK(p)' /\ StageOK(p)'
    BY <1>0, <1>1, <1>2, <1>3, QuietFrame DEF JobInv, PageOK, AdmittedOK, StageOK
  <2>2. PermitOK(p)' /\ BulkOK(p)'
    BY <1>0, <1>1, <1>2, <1>3, QuietFrame DEF JobInv, PermitOK, BulkOK, ToldOf
  <2>3. ShownOK(p)'
    BY <1>0, <1>1, <1>3, QuietFrame, JobFacts DEF JobInv, ShownOK
  <2> QED  BY <2>1, <2>2, <2>3 DEF JobInv
<1> QED  BY <1>3, <1>4, QuietOutcome

-----------------------------------------------------------------------------
(* The operations of the record service.                                   *)

(* What a request finds is there, and its user may see it.                 *)
LEMMA AskedFacts ==
    ASSUME IInv, NEW p, p \in Jobs, pc[p] = "find", NEW i, i \in Asked(p)
    PROVE  /\ i \in Ids /\ Used(i)
           /\ Op(p) \in {"getAll", "findById"} => MaySee(p, i)
<1>0. TypeInv /\ PermitOK(p)
  BY DEF IInv, JobInv
<1>1. /\ i \in VisibleTo(p) /\ Live(i)
      /\ req[p].op = "findById" => i = IF Name(p) = "findMe" THEN Me(p) ELSE req[p].id
  BY DEF Asked
<1>2. i \in Ids
  BY <1>1 DEF VisibleTo, NewsfeedsFor, UsersFor, ChatsFor
<1>3. ASSUME Op(p) \in {"getAll", "findById"} PROVE MaySee(p, i)
  <2>1. CASE ctl = "newsfeed"
    <3>1. i \in NewsfeedsFor(p)
      BY <1>1, <1>3, <2>1 DEF VisibleTo, Op
    <3>2. IsAdmin(p) \/ rows[i].cols["by"] \in {Me(p), By[Me(p)]} \cup managed[p]
      BY <3>1 DEF NewsfeedsFor
    <3>3. managed[p] \subseteq {u \in Users : By[u] = Me(p)}
      BY <1>0 DEF PermitOK
    <3> QED  BY <2>1, <3>2, <3>3 DEF MaySee, Related
  <2>2. CASE ctl = "user"
    <3>1. CASE Op(p) = "getAll"
      <4>1. i \in UsersFor(p)
        BY <1>1, <2>2, <3>1 DEF VisibleTo, Op
      <4> QED  BY <2>2, <4>1 DEF UsersFor, Mine, MaySee
    <3>2. CASE Op(p) = "findById"
      <4>1. Name(p) \in {"findMe", "findByUid"}
        BY <1>0, <2>2, <3>2, JobRoute
      <4> QED  BY <1>0, <1>1, <2>2, <3>2, <4>1 DEF PermitOK, MaySee, Op
    <3> QED  BY <1>3, <3>1, <3>2
  <2>3. CASE ctl = "chat"
    <3>1. Name(p) \in {"getMine", "getMessages", "findById"}
      BY <1>0, <1>3, <2>3, JobRoute
    <3>2. Name(p) # "findById" => i \in ChatsFor(p)
      BY <1>1, <2>3, <3>1 DEF VisibleTo
    <3> QED  BY <2>3, <3>2 DEF ChatsFor, MaySee
  <2> QED  BY <2>1, <2>2, <2>3 DEF MaySee
<1> QED  BY <1>1, <1>2, <1>3 DEF Used, Live

(* Rows are shown.                                                         *)
LEMMA ShowStep ==
    ASSUME IInv, NEW p, p \in Jobs, Op(p) \in Reads, NEW S, S \subseteq Asked(p), Show(p, S),
           UNCHANGED <<managed, status, told, data, req, before, call, faults, ctl, staff>>
    PROVE  Outcome(p)
<1>0. TypeInv /\ JobInv(p)
  BY DEF IInv
<1>1. /\ pc[p] = "find" /\ pc' = [pc EXCEPT ![p] = "after"] /\ answer' = answer
      /\ shown' = [shown EXCEPT ![p] = S] /\ UNCHANGED <<rows, copy, made>>
  BY DEF Show
<1>2. pc'[p] = "after" /\ shown'[p] = S /\ answer[p] = "none" /\ status[p] = "none"
  BY <1>0, <1>1 DEF TypeInv, JobInv, AdmittedOK
<1>3. S \subseteq Ids
  BY <1>1, AskedFacts
<1>4. Quiet(p)
  BY <1>0, <1>1, <1>2, <1>3 DEF Quiet, TypeInv, Stages
<1>5. JobInv(p)'
  <2>1. PageOK(p)' /\ AdmittedOK(p)' /\ StageOK(p)'
    BY <1>0, <1>1, <1>2, <1>4, QuietFrame DEF JobInv, PageOK, AdmittedOK, StageOK, Reads, Early
  <2>2. PermitOK(p)'
    BY <1>0, <1>1, <1>2, <1>4, QuietFrame DEF JobInv, PermitOK, Reads
  <2>3. BulkOK(p)'
    BY <1>0, <1>1, <1>2, <1>4, QuietFrame, JobRoute DEF BulkOK, ToldOf, Reads
  <2>4. ShownOK(p)'
    BY <1>0, <1>1, <1>2, <1>3, <1>4, QuietFrame, AskedFacts DEF ShownOK
  <2> QED  BY <2>1, <2>2, <2>3, <2>4 DEF JobInv
<1> QED  BY <1>4, <1>5, QuietOutcome

(* getAll, countAll, findOne and findById.                                 *)
LEMMA ReadStep ==
    ASSUME IInv, NEW p, p \in Jobs, req[p].op \in Reads, Read(p),
           UNCHANGED <<managed, status, told, data, req, before, call, faults, ctl, staff>>
    PROVE  Outcome(p)
<1>1. \/ \E S \in SUBSET Asked(p) : Show(p, S)
      \/ End(p, "error") /\ pc[p] = "find" /\ UNCHANGED <<rows, copy, made>>
  <2>1. CASE req[p].op = "getAll"
    BY <2>1 DEF Read, ShowPage
  <2>2. CASE req[p].op = "countAll"
    BY <2>2 DEF Read
  <2>3. CASE req[p].op \in {"findOne", "findById"}
    <3>1. ShowOne(p, Asked(p))
      BY <2>3 DEF Read
    <3> QED  BY <3>1 DEF ShowOne
  <2> QED  BY <2>1, <2>2, <2>3 DEF Reads
<1>2. Op(p) \in Reads
  BY DEF Op
<1> QED  BY <1>1, <1>2, ShowStep, ErrorStep

(* @IsUnique looks for the value.                                          *)
LEMMA ValidateStep ==
    ASSUME IInv, NEW p, p \in Jobs, SqlValidate(p),
           UNCHANGED <<managed, status, told, data, req, before, call, faults, ctl, staff>>
    PROVE  Outcome(p)
<1>0. TypeInv /\ JobInv(p)
  BY DEF IInv
<1>1. pc[p] = "check" /\ UNCHANGED <<rows, copy, made>> /\ (AfterCheck(p) \/ End(p, "error"))
  BY DEF SqlValidate, SqlUnchanged
<1>2. ASSUME AfterCheck(p) PROVE Outcome(p)
  <2>1. Op(p) = "create" /\ answer[p] = "none" /\ status[p] = "none" /\ made[p] = {}
    BY <1>0, <1>1 DEF JobInv, StageOK, AdmittedOK, Early
  <2>2. pc' = [pc EXCEPT ![p] = "write"] /\ UNCHANGED <<answer, shown>>
    BY <1>2, <2>1 DEF AfterCheck, GoTo, Op
  <2>3. pc'[p] = "write"
    BY <1>0, <2>2 DEF TypeInv
  <2>4. Quiet(p)
    BY <1>0, <1>1, <2>2, <2>3 DEF Quiet, TypeInv, Stages
  <2>5. Op(p) \notin Reads /\ ctl # "setting"
    BY <1>0, <2>1, JobRoute DEF Reads
  <2>6. PermitOK(p)'
    BY <1>0, <1>1, <2>1, <2>3, <2>4, QuietFrame DEF PermitOK, JobInv
  <2> QED  BY <1>1, <2>1, <2>2, <2>3, <2>4, <2>5, <2>6, EarlyStep DEF Early
<1> QED  BY <1>1, <1>2, ErrorStep DEF Early

(* The row is read again after the save.                                   *)
LEMMA RereadStep ==
    ASSUME IInv, NEW p, p \in Jobs, Reread(p),
           UNCHANGED <<managed, status, told, req, before, call, faults, ctl, staff>>
    PROVE  Outcome(p)
<1>0. TypeInv /\ JobInv(p)
  BY DEF IInv
<1> DEFINE S == {i \in {copy[p].id} : Live(i)}
<1>1. pc[p] = "reread" /\ Op(p) \in {"create", "update", "delete"}
  BY <1>0, JobFacts DEF Reread, SqlReread, JobInv, StageOK, Ops
<1>2. /\ pc' = [pc EXCEPT ![p] = "after"] /\ answer' = answer
      /\ shown' = [shown EXCEPT ![p] = S] /\ UNCHANGED <<rows, copy, made>>
      /\ data' = [data EXCEPT ![p] = rows[copy[p].id].cols]
  BY <1>1 DEF Reread, SqlReread, SqlUnchanged, Hooked, Op
<1>3. S \subseteq Ids
  BY <1>0, JobFacts
<1> HIDE DEF S
<1>4. pc'[p] = "after" /\ shown'[p] = S /\ data'[p] \in [Cols -> Vals]
  <2>1. rows[copy[p].id] \in Row
    BY <1>0, JobFacts DEF TypeInv
  <2>2. rows[copy[p].id].cols \in [Cols -> Vals]
    BY <2>1 DEF Row
  <2> QED  BY <1>0, <1>2, <2>2 DEF TypeInv
<1>5. Quiet(p)
  BY <1>0, <1>2, <1>3, <1>4 DEF Quiet, TypeInv, Stages
<1>6. JobInv(p)'
  <2>1. PageOK(p)' /\ AdmittedOK(p)' /\ StageOK(p)'
    BY <1>0, <1>1, <1>2, <1>4, <1>5, QuietFrame
       DEF JobInv, PageOK, AdmittedOK, StageOK, Reads, Early
  <2>2. PermitOK(p)' /\ BulkOK(p)'
    BY <1>0, <1>1, <1>2, <1>4, <1>5, QuietFrame DEF JobInv, PermitOK, BulkOK, ToldOf, Untold
  <2>3. ShownOK(p)'
    BY <1>0, <1>1, <1>5, QuietFrame DEF ShownOK
  <2> QED  BY <2>1, <2>2, <2>3 DEF JobInv
<1> QED  BY <1>5, <1>6, QuietOutcome

(* The after hooks, and the answer.                                        *)
LEMMA AfterHooksStep ==
    ASSUME IInv, NEW p, p \in Jobs, SqlAfterHooks(p),
           UNCHANGED <<managed, status, told, data, req, before, call, faults, ctl, staff>>
    PROVE  Outcome(p)
<1>0. TypeInv /\ JobInv(p)
  BY DEF IInv
<1>1. /\ pc[p] = "after" /\ pc' = [pc EXCEPT ![p] = "done"]
      /\ answer' = [answer EXCEPT ![p] = "ok"] /\ UNCHANGED <<rows, copy, made, shown>>
  BY DEF SqlAfterHooks, End, SqlUnchanged
<1>2. pc'[p] = "done" /\ answer'[p] = "ok" /\ status[p] = "none"
  BY <1>0, <1>1 DEF TypeInv, JobInv, AdmittedOK
<1>3. Quiet(p)
  BY <1>0, <1>1, <1>2 DEF Quiet, TypeInv, Stages
<1>4. JobInv(p)'
  <2>1. PageOK(p)' /\ AdmittedOK(p)' /\ StageOK(p)'
    BY <1>0, <1>1, <1>2, <1>3, QuietFrame DEF JobInv, PageOK, AdmittedOK, StageOK, Early
  <2>2. PermitOK(p)' /\ BulkOK(p)'
    BY <1>0, <1>1, <1>2, <1>3, QuietFrame DEF JobInv, PermitOK, BulkOK, ToldOf, Untold
  <2>3. ShownOK(p)'
    BY <1>0, <1>1, <1>3, QuietFrame, JobFacts DEF JobInv, ShownOK
  <2> QED  BY <2>1, <2>2, <2>3 DEF JobInv
<1> QED  BY <1>3, <1>4, QuietOutcome

-----------------------------------------------------------------------------
(* Steps that find a row to be saved, and that write.                      *)

(* The variables that such a step leaves alone.                            *)
Others(p) ==
    /\ UNCHANGED <<req, told, data, before, faults, ctl, call, staff, status, managed, answer,
                   shown>>
    /\ pc'[p] \in {"write", "reread", "after"} /\ pc' = [pc EXCEPT ![p] = pc'[p]]
    /\ copy'[p] \in [id : Ids, row : Row] /\ copy' = [copy EXCEPT ![p] = copy'[p]]
    /\ made'[p] \subseteq AnyBody /\ made' = [made EXCEPT ![p] = made'[p]]

(* What is left to show of it.                                             *)
LEMMA WriteOutcome ==
    ASSUME IInv, NEW p, p \in Jobs, Others(p), RowsKept,
           pc[p] \in {"find", "write"}, Op(p) \notin Reads,
           pc'[p] = "write" => made' = made,
           PermitOK(p)', BulkOK(p)'
    PROVE  Outcome(p)
<1>0. TypeInv /\ JobInv(p)
  BY DEF IInv
<1>1. TypeInv'
  <2>1. rows' \in [Ids -> Row]
    BY DEF RowsKept
  <2>2. pc' \in [Jobs -> Stages]
    <3>1. pc \in [Jobs -> Stages] /\ pc'[p] \in Stages /\ pc' = [pc EXCEPT ![p] = pc'[p]]
      BY <1>0 DEF TypeInv, Others, Stages
    <3> QED  BY <3>1
  <2>3. copy' \in [Jobs -> [id : Ids, row : Row]]
    BY <1>0 DEF TypeInv, Others
  <2>4. made' \in [Jobs -> SUBSET AnyBody]
    BY <1>0 DEF TypeInv, Others
  <2> QED  BY <1>0, <2>1, <2>2, <2>3, <2>4 DEF TypeInv, Others
<1>2. \A q \in Jobs \ {p} : Same(q)
  BY <1>0 DEF TypeInv, Others, Same
<1>3. PageOK(p)'
  BY <1>0 DEF Others, JobInv, PageOK, Op
<1>4. AdmittedOK(p)' /\ StageOK(p)'
  BY <1>0 DEF Others, JobInv, AdmittedOK, StageOK, Op, Name, Who, Me, IsAdmin, Early
<1>5. ShownOK(p)'
  BY <1>0, JobFacts DEF Others, JobInv, ShownOK, RowsKept, Op, MaySee, Me, IsAdmin, Name
<1> QED  BY <1>1, <1>2, <1>3, <1>4, <1>5 DEF Outcome, JobInv, Others

(* The row of an update or delete is found.                                *)
LEMMA FoundStep ==
    ASSUME IInv, NEW p, p \in Jobs, Op(p) \in {"update", "delete"}, pc[p] = "find",
           Op(p) = "update" => Live(req[p].id),
           copy' = [copy EXCEPT ![p] = [id |-> req[p].id, row |-> rows[req[p].id]]],
           GoTo(p, "write"), UNCHANGED <<rows, made>>,
           UNCHANGED <<managed, status, told, data, req, before, call, faults, ctl, staff>>
    PROVE  Outcome(p)
<1>0. TypeInv /\ JobInv(p) /\ req[p].id \in Ids
  BY JobFacts DEF IInv
<1>1. /\ pc'[p] = "write" /\ copy'[p] = [id |-> req[p].id, row |-> rows[req[p].id]]
      /\ pc' = [pc EXCEPT ![p] = "write"] /\ UNCHANGED <<answer, shown>>
  BY <1>0 DEF TypeInv, GoTo
<1>2. Others(p)
  BY <1>0, <1>1 DEF Others, TypeInv
<1>3. RowsKept
  BY <1>0 DEF RowsKept, TypeInv, Used, Live
<1>4. PermitOK(p)'
  BY <1>0, <1>1 DEF JobInv, PermitOK, Op, Name, Me, IsAdmin
<1>5. BulkOK(p)'
  <2>1. ctl = "setting" => Op(p) = "update"
    BY <1>0, JobRoute DEF Reads
  <2> QED  BY <1>0, <1>1, <2>1 DEF JobInv, BulkOK, ToldOf, Untold, Live, Name
<1> QED  BY <1>1, <1>2, <1>3, <1>4, <1>5, WriteOutcome DEF Reads

(* A statement on one row.                                                 *)
LEMMA WriteFacts ==
    ASSUME TypeInv, NEW p, p \in Jobs, Op(p) \in {"update", "delete"},
           NEW i, i \in Ids, NEW new, new \in [Ids -> Row], Write(p, {i}, new)
    PROVE  /\ rows' \in [Ids -> Row]
           /\ \A j \in Ids : rows'[j] = rows[j] \/ (j = i /\ rows'[j] = new[i])
           /\ made' = [made EXCEPT ![p] = made'[p]]
           /\ made'[p] \in {made[p], made[p] \cup {req[p].body}}
           /\ Stored(i) => made'[p] = made[p] \cup {req[p].body}
           /\ made'[p] \subseteq AnyBody
<1> DEFINE hit == {j \in {i} : Stored(j)}
           m == IF hit = {} THEN made[p] ELSE made[p] \cup {req[p].body}
<1>1. rows' = [j \in Ids |-> IF j \in hit THEN new[j] ELSE rows[j]]
  BY DEF Write
<1>2. PartsOf(req[p]) = {req[p].body}
  BY DEF PartsOf, Op
<1>3. made' = [made EXCEPT ![p] = m]
  BY <1>2 DEF Write, TypeInv
<1>4. made'[p] = m
  BY <1>3 DEF TypeInv
<1>5. req[p].body \in AnyBody /\ made[p] \subseteq AnyBody
  BY JobFacts DEF TypeInv
<1>6. rows' \in [Ids -> Row]
  BY <1>1 DEF TypeInv
<1>7. \A j \in Ids : rows'[j] = rows[j] \/ (j = i /\ rows'[j] = new[i])
  BY <1>1
<1>8. Stored(i) => hit # {}
  OBVIOUS
<1>9. /\ m \in {made[p], made[p] \cup {req[p].body}} /\ m \subseteq AnyBody
      /\ Stored(i) => m = made[p] \cup {req[p].body}
  BY <1>5, <1>8
<1> HIDE DEF hit, m
<1> QED  BY <1>3, <1>4, <1>6, <1>7, <1>9

(* The save of an update.                                                  *)
LEMMA SaveStep ==
    ASSUME IInv, NEW p, p \in Jobs, Op(p) = "update", SqlSave(p),
           GoTo(p, "reread"),
           UNCHANGED <<managed, status, told, data, req, before, call, faults, ctl, staff>>
    PROVE  Outcome(p)
<1>0. TypeInv /\ JobInv(p) /\ copy[p].id \in Ids /\ req[p].body \in Bodies
  BY JobFacts DEF IInv
<1> DEFINE new == Rewritten(req[p].body, SqlChanged(p))
<1>1. /\ pc[p] = "write" /\ Write(p, {copy[p].id}, new) /\ copy' = copy
      /\ pc' = [pc EXCEPT ![p] = "reread"] /\ UNCHANGED <<answer, shown>>
  BY DEF SqlSave, GoTo
<1>2. /\ \A i \in Ids : /\ new[i] \in Row /\ new[i].is = rows[i].is
                        /\ new[i].cols["by"] = rows[i].cols["by"]
                        /\ new[i].cols["to"] = rows[i].cols["to"]
      /\ new \in [Ids -> Row]
  <2>1. \A i \in Ids : /\ new[i] \in Row /\ new[i].is = rows[i].is
                       /\ new[i].cols["by"] = rows[i].cols["by"]
                       /\ new[i].cols["to"] = rows[i].cols["to"]
    BY <1>0, RewrittenRow DEF TypeInv
  <2>2. new = [i \in Ids |-> new[i]]
    BY DEF Rewritten
  <2> HIDE DEF new
  <2> QED  BY <2>1, <2>2
<1> HIDE DEF new
<1>4. pc'[p] = "reread"
  BY <1>0, <1>1 DEF TypeInv
<1>5. /\ rows' \in [Ids -> Row]
      /\ \A j \in Ids : rows'[j] = rows[j] \/ (j = copy[p].id /\ rows'[j] = new[copy[p].id])
      /\ made' = [made EXCEPT ![p] = made'[p]]
      /\ made'[p] \in {made[p], made[p] \cup {req[p].body}}
      /\ Stored(copy[p].id) => made'[p] = made[p] \cup {req[p].body}
      /\ made'[p] \subseteq AnyBody
  BY <1>0, <1>1, <1>2, WriteFacts
<1>6. Others(p)
  BY <1>0, <1>1, <1>4, <1>5 DEF Others, TypeInv
<1>7. RowsKept
  BY <1>2, <1>5 DEF RowsKept, Used, Live
<1>8. PermitOK(p)'
  BY <1>0, <1>1, <1>4 DEF JobInv, PermitOK, Op, Name, Me, IsAdmin
<1>9. BulkOK(p)'
  <2>1. ASSUME Name(p) = "updateBulk" PROVE made'[p] = made[p] \cup {req[p].body}
    <3>1. ctl = "setting"
      BY <1>0, <2>1, JobRoute
    <3> QED  BY <1>0, <1>1, <1>5, <3>1 DEF JobInv, BulkOK, ToldOf, Stored, Live
  <2> QED  BY <1>0, <1>1, <1>4, <2>1 DEF JobInv, BulkOK, ToldOf, AdmittedOK, Untold, Name
<1> QED  BY <1>1, <1>4, <1>6, <1>7, <1>8, <1>9, WriteOutcome DEF Reads

(* A soft or hard delete.                                                  *)
LEMMA DestroyStep ==
    ASSUME IInv, NEW p, p \in Jobs, Op(p) = "delete", SqlDestroy(p),
           UNCHANGED <<managed, status, told, data, req, before, call, faults, ctl, staff>>
    PROVE  Outcome(p)
<1>0. TypeInv /\ JobInv(p) /\ copy[p].id \in Ids
  BY JobFacts DEF IInv
<1> DEFINE mark == IF req[p].hard THEN "gone" ELSE "deleted"
           new == Marked(mark)
<1>1. /\ pc[p] = "write" /\ Write(p, {copy[p].id}, new) /\ copy' = copy
      /\ pc' = [pc EXCEPT ![p] = "after"] /\ UNCHANGED <<answer, shown>>
  BY DEF SqlDestroy, Finish, GoTo, Hooked, Op
<1>2. /\ \A i \in Ids : new[i] \in Row /\ new[i].is = mark /\ new[i].cols = rows[i].cols
      /\ new \in [Ids -> Row] /\ mark \in {"deleted", "gone"}
  <2>1. mark \in {"deleted", "gone"}
    OBVIOUS
  <2> HIDE DEF mark
  <2>2. \A i \in Ids : new[i] \in Row /\ new[i].is = mark /\ new[i].cols = rows[i].cols
    BY <1>0, <2>1, MarkedRow DEF TypeInv
  <2>3. new = [i \in Ids |-> new[i]]
    BY DEF Marked
  <2> HIDE DEF new
  <2> QED  BY <2>1, <2>2, <2>3
<1> HIDE DEF new, mark
<1>4. pc'[p] = "after"
  BY <1>0, <1>1 DEF TypeInv
<1>5. /\ rows' \in [Ids -> Row]
      /\ \A j \in Ids : rows'[j] = rows[j] \/ (j = copy[p].id /\ rows'[j] = new[copy[p].id])
      /\ made' = [made EXCEPT ![p] = made'[p]]
      /\ made'[p] \in {made[p], made[p] \cup {req[p].body}}
      /\ Stored(copy[p].id) => made'[p] = made[p] \cup {req[p].body}
      /\ made'[p] \subseteq AnyBody
  <2>1. new \in [Ids -> Row] /\ Op(p) \in {"update", "delete"}
    BY <1>2
  <2> QED  BY <1>0, <1>1, <2>1, WriteFacts
<1>6. Others(p)
  BY <1>0, <1>1, <1>4, <1>5 DEF Others, TypeInv
<1>7. ctl # "setting" /\ Name(p) # "updateBulk"
  BY <1>0, JobRoute DEF Reads
<1>8. RowsKept
  BY <1>2, <1>5, <1>7 DEF RowsKept, Used
<1>9. PermitOK(p)'
  BY <1>0, <1>1 DEF JobInv, PermitOK, Op, Name, Me, IsAdmin
<1>10. BulkOK(p)'
  BY <1>7 DEF BulkOK, ToldOf, Name
<1> QED  BY <1>1, <1>4, <1>6, <1>8, <1>9, <1>10, WriteOutcome DEF Reads

(* An insert.                                                              *)
LEMMA CreateStep ==
    ASSUME IInv, NEW p, p \in Jobs, Op(p) = "create", SqlCreate(p),
           UNCHANGED <<managed, status, told, data, req, before, call, faults, ctl, staff>>
    PROVE  Outcome(p)
<1>0. TypeInv /\ JobInv(p) /\ req[p].body \in [Cols -> Vals] /\ req[p].body \in AnyBody
  BY JobFacts DEF IInv
<1> DEFINE new == NewRow(req[p].body)
<1>1. PICK i \in Ids : /\ rows[i].is = "free" /\ rows' = [rows EXCEPT ![i] = new]
                       /\ copy' = [copy EXCEPT ![p] = [id |-> i, row |-> new]]
  BY DEF SqlCreate, SqlInsert, Insert
<1>2. /\ pc[p] = "write" /\ pc' = [pc EXCEPT ![p] = "reread"] /\ UNCHANGED <<answer, shown>>
      /\ made' = [made EXCEPT ![p] = made[p] \cup {req[p].body}]
  BY <1>0 DEF SqlCreate, SqlInsert, Insert, GoTo, TypeInv
<1>3. new \in Row
  BY <1>0 DEF NewRow, Row
<1> HIDE DEF new
<1>4. /\ pc'[p] = "reread" /\ copy'[p] = [id |-> i, row |-> new]
      /\ made'[p] = made[p] \cup {req[p].body} /\ made[p] \subseteq AnyBody
  BY <1>0, <1>1, <1>2 DEF TypeInv
<1>5. Others(p)
  BY <1>0, <1>1, <1>2, <1>3, <1>4 DEF Others, TypeInv
<1>6. RowsKept
  BY <1>0, <1>1, <1>3 DEF RowsKept, Used, Live, TypeInv
<1>7. ctl # "setting" /\ Name(p) # "updateBulk"
  BY <1>0, JobRoute DEF Reads
<1>8. PermitOK(p)'
  BY <1>0, <1>4 DEF JobInv, PermitOK, Op, Name, Me, IsAdmin
<1>9. BulkOK(p)'
  BY <1>7 DEF BulkOK, ToldOf, Name
<1> QED  BY <1>2, <1>4, <1>5, <1>6, <1>8, <1>9, WriteOutcome DEF Reads

(* updateRecord and deleteRecord.                                          *)
LEMMA FindOrWriteStep ==
    ASSUME IInv, NEW p, p \in Jobs,
           (req[p].op = "update" /\ SqlUpdate(p)) \/ (req[p].op = "delete" /\ SqlDelete(p)),
           UNCHANGED <<managed, status, told, data, req, before, call, faults, ctl, staff>>
    PROVE  Outcome(p)
<1> DEFINE i == req[p].id
<1>1. ASSUME NEW S, FindAmong(p, S, "error"), S \subseteq {i}, Op(p) \in {"update", "delete"},
             Op(p) = "update" => \A j \in S : Live(j)
      PROVE  Outcome(p)
  <2>1. pc[p] = "find" /\ UNCHANGED <<rows, made>>
    BY <1>1 DEF FindAmong
  <2>2. CASE S = {} /\ UNCHANGED copy /\ End(p, "error")
    BY <2>1, <2>2, ErrorStep
  <2>3. CASE /\ \E j \in S : copy' = [copy EXCEPT ![p] = [id |-> j, row |-> rows[j]]]
             /\ GoTo(p, "write")
    <3>1. i \in S /\ copy' = [copy EXCEPT ![p] = [id |-> i, row |-> rows[i]]]
      BY <1>1, <2>3
    <3> QED  BY <1>1, <2>1, <2>3, <3>1, FoundStep
  <2> QED  BY <1>1, <2>2, <2>3 DEF FindAmong
<1>2. CASE req[p].op = "update" /\ SqlUpdate(p)
  <2>1. CASE FindAmong(p, {j \in {i} : Live(j)}, "error")
    BY <1>1, <1>2, <2>1 DEF Op
  <2>2. CASE SqlSave(p) /\ GoTo(p, "reread")
    BY <1>2, <2>2, SaveStep DEF Op
  <2> QED  BY <1>2, <2>1, <2>2 DEF SqlUpdate
<1>3. CASE req[p].op = "delete" /\ SqlDelete(p)
  <2>1. CASE FindAmong(p, {j \in {i} : Live(j) \/ (req[p].hard /\ Stored(j))}, "error")
    BY <1>1, <1>3, <2>1 DEF Op
  <2>2. CASE SqlDestroy(p)
    BY <1>3, <2>2, DestroyStep DEF Op
  <2> QED  BY <1>3, <2>1, <2>2 DEF SqlDelete
<1> QED  BY <1>2, <1>3

(* The record service at work.                                             *)
LEMMA OperateStep ==
    ASSUME IInv, NEW p, p \in Jobs, Operate(p), UNCHANGED <<call, before, faults, ctl, staff>>
    PROVE  Outcome(p)
<1>1. UNCHANGED <<managed, status, told, req>>
  BY DEF Operate
<1>2. CASE Reread(p)
  BY <1>1, <1>2, RereadStep
<1>3. CASE ~Reread(p)
  <2>1. UNCHANGED data
    BY <1>3 DEF Operate
  <2>2. CASE req[p].op \in Reads /\ Read(p)
    BY <1>1, <2>1, <2>2, ReadStep
  <2>3. CASE req[p].op = "create" /\ SqlCreate(p)
    BY <1>1, <2>1, <2>3, CreateStep DEF Op
  <2>4. CASE \/ req[p].op = "update" /\ SqlUpdate(p)
             \/ req[p].op = "delete" /\ SqlDelete(p)
    BY <1>1, <2>1, <2>4, FindOrWriteStep
  <2>5. CASE SqlValidate(p)
    BY <1>1, <2>1, <2>5, ValidateStep
  <2>6. CASE SqlAfterHooks(p)
    BY <1>1, <2>1, <2>6, AfterHooksStep
  <2> QED  BY <1>3, <2>2, <2>3, <2>4, <2>5, <2>6 DEF Operate
<1> QED  BY <1>2, <1>3

(* updateBulk tells of a setting, and goes on to the next.                 *)
LEMMA NextSettingStep ==
    ASSUME IInv, NEW p, p \in Jobs, NextSetting(p), UNCHANGED <<data, before, faults, ctl, staff>>
    PROVE  Outcome(p)
<1>0. TypeInv /\ JobInv(p)
  BY DEF IInv
<1> DEFINE list == call[p].list
           new == [body |-> req[p].body, row |-> data[p]]
           m == IF answer[p] = "ok" THEN told[p] \cup {new} ELSE told[p]
           bodies == {t.body : t \in m}
<1>1. /\ pc[p] = "done" /\ answer[p] # "none" /\ status[p] = "none"
      /\ Name(p) = "updateBulk" /\ told' = [told EXCEPT ![p] = m]
      /\ UNCHANGED <<rows, copy, made, shown, managed>>
  BY <1>0 DEF NextSetting, Answered, Tell, SqlUnchanged, TypeInv
<1>2. /\ told'[p] = m /\ told' \in [Jobs -> SUBSET Answer] /\ ToldOf(p)' = bodies
      /\ bodies \subseteq made[p] /\ (faults = 0 => made[p] = bodies)
  <2>1. told[p] \subseteq Answer /\ new \in Answer
    BY <1>0, JobFacts DEF TypeInv, Answer
  <2>2. m \subseteq Answer
    BY <2>1
  <2>3. bodies = IF answer[p] = "ok" THEN ToldOf(p) \cup {req[p].body} ELSE ToldOf(p)
    <3>1. new.body = req[p].body
      OBVIOUS
    <3> HIDE DEF new
    <3>2. CASE answer[p] = "ok"
      <4>1. m = told[p] \cup {new}
        BY <3>2
      <4> HIDE DEF m
      <4> QED  BY <3>1, <3>2, <4>1 DEF ToldOf
    <3>3. CASE answer[p] # "ok"
      BY <3>3 DEF ToldOf
    <3> QED  BY <3>2, <3>3
  <2> HIDE DEF m
  <2>4. told'[p] = m /\ told' \in [Jobs -> SUBSET Answer]
    BY <1>0, <1>1, <2>2 DEF TypeInv
  <2>5. ToldOf(p)' = bodies
    BY <2>4 DEF ToldOf
  <2> HIDE DEF bodies
  <2>6. bodies \subseteq made[p] /\ (faults = 0 => made[p] = bodies)
    BY <1>0, <1>1, <2>3 DEF JobInv, BulkOK, ToldOf, Untold
  <2> QED  BY <2>4, <2>5, <2>6
<1>3. ctl = "setting" /\ Op(p) = "update" /\ Op(p) \notin Reads
  BY <1>0, <1>1, JobRoute DEF Reads
<1>4. RowsKept
  BY <1>0, <1>1 DEF RowsKept, TypeInv, Used, Live
<1> HIDE DEF m, new, bodies
<1>5. CASE list = <<>>
  <2>1. status' = [status EXCEPT ![p] = "ok"] /\ UNCHANGED <<pc, answer, req, call>>
    BY <1>5 DEF NextSetting, Respond
  <2>2. status'[p] = "ok"
    BY <1>0, <2>1 DEF TypeInv
  <2>3. TypeInv'
    BY <1>0, <1>1, <1>2, <2>1 DEF TypeInv
  <2>4. \A q \in Jobs \ {p} : Same(q)
    BY <1>0, <1>1, <2>1 DEF TypeInv, Same
  <2> USE DEF Op, Name, Who, Me, IsAdmin
  <2>5. PageOK(p)' /\ AdmittedOK(p)' /\ StageOK(p)'
    BY <1>0, <1>1, <1>3, <2>1, <2>2 DEF JobInv, PageOK, AdmittedOK, StageOK
  <2>6. PermitOK(p)' /\ ShownOK(p)'
    BY <1>0, <1>1, <1>3, <2>1 DEF JobInv, PermitOK, ShownOK, Reads
  <2>7. BulkOK(p)'
    <3>1. Untold(p)' = Untold(p) /\ (Untold(p) => req[p].body \in made[p])
      BY <1>0, <1>1, <2>1 DEF JobInv, BulkOK, ToldOf, Untold
    <3> QED  BY <1>1, <1>2, <2>1, <3>1 DEF BulkOK, ToldOf
  <2> QED  BY <1>4, <2>3, <2>4, <2>5, <2>6, <2>7 DEF Outcome, JobInv
<1>6. CASE list # <<>>
  <2> DEFINE r == [req[p] EXCEPT !.id = Head(list).id, !.body = Head(list).body]
             c == [call[p] EXCEPT !.list = Tail(list)]
  <2>1. list \in Seq(Setting) /\ Head(list) \in Setting /\ Tail(list) \in Seq(Setting)
    <3>1. list \in Seq(Setting)
      BY <1>0, JobFacts
    <3> HIDE DEF list
    <3> QED  BY <1>6, <3>1
  <2>2. /\ req' = [req EXCEPT ![p] = r] /\ call' = [call EXCEPT ![p] = c]
        /\ pc' = [pc EXCEPT ![p] = "find"] /\ answer' = [answer EXCEPT ![p] = "none"]
        /\ status' = status
    BY <1>0, <1>6 DEF NextSetting, TypeInv
  <2>3. /\ c \in [route : Controllers[ctl], user : Users, list : Seq(Setting)]
        /\ c.route = call[p].route /\ c.user = call[p].user
    <3>1. call[p] \in [route : Controllers[ctl], user : Users, list : Seq(Setting)]
      BY <1>0 DEF TypeInv
    <3> QED  BY <2>1, <3>1
  <2>4. r \in Request("update") /\ r.op = "update"
    <3>1. req[p] \in Request("update")
      BY <1>0, <1>3, JobFacts
    <3>2. Head(list).id \in Ids /\ Head(list).body \in Bodies
      BY <2>1 DEF Setting
    <3> HIDE DEF list
    <3> QED  BY <3>1, <3>2 DEF Request
  <2> HIDE DEF r, c
  <2>5. req'[p] = r /\ call'[p] = c /\ pc'[p] = "find" /\ answer'[p] = "none"
    BY <1>0, <2>2 DEF TypeInv
  <2>6. TypeInv'
    <3>1. req' \in [Jobs -> UNION {Request(op) : op \in Ops}]
      <4>1. r \in UNION {Request(op) : op \in Ops}
        BY <2>4 DEF Ops
      <4> QED  BY <1>0, <2>2, <4>1 DEF TypeInv
    <3>2. \A q \in Jobs : req'[q] \in Request(call'[q].route.op)
      <4>1. call[p].route.op = "update"
        BY <1>0, <1>3, JobFacts
      <4> QED  BY <1>0, <2>2, <2>3, <2>4, <4>1 DEF TypeInv
    <3>3. call' \in [Jobs -> [route : Controllers[ctl], user : Users, list : Seq(Setting)]]
      BY <1>0, <2>2, <2>3 DEF TypeInv
    <3>4. pc' \in [Jobs -> Stages] /\ answer' \in [Jobs -> {"none", "ok", "error"}]
      BY <1>0, <2>2 DEF TypeInv, Stages
    <3> QED  BY <1>0, <1>1, <1>2, <2>2, <3>1, <3>2, <3>3, <3>4 DEF TypeInv
  <2>7. \A q \in Jobs \ {p} : Same(q)
    BY <1>0, <1>1, <2>2 DEF TypeInv, Same
  <2>8. /\ Op(p)' = Op(p) /\ Name(p)' = Name(p) /\ Who(p)' = Who(p) /\ Me(p)' = Me(p)
        /\ IsAdmin(p)' = IsAdmin(p)
    BY <1>3, <2>3, <2>4, <2>5 DEF Op, Name, Who, Me, IsAdmin
  <2>9. PageOK(p)' /\ AdmittedOK(p)' /\ StageOK(p)'
    BY <1>0, <1>1, <1>3, <2>2, <2>5, <2>8 DEF JobInv, PageOK, AdmittedOK, StageOK, Early
  <2>10. PermitOK(p)' /\ ShownOK(p)'
    BY <1>0, <1>1, <1>3, <2>8 DEF JobInv, PermitOK, ShownOK, Reads
  <2>11. BulkOK(p)'
    BY <1>1, <1>2, <1>3, <2>5, <2>8 DEF BulkOK, ToldOf, Untold
  <2> QED  BY <1>4, <2>6, <2>7, <2>9, <2>10, <2>11 DEF Outcome, JobInv
<1> QED  BY <1>5, <1>6

-----------------------------------------------------------------------------
(* The invariant.                                                          *)

(* Users join and leave.                                                   *)
LEMMA StaffStep ==
    ASSUME IInv, StaffChanges
    PROVE  IInv'
<1>1. UNCHANGED <<rows, req, pc, copy, made, answer, shown, before, faults, ctl, call, managed,
                  status, data, told>>
  BY DEF StaffChanges
<1>2. staff' \subseteq Users
  BY UsersAssumption DEF StaffChanges, IInv, TypeInv
<1>3. TypeInv'
  BY <1>1, <1>2 DEF IInv, TypeInv
<1>4. ASSUME NEW p, p \in Jobs PROVE JobInv(p)'
  <2>1. JobInv(p)
    BY <1>4 DEF IInv
  <2> USE DEF Op, Name, Who, Me, IsAdmin
  <2>2. PageOK(p)' /\ AdmittedOK(p)' /\ StageOK(p)' /\ PermitOK(p)'
    BY <1>1, <2>1 DEF JobInv, PageOK, AdmittedOK, StageOK, PermitOK, Used
  <2>3. ShownOK(p)' /\ BulkOK(p)'
    BY <1>1, <2>1 DEF JobInv, ShownOK, BulkOK, ToldOf, Used, MaySee, Untold, Live
  <2> QED  BY <2>2, <2>3 DEF JobInv
<1> QED  BY <1>3, <1>4 DEF IInv

(* Nothing has happened.                                                   *)
LEMMA InitInv == Init => IInv
<1> SUFFICES ASSUME Init PROVE IInv
  OBVIOUS
<1>1. PICK c \in Calls[ctl] : /\ call = [p \in Jobs |-> c[p].call]
                              /\ req = [p \in Jobs |-> c[p].req]
  BY DEF Init
<1>2. /\ ctl \in DOMAIN Controllers
      /\ \A p \in Jobs :
           /\ call[p] \in [route : Controllers[ctl], user : Users, list : Seq(Setting)]
           /\ req[p] \in Request(call[p].route.op)
  BY <1>1, CallsAssumption DEF Init
<1>3. rows \in [Ids -> Row]
  BY TablesAssumption DEF Init
<1>4. \A p \in Jobs : call[p].route.op \in Ops
  BY <1>2, RouteFacts
<1>5. \A p \in Jobs : req[p].id \in Ids
  <2>1. ASSUME NEW p, p \in Jobs PROVE req[p].id \in Ids
    <3>1. req[p] \in Request(call[p].route.op)
      BY <1>2, <2>1
    <3> QED  BY <3>1 DEF Request
  <2> QED  BY <2>1
<1>6. TypeInv
  <2>1. call \in [Jobs -> [route : Controllers[ctl], user : Users, list : Seq(Setting)]]
    BY <1>1, <1>2
  <2>2. req \in [Jobs -> UNION {Request(op) : op \in Ops}]
    <3>1. \A p \in Jobs : req[p] \in UNION {Request(op) : op \in Ops}
      BY <1>2, <1>4
    <3> QED  BY <1>1, <3>1
  <2>3. copy \in [Jobs -> [id : Ids, row : Row]]
    BY <1>3, <1>5 DEF Init
  <2>4. data \in [Jobs -> [Cols -> Vals]]
    <3>1. \A p \in Jobs : copy[p].row \in Row
      BY <2>3
    <3>2. \A p \in Jobs : copy[p].row.cols \in [Cols -> Vals]
      BY <3>1 DEF Row
    <3> QED  BY <3>2 DEF Init
  <2> QED  BY <1>2, <1>3, <2>1, <2>2, <2>3, <2>4, RecordsAssumption DEF Init, TypeInv, Stages
<1>7. ASSUME NEW p, p \in Jobs PROVE JobInv(p)
  <2>1. /\ pc[p] = "idle" /\ shown[p] = {} /\ made[p] = {} /\ told[p] = {}
        /\ answer[p] = "none" /\ status[p] = "none" /\ managed[p] = {}
    BY <1>7 DEF Init
  <2>2. PageOK(p) /\ AdmittedOK(p) /\ StageOK(p) /\ ShownOK(p)
    BY <2>1 DEF PageOK, AdmittedOK, StageOK, ShownOK, Early
  <2>3. PermitOK(p) /\ BulkOK(p)
    BY <2>1 DEF PermitOK, BulkOK, ToldOf, Untold
  <2> QED  BY <2>2, <2>3 DEF JobInv
<1> QED  BY <1>6, <1>7 DEF IInv

(* Every step keeps the invariant.                                         *)
LEMMA NextInv == IInv /\ [Next]_vars => IInv'
<1> SUFFICES ASSUME IInv, [Next]_vars PROVE IInv'
  OBVIOUS
<1>1. ASSUME NEW p, p \in Jobs, Arrive(p) PROVE IInv'
  BY <1>1, ArriveStep, OutcomeKeeps
<1>2. ASSUME NEW p, p \in Jobs, RequestStep(p) PROVE IInv'
  <2>1. UNCHANGED <<before, faults, ctl, staff>>
    BY <1>2 DEF RequestStep
  <2>2. CASE ChatAccess(p) /\ UNCHANGED <<call, data>>
    BY <1>2, <2>1, <2>2, ChatAccessStep, OutcomeKeeps
  <2>3. CASE ReadManaged(p) /\ UNCHANGED <<call, data>>
    BY <1>2, <2>1, <2>3, ReadManagedStep, OutcomeKeeps
  <2>4. CASE Permit(p) /\ UNCHANGED <<call, data>>
    BY <1>2, <2>1, <2>4, PermitStep, OutcomeKeeps
  <2>5. CASE NoId(p) /\ UNCHANGED <<call, data>>
    <3>1. End(p, "error") /\ pc[p] = "noid" /\ UNCHANGED <<rows, req, copy, made, told,
                                                           status, managed>>
      BY <2>5 DEF NoId, SqlUnchanged
    <3> QED  BY <1>2, <2>1, <2>5, <3>1, ErrorStep, OutcomeKeeps DEF Early
  <2>6. CASE Operate(p) /\ UNCHANGED call
    BY <1>2, <2>1, <2>6, OperateStep, OutcomeKeeps
  <2>7. CASE SendStatus(p) /\ UNCHANGED <<call, data>>
    BY <1>2, <2>1, <2>7, SendStatusStep, OutcomeKeeps
  <2>8. CASE NextSetting(p) /\ UNCHANGED data
    BY <1>2, <2>1, <2>8, NextSettingStep, OutcomeKeeps
  <2> QED  BY <1>2, <2>2, <2>3, <2>4, <2>5, <2>6, <2>7, <2>8 DEF RequestStep
<1>3. ASSUME NEW p, p \in Jobs, CallFails(p) \/ Crash(p), UNCHANGED hVars PROVE IInv'
  BY <1>3, FaultStep, OutcomeKeeps
<1>4. CASE StaffChanges
  BY <1>4, StaffStep
<1>5. CASE UNCHANGED vars
  <2>1. UNCHANGED <<rows, req, pc, copy, made, answer, shown, before, faults, ctl, call, staff,
                    managed, status, data, told>>
    BY <1>5 DEF vars
  <2> USE DEF Op, Name, Who, Me, IsAdmin
  <2>2. TypeInv'
    BY <2>1 DEF IInv, TypeInv
  <2>3. ASSUME NEW p, p \in Jobs PROVE JobInv(p)'
    <3>1. JobInv(p)
      BY <2>3 DEF IInv
    <3>2. PageOK(p)' /\ AdmittedOK(p)' /\ StageOK(p)' /\ PermitOK(p)'
      BY <2>1, <3>1 DEF JobInv, PageOK, AdmittedOK, StageOK, PermitOK, Used
    <3>3. ShownOK(p)' /\ BulkOK(p)'
      BY <2>1, <3>1 DEF JobInv, ShownOK, BulkOK, ToldOf, Used, MaySee, Untold, Live
    <3> QED  BY <3>2, <3>3 DEF JobInv
  <2> QED  BY <2>2, <2>3 DEF IInv
<1> QED  BY <1>1, <1>2, <1>3, <1>4, <1>5 DEF Next

(* The invariant holds of every state: what a request has been permitted   *)
(* stays so while other requests are served and users come and go.         *)
THEOREM Invariant == Spec => []IInv
  BY InitInv, NextInv, PTL DEF Spec

(* Every variable keeps its type, and the body of an update of a page      *)
(* names no "name" (PageService.doBeforeUpdate).                           *)
THEOREM TypeCorrect == Spec => []TypeOK
<1>1. IInv => TypeOK
  <2> SUFFICES ASSUME IInv PROVE TypeOK
    OBVIOUS
  <2>1. TypeInv
    BY DEF IInv
  <2>2. ASSUME NEW p, p \in Jobs
        PROVE  /\ call[p].route \in Controllers[ctl] /\ call[p].user \in Users
               /\ req[p].op = call[p].route.op /\ req[p].id \in Ids
               /\ DOMAIN req[p].body \subseteq Cols
               /\ ctl = "page" /\ req[p].op = "update" /\ pc[p] \notin {"idle", "done"}
                     => "name" \notin DOMAIN req[p].body
               /\ copy[p].id \in Ids /\ copy[p].row \in Row
               /\ shown[p] \subseteq Ids /\ managed[p] \subseteq Users
    <3>1. DOMAIN req[p].body \subseteq Cols
      <4>1. CASE Op(p) = "create"
        BY <2>1, <2>2, <4>1, JobFacts
      <4>2. CASE Op(p) # "create"
        <5>1. PICK cs \in SUBSET (Cols \ {"by", "to"}) : req[p].body \in [cs -> Vals]
          BY <2>1, <2>2, <4>2, JobFacts DEF Bodies
        <5> QED  BY <5>1
      <4> QED  BY <4>1, <4>2
    <3>2. PageOK(p)
      BY <2>2 DEF IInv, JobInv
    <3>3. managed[p] \subseteq Users
      BY <2>1, <2>2 DEF TypeInv
    <3> QED  BY <2>1, <2>2, <3>1, <3>2, <3>3, JobFacts DEF PageOK, Op, Me
  <2> QED  BY <2>1, <2>2 DEF TypeInv, TypeOK, Stages
<1> QED  BY <1>1, Invariant, PTL

(* What a request has changed, its user may change: the guards stand       *)
(* before every save, and the newsfeed that is saved has the creator of    *)
(* the one that was looked at two awaits earlier (NewsfeedService.update). *)
THEOREM ChangeCorrect == Spec => []ChangedByThoseWhoMay
<1>1. IInv => ChangedByThoseWhoMay
  <2> SUFFICES ASSUME IInv, NEW p, p \in Jobs, made[p] # {}
               PROVE  /\ ctl \in ForAdmins => IsAdmin(p)
                      /\ ctl = "newsfeed" /\ req[p].op # "create" =>
                            IsAdmin(p) \/ copy[p].row.cols["by"] = Me(p)
    BY DEF ChangedByThoseWhoMay
  <2>1. TypeInv /\ JobInv(p)
    BY DEF IInv
  <2>2. Op(p) \notin Reads /\ pc[p] # "idle" /\ status[p] # "refused"
    BY <2>1 DEF JobInv, AdmittedOK, StageOK
  <2>3. ctl \in ForAdmins => IsAdmin(p)
    BY <2>1, <2>2, JobRoute DEF JobInv, AdmittedOK
  <2>4. Op(p) \in {"create", "update", "delete"}
    BY <2>1, <2>2, JobFacts DEF Ops
  <2> QED  BY <2>1, <2>3, <2>4 DEF JobInv, PermitOK, Op
<1> QED  BY <1>1, Invariant, PTL

(* What the lists of newsfeeds, users and chats show to a user, and the    *)
(* finds by id that have a rule, is related to the user, whatever the query*)
(* asks and whoever joins or leaves before the list is read                *)
(* (NewsfeedService, UserService, ChatService).  Nothing is claimed of the *)
(* counts, GET find and GET /chat/:id, which show any row to anyone.       *)
THEOREM ShownCorrect == Spec => []ShownToThoseWhoMay
<1>1. IInv => ShownToThoseWhoMay
  BY DEF IInv, JobInv, ShownOK, MaySee, ShownToThoseWhoMay, Op
<1> QED  BY <1>1, Invariant, PTL

(* A request that is answered with an error has changed nothing, unless a  *)
(* call failed (SqlService, core.responses).                               *)
THEOREM FailureCorrect == Spec => []FailedChangedNothing
<1>1. IInv => FailedChangedNothing
  <2> SUFFICES ASSUME IInv, NEW p, p \in Jobs, status[p] \in {"failed", "refused"},
                      made[p] # {}
               PROVE  faults > 0
    BY DEF FailedChangedNothing
  <2>1. AdmittedOK(p) /\ StageOK(p) /\ faults \in Nat
    BY DEF IInv, JobInv, TypeInv
  <2>2. faults # 0
    BY <2>1 DEF AdmittedOK, StageOK
  <2> QED  BY <2>1, <2>2
<1> QED  BY <1>1, Invariant, PTL

-----------------------------------------------------------------------------
(* What updateBulk tells.                                                  *)

(* Of each update of a setting: what the row holds when it is saved, when  *)
(* it is read again and when it is told, is what was read, or asked, or was*)
(* written beside.                                                         *)
Kept(p) ==
    \A c \in Cols : LET v == rows[copy[p].id].cols[c]
                    IN v = copy[p].row.cols[c] \/ WrittenBeside(p, c, v)
Reading(p) == pc[p] = "after" \/ (pc[p] = "done" /\ answer[p] = "ok")
ToldOK(p) ==
    /\ \A q \in before[p] : Ended(q)
    /\ pc[p] = "write" => Kept(p)
    /\ pc[p] = "reread" => AsAsked(p, req[p].body, rows[copy[p].id].cols)
    /\ Op(p) = "update" /\ Reading(p) => AsAsked(p, req[p].body, data[p])
    /\ \A t \in told[p] : AsAsked(p, t.body, t.row)
ToldInv == ctl = "setting" => \A p \in Jobs : ToldOK(p)

(* What the step of a job is to the others: it takes back nothing it has   *)
(* written, a value that is new in a row is one it has asked, and one that *)
(* has ended writes no more.                                               *)
Adds(p) ==
    /\ made[p] \subseteq made'[p]
    /\ \A i \in Ids, c \in Cols :
          \/ rows'[i].cols[c] = rows[i].cols[c]
          \/ \E b \in made'[p] : c \in DOMAIN b /\ b[c] = rows'[i].cols[c]
    /\ Ended(p) => Ended(p)' /\ rows' = rows

(* What was written beside a job stays so.                                 *)
LEMMA BesideStays ==
    ASSUME NEW p \in Jobs, Adds(p), \A r \in Jobs \ {p} : Same(r),
           NEW q \in Jobs, before'[q] = before[q], NEW c, NEW v, WrittenBeside(q, c, v)
    PROVE  WrittenBeside(q, c, v)'
<1>1. PICK r \in Jobs \ {q} : /\ r \notin before[q]
                              /\ \E b \in made[r] : c \in DOMAIN b /\ b[c] = v
  BY DEF WrittenBeside
<1>2. made[r] \subseteq made'[r]
  BY DEF Adds, Same
<1> QED  BY <1>1, <1>2 DEF WrittenBeside

(* So a step of another job keeps what is known of a job.                  *)
LEMMA OthersTold ==
    ASSUME TypeInv, NEW p \in Jobs, Adds(p), \A r \in Jobs \ {p} : Same(r),
           NEW q \in Jobs, q # p, ToldOK(q)
    PROVE  ToldOK(q)'
<1>1. /\ Same(q) /\ before'[q] = before[q] /\ before[q] \subseteq Jobs
      /\ copy[q].id \in Ids /\ req[q].body \in AnyBody
  BY JobFacts DEF TypeInv, Same
<1>2. \A r \in before'[q] : Ended(r)'
  <2>1. ASSUME NEW r \in before[q] PROVE Ended(r)'
    <3>1. r \in Jobs /\ Ended(r)
      BY <1>1 DEF ToldOK
    <3> QED  BY <3>1 DEF Adds, Same, Ended, Answered
  <2> QED  BY <1>1, <2>1
<1>3. \A c, v : WrittenBeside(q, c, v) => WrittenBeside(q, c, v)'
  BY <1>1, BesideStays
<1>4. ASSUME NEW c \in Cols, NEW v, v = rows'[copy[q].id].cols[c],
             v # rows[copy[q].id].cols[c]
      PROVE  WrittenBeside(q, c, v)'
  <2>1. PICK b \in made'[p] : c \in DOMAIN b /\ b[c] = v
    BY <1>1, <1>4 DEF Adds
  <2>2. ~Ended(p)
    BY <1>4 DEF Adds
  <2>3. p \notin before'[q]
    BY <1>1, <2>2 DEF ToldOK
  <2> QED  BY <2>1, <2>3 DEF WrittenBeside
<1>5. ASSUME pc'[q] = "write"
      PROVE  Kept(q)'
  <2>1. ASSUME NEW c \in Cols, NEW v, v = rows'[copy[q].id].cols[c]
        PROVE  v = copy[q].row.cols[c] \/ WrittenBeside(q, c, v)'
    <3>1. CASE v = rows[copy[q].id].cols[c]
      <4>1. v = copy[q].row.cols[c] \/ WrittenBeside(q, c, v)
        BY <1>1, <1>5, <3>1 DEF ToldOK, Kept, Same
      <4> QED  BY <1>3, <4>1
    <3>2. CASE v # rows[copy[q].id].cols[c]
      BY <1>4, <2>1, <3>2
    <3> QED  BY <3>1, <3>2
  <2> QED  BY <1>1, <2>1 DEF Kept, Same
<1>6. ASSUME pc'[q] = "reread"
      PROVE  AsAsked(q, req[q].body, rows[copy[q].id].cols)'
  <2>1. ASSUME NEW c \in DOMAIN req[q].body, NEW v, v = rows'[copy[q].id].cols[c]
        PROVE  v = req[q].body[c] \/ WrittenBeside(q, c, v)'
    <3>1. CASE v = rows[copy[q].id].cols[c]
      <4>1. v = req[q].body[c] \/ WrittenBeside(q, c, v)
        BY <1>1, <1>6, <3>1 DEF ToldOK, AsAsked, Same
      <4> QED  BY <1>3, <4>1
    <3>2. CASE v # rows[copy[q].id].cols[c]
      <4>1. c \in Cols
        BY <1>1 DEF AnyBody, Bodies
      <4> QED  BY <1>4, <2>1, <3>2, <4>1
    <3> QED  BY <3>1, <3>2
  <2> QED  BY <1>1, <2>1 DEF AsAsked, Same
<1>7. Op(q)' = "update" /\ Reading(q)' => AsAsked(q, req[q].body, data[q])'
  <2> SUFFICES ASSUME Op(q)' = "update", Reading(q)', NEW c \in DOMAIN req[q].body
               PROVE  data[q][c] = req[q].body[c] \/ WrittenBeside(q, c, data[q][c])'
    BY <1>1 DEF AsAsked, Same
  <2> QED  BY <1>1, <1>3 DEF ToldOK, AsAsked, Same, Op, Reading
<1>8. \A t \in told'[q] : AsAsked(q, t.body, t.row)'
  <2> SUFFICES ASSUME NEW t \in told[q], NEW c \in DOMAIN t.body
               PROVE  t.row[c] = t.body[c] \/ WrittenBeside(q, c, t.row[c])'
    BY <1>1 DEF AsAsked, Same
  <2> QED  BY <1>1, <1>3 DEF ToldOK, AsAsked
<1> QED  BY <1>2, <1>5, <1>6, <1>7, <1>8 DEF ToldOK

(* What the steps below have in common: job p moves and no other.          *)
Alone(p) == IInv /\ ToldOK(p) /\ Outcome(p) /\ ctl = "setting"

(* What was written beside it does not change with its own steps.          *)
LEMMA OwnStep ==
    ASSUME NEW p \in Jobs, Alone(p), before' = before, Adds(p)
    PROVE  /\ \A c, v : WrittenBeside(p, c, v) => WrittenBeside(p, c, v)'
           /\ \A q \in before'[p] : Ended(q)'
<1>1. ASSUME NEW c, NEW v, WrittenBeside(p, c, v)
      PROVE  WrittenBeside(p, c, v)'
  BY <1>1 DEF WrittenBeside, Alone, Outcome, Same
<1>2. ASSUME NEW q \in before[p]
      PROVE  Ended(q)'
  <2>1. q \in Jobs /\ Ended(q)
    BY DEF Alone, ToldOK, IInv, TypeInv
  <2> QED  BY <2>1 DEF Alone, Outcome, Same, Adds, Ended, Answered
<1> QED  BY <1>1, <1>2

(* A step that writes no row and reads none for a save.                    *)
LEMMA StillTold ==
    ASSUME NEW p \in Jobs, Alone(p), UNCHANGED <<rows, made, told, data, before, copy>>,
           req'[p] = req[p], pc'[p] \notin {"write", "reread"},
           Op(p) = "update" /\ Reading(p)' => Reading(p),
           Ended(p) => Ended(p)'
    PROVE  Adds(p) /\ ToldOK(p)'
<1>1. Adds(p)
  BY DEF Adds
<1>2. AsAsked(p, req[p].body, data[p]) => AsAsked(p, req[p].body, data[p])'
  BY <1>1, OwnStep DEF AsAsked
<1>3. \A t \in told'[p] : AsAsked(p, t.body, t.row)'
  <2> SUFFICES ASSUME NEW t \in told[p], NEW c \in DOMAIN t.body
               PROVE  t.row[c] = t.body[c] \/ WrittenBeside(p, c, t.row[c])'
    BY DEF AsAsked
  <2> QED  BY <1>1, OwnStep DEF Alone, ToldOK, AsAsked
<1> QED  BY <1>1, <1>2, <1>3, OwnStep DEF Alone, ToldOK, Op

(* A request arrives.                                                      *)
LEMMA ArriveTold ==
    ASSUME NEW p \in Jobs, Alone(p), Arrive(p)
    PROVE  Adds(p) /\ ToldOK(p)'
<1>0. TypeInv /\ JobInv(p) /\ ctl = "setting"
  BY DEF Alone, IInv
<1>1. /\ UNCHANGED <<rows, made, told>> /\ pc[p] = "idle" /\ told[p] = {}
      /\ answer' = answer /\ answer[p] = "none"
      /\ before' = [before EXCEPT ![p] = {q \in Jobs : Ended(q)}]
  BY <1>0 DEF Arrive, GoTo, JobInv, AdmittedOK, TypeInv
<1>2. pc'[p] \notin {"write", "reread", "after"}
  <2>1. CASE MayCall(p)
    <3>1. PICK l \in {"access", FirstCall(p)} : pc' = [pc EXCEPT ![p] = l]
      BY <2>1 DEF Arrive, GoTo
    <3>2. pc'[p] = l
      BY <1>0, <3>1 DEF TypeInv
    <3> QED  BY <1>0, <3>2, FirstCallFacts
  <2>2. CASE ~MayCall(p)
    <3>1. pc' = [pc EXCEPT ![p] = "done"]
      BY <2>2 DEF Arrive
    <3> QED  BY <1>0, <3>1 DEF TypeInv
  <2> QED  BY <2>1, <2>2
<1>3. \A q \in before'[p] : Ended(q)'
  BY <1>0, <1>1 DEF TypeInv, Alone, Outcome, Same, Ended, Answered
<1> QED  BY <1>1, <1>2, <1>3 DEF Adds, ToldOK, Reading, Ended

(* The guards, and what is looked at first; the response; a failure.       *)
LEMMA GuardTold ==
    ASSUME NEW p \in Jobs, Alone(p), UNCHANGED <<data, before>>,
           ChatAccess(p) \/ ReadManaged(p) \/ Permit(p) \/ NoId(p) \/ SendStatus(p)
    PROVE  Adds(p) /\ ToldOK(p)'
<1>0. TypeInv /\ JobInv(p) /\ ctl = "setting"
  BY DEF Alone, IInv
<1>1. UNCHANGED <<rows, copy, made, told, req>>
  BY DEF ChatAccess, ReadManaged, Permit, NoId, SendStatus, SqlUnchanged
<1>2. CASE ChatAccess(p) \/ ReadManaged(p) \/ Permit(p) \/ NoId(p)
  <2>1. pc[p] \in {"access", "managed", "permit", "noid"} /\ answer[p] = "none"
    BY <1>0, <1>2 DEF ChatAccess, ReadManaged, Permit, NoId, JobInv, AdmittedOK
  <2>2. pc'[p] \notin {"write", "reread", "after"} /\ answer'[p] # "ok"
    BY <1>0, <1>2, <2>1, FirstCallFacts
       DEF ChatAccess, ReadManaged, Permit, NoId, GoTo, End, TypeInv
  <2> QED  BY <1>1, <2>1, <2>2, StillTold DEF Reading, Ended
<1>3. CASE SendStatus(p)
  BY <1>1, <1>3, StillTold DEF SendStatus, Reading, Ended, Answered
<1> QED  BY <1>2, <1>3

LEMMA FaultTold ==
    ASSUME NEW p \in Jobs, Alone(p), CallFails(p) \/ Crash(p), UNCHANGED hVars
    PROVE  Adds(p) /\ ToldOK(p)'
<1>0. TypeInv /\ JobInv(p)
  BY DEF Alone, IInv
<1>1. /\ UNCHANGED <<rows, copy, made, told, data, before, req, status>>
      /\ pc' = [pc EXCEPT ![p] = "done"]
      /\ answer' = answer \/ (pc[p] # "done" /\ answer' = [answer EXCEPT ![p] = "error"])
  BY DEF CallFails, Crash, End, hVars
<1>2. /\ pc'[p] = "done"
      /\ answer'[p] = answer[p] \/ (pc[p] # "done" /\ answer'[p] = "error")
  BY <1>0, <1>1 DEF TypeInv
<1>3. answer[p] = "ok" => pc[p] = "done"
  BY <1>0 DEF JobInv, AdmittedOK
<1> QED  BY <1>1, <1>2, <1>3, StillTold DEF Reading, Ended, Answered

(* The row of a setting is found; its columns are the copy's.              *)
LEMMA FindTold ==
    ASSUME NEW p \in Jobs, Alone(p), Op(p) = "update",
           FindAmong(p, {i \in {req[p].id} : Live(i)}, "error"),
           UNCHANGED <<told, data, before, req, status>>
    PROVE  Adds(p) /\ ToldOK(p)'
<1>0. TypeInv /\ JobInv(p)
  BY DEF Alone, IInv
<1>1. pc[p] = "find" /\ UNCHANGED <<rows, made>>
  BY DEF FindAmong
<1>2. CASE UNCHANGED copy /\ End(p, "error")
  <2>1. pc'[p] = "done" /\ answer'[p] = "error"
    BY <1>0, <1>2 DEF End, TypeInv
  <2> QED  BY <1>1, <1>2, <2>1, StillTold DEF Reading, Ended
<1>3. ASSUME NEW i, copy' = [copy EXCEPT ![p] = [id |-> i, row |-> rows[i]]], GoTo(p, "write")
      PROVE  Adds(p) /\ ToldOK(p)'
  <2>1. copy'[p] = [id |-> i, row |-> rows[i]] /\ pc'[p] = "write"
    BY <1>0, <1>3 DEF GoTo, TypeInv
  <2>2. Adds(p)
    BY <1>1 DEF Adds, Ended
  <2>3. Kept(p)'
    BY <1>1, <2>1 DEF Kept
  <2>4. \A t \in told'[p] : AsAsked(p, t.body, t.row)'
    <3> SUFFICES ASSUME NEW t \in told[p], NEW c \in DOMAIN t.body
                 PROVE  t.row[c] = t.body[c] \/ WrittenBeside(p, c, t.row[c])'
      BY DEF AsAsked
    <3> QED  BY <2>2, OwnStep DEF Alone, ToldOK, AsAsked
  <2> QED  BY <2>1, <2>2, <2>3, <2>4, OwnStep DEF ToldOK, Reading
<1> QED  BY <1>2, <1>3 DEF FindAmong

(* The save: the columns that are asked and were read as asked are left    *)
(* out, and may have been written beside; the others are as asked.         *)
LEMMA SaveTold ==
    ASSUME NEW p \in Jobs, Alone(p), Op(p) = "update", SqlSave(p), GoTo(p, "reread"),
           UNCHANGED <<told, data, before, req, status>>
    PROVE  Adds(p) /\ ToldOK(p)'
<1> DEFINE i == copy[p].id
           body == req[p].body
           cs == SqlChanged(p)
           new == Rewritten(body, cs)
<1>0. TypeInv /\ JobInv(p) /\ i \in Ids /\ body \in Bodies
  BY JobFacts DEF Alone, IInv
<1>1. pc[p] = "write" /\ Write(p, {i}, new) /\ copy' = copy /\ pc'[p] = "reread"
  BY <1>0 DEF SqlSave, GoTo, TypeInv
<1>2. Stored(i)
  BY <1>0, <1>1 DEF Alone, JobInv, BulkOK, Stored, Live
<1>3. rows' = [j \in Ids |-> IF j = i THEN new[j] ELSE rows[j]]
  BY <1>1, <1>2 DEF Write
<1>4. made' = [made EXCEPT ![p] = made[p] \cup {body}]
  <2>1. {j \in {i} : Stored(j)} # {} /\ PartsOf(req[p]) = {body}
    BY <1>2 DEF PartsOf, Op
  <2> HIDE DEF new
  <2> QED  BY <1>0, <1>1, <2>1 DEF Write, TypeInv
<1>5. made'[p] = made[p] \cup {body}
  BY <1>0, <1>4 DEF TypeInv
<1>6. \A j \in Ids, c \in Cols :
         rows'[j].cols[c] = IF j = i /\ c \in cs THEN body[c] ELSE rows[j].cols[c]
  <2> SUFFICES ASSUME NEW j \in Ids, NEW c \in Cols
               PROVE  rows'[j].cols[c] =
                        IF j = i /\ c \in cs THEN body[c] ELSE rows[j].cols[c]
    OBVIOUS
  <2>1. rows[j] \in Row
    BY <1>0 DEF TypeInv
  <2>2. rows[j].cols \in [Cols -> Vals]
    BY <2>1 DEF Row
  <2>3. cs \subseteq DOMAIN body
    BY DEF SqlChanged
  <2> DEFINE over == Over(rows[j].cols, body, cs)
  <2>4. new[j] = [rows[j] EXCEPT !.cols = over]
    BY DEF Rewritten
  <2> HIDE DEF cs, new, over
  <2>5. new[j].cols = over
    BY <2>1, <2>4 DEF Row
  <2>6. over[c] = IF c \in cs THEN body[c] ELSE rows[j].cols[c]
    BY <2>3 DEF Over, over
  <2> QED  BY <1>3, <2>5, <2>6
<1>7. Adds(p)
  <2>1. \A j \in Ids, c \in Cols :
           \/ rows'[j].cols[c] = rows[j].cols[c]
           \/ \E b \in made'[p] : c \in DOMAIN b /\ b[c] = rows'[j].cols[c]
    <3> SUFFICES ASSUME NEW j \in Ids, NEW c \in Cols,
                        rows'[j].cols[c] # rows[j].cols[c]
                 PROVE  c \in DOMAIN body /\ body[c] = rows'[j].cols[c]
      BY <1>5
    <3>1. c \in cs
      BY <1>6
    <3> QED  BY <1>6, <3>1 DEF SqlChanged
  <2> QED  BY <1>1, <1>5, <2>1 DEF Adds, Ended
<1>8. AsAsked(p, req[p].body, rows[copy[p].id].cols)'
  <2>1. ASSUME NEW c \in DOMAIN body, NEW v, v = rows'[i].cols[c]
        PROVE  v = body[c] \/ WrittenBeside(p, c, v)'
    <3>1. c \in Cols
      BY <1>0 DEF Bodies
    <3>2. CASE c \in cs
      BY <1>0, <1>6, <2>1, <3>1, <3>2
    <3>3. CASE c \notin cs
      <4>1. body[c] = copy[p].row.cols[c]
        BY <3>3 DEF SqlChanged
      <4>2. v = rows[i].cols[c]
        BY <1>0, <1>6, <2>1, <3>1, <3>3
      <4>3. v = body[c] \/ WrittenBeside(p, c, v)
        BY <1>1, <3>1, <4>1, <4>2 DEF Alone, ToldOK, Kept
      <4> HIDE DEF cs, body, i
      <4> QED  BY <1>7, <4>3, OwnStep
    <3> QED  BY <3>2, <3>3
  <2> QED  BY <1>1, <2>1 DEF AsAsked
<1>9. \A t \in told'[p] : AsAsked(p, t.body, t.row)'
  <2> SUFFICES ASSUME NEW t \in told[p], NEW c \in DOMAIN t.body
               PROVE  t.row[c] = t.body[c] \/ WrittenBeside(p, c, t.row[c])'
    BY DEF AsAsked
  <2> QED  BY <1>7, OwnStep DEF Alone, ToldOK, AsAsked
<1> QED  BY <1>1, <1>7, <1>8, <1>9, OwnStep DEF ToldOK, Reading

(* The row is read again.                                                  *)
LEMMA RereadTold ==
    ASSUME NEW p \in Jobs, Alone(p), Reread(p), UNCHANGED <<told, before, req, status>>
    PROVE  Adds(p) /\ ToldOK(p)'
<1>0. TypeInv /\ JobInv(p)
  BY DEF Alone, IInv
<1>1. /\ pc[p] = "reread" /\ UNCHANGED <<rows, copy, made>>
      /\ data' = [data EXCEPT ![p] = rows[copy[p].id].cols]
  BY DEF Reread, SqlReread, SqlUnchanged
<1>2. pc'[p] \in {"after", "done"} /\ data'[p] = rows[copy[p].id].cols
  BY <1>0, <1>1 DEF Reread, SqlReread, TypeInv
<1>3. Adds(p)
  BY <1>1 DEF Adds, Ended
<1>4. AsAsked(p, req[p].body, data[p])'
  <2>1. ASSUME NEW c \in DOMAIN req[p].body, NEW v, v = data'[p][c]
        PROVE  v = req[p].body[c] \/ WrittenBeside(p, c, v)'
    <3>1. v = req[p].body[c] \/ WrittenBeside(p, c, v)
      BY <1>1, <1>2, <2>1 DEF Alone, ToldOK, AsAsked
    <3> QED  BY <1>3, <3>1, OwnStep
  <2> QED  BY <2>1 DEF AsAsked
<1>5. \A t \in told'[p] : AsAsked(p, t.body, t.row)'
  <2> SUFFICES ASSUME NEW t \in told[p], NEW c \in DOMAIN t.body
               PROVE  t.row[c] = t.body[c] \/ WrittenBeside(p, c, t.row[c])'
    BY DEF AsAsked
  <2> QED  BY <1>3, OwnStep DEF Alone, ToldOK, AsAsked
<1> QED  BY <1>2, <1>3, <1>4, <1>5, OwnStep DEF ToldOK

(* The record service at work on a setting.                                *)
LEMMA OperateTold ==
    ASSUME NEW p \in Jobs, Alone(p), Operate(p), UNCHANGED before
    PROVE  Adds(p) /\ ToldOK(p)'
<1>0. TypeInv /\ JobInv(p) /\ UNCHANGED <<told, req, status, before>>
      /\ Op(p) \in {"update"} \cup Reads
  BY JobRoute DEF Alone, IInv, Operate
<1>1. CASE Reread(p)
  BY <1>0, <1>1, RereadTold
<1>2. CASE UNCHANGED data /\ req[p].op \in Reads /\ Read(p)
  <2>1. Op(p) # "update"
    BY <1>2 DEF Op, Reads
  <2>2. ASSUME NEW S, Show(p, S)
        PROVE  pc[p] = "find" /\ pc'[p] = "after" /\ UNCHANGED <<rows, copy, made>>
    BY <1>0, <2>2 DEF Show, TypeInv
  <2>3. /\ pc[p] = "find" /\ pc'[p] \in {"after", "done"}
        /\ UNCHANGED <<rows, copy, made>>
    <3>1. CASE \E S : Show(p, S)
      BY <2>2, <3>1
    <3>2. CASE pc[p] = "find" /\ End(p, "error") /\ UNCHANGED <<rows, copy, made, logs>>
      BY <1>0, <3>2 DEF End, TypeInv
    <3>3. \/ ShowPage(p, Asked(p)) \/ Show(p, Asked(p)) \/ ShowOne(p, Asked(p))
      BY <1>2 DEF Read, Reads
    <3> QED  BY <3>1, <3>2, <3>3 DEF ShowPage, ShowOne
  <2> QED  BY <1>0, <1>2, <2>1, <2>3, StillTold DEF Ended
<1>3. CASE UNCHANGED data /\ req[p].op = "update" /\ SqlUpdate(p)
  <2>1. CASE FindAmong(p, {i \in {req[p].id} : Live(i)}, "error")
    BY <1>0, <1>3, <2>1, FindTold DEF Op
  <2>2. CASE SqlSave(p) /\ GoTo(p, "reread")
    BY <1>0, <1>3, <2>2, SaveTold DEF Op
  <2> QED  BY <1>3, <2>1, <2>2 DEF SqlUpdate
<1>4. CASE SqlValidate(p)
  BY <1>0, <1>4 DEF SqlValidate, JobInv, StageOK, Reads
<1>5. CASE UNCHANGED data /\ SqlAfterHooks(p)
  <2>1. pc[p] = "after" /\ pc'[p] = "done" /\ UNCHANGED <<rows, copy, made>>
    BY <1>0, <1>5 DEF SqlAfterHooks, End, SqlUnchanged, TypeInv
  <2> QED  BY <1>0, <1>5, <2>1, StillTold DEF Reading, Ended
<1>6. req[p].op \notin {"create", "delete"}
  BY <1>0 DEF Op, Reads
<1> QED  BY <1>1, <1>2, <1>3, <1>4, <1>5, <1>6 DEF Operate

(* updateBulk tells the row as it was read again.                          *)
LEMMA NextSettingTold ==
    ASSUME NEW p \in Jobs, Alone(p), NextSetting(p), UNCHANGED <<data, before>>
    PROVE  Adds(p) /\ ToldOK(p)'
<1> DEFINE new == [body |-> req[p].body, row |-> data[p]]
           m == IF answer[p] = "ok" THEN told[p] \cup {new} ELSE told[p]
<1>0. TypeInv /\ JobInv(p) /\ Answered(p)
  BY DEF Alone, IInv, NextSetting
<1>1. /\ pc[p] = "done" /\ UNCHANGED <<rows, copy, made>>
      /\ told' = [told EXCEPT ![p] = m]
  BY <1>0 DEF NextSetting, Answered, Tell, SqlUnchanged, TypeInv
<1>2. told'[p] = m
  BY <1>0, <1>1 DEF TypeInv
<1>3. Op(p) = "update"
  BY <1>0, JobRoute DEF NextSetting
<1>4. Adds(p)
  BY <1>0, <1>1 DEF Adds, Ended
<1>5. \A t \in m : AsAsked(p, t.body, t.row)
  BY <1>0, <1>1, <1>3 DEF Alone, ToldOK, Reading
<1> HIDE DEF m
<1>6. \A t \in told'[p] : AsAsked(p, t.body, t.row)'
  <2> SUFFICES ASSUME NEW t \in m, NEW c \in DOMAIN t.body
               PROVE  t.row[c] = t.body[c] \/ WrittenBeside(p, c, t.row[c])'
    BY <1>2 DEF AsAsked
  <2> QED  BY <1>4, <1>5, OwnStep DEF AsAsked
<1>7. CASE call[p].list = <<>>
  <2>1. UNCHANGED <<pc, answer, req>>
    BY <1>7 DEF NextSetting
  <2>2. ~Reading(p)' \/ (Op(p)' = "update" /\ AsAsked(p, req[p].body, data[p])')
    <3>1. ASSUME Reading(p), NEW c \in DOMAIN req[p].body
          PROVE  data[p][c] = req[p].body[c] \/ WrittenBeside(p, c, data[p][c])'
      BY <1>3, <1>4, <3>1, OwnStep DEF Alone, ToldOK, AsAsked
    <3> QED  BY <1>3, <2>1, <3>1 DEF Reading, Op, AsAsked
  <2> QED  BY <1>1, <1>4, <1>6, <2>1, <2>2, OwnStep DEF ToldOK
<1>8. CASE call[p].list # <<>>
  <2>1. pc'[p] = "find"
    BY <1>0, <1>8 DEF NextSetting, TypeInv
  <2> QED  BY <1>4, <1>6, <2>1, OwnStep DEF ToldOK, Reading
<1> QED  BY <1>7, <1>8

(* Every step keeps it.                                                    *)
LEMMA AloneKeeps ==
    ASSUME IInv, ToldInv, NEW p \in Jobs, Outcome(p),
           Alone(p) => Adds(p) /\ ToldOK(p)',
           \A q \in Jobs \ {p} : Same(q)
    PROVE  ToldInv'
<1> SUFFICES ASSUME ctl = "setting" PROVE \A q \in Jobs : ToldOK(q)'
  BY DEF Outcome, ToldInv
<1>1. Adds(p) /\ ToldOK(p)'
  BY DEF Alone, ToldInv
<1>2. ASSUME NEW q \in Jobs, q # p PROVE ToldOK(q)'
  BY <1>1, <1>2, OthersTold DEF IInv, ToldInv
<1> QED  BY <1>1, <1>2

LEMMA NextToldInv == IInv /\ ToldInv /\ [Next]_vars => ToldInv'
<1> SUFFICES ASSUME IInv, ToldInv, [Next]_vars PROVE ToldInv'
  OBVIOUS
<1>1. ASSUME NEW p \in Jobs, Arrive(p) PROVE ToldInv'
  <2>1. Outcome(p)
    BY <1>1, ArriveStep
  <2> QED  BY <1>1, <2>1, ArriveTold, AloneKeeps DEF Outcome
<1>2. ASSUME NEW p \in Jobs, RequestStep(p) PROVE ToldInv'
  <2>1. UNCHANGED <<before, faults, ctl, staff>>
    BY <1>2 DEF RequestStep
  <2>2. CASE /\ ChatAccess(p) \/ ReadManaged(p) \/ Permit(p) \/ NoId(p) \/ SendStatus(p)
             /\ UNCHANGED <<call, data>>
    <3>1. Outcome(p)
      <4>1. CASE NoId(p)
        <5>1. End(p, "error") /\ pc[p] = "noid" /\ UNCHANGED <<rows, req, copy, made, told,
                                                               status, managed>>
          BY <4>1 DEF NoId, SqlUnchanged
        <5> QED  BY <2>1, <2>2, <5>1, ErrorStep DEF Early
      <4> QED  BY <2>1, <2>2, <4>1, ChatAccessStep, ReadManagedStep, PermitStep,
                  SendStatusStep
    <3>2. Alone(p) => Adds(p) /\ ToldOK(p)'
      BY <2>1, <2>2, GuardTold
    <3> QED  BY <3>1, <3>2, AloneKeeps DEF Outcome
  <2>3. CASE Operate(p) /\ UNCHANGED call
    <3>1. Outcome(p)
      BY <2>1, <2>3, OperateStep
    <3>2. Alone(p) => Adds(p) /\ ToldOK(p)'
      BY <2>1, <2>3, OperateTold
    <3> QED  BY <3>1, <3>2, AloneKeeps DEF Outcome
  <2>4. CASE NextSetting(p) /\ UNCHANGED data
    <3>1. Outcome(p)
      BY <2>1, <2>4, NextSettingStep
    <3>2. Alone(p) => Adds(p) /\ ToldOK(p)'
      BY <2>1, <2>4, NextSettingTold
    <3> QED  BY <3>1, <3>2, AloneKeeps DEF Outcome
  <2> QED  BY <1>2, <2>2, <2>3, <2>4 DEF RequestStep
<1>3. ASSUME NEW p \in Jobs, CallFails(p) \/ Crash(p), UNCHANGED hVars PROVE ToldInv'
  <2>1. Outcome(p)
    BY <1>3, FaultStep
  <2> QED  BY <1>3, <2>1, FaultTold, AloneKeeps DEF Outcome
<1>4. CASE StaffChanges \/ UNCHANGED vars
  <2>1. UNCHANGED <<rows, req, pc, copy, made, answer, before, ctl, status, data, told>>
    BY <1>4 DEF StaffChanges, vars
  <2>2. ASSUME NEW p \in Jobs, ToldOK(p) PROVE ToldOK(p)'
    BY <2>1, <2>2 DEF ToldOK, Kept, AsAsked, WrittenBeside, Ended, Answered, Reading, Op
  <2> QED  BY <2>1, <2>2 DEF ToldInv
<1> QED  BY <1>1, <1>2, <1>3, <1>4 DEF Next

THEOREM ToldInvariant == Spec => []ToldInv
<1>1. Init => ToldInv
  BY DEF Init, ToldInv, ToldOK, Reading
<1> QED  BY <1>1, NextToldInv, Invariant, PTL DEF Spec

(* updateBulk tells of no setting that was not written, leaves one out that*)
(* was written only if a call failed after the save, and tells of the row  *)
(* what was asked, or what a request at work beside it has written         *)
(* (SettingService.updateBulk, SqlService.updateRecord).                   *)
THEOREM BulkCorrect == Spec => []BulkTells
<1>1. IInv /\ ToldInv => BulkTells
  <2> SUFFICES ASSUME IInv, ToldInv,
                      NEW p \in Jobs, Name(p) = "updateBulk", status[p] = "ok"
               PROVE  /\ ToldOf(p) \subseteq made[p] /\ (ToldOf(p) # made[p] => faults > 0)
                      /\ \A t \in told[p] : AsAsked(p, t.body, t.row)
    BY DEF BulkTells
  <2>1. BulkOK(p) /\ faults \in Nat /\ TypeInv
    BY DEF IInv, JobInv, TypeInv
  <2>2. ToldOf(p) \subseteq made[p] /\ (ToldOf(p) # made[p] => faults > 0)
    BY <2>1 DEF BulkOK
  <2>3. ToldOK(p)
    BY <2>1, JobRoute DEF ToldInv
  <2> QED  BY <2>2, <2>3 DEF ToldOK
<1> QED  BY <1>1, Invariant, ToldInvariant, PTL
=============================================================================
