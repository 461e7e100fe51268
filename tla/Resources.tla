----------------------------- MODULE Resources -----------------------------
(***************************************************************************)
(* One CRUD controller at work over SqlRecords: guards, what its service   *)
(* adds to ModelService, and the status of the response.  A job is one     *)
(* HTTP request; a row has the column "by", its created_by (of a           *)
(* subscription user_id), and "to", the second user of a chat.             *)
(***************************************************************************)
EXTENDS SqlRecords, Controllers, Sequences

CONSTANTS
    Users, Admins,
    By,         \* created_by of each user; 0 of none
    Movers,     \* users that may join or leave
    Calls       \* what the jobs may ask, for each controller

ASSUME UsersAssumption == /\ Admins \subseteq Users /\ Movers \subseteq Users
                          /\ By \in [Users -> Users \cup {0}]

(* A POST makes a row with all columns, and of these controllers' DTOs only*)
(* a POST's carry @IsUnique.  Any other body names columns that have a     *)
(* validator: the ValidationPipe drops created_by, user_id, user1Id and    *)
(* user2Id.                                                                *)
Bodies == UNION {[cs -> Vals] : cs \in SUBSET (Cols \ {"by", "to"})}
Setting == [id : Ids, body : Bodies]
Request(op) == [op : {op}, id : Ids, where : Vals,
                body : IF op = "create" THEN [Cols -> Vals] ELSE Bodies,
                recs : {{}}, hard : BOOLEAN, checked : {FALSE, op = "create"},
                part : Parts \cup {"none"}]

ASSUME CallsAssumption ==
    \A c \in DOMAIN Calls :
        /\ c \in DOMAIN Controllers
        /\ \A jobs \in Calls[c] : \A p \in Jobs :
              /\ jobs[p].call \in [route : Controllers[c], user : Users, list : Seq(Setting)]
              /\ jobs[p].req \in Request(jobs[p].call.route.op)

(* The columns that hold users are there, in every table to start from.    *)
ASSUME TablesAssumption == /\ {"by", "to"} \subseteq Cols /\ Users \subseteq Vals
                           /\ Tables \subseteq [Ids -> Row]

VARIABLES
    ctl,        \* the controller
    call,       \* of each job: [route, user, list]; list is what 'updateBulk' gets
    staff,      \* users that are there and active
    managed,    \* the users a job has read: those its user has created
    status,     \* of the response
    data,       \* of each job: its row as it was read again after the save
    told        \* the response of updateBulk: what was asked, and the row

hVars == <<ctl, call, staff, managed, status, data, told>>
vars == <<backend, rows, req, pc, copy, made, answer, shown, before, logs, kept,
          faults, ctl, call, staff, managed, status, data, told>>

Me(p) == call[p].user
IsAdmin(p) == Me(p) \in Admins
Name(p) == call[p].route.name
ByUid == {"findByUid", "updateByUid", "deleteByUid"}

Respond(p, s) == status' = [status EXCEPT ![p] = s]

-----------------------------------------------------------------------------
(* What a request may see.                                                 *)
Mine == [p \in Jobs |-> {i \in Ids : rows[i].cols["by"] = Me(p)}]

(* Mutant: those of the creators of all of them, too.                      *)
NewsfeedsOfCreators(p) ==
    LET near == {Me(p), By[Me(p)]} \cup managed[p]
    IN IF IsAdmin(p) THEN Ids
       ELSE {i \in Ids : rows[i].cols["by"] \in near \cup {By[u] : u \in near \ {0}}}

(* NewsfeedService.findAll, getNewsfeedById: newsfeeds of oneself, of the  *)
(* users one has created, of one's creator.                                *)
NewsfeedsFor(p) ==
    IF IsAdmin(p) THEN Ids
    ELSE {i \in Ids : rows[i].cols["by"] \in {Me(p), By[Me(p)]} \cup managed[p]}

(* UserService.findAll: no admins, not oneself; users one has created, and *)
(* one's creator.                                                          *)
UsersFor(p) ==
    {u \in Ids \ (Admins \cup {Me(p)}) : IsAdmin(p) \/ u = By[Me(p)] \/ u \in Mine[p]}

(* ChatService.getMyChats, getChatMessages: of which one is a member.      *)
ChatsFor(p) == {i \in Ids : Me(p) \in {rows[i].cols["by"], rows[i].cols["to"]}}

(* The services that add to what the query asks; a filter of the query on  *)
(* the same columns is written over.                                       *)
VisibleTo(p) ==
    CASE ctl = "newsfeed" /\ req[p].op \in {"getAll", "findById"} -> NewsfeedsFor(p)
      [] ctl = "user" /\ req[p].op = "getAll" -> UsersFor(p)
      [] ctl = "chat" /\ Name(p) \in {"getMine", "getMessages"} -> ChatsFor(p)
      [] OTHER -> Ids

Asked(p) ==
    {i \in VisibleTo(p) :
       /\ Live(i)
       /\ Name(p) = "getMine" /\ ctl # "chat" => i \in Mine[p]
       /\ req[p].op = "findById" => i = IF Name(p) = "findMe" THEN Me(p) ELSE req[p].id
       /\ req[p].op # "findById" => Is(i, req[p].where)}

Read(p) == CASE req[p].op = "getAll" -> ShowPage(p, Asked(p))
             [] req[p].op = "countAll" -> Show(p, Asked(p))
             [] req[p].op \in {"findOne", "findById"} -> ShowOne(p, Asked(p))

-----------------------------------------------------------------------------
(* The guards, then the pipes, then the handler.                           *)
MayCall(p) == CASE call[p].route.who = "public" -> TRUE
                [] call[p].route.who = "admin" -> Me(p) \in staff \cap Admins
                [] OTHER -> Me(p) \in staff

(* Who is to be found first: the users one manages, or the row one asks    *)
(* to change or see.                                                       *)
FirstCall(p) ==
    CASE ctl = "newsfeed" /\ req[p].op \in {"getAll", "findById"} /\ ~IsAdmin(p) -> "managed"
      [] ctl = "newsfeed" /\ Name(p) \in {"update", "deleteByUid"} /\ ~IsAdmin(p) -> "permit"
      [] ctl = "user" /\ Name(p) = "findByUid" -> "permit"
      [] ctl = "chat" /\ Name(p) = "getMessages" -> "permit"
      [] ctl # "user" /\ Name(p) \in ByUid -> "noid"
      [] OTHER -> IF req[p].checked THEN "check"
                  ELSE IF req[p].op = "create" THEN "write" ELSE "find"

(* Mutant: the name is not left out.                                       *)
WholeBody(p) == req[p].body

(* PageService.doBeforeUpdate.                                             *)
PageBody(p) == [c \in DOMAIN req[p].body \ {"name"} |-> req[p].body[c]]

(* createRecord: created_by is the owner.                                  *)
NewBody(p) == [req[p].body EXCEPT !["by"] = Me(p)]

BodyOf(p) == CASE ctl = "page" /\ req[p].op = "update" -> PageBody(p)
               [] req[p].op = "create" -> NewBody(p)
               [] OTHER -> req[p].body

(* A job whose record service has answered, and that has not responded;    *)
(* and one that has come to its end.                                       *)
Answered(p) == pc[p] = "done" /\ answer[p] # "none" /\ status[p] = "none"
Ended(p) == pc[p] = "done" /\ ~Answered(p)

(* JwtAuthGuard and RolesGuard.                                            *)
Arrive(p) ==
    /\ pc[p] = "idle"
    /\ before' = [before EXCEPT ![p] = {q \in Jobs : Ended(q)}]
    /\ IF MayCall(p)
       THEN /\ GoTo(p, IF call[p].route.who = "chat" /\ ~IsAdmin(p) THEN "access"
                       ELSE FirstCall(p))
            /\ req' = [req EXCEPT ![p].body = BodyOf(p)] /\ status' = status
       ELSE /\ pc' = [pc EXCEPT ![p] = "done"] /\ Respond(p, "refused")
            /\ UNCHANGED <<req, answer, shown>>
    /\ UNCHANGED <<backend, rows, copy, made, logs, kept, faults,
                   ctl, call, staff, managed, data, told>>

(* ChatAccessGuard: checkChatAccess, which Subscription models, says yes   *)
(* or no.                                                                  *)
ChatAccess(p) ==
    /\ pc[p] = "access"
    /\ \/ GoTo(p, FirstCall(p)) /\ status' = status
       \/ pc' = [pc EXCEPT ![p] = "done"] /\ Respond(p, "refused") /\ UNCHANGED <<answer, shown>>
    /\ SqlUnchanged(p) /\ UNCHANGED <<managed, told, req>>

(* User.findAll: those whom the user has created and who are there.        *)
ReadManaged(p) ==
    /\ pc[p] = "managed"
    /\ managed' = [managed EXCEPT ![p] = {u \in staff : By[u] = Me(p)}]
    /\ GoTo(p, "find")
    /\ SqlUnchanged(p) /\ UNCHANGED <<status, told, req>>

(* Mutant: who sees a newsfeed may change it.                              *)
PermittedToSee(p) ==
    CASE ctl = "newsfeed" -> {i \in Ids : rows[i].cols["by"] \in {Me(p), By[Me(p)]}}
      [] ctl = "user" -> {u \in Ids : IsAdmin(p) \/ u = By[Me(p)] \/ u \in Mine[p]}
      [] ctl = "chat" -> ChatsFor(p)

(* The row must be one's own (newsfeed), visible (user) or one's chat.     *)
Permitted(p) ==
    CASE ctl = "newsfeed" -> Mine[p]
      [] ctl = "user" -> {u \in Ids : IsAdmin(p) \/ u = By[Me(p)] \/ u \in Mine[p]}
      [] ctl = "chat" -> ChatsFor(p)

Permit(p) ==
    /\ pc[p] = "permit"
    /\ IF Live(req[p].id) /\ req[p].id \in Permitted(p)
       THEN GoTo(p, IF Name(p) = "deleteByUid" THEN "noid" ELSE "find")
       ELSE End(p, "error")
    /\ SqlUnchanged(p) /\ UNCHANGED <<managed, status, told, req>>

(* findRecordById, updateRecord, deleteRecord without an id.               *)
NoId(p) == /\ pc[p] = "noid" /\ End(p, "error")
           /\ SqlUnchanged(p) /\ UNCHANGED <<managed, status, told, req>>

-----------------------------------------------------------------------------
(* ModelService gives a create or update an include, be it an empty one, so*)
(* that the row is always read again after the save.                       *)
Reread(p) == SqlReread(p) /\ data' = [data EXCEPT ![p] = rows[copy[p].id].cols]

Operate(p) ==
    /\ \/ /\ \/ req[p].op \in Reads /\ Read(p)
             \/ req[p].op = "create" /\ SqlCreate(p)
             \/ req[p].op = "update" /\ SqlUpdate(p)
             \/ req[p].op = "delete" /\ SqlDelete(p)
             \/ SqlValidate(p) \/ SqlAfterHooks(p)
          /\ data' = data
       \/ Reread(p)
    /\ UNCHANGED <<managed, status, told, req>>

(* Result, Created, NotFound, ErrorResponse.                               *)
SendStatus(p) ==
    /\ Answered(p) /\ Name(p) # "updateBulk"
    /\ Respond(p, IF answer[p] = "ok" THEN "ok" ELSE "failed")
    /\ SqlUnchanged(p) /\ UNCHANGED <<pc, answer, shown, managed, told, req>>

(* Mutant: the row as it was found.                                        *)
TellFound(p) ==
    told' = [told EXCEPT ![p] =
               IF answer[p] = "ok"
               THEN @ \cup {[body |-> req[p].body, row |-> copy[p].row.cols]} ELSE @]

(* updateBulk pushes response.data: nothing for a setting that failed.     *)
Tell(p) ==
    told' = [told EXCEPT ![p] =
               IF answer[p] = "ok" THEN @ \cup {[body |-> req[p].body, row |-> data[p]]} ELSE @]

(* SettingService.updateBulk: one update after the other, and no error.    *)
NextSetting(p) ==
    LET list == call[p].list
    IN /\ Answered(p) /\ Name(p) = "updateBulk"
       /\ Tell(p)
       /\ IF list = <<>>
          THEN Respond(p, "ok") /\ UNCHANGED <<pc, answer, req, call>>
          ELSE /\ req' = [req EXCEPT ![p].id = Head(list).id, ![p].body = Head(list).body]
               /\ call' = [call EXCEPT ![p].list = Tail(list)]
               /\ pc' = [pc EXCEPT ![p] = "find"]
               /\ answer' = [answer EXCEPT ![p] = "none"]
               /\ status' = status
       /\ SqlUnchanged(p) /\ UNCHANGED <<shown, managed>>

RequestStep(p) ==
    /\ \/ /\ \/ ChatAccess(p) \/ ReadManaged(p) \/ Permit(p) \/ NoId(p)
             \/ SendStatus(p)
          /\ UNCHANGED <<call, data>>
       \/ Operate(p) /\ UNCHANGED call
       \/ NextSetting(p) /\ UNCHANGED data
    /\ UNCHANGED <<backend, before, kept, faults, ctl, staff>>

-----------------------------------------------------------------------------
(* Users join and leave (UserAccounts).                                    *)
StaffChanges ==
    /\ \E u \in Movers : staff' \in {staff \cup {u}, staff \ {u}}
    /\ UNCHANGED <<backend, rows, req, pc, copy, made, answer, shown, before, logs,
                   kept, faults, ctl, call, managed, status, data, told>>

(* A first setting is asked for as the later ones are (NextSetting).       *)
Init ==
    /\ backend = "sql"
    /\ ctl \in DOMAIN Calls
    /\ \E c \in Calls[ctl] : /\ call = [p \in Jobs |-> c[p].call]
                              /\ req = [p \in Jobs |-> c[p].req]
    /\ rows \in Tables
    /\ ctl = "user" => \A i \in Ids : Live(i)
    /\ staff = Users
    /\ pc = [p \in Jobs |-> "idle"]
    /\ copy = [p \in Jobs |-> [id |-> req[p].id, row |-> rows[req[p].id]]]
    /\ made = [p \in Jobs |-> {}]
    /\ answer = [p \in Jobs |-> "none"]
    /\ shown = [p \in Jobs |-> {}]
    /\ before = [p \in Jobs |-> {}]
    /\ managed = [p \in Jobs |-> {}]
    /\ status = [p \in Jobs |-> "none"]
    /\ data = [p \in Jobs |-> copy[p].row.cols]
    /\ told = [p \in Jobs |-> {}]
    /\ logs = {} /\ kept = {} /\ faults = 0

Next ==
    \/ \E p \in Jobs : \/ Arrive(p) \/ RequestStep(p)
                       \/ (CallFails(p) \/ Crash(p)) /\ UNCHANGED hVars
    \/ StaffChanges

Spec == Init /\ [][Next]_vars

-----------------------------------------------------------------------------
TypeOK ==
    /\ ctl \in DOMAIN Controllers
    /\ rows \in [Ids -> Row]
    /\ \A p \in Jobs : /\ call[p].route \in Controllers[ctl] /\ call[p].user \in Users
                       /\ req[p].op = call[p].route.op /\ req[p].id \in Ids
                       /\ DOMAIN req[p].body \subseteq Cols
                       /\ ctl = "page" /\ req[p].op = "update" /\ pc[p] \notin {"idle", "done"}
                             => "name" \notin DOMAIN req[p].body
    /\ pc \in [Jobs -> {"idle", "access", "managed", "permit", "noid", "check", "find",
                        "write", "reread", "after", "done"}]
    /\ \A p \in Jobs : copy[p].id \in Ids /\ copy[p].row \in Row /\ data[p] \in [Cols -> Vals]
    /\ answer \in [Jobs -> {"none", "ok", "error"}]
    /\ status \in [Jobs -> {"none", "ok", "failed", "refused"}]
    /\ \A p \in Jobs : shown[p] \subseteq Ids /\ managed[p] \subseteq Users
    /\ staff \subseteq Users /\ faults \in 0..MaxFaults

(* What a request has changed, its user may change: admins the tables of   *)
(* the application, and the creator or an admin a newsfeed, although the   *)
(* row that is saved is found after the one that was looked at.            *)
ForAdmins == {"country", "state", "page", "template", "setting"}
ChangedByThoseWhoMay ==
    \A p \in Jobs : made[p] # {} =>
        /\ ctl \in ForAdmins => IsAdmin(p)
        /\ ctl = "newsfeed" /\ req[p].op # "create" =>
              IsAdmin(p) \/ copy[p].row.cols["by"] = Me(p)

(* What the routes that list newsfeeds, users or chats show to a user, and *)
(* those that find one of them by its id (the messages of a chat, too), is *)
(* related to the user, whatever the query asks and whoever has joined or  *)
(* left since the managed users were read.  The counts, GET find of the    *)
(* three and GET /chat/:id have no such rule: they show any row.           *)
Related(u, v) == u = v \/ By[u] = v \/ By[v] = u
ShownToThoseWhoMay ==
    \A p \in Jobs : \A i \in shown[p] :
        req[p].op \in {"getAll", "findById"} =>
            LET by == rows[i].cols["by"]
            IN /\ ctl = "newsfeed" => IsAdmin(p) \/ Related(Me(p), by)
               /\ ctl = "user" => IsAdmin(p) \/ i \in {Me(p), By[Me(p)]} \/ by = Me(p)
               /\ ctl = "chat" /\ Name(p) # "findById" =>
                     Me(p) \in {by, rows[i].cols["to"]}

(* A request that is answered with an error has changed nothing, unless a  *)
(* call failed.                                                            *)
FailedChangedNothing ==
    \A p \in Jobs : status[p] \in {"failed", "refused"} /\ made[p] # {} => faults > 0

(* updateBulk answers ok whatever comes of each setting: those it tells    *)
(* were written, and those it does not tell were not, unless a call failed *)
(* after the save.  What it tells of a setting is what was asked, or what a*)
(* request that had not ended before has written over it.                  *)
WrittenBeside(p, c, v) ==
    \E q \in Jobs \ {p} : /\ q \notin before[p]
                           /\ \E b \in made[q] : c \in DOMAIN b /\ b[c] = v
AsAsked(p, body, cols) ==
    \A c \in DOMAIN body : cols[c] = body[c] \/ WrittenBeside(p, c, cols[c])
ToldOf(p) == {t.body : t \in told[p]}
BulkTells ==
    \A p \in Jobs : Name(p) = "updateBulk" /\ status[p] = "ok" =>
        /\ ToldOf(p) \subseteq made[p] /\ (ToldOf(p) # made[p] => faults > 0)
        /\ \A t \in told[p] : AsAsked(p, t.body, t.row)

(* "Update / Find / Delete an entity document by using uid": what an admin *)
(* asks by the uid of a record that is there is done.                      *)
UidRoutesWork ==
    \A p \in Jobs : Name(p) \in ByUid /\ IsAdmin(p) /\ Live(req[p].id) /\ faults = 0
                       /\ status[p] # "none"
                     => status[p] = "ok"
=============================================================================
