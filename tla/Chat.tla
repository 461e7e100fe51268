-------------------------------- MODULE Chat --------------------------------
(***************************************************************************)
(* Chats between two users (src/src/modules/sql/chat), over the job queue  *)
(* and the sockets.                                                        *)
(*                                                                         *)
(* A member of Procs is an HTTP request in flight, in the instance Home[p] *)
(* of the cluster.  It takes one step per await.                           *)
(***************************************************************************)
EXTENDS Sockets

CONSTANTS
    Procs, Home,
    Talks,          \* Talks[u]: whom u writes to
    Start,          \* Start[d]: where device d is at first
    Kinds,          \* what is asked of the API
    \* Bounds of the model.
    MaxRequests,    \* HTTP requests and socket messages
    MaxUpsets       \* disconnections, failed calls, crashes

ASSUME HomeAssumption == Home \in [Procs -> Instances]
ASSUME TalksAssumption == Talks \in [Users -> SUBSET Users]
ASSUME StartAssumption == Start \in [Devices -> Instances \cup {Offline}]
ASSUME BoundsAssumption == MaxRequests \in Nat /\ MaxUpsets \in Nat

VARIABLES
    chats,      \* the Chat rows, in order of insertion
    msgs,       \* the ChatMessage rows
    task,       \* task[p]: what request p is in the middle of
    requests, drops, fails, crashes     \* spent of the bounds

counters == <<requests, drops, fails, crashes>>
MayUpset == drops + fails + crashes < MaxUpsets
chatVars == <<chats, msgs>>
vars == <<up, jobVars, socketVars, chatVars, task, counters>>

-----------------------------------------------------------------------------
\* HTTP requests and socket messages.
RequestKind == {"send", "open", "read"}
SocketKind == {"user.message", "user.typing", "getOnlineUsers"}
ASSUME KindsAssumption == Kinds \subseteq RequestKind \cup SocketKind
\* The kind of request, of user by to user peer; chat is the chat it has found
\* or created, jobs what it has still to execute; late is not in the
\* code: the two users had a chat when the request began.
Idle == [pc |-> "idle", kind |-> "send", by |-> CHOOSE u \in Users : TRUE,
         peer |-> CHOOSE u \in Users : TRUE, chat |-> 0,
         jobs |-> <<>>, late |-> FALSE]

Pair(c) == {chats[c].user1, chats[c].user2}

\* Mutant: only the order in which the chat was created is looked for.
ChatsFrom(u, v) ==
    {c \in DOMAIN chats : chats[c].user1 = u /\ chats[c].user2 = v}
\* The rows the query for a chat of u and v matches; it returns any of them.
ChatsOf(u, v) == {c \in DOMAIN chats : Pair(c) = {u, v}}

SocketJob(action, by, to, c, m, n) ==
    [NewJob("socket", action, by, to) EXCEPT !.chat = c, !.msg = m, !.upto = n]

Init ==
    \* Some devices are connected; the jobs of their connections are done and
    \* left out of the log.
    /\ up = Instances
    /\ jobLog = <<>> /\ channel = [i \in Instances |-> <<>>]
    /\ at = Start
    /\ inbox = [i \in Instances |-> <<>>] /\ got = [d \in Devices |-> <<>>]
    /\ chats = <<>> /\ msgs = <<>>
    /\ task = [p \in Procs |-> Idle]
    /\ requests = 0 /\ drops = 0 /\ fails = 0 /\ crashes = 0

-----------------------------------------------------------------------------
\* The requests.

Count == requests < MaxRequests /\ requests' = requests + 1
Only(p, changed) == task' = [task EXCEPT ![p] = changed]
At(p, pc) == task[p].pc = pc
End(p) == Only(p, Idle)

\* A request is routed to a running instance.  Opening a chat with oneself is
\* refused, sending to oneself is not.
StartSend(p) ==
    /\ At(p, "idle") /\ Home[p] \in up /\ Count
    /\ \E u \in Users, kind \in Kinds \cap {"send", "open"} : \E v \in Talks[u] :
          /\ kind = "open" => u # v
          /\ Only(p, [Idle EXCEPT !.pc = "find", !.kind = kind, !.by = u, !.peer = v,
                      !.late = \E c \in DOMAIN chats : Pair(c) = {u, v}])
    /\ UNCHANGED <<up, jobVars, socketVars, chatVars, drops, fails, crashes>>

\* readAllMessages finds its chat among those of the user.
StartRead(p) ==
    /\ "read" \in Kinds
    /\ At(p, "idle") /\ Home[p] \in up /\ Count
    /\ \E c \in DOMAIN chats : \E u \in Pair(c) :
          Only(p, [Idle EXCEPT !.pc = "mark", !.kind = "read", !.by = u,
                   !.peer = IF chats[c].user1 = u THEN chats[c].user2 ELSE chats[c].user1,
                   !.chat = c])
    /\ UNCHANGED <<up, jobVars, socketVars, chatVars, drops, fails, crashes>>

\* After the chat is there: a message is stored, a request to open it is over.
WithChat(p, c) ==
    IF task[p].kind = "open" THEN End(p)
    ELSE Only(p, [task[p] EXCEPT !.pc = "store", !.chat = c])

FindChat(p) ==
    /\ At(p, "find")
    /\ LET found == ChatsOf(task[p].by, task[p].peer) IN
       \/ \E c \in found : WithChat(p, c)
       \/ found = {} /\ Only(p, [task[p] EXCEPT !.pc = "create"])
    /\ UNCHANGED <<up, jobVars, socketVars, chatVars, counters>>

\* Mutant: the new chat is not kept.
CreateAndForget(p) ==
    /\ At(p, "create")
    /\ chats' = Append(chats, [user1 |-> task[p].by, user2 |-> task[p].peer])
    /\ WithChat(p, 0)
    /\ UNCHANGED <<up, jobVars, socketVars, msgs, counters>>

CreateChat(p) ==
    /\ At(p, "create")
    /\ chats' = Append(chats, [user1 |-> task[p].by, user2 |-> task[p].peer])
    /\ WithChat(p, Len(chats) + 1)
    /\ UNCHANGED <<up, jobVars, socketVars, msgs, counters>>

StoreMessage(p) ==
    /\ At(p, "store")
    /\ LET t == task[p]
           m == Len(msgs) + 1 IN
       /\ msgs' = Append(msgs, [chat |-> t.chat, from |-> t.by, to |-> t.peer,
                                isRead |-> FALSE])
       /\ Only(p, [t EXCEPT !.pc = "execute", !.jobs =
             <<SocketJob("sendMessage", t.by, t.peer, t.chat, m, 0),
               NewJob("notification", "sendPushNotification", t.by, t.peer)>>])
    /\ UNCHANGED <<up, jobVars, socketVars, chats, counters>>

\* Mutant: the messages of both sides are marked.
UnreadInChat(c, u) == {m \in DOMAIN msgs : msgs[m].chat = c}
\* Mutant: the messages that the reader has sent are marked.
OwnIn(c, u) == {m \in DOMAIN msgs : msgs[m].chat = c /\ msgs[m].to # u /\ ~msgs[m].isRead}
UnreadFor(c, u) ==
    {m \in DOMAIN msgs : msgs[m].chat = c /\ msgs[m].to = u /\ ~msgs[m].isRead}

\* The receipts for both sides; upto is not in the code: the messages there
\* were when the update ran.
Receipts(p) ==
    LET t == task[p] IN
    Only(p, [t EXCEPT !.pc = "execute", !.jobs =
        <<SocketJob("sendMessagesRead", t.by, t.peer, t.chat, 0, Len(msgs)),
          SocketJob("sendMessagesRead", t.by, t.by, t.chat, 0, Len(msgs))>>])

\* updateBulkRecords is a single UPDATE statement.
MarkRead(p) ==
    /\ At(p, "mark")
    /\ msgs' = [m \in DOMAIN msgs |->
                  IF m \in UnreadFor(task[p].chat, task[p].by)
                  THEN [msgs[m] EXCEPT !.isRead = TRUE] ELSE msgs[m]]
    /\ Receipts(p)
    /\ UNCHANGED <<up, jobVars, socketVars, chats, counters>>

\* To the next job, or to the end of the request.
NextJob(p) ==
    IF Len(task[p].jobs) = 1 THEN End(p)
    ELSE Only(p, [task[p] EXCEPT !.jobs = Tail(@)])

Execute(p) ==
    /\ At(p, "execute")
    /\ ExecuteJob(Home[p], Head(task[p].jobs))
    /\ NextJob(p)
    /\ UNCHANGED <<up, socketVars, chatVars, counters>>

\* The database call of p fails.  A find that fails reads as no chat; a
\* failed insert ends the request; the result of the update and of executeJob
\* is not looked at.
CallFails(p) ==
    /\ MayUpset /\ fails' = fails + 1
    /\ \/ At(p, "find") /\ Only(p, [task[p] EXCEPT !.pc = "create"])
       \/ (At(p, "create") \/ At(p, "store")) /\ End(p)
       \/ At(p, "mark") /\ Receipts(p)
       \/ At(p, "execute") /\ NextJob(p)
    /\ UNCHANGED <<up, jobVars, socketVars, chatVars, requests, drops, crashes>>

RequestStep(p) ==
    FindChat(p) \/ CreateChat(p) \/ StoreMessage(p) \/ MarkRead(p) \/ Execute(p)

-----------------------------------------------------------------------------
\* Jobs, events and sockets.

Job(i) == HandleJob(i, TRUE) /\ UNCHANGED <<up, chatVars, task, counters>>

JobDoneFails(i) ==
    /\ MayUpset /\ fails' = fails + 1
    /\ HandleJob(i, FALSE)
    /\ UNCHANGED <<up, chatVars, task, requests, drops, crashes>>

Consume(i) == ConsumeSendEvent(i) /\ UNCHANGED <<up, chatVars, task, counters>>

SocketMessage ==
    /\ Count
    /\ \E d \in Devices, u \in Users :
          \/ "user.message" \in Kinds /\ HandleMessageEvent(d, u)
          \/ "user.typing" \in Kinds /\ HandleTypingEvent(d, u)
          \/ "getOnlineUsers" \in Kinds /\ u = UserOf[d] /\ HandleGetOnlineUsers(d)
    /\ UNCHANGED <<up, chatVars, task, drops, fails, crashes>>

Come ==
    /\ \E d \in Devices, i \in Instances : Connect(d, i)
    /\ UNCHANGED <<up, chatVars, task, counters>>

Go ==
    /\ MayUpset /\ drops' = drops + 1
    /\ \E d \in Devices : Disconnect(d)
    /\ UNCHANGED <<up, chatVars, task, requests, fails, crashes>>

\* The requests of an instance die with it; pm2 starts it again.
Crash(i) ==
    /\ MayUpset /\ crashes' = crashes + 1
    /\ StopInstance(i)
    /\ task' = [p \in Procs |-> IF Home[p] = i THEN Idle ELSE task[p]]
    /\ UNCHANGED <<chatVars, requests, drops, fails>>

Restart(i) ==
    /\ i \notin up
    /\ up' = up \cup {i}
    /\ UNCHANGED <<jobVars, socketVars, chatVars, task, counters>>

Next ==
    \/ \E p \in Procs : StartSend(p) \/ StartRead(p) \/ RequestStep(p) \/ CallFails(p)
    \/ \E i \in Instances : \/ Job(i) \/ JobDoneFails(i) \/ Consume(i)
                            \/ Crash(i) \/ Restart(i)
    \/ SocketMessage \/ Come \/ Go

Spec == Init /\ [][Next]_vars

\* A request under way, a message on the wire and pm2 get on; nobody has to
\* ask for anything.
Fairness ==
    /\ \A p \in Procs : WF_vars(RequestStep(p))
    /\ \A i \in Instances : WF_vars(Job(i)) /\ WF_vars(Consume(i)) /\ WF_vars(Restart(i))
FairSpec == Spec /\ Fairness

-----------------------------------------------------------------------------
\* Properties.

JobOf(e) == jobLog[e.uid].job
\* The users a message or receipt concerns.
Ends(j) == {j.by, j.to}

JobType == [queue: Queue, by: Users, to: Users, chat: Nat, msg: Nat, upto: Nat,
            action: {"sendMessage", "sendUserTyping", "sendMessagesRead",
                     "sendOnlineUsersList", "broadcastUserOnline",
                     "broadcastUserOffline", "sendPushNotification"}]
EventType == [user: Users, uid: Nat \ {0}, online: SUBSET Users]
TaskType == [pc: {"idle", "find", "create", "store", "mark", "execute"}, kind: RequestKind,
             by: Users, peer: Users, chat: Nat, jobs: Seq(JobType),
             late: BOOLEAN]

\* The types of all variables, and that what names a chat, a message or a job
\* names one that is there: a message belongs to a chat of its two users
\* (sendMessage), an event to a logged job (executeJob).
TypeOK ==
    /\ up \subseteq Instances
    /\ jobLog \in Seq([job: JobType, home: Instances, status: JobStatus])
    /\ channel \in [Instances -> Seq(1 .. Len(jobLog))]
    /\ at \in [Devices -> up \cup {Offline}]
    /\ inbox \in [Instances -> Seq(EventType)]
    /\ got \in [Devices -> Seq(EventType)]
    /\ \A i \in Instances : \A k \in DOMAIN inbox[i] : inbox[i][k].uid \in DOMAIN jobLog
    /\ \A d \in Devices : \A k \in DOMAIN got[d] : got[d][k].uid \in DOMAIN jobLog
    /\ chats \in Seq([user1: Users, user2: Users])
    /\ msgs \in Seq([chat: DOMAIN chats, from: Users, to: Users, isRead: BOOLEAN])
    /\ \A m \in DOMAIN msgs : Pair(msgs[m].chat) = {msgs[m].from, msgs[m].to}
    /\ task \in [Procs -> TaskType]
    /\ requests \in Nat /\ drops \in Nat /\ fails \in Nat /\ crashes \in Nat

\* What a device receives concerns its user, and a message it receives is
\* stored as it was sent: sendMessage stores before it executes the job, and
\* consumeSendEvent writes to the user's own sockets only.
PushedToItsEnds ==
    \A d \in Devices : \A k \in DOMAIN got[d] :
        LET j == JobOf(got[d][k]) IN
        /\ UserOf[d] \in Ends(j)
        /\ j.action = "sendMessage" =>
              /\ j.msg \in DOMAIN msgs
              /\ msgs[j.msg].from = j.by /\ msgs[j.msg].to = j.to

\* As long as a device stays connected, it receives what one instance emits in
\* the order of emission and once only, a message of a user to himself twice
\* (SocketEventService.sendMessage addresses both ends).
InOrderOnce ==
    \A d \in Devices : \A l \in DOMAIN got[d] : \A k \in 1 .. l - 1 :
        LET e == got[d][k]
            f == got[d][l] IN
        jobLog[e.uid].home = jobLog[f.uid].home =>
            \/ e.uid < f.uid
            \/ e.uid = f.uid /\ JobOf(e).by = JobOf(e).to /\ l = k + 1

\* A request that begins when its two users have a chat never creates another,
\* whichever of them asks, unless its find fails (sendMessage, findOrCreateChat).
LateRequestsReuse ==
    \A p \in Procs : task[p].pc = "create" /\ task[p].late => fails > 0

\* Only the user a message is for has it marked as read, in its own chat
\* (the where clause of readAllMessages), and it never becomes unread again.
ReadOnlyByReader ==
    [][\A m \in DOMAIN msgs : msgs'[m] # msgs[m] =>
          /\ ~msgs[m].isRead /\ msgs'[m] = [msgs[m] EXCEPT !.isRead = TRUE]
          /\ \E p \in Procs : /\ task[p].kind = "read" /\ task[p].chat = msgs[m].chat
                              /\ task[p].by = msgs[m].to]_vars

\* Behind a receipt a device has received, every message to the reader that
\* the chat held when the update ran is read, unless that update failed.
ReceiptCovered ==
    fails = 0 => \A d \in Devices : \A k \in DOMAIN got[d] :
        LET j == JobOf(got[d][k]) IN
        j.action = "sendMessagesRead" => \A m \in 1 .. j.upto :
            msgs[m].chat = j.chat /\ msgs[m].to = j.by => msgs[m].isRead

Shows(d, m) == \E k \in DOMAIN got[d] : LET j == JobOf(got[d][k]) IN
                   j.action = "sendMessage" /\ j.msg = m
Sending(m) == \E p \in Procs : /\ task[p].pc = "execute"
                              /\ Head(task[p].jobs).action = "sendMessage"
                              /\ Head(task[p].jobs).msg = m
IsEnd(d, m) == UserOf[d] \in {msgs[m].from, msgs[m].to}

\* A message reaches every device of its two users that is connected when it is
\* stored and stays so, if no instance dies and no call fails (sendMessage,
\* SocketEventService.sendMessage).
MessageReachesEnds ==
    \A d \in Devices, m \in 1 .. MaxRequests :
        (Sending(m) /\ IsEnd(d, m) /\ at[d] # Offline)
            ~> (Shows(d, m) \/ at[d] = Offline \/ crashes + fails > 0)
=============================================================================
