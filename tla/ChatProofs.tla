----------------------------- MODULE ChatProofs ------------------------------
(***************************************************************************)
(* Theorems about Chat, Sockets and Jobs, for any users, devices,          *)
(* instances, requests and bounds.                                         *)
(***************************************************************************)
EXTENDS Chat, SequenceTheorems, TLAPS

-----------------------------------------------------------------------------
\* Sequences.

\* What appending an element does, by index.
LEMMA Appended ==
  ASSUME NEW S, NEW s \in Seq(S), NEW e \in S
  PROVE  /\ Append(s, e) \in Seq(S)
         /\ Len(Append(s, e)) = Len(s) + 1
         /\ DOMAIN Append(s, e) = 1 .. Len(s) + 1
         /\ \A k \in 1 .. Len(s) : Append(s, e)[k] = s[k]
         /\ Append(s, e)[Len(s) + 1] = e
OBVIOUS

\* A sequence all of whose elements are in T is a sequence over T.
LEMMA SeqOver ==
  ASSUME NEW S, NEW T, NEW s \in Seq(S), \A k \in DOMAIN s : s[k] \in T
  PROVE  s \in Seq(T)
<1>1. Len(s) \in Nat /\ s \in [1 .. Len(s) -> S] /\ DOMAIN s = 1 .. Len(s)
  BY LenProperties
<1>2. s \in [1 .. Len(s) -> T]
  BY <1>1
<1> QED
  BY <1>1, <1>2, SeqDef

\* A function over 1 .. n is a sequence.
LEMMA FunctionIsSeq ==
  ASSUME NEW S, NEW n \in Nat, NEW f \in [1 .. n -> S]
  PROVE  f \in Seq(S) /\ Len(f) = n
<1>1. f \in Seq(S)
  BY SeqDef
<1> QED
  BY <1>1, LenProperties

-----------------------------------------------------------------------------
\* The inductive invariant.

LogType == [job: JobType, home: Instances, status: JobStatus]
MsgType == [chat: Nat, from: Users, to: Users, isRead: BOOLEAN]

\* The types alone.
TypeInv ==
    /\ up \subseteq Instances
    /\ jobLog \in Seq(LogType)
    /\ channel \in [Instances -> Seq(Nat)]
    /\ at \in [Devices -> up \cup {Offline}]
    /\ inbox \in [Instances -> Seq(EventType)]
    /\ got \in [Devices -> Seq(EventType)]
    /\ chats \in Seq([user1: Users, user2: Users])
    /\ msgs \in Seq(MsgType)
    /\ task \in [Procs -> TaskType]
    /\ requests \in Nat /\ drops \in Nat /\ fails \in Nat /\ crashes \in Nat

\* A request that writes to a chat or reads in it has found it.
TaskGood(t, C) ==
    /\ t.pc \in {"store", "mark"} =>
          t.chat \in DOMAIN C /\ {C[t.chat].user1, C[t.chat].user2} = {t.by, t.peer}
    /\ t.pc = "mark" => t.kind = "read"
    /\ t.pc = "execute" => t.jobs # <<>>
TaskInv == \A p \in Procs : TaskGood(task[p], chats)

\* The chat of a message is one of its two users.
MsgInv ==
    \A m \in DOMAIN msgs : /\ msgs[m].chat \in DOMAIN chats
                           /\ Pair(msgs[m].chat) = {msgs[m].from, msgs[m].to}

\* A request that began after the chat was there would find it.
LateGood(t, C, F) ==
    t.pc \in {"find", "create"} /\ t.late =>
        /\ \E c \in DOMAIN C : {C[c].user1, C[c].user2} = {t.by, t.peer}
        /\ t.pc = "create" => F > 0
LateInv == \A p \in Procs : LateGood(task[p], chats, fails)

\* What a job says of the messages.
Covered(j, M) ==
    /\ j.upto <= Len(M)
    /\ \A m \in 1 .. j.upto : M[m].chat = j.chat /\ M[m].to = j.by => M[m].isRead
Stored(j, M) ==
    /\ j.msg \in DOMAIN M
    /\ M[j.msg].from = j.by /\ M[j.msg].to = j.to
GoodJob(j, M, F) ==
    /\ j.action = "sendMessage" => j.queue = "message" \/ (j.queue = "socket" /\ Stored(j, M))
    /\ j.action = "sendMessagesRead" /\ F = 0 => Covered(j, M)
JobsInv ==
    /\ \A n \in DOMAIN jobLog : GoodJob(jobLog[n].job, msgs, fails)
    /\ \A p \in Procs : \A k \in DOMAIN task[p].jobs : GoodJob(task[p].jobs[k], msgs, fails)

\* What is on its way names a job of the log, and an event one of its users.
GoodEvent(e, log) ==
    /\ e.uid \in DOMAIN log
    /\ e.user \in Ends(log[e.uid].job)
    /\ log[e.uid].job.action = "sendMessage" => log[e.uid].job.queue = "socket"
EventInv ==
    /\ \A i \in Instances : \A k \in DOMAIN channel[i] : channel[i][k] \in DOMAIN jobLog
    /\ \A i \in Instances : \A k \in DOMAIN inbox[i] : GoodEvent(inbox[i][k], jobLog)
    /\ \A d \in Devices : \A k \in DOMAIN got[d] :
          GoodEvent(got[d][k], jobLog) /\ got[d][k].user = UserOf[d]

IInv == TypeInv /\ TaskInv /\ MsgInv /\ LateInv /\ JobsInv /\ EventInv

-----------------------------------------------------------------------------
\* The types of what actions are built from.

Action == {"sendMessage", "sendUserTyping", "sendMessagesRead", "sendOnlineUsersList",
           "broadcastUserOnline", "broadcastUserOffline", "sendPushNotification"}

\* A request slot at rest is one.
LEMMA IdleType == Idle \in TaskType
<1>1. (CHOOSE u \in Users : TRUE) \in Users
  BY DevicesAssumption
<1>2. <<>> \in Seq(JobType)
  OBVIOUS
<1> QED
  BY <1>1, <1>2 DEF Idle, TaskType, RequestKind

\* A new job has the type of jobs.
LEMMA NewJobType ==
  ASSUME NEW q \in Queue, NEW a \in Action, NEW u \in Users, NEW v \in Users
  PROVE  NewJob(q, a, u, v) \in JobType
BY DEF NewJob, JobType, Action

\* So has a job about a chat.
LEMMA SocketJobType ==
  ASSUME NEW a \in Action, NEW u \in Users, NEW v \in Users,
         NEW c \in Nat, NEW m \in Nat, NEW n \in Nat
  PROVE  SocketJob(a, u, v, c, m, n) \in JobType
BY DEF SocketJob, NewJob, JobType, Action, Queue

\* executeJob adds one entry to the log and its uid to the channel.
LEMMA Emits ==
  ASSUME TypeInv, NEW i \in Instances, NEW j \in JobType, ExecuteJob(i, j)
  PROVE  /\ jobLog' \in Seq(LogType)
         /\ DOMAIN jobLog' = 1 .. Len(jobLog) + 1
         /\ DOMAIN jobLog = 1 .. Len(jobLog) /\ Len(jobLog) \in Nat
         /\ \A n \in DOMAIN jobLog : jobLog'[n] = jobLog[n]
         /\ jobLog'[Len(jobLog) + 1].job = j
         /\ jobLog'[Len(jobLog) + 1].home = i
         /\ channel' \in [Instances -> Seq(Nat)]
         /\ channel'[i] = Append(channel[i], Len(jobLog) + 1)
         /\ \A x \in Instances \ {i} : channel'[x] = channel[x]
<1> DEFINE e == [job |-> j, home |-> i, status |-> "Pending"]
<1>1. e \in LogType
  BY DEF LogType, JobStatus
<1>2. jobLog \in Seq(LogType) /\ channel \in [Instances -> Seq(Nat)]
  BY DEF TypeInv
<1>3. jobLog' = Append(jobLog, e)
  BY DEF ExecuteJob
<1>4. /\ jobLog' \in Seq(LogType)
      /\ DOMAIN jobLog' = 1 .. Len(jobLog) + 1
      /\ \A n \in 1 .. Len(jobLog) : jobLog'[n] = jobLog[n]
      /\ jobLog'[Len(jobLog) + 1] = e
  <2> HIDE DEF e
  <2> QED
    BY <1>1, <1>2, <1>3, Appended
<1>5. DOMAIN jobLog = 1 .. Len(jobLog) /\ Len(jobLog) \in Nat
  BY <1>2, LenProperties
<1>6. channel' = [channel EXCEPT ![i] = Append(channel[i], Len(jobLog) + 1)]
  BY DEF ExecuteJob
<1>7. Append(channel[i], Len(jobLog) + 1) \in Seq(Nat)
  BY <1>2, <1>5
<1>8. channel' \in [Instances -> Seq(Nat)]
  BY <1>2, <1>6, <1>7
<1>9. /\ channel'[i] = Append(channel[i], Len(jobLog) + 1)
      /\ \A x \in Instances \ {i} : channel'[x] = channel[x]
  BY <1>2, <1>6
<1> QED
  BY <1>4, <1>5, <1>8, <1>9

\* The events of a job are about it, and addressed to its users.
LEMMA EventsType ==
  ASSUME TypeInv, NEW uid \in DOMAIN jobLog
  PROVE  /\ EventsOf(uid) \in Seq(EventType)
         /\ Len(EventsOf(uid)) \in 0 .. 2
         /\ \A k \in DOMAIN EventsOf(uid) :
               /\ EventsOf(uid)[k].uid = uid
               /\ EventsOf(uid)[k].user \in Ends(jobLog[uid].job)
<1>1. jobLog \in Seq(LogType) /\ DOMAIN jobLog = 1 .. Len(jobLog) /\ Len(jobLog) \in Nat
  BY LenProperties DEF TypeInv
<1>2. uid \in Nat \ {0} /\ jobLog[uid] \in LogType
  BY <1>1, ElementOfSeq
<1>3. jobLog[uid].job \in JobType
  BY <1>2 DEF LogType
<1> DEFINE j == jobLog[uid].job
<1>4. j.by \in Users /\ j.to \in Users
  BY <1>3 DEF JobType
<1>5. GetOnlineUserIds(Primary) \in SUBSET Users
  BY DEF GetOnlineUserIds
<1>6. /\ Event(j.to, uid, {}) \in EventType /\ Event(j.by, uid, {}) \in EventType
      /\ Event(j.by, uid, GetOnlineUserIds(Primary)) \in EventType
  BY <1>2, <1>4, <1>5 DEF Event, EventType
<1>7. /\ \A u, o : Event(u, uid, o).uid = uid /\ Event(u, uid, o).user = u
      /\ Ends(j) = {j.by, j.to}
  BY DEF Event, Ends
<1>8. EventsOf(uid) \in {<<Event(j.to, uid, {}), Event(j.by, uid, {})>>, <<Event(j.to, uid, {})>>,
                         <<Event(j.by, uid, GetOnlineUserIds(Primary))>>, <<>>}
  BY DEF EventsOf
<1> HIDE DEF j
<1>9. CASE EventsOf(uid) = <<Event(j.to, uid, {}), Event(j.by, uid, {})>>
  BY <1>6, <1>7, <1>9 DEF j
<1>10. CASE EventsOf(uid) = <<Event(j.to, uid, {})>>
  BY <1>6, <1>7, <1>10 DEF j
<1>11. CASE EventsOf(uid) = <<Event(j.by, uid, GetOnlineUserIds(Primary))>>
  BY <1>6, <1>7, <1>11 DEF j
<1>12. CASE EventsOf(uid) = <<>>
  BY <1>12
<1> QED
  BY <1>8, <1>9, <1>10, <1>11, <1>12

\* A job of the notification queue has no events for a chat message.
LEMMA EventsOnlyFromSocket ==
  ASSUME NEW uid, Listening(jobLog[uid].job.queue),
         GoodJob(jobLog[uid].job, msgs, fails)
  PROVE  jobLog[uid].job.action = "sendMessage" => jobLog[uid].job.queue = "socket"
BY DEF Listening, GoodJob

\* The listener takes a job off a channel, may mark it done, and publishes
\* its events to the instances that run.
LEMMA Handles ==
  ASSUME TypeInv, EventInv, JobsInv, NEW i \in Instances, NEW logged \in BOOLEAN,
         HandleJob(i, logged)
  PROVE  /\ jobLog' \in Seq(LogType) /\ DOMAIN jobLog' = DOMAIN jobLog
         /\ \A n \in DOMAIN jobLog : /\ jobLog'[n].job = jobLog[n].job
                                     /\ jobLog'[n].home = jobLog[n].home
         /\ channel[i] # <<>> /\ channel' = [channel EXCEPT ![i] = Tail(channel[i])]
         /\ Head(channel[i]) \in DOMAIN jobLog
         /\ at' = at /\ got' = got
         /\ \/ inbox' = inbox
            \/ /\ \A x \in Instances : inbox'[x] = inbox[x] \/
                                       inbox'[x] = inbox[x] \o EventsOf(Head(channel[i]))
               /\ inbox' \in [Instances -> Seq(EventType)]
               /\ jobLog[Head(channel[i])].job.action = "sendMessage"
                     => jobLog[Head(channel[i])].job.queue = "socket"
<1>1. /\ jobLog \in Seq(LogType) /\ DOMAIN jobLog = 1 .. Len(jobLog) /\ Len(jobLog) \in Nat
      /\ inbox \in [Instances -> Seq(EventType)]
  BY LenProperties DEF TypeInv
<1>2. /\ channel[i] # <<>> /\ channel' = [channel EXCEPT ![i] = Tail(channel[i])]
      /\ at' = at /\ got' = got
  BY DEF HandleJob, Received
<1> DEFINE uid == Head(channel[i])
<1>3. uid \in DOMAIN jobLog
  <2>1. channel[i] \in Seq(Nat)
    BY DEF TypeInv
  <2>2. 1 \in DOMAIN channel[i] /\ uid = channel[i][1]
    BY <2>1, <1>2, EmptySeq, LenProperties
  <2> QED
    BY <2>2 DEF EventInv
<1> HIDE DEF uid
<1>4. JobDone(uid) \/ UNCHANGED jobLog
  BY DEF HandleJob, uid
<1>5. /\ jobLog' \in Seq(LogType) /\ DOMAIN jobLog' = DOMAIN jobLog
      /\ \A n \in DOMAIN jobLog : /\ jobLog'[n].job = jobLog[n].job
                                  /\ jobLog'[n].home = jobLog[n].home
  <2>1. CASE UNCHANGED jobLog
    BY <2>1, <1>1
  <2>2. CASE JobDone(uid)
    <3>1. jobLog[uid] \in LogType
      BY <1>1, <1>3, ElementOfSeq
    <3> DEFINE e == [jobLog[uid] EXCEPT !.status = "Done"]
    <3>2. e \in LogType /\ e.job = jobLog[uid].job /\ e.home = jobLog[uid].home
      BY <3>1 DEF LogType, JobStatus
    <3>3. jobLog' = [jobLog EXCEPT ![uid] = e]
      BY <2>2 DEF JobDone
    <3> HIDE DEF e
    <3>4. /\ jobLog' \in Seq(LogType) /\ Len(jobLog') = Len(jobLog)
          /\ \A n \in 1 .. Len(jobLog) : jobLog'[n] = IF n = uid THEN e ELSE jobLog[n]
      BY <3>2, <3>3, <1>1, <1>3, ExceptSeq
    <3>5. DOMAIN jobLog' = 1 .. Len(jobLog)
      BY <3>4, LenProperties
    <3> QED
      BY <3>2, <3>4, <3>5, <1>1
  <2> QED
    BY <1>4, <2>1, <2>2
<1>6. CASE ~Listening(jobLog[uid].job.queue)
  BY <1>2, <1>3, <1>5, <1>6 DEF HandleJob, uid
<1>7. CASE Listening(jobLog[uid].job.queue)
  <2>1. inbox' = [x \in Instances |-> IF x \in up THEN inbox[x] \o EventsOf(uid) ELSE inbox[x]]
    BY <1>7 DEF HandleJob, PropagateEvents, uid
  <2>2. EventsOf(uid) \in Seq(EventType)
    BY <1>3, EventsType
  <2>3. \A x \in Instances : inbox[x] \o EventsOf(uid) \in Seq(EventType)
    BY <2>2, <1>1, ConcatProperties
  <2>4. inbox' \in [Instances -> Seq(EventType)]
    BY <2>1, <2>3, <1>1
  <2>5. jobLog[uid].job.action = "sendMessage" => jobLog[uid].job.queue = "socket"
    BY <1>3, <1>7, EventsOnlyFromSocket DEF JobsInv
  <2> QED
    BY <1>2, <1>3, <1>5, <2>1, <2>4, <2>5 DEF uid
<1> QED
  BY <1>6, <1>7

-----------------------------------------------------------------------------
\* Types.

\* A request moves on, and everything else that TypeInv speaks of stays.
LEMMA TaskTypeStep ==
  ASSUME TypeInv, NEW p \in Procs, NEW t \in TaskType, Only(p, t)
  PROVE  /\ task' \in [Procs -> TaskType] /\ task'[p] = t
         /\ \A q \in Procs \ {p} : task'[q] = task[q]
BY DEF TypeInv, Only

\* The jobs a message or a mark is followed by.
LEMMA ReceiptsType ==
  ASSUME TypeInv, NEW p \in Procs, Receipts(p)
  PROVE  \E jobs \in Seq(JobType) :
            /\ task' \in [Procs -> TaskType] /\ task'[p] = [task[p] EXCEPT !.pc = "execute", !.jobs = jobs]
            /\ \A q \in Procs \ {p} : task'[q] = task[q]
            /\ Len(jobs) = 2
            /\ \A k \in DOMAIN jobs : /\ jobs[k].action = "sendMessagesRead"
                                      /\ jobs[k].by = task[p].by /\ jobs[k].chat = task[p].chat
                                      /\ jobs[k].upto = Len(msgs)
<1> DEFINE t == task[p]
           j1 == SocketJob("sendMessagesRead", t.by, t.peer, t.chat, 0, Len(msgs))
           j2 == SocketJob("sendMessagesRead", t.by, t.by, t.chat, 0, Len(msgs))
           jobs == <<j1, j2>>
<1>1. t \in TaskType /\ Len(msgs) \in Nat
  BY LenProperties DEF TypeInv
<1>2. t.by \in Users /\ t.peer \in Users /\ t.chat \in Nat
  BY <1>1 DEF TaskType
<1>3. j1 \in JobType /\ j2 \in JobType
  BY <1>1, <1>2, SocketJobType, "sendMessagesRead" \in Action, 0 \in Nat DEF Action
<1>4. /\ j1.action = "sendMessagesRead" /\ j1.by = t.by /\ j1.chat = t.chat /\ j1.upto = Len(msgs)
      /\ j2.action = "sendMessagesRead" /\ j2.by = t.by /\ j2.chat = t.chat /\ j2.upto = Len(msgs)
  BY DEF SocketJob, NewJob
<1>5. Only(p, [t EXCEPT !.pc = "execute", !.jobs = jobs])
  BY DEF Receipts
<1> HIDE DEF j1, j2
<1>6. jobs \in Seq(JobType) /\ Len(jobs) = 2 /\ DOMAIN jobs = {1, 2}
      /\ jobs[1] = j1 /\ jobs[2] = j2
  BY <1>3
<1> HIDE DEF t, jobs
<1>7. [t EXCEPT !.pc = "execute", !.jobs = jobs] \in TaskType
  BY <1>1, <1>6 DEF TaskType
<1>8. /\ task' \in [Procs -> TaskType] /\ task'[p] = [t EXCEPT !.pc = "execute", !.jobs = jobs]
      /\ \A q \in Procs \ {p} : task'[q] = task[q]
  BY <1>5, <1>7, TaskTypeStep
<1>9. \A k \in DOMAIN jobs : /\ jobs[k].action = "sendMessagesRead"
                             /\ jobs[k].by = t.by /\ jobs[k].chat = t.chat
                             /\ jobs[k].upto = Len(msgs)
  BY <1>4, <1>6
<1> QED
  BY <1>6, <1>8, <1>9 DEF t

\* A request starts with no job and in a step of its own.
LEMMA TypeStart ==
  ASSUME TypeInv, NEW p \in Procs, StartSend(p) \/ StartRead(p)
  PROVE  TypeInv'
<1>1. CASE StartSend(p)
  <2>1. PICK u \in Users, kind \in Kinds \cap {"send", "open"} : \E v \in Talks[u] :
          Only(p, [Idle EXCEPT !.pc = "find", !.kind = kind, !.by = u, !.peer = v,
                      !.late = \E c \in DOMAIN chats : Pair(c) = {u, v}])
    BY <1>1 DEF StartSend
  <2>2. PICK v \in Talks[u] :
          Only(p, [Idle EXCEPT !.pc = "find", !.kind = kind, !.by = u, !.peer = v,
                      !.late = \E c \in DOMAIN chats : Pair(c) = {u, v}])
    BY <2>1
  <2>3. v \in Users
    BY TalksAssumption
  <2> DEFINE late == \E c \in DOMAIN chats : Pair(c) = {u, v}
  <2>4. late \in BOOLEAN
    OBVIOUS
  <2> HIDE DEF late
  <2>5. [Idle EXCEPT !.pc = "find", !.kind = kind, !.by = u, !.peer = v, !.late = late] \in TaskType
    BY <2>3, <2>4, IdleType DEF TaskType, RequestKind
  <2>6. task' \in [Procs -> TaskType]
    BY <2>2, <2>5, TaskTypeStep DEF late
  <2>7. requests' \in Nat
    <3>1. requests' = requests + 1
      BY <1>1 DEF StartSend, Count
    <3>2. requests \in Nat
      BY DEF TypeInv
    <3> QED
      BY <3>1, <3>2
  <2> QED
    BY <1>1, <2>6, <2>7 DEF StartSend, TypeInv, jobVars, socketVars, chatVars
<1>2. CASE StartRead(p)
  <2>1. PICK c \in DOMAIN chats : \E u \in Pair(c) :
          Only(p, [Idle EXCEPT !.pc = "mark", !.kind = "read", !.by = u,
                   !.peer = IF chats[c].user1 = u THEN chats[c].user2 ELSE chats[c].user1,
                   !.chat = c])
    BY <1>2 DEF StartRead
  <2>2. PICK u \in Pair(c) :
          Only(p, [Idle EXCEPT !.pc = "mark", !.kind = "read", !.by = u,
                   !.peer = IF chats[c].user1 = u THEN chats[c].user2 ELSE chats[c].user1,
                   !.chat = c])
    BY <2>1
  <2>3. chats[c].user1 \in Users /\ chats[c].user2 \in Users /\ c \in Nat
    <3>1. chats \in Seq([user1: Users, user2: Users]) /\ c \in 1 .. Len(chats) /\ Len(chats) \in Nat
      BY LenProperties DEF TypeInv
    <3>2. chats[c] \in [user1: Users, user2: Users]
      BY <3>1, ElementOfSeq
    <3> QED
      BY <3>1, <3>2
  <2> DEFINE v == IF chats[c].user1 = u THEN chats[c].user2 ELSE chats[c].user1
  <2>4. u \in Users /\ v \in Users
    BY <2>3 DEF Pair
  <2> HIDE DEF v
  <2>5. [Idle EXCEPT !.pc = "mark", !.kind = "read", !.by = u, !.peer = v, !.chat = c] \in TaskType
    BY <2>3, <2>4, IdleType DEF TaskType, RequestKind
  <2>6. task' \in [Procs -> TaskType]
    BY <2>2, <2>5, TaskTypeStep DEF v
  <2>7. requests' \in Nat
    <3>1. requests' = requests + 1
      BY <1>2 DEF StartRead, Count
    <3>2. requests \in Nat
      BY DEF TypeInv
    <3> QED
      BY <3>1, <3>2
  <2> QED
    BY <1>2, <2>6, <2>7 DEF StartRead, TypeInv, jobVars, socketVars, chatVars
<1> QED
  BY <1>1, <1>2

\* The request has its chat.
LEMMA WithChatType ==
  ASSUME TypeInv, NEW p \in Procs, NEW c \in Nat, WithChat(p, c)
  PROVE  /\ task' \in [Procs -> TaskType]
         /\ \A q \in Procs \ {p} : task'[q] = task[q]
         /\ task'[p] = Idle \/ task'[p] = [task[p] EXCEPT !.pc = "store", !.chat = c]
<1>1. task[p] \in TaskType
  BY DEF TypeInv
<1>2. [task[p] EXCEPT !.pc = "store", !.chat = c] \in TaskType
  BY <1>1 DEF TaskType
<1>3. Only(p, Idle) \/ Only(p, [task[p] EXCEPT !.pc = "store", !.chat = c])
  BY DEF WithChat, End
<1> QED
  BY <1>2, <1>3, IdleType, TaskTypeStep

\* The find.
LEMMA TypeFind == ASSUME TypeInv, NEW p \in Procs, FindChat(p) PROVE TypeInv'
<1>1. task' \in [Procs -> TaskType]
  <2>1. CASE \E c \in ChatsOf(task[p].by, task[p].peer) : WithChat(p, c)
    <3>1. DOMAIN chats \subseteq Nat
      BY LenProperties DEF TypeInv
    <3>2. PICK c \in ChatsOf(task[p].by, task[p].peer) : WithChat(p, c)
      BY <2>1
    <3>3. c \in Nat
      BY <3>1 DEF ChatsOf
    <3> QED
      BY <3>2, <3>3, WithChatType
  <2>2. CASE Only(p, [task[p] EXCEPT !.pc = "create"])
    <3>1. [task[p] EXCEPT !.pc = "create"] \in TaskType
      BY DEF TypeInv, TaskType
    <3> QED
      BY <2>2, <3>1, TaskTypeStep
  <2> QED
    BY <2>1, <2>2 DEF FindChat
<1> QED
  BY <1>1 DEF FindChat, TypeInv, jobVars, socketVars, chatVars, counters

\* The insert of a chat; the tables it leaves.
LEMMA CreateType ==
  ASSUME TypeInv, NEW p \in Procs, CreateChat(p)
  PROVE  /\ TypeInv'
         /\ Len(chats) \in Nat /\ DOMAIN chats = 1 .. Len(chats)
         /\ DOMAIN chats' = 1 .. Len(chats) + 1
         /\ \A c \in DOMAIN chats : chats'[c] = chats[c]
         /\ chats'[Len(chats) + 1] = [user1 |-> task[p].by, user2 |-> task[p].peer]
         /\ \A q \in Procs \ {p} : task'[q] = task[q]
         /\ task'[p] = Idle \/ task'[p] = [task[p] EXCEPT !.pc = "store", !.chat = Len(chats) + 1]
<1> DEFINE C == [user1: Users, user2: Users]
           e == [user1 |-> task[p].by, user2 |-> task[p].peer]
<1>1. task[p] \in TaskType /\ chats \in Seq(C)
  BY DEF TypeInv
<1>2. e \in C
  BY <1>1 DEF TaskType
<1>3. chats' = Append(chats, e)
  BY DEF CreateChat
<1> HIDE DEF C, e
<1>4. /\ chats' \in Seq(C) /\ DOMAIN chats' = 1 .. Len(chats) + 1
      /\ \A c \in 1 .. Len(chats) : chats'[c] = chats[c]
      /\ chats'[Len(chats) + 1] = e
  BY <1>1, <1>2, <1>3, Appended
<1>5. Len(chats) \in Nat /\ DOMAIN chats = 1 .. Len(chats)
  BY <1>1, LenProperties
<1>6. /\ task' \in [Procs -> TaskType]
      /\ \A q \in Procs \ {p} : task'[q] = task[q]
      /\ task'[p] = Idle \/ task'[p] = [task[p] EXCEPT !.pc = "store", !.chat = Len(chats) + 1]
  <2>1. Len(chats) + 1 \in Nat /\ WithChat(p, Len(chats) + 1)
    BY <1>5 DEF CreateChat
  <2> QED
    BY <2>1, WithChatType
<1>7. TypeInv'
  BY <1>4, <1>6 DEF CreateChat, TypeInv, jobVars, socketVars, counters, C
<1> QED
  BY <1>4, <1>5, <1>6, <1>7 DEF e

\* The insert of a message; the table and the jobs it leaves.
LEMMA StoreType ==
  ASSUME TypeInv, NEW p \in Procs, StoreMessage(p)
  PROVE  /\ TypeInv'
         /\ Len(msgs) \in Nat /\ DOMAIN msgs = 1 .. Len(msgs)
         /\ DOMAIN msgs' = 1 .. Len(msgs) + 1 /\ Len(msgs') = Len(msgs) + 1
         /\ \A m \in DOMAIN msgs : msgs'[m] = msgs[m]
         /\ msgs'[Len(msgs) + 1] = [chat |-> task[p].chat, from |-> task[p].by,
                                    to |-> task[p].peer, isRead |-> FALSE]
         /\ \A q \in Procs \ {p} : task'[q] = task[q]
         /\ \E j1, j2 \in JobType :
               /\ task'[p] = [task[p] EXCEPT !.pc = "execute", !.jobs = <<j1, j2>>]
               /\ j1.action = "sendMessage" /\ j1.queue = "socket" /\ j1.msg = Len(msgs) + 1
               /\ j1.by = task[p].by /\ j1.to = task[p].peer
               /\ j2.action = "sendPushNotification"
<1> DEFINE t == task[p]
           n == Len(msgs) + 1
           e == [chat |-> t.chat, from |-> t.by, to |-> t.peer, isRead |-> FALSE]
           j1 == SocketJob("sendMessage", t.by, t.peer, t.chat, n, 0)
           j2 == NewJob("notification", "sendPushNotification", t.by, t.peer)
<1>1. t \in TaskType /\ msgs \in Seq(MsgType)
  BY DEF TypeInv
<1>2. Len(msgs) \in Nat /\ DOMAIN msgs = 1 .. Len(msgs) /\ n \in Nat
  BY <1>1, LenProperties
<1>3. t.by \in Users /\ t.peer \in Users /\ t.chat \in Nat
  BY <1>1 DEF TaskType
<1>4. e \in MsgType
  BY <1>3 DEF MsgType
<1>5. msgs' = Append(msgs, e)
  BY DEF StoreMessage
<1>6. j1 \in JobType
  BY <1>2, <1>3, SocketJobType, "sendMessage" \in Action, 0 \in Nat DEF Action
<1>7. j2 \in JobType
  BY <1>3, NewJobType, "sendPushNotification" \in Action, "notification" \in Queue DEF Action, Queue
<1>8. /\ j1.action = "sendMessage" /\ j1.queue = "socket" /\ j1.msg = n
      /\ j1.by = t.by /\ j1.to = t.peer
      /\ j2.action = "sendPushNotification"
  BY DEF SocketJob, NewJob
<1>9. Only(p, [t EXCEPT !.pc = "execute", !.jobs = <<j1, j2>>])
  BY DEF StoreMessage
<1> HIDE DEF t, e, j1, j2
<1>10. /\ msgs' \in Seq(MsgType) /\ DOMAIN msgs' = 1 .. Len(msgs) + 1 /\ Len(msgs') = Len(msgs) + 1
       /\ \A m \in 1 .. Len(msgs) : msgs'[m] = msgs[m]
       /\ msgs'[Len(msgs) + 1] = e
  BY <1>1, <1>4, <1>5, Appended
<1>11. <<j1, j2>> \in Seq(JobType)
  BY <1>6, <1>7
<1>12. [t EXCEPT !.pc = "execute", !.jobs = <<j1, j2>>] \in TaskType
  BY <1>1, <1>11 DEF TaskType
<1>13. /\ task' \in [Procs -> TaskType] /\ task'[p] = [t EXCEPT !.pc = "execute", !.jobs = <<j1, j2>>]
       /\ \A q \in Procs \ {p} : task'[q] = task[q]
  BY <1>9, <1>12, TaskTypeStep
<1>14. TypeInv'
  BY <1>10, <1>13 DEF StoreMessage, TypeInv, jobVars, socketVars, counters
<1> QED
  BY <1>2, <1>6, <1>7, <1>8, <1>10, <1>13, <1>14 DEF t, e

\* The update of the read marks; the table and the jobs it leaves.
LEMMA MarkType ==
  ASSUME TypeInv, NEW p \in Procs, MarkRead(p)
  PROVE  /\ TypeInv'
         /\ Len(msgs) \in Nat /\ DOMAIN msgs = 1 .. Len(msgs)
         /\ DOMAIN msgs' = DOMAIN msgs /\ Len(msgs') = Len(msgs)
         /\ \A m \in DOMAIN msgs :
               msgs'[m] = IF msgs[m].chat = task[p].chat /\ msgs[m].to = task[p].by
                          THEN [msgs[m] EXCEPT !.isRead = TRUE] ELSE msgs[m]
<1>1. msgs \in Seq(MsgType)
  BY DEF TypeInv
<1>2. Len(msgs) \in Nat /\ DOMAIN msgs = 1 .. Len(msgs)
  BY <1>1, LenProperties
<1>3. \A m \in 1 .. Len(msgs) : msgs[m] \in MsgType
  BY <1>1, ElementOfSeq
<1>4. \A m \in 1 .. Len(msgs) : [msgs[m] EXCEPT !.isRead = TRUE] \in MsgType
  BY <1>3 DEF MsgType
<1>5. msgs' = [m \in 1 .. Len(msgs) |-> IF m \in UnreadFor(task[p].chat, task[p].by)
                                        THEN [msgs[m] EXCEPT !.isRead = TRUE] ELSE msgs[m]]
  BY <1>2 DEF MarkRead
<1>6. msgs' \in [1 .. Len(msgs) -> MsgType]
  BY <1>3, <1>4, <1>5
<1>7. msgs' \in Seq(MsgType) /\ Len(msgs') = Len(msgs) /\ DOMAIN msgs' = DOMAIN msgs
  BY <1>2, <1>5, <1>6, FunctionIsSeq
<1>8. \A m \in DOMAIN msgs :
         msgs'[m] = IF msgs[m].chat = task[p].chat /\ msgs[m].to = task[p].by
                    THEN [msgs[m] EXCEPT !.isRead = TRUE] ELSE msgs[m]
  <2> SUFFICES ASSUME NEW m \in DOMAIN msgs
               PROVE  msgs'[m] = IF msgs[m].chat = task[p].chat /\ msgs[m].to = task[p].by
                                 THEN [msgs[m] EXCEPT !.isRead = TRUE] ELSE msgs[m]
    OBVIOUS
  <2>1. m \in UnreadFor(task[p].chat, task[p].by) <=>
           msgs[m].chat = task[p].chat /\ msgs[m].to = task[p].by /\ ~msgs[m].isRead
    BY DEF UnreadFor
  <2>2. msgs[m] \in MsgType
    BY <1>2, <1>3
  <2>3. msgs[m].isRead => [msgs[m] EXCEPT !.isRead = TRUE] = msgs[m]
    BY <2>2 DEF MsgType
  <2>4. msgs'[m] = IF m \in UnreadFor(task[p].chat, task[p].by)
                   THEN [msgs[m] EXCEPT !.isRead = TRUE] ELSE msgs[m]
    BY <1>2, <1>5
  <2> QED
    BY <2>1, <2>3, <2>4
<1>9. Receipts(p)
  BY DEF MarkRead
<1>10. task' \in [Procs -> TaskType]
  BY <1>9, ReceiptsType
<1>11. TypeInv'
  BY <1>7, <1>10 DEF MarkRead, TypeInv, jobVars, socketVars, counters
<1> QED
  BY <1>2, <1>7, <1>8, <1>11

\* The next job, if any, is one of those that were left.
LEMMA NextJobType ==
  ASSUME TypeInv, TaskInv, NEW p \in Procs, At(p, "execute"), NextJob(p)
  PROVE  /\ task' \in [Procs -> TaskType]
         /\ \A q \in Procs \ {p} : task'[q] = task[q]
         /\ \/ task'[p] = Idle
            \/ /\ task'[p] = [task[p] EXCEPT !.jobs = Tail(task[p].jobs)]
               /\ Tail(task[p].jobs) # <<>>
               /\ \A k \in DOMAIN Tail(task[p].jobs) :
                     /\ k + 1 \in DOMAIN task[p].jobs
                     /\ Tail(task[p].jobs)[k] = task[p].jobs[k + 1]
         /\ 1 \in DOMAIN task[p].jobs /\ Head(task[p].jobs) = task[p].jobs[1]
         /\ Head(task[p].jobs) \in JobType
<1> DEFINE t == task[p]
<1>1. t \in TaskType /\ t.jobs # <<>> /\ t.jobs \in Seq(JobType)
  BY DEF TypeInv, TaskInv, TaskGood, At, TaskType
<1>2. /\ Len(t.jobs) \in Nat \ {0} /\ DOMAIN t.jobs = 1 .. Len(t.jobs)
      /\ Head(t.jobs) = t.jobs[1] /\ Head(t.jobs) \in JobType
      /\ Tail(t.jobs) \in Seq(JobType) /\ Len(Tail(t.jobs)) = Len(t.jobs) - 1
      /\ \A k \in 1 .. Len(Tail(t.jobs)) : Tail(t.jobs)[k] = t.jobs[k + 1]
  BY <1>1, HeadTailProperties, EmptySeq, LenProperties
<1>3. CASE Len(t.jobs) = 1
  BY <1>2, <1>3, IdleType, TaskTypeStep DEF NextJob, End
<1>4. CASE Len(t.jobs) # 1
  <2> DEFINE tt == [t EXCEPT !.jobs = Tail(t.jobs)]
  <2>1. tt \in TaskType
    BY <1>1, <1>2 DEF TaskType
  <2>2. Only(p, tt)
    BY <1>4 DEF NextJob
  <2> HIDE DEF tt
  <2>3. task' \in [Procs -> TaskType] /\ task'[p] = tt /\ \A q \in Procs \ {p} : task'[q] = task[q]
    BY <2>1, <2>2, TaskTypeStep
  <2>4. DOMAIN Tail(t.jobs) = 1 .. Len(t.jobs) - 1
    BY <1>2, LenProperties
  <2>5. Tail(t.jobs) # <<>>
    <3>1. Len(Tail(t.jobs)) # 0
      BY <1>2, <1>4
    <3>2. Len(<<>>) = 0
      OBVIOUS
    <3> QED
      BY <3>1, <3>2
  <2> QED
    BY <1>2, <2>3, <2>4, <2>5 DEF tt
<1> QED
  BY <1>3, <1>4

\* executeJob in a request.
LEMMA TypeExecute == ASSUME TypeInv, TaskInv, NEW p \in Procs, Execute(p) PROVE TypeInv'
<1>1. task' \in [Procs -> TaskType] /\ Head(task[p].jobs) \in JobType
  BY NextJobType DEF Execute
<1>2. Home[p] \in Instances
  BY HomeAssumption
<1>3. jobLog' \in Seq(LogType) /\ channel' \in [Instances -> Seq(Nat)]
  BY <1>1, <1>2, Emits DEF Execute
<1> QED
  BY <1>1, <1>3 DEF Execute, TypeInv, socketVars, chatVars, counters

\* A call that fails.
LEMMA TypeFails == ASSUME TypeInv, TaskInv, NEW p \in Procs, CallFails(p) PROVE TypeInv'
<1>1. task' \in [Procs -> TaskType]
  <2>1. CASE Only(p, [task[p] EXCEPT !.pc = "create"])
    <3>1. [task[p] EXCEPT !.pc = "create"] \in TaskType
      BY DEF TypeInv, TaskType
    <3> QED
      BY <2>1, <3>1, TaskTypeStep
  <2>2. CASE End(p)
    BY <2>2, IdleType, TaskTypeStep DEF End
  <2>3. CASE Receipts(p)
    BY <2>3, ReceiptsType
  <2>4. CASE At(p, "execute") /\ NextJob(p)
    BY <2>4, NextJobType
  <2> QED
    BY <2>1, <2>2, <2>3, <2>4 DEF CallFails
<1>2. fails' = fails + 1 /\ fails \in Nat
  BY DEF CallFails, TypeInv
<1> QED
  BY <1>1, <1>2 DEF CallFails, TypeInv, jobVars, socketVars, chatVars

\* The listener.
LEMMA TypeHandle ==
  ASSUME TypeInv, EventInv, JobsInv, NEW i \in Instances, Job(i) \/ JobDoneFails(i)
  PROVE  TypeInv'
<1>1. PICK logged \in BOOLEAN : HandleJob(i, logged)
  BY DEF Job, JobDoneFails
<1>2. /\ jobLog' \in Seq(LogType) /\ at' = at /\ got' = got
      /\ channel' = [channel EXCEPT ![i] = Tail(channel[i])] /\ channel[i] # <<>>
      /\ inbox' = inbox \/ inbox' \in [Instances -> Seq(EventType)]
  BY <1>1, Handles
<1>3. channel[i] \in Seq(Nat) /\ channel \in [Instances -> Seq(Nat)]
  BY DEF TypeInv
<1>4. Tail(channel[i]) \in Seq(Nat)
  BY <1>2, <1>3, HeadTailProperties
<1>5. channel' \in [Instances -> Seq(Nat)]
  BY <1>2, <1>3, <1>4
<1>6. fails' \in Nat /\ requests' = requests /\ drops' = drops /\ crashes' = crashes
  <2>1. fails \in Nat
    BY DEF TypeInv
  <2>2. fails' \in {fails, fails + 1} /\ requests' = requests /\ drops' = drops /\ crashes' = crashes
    BY DEF Job, JobDoneFails, counters
  <2> QED
    BY <2>1, <2>2
<1>7. UNCHANGED <<up, chatVars, task>>
  BY DEF Job, JobDoneFails
<1> QED
  BY <1>2, <1>5, <1>6, <1>7 DEF TypeInv, chatVars

\* An instance receives an event; what it does to the devices.
LEMMA ConsumeType ==
  ASSUME TypeInv, NEW i \in Instances, Consume(i)
  PROVE  /\ TypeInv'
         /\ inbox[i] # <<>> /\ inbox' = [inbox EXCEPT ![i] = Tail(inbox[i])]
         /\ inbox[i] \in Seq(EventType) /\ Head(inbox[i]) \in EventType
         /\ \A d \in Devices :
               \/ got'[d] = got[d] /\ ~(at[d] = i /\ UserOf[d] = Head(inbox[i]).user)
               \/ /\ got'[d] = Append(got[d], Head(inbox[i]))
                  /\ at[d] = i /\ UserOf[d] = Head(inbox[i]).user
<1> DEFINE e == Head(inbox[i])
<1>1. /\ inbox[i] # <<>> /\ inbox' = [inbox EXCEPT ![i] = Tail(inbox[i])]
      /\ got' = [d \in Devices |-> IF d \in SocketsOf(i, e.user)
                                   THEN Append(got[d], e) ELSE got[d]]
  BY DEF Consume, ConsumeSendEvent
<1>2. /\ inbox \in [Instances -> Seq(EventType)] /\ got \in [Devices -> Seq(EventType)]
      /\ inbox[i] \in Seq(EventType)
  BY DEF TypeInv
<1>3. e \in EventType /\ Tail(inbox[i]) \in Seq(EventType)
  BY <1>1, <1>2, HeadTailProperties
<1> HIDE DEF e
<1>4. \A d \in Devices : Append(got[d], e) \in Seq(EventType)
  BY <1>2, <1>3
<1>5. got' \in [Devices -> Seq(EventType)] /\ inbox' \in [Instances -> Seq(EventType)]
  BY <1>1, <1>2, <1>3, <1>4
<1>6. \A d \in Devices : d \in SocketsOf(i, e.user) <=> at[d] = i /\ UserOf[d] = e.user
  BY DEF SocketsOf
<1>7. \A d \in Devices : \/ got'[d] = got[d] /\ ~(at[d] = i /\ UserOf[d] = e.user)
                         \/ got'[d] = Append(got[d], e) /\ at[d] = i /\ UserOf[d] = e.user
  BY <1>1, <1>6
<1>8. TypeInv'
  BY <1>5 DEF Consume, ConsumeSendEvent, TypeInv, jobVars, chatVars, counters
<1> QED
  BY <1>1, <1>2, <1>3, <1>7, <1>8 DEF e

\* Socket messages, connections and disconnections each execute a job, which is
\* about no stored message.
LEMMA SocketEmits ==
  ASSUME TypeInv, SocketMessage \/ Come \/ Go
  PROVE  \E i \in Instances, j \in JobType :
            /\ ExecuteJob(i, j)
            /\ j.action = "sendMessage" => j.queue = "message"
            /\ j.action # "sendMessagesRead"
<1>1. \A d \in Devices : at[d] # Offline => at[d] \in Instances
  BY DEF TypeInv
<1>2. \A d \in Devices : UserOf[d] \in Users
  BY DevicesAssumption
<1>3. \A q, a, u, v : NewJob(q, a, u, v).queue = q /\ NewJob(q, a, u, v).action = a
  BY DEF NewJob
<1> DEFINE Good(j) == /\ j.action = "sendMessage" => j.queue = "message"
                      /\ j.action # "sendMessagesRead"
<1>4. ASSUME NEW u \in Users, NEW v \in Users
      PROVE  /\ NewJob("message", "sendMessage", u, v) \in JobType
             /\ NewJob("socket", "sendUserTyping", u, v) \in JobType
             /\ NewJob("socket", "sendOnlineUsersList", u, v) \in JobType
             /\ NewJob("socket", "broadcastUserOnline", u, v) \in JobType
             /\ NewJob("socket", "broadcastUserOffline", u, v) \in JobType
  BY <1>4 DEF NewJob, JobType, Queue
<1>5. CASE SocketMessage
  <2>1. PICK d \in Devices, u \in Users :
          \/ HandleMessageEvent(d, u) \/ HandleTypingEvent(d, u) \/ HandleGetOnlineUsers(d)
    BY <1>5 DEF SocketMessage
  <2>2. CASE HandleMessageEvent(d, u)
    BY <1>1, <1>2, <1>3, <1>4, <2>2 DEF HandleMessageEvent
  <2>3. CASE HandleTypingEvent(d, u)
    BY <1>1, <1>2, <1>3, <1>4, <2>3 DEF HandleTypingEvent
  <2>4. CASE HandleGetOnlineUsers(d)
    BY <1>1, <1>2, <1>3, <1>4, <2>4 DEF HandleGetOnlineUsers
  <2> QED
    BY <2>1, <2>2, <2>3, <2>4
<1>6. CASE Come
  BY <1>2, <1>3, <1>4, <1>6 DEF Come, Connect
<1>7. CASE Go
  BY <1>1, <1>2, <1>3, <1>4, <1>7 DEF Go, Disconnect
<1> QED
  BY <1>5, <1>6, <1>7

\* Sockets.
LEMMA TypeSocket == ASSUME TypeInv, SocketMessage \/ Come \/ Go PROVE TypeInv'
<1>1. jobLog' \in Seq(LogType) /\ channel' \in [Instances -> Seq(Nat)]
  BY SocketEmits, Emits
<1>2. at \in [Devices -> up \cup {Offline}] /\ got \in [Devices -> Seq(EventType)]
  BY DEF TypeInv
<1>3. requests \in Nat /\ drops \in Nat
  BY DEF TypeInv
<1>4. CASE SocketMessage
  <2>1. UNCHANGED socketVars
    BY <1>4 DEF SocketMessage, HandleMessageEvent, HandleTypingEvent, HandleGetOnlineUsers
  <2>2. requests' = requests + 1 /\ UNCHANGED <<up, chatVars, task, drops, fails, crashes>>
    BY <1>4 DEF SocketMessage, Count
  <2> QED
    BY <1>1, <1>3, <2>1, <2>2 DEF TypeInv, socketVars, chatVars
<1>5. CASE Come
  <2>1. PICK d \in Devices, i \in Instances : Connect(d, i)
    BY <1>5 DEF Come
  <2>2. /\ i \in up /\ at' = [at EXCEPT ![d] = i] /\ got' = [got EXCEPT ![d] = <<>>]
        /\ inbox' = inbox
    BY <2>1 DEF Connect
  <2>3. at' \in [Devices -> up \cup {Offline}] /\ got' \in [Devices -> Seq(EventType)]
    BY <1>2, <2>2
  <2>4. UNCHANGED <<up, chatVars, task, counters>>
    BY <1>5 DEF Come
  <2> QED
    BY <1>1, <2>2, <2>3, <2>4 DEF TypeInv, chatVars, counters
<1>6. CASE Go
  <2>1. PICK d \in Devices : Disconnect(d)
    BY <1>6 DEF Go
  <2>2. at' = [at EXCEPT ![d] = Offline] /\ got' = got /\ inbox' = inbox
    BY <2>1 DEF Disconnect
  <2>3. at' \in [Devices -> up \cup {Offline}]
    BY <1>2, <2>2
  <2>4. drops' = drops + 1 /\ UNCHANGED <<up, chatVars, task, requests, fails, crashes>>
    BY <1>6 DEF Go
  <2> QED
    BY <1>1, <1>3, <2>2, <2>3, <2>4 DEF TypeInv, chatVars
<1> QED
  BY <1>4, <1>5, <1>6

\* A crash; what it leaves of the sequences.
LEMMA CrashType ==
  ASSUME TypeInv, NEW i \in Instances, Crash(i)
  PROVE  /\ TypeInv'
         /\ \A x \in Instances : inbox'[x] = inbox[x] \/ inbox'[x] = <<>>
         /\ \A x \in Instances : /\ Len(channel'[x]) <= Len(channel[x])
                                 /\ DOMAIN channel'[x] \subseteq DOMAIN channel[x]
                                 /\ \A k \in DOMAIN channel'[x] : channel'[x][k] = channel[x][k]
         /\ \A p \in Procs : task'[p] = task[p] \/ task'[p] = Idle
         /\ \A d \in Devices : at'[d] = at[d] \/ at'[d] = Offline
<1>1. /\ up \subseteq Instances /\ at \in [Devices -> up \cup {Offline}]
      /\ inbox \in [Instances -> Seq(EventType)] /\ channel \in [Instances -> Seq(Nat)]
      /\ task \in [Procs -> TaskType] /\ crashes \in Nat
  BY DEF TypeInv
<1>2. /\ up' = up \ {i}
      /\ at' = [d \in Devices |-> IF at[d] = i THEN Offline ELSE at[d]]
      /\ inbox' = [inbox EXCEPT ![i] = <<>>]
      /\ StopEmitting(i) /\ UNCHANGED <<got, jobLog>>
  BY DEF Crash, StopInstance
<1>3. /\ task' = [p \in Procs |-> IF Home[p] = i THEN Idle ELSE task[p]]
      /\ crashes' = crashes + 1 /\ UNCHANGED <<chatVars, requests, drops, fails>>
  BY DEF Crash
<1>4. PICK n \in 0 .. Len(channel[i]) : channel' = [channel EXCEPT ![i] = SubSeq(channel[i], 1, n)]
  BY <1>2 DEF StopEmitting
<1>5. /\ SubSeq(channel[i], 1, n) \in Seq(Nat) /\ Len(SubSeq(channel[i], 1, n)) = n
      /\ Len(channel[i]) \in Nat /\ DOMAIN channel[i] = 1 .. Len(channel[i])
      /\ DOMAIN SubSeq(channel[i], 1, n) = 1 .. n
      /\ \A k \in 1 .. n : SubSeq(channel[i], 1, n)[k] = channel[i][k]
  <2>1. Len(channel[i]) \in Nat /\ DOMAIN channel[i] = 1 .. Len(channel[i])
        /\ \A k \in 1 .. Len(channel[i]) : channel[i][k] \in Nat
    BY <1>1, LenProperties, ElementOfSeq
  <2>2. n \in Int /\ 1 \in Int /\ \A k \in 1 .. n : channel[i][k] \in Nat
    BY <2>1
  <2>3. /\ SubSeq(channel[i], 1, n) \in Seq(Nat)
        /\ Len(SubSeq(channel[i], 1, n)) = IF 1 <= n THEN n - 1 + 1 ELSE 0
        /\ \A k \in 1 .. n - 1 + 1 : SubSeq(channel[i], 1, n)[k] = channel[i][1 + k - 1]
    BY <2>2, SubSeqProperties
  <2>4. Len(SubSeq(channel[i], 1, n)) = n
    BY <2>1, <2>3
  <2>5. DOMAIN SubSeq(channel[i], 1, n) = 1 .. n
    BY <2>3, <2>4, LenProperties
  <2>6. \A k \in 1 .. n : SubSeq(channel[i], 1, n)[k] = channel[i][k]
    BY <2>1, <2>3
  <2> QED
    BY <2>1, <2>3, <2>4, <2>5, <2>6
<1>6. channel' \in [Instances -> Seq(Nat)]
  BY <1>1, <1>4, <1>5
<1>7. \A x \in Instances : /\ Len(channel'[x]) <= Len(channel[x])
                           /\ DOMAIN channel'[x] \subseteq DOMAIN channel[x]
                           /\ \A k \in DOMAIN channel'[x] : channel'[x][k] = channel[x][k]
  <2> SUFFICES ASSUME NEW x \in Instances
               PROVE  /\ Len(channel'[x]) <= Len(channel[x])
                      /\ DOMAIN channel'[x] \subseteq DOMAIN channel[x]
                      /\ \A k \in DOMAIN channel'[x] : channel'[x][k] = channel[x][k]
    OBVIOUS
  <2>1. CASE x = i
    <3>1. channel'[x] = SubSeq(channel[i], 1, n)
      BY <1>1, <1>4, <2>1
    <3> QED
      BY <1>5, <2>1, <3>1
  <2>2. CASE x # i
    <3>1. channel'[x] = channel[x] /\ Len(channel[x]) \in Nat
      BY <1>1, <1>4, <2>2, LenProperties
    <3> QED
      BY <3>1
  <2> QED
    BY <2>1, <2>2
<1>8. /\ inbox' \in [Instances -> Seq(EventType)]
      /\ \A x \in Instances : inbox'[x] = inbox[x] \/ inbox'[x] = <<>>
  BY <1>1, <1>2
<1>9. task' \in [Procs -> TaskType] /\ \A p \in Procs : task'[p] = task[p] \/ task'[p] = Idle
  BY <1>1, <1>3, IdleType
<1>10. /\ at' \in [Devices -> up' \cup {Offline}] /\ up' \subseteq Instances
       /\ \A d \in Devices : at'[d] = at[d] \/ at'[d] = Offline
  BY <1>1, <1>2
<1>11. TypeInv'
  BY <1>2, <1>3, <1>1, <1>6, <1>8, <1>9, <1>10 DEF TypeInv, chatVars
<1> QED
  BY <1>7, <1>8, <1>9, <1>10, <1>11

\* A restart.
LEMMA TypeRestart == ASSUME TypeInv, NEW i \in Instances, Restart(i) PROVE TypeInv'
<1>1. up' \subseteq Instances /\ at \in [Devices -> up' \cup {Offline}]
  BY DEF Restart, TypeInv
<1> QED
  BY <1>1 DEF Restart, TypeInv, jobVars, socketVars, chatVars, counters

-----------------------------------------------------------------------------
\* What only grows: messages keep their chat and users and stay read, chats and
\* the jobs of the log stay.

MsgsGrow ==
    /\ Len(msgs) \in Nat /\ Len(msgs') \in Nat /\ Len(msgs) <= Len(msgs')
    /\ DOMAIN msgs = 1 .. Len(msgs) /\ DOMAIN msgs' = 1 .. Len(msgs')
    /\ \A m \in DOMAIN msgs : /\ msgs'[m].chat = msgs[m].chat /\ msgs'[m].from = msgs[m].from
                              /\ msgs'[m].to = msgs[m].to
                              /\ msgs[m].isRead => msgs'[m].isRead
ChatsGrow ==
    /\ DOMAIN chats \subseteq DOMAIN chats'
    /\ \A c \in DOMAIN chats : chats'[c] = chats[c]
LogGrows ==
    /\ DOMAIN jobLog \subseteq DOMAIN jobLog'
    /\ \A n \in DOMAIN jobLog : /\ jobLog'[n].job = jobLog[n].job
                                /\ jobLog'[n].home = jobLog[n].home
FailsGrow == fails' \in Nat /\ fails \in Nat /\ fails <= fails'

\* The conjuncts of a step that leaves the messages alone.
LEMMA MsgsStay == ASSUME TypeInv, UNCHANGED msgs PROVE MsgsGrow
<1>1. Len(msgs) \in Nat /\ DOMAIN msgs = 1 .. Len(msgs)
  BY LenProperties DEF TypeInv
<1> QED
  BY <1>1 DEF MsgsGrow

\* Every step lets messages, chats, jobs and failures grow only.
LEMMA OnlyGrows ==
  ASSUME TypeInv, TaskInv, EventInv, JobsInv, [Next]_vars
  PROVE  MsgsGrow /\ ChatsGrow /\ LogGrows /\ FailsGrow
<1> USE DEF ChatsGrow, LogGrows, FailsGrow
<1>0. fails \in Nat /\ fails + 1 \in Nat /\ fails <= fails + 1
  BY DEF TypeInv
<1>1. CASE UNCHANGED vars
  BY <1>0, <1>1, MsgsStay DEF vars, jobVars, chatVars, counters
<1>2. ASSUME NEW p \in Procs, StartSend(p) PROVE MsgsGrow /\ ChatsGrow /\ LogGrows /\ FailsGrow
  BY <1>0, <1>2, MsgsStay DEF StartSend, jobVars, chatVars
<1>3. ASSUME NEW p \in Procs, StartRead(p) PROVE MsgsGrow /\ ChatsGrow /\ LogGrows /\ FailsGrow
  BY <1>0, <1>3, MsgsStay DEF StartRead, jobVars, chatVars
<1>4. ASSUME NEW p \in Procs, FindChat(p) PROVE MsgsGrow /\ ChatsGrow /\ LogGrows /\ FailsGrow
  BY <1>0, <1>4, MsgsStay DEF FindChat, jobVars, chatVars, counters
<1>5. ASSUME NEW p \in Procs, CreateChat(p) PROVE MsgsGrow /\ ChatsGrow /\ LogGrows /\ FailsGrow
  <2>1. UNCHANGED <<msgs, jobLog, fails>>
    BY <1>5 DEF CreateChat, jobVars, counters
  <2>2. MsgsGrow
    BY <2>1, MsgsStay
  <2>3. ChatsGrow
    <3>1. /\ Len(chats) \in Nat /\ DOMAIN chats = 1 .. Len(chats)
          /\ DOMAIN chats' = 1 .. Len(chats) + 1
          /\ \A c \in DOMAIN chats : chats'[c] = chats[c]
      BY <1>5, CreateType
    <3>2. DOMAIN chats \subseteq DOMAIN chats'
      BY <3>1
    <3> QED
      BY <3>1, <3>2
  <2> QED
    BY <1>0, <2>1, <2>2, <2>3
<1>6. ASSUME NEW p \in Procs, StoreMessage(p) PROVE MsgsGrow /\ ChatsGrow /\ LogGrows /\ FailsGrow
  <2>1. UNCHANGED <<chats, jobLog, fails>>
    BY <1>6 DEF StoreMessage, jobVars, counters
  <2>2. MsgsGrow
    <3>1. /\ Len(msgs) \in Nat /\ DOMAIN msgs = 1 .. Len(msgs)
          /\ DOMAIN msgs' = 1 .. Len(msgs) + 1 /\ Len(msgs') = Len(msgs) + 1
          /\ \A m \in DOMAIN msgs : msgs'[m] = msgs[m]
      BY <1>6, StoreType
    <3>2. Len(msgs') \in Nat /\ Len(msgs) <= Len(msgs') /\ DOMAIN msgs' = 1 .. Len(msgs')
      BY <3>1
    <3> QED
      BY <3>1, <3>2 DEF MsgsGrow
  <2> QED
    BY <1>0, <2>1, <2>2
<1>7. ASSUME NEW p \in Procs, MarkRead(p) PROVE MsgsGrow /\ ChatsGrow /\ LogGrows /\ FailsGrow
  <2>1. UNCHANGED <<chats, jobLog, fails>>
    BY <1>7 DEF MarkRead, jobVars, counters
  <2>2. \A m \in DOMAIN msgs : msgs[m] \in MsgType
    BY LenProperties, ElementOfSeq DEF TypeInv
  <2>3. \A m \in DOMAIN msgs : msgs'[m] \in {msgs[m], [msgs[m] EXCEPT !.isRead = TRUE]}
    BY <1>7, MarkType
  <2>4. \A m \in DOMAIN msgs : /\ msgs'[m].chat = msgs[m].chat /\ msgs'[m].from = msgs[m].from
                               /\ msgs'[m].to = msgs[m].to
                               /\ msgs[m].isRead => msgs'[m].isRead
    BY <2>2, <2>3 DEF MsgType
  <2>5. MsgsGrow
    BY <1>7, <2>4, MarkType DEF MsgsGrow
  <2> QED
    BY <1>0, <2>1, <2>5
<1>8. ASSUME NEW p \in Procs, Execute(p) PROVE MsgsGrow /\ ChatsGrow /\ LogGrows /\ FailsGrow
  <2>1. UNCHANGED <<chats, msgs, fails>>
    BY <1>8 DEF Execute, chatVars, counters
  <2>2. Head(task[p].jobs) \in JobType /\ Home[p] \in Instances
    BY <1>8, NextJobType, HomeAssumption DEF Execute
  <2>3. LogGrows
    BY <1>8, <2>2, Emits DEF Execute
  <2> QED
    BY <1>0, <2>1, <2>3, MsgsStay
<1>9. ASSUME NEW p \in Procs, CallFails(p) PROVE MsgsGrow /\ ChatsGrow /\ LogGrows /\ FailsGrow
  BY <1>0, <1>9, MsgsStay DEF CallFails, jobVars, chatVars
<1>10. ASSUME NEW i \in Instances, Job(i) \/ JobDoneFails(i)
       PROVE  MsgsGrow /\ ChatsGrow /\ LogGrows /\ FailsGrow
  <2>1. UNCHANGED <<chats, msgs>> /\ fails' \in {fails, fails + 1}
    BY <1>10 DEF Job, JobDoneFails, chatVars, counters
  <2>2. PICK logged \in BOOLEAN : HandleJob(i, logged)
    BY <1>10 DEF Job, JobDoneFails
  <2>3. LogGrows
    BY <2>2, Handles
  <2> QED
    BY <1>0, <2>1, <2>3, MsgsStay
<1>11. ASSUME NEW i \in Instances, Consume(i) PROVE MsgsGrow /\ ChatsGrow /\ LogGrows /\ FailsGrow
  BY <1>0, <1>11, MsgsStay DEF Consume, ConsumeSendEvent, jobVars, chatVars, counters
<1>12. CASE SocketMessage \/ Come \/ Go
  <2>1. UNCHANGED <<chats, msgs, fails>>
    BY <1>12 DEF SocketMessage, Come, Go, chatVars, counters
  <2>2. LogGrows
    BY <1>12, SocketEmits, Emits
  <2> QED
    BY <1>0, <2>1, <2>2, MsgsStay
<1>13. ASSUME NEW i \in Instances, Crash(i) PROVE MsgsGrow /\ ChatsGrow /\ LogGrows /\ FailsGrow
  BY <1>0, <1>13, MsgsStay DEF Crash, StopInstance, chatVars
<1>14. ASSUME NEW i \in Instances, Restart(i) PROVE MsgsGrow /\ ChatsGrow /\ LogGrows /\ FailsGrow
  BY <1>0, <1>14, MsgsStay DEF Restart, jobVars, chatVars, counters
<1> QED
  BY <1>1, <1>2, <1>3, <1>4, <1>5, <1>6, <1>7, <1>8, <1>9, <1>10, <1>11, <1>12, <1>13, <1>14
     DEF Next, RequestStep

\* What a job says of the messages stays true.
LEMMA GoodJobStays ==
  ASSUME MsgsGrow, FailsGrow, NEW j \in JobType, GoodJob(j, msgs, fails)
  PROVE  GoodJob(j, msgs', fails')
<1>1. Stored(j, msgs) => Stored(j, msgs')
  <2> SUFFICES ASSUME Stored(j, msgs) PROVE Stored(j, msgs')
    OBVIOUS
  <2>1. j.msg \in 1 .. Len(msgs) /\ j.msg \in 1 .. Len(msgs')
    BY DEF Stored, MsgsGrow
  <2> QED
    BY <2>1 DEF Stored, MsgsGrow
<1>2. Covered(j, msgs) => Covered(j, msgs')
  <2> SUFFICES ASSUME Covered(j, msgs) PROVE Covered(j, msgs')
    OBVIOUS
  <2>1. j.upto \in Nat
    BY DEF JobType
  <2>2. j.upto <= Len(msgs) /\ j.upto <= Len(msgs')
    BY <2>1 DEF Covered, MsgsGrow
  <2>3. \A m \in 1 .. j.upto : m \in DOMAIN msgs
    BY <2>1, <2>2 DEF MsgsGrow
  <2> QED
    BY <2>2, <2>3 DEF Covered, MsgsGrow
<1>3. fails' = 0 => fails = 0
  BY DEF FailsGrow
<1> QED
  BY <1>1, <1>2, <1>3 DEF GoodJob

\* An event that names a job of the log goes on naming it.
LEMMA GoodEventStays ==
  ASSUME LogGrows, NEW e, GoodEvent(e, jobLog)
  PROVE  GoodEvent(e, jobLog')
BY DEF LogGrows, GoodEvent

\* What the invariant says of a request.
WorkGood(t, C, M, F) ==
    /\ TaskGood(t, C) /\ LateGood(t, C, F)
    /\ \A k \in DOMAIN t.jobs : GoodJob(t.jobs[k], M, F)

\* It says nothing of a slot at rest.
LEMMA IdleGood == ASSUME NEW C, NEW M, NEW F PROVE WorkGood(Idle, C, M, F)
<1>1. Idle.pc = "idle" /\ Idle.jobs = <<>> /\ DOMAIN <<>> = {}
  BY DEF Idle
<1> QED
  BY <1>1 DEF WorkGood, TaskGood, LateGood

\* What it says of a request that a step leaves alone stays true.
LEMMA WorkStays ==
  ASSUME MsgsGrow, ChatsGrow, FailsGrow, NEW t \in TaskType, WorkGood(t, chats, msgs, fails)
  PROVE  WorkGood(t, chats', msgs', fails')
<1>1. TaskGood(t, chats')
  BY DEF WorkGood, TaskGood, ChatsGrow
<1>2. LateGood(t, chats', fails')
  BY DEF WorkGood, LateGood, ChatsGrow, FailsGrow
<1>3. ASSUME NEW k \in DOMAIN t.jobs PROVE GoodJob(t.jobs[k], msgs', fails')
  <2>1. t.jobs[k] \in JobType
    BY LenProperties, ElementOfSeq DEF TaskType
  <2> QED
    BY <2>1, GoodJobStays DEF WorkGood
<1> QED
  BY <1>1, <1>2, <1>3 DEF WorkGood

-----------------------------------------------------------------------------
\* Requests.

\* Every step keeps the types.
LEMMA TypeStep == ASSUME IInv, [Next]_vars PROVE TypeInv'
<1> USE DEF IInv
<1>1. CASE UNCHANGED vars
  BY <1>1 DEF vars, jobVars, socketVars, chatVars, counters, TypeInv
<1>2. ASSUME NEW p \in Procs, StartSend(p) \/ StartRead(p) \/ RequestStep(p) \/ CallFails(p)
      PROVE  TypeInv'
  BY <1>2, TypeStart, TypeFind, CreateType, StoreType, MarkType, TypeExecute, TypeFails
     DEF RequestStep
<1>3. ASSUME NEW i \in Instances,
             Job(i) \/ JobDoneFails(i) \/ Consume(i) \/ Crash(i) \/ Restart(i)
      PROVE  TypeInv'
  BY <1>3, TypeHandle, ConsumeType, CrashType, TypeRestart
<1>4. CASE SocketMessage \/ Come \/ Go
  BY <1>4, TypeSocket
<1> QED
  BY <1>1, <1>2, <1>3, <1>4 DEF Next

\* Every step only adds to messages, chats, the log and the failures.
LEMMA GrowStep ==
  ASSUME IInv, [Next]_vars
  PROVE  MsgsGrow /\ ChatsGrow /\ LogGrows /\ FailsGrow
BY OnlyGrows DEF IInv

\* What the invariant says of each request.
LEMMA WorkOf ==
  ASSUME IInv, NEW p \in Procs
  PROVE  task[p] \in TaskType /\ WorkGood(task[p], chats, msgs, fails)
BY DEF IInv, TypeInv, TaskInv, LateInv, JobsInv, WorkGood

\* A request that ends, or goes on with the next of its jobs.
LEMMA NextJobGood ==
  ASSUME IInv, MsgsGrow, ChatsGrow, FailsGrow, NEW p \in Procs, At(p, "execute"), NextJob(p)
  PROVE  \A q \in Procs : WorkGood(task'[q], chats', msgs', fails')
<1>1. TypeInv /\ TaskInv
  BY DEF IInv
<1>2. /\ \A q \in Procs \ {p} : task'[q] = task[q]
      /\ \/ task'[p] = Idle
         \/ /\ task'[p] = [task[p] EXCEPT !.jobs = Tail(task[p].jobs)]
            /\ Tail(task[p].jobs) # <<>>
            /\ \A k \in DOMAIN Tail(task[p].jobs) :
                  /\ k + 1 \in DOMAIN task[p].jobs
                  /\ Tail(task[p].jobs)[k] = task[p].jobs[k + 1]
  BY <1>1, NextJobType
<1>3. \A q \in Procs : WorkGood(task[q], chats', msgs', fails')
  BY WorkOf, WorkStays
<1>4. WorkGood(task'[p], chats', msgs', fails')
  <2>1. CASE task'[p] = Idle
    BY <2>1, IdleGood
  <2>2. CASE /\ task'[p] = [task[p] EXCEPT !.jobs = Tail(task[p].jobs)]
             /\ Tail(task[p].jobs) # <<>>
             /\ \A k \in DOMAIN Tail(task[p].jobs) :
                  /\ k + 1 \in DOMAIN task[p].jobs
                  /\ Tail(task[p].jobs)[k] = task[p].jobs[k + 1]
    <3>1. /\ task[p] \in TaskType /\ task[p].pc = "execute"
          /\ \A k \in DOMAIN task[p].jobs : GoodJob(task[p].jobs[k], msgs', fails')
      BY <1>3, WorkOf DEF At, WorkGood
    <3>2. task'[p].pc = "execute" /\ task'[p].jobs = Tail(task[p].jobs)
      BY <2>2, <3>1 DEF TaskType
    <3>3. \A k \in DOMAIN task'[p].jobs : GoodJob(task'[p].jobs[k], msgs', fails')
      BY <2>2, <3>1, <3>2
    <3> QED
      BY <2>2, <3>2, <3>3 DEF WorkGood, TaskGood, LateGood
  <2> QED
    BY <1>2, <2>1, <2>2
<1> QED
  BY <1>2, <1>3, <1>4

\* The receipts, if the messages they speak of are marked or the mark failed.
LEMMA ReceiptsGood ==
  ASSUME IInv, MsgsGrow, ChatsGrow, FailsGrow, NEW p \in Procs, Receipts(p),
         \/ fails' # 0
         \/ \A m \in DOMAIN msgs : msgs'[m].chat = task[p].chat /\ msgs'[m].to = task[p].by
                                      => msgs'[m].isRead
  PROVE  \A q \in Procs : WorkGood(task'[q], chats', msgs', fails')
<1>1. PICK jobs \in Seq(JobType) :
            /\ task'[p] = [task[p] EXCEPT !.pc = "execute", !.jobs = jobs]
            /\ \A q \in Procs \ {p} : task'[q] = task[q]
            /\ Len(jobs) = 2
            /\ \A k \in DOMAIN jobs : /\ jobs[k].action = "sendMessagesRead"
                                      /\ jobs[k].by = task[p].by /\ jobs[k].chat = task[p].chat
                                      /\ jobs[k].upto = Len(msgs)
  BY ReceiptsType DEF IInv
<1>2. \A q \in Procs : WorkGood(task[q], chats', msgs', fails')
  BY WorkOf, WorkStays
<1>3. task[p] \in TaskType
  BY WorkOf
<1>4. task'[p].pc = "execute" /\ task'[p].jobs = jobs
  BY <1>1, <1>3 DEF TaskType
<1>5. jobs # <<>>
  <2>1. Len(<<>>) = 0
    OBVIOUS
  <2> QED
    BY <1>1, <2>1
<1>6. ASSUME NEW k \in DOMAIN jobs PROVE GoodJob(jobs[k], msgs', fails')
  <2>1. /\ jobs[k].action = "sendMessagesRead" /\ jobs[k].upto = Len(msgs)
        /\ jobs[k].by = task[p].by /\ jobs[k].chat = task[p].chat
    BY <1>1
  <2>2. Len(msgs) <= Len(msgs') /\ 1 .. Len(msgs) = DOMAIN msgs
    BY DEF MsgsGrow
  <2>3. fails' = 0 => Covered(jobs[k], msgs')
    BY <2>1, <2>2 DEF Covered
  <2> QED
    BY <2>1, <2>3 DEF GoodJob
<1>7. WorkGood(task'[p], chats', msgs', fails')
  BY <1>4, <1>5, <1>6 DEF WorkGood, TaskGood, LateGood
<1> QED
  BY <1>1, <1>2, <1>7

\* A request that has found its chat.
LEMMA WithChatGood ==
  ASSUME IInv, MsgsGrow, ChatsGrow, FailsGrow, NEW p \in Procs, NEW c \in DOMAIN chats',
         {chats'[c].user1, chats'[c].user2} = {task[p].by, task[p].peer},
         task'[p] = Idle \/ task'[p] = [task[p] EXCEPT !.pc = "store", !.chat = c],
         \A q \in Procs \ {p} : task'[q] = task[q]
  PROVE  \A q \in Procs : WorkGood(task'[q], chats', msgs', fails')
<1>1. \A q \in Procs : WorkGood(task[q], chats', msgs', fails')
  BY WorkOf, WorkStays
<1>2. CASE task'[p] = Idle
  BY <1>1, <1>2, IdleGood
<1>3. CASE task'[p] = [task[p] EXCEPT !.pc = "store", !.chat = c]
  <2>1. /\ task'[p].pc = "store" /\ task'[p].chat = c /\ task'[p].jobs = task[p].jobs
        /\ task'[p].by = task[p].by /\ task'[p].peer = task[p].peer
    BY <1>3, WorkOf DEF TaskType
  <2>2. WorkGood(task'[p], chats', msgs', fails')
    BY <1>1, <2>1 DEF WorkGood, TaskGood, LateGood
  <2> QED
    BY <1>1, <2>2
<1> QED
  BY <1>2, <1>3

\* What the invariant says of the requests, after every step.
LEMMA WorkStep ==
  ASSUME IInv, [Next]_vars
  PROVE  \A q \in Procs : WorkGood(task'[q], chats', msgs', fails')
<1>1. TypeInv /\ TaskInv /\ MsgsGrow /\ ChatsGrow /\ FailsGrow /\ HomeAssumption
  BY GrowStep, HomeAssumption DEF IInv
<1>2. \A q \in Procs : WorkGood(task[q], chats', msgs', fails')
  BY <1>1, WorkOf, WorkStays
<1> DEFINE Goal == \A q \in Procs : WorkGood(task'[q], chats', msgs', fails')
<1>3. ASSUME UNCHANGED task PROVE Goal
  BY <1>2, <1>3
<1>4. ASSUME NEW p \in Procs, NEW t \in TaskType, Only(p, t), WorkGood(t, chats', msgs', fails')
      PROVE  Goal
  BY <1>1, <1>2, <1>4, TaskTypeStep
<1>5. ASSUME NEW p \in Procs, StartSend(p) PROVE Goal
  <2>1. PICK u \in Users, kind \in Kinds \cap {"send", "open"} : \E v \in Talks[u] :
          Only(p, [Idle EXCEPT !.pc = "find", !.kind = kind, !.by = u, !.peer = v,
                      !.late = \E c \in DOMAIN chats : Pair(c) = {u, v}])
    BY <1>5 DEF StartSend
  <2>2. PICK v \in Talks[u] :
          Only(p, [Idle EXCEPT !.pc = "find", !.kind = kind, !.by = u, !.peer = v,
                      !.late = \E c \in DOMAIN chats : Pair(c) = {u, v}])
    BY <2>1
  <2>3. v \in Users
    BY TalksAssumption
  <2> DEFINE late == \E c \in DOMAIN chats : Pair(c) = {u, v}
             t == [Idle EXCEPT !.pc = "find", !.kind = kind, !.by = u, !.peer = v, !.late = late]
  <2>4. late \in BOOLEAN
    OBVIOUS
  <2>5. late => \E c \in DOMAIN chats' : {chats'[c].user1, chats'[c].user2} = {u, v}
    BY <1>1 DEF Pair, ChatsGrow
  <2> HIDE DEF late
  <2>6. t \in TaskType
    BY <2>3, <2>4, IdleType DEF TaskType, RequestKind
  <2>7. t.pc = "find" /\ t.by = u /\ t.peer = v /\ t.late = late /\ t.jobs = <<>>
    BY DEF Idle
  <2>8. Only(p, t)
    BY <2>2 DEF late
  <2> HIDE DEF t
  <2>9. DOMAIN <<>> = {}
    OBVIOUS
  <2>10. WorkGood(t, chats', msgs', fails')
    BY <2>5, <2>7, <2>9 DEF WorkGood, TaskGood, LateGood
  <2> QED
    BY <1>4, <2>6, <2>8, <2>10
<1>6. ASSUME NEW p \in Procs, StartRead(p) PROVE Goal
  <2>1. PICK c \in DOMAIN chats : \E u \in Pair(c) :
          Only(p, [Idle EXCEPT !.pc = "mark", !.kind = "read", !.by = u,
                   !.peer = IF chats[c].user1 = u THEN chats[c].user2 ELSE chats[c].user1,
                   !.chat = c])
    BY <1>6 DEF StartRead
  <2>2. PICK u \in Pair(c) :
          Only(p, [Idle EXCEPT !.pc = "mark", !.kind = "read", !.by = u,
                   !.peer = IF chats[c].user1 = u THEN chats[c].user2 ELSE chats[c].user1,
                   !.chat = c])
    BY <2>1
  <2> DEFINE v == IF chats[c].user1 = u THEN chats[c].user2 ELSE chats[c].user1
             t == [Idle EXCEPT !.pc = "mark", !.kind = "read", !.by = u, !.peer = v, !.chat = c]
  <2>3. {chats[c].user1, chats[c].user2} = {u, v}
    BY DEF Pair
  <2>4. Only(p, t)
    BY <2>2
  <2> HIDE DEF v
  <2>5. t.pc = "mark" /\ t.kind = "read" /\ t.by = u /\ t.peer = v /\ t.chat = c /\ t.jobs = <<>>
    BY DEF Idle
  <2> HIDE DEF t
  <2>6. c \in DOMAIN chats' /\ chats'[c] = chats[c]
    BY <1>1 DEF ChatsGrow
  <2>7. DOMAIN <<>> = {}
    OBVIOUS
  <2>8. WorkGood(t, chats', msgs', fails')
    BY <2>3, <2>5, <2>6, <2>7 DEF WorkGood, TaskGood, LateGood
  <2>9. task' = [task EXCEPT ![p] = t] /\ task \in [Procs -> TaskType]
    BY <1>1, <2>4 DEF Only, TypeInv
  <2> QED
    BY <1>2, <2>8, <2>9
<1>7. ASSUME NEW p \in Procs, FindChat(p) PROVE Goal
  <2>1. task[p] \in TaskType /\ WorkGood(task[p], chats, msgs, fails) /\ task[p].pc = "find"
    BY <1>7, WorkOf DEF FindChat, At
  <2>2. CASE \E c \in ChatsOf(task[p].by, task[p].peer) : WithChat(p, c)
    <3>1. PICK c \in ChatsOf(task[p].by, task[p].peer) : WithChat(p, c)
      BY <2>2
    <3>2. c \in DOMAIN chats /\ {chats[c].user1, chats[c].user2} = {task[p].by, task[p].peer}
      BY DEF ChatsOf, Pair
    <3>3. c \in DOMAIN chats' /\ chats'[c] = chats[c]
      BY <1>1, <3>2 DEF ChatsGrow
    <3>4. c \in Nat
      BY <1>1, <3>2, LenProperties DEF TypeInv
    <3>5. /\ \A q \in Procs \ {p} : task'[q] = task[q]
          /\ task'[p] = Idle \/ task'[p] = [task[p] EXCEPT !.pc = "store", !.chat = c]
      BY <1>1, <3>1, <3>4, WithChatType
    <3> QED
      BY <1>1, <3>2, <3>3, <3>5, WithChatGood
  <2>3. CASE /\ ChatsOf(task[p].by, task[p].peer) = {}
             /\ Only(p, [task[p] EXCEPT !.pc = "create"])
    <3> DEFINE t == [task[p] EXCEPT !.pc = "create"]
    <3>1. t \in TaskType /\ t.pc = "create" /\ t.jobs = task[p].jobs /\ t.late = task[p].late
      BY <2>1 DEF TaskType
    <3>2. ~task[p].late
      BY <2>1, <2>3 DEF WorkGood, LateGood, ChatsOf, Pair
    <3>3. \A k \in DOMAIN task[p].jobs : GoodJob(task[p].jobs[k], msgs', fails')
      BY <1>2 DEF WorkGood
    <3> HIDE DEF t
    <3>4. WorkGood(t, chats', msgs', fails')
      BY <3>1, <3>2, <3>3 DEF WorkGood, TaskGood, LateGood
    <3> QED
      BY <1>4, <2>3, <3>1, <3>4 DEF t
  <2> QED
    BY <1>7, <2>2, <2>3 DEF FindChat
<1>8. ASSUME NEW p \in Procs, CreateChat(p) PROVE Goal
  <2>1. /\ Len(chats) \in Nat /\ DOMAIN chats' = 1 .. Len(chats) + 1
        /\ chats'[Len(chats) + 1] = [user1 |-> task[p].by, user2 |-> task[p].peer]
        /\ \A q \in Procs \ {p} : task'[q] = task[q]
        /\ task'[p] = Idle \/ task'[p] = [task[p] EXCEPT !.pc = "store", !.chat = Len(chats) + 1]
    BY <1>1, <1>8, CreateType
  <2>2. Len(chats) + 1 \in DOMAIN chats'
    BY <2>1
  <2>3. {chats'[Len(chats) + 1].user1, chats'[Len(chats) + 1].user2} = {task[p].by, task[p].peer}
    BY <2>1
  <2> QED
    BY <1>1, <2>1, <2>2, <2>3, WithChatGood
<1>9. ASSUME NEW p \in Procs, StoreMessage(p) PROVE Goal
  <2>1. PICK j1 \in JobType, j2 \in JobType :
               /\ task'[p] = [task[p] EXCEPT !.pc = "execute", !.jobs = <<j1, j2>>]
               /\ j1.action = "sendMessage" /\ j1.queue = "socket" /\ j1.msg = Len(msgs) + 1
               /\ j1.by = task[p].by /\ j1.to = task[p].peer
               /\ j2.action = "sendPushNotification"
    BY <1>1, <1>9, StoreType
  <2>2. /\ Len(msgs) \in Nat /\ DOMAIN msgs' = 1 .. Len(msgs) + 1
        /\ msgs'[Len(msgs) + 1] = [chat |-> task[p].chat, from |-> task[p].by,
                                   to |-> task[p].peer, isRead |-> FALSE]
        /\ \A q \in Procs \ {p} : task'[q] = task[q]
    BY <1>1, <1>9, StoreType
  <2>3. Len(msgs) + 1 \in DOMAIN msgs'
    BY <2>2
  <2>4. Stored(j1, msgs')
    BY <2>1, <2>2, <2>3 DEF Stored
  <2>5. GoodJob(j1, msgs', fails') /\ GoodJob(j2, msgs', fails')
    BY <2>1, <2>4 DEF GoodJob
  <2>6. task'[p].pc = "execute" /\ task'[p].jobs = <<j1, j2>>
    BY <2>1, WorkOf DEF TaskType
  <2>7. <<j1, j2>> # <<>> /\ \A k \in DOMAIN <<j1, j2>> : <<j1, j2>>[k] \in {j1, j2}
    OBVIOUS
  <2>8. WorkGood(task'[p], chats', msgs', fails')
    BY <2>5, <2>6, <2>7 DEF WorkGood, TaskGood, LateGood
  <2> QED
    BY <1>2, <2>2, <2>8
<1>10. ASSUME NEW p \in Procs, MarkRead(p) PROVE Goal
  <2>1. \A m \in DOMAIN msgs :
           /\ msgs[m] \in MsgType
           /\ msgs'[m] = IF msgs[m].chat = task[p].chat /\ msgs[m].to = task[p].by
                         THEN [msgs[m] EXCEPT !.isRead = TRUE] ELSE msgs[m]
    BY <1>1, <1>10, MarkType, LenProperties, ElementOfSeq DEF TypeInv
  <2>2. \A m \in DOMAIN msgs : msgs'[m].chat = task[p].chat /\ msgs'[m].to = task[p].by
                                  => msgs'[m].isRead
    BY <2>1 DEF MsgType
  <2> QED
    BY <1>1, <1>10, <2>2, ReceiptsGood DEF MarkRead
<1>11. ASSUME NEW p \in Procs, Execute(p) PROVE Goal
  BY <1>1, <1>11, NextJobGood DEF Execute
<1>12. ASSUME NEW p \in Procs, CallFails(p) PROVE Goal
  <2>1. fails' # 0 /\ fails' > 0
    BY <1>1, <1>12 DEF CallFails, FailsGrow
  <2>2. CASE At(p, "find") /\ Only(p, [task[p] EXCEPT !.pc = "create"])
    <3> DEFINE t == [task[p] EXCEPT !.pc = "create"]
    <3>1. /\ t \in TaskType /\ t.pc = "create" /\ t.jobs = task[p].jobs
          /\ t.late = task[p].late /\ t.by = task[p].by /\ t.peer = task[p].peer
      BY WorkOf DEF TaskType
    <3>2. task[p].pc = "find" /\ WorkGood(task[p], chats', msgs', fails')
      BY <1>2, <2>2 DEF At
    <3> HIDE DEF t
    <3>3. WorkGood(t, chats', msgs', fails')
      BY <2>1, <3>1, <3>2 DEF WorkGood, TaskGood, LateGood
    <3> QED
      BY <1>4, <2>2, <3>1, <3>3 DEF t
  <2>3. CASE End(p)
    BY <1>4, <2>3, IdleType, IdleGood DEF End
  <2>4. CASE Receipts(p)
    BY <1>1, <2>1, <2>4, ReceiptsGood
  <2>5. CASE At(p, "execute") /\ NextJob(p)
    BY <1>1, <2>5, NextJobGood
  <2> QED
    BY <1>12, <2>2, <2>3, <2>4, <2>5 DEF CallFails
<1>13. ASSUME NEW i \in Instances, Crash(i) PROVE Goal
  BY <1>1, <1>2, <1>13, CrashType, IdleGood
<1>14. CASE UNCHANGED vars
  BY <1>3, <1>14 DEF vars
<1>15. ASSUME NEW i \in Instances, Job(i) \/ JobDoneFails(i) \/ Consume(i) \/ Restart(i) PROVE Goal
  BY <1>3, <1>15 DEF Job, JobDoneFails, Consume, Restart
<1>16. CASE SocketMessage \/ Come \/ Go
  BY <1>3, <1>16 DEF SocketMessage, Come, Go
<1> QED
  BY <1>5, <1>6, <1>7, <1>8, <1>9, <1>10, <1>11, <1>12, <1>13, <1>14, <1>15, <1>16
     DEF Next, RequestStep

-----------------------------------------------------------------------------
\* Messages, jobs and events.

\* Only two actions write messages.
LEMMA OnlyWriters ==
  ASSUME [Next]_vars
  PROVE  \/ UNCHANGED msgs
         \/ \E p \in Procs : StoreMessage(p) \/ MarkRead(p)
<1>1. ASSUME NEW p \in Procs,
             StartSend(p) \/ StartRead(p) \/ FindChat(p) \/ CreateChat(p) \/ Execute(p) \/ CallFails(p)
      PROVE  UNCHANGED msgs
  BY <1>1 DEF StartSend, StartRead, FindChat, CreateChat, Execute, CallFails, chatVars
<1>2. ASSUME NEW i \in Instances,
             Job(i) \/ JobDoneFails(i) \/ Consume(i) \/ Crash(i) \/ Restart(i)
      PROVE  UNCHANGED msgs
  BY <1>2 DEF Job, JobDoneFails, Consume, Crash, Restart, chatVars
<1>3. CASE SocketMessage \/ Come \/ Go \/ UNCHANGED vars
  BY <1>3 DEF SocketMessage, Come, Go, vars, chatVars
<1> QED
  BY <1>1, <1>2, <1>3 DEF Next, RequestStep

\* A new message is in the chat that its request found.
LEMMA MsgStep == ASSUME IInv, [Next]_vars PROVE MsgInv'
<1>1. TypeInv /\ MsgInv /\ MsgsGrow /\ ChatsGrow
  BY GrowStep DEF IInv
<1>2. \A m \in DOMAIN msgs : /\ msgs'[m].chat \in DOMAIN chats'
                             /\ {chats'[msgs'[m].chat].user1, chats'[msgs'[m].chat].user2}
                                   = {msgs'[m].from, msgs'[m].to}
  <2> SUFFICES ASSUME NEW m \in DOMAIN msgs
               PROVE  /\ msgs'[m].chat \in DOMAIN chats'
                      /\ {chats'[msgs'[m].chat].user1, chats'[msgs'[m].chat].user2}
                            = {msgs'[m].from, msgs'[m].to}
    OBVIOUS
  <2> DEFINE c == msgs[m].chat
  <2>1. msgs'[m].chat = c /\ msgs'[m].from = msgs[m].from /\ msgs'[m].to = msgs[m].to
    BY <1>1 DEF MsgsGrow
  <2>2. c \in DOMAIN chats /\ {chats[c].user1, chats[c].user2} = {msgs[m].from, msgs[m].to}
    BY <1>1 DEF MsgInv, Pair
  <2>3. c \in DOMAIN chats' /\ chats'[c] = chats[c]
    BY <1>1, <2>2 DEF ChatsGrow
  <2> QED
    BY <2>1, <2>2, <2>3
<1>3. CASE DOMAIN msgs' = DOMAIN msgs
  BY <1>2, <1>3 DEF MsgInv, Pair
<1>4. ASSUME NEW p \in Procs, StoreMessage(p) PROVE MsgInv'
  <2>1. /\ Len(msgs) \in Nat /\ DOMAIN msgs = 1 .. Len(msgs)
        /\ DOMAIN msgs' = 1 .. Len(msgs) + 1
        /\ msgs'[Len(msgs) + 1] = [chat |-> task[p].chat, from |-> task[p].by,
                                   to |-> task[p].peer, isRead |-> FALSE]
    BY <1>1, <1>4, StoreType
  <2>2. \A m \in DOMAIN msgs' : m \in DOMAIN msgs \/ m = Len(msgs) + 1
    BY <2>1
  <2>3. /\ task[p].chat \in DOMAIN chats
        /\ {chats[task[p].chat].user1, chats[task[p].chat].user2} = {task[p].by, task[p].peer}
    BY <1>4, WorkOf DEF StoreMessage, At, WorkGood, TaskGood
  <2>4. /\ msgs'[Len(msgs) + 1].chat \in DOMAIN chats'
        /\ {chats'[msgs'[Len(msgs) + 1].chat].user1, chats'[msgs'[Len(msgs) + 1].chat].user2}
              = {msgs'[Len(msgs) + 1].from, msgs'[Len(msgs) + 1].to}
    BY <1>1, <2>1, <2>3 DEF ChatsGrow
  <2> QED
    BY <1>2, <2>2, <2>4 DEF MsgInv, Pair
<1>5. ASSUME NEW p \in Procs, MarkRead(p) PROVE MsgInv'
  BY <1>1, <1>3, <1>5, MarkType
<1> QED
  BY <1>3, <1>4, <1>5, OnlyWriters

\* What a step adds to the log says what is so.
LEMMA LogStep ==
  ASSUME IInv, [Next]_vars
  PROVE  \/ \E i \in Instances, j \in JobType : ExecuteJob(i, j) /\ GoodJob(j, msgs', fails')
         \/ \E i \in Instances : Job(i) \/ JobDoneFails(i)
         \/ jobLog' = jobLog
<1>1. TypeInv /\ TaskInv /\ MsgsGrow /\ ChatsGrow /\ FailsGrow
  BY GrowStep DEF IInv
<1>2. ASSUME NEW p \in Procs, Execute(p)
      PROVE  \E i \in Instances, j \in JobType : ExecuteJob(i, j) /\ GoodJob(j, msgs', fails')
  <2>1. /\ Head(task[p].jobs) \in JobType /\ 1 \in DOMAIN task[p].jobs
        /\ Head(task[p].jobs) = task[p].jobs[1]
    BY <1>1, <1>2, NextJobType DEF Execute
  <2>2. GoodJob(Head(task[p].jobs), msgs', fails')
    BY <1>1, <2>1, WorkOf, GoodJobStays DEF WorkGood
  <2>3. Home[p] \in Instances
    BY HomeAssumption
  <2> QED
    BY <1>2, <2>1, <2>2, <2>3 DEF Execute
<1>3. CASE SocketMessage \/ Come \/ Go
  <2>1. PICK i \in Instances, j \in JobType :
            /\ ExecuteJob(i, j)
            /\ j.action = "sendMessage" => j.queue = "message"
            /\ j.action # "sendMessagesRead"
    BY <1>1, <1>3, SocketEmits
  <2>2. GoodJob(j, msgs', fails')
    BY <2>1 DEF GoodJob
  <2> QED
    BY <2>1, <2>2
<1>4. ASSUME NEW p \in Procs,
             StartSend(p) \/ StartRead(p) \/ FindChat(p) \/ CreateChat(p) \/ StoreMessage(p)
                \/ MarkRead(p) \/ CallFails(p)
      PROVE  jobLog' = jobLog
  BY <1>4 DEF StartSend, StartRead, FindChat, CreateChat, StoreMessage, MarkRead, CallFails, jobVars
<1>5. ASSUME NEW i \in Instances, Consume(i) \/ Crash(i) \/ Restart(i)
      PROVE  jobLog' = jobLog
  BY <1>5 DEF Consume, ConsumeSendEvent, Crash, StopInstance, Restart, jobVars
<1>6. CASE UNCHANGED vars
  BY <1>6 DEF vars, jobVars
<1> QED
  BY <1>2, <1>3, <1>4, <1>5, <1>6 DEF Next, RequestStep

\* The jobs of the log and those still to execute say what is so.
LEMMA JobsStep == ASSUME IInv, [Next]_vars PROVE JobsInv'
<1>1. TypeInv /\ EventInv /\ JobsInv /\ MsgsGrow /\ FailsGrow /\ LogGrows
  BY GrowStep DEF IInv
<1>2. \A n \in DOMAIN jobLog : jobLog'[n].job = jobLog[n].job /\ jobLog[n].job \in JobType
  <2>1. \A n \in DOMAIN jobLog : jobLog[n] \in LogType
    BY <1>1, LenProperties, ElementOfSeq DEF TypeInv
  <2> QED
    BY <1>1, <2>1 DEF LogGrows, LogType
<1>3. \A n \in DOMAIN jobLog : GoodJob(jobLog'[n].job, msgs', fails')
  BY <1>1, <1>2, GoodJobStays DEF JobsInv
<1>4. \A n \in DOMAIN jobLog' : GoodJob(jobLog'[n].job, msgs', fails')
  <2>1. ASSUME NEW i \in Instances, NEW j \in JobType, ExecuteJob(i, j), GoodJob(j, msgs', fails')
        PROVE  \A n \in DOMAIN jobLog' : GoodJob(jobLog'[n].job, msgs', fails')
    <3>1. /\ DOMAIN jobLog' = 1 .. Len(jobLog) + 1
          /\ DOMAIN jobLog = 1 .. Len(jobLog) /\ Len(jobLog) \in Nat
          /\ jobLog'[Len(jobLog) + 1].job = j
      BY <1>1, <2>1, Emits
    <3>2. \A n \in DOMAIN jobLog' : n \in DOMAIN jobLog \/ n = Len(jobLog) + 1
      BY <3>1
    <3> QED
      BY <1>3, <2>1, <3>1, <3>2
  <2>2. ASSUME NEW i \in Instances, Job(i) \/ JobDoneFails(i)
        PROVE  \A n \in DOMAIN jobLog' : GoodJob(jobLog'[n].job, msgs', fails')
    <3>1. PICK logged \in BOOLEAN : HandleJob(i, logged)
      BY <2>2 DEF Job, JobDoneFails
    <3>2. DOMAIN jobLog' = DOMAIN jobLog
      BY <1>1, <3>1, Handles
    <3> QED
      BY <1>3, <3>2
  <2>3. CASE jobLog' = jobLog
    BY <1>3, <2>3
  <2> QED
    BY <2>1, <2>2, <2>3, LogStep
<1> QED
  BY <1>4, WorkStep DEF JobsInv, WorkGood

\* What is on its way still names a job.
LEMMA EventStep == ASSUME IInv, [Next]_vars PROVE EventInv'
<1>1. TypeInv /\ EventInv /\ JobsInv /\ LogGrows
  BY GrowStep DEF IInv
<1>2. /\ channel \in [Instances -> Seq(Nat)] /\ inbox \in [Instances -> Seq(EventType)]
      /\ got \in [Devices -> Seq(EventType)]
  BY <1>1 DEF TypeInv
<1> DEFINE ChannelGood == \A i \in Instances : \A k \in DOMAIN channel'[i] :
                             channel'[i][k] \in DOMAIN jobLog'
           InboxGood == \A i \in Instances : \A k \in DOMAIN inbox'[i] :
                             GoodEvent(inbox'[i][k], jobLog')
           GotGood == \A d \in Devices : \A k \in DOMAIN got'[d] :
                             GoodEvent(got'[d][k], jobLog') /\ got'[d][k].user = UserOf[d]
<1>3. \A i \in Instances : \A k \in DOMAIN channel[i] : channel[i][k] \in DOMAIN jobLog'
  BY <1>1 DEF EventInv, LogGrows
<1>4. \A i \in Instances : \A k \in DOMAIN inbox[i] : GoodEvent(inbox[i][k], jobLog')
  BY <1>1, GoodEventStays DEF EventInv
<1>5. \A d \in Devices : \A k \in DOMAIN got[d] :
         GoodEvent(got[d][k], jobLog') /\ got[d][k].user = UserOf[d]
  BY <1>1, GoodEventStays DEF EventInv
<1>6. ASSUME NEW i \in Instances, NEW j \in JobType, ExecuteJob(i, j) PROVE ChannelGood
  <2>1. /\ DOMAIN jobLog' = 1 .. Len(jobLog) + 1 /\ Len(jobLog) \in Nat
        /\ channel'[i] = Append(channel[i], Len(jobLog) + 1)
        /\ \A x \in Instances \ {i} : channel'[x] = channel[x]
    BY <1>1, <1>6, Emits
  <2>2. Len(jobLog) + 1 \in Nat /\ Len(jobLog) + 1 \in DOMAIN jobLog'
    BY <2>1
  <2>3. channel[i] \in Seq(Nat) /\ Len(channel[i]) \in Nat
        /\ DOMAIN channel[i] = 1 .. Len(channel[i])
    BY <1>2, LenProperties
  <2>4. /\ DOMAIN channel'[i] = 1 .. Len(channel[i]) + 1
        /\ \A k \in 1 .. Len(channel[i]) : channel'[i][k] = channel[i][k]
        /\ channel'[i][Len(channel[i]) + 1] = Len(jobLog) + 1
    BY <2>1, <2>2, <2>3, Appended
  <2>5. \A k \in DOMAIN channel'[i] : k \in DOMAIN channel[i] \/ k = Len(channel[i]) + 1
    BY <2>3, <2>4
  <2> QED
    BY <1>3, <2>1, <2>2, <2>3, <2>4, <2>5
<1>7. ASSUME NEW i \in Instances, Job(i) \/ JobDoneFails(i)
      PROVE  ChannelGood /\ InboxGood /\ got' = got
  <2>1. PICK logged \in BOOLEAN : HandleJob(i, logged)
    BY <1>7 DEF Job, JobDoneFails
  <2> DEFINE uid == Head(channel[i])
  <2>2. /\ DOMAIN jobLog' = DOMAIN jobLog
        /\ \A n \in DOMAIN jobLog : jobLog'[n].job = jobLog[n].job
        /\ channel[i] # <<>> /\ channel' = [channel EXCEPT ![i] = Tail(channel[i])]
        /\ uid \in DOMAIN jobLog /\ got' = got
        /\ \/ inbox' = inbox
           \/ /\ \A x \in Instances : inbox'[x] = inbox[x] \/ inbox'[x] = inbox[x] \o EventsOf(uid)
              /\ jobLog[uid].job.action = "sendMessage" => jobLog[uid].job.queue = "socket"
    BY <1>1, <2>1, Handles
  <2> HIDE DEF uid
  <2>3. ChannelGood
    <3>1. channel[i] \in Seq(Nat)
      BY <1>2
    <3>2. /\ Tail(channel[i]) \in Seq(Nat) /\ Len(Tail(channel[i])) = Len(channel[i]) - 1
          /\ Len(channel[i]) \in Nat /\ DOMAIN channel[i] = 1 .. Len(channel[i])
          /\ \A k \in 1 .. Len(Tail(channel[i])) : Tail(channel[i])[k] = channel[i][k + 1]
      BY <2>2, <3>1, HeadTailProperties, LenProperties
    <3>3. DOMAIN Tail(channel[i]) = 1 .. Len(channel[i]) - 1
      BY <3>2, LenProperties
    <3>4. \A k \in DOMAIN Tail(channel[i]) : k + 1 \in DOMAIN channel[i]
      BY <3>2, <3>3
    <3>5. \A k \in DOMAIN Tail(channel[i]) : Tail(channel[i])[k] \in DOMAIN jobLog'
      BY <1>3, <3>2, <3>3, <3>4
    <3> QED
      BY <1>2, <1>3, <2>2, <3>5
  <2>4. InboxGood
    <3>1. CASE inbox' = inbox
      BY <1>4, <3>1
    <3>2. CASE /\ \A x \in Instances : inbox'[x] = inbox[x] \/ inbox'[x] = inbox[x] \o EventsOf(uid)
               /\ jobLog[uid].job.action = "sendMessage" => jobLog[uid].job.queue = "socket"
      <4>1. /\ EventsOf(uid) \in Seq(EventType)
            /\ \A k \in DOMAIN EventsOf(uid) :
                  EventsOf(uid)[k].uid = uid /\ EventsOf(uid)[k].user \in Ends(jobLog[uid].job)
        BY <1>1, <2>2, EventsType
      <4>2. \A k \in DOMAIN EventsOf(uid) : GoodEvent(EventsOf(uid)[k], jobLog')
        BY <2>2, <3>2, <4>1 DEF GoodEvent
      <4>3. ASSUME NEW x \in Instances, NEW k \in DOMAIN (inbox[x] \o EventsOf(uid))
            PROVE  GoodEvent((inbox[x] \o EventsOf(uid))[k], jobLog')
        <5> DEFINE n == Len(inbox[x])
                   e == Len(EventsOf(uid))
        <5>1. inbox[x] \in Seq(EventType)
          BY <1>2
        <5>2. /\ n \in Nat /\ e \in Nat /\ DOMAIN inbox[x] = 1 .. n
              /\ DOMAIN EventsOf(uid) = 1 .. e
          BY <4>1, <5>1, LenProperties
        <5>3. /\ inbox[x] \o EventsOf(uid) \in Seq(EventType)
              /\ Len(inbox[x] \o EventsOf(uid)) = n + e
              /\ \A l \in 1 .. n + e : (inbox[x] \o EventsOf(uid))[l] =
                    IF l <= n THEN inbox[x][l] ELSE EventsOf(uid)[l - n]
          BY <4>1, <5>1, ConcatProperties
        <5>4. k \in 1 .. n + e
          BY <4>3, <5>3, LenProperties
        <5> HIDE DEF n, e
        <5>5. CASE k <= n
          <6>1. k \in DOMAIN inbox[x]
            BY <5>2, <5>4, <5>5
          <6> QED
            BY <1>4, <5>3, <5>4, <5>5, <6>1
        <5>6. CASE ~(k <= n)
          <6>1. k - n \in DOMAIN EventsOf(uid)
            BY <5>2, <5>4, <5>6
          <6> QED
            BY <4>2, <5>3, <5>4, <5>6, <6>1
        <5> QED
          BY <5>5, <5>6
      <4> QED
        BY <1>4, <3>2, <4>3
    <3> QED
      BY <2>2, <3>1, <3>2
  <2> QED
    BY <2>2, <2>3, <2>4
<1>8. ASSUME NEW i \in Instances, Consume(i) PROVE ChannelGood /\ InboxGood /\ GotGood
  <2>1. jobLog' = jobLog /\ channel' = channel
    BY <1>8 DEF Consume, ConsumeSendEvent, jobVars
  <2>2. /\ inbox[i] # <<>> /\ inbox' = [inbox EXCEPT ![i] = Tail(inbox[i])]
        /\ inbox[i] \in Seq(EventType) /\ Head(inbox[i]) \in EventType
        /\ \A d \in Devices : \/ got'[d] = got[d]
                              \/ /\ got'[d] = Append(got[d], Head(inbox[i]))
                                 /\ UserOf[d] = Head(inbox[i]).user
    BY <1>1, <1>8, ConsumeType
  <2>3. /\ Tail(inbox[i]) \in Seq(EventType) /\ Len(Tail(inbox[i])) = Len(inbox[i]) - 1
        /\ Len(inbox[i]) \in Nat \ {0} /\ DOMAIN inbox[i] = 1 .. Len(inbox[i])
        /\ Head(inbox[i]) = inbox[i][1]
        /\ \A k \in 1 .. Len(Tail(inbox[i])) : Tail(inbox[i])[k] = inbox[i][k + 1]
    BY <2>2, HeadTailProperties, LenProperties, EmptySeq
  <2>4. DOMAIN Tail(inbox[i]) = 1 .. Len(inbox[i]) - 1
    BY <2>3, LenProperties
  <2>5. \A k \in DOMAIN Tail(inbox[i]) : k + 1 \in DOMAIN inbox[i]
    BY <2>3, <2>4
  <2>6. \A k \in DOMAIN Tail(inbox[i]) : GoodEvent(Tail(inbox[i])[k], jobLog')
    BY <1>4, <2>3, <2>4, <2>5
  <2>7. InboxGood
    BY <1>2, <1>4, <2>2, <2>6
  <2>8. GoodEvent(Head(inbox[i]), jobLog')
    BY <1>4, <2>3
  <2>9. ASSUME NEW d \in Devices, NEW k \in DOMAIN got'[d]
        PROVE  GoodEvent(got'[d][k], jobLog') /\ got'[d][k].user = UserOf[d]
    <3>1. CASE got'[d] = got[d]
      BY <1>5, <2>9, <3>1
    <3>2. CASE got'[d] = Append(got[d], Head(inbox[i])) /\ UserOf[d] = Head(inbox[i]).user
      <4>1. got[d] \in Seq(EventType) /\ Len(got[d]) \in Nat /\ DOMAIN got[d] = 1 .. Len(got[d])
        BY <1>2, LenProperties
      <4>2. /\ DOMAIN got'[d] = 1 .. Len(got[d]) + 1
            /\ \A l \in 1 .. Len(got[d]) : got'[d][l] = got[d][l]
            /\ got'[d][Len(got[d]) + 1] = Head(inbox[i])
        BY <2>2, <3>2, <4>1, Appended
      <4>3. k \in DOMAIN got[d] \/ k = Len(got[d]) + 1
        BY <2>9, <4>1, <4>2
      <4> QED
        BY <1>5, <2>8, <3>2, <4>1, <4>2, <4>3
    <3> QED
      BY <2>2, <3>1, <3>2
  <2> QED
    BY <1>3, <2>1, <2>7, <2>9
<1>9. ASSUME NEW i \in Instances, Crash(i) PROVE ChannelGood /\ InboxGood /\ got' = got
  <2>1. /\ \A x \in Instances : inbox'[x] = inbox[x] \/ inbox'[x] = <<>>
        /\ \A x \in Instances : /\ DOMAIN channel'[x] \subseteq DOMAIN channel[x]
                                /\ \A k \in DOMAIN channel'[x] : channel'[x][k] = channel[x][k]
    BY <1>1, <1>9, CrashType
  <2>2. got' = got
    BY <1>9 DEF Crash, StopInstance
  <2>3. DOMAIN <<>> = {}
    OBVIOUS
  <2> QED
    BY <1>3, <1>4, <2>1, <2>2, <2>3
<1>10. CASE SocketMessage \/ Come \/ Go
  <2>1. ChannelGood
    BY <1>1, <1>6, <1>10, SocketEmits
  <2>2. inbox' = inbox
    BY <1>10 DEF SocketMessage, Come, Go, HandleMessageEvent, HandleTypingEvent,
                 HandleGetOnlineUsers, Connect, Disconnect, socketVars
  <2>3. CASE Come
    <3>1. PICK d \in Devices, i \in Instances : Connect(d, i)
      BY <2>3 DEF Come
    <3>2. got' = [got EXCEPT ![d] = <<>>] /\ DOMAIN <<>> = {}
      BY <3>1 DEF Connect
    <3>3. GotGood
      BY <1>2, <1>5, <3>2
    <3> QED
      BY <1>4, <2>1, <2>2, <3>3 DEF EventInv
  <2>4. CASE SocketMessage \/ Go
    <3>1. got' = got
      BY <2>4 DEF SocketMessage, Go, HandleMessageEvent, HandleTypingEvent,
                  HandleGetOnlineUsers, Disconnect, socketVars
    <3> QED
      BY <1>4, <1>5, <2>1, <2>2, <3>1 DEF EventInv
  <2> QED
    BY <1>10, <2>3, <2>4
<1>11. ASSUME NEW p \in Procs, Execute(p) PROVE EventInv'
  <2>1. Head(task[p].jobs) \in JobType /\ Home[p] \in Instances
    BY <1>11, NextJobType, HomeAssumption DEF Execute, IInv
  <2>2. ChannelGood
    BY <1>6, <1>11, <2>1 DEF Execute
  <2>3. inbox' = inbox /\ got' = got
    BY <1>11 DEF Execute, socketVars
  <2> QED
    BY <1>4, <1>5, <2>2, <2>3 DEF EventInv
<1>12. CASE UNCHANGED <<jobVars, socketVars>>
  BY <1>3, <1>4, <1>5, <1>12 DEF EventInv, jobVars, socketVars
<1>13. ASSUME NEW p \in Procs,
              StartSend(p) \/ StartRead(p) \/ FindChat(p) \/ CreateChat(p) \/ StoreMessage(p)
                \/ MarkRead(p) \/ CallFails(p)
       PROVE  EventInv'
  BY <1>12, <1>13 DEF StartSend, StartRead, FindChat, CreateChat, StoreMessage, MarkRead, CallFails
<1>14. ASSUME NEW i \in Instances, Restart(i) PROVE EventInv'
  BY <1>12, <1>14 DEF Restart
<1>15. CASE UNCHANGED vars
  BY <1>12, <1>15 DEF vars
<1>16. ASSUME NEW i \in Instances, Job(i) \/ JobDoneFails(i) \/ Crash(i) \/ Consume(i)
       PROVE  EventInv'
  BY <1>5, <1>7, <1>8, <1>9, <1>16 DEF EventInv
<1> QED
  BY <1>10, <1>11, <1>13, <1>14, <1>15, <1>16 DEF Next, RequestStep

-----------------------------------------------------------------------------
\* The invariant and what follows from it.

\* The invariant holds at first.
LEMMA InitInv == ASSUME Init PROVE IInv
<1>1. /\ <<>> \in Seq(LogType) /\ <<>> \in Seq(Nat) /\ <<>> \in Seq(EventType)
      /\ <<>> \in Seq([user1: Users, user2: Users]) /\ <<>> \in Seq(MsgType)
      /\ DOMAIN <<>> = {}
  OBVIOUS
<1>2. TypeInv
  BY <1>1, IdleType, StartAssumption DEF Init, TypeInv
<1>3. \A p \in Procs : task[p] = Idle
  BY DEF Init
<1>4. \A p \in Procs : WorkGood(task[p], chats, msgs, fails)
  BY <1>3, IdleGood
<1>5. TaskInv /\ LateInv
  BY <1>4 DEF WorkGood, TaskInv, LateInv
<1>6. JobsInv
  BY <1>1, <1>4 DEF WorkGood, JobsInv, Init
<1>7. MsgInv /\ EventInv
  BY <1>1 DEF MsgInv, EventInv, Init
<1> QED
  BY <1>2, <1>5, <1>6, <1>7 DEF IInv

\* Every step keeps it.
LEMMA NextInv == ASSUME IInv, [Next]_vars PROVE IInv'
<1>1. TaskInv' /\ LateInv'
  BY WorkStep DEF WorkGood, TaskInv, LateInv
<1> QED
  BY <1>1, TypeStep, MsgStep, JobsStep, EventStep DEF IInv

\* The inductive invariant of the messaging core: the types, what a request has
\* found (sendMessage), what a stored message and a logged job say (executeJob),
\* and what an event on its way names (propagateEvent).
THEOREM Invariant == Spec => []IInv
<1>1. Init => IInv
  BY InitInv
<1>2. IInv /\ [Next]_vars => IInv'
  BY NextInv
<1> QED
  BY <1>1, <1>2, PTL DEF Spec

\* Every reachable state has the types of TypeOK: the rows, jobs and events that
\* sendMessage, executeJob and propagateEvent refer to exist.
THEOREM TypeCorrect == Spec => []TypeOK
<1>1. ASSUME IInv PROVE TypeOK
  <2>1. TypeInv /\ MsgInv /\ EventInv
    BY <1>1 DEF IInv
  <2>2. channel \in [Instances -> Seq(1 .. Len(jobLog))]
    <3>1. DOMAIN jobLog = 1 .. Len(jobLog) /\ channel \in [Instances -> Seq(Nat)]
      BY <2>1, LenProperties DEF TypeInv
    <3>2. ASSUME NEW i \in Instances PROVE channel[i] \in Seq(1 .. Len(jobLog))
      <4>1. channel[i] \in Seq(Nat) /\ \A k \in DOMAIN channel[i] : channel[i][k] \in 1 .. Len(jobLog)
        BY <2>1, <3>1 DEF EventInv
      <4> QED
        BY <4>1, SeqOver
    <3> QED
      BY <3>1, <3>2
  <2>3. msgs \in Seq([chat: DOMAIN chats, from: Users, to: Users, isRead: BOOLEAN])
    <3>1. msgs \in Seq(MsgType)
      BY <2>1 DEF TypeInv
    <3>2. \A m \in DOMAIN msgs : msgs[m] \in MsgType
      BY <3>1, LenProperties, ElementOfSeq
    <3>3. \A m \in DOMAIN msgs : msgs[m].chat \in DOMAIN chats
      BY <2>1 DEF MsgInv
    <3>4. \A m \in DOMAIN msgs : msgs[m] \in [chat: DOMAIN chats, from: Users, to: Users,
                                              isRead: BOOLEAN]
      BY <3>2, <3>3 DEF MsgType
    <3> QED
      BY <3>1, <3>4, SeqOver
  <2>4. jobLog \in Seq([job: JobType, home: Instances, status: JobStatus])
    BY <2>1 DEF TypeInv, LogType
  <2>5. /\ \A i \in Instances : \A k \in DOMAIN inbox[i] : inbox[i][k].uid \in DOMAIN jobLog
        /\ \A d \in Devices : \A k \in DOMAIN got[d] : got[d][k].uid \in DOMAIN jobLog
        /\ \A m \in DOMAIN msgs : Pair(msgs[m].chat) = {msgs[m].from, msgs[m].to}
    BY <2>1 DEF EventInv, GoodEvent, MsgInv
  <2> QED
    BY <2>1, <2>2, <2>3, <2>4, <2>5 DEF TypeInv, TypeOK
<1> QED
  BY <1>1, Invariant, PTL

\* What a device receives concerns its user, and a message it receives is stored
\* as it was sent (sendMessage, consumeSendEvent).
THEOREM PushedCorrect == Spec => []PushedToItsEnds
<1>1. ASSUME IInv PROVE PushedToItsEnds
  <2>1. EventInv /\ JobsInv
    BY <1>1 DEF IInv
  <2> SUFFICES ASSUME NEW d \in Devices, NEW k \in DOMAIN got[d]
               PROVE  LET j == JobOf(got[d][k]) IN
                      /\ UserOf[d] \in Ends(j)
                      /\ j.action = "sendMessage" =>
                            /\ j.msg \in DOMAIN msgs
                            /\ msgs[j.msg].from = j.by /\ msgs[j.msg].to = j.to
    BY DEF PushedToItsEnds
  <2> DEFINE j == jobLog[got[d][k].uid].job
  <2>2. /\ got[d][k].uid \in DOMAIN jobLog /\ UserOf[d] \in Ends(j)
        /\ j.action = "sendMessage" => j.queue = "socket"
    BY <2>1 DEF EventInv, GoodEvent
  <2>3. GoodJob(j, msgs, fails)
    BY <2>1, <2>2 DEF JobsInv
  <2>4. JobOf(got[d][k]) = j
    BY DEF JobOf
  <2> HIDE DEF j
  <2>5. j.action = "sendMessage" => Stored(j, msgs)
    BY <2>2, <2>3 DEF GoodJob
  <2> QED
    BY <2>2, <2>4, <2>5 DEF Stored
<1> QED
  BY <1>1, Invariant, PTL

\* A receipt never claims more than the update did: every message to the reader
\* that the chat held when readAllMessages ran its update is read.
THEOREM ReceiptsCorrect == Spec => []ReceiptCovered
<1>1. ASSUME IInv PROVE ReceiptCovered
  <2>1. EventInv /\ JobsInv
    BY <1>1 DEF IInv
  <2> SUFFICES ASSUME fails = 0, NEW d \in Devices, NEW k \in DOMAIN got[d]
               PROVE  LET j == JobOf(got[d][k]) IN
                      j.action = "sendMessagesRead" => \A m \in 1 .. j.upto :
                         msgs[m].chat = j.chat /\ msgs[m].to = j.by => msgs[m].isRead
    BY DEF ReceiptCovered
  <2> DEFINE j == jobLog[got[d][k].uid].job
  <2>2. got[d][k].uid \in DOMAIN jobLog
    BY <2>1 DEF EventInv, GoodEvent
  <2>3. GoodJob(j, msgs, fails)
    BY <2>1, <2>2 DEF JobsInv
  <2>4. JobOf(got[d][k]) = j
    BY DEF JobOf
  <2> HIDE DEF j
  <2>5. j.action = "sendMessagesRead" => Covered(j, msgs)
    BY <2>3 DEF GoodJob
  <2> QED
    BY <2>4, <2>5 DEF Covered
<1> QED
  BY <1>1, Invariant, PTL

\* A request that begins when its two users have a chat never creates another,
\* unless its find fails (sendMessage, findOrCreateChat).
THEOREM LateCorrect == Spec => []LateRequestsReuse
<1>1. ASSUME IInv PROVE LateRequestsReuse
  BY <1>1 DEF IInv, LateInv, LateGood, LateRequestsReuse
<1> QED
  BY <1>1, Invariant, PTL

\* Only its reader has a message marked as read, and it stays so (readAllMessages).
THEOREM ReadCorrect == Spec => ReadOnlyByReader
<1> DEFINE Step == \A m \in DOMAIN msgs : msgs'[m] # msgs[m] =>
          /\ ~msgs[m].isRead /\ msgs'[m] = [msgs[m] EXCEPT !.isRead = TRUE]
          /\ \E p \in Procs : /\ task[p].kind = "read" /\ task[p].chat = msgs[m].chat
                              /\ task[p].by = msgs[m].to
<1>1. ASSUME IInv, [Next]_vars PROVE Step
  <2>1. CASE UNCHANGED msgs
    BY <2>1
  <2>2. ASSUME NEW p \in Procs, StoreMessage(p) PROVE Step
    BY <1>1, <2>2, StoreType DEF IInv
  <2>3. ASSUME NEW p \in Procs, MarkRead(p) PROVE Step
    <3>1. task[p].kind = "read"
      BY <1>1, <2>3, WorkOf DEF MarkRead, At, WorkGood, TaskGood
    <3> SUFFICES ASSUME NEW m \in DOMAIN msgs, msgs'[m] # msgs[m]
                 PROVE  /\ ~msgs[m].isRead /\ msgs'[m] = [msgs[m] EXCEPT !.isRead = TRUE]
                        /\ task[p].chat = msgs[m].chat /\ task[p].by = msgs[m].to
      BY <3>1
    <3>2. msgs'[m] = IF msgs[m].chat = task[p].chat /\ msgs[m].to = task[p].by
                     THEN [msgs[m] EXCEPT !.isRead = TRUE] ELSE msgs[m]
      BY <1>1, <2>3, MarkType DEF IInv
    <3>3. msgs[m] \in MsgType
      BY <1>1, LenProperties, ElementOfSeq DEF IInv, TypeInv
    <3>4. msgs[m].isRead => [msgs[m] EXCEPT !.isRead = TRUE] = msgs[m]
      BY <3>3 DEF MsgType
    <3> QED
      BY <3>2, <3>4
  <2> QED
    BY <1>1, <2>1, <2>2, <2>3, OnlyWriters
<1>2. IInv /\ [Next]_vars => [Step]_vars
  BY <1>1
<1> QED
  BY <1>2, Invariant, PTL DEF Spec, ReadOnlyByReader
=============================================================================
