------------------------------ MODULE Sockets -------------------------------
(***************************************************************************)
(* Sockets and socket events (src/src/app.gateway.ts,                      *)
(* src/src/core/modules/socket, src/src/modules/socket-event).             *)
(*                                                                         *)
(* A device is connected to one instance.  The socket-event listener, in   *)
(* the primary, turns a job into events addressed to users and publishes   *)
(* them; every running instance receives every event, in the same order,   *)
(* and hands it to the sockets it has of that user.                        *)
(***************************************************************************)
EXTENDS Jobs, FiniteSets

CONSTANTS
    Users, Devices,
    UserOf,     \* UserOf[d]: the user who is logged in on device d
    Offline     \* where a device is that is not connected

ASSUME DevicesAssumption ==
    Users # {} /\ UserOf \in [Devices -> Users] /\ Offline \notin Instances

VARIABLES
    at,         \* at[d]: the instance that has d's socket
    inbox,      \* inbox[i]: events published and not yet received by i
    got         \* got[d]: events d has received since it connected

socketVars == <<at, inbox, got>>

\* Everything a job or its handler is about: who asked (by), whom it is for
\* (to), the chat and the message; upto is not in the code, see Mark in Chat.
NewJob(queue, action, by, to) ==
    [queue |-> queue, action |-> action, by |-> by, to |-> to, chat |-> 0,
     msg |-> 0, upto |-> 0]

SocketsOf(i, u) == {d \in Devices : at[d] = i /\ UserOf[d] = u}
GetOnlineUserIds(i) == {u \in Users : SocketsOf(i, u) # {}}

Event(u, uid, online) == [user |-> u, uid |-> uid, online |-> online]

-----------------------------------------------------------------------------
\* Mutant: the sender's own devices are not told.
EventsToRecipient(uid) ==
    LET j == jobLog[uid].job IN
    IF j.action = "sendMessage" THEN <<Event(j.to, uid, {})>> ELSE <<>>

\* The methods of SocketEventService.  The broadcasts of who comes and goes
\* name no user, and propagateEvent drops an event without one.
EventsOf(uid) ==
    LET j == jobLog[uid].job IN
    CASE j.action = "sendMessage" ->
            <<Event(j.to, uid, {}), Event(j.by, uid, {})>>
      [] j.action \in {"sendUserTyping", "sendMessagesRead"} ->
            <<Event(j.to, uid, {})>>
      [] j.action = "sendOnlineUsersList" ->
            <<Event(j.by, uid, GetOnlineUserIds(Primary))>>
      [] OTHER -> <<>>

\* Mutant: the primary emits to its own sockets besides publishing.
PropagateAndEmit(events) ==
    inbox' = [i \in Instances |->
                IF i \notin up THEN inbox[i]
                ELSE IF i = Primary THEN inbox[i] \o events \o events
                ELSE inbox[i] \o events]

\* propagateEvent: whoever is running receives it.
PropagateEvents(events) ==
    inbox' = [i \in Instances |-> IF i \in up THEN inbox[i] \o events ELSE inbox[i]]

\* The listener gets the first job of i's channel, publishes its events and
\* marks the job done; logged is FALSE when that last update fails.
HandleJob(i, logged) ==
    /\ channel[i] # <<>>
    /\ LET uid == Head(channel[i]) IN
       /\ Received(i)
       /\ IF Listening(jobLog[uid].job.queue)
          THEN /\ PropagateEvents(EventsOf(uid))
               /\ IF logged THEN JobDone(uid) ELSE UNCHANGED jobLog
          ELSE /\ logged
               /\ UNCHANGED <<inbox, jobLog>>
    /\ UNCHANGED <<at, got>>

\* Mutant: every socket of the instance is written to.
ConsumeForAll(i) ==
    /\ inbox[i] # <<>>
    /\ inbox' = [inbox EXCEPT ![i] = Tail(@)]
    /\ got' = [d \in Devices |-> IF at[d] = i THEN Append(got[d], Head(inbox[i]))
                                 ELSE got[d]]
    /\ UNCHANGED <<at, jobVars>>

\* Instance i receives an event and emits it to its sockets of that user.
ConsumeSendEvent(i) ==
    /\ inbox[i] # <<>>
    /\ LET e == Head(inbox[i]) IN
       got' = [d \in Devices |-> IF d \in SocketsOf(i, e.user)
                                 THEN Append(got[d], e) ELSE got[d]]
    /\ inbox' = [inbox EXCEPT ![i] = Tail(@)]
    /\ UNCHANGED <<at, jobVars>>

-----------------------------------------------------------------------------
\* A device connects to an instance, or leaves it.
Connect(d, i) ==
    /\ at[d] = Offline /\ i \in up
    /\ at' = [at EXCEPT ![d] = i]
    /\ got' = [got EXCEPT ![d] = <<>>]
    /\ ExecuteJob(i, NewJob("socket", "broadcastUserOnline", UserOf[d], UserOf[d]))
    /\ UNCHANGED inbox

Disconnect(d) ==
    /\ at[d] # Offline
    /\ at' = [at EXCEPT ![d] = Offline]
    /\ ExecuteJob(at[d], NewJob("socket", "broadcastUserOffline", UserOf[d], UserOf[d]))
    /\ UNCHANGED <<inbox, got>>

\* The socket messages of AppGateway: each becomes a job.
HandleMessageEvent(d, u) ==
    /\ at[d] # Offline
    /\ ExecuteJob(at[d], NewJob("message", "sendMessage", UserOf[d], u))
    /\ UNCHANGED socketVars

HandleTypingEvent(d, u) ==
    /\ at[d] # Offline
    /\ ExecuteJob(at[d], NewJob("socket", "sendUserTyping", UserOf[d], u))
    /\ UNCHANGED socketVars

HandleGetOnlineUsers(d) ==
    /\ at[d] # Offline
    /\ ExecuteJob(at[d], NewJob("socket", "sendOnlineUsersList", UserOf[d], UserOf[d]))
    /\ UNCHANGED socketVars

\* Instance i dies, with its sockets and what it has not sent or received.
StopInstance(i) ==
    /\ i \in up
    /\ up' = up \ {i}
    /\ at' = [d \in Devices |-> IF at[d] = i THEN Offline ELSE at[d]]
    /\ inbox' = [inbox EXCEPT ![i] = <<>>]
    /\ StopEmitting(i)
    /\ UNCHANGED <<got, jobLog>>
=============================================================================
