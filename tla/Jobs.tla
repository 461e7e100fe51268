-------------------------------- MODULE Jobs --------------------------------
(***************************************************************************)
(* The job queue (src/src/core/modules/ms-client, src/src/core/core.job.ts)*)
(*                                                                         *)
(* executeJob writes a job to the log and publishes it on a Redis channel; *)
(* the listeners run in the primary instance only (src/src/main.ts:79).    *)
(* Redis keeps nothing: what is published while the primary is down, or on *)
(* a queue without a listener, is lost.  channel[i] holds the jobs that    *)
(* instance i has emitted and that have not reached the primary: one       *)
(* connection, so first in, first out; nothing orders two instances.       *)
(*                                                                         *)
(* The operators below are parts of the actions of Chat.                   *)
(***************************************************************************)
EXTENDS Integers, Sequences

CONSTANTS
    Instances,  \* the processes of the cluster
    Primary     \* the one whose NODE_APP_INSTANCE is 0

ASSUME InstancesAssumption == Primary \in Instances

VARIABLES
    up,         \* the instances that are running
    jobLog,     \* the log; the uid of a job is its position
    channel     \* channel[i]: uids emitted by i and still on their way

jobVars == <<jobLog, channel>>

Queue == {"socket", "notification", "message"}
\* "Done" stands for Completed and Errored.
JobStatus == {"Pending", "Done"}

\* executeJob: the insert into the log, and the emit that follows it without
\* another await (what may come between the two changes neither).
ExecuteJob(i, job) ==
    /\ jobLog' = Append(jobLog, [job |-> job, home |-> i, status |-> "Pending"])
    /\ channel' = [channel EXCEPT ![i] = Append(@, Len(jobLog) + 1)]

\* Somebody receives what is published on queue q.  No @MsListener names
\* "controller.message".
Listening(q) == Primary \in up /\ q \in {"socket", "notification"}

\* The first job of i's channel arrives, or is lost.
Received(i) == channel' = [channel EXCEPT ![i] = Tail(@)]

JobDone(uid) == jobLog' = [jobLog EXCEPT ![uid].status = "Done"]

\* Instance i dies: of what it has emitted, only a prefix has left it.
StopEmitting(i) ==
    \E n \in 0 .. Len(channel[i]) :
        channel' = [channel EXCEPT ![i] = SubSeq(@, 1, n)]
=============================================================================
