--------------------------- MODULE Notifications ----------------------------
(***************************************************************************)
(* NotificationService, the listener of 'controller.notification': one job *)
(* becomes mails to its user, or one push to the devices of the user.      *)
(***************************************************************************)
EXTENDS Sessions

CONSTANTS Templates  \* src/seeds/sql/template.seed.ts: what send() can find

VARIABLES mails,     \* jobs of 'controller.email': [job, user, template]
          pushes     \* of 'controller.firebase-notification': [job, log]

noticeVars == <<clock, users, tokens, black, req, pc, token, mine, answer, before,
                faults, logs, closers>>

OnTo(n, l) == notices' = (notices \ {n}) \cup {[n EXCEPT !.step = l]}
Drop(n) == notices' = notices \ {n}

(* Mutant: sent again, a code has a template that no seed has.             *)
TemplateOfResend(op) == CASE op = "forgot" -> "forgot_password"
                          [] op = "send" -> "resend_otp"
                          [] op \in {"reset", "change"} -> "change_password"
                          [] op = "message" -> "push"

(* What each request says in its mail; a message in a chat (ChatService)   *)
(* is pushed.                                                              *)
TemplateOf(op) == CASE op \in {"forgot", "send"} -> "forgot_password"
                    [] op \in {"reset", "change"} -> "change_password"
                    [] op = "message" -> "push"

(* executeJob: the answer does not depend on whether it worked.            *)
ExecuteJob(p) ==
    LET u == IF req[p].op = "message" THEN req[p].user ELSE mine[p].user
    IN /\ pc[p] = "mail"
       /\ notices' = notices \cup {Notice(p, u, TemplateOf(req[p].op))}
       /\ End(p, "ok")
       /\ UNCHANGED <<users, tokens, black, mine, logs, closers, mails, pushes>>

(* send(): a template that is not there, or a user who is not, ends it.    *)
FindTemplate(n) ==
    /\ n.step = "find" /\ n.template # "push"
    /\ IF n.template \in Templates THEN OnTo(n, "user") ELSE Drop(n)
    /\ UNCHANGED <<mails, pushes>>

FindAddressee(n) ==
    /\ n.step = "user"
    /\ IF Live(n.user) /\ users[n.user].mail THEN OnTo(n, "mail") ELSE Drop(n)
    /\ UNCHANGED <<mails, pushes>>

SendMail(n) ==
    /\ n.step = "mail" /\ Drop(n)
    /\ mails' = mails \cup {[job |-> n.job, user |-> n.user, template |-> n.template]}
    /\ UNCHANGED pushes

(* Mutant: sessions that were closed count.                                *)
PushToAll(n) ==
    /\ n.step = "find" /\ n.template = "push" /\ Drop(n)
    /\ pushes' = pushes \cup {[job |-> n.job, log |-> s] :
                    s \in {l \in Logs : logs[l].is = "used" /\ logs[l].user = n.user}}
    /\ UNCHANGED mails

(* sendPushNotification: the devices of the open sessions of the user.     *)
SendPush(n) ==
    /\ n.step = "find" /\ n.template = "push" /\ Drop(n)
    /\ pushes' = pushes \cup {[job |-> n.job, log |-> s] :
                    s \in {l \in Logs : /\ logs[l].is = "used" /\ logs[l].active
                                        /\ logs[l].user = n.user}}
    /\ UNCHANGED mails

Listen == /\ \E n \in notices : FindTemplate(n) \/ FindAddressee(n) \/ SendMail(n) \/ SendPush(n)
          /\ UNCHANGED noticeVars

(* A job is lost while the primary is down, or a call of its listener      *)
(* fails.                                                                  *)
LoseNotice ==
    /\ faults < MaxFaults /\ faults' = faults + 1
    /\ \E n \in notices : Drop(n)
    /\ UNCHANGED <<clock, users, tokens, black, req, pc, token, mine, answer, before,
                   logs, closers, mails, pushes>>
=============================================================================
