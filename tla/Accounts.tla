------------------------------ MODULE Accounts ------------------------------
(***************************************************************************)
(* Sign-in, codes, users and notifications together: any requests at work  *)
(* at once in the cluster, the updates nobody awaits, the listener of the  *)
(* notification queue, time, failing calls and processes that die.         *)
(***************************************************************************)
EXTENDS OneTimeCodes, UserAccounts, Notifications

(* The tables that requests find: sessions and codes as earlier requests   *)
(* leave them, once none is at work, and every user with a creator.        *)
ASSUME WorldsAssumption ==
    \A w \in Worlds :
        /\ w.users \in [Users -> Row] /\ w.logs \in [Logs -> Log]
        /\ w.codes \in [Codes -> Code]
        /\ \A t \in w.tokens :
              t \in Token /\ w.logs[t.log].is = "used" /\ w.logs[t.log].user = t.user
        /\ \A u \in Users : w.users[u].is = "live" => w.users[u].by # Nobody
        /\ \A c \in Codes : w.codes[c].is # "free" => w.codes[c].retry <= RetryLimit
        /\ \A s, r \in Logs :
              /\ s # r /\ w.logs[s].is = "used" /\ w.logs[r].is = "used"
              /\ w.logs[r].device # "none" /\ w.logs[s].device = w.logs[r].device
              => ~(w.logs[s].active /\ w.logs[r].active)

ASSUME CallsAssumption == Calls \subseteq [Jobs -> Request]

vars == <<clock, users, tokens, black, req, pc, token, mine, answer, before,
          notices, faults, logs, closers, codes, mails, pushes>>

NoToken == [log |-> First(Logs), user |-> First(Users), exp |-> 0]

Init ==
    /\ \E w \in Worlds : /\ users = w.users /\ tokens = w.tokens
                          /\ logs = w.logs /\ codes = w.codes
    /\ req \in Calls
    /\ clock = 0
    /\ black = [x \in Stores |-> [s \in Logs |-> NoEntry]]
    /\ pc = [p \in Jobs |-> "idle"]
    /\ token = [p \in Jobs |-> NoToken]
    /\ mine = [p \in Jobs |-> [user |-> Nobody, row |-> users[First(Users)],
                               list |-> {}, info |-> {}, left |-> 0]]
    /\ answer = [p \in Jobs |-> "none"]
    /\ before = [p \in Jobs |-> {}]
    /\ notices = {} /\ closers = {} /\ mails = {} /\ pushes = {}
    /\ faults = 0

Tick == /\ clock < MaxTime /\ clock' = clock + 1
        /\ UNCHANGED <<users, tokens, black, req, pc, token, mine, answer, before,
                       notices, faults, logs, closers, codes, mails, pushes>>

(* Memory holds 5000 lists: others have pushed this one out.               *)
Evict(i, s) ==
    /\ Has(i, s)
    /\ black' = [black EXCEPT ![i][s] = NoEntry]
    /\ UNCHANGED <<clock, users, tokens, req, pc, token, mine, answer, before,
                   notices, faults, logs, closers, codes, mails, pushes>>

(* The call that a job awaits fails.  Some failures nobody looks at: of    *)
(* the login log at logout, of dropping a code, of executeJob.  A read from*)
(* Redis that fails finds no list, and a write is in memory all the same.  *)
CallFails(p) ==
    /\ pc[p] \notin {"idle", "done"}
    /\ pc[p] \in {"guard", "list"} => ~Has(Host[p], token[p].log)
    /\ faults < MaxFaults /\ faults' = faults + 1
    /\ IF pc[p] = "block" THEN Put(p, {Host[p]}, mine[p].list \cup {token[p]})
       ELSE black' = black
    /\ CASE pc[p] = "guard" /\ clock < token[p].exp -> GoTo(p, "user")
         [] pc[p] = "close" -> GoTo(p, "list")
         [] pc[p] = "list" -> GoTo(p, "block")
         [] pc[p] = "drop" -> GoTo(p, "mail")
         [] pc[p] \in {"block", "mail"} -> End(p, "ok")
         [] OTHER -> End(p, "error")
    /\ UNCHANGED <<clock, users, tokens, req, token, mine, before, notices,
                   logs, closers, codes, mails, pushes>>

CloserFails ==
    /\ faults < MaxFaults /\ faults' = faults + 1
    /\ \E c \in closers : closers' = closers \ {c}
    /\ UNCHANGED <<clock, users, tokens, black, req, pc, token, mine, answer, before,
                   notices, logs, codes, mails, pushes>>

(* A process dies, with the jobs it serves, the updates they did not await *)
(* and its copy of the lists; pm2 starts it again.                         *)
Crash(i) ==
    /\ \E p \in Jobs : Host[p] = i /\ pc[p] # "idle"
    /\ faults < MaxFaults /\ faults' = faults + 1
    /\ pc' = [p \in Jobs |-> IF Host[p] = i /\ pc[p] # "idle" THEN "done" ELSE pc[p]]
    /\ closers' = {c \in closers : Host[c.job] # i}
    /\ black' = [black EXCEPT ![i] = [s \in Logs |-> NoEntry]]
    /\ UNCHANGED <<clock, users, tokens, req, token, mine, answer, before,
                   notices, logs, codes, mails, pushes>>

HandlerStep(p) ==
    /\ \/ JwtGuard(p) /\ UNCHANGED <<logs, closers, codes, mails, pushes>>
       \/ SessionStep(p) /\ UNCHANGED <<codes, mails, pushes>>
       \/ CodeStep(p) /\ UNCHANGED <<mails, pushes>>
       \/ UserStep(p) /\ UNCHANGED <<logs, closers, codes, mails, pushes>>
       \/ ExecuteJob(p) /\ UNCHANGED codes
    /\ UNCHANGED <<clock, req, token, before, faults>>

CloseStep == (\E c \in closers : CloseOthers(c)) /\ UNCHANGED <<codes, mails, pushes>>

Next ==
    \/ \E p \in Jobs : \/ Begin(p) /\ UNCHANGED <<logs, closers, codes, mails, pushes>>
                       \/ HandlerStep(p) \/ CallFails(p)
    \/ \E i \in Instances : Crash(i) \/ \E s \in Logs : Evict(i, s)
    \/ CloseStep \/ CloserFails
    \/ Listen /\ UNCHANGED codes
    \/ LoseNotice /\ UNCHANGED codes
    \/ Tick

(* The event loop comes back to what awaits, and the listener listens.     *)
Spec == /\ Init /\ [][Next]_vars
        /\ \A p \in Jobs : WF_vars(HandlerStep(p))
        /\ WF_vars(CloseStep) /\ WF_vars(Listen /\ UNCHANGED codes)

-----------------------------------------------------------------------------
TypeOK ==
    /\ clock \in 0..MaxTime
    /\ users \in [Users -> Row] /\ logs \in [Logs -> Log] /\ codes \in [Codes -> Code]
    /\ \A t \in tokens : t \in Token /\ logs[t.log].is = "used" /\ logs[t.log].user = t.user
    /\ \A x \in Stores, s \in Logs : black[x][s].tokens \subseteq tokens /\ black[x][s].until \in Nat
    /\ req \in Calls
    /\ \A p \in Jobs : pc[p] \notin {"idle", "done"} /\ NeedsToken(req[p].op) => token[p] \in tokens
    /\ answer \in [Jobs -> {"none", "ok", "refused", "wrong", "error"}]
    /\ before \in [Jobs -> SUBSET Jobs]
    /\ closers \subseteq [log : Logs, job : Jobs]
    /\ \A m \in mails : m.user \in Users /\ m.template \in Templates
    /\ faults \in 0..MaxFaults

Done(p, op) == req[p].op = op /\ answer[p] = "ok"

(* A token that was logged out is refused in every process until it        *)
(* expires, unless a call failed, or another logout of the same session was*)
(* answered that overlapped, or came later with a token that expires       *)
(* earlier, or was served before by another process, which sees and may    *)
(* write back the list it has kept (addToBlackList, isBlackListed).        *)
StaysLoggedOut ==
    \A p \in Jobs : Done(p, "logout") /\ clock < token[p].exp /\ faults = 0 =>
        \/ \A i \in Instances : token[p] \in Listed(i, token[p].log)
        \/ \E q \in Jobs \ {p} :
              /\ Done(q, "logout") /\ token[q].log = token[p].log
              /\ \/ Overlap(p, q)
                 \/ p \in before[q] /\ token[q].exp < token[p].exp
                 \/ q \in before[p] /\ Host[q] # Host[p]

(* What an answered updateSessionInfo wrote is kept, unless another of the *)
(* same session was answered that overlapped with it.                      *)
InfoKept ==
    \A p \in Jobs : Done(p, "info") =>
        \/ p \in logs[token[p].log].info
        \/ \E q \in Jobs : /\ Done(q, "info") /\ token[q].log = token[p].log
                           /\ Overlap(p, q)

(* A code is accepted once, and one wrong try more than the limit is       *)
(* answered only to tries that overlapped (verifyOtp).                     *)
Tries(c, a) == {p \in Jobs : req[p].op = "verify" /\ req[p].code = c /\ answer[p] = a}
TriesBounded ==
    \A c \in Codes :
        /\ \A p, q \in Tries(c, "ok") : p = q \/ Overlap(p, q)
        /\ Cardinality(Tries(c, "wrong")) <= RetryLimit
             \/ \E p, q \in Tries(c, "wrong") : Overlap(p, q)

(* A password is not changed by other requests than changePassword of the  *)
(* user and resetPassword with a code of the user that was verified, and   *)
(* one code resets it once, unless two resets overlapped or a call failed. *)
Resets(c) == {p \in Jobs : Done(p, "reset") /\ req[p].code = c}
ResetByCode ==
    /\ \A c \in Codes : \A p \in Resets(c) :
         /\ codes[c].verified
         /\ \A q \in Resets(c) : p = q \/ Overlap(p, q) \/ faults > 0
    /\ \A p \in Jobs : pc[p] = "password" /\ req[p].op = "reset" =>
         mine[p].user = codes[req[p].code].user /\ codes[req[p].code].verified

(* A user without a creator is being registered, or was when a call failed *)
(* or the process died (createUser).                                       *)
CreatorKnown ==
    \A u \in Users : Live(u) /\ users[u].by = Nobody =>
        faults > 0 \/ \E p \in Jobs : pc[p] = "own" /\ mine[p].user = u

(* A device that logged out before a message was sent gets no push of it,  *)
(* unless a call failed.                                                   *)
NoPushAfterLogout ==
    \A n \in pushes : \A q \in before[n.job] :
        Done(q, "logout") /\ token[q].log = n.log => faults > 0

(* A device has one open session at most, once the updates that its logins *)
(* did not wait for are through, unless one was lost.                      *)
OneOpenPerDevice ==
    closers = {} /\ faults = 0 =>
        \A s, r \in Logs :
            /\ s < r /\ logs[s].is = "used" /\ logs[r].is = "used"
            /\ logs[r].device # "none" /\ logs[s].device = logs[r].device
            => ~(logs[s].active /\ logs[r].active)

(* Who forgets the password, or asks for the code again, is sent it, and   *)
(* who registers is welcomed, unless a call failed.                        *)
Mailed(p) == \/ \E m \in mails : m.job = p
             \/ mine[p].user # Nobody
                  /\ ~(Live(mine[p].user) /\ users[mine[p].user].mail)
AnnouncedInTheEnd ==
    \A p \in Jobs : Done(p, "forgot") \/ Done(p, "send") \/ Done(p, "register")
                      ~> faults > 0 \/ Mailed(p)
=============================================================================
