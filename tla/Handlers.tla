------------------------------ MODULE Handlers ------------------------------
(***************************************************************************)
(* What the handlers of sign-in, one-time codes and users share: the clock,*)
(* the users table, the JWTs that were issued, the blacklist in Redis with *)
(* the copy that each process has of it, and the jobs: each one HTTP       *)
(* request, which runs from one await to the next in one process.          *)
(*                                                                         *)
(* Abstracted: an e-mail is a model value, a password hash is the password *)
(* it is the hash of, a JWT is its payload, a code is right or wrong.      *)
(***************************************************************************)
EXTENDS Naturals, FiniteSets

CONSTANTS
    Jobs,       \* each one HTTP request
    Instances,  \* processes of the API
    Host,       \* Host[p]: the instance that serves job p
    Redis,      \* the cache they share
    Users,      \* ids of users, used and unused: 1..n
    Emails, Passwords,
    Devices,    \* info.device_token of a login, or "none"
    Logs,       \* ids of login logs (sessions), used and unused: 1..n
    Codes,      \* ids of otp sessions, used and unused: 1..n
    Calls,      \* what the jobs may ask, all together
    Worlds,     \* what the tables may hold before
    TokenLife, RefreshLife, CodeLife, Day, \* in ticks of the clock
    RetryLimit, ResendLimit, \* of a code
    MaxTime, MaxFaults

ASSUME IdsAssumption ==
    /\ Users \subseteq Nat \ {0} /\ Users # {} /\ Logs \subseteq Nat /\ Codes \subseteq Nat
    /\ IsFiniteSet(Jobs) /\ "none" \in Devices

ASSUME HostAssumption == Host \in [Jobs -> Instances] /\ Redis \notin Instances

ASSUME LivesAssumption ==
    /\ TokenLife \in Nat \ {0} /\ RefreshLife \in Nat \ {0}
    /\ CodeLife \in Nat \ {0} /\ Day \in Nat \ {0}
    /\ RetryLimit \in Nat /\ ResendLimit \in Nat
    /\ MaxTime \in Nat /\ MaxFaults \in Nat

VARIABLES
    clock,
    users,
    tokens,  \* issued: [log, user, exp]
    black,   \* each store's list of each session: tokens logged out, until when
    req, pc,
    token,   \* the JWT of each job
    mine,    \* what each job has read: user, row, list, info, left
    answer,
    before,  \* the jobs that had ended when this one began
    notices, \* jobs of 'controller.notification' that are not done
    faults

Nobody == 0
Row == [is : {"free", "live", "deleted"}, email : Emails, pw : Passwords,
        active : BOOLEAN, by : Users \cup {Nobody}, admin : BOOLEAN,
        tfa : BOOLEAN, mail : BOOLEAN]

Token == [log : Logs, user : Users, exp : Nat]

Live(u) == users[u].is = "live"
MayEnter(u) == Live(u) /\ users[u].active
WithEmail(e) == {u \in Users : Live(u) /\ users[u].email = e}
First(S) == CHOOSE i \in S : \A j \in S : i <= j

(* Two requests that both began, and neither after the other had ended.    *)
Overlap(p, q) == /\ p # q /\ p \notin before[q] /\ q \notin before[p]
                 /\ pc[p] # "idle" /\ pc[q] # "idle"

-----------------------------------------------------------------------------
(* Steps of a job.  Each names what it changes; the rest is here.          *)
GoTo(p, l) == pc' = [pc EXCEPT ![p] = l] /\ answer' = answer

End(p, a) == /\ pc' = [pc EXCEPT ![p] = "done"]
             /\ answer' = [answer EXCEPT ![p] = a]

(* The handlers without @Public() come after JwtAuthGuard.                 *)
Guarded == {"logout", "info", "loginAs", "add", "me", "edit", "remove", "change"}

FirstStep(op) ==
    CASE op = "login" -> "login"
      [] op = "refresh" -> "refresh"
      [] op = "forgot" -> "email"
      [] op \in {"send", "verify", "reset"} -> "code"
      [] op = "register" -> "unique"
      [] op = "logout" -> "close"
      [] op = "info" -> "info"
      [] op = "loginAs" -> "account"
      [] op = "add" -> "unique"
      [] op \in {"edit", "remove"} -> "target"
      [] op = "me" -> "write"
      [] op = "change" -> "old"
      [] op = "message" -> "mail"

(* What a client may ask; which fields matter depends on the operation.    *)
Ops == Guarded \cup {"login", "refresh", "forgot", "send", "verify", "reset", "register",
                     "message"}
Request == [op : Ops \cup {"none"}, log : Logs, email : Emails, user : Users,
            pw : Passwords, old : Passwords, device : Devices, code : Codes,
            right : BOOLEAN, on : BOOLEAN]

NeedsToken(op) == op \in Guarded \cup {"refresh"}

(* A client sends what it was given: any token issued for the session that *)
(* the request names.                                                      *)
Begin(p) ==
    /\ pc[p] = "idle" /\ req[p].op # "none"
    /\ IF NeedsToken(req[p].op)
       THEN \E t \in tokens : t.log = req[p].log /\ token' = [token EXCEPT ![p] = t]
       ELSE token' = token
    /\ GoTo(p, IF req[p].op \in Guarded THEN "guard" ELSE FirstStep(req[p].op))
    /\ before' = [before EXCEPT ![p] = {q \in Jobs : pc[q] = "done"}]
    /\ UNCHANGED <<clock, users, tokens, black, req, mine, notices, faults>>

(* CachingModule: a store in memory before the one in Redis.  An entry that*)
(* has expired, or was evicted, is not there.                              *)
Stores == Instances \cup {Redis}
NoEntry == [tokens |-> {}, until |-> 0]
Has(x, s) == clock < black[x][s].until

(* getList: the first store that has the list; memory does not learn it.   *)
Listed(i, s) == IF Has(i, s) THEN black[i][s].tokens
                ELSE IF Has(Redis, s) THEN black[Redis][s].tokens ELSE {}

(* JwtStrategy.validate: the signature and the date first, then the list,  *)
(* then the user, whose row the handler receives as its owner.             *)
CheckToken(p) ==
    /\ pc[p] = "guard"
    /\ IF clock < token[p].exp /\ token[p] \notin Listed(Host[p], token[p].log)
       THEN GoTo(p, "user") ELSE End(p, "refused")
    /\ UNCHANGED <<users, tokens, black, mine, notices>>

(* RolesGuard comes after: POST auth/user is for admins.                   *)
FindOwner(p) ==
    LET u == token[p].user
    IN /\ pc[p] = "user"
       /\ IF MayEnter(u) /\ (req[p].op = "loginAs" => users[u].admin)
          THEN GoTo(p, FirstStep(req[p].op)) ELSE End(p, "refused")
       /\ mine' = [mine EXCEPT ![p].user = u, ![p].row = users[u]]
       /\ UNCHANGED <<users, tokens, black, notices>>

JwtGuard(p) == CheckToken(p) \/ FindOwner(p)

(* SessionService.createToken, in the step that made or found the session. *)
CreateToken(s, u) == tokens' = tokens \cup {[log |-> s, user |-> u, exp |-> clock + TokenLife]}

(* A job of the queue 'controller.notification'.                           *)
Notice(p, u, template) == [job |-> p, user |-> u, template |-> template, step |-> "find"]
=============================================================================
