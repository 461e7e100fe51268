--------------------------- MODULE AccountsProofs ---------------------------
(***************************************************************************)
(* Theorems about Accounts, for any users, sessions, codes and requests,   *)
(* any number of requests at once, of failing calls and of crashes, and    *)
(* any times: what a handler knows between two awaits, and what of it      *)
(* still holds when it writes.                                             *)
(***************************************************************************)
EXTENDS Accounts, FiniteSetTheorems, WellFoundedInduction, TLAPS

(* The steps of each operation.                                            *)
Stages(op) ==
    CASE op = "login" -> {"login", "stamp", "otp", "log", "count"}
      [] op = "refresh" -> {"refresh", "owner"}
      [] op = "forgot" -> {"email", "otp", "mail"}
      [] op = "send" -> {"code", "resend", "mail"}
      [] op = "verify" -> {"code", "verify", "retry", "account", "log", "count"}
      [] op = "reset" -> {"code", "old", "password", "drop", "mail"}
      [] op = "register" -> {"unique", "insert", "own"}
      [] op = "logout" -> {"guard", "user", "close", "list", "block"}
      [] op = "info" -> {"guard", "user", "info", "merge"}
      [] op = "loginAs" -> {"guard", "user", "account", "log", "count"}
      [] op = "add" -> {"guard", "user", "unique", "insert"}
      [] op = "me" -> {"guard", "user", "write"}
      [] op \in {"edit", "remove"} -> {"guard", "user", "target", "write"}
      [] op = "change" -> {"guard", "user", "old", "password", "mail"}
      [] op = "message" -> {"mail"}
      [] OTHER -> {}

PCs == {"idle", "done", "login", "stamp", "otp", "log", "count", "refresh", "owner", "email",
        "mail", "code", "resend", "verify", "retry", "account", "old", "password", "drop",
        "unique", "insert", "own", "guard", "user", "close", "list", "block", "info", "merge",
        "target", "write"}

Entry == [tokens : SUBSET Token, until : Nat]
Mine == [user : Users \cup {Nobody}, row : Row, list : SUBSET Token,
         info : SUBSET Jobs, left : Nat]
AllTemplates == {"forgot_password", "change_password", "push", "welcome_email"}
NoticeType == [job : Jobs, user : Users, template : AllTemplates,
               step : {"find", "user", "mail"}]

(* Every variable, each table, each thing that goes from job to job.       *)
TypeInv ==
    /\ clock \in 0..MaxTime /\ faults \in 0..MaxFaults
    /\ users \in [Users -> Row] /\ logs \in [Logs -> Log] /\ codes \in [Codes -> Code]
    /\ tokens \subseteq Token
    /\ black \in [Stores -> [Logs -> Entry]]
    /\ req \in Calls /\ req \in [Jobs -> Request]
    /\ pc \in [Jobs -> PCs] /\ DOMAIN token = Jobs
    /\ mine \in [Jobs -> Mine]
    /\ answer \in [Jobs -> {"none", "ok", "refused", "wrong", "error"}]
    /\ before \in [Jobs -> SUBSET Jobs]
    /\ closers \subseteq [log : Logs, job : Jobs]
    /\ notices \subseteq NoticeType
    /\ \A n \in notices : n.step # "find" => n.template \in Templates
    /\ \A m \in mails : m.user \in Users /\ m.template \in Templates

(* A token names a session that is there, and its user.                    *)
TokenInv ==
    /\ \A t \in tokens : logs[t.log].is = "used" /\ logs[t.log].user = t.user
    /\ \A x \in Stores, s \in Logs : black[x][s].tokens \subseteq tokens
    /\ \A p \in Jobs : /\ mine[p].list \subseteq tokens
                       /\ pc[p] # "idle" /\ NeedsToken(req[p].op) =>
                             token[p] \in tokens /\ token[p].log = req[p].log
                       /\ pc[p] = "owner" => logs[req[p].log].is = "used"

(* The steps at which a job holds the user it is about.                    *)
HoldsAt(op, l) ==
    \/ l \in {"stamp", "otp", "log", "account", "own", "old", "password", "target", "write",
              "drop", "resend", "retry", "verify"}
    \/ l \in {"unique", "insert"} /\ op = "add"
    \/ l = "mail" /\ op # "message"
Holds(p) == HoldsAt(req[p].op, pc[p])

(* A job is at a step of its operation, and answers at its end.            *)
StageInv ==
    \A p \in Jobs :
        /\ pc[p] \in Stages(req[p].op) \cup {"idle", "done"}
        /\ Holds(p) => mine[p].user \in Users
        /\ answer[p] # "none" => pc[p] = "done"

(* The jobs before another have ended.                                     *)
OrderInv ==
    /\ \A p \in Jobs : \A q \in before[p] : pc[q] = "done" /\ pc[p] # "idle" /\ q # p
    /\ \A n \in notices : pc[n.job] # "idle"
    /\ \A n \in pushes : n.job \in Jobs /\ n.log \in Logs /\ pc[n.job] # "idle"

BasicInv == TypeInv /\ TokenInv /\ StageInv /\ OrderInv

-----------------------------------------------------------------------------
(* Of two open sessions of a device one has an update under way that       *)
(* closes the other.                                                       *)
OneOpenInv ==
    faults = 0 => \A s, r \in Logs :
        /\ s # r /\ logs[s].is = "used" /\ logs[r].is = "used"
        /\ logs[s].active /\ logs[r].active
        /\ logs[r].device # "none" /\ logs[s].device = logs[r].device
        => \E c \in closers : c.log \in {s, r}

(* A logout that is past the login log has closed it.                      *)
ClosedInv ==
    \A p \in Jobs :
        req[p].op = "logout" /\ faults = 0 /\ (pc[p] \in {"list", "block"} \/ answer[p] = "ok") =>
            ~logs[token[p].log].active

(* A logout of the same session that may have lost what p wrote.           *)
LostBy(p) ==
    \E q \in Jobs \ {p} :
        /\ Done(q, "logout") /\ token[q].log = token[p].log
        /\ \/ Overlap(p, q)
           \/ p \in before[q] /\ token[q].exp < token[p].exp
           \/ q \in before[p] /\ Host[q] # Host[p]

(* What a logout wrote is in Redis, and will be until the token has        *)
(* expired; it is in every copy of the list, and in what a later logout of *)
(* the session writes back.  A copy was written by a logout of its process.*)
Kept(p) ==
    LET s == token[p].log
    IN /\ token[p] \in black[Redis][s].tokens /\ token[p].exp < black[Redis][s].until
       /\ \A i \in Instances : Has(i, s) => token[p] \in black[i][s].tokens
       /\ \A q \in Jobs : pc[q] = "block" /\ token[q].log = s =>
             token[p] \in mine[q].list \/ p \notin before[q]

WrittenHere(i, s) ==
    \E q \in Jobs : Done(q, "logout") /\ Host[q] = i /\ token[q].log = s

LogoutInv ==
    faults = 0 =>
        /\ \A p \in Jobs : Done(p, "logout") /\ clock < token[p].exp => LostBy(p) \/ Kept(p)
        /\ \A i \in Instances, s \in Logs : Has(i, s) => WrittenHere(i, s)

(* The same of the info of a session.                                      *)
MergedBy(p) ==
    \E q \in Jobs : /\ Done(q, "info") /\ token[q].log = token[p].log
                    /\ Overlap(p, q)
InfoInv ==
    \A p \in Jobs : Done(p, "info") =>
        \/ MergedBy(p)
        \/ /\ p \in logs[token[p].log].info
           /\ \A q \in Jobs : pc[q] = "merge" /\ token[q].log = token[p].log =>
                 p \in mine[q].info \/ p \notin before[q]

-----------------------------------------------------------------------------
(* Jobs that have read the code they name, and found it open.              *)
CodeOps == {"send", "verify", "reset"}
Took(p) == /\ req[p].op \in CodeOps
           /\ pc[p] \notin {"idle", "code", "done"} \/ answer[p] \in {"ok", "wrong"}

(* What a job that took a code has made of it.                             *)
CodeInv ==
    \A p \in Jobs : Took(p) =>
        LET code == codes[req[p].code]
        IN /\ code.is # "free"
           /\ pc[p] \in {"retry", "resend"} => mine[p].left > 0
           /\ req[p].op = "reset" => code.verified
           /\ pc[p] \in {"old", "password"} => mine[p].user = code.user
           /\ req[p].op = "reset" /\ faults = 0 /\ (pc[p] = "mail" \/ answer[p] = "ok") =>
                 code.is = "deleted"
           /\ req[p].op = "verify" /\ (pc[p] \in {"account", "log", "count"} \/ answer[p] = "ok") =>
                 code.verified

(* Who takes a code after another was answered, took it before.            *)
OnceInv ==
    \A p, q \in Jobs : p # q /\ answer[p] = "ok" /\ Took(q) /\ req[p].op = req[q].op
                         /\ req[p].code = req[q].code =>
        /\ req[p].op = "verify" => p \notin before[q]
        /\ req[p].op = "reset" /\ faults = 0 => p \notin before[q]

(* Tries that do not overlap count down, one after the other.              *)
Wrong(c) == Tries(c, "wrong")
Apart(c) == \A p, q \in Wrong(c) : ~Overlap(p, q)
TriesInv ==
    \A c \in Codes : Apart(c) =>
        /\ codes[c].is # "free" => Cardinality(Wrong(c)) + codes[c].retry <= RetryLimit
        /\ \A p \in Jobs : pc[p] = "retry" /\ req[p].code = c /\ Wrong(c) \subseteq before[p] =>
              Cardinality(Wrong(c)) + mine[p].left <= RetryLimit

(* The inductive invariant.                                                *)
IInv == /\ BasicInv /\ CreatorKnown /\ OneOpenInv /\ ClosedInv /\ NoPushAfterLogout
        /\ LogoutInv /\ InfoInv /\ CodeInv /\ OnceInv /\ TriesInv

-----------------------------------------------------------------------------
(* The smallest of the ids that are free is one of them.                   *)
LEMMA FirstIn ==
    ASSUME NEW S \in SUBSET Nat, S # {}
    PROVE  First(S) \in S
<1>1. PICK x \in S : \A y \in S : ~(<<y, x>> \in OpToRel(<, Nat))
  BY NatLessThanWellFounded, WFMin
<1>2. \A y \in S : ~(y < x)
  BY <1>1 DEF OpToRel
<1>3. \A y \in S : x <= y
  BY <1>2
<1> QED  BY <1>3 DEF First

(* A day ends after each of its moments.                                   *)
LEMMA DayEnds ==
    ASSUME NEW t \in Nat
    PROVE  EndOfDay(t) \in Nat /\ t < EndOfDay(t)
BY LivesAssumption DEF EndOfDay

-----------------------------------------------------------------------------
(* The steps of a handler, by what they change.                            *)
Shared == <<users, tokens, black, notices, logs, closers, codes, mails, pushes>>

(* Those that only read.                                                   *)
Reads(p) ==
    /\ UNCHANGED Shared
    /\ \/ CheckToken(p) \/ FindOwner(p) \/ FindLogin(p) \/ LocalLogin(p) \/ FindAccount(p)
       \/ CountUnread(p) \/ FindRefresh(p) \/ ReadInfo(p) \/ ReadList(p) \/ VerifyEmail(p)
       \/ ReadCode(p) \/ ValidateEmail(p) \/ FindTarget(p) \/ FindUser(p)

WritesLogs(p) ==
    /\ UNCHANGED <<users, black, notices, codes, mails, pushes>>
    /\ CreateSession(p) \/ SaveInfo(p) \/ CloseLog(p)

WritesTokens(p) ==
    /\ UNCHANGED <<users, notices, logs, closers, codes, mails, pushes>>
    /\ GetNewToken(p) \/ WriteList(p)

WritesCodes(p) ==
    /\ UNCHANGED <<users, tokens, black, notices, logs, closers, mails, pushes>>
    /\ \/ CreateCode(p) \/ CountRetry(p) \/ Verify(p) \/ CountResend(p) \/ DropCode(p)

WritesUsers(p) ==
    /\ UNCHANGED <<tokens, black, logs, closers, codes, mails, pushes>>
    /\ \/ CreateUser(p) \/ OwnUser(p) \/ UpdateUser(p) \/ DeleteUser(p) \/ SavePassword(p)

Announces(p) ==
    /\ UNCHANGED <<users, tokens, black, logs, closers, codes, mails, pushes>>
    /\ ExecuteJob(p)

(* There are no others, and what each leaves alone.                        *)
LEMMA HandlerSteps ==
    ASSUME NEW p \in Jobs, HandlerStep(p)
    PROVE  /\ UNCHANGED <<clock, req, token, before, faults>>
           /\ \/ Reads(p) \/ WritesLogs(p) \/ WritesTokens(p) \/ WritesCodes(p)
              \/ WritesUsers(p) \/ Announces(p)
<1>1. UNCHANGED <<clock, req, token, before, faults>>
  BY DEF HandlerStep
<1>2. CASE JwtGuard(p) /\ UNCHANGED <<logs, closers, codes, mails, pushes>>
  <2>1. CheckToken(p) \/ FindOwner(p) => UNCHANGED <<users, tokens, black, notices>>
    BY DEF CheckToken, FindOwner
  <2> QED  BY <1>1, <1>2, <2>1 DEF JwtGuard, Reads, Shared
<1>3. CASE SessionStep(p) /\ UNCHANGED <<codes, mails, pushes>>
  <2>1. FindLogin(p) \/ LocalLogin(p) \/ FindAccount(p) \/ CountUnread(p) \/ FindRefresh(p)
           \/ ReadInfo(p) \/ ReadList(p)
          => UNCHANGED <<users, tokens, black, notices, logs, closers>>
    BY DEF FindLogin, LocalLogin, FindAccount, CountUnread, FindRefresh, ReadInfo, ReadList
  <2>2. CreateSession(p) \/ SaveInfo(p) \/ CloseLog(p) => UNCHANGED <<users, black, notices>>
    BY DEF CreateSession, SaveInfo, CloseLog
  <2>3. GetNewToken(p) \/ WriteList(p) => UNCHANGED <<users, notices, logs, closers>>
    BY DEF GetNewToken, WriteList
  <2>4. \/ FindLogin(p) \/ LocalLogin(p) \/ FindAccount(p) \/ CountUnread(p) \/ FindRefresh(p)
        \/ ReadInfo(p) \/ ReadList(p) \/ CreateSession(p) \/ SaveInfo(p) \/ CloseLog(p)
        \/ GetNewToken(p) \/ WriteList(p)
    BY <1>3 DEF SessionStep, Login, Enter, LoginAs, Refresh, UpdateInfo, Logout
  <2> QED  BY <1>1, <1>3, <2>1, <2>2, <2>3, <2>4 DEF Reads, WritesLogs, WritesTokens, Shared
<1>4. CASE CodeStep(p) /\ UNCHANGED <<mails, pushes>>
  <2>1. VerifyEmail(p) \/ ReadCode(p) \/ OpenSession(p)
          => UNCHANGED <<users, tokens, black, notices, logs, closers, codes>>
    BY DEF VerifyEmail, ReadCode, OpenSession, FindAccount
  <2>2. CreateCode(p) \/ CountRetry(p) \/ Verify(p) \/ CountResend(p) \/ DropCode(p)
          => UNCHANGED <<users, tokens, black, notices, logs, closers>>
    BY DEF CreateCode, CountRetry, Verify, CountResend, DropCode
  <2>3. \/ VerifyEmail(p) \/ ReadCode(p) \/ OpenSession(p)
        \/ CreateCode(p) \/ CountRetry(p) \/ Verify(p) \/ CountResend(p) \/ DropCode(p)
    BY <1>4 DEF CodeStep, ForgotPassword, SecondFactor, SendOtp, VerifyOtp, ResetPassword
  <2>4. OpenSession(p) => FindAccount(p)
    BY DEF OpenSession
  <2> QED  BY <1>1, <1>4, <2>1, <2>2, <2>3, <2>4 DEF Reads, WritesCodes, Shared
<1>5. CASE UserStep(p) /\ UNCHANGED <<logs, closers, codes, mails, pushes>>
  <2>1. ValidateEmail(p) \/ FindTarget(p) \/ FindUser(p)
          => UNCHANGED <<users, tokens, black, notices>>
    BY DEF ValidateEmail, FindTarget, FindUser
  <2>2. CreateUser(p) \/ OwnUser(p) \/ UpdateUser(p) \/ DeleteUser(p) \/ SavePassword(p)
          => UNCHANGED <<tokens, black>>
    BY DEF CreateUser, OwnUser, UpdateUser, DeleteUser, SavePassword
  <2>3. \/ ValidateEmail(p) \/ FindTarget(p) \/ FindUser(p)
        \/ CreateUser(p) \/ OwnUser(p) \/ UpdateUser(p) \/ DeleteUser(p) \/ SavePassword(p)
    BY <1>5 DEF UserStep, Register, AddUser, EditUser, EditMe, RemoveUser, ChangePassword
  <2> QED  BY <1>1, <1>5, <2>1, <2>2, <2>3 DEF Reads, WritesUsers, Shared
<1>6. CASE ExecuteJob(p) /\ UNCHANGED codes
  BY <1>1, <1>6 DEF ExecuteJob, Announces
<1> QED  BY <1>2, <1>3, <1>4, <1>5, <1>6 DEF HandlerStep

-----------------------------------------------------------------------------
(* What is known of any step of a handler: it is about its job only.       *)
Others(p) == \A q \in Jobs \ {p} :
                pc'[q] = pc[q] /\ mine'[q] = mine[q] /\ answer'[q] = answer[q]
Answers == {"none", "ok", "refused", "wrong", "error"}
Handled(p) ==
    /\ UNCHANGED <<clock, req, token, before, faults>>
    /\ Others(p)
    /\ pc' \in [Jobs -> PCs] /\ mine' \in [Jobs -> Mine] /\ answer' \in [Jobs -> Answers]
    /\ pc[p] \notin {"idle", "done"} /\ pc'[p] \in Stages(req[p].op) \cup {"done"}
    /\ answer[p] = "none" /\ (answer'[p] # "none" <=> pc'[p] = "done")
    /\ Holds(p)' => mine'[p].user \in Users

(* The operations of a step.                                               *)
LEMMA OpsAt ==
    ASSUME BasicInv, NEW p \in Jobs
    PROVE  LET o == req[p].op
           IN /\ pc[p] \in {"login", "stamp"} => o = "login"
              /\ pc[p] = "otp" => o \in {"login", "forgot"}
              /\ pc[p] \in {"log", "count"} => o \in {"login", "verify", "loginAs"}
              /\ pc[p] \in {"refresh", "owner"} => o = "refresh"
              /\ pc[p] = "email" => o = "forgot"
              /\ pc[p] = "mail" => o \in {"forgot", "send", "reset", "change", "message"}
              /\ pc[p] = "code" => o \in {"send", "verify", "reset"}
              /\ pc[p] = "resend" => o = "send"
              /\ pc[p] \in {"verify", "retry"} => o = "verify"
              /\ pc[p] = "account" => o \in {"verify", "loginAs"}
              /\ pc[p] \in {"old", "password"} => o \in {"reset", "change"}
              /\ pc[p] = "drop" => o = "reset"
              /\ pc[p] \in {"unique", "insert"} => o \in {"register", "add"}
              /\ pc[p] = "own" => o = "register"
              /\ pc[p] \in {"guard", "user"} => o \in Guarded
              /\ pc[p] \in {"close", "list", "block"} => o = "logout"
              /\ pc[p] \in {"info", "merge"} => o = "info"
              /\ pc[p] = "target" => o \in {"edit", "remove"}
              /\ pc[p] = "write" => o \in {"me", "edit", "remove"}
<1>1. pc[p] \in Stages(req[p].op) \cup {"idle", "done"}
  BY DEF BasicInv, StageInv
<1> QED  BY <1>1 DEF Stages, Guarded

(* A handler goes on to another step, or ends.                             *)
LEMMA Moves ==
    ASSUME BasicInv, NEW p \in Jobs, pc[p] \notin {"idle", "done"},
           UNCHANGED <<clock, req, token, before, faults>>,
           mine' \in [Jobs -> Mine], \A q \in Jobs \ {p} : mine'[q] = mine[q],
           \/ \E l \in Stages(req[p].op) \ {"idle", "done"} :
                 GoTo(p, l) /\ (HoldsAt(req[p].op, l) => mine'[p].user \in Users)
           \/ \E a \in Answers \ {"none"} : End(p, a)
    PROVE  Handled(p)
<1>1. /\ pc \in [Jobs -> PCs] /\ answer \in [Jobs -> Answers] /\ answer[p] = "none"
  BY DEF BasicInv, TypeInv, StageInv, Answers
<1>2. CASE \E a \in Answers \ {"none"} : End(p, a)
  <2>1. PICK a \in Answers \ {"none"} : End(p, a)
    BY <1>2
  <2>2. /\ pc' = [pc EXCEPT ![p] = "done"] /\ answer' = [answer EXCEPT ![p] = a]
        /\ pc' \in [Jobs -> PCs] /\ answer' \in [Jobs -> Answers]
    BY <1>1, <2>1 DEF End, PCs, Answers
  <2> QED  BY <1>1, <2>2 DEF Handled, Others, Holds, HoldsAt
<1>3. CASE \E l \in Stages(req[p].op) \ {"idle", "done"} :
              GoTo(p, l) /\ (HoldsAt(req[p].op, l) => mine'[p].user \in Users)
  <2>1. PICK l \in Stages(req[p].op) \ {"idle", "done"} :
            GoTo(p, l) /\ (HoldsAt(req[p].op, l) => mine'[p].user \in Users)
    BY <1>3
  <2>2. l \in PCs
    BY DEF Stages, PCs
  <2>3. /\ pc' = [pc EXCEPT ![p] = l] /\ answer' = answer
        /\ pc' \in [Jobs -> PCs] /\ pc'[p] = l
    BY <1>1, <2>1, <2>2 DEF GoTo
  <2>4. Holds(p)' => mine'[p].user \in Users
    BY <2>1, <2>3 DEF Holds
  <2> QED  BY <1>1, <2>3, <2>4 DEF Handled, Others
<1> QED  BY <1>2, <1>3

(* What a request holds of its session and its user.                       *)
LEMMA Held ==
    ASSUME BasicInv, NEW p \in Jobs
    PROVE  /\ req[p].log \in Logs /\ req[p].user \in Users /\ req[p].code \in Codes
           /\ mine[p] \in Mine
           /\ pc[p] # "idle" /\ NeedsToken(req[p].op) =>
                 /\ token[p] \in tokens /\ token[p].log \in Logs /\ token[p].user \in Users
                 /\ token[p].exp \in Nat /\ logs[token[p].log].is = "used"
           /\ users \in [Users -> Row] /\ logs \in [Logs -> Log] /\ codes \in [Codes -> Code]
           /\ mine \in [Jobs -> Mine]
<1>1. req[p] \in Request /\ tokens \subseteq Token
  BY DEF BasicInv, TypeInv
<1> QED  BY <1>1 DEF BasicInv, TypeInv, TokenInv, Request, Token

(* Found by an e-mail is a user.                                           *)
LEMMA Candidates ==
    ASSUME BasicInv, NEW e, WithEmail(e) # {}
    PROVE  First(WithEmail(e)) \in Users
<1>1. WithEmail(e) \subseteq Users
  BY DEF WithEmail
<1> QED  BY <1>1, FirstIn, IdsAssumption

(* The steps that only read are about their job.                           *)
LEMMA ReadsHandled ==
    ASSUME BasicInv, NEW p \in Jobs, Reads(p),
           UNCHANGED <<clock, req, token, before, faults>>
    PROVE  Handled(p)
<1> DEFINE r == req[p]
<1>1. CASE CheckToken(p)
  <2>1. r.op \in Guarded
    BY <1>1, OpsAt DEF CheckToken
  <2>2. "user" \in Stages(r.op)
    BY <2>1 DEF Guarded, Stages
  <2> QED  BY <1>1, <2>2, Moves, Held DEF CheckToken, HoldsAt, Answers
<1>2. CASE FindOwner(p)
  <2>1. r.op \in Guarded
    BY <1>2, OpsAt DEF FindOwner
  <2>2. FirstStep(r.op) \in Stages(r.op) \ {"idle", "done"}
    BY <2>1 DEF Guarded, Stages, FirstStep
  <2>3. token[p].user \in Users
    BY <1>2, <2>1, Held DEF FindOwner, NeedsToken
  <2>4. mine' \in [Jobs -> Mine] /\ mine'[p].user \in Users /\ \A q \in Jobs \ {p} : mine'[q] = mine[q]
    BY <1>2, <2>3, Held DEF FindOwner, Mine
  <2> QED  BY <1>2, <2>2, <2>4, Moves DEF FindOwner, Answers
<1>3. CASE FindLogin(p)
  <2>1. "stamp" \in Stages(r.op)
    BY <1>3, OpsAt DEF FindLogin, Stages
  <2>2. WithEmail(r.email) # {} => First(WithEmail(r.email)) \in Users
    BY Candidates
  <2>3. /\ mine' \in [Jobs -> Mine] /\ \A q \in Jobs \ {p} : mine'[q] = mine[q]
        /\ (GoTo(p, "stamp") /\ mine'[p].user \in Users) \/ End(p, "refused")
    BY <1>3, <2>2, Held DEF FindLogin, Mine
  <2> QED  BY <1>3, <2>1, <2>3, Moves DEF FindLogin, Answers
<1>4. CASE LocalLogin(p)
  <2>1. {"otp", "log"} \subseteq Stages(r.op) /\ mine[p].user \in Users
    BY <1>4, OpsAt DEF LocalLogin, Stages, BasicInv, StageInv, Holds, HoldsAt
  <2>2. (GoTo(p, "otp") \/ GoTo(p, "log")) /\ mine' = mine /\ pc[p] = "stamp"
    BY <1>4 DEF LocalLogin
  <2> QED  BY <2>1, <2>2, Held, Moves
<1>5. CASE FindAccount(p)
  <2>1. "log" \in Stages(r.op) /\ mine[p].user \in Users
    BY <1>5, OpsAt DEF FindAccount, Stages, BasicInv, StageInv, Holds, HoldsAt
  <2> DEFINE u == IF r.op = "loginAs" THEN r.user ELSE mine[p].user
             ok == MayEnter(u) /\ (r.op = "loginAs" => ~users[u].admin)
  <2>2. u \in Users
    BY <2>1, Held
  <2>3. CASE ok
    <3>1. mine' = [mine EXCEPT ![p].user = u] /\ GoTo(p, "log")
      BY <1>5, <2>3 DEF FindAccount
    <3>2. mine' \in [Jobs -> Mine] /\ mine'[p].user \in Users /\ \A q \in Jobs \ {p} : mine'[q] = mine[q]
      BY <2>2, <3>1, Held DEF Mine
    <3> QED  BY <1>5, <2>1, <3>1, <3>2, Moves DEF FindAccount
  <2>4. CASE ~ok
    <3>1. mine' = mine /\ End(p, "refused")
      BY <1>5, <2>4 DEF FindAccount
    <3> QED  BY <1>5, <3>1, Held, Moves DEF FindAccount, Answers
  <2> QED  BY <2>3, <2>4
<1>6. CASE CountUnread(p)
  BY <1>6, Held, Moves DEF CountUnread, Answers
<1>7. CASE FindRefresh(p)
  <2>1. "owner" \in Stages(r.op)
    BY <1>7, OpsAt DEF FindRefresh, Stages
  <2> QED  BY <1>7, <2>1, Held, Moves DEF FindRefresh, HoldsAt, Answers
<1>8. CASE ReadInfo(p)
  <2>1. "merge" \in Stages(r.op) /\ token[p].log \in Logs
    BY <1>8, OpsAt, Held DEF ReadInfo, Stages, NeedsToken, Guarded
  <2>2. mine' \in [Jobs -> Mine] /\ \A q \in Jobs \ {p} : mine'[q] = mine[q]
    BY <1>8, <2>1, Held DEF ReadInfo, Mine, Log
  <2> QED  BY <1>8, <2>1, <2>2, Moves DEF ReadInfo, HoldsAt
<1>9. CASE ReadList(p)
  <2>1. "block" \in Stages(r.op) /\ token[p].log \in Logs
    BY <1>9, OpsAt, Held DEF ReadList, Stages, NeedsToken, Guarded
  <2>2. Listed(Host[p], token[p].log) \in SUBSET Token
    BY <2>1, HostAssumption DEF Listed, Stores, Entry, BasicInv, TypeInv
  <2>3. mine' \in [Jobs -> Mine] /\ \A q \in Jobs \ {p} : mine'[q] = mine[q]
    BY <1>9, <2>2, Held DEF ReadList, Mine
  <2> QED  BY <1>9, <2>1, <2>3, Moves DEF ReadList, HoldsAt
<1>10. CASE VerifyEmail(p)
  <2>1. "otp" \in Stages(r.op)
    BY <1>10, OpsAt DEF VerifyEmail, Stages
  <2>2. WithEmail(r.email) # {} => First(WithEmail(r.email)) \in Users
    BY Candidates
  <2>3. /\ mine' \in [Jobs -> Mine] /\ \A q \in Jobs \ {p} : mine'[q] = mine[q]
        /\ (GoTo(p, "otp") /\ mine'[p].user \in Users) \/ End(p, "refused")
    BY <1>10, <2>2, Held DEF VerifyEmail, Mine
  <2> QED  BY <1>10, <2>1, <2>3, Moves DEF VerifyEmail, Answers
<1>11. CASE ReadCode(p)
  <2>1. r.op \in {"send", "verify", "reset"} /\ codes[r.code] \in Code
    BY <1>11, OpsAt, Held DEF ReadCode
  <2>2. /\ mine' \in [Jobs -> Mine] /\ \A q \in Jobs \ {p} : mine'[q] = mine[q]
    BY <1>11, <2>1, Held DEF ReadCode, Mine, Code
  <2>3. \/ \E l \in {"resend", "old", "verify", "retry"} :
              l \in Stages(r.op) /\ GoTo(p, l) /\ mine'[p].user \in Users
        \/ End(p, "refused")
    BY <1>11, <2>1, Held DEF ReadCode, Mine, Code, Stages
  <2> QED  BY <1>11, <2>2, <2>3, Moves DEF ReadCode, Answers
<1>12. CASE ValidateEmail(p)
  <2>1. "insert" \in Stages(r.op)
    BY <1>12, OpsAt DEF ValidateEmail, Stages
  <2>2. r.op = "add" => mine[p].user \in Users
    BY <1>12 DEF ValidateEmail, BasicInv, StageInv, Holds, HoldsAt
  <2>3. (GoTo(p, "insert") \/ End(p, "refused")) /\ mine' = mine /\ pc[p] = "unique"
    BY <1>12 DEF ValidateEmail
  <2> QED  BY <2>1, <2>2, <2>3, Held, Moves DEF Answers, HoldsAt
<1>13. CASE FindTarget(p)
  <2>1. "write" \in Stages(r.op) /\ mine[p].user \in Users
    BY <1>13, OpsAt DEF FindTarget, Stages, BasicInv, StageInv, Holds, HoldsAt
  <2>2. (GoTo(p, "write") \/ End(p, "refused")) /\ mine' = mine /\ pc[p] = "target"
    BY <1>13 DEF FindTarget
  <2> QED  BY <2>1, <2>2, Held, Moves DEF Answers
<1>14. CASE FindUser(p)
  <2>1. "password" \in Stages(r.op) /\ mine[p].user \in Users
    BY <1>14, OpsAt DEF FindUser, Stages, BasicInv, StageInv, Holds, HoldsAt
  <2>2. (GoTo(p, "password") \/ End(p, "refused")) /\ mine' = mine /\ pc[p] = "old"
    BY <1>14 DEF FindUser
  <2> QED  BY <2>1, <2>2, Held, Moves DEF Answers
<1> QED  BY <1>1, <1>2, <1>3, <1>4, <1>5, <1>6, <1>7, <1>8, <1>9, <1>10, <1>11, <1>12,
         <1>13, <1>14 DEF Reads

(* And so are, but for what they write, the others.                        *)
LEMMA WritesHandled ==
    ASSUME BasicInv, NEW p \in Jobs, UNCHANGED <<clock, req, token, before, faults>>,
           \/ WritesLogs(p) \/ WritesTokens(p) \/ WritesCodes(p) \/ WritesUsers(p) \/ Announces(p)
    PROVE  Handled(p)
<1> DEFINE r == req[p]
<1>1. CASE CreateSession(p)
  <2>1. "count" \in Stages(r.op)
    BY <1>1, OpsAt DEF CreateSession, Stages
  <2> QED  BY <1>1, <2>1, Held, Moves DEF CreateSession, HoldsAt
<1>2. CASE SaveInfo(p) \/ WriteList(p)
  BY <1>2, Held, Moves DEF SaveInfo, WriteList, Answers
<1>3. CASE CloseLog(p)
  <2>1. "list" \in Stages(r.op)
    BY <1>3, OpsAt DEF CloseLog, Stages
  <2> QED  BY <1>3, <2>1, Held, Moves DEF CloseLog, HoldsAt
<1>4. CASE GetNewToken(p)
  BY <1>4, Held, Moves DEF GetNewToken, Answers
<1>5. CASE CreateCode(p)
  <2>1. r.op # "login" => "mail" \in Stages(r.op) /\ mine[p].user \in Users
    BY <1>5, OpsAt DEF CreateCode, Stages, BasicInv, StageInv, Holds, HoldsAt
  <2>2. pc[p] = "otp" /\ mine' = mine
    BY <1>5 DEF CreateCode
  <2>3. CASE r.op = "login"
    <3>1. End(p, "ok")
      BY <1>5, <2>3 DEF CreateCode
    <3> QED  BY <2>2, <3>1, Held, Moves DEF Answers
  <2>4. CASE r.op # "login"
    <3>1. GoTo(p, "mail")
      BY <1>5, <2>4 DEF CreateCode
    <3> QED  BY <2>1, <2>2, <2>4, <3>1, Held, Moves
  <2> QED  BY <2>3, <2>4
<1>6. CASE CountRetry(p)
  BY <1>6, Held, Moves DEF CountRetry, Answers
<1>7. CASE Verify(p)
  <2>1. "account" \in Stages(r.op) /\ mine[p].user \in Users
    BY <1>7, OpsAt DEF Verify, Stages, BasicInv, StageInv, Holds, HoldsAt
  <2>2. pc[p] = "verify" /\ mine' = mine /\ (GoTo(p, "account") \/ End(p, "ok"))
    BY <1>7 DEF Verify
  <2> QED  BY <2>1, <2>2, Held, Moves DEF Answers
<1>8. CASE CountResend(p) \/ DropCode(p)
  <2>1. "mail" \in Stages(r.op) /\ mine[p].user \in Users
    BY <1>8, OpsAt DEF CountResend, DropCode, Stages, BasicInv, StageInv, Holds, HoldsAt
  <2> QED  BY <1>8, <2>1, Held, Moves DEF CountResend, DropCode
<1>9. CASE CreateUser(p)
  <2>1. r.op = "register" => "own" \in Stages(r.op)
    BY DEF Stages
  <2>2. First(FreeUsers) \in Users
    BY <1>9, FirstIn, IdsAssumption DEF CreateUser, FreeUsers
  <2>3. /\ pc[p] = "insert"
        /\ \/ /\ r.op = "register" /\ mine' = [mine EXCEPT ![p].user = First(FreeUsers)]
              /\ GoTo(p, "own")
           \/ mine' = mine /\ End(p, "ok")
    BY <1>9 DEF CreateUser
  <2>4. /\ mine' \in [Jobs -> Mine] /\ \A q \in Jobs \ {p} : mine'[q] = mine[q]
        /\ \/ GoTo(p, "own") /\ mine'[p].user \in Users /\ r.op = "register"
           \/ End(p, "ok")
    BY <2>2, <2>3, Held DEF Mine
  <2> QED  BY <2>1, <2>3, <2>4, Moves DEF Answers
<1>10. CASE OwnUser(p) \/ UpdateUser(p) \/ DeleteUser(p)
  BY <1>10, Held, Moves DEF OwnUser, UpdateUser, DeleteUser, Answers
<1>11. CASE SavePassword(p)
  <2>1. /\ r.op = "reset" => "drop" \in Stages(r.op)
        /\ r.op # "reset" => "mail" \in Stages(r.op)
        /\ mine[p].user \in Users
    BY <1>11, OpsAt DEF SavePassword, Stages, BasicInv, StageInv, Holds, HoldsAt
  <2>2. pc[p] = "password" /\ mine' = mine
    BY <1>11 DEF SavePassword
  <2>3. CASE r.op = "reset"
    <3>1. GoTo(p, "drop")
      BY <1>11, <2>3 DEF SavePassword
    <3> QED  BY <2>1, <2>2, <2>3, <3>1, Held, Moves
  <2>4. CASE r.op # "reset"
    <3>1. GoTo(p, "mail")
      BY <1>11, <2>4 DEF SavePassword
    <3> QED  BY <2>1, <2>2, <2>4, <3>1, Held, Moves
  <2> QED  BY <2>3, <2>4
<1>12. CASE ExecuteJob(p)
  BY <1>12, Held, Moves DEF ExecuteJob, Answers
<1> QED  BY <1>1, <1>2, <1>3, <1>4, <1>5, <1>6, <1>7, <1>8, <1>9, <1>10, <1>11, <1>12
         DEF WritesLogs, WritesTokens, WritesCodes, WritesUsers, Announces

(* Every step of a handler is about its job only.                          *)
LEMMA HandlerHandled ==
    ASSUME BasicInv, NEW p \in Jobs, HandlerStep(p)
    PROVE  Handled(p)
BY HandlerSteps, ReadsHandled, WritesHandled

-----------------------------------------------------------------------------
(* The steps that go on although a call fails.                             *)
PassedOver == {<<"guard", "user">>, <<"close", "list">>, <<"list", "block">>, <<"drop", "mail">>}

(* What is known of the other steps.                                       *)
Starts(p) ==
    /\ UNCHANGED <<clock, users, tokens, black, req, mine, answer, notices, faults, logs,
                   closers, codes, mails, pushes>>
    /\ pc[p] = "idle" /\ pc' \in [Jobs -> PCs] /\ \A q \in Jobs \ {p} : pc'[q] = pc[q]
    /\ pc'[p] \in Stages(req[p].op) \ {"idle", "done"} /\ ~HoldsAt(req[p].op, pc'[p])
    /\ pc'[p] \in {"guard", "login", "refresh", "email", "code", "mail", "unique"}
    /\ before' = [before EXCEPT ![p] = {q \in Jobs : pc[q] = "done"}]
    /\ DOMAIN token' = Jobs /\ \A q \in Jobs \ {p} : token'[q] = token[q]
    /\ NeedsToken(req[p].op) => token'[p] \in tokens /\ token'[p].log = req[p].log

(* A call of p fails, or its process dies with other jobs.                 *)
Fails(p) ==
    /\ UNCHANGED <<clock, users, tokens, req, token, mine, before, notices, logs,
                   codes, mails, pushes>>
    /\ faults' \in 1..MaxFaults /\ faults <= faults' /\ closers' \subseteq closers
    /\ black' \in [Stores -> [Logs -> Entry]]
    /\ \A x \in Stores, s \in Logs : black'[x][s].tokens \subseteq tokens
    /\ \A q \in Jobs \ {p} : /\ answer'[q] = answer[q]
                             /\ pc'[q] = pc[q] \/ (pc[q] # "idle" /\ pc'[q] = "done")
    /\ pc[p] # "idle" /\ (pc[p] = "done" => answer' = answer)
    /\ pc' \in [Jobs -> PCs] /\ answer' \in [Jobs -> Answers]
    /\ \/ /\ pc'[p] = "done"
          /\ \/ answer'[p] \in {answer[p], "error"}
             \/ answer'[p] = "ok" /\ pc[p] \in {"block", "mail"}
       \/ answer'[p] = answer[p] /\ <<pc[p], pc'[p]>> \in PassedOver

(* The lists are the same but for copies that are gone.                    *)
Forgets == /\ black' \in [Stores -> [Logs -> Entry]] /\ black'[Redis] = black[Redis]
           /\ \A i \in Instances, s \in Logs : black'[i][s] \in {black[i][s], NoEntry}

Aside ==
    /\ UNCHANGED <<users, tokens, req, pc, token, mine, answer, before, logs, codes>>
    /\ Forgets
    /\ clock' \in 0..MaxTime /\ clock <= clock'
    /\ faults' \in 0..MaxFaults /\ faults <= faults'
    /\ closers' \subseteq closers /\ (faults' = 0 => closers' = closers)
    /\ \A n \in notices' : /\ n \in NoticeType /\ pc[n.job] # "idle"
                           /\ n.step # "find" => n.template \in Templates
    /\ \A m \in mails' : m.user \in Users /\ m.template \in Templates
    /\ \A n \in pushes' \ pushes :
          n.job \in Jobs /\ n.log \in Logs /\ pc[n.job] # "idle" /\ logs[n.log].active

LEMMA SameLists ==
    ASSUME BasicInv, black' = black
    PROVE  Forgets
BY DEF BasicInv, TypeInv, Forgets

(* What p adds to a list.                                                  *)
LEMMA PutTyped ==
    ASSUME BasicInv, NEW p \in Jobs, NEW X, pc[p] = "block",
           Put(p, X, mine[p].list \cup {token[p]})
    PROVE  /\ black' \in [Stores -> [Logs -> Entry]]
           /\ \A x \in Stores, s \in Logs : black'[x][s].tokens \subseteq tokens
           /\ token[p].log \in Logs /\ token[p].exp \in Nat
           /\ \A x \in Stores \cap X :
                 black'[x][token[p].log] = [tokens |-> mine[p].list \cup {token[p]},
                                            until |-> EndOfDay(token[p].exp)]
           /\ \A x \in Stores, s \in Logs :
                 x \notin X \/ s # token[p].log => black'[x][s] = black[x][s]
<1> DEFINE s == token[p].log
           new == [tokens |-> mine[p].list \cup {token[p]}, until |-> EndOfDay(token[p].exp)]
<1>1. token[p] \in tokens /\ s \in Logs /\ token[p].exp \in Nat
  BY OpsAt, Held DEF NeedsToken, Guarded
<1>2. /\ black \in [Stores -> [Logs -> Entry]] /\ tokens \subseteq Token
      /\ mine[p].list \subseteq tokens
      /\ \A x \in Stores, l \in Logs : black[x][l].tokens \subseteq tokens
  BY DEF BasicInv, TypeInv, TokenInv
<1>3. new \in Entry /\ new.tokens \subseteq tokens
  <2>1. EndOfDay(token[p].exp) \in Nat
    BY <1>1, DayEnds
  <2> QED  BY <1>1, <1>2, <2>1 DEF Entry
<1> HIDE DEF s, new
<1>4. black' = [x \in Stores |-> IF x \in X THEN [black[x] EXCEPT ![s] = new] ELSE black[x]]
  BY DEF Put, s, new
<1>5. ASSUME NEW x \in Stores
      PROVE  /\ black'[x] \in [Logs -> Entry]
             /\ \A l \in Logs : black'[x][l] = IF x \in X /\ l = s THEN new ELSE black[x][l]
  BY <1>1, <1>2, <1>3, <1>4, <1>5
<1>6. black' \in [Stores -> [Logs -> Entry]]
  BY <1>4, <1>5
<1>7. \A x \in Stores, l \in Logs : black'[x][l].tokens \subseteq tokens
  BY <1>2, <1>3, <1>5
<1> QED  BY <1>1, <1>5, <1>6, <1>7 DEF s, new

(* A request begins at the first step of its operation.                    *)
LEMMA BeginStarts ==
    ASSUME BasicInv, NEW p \in Jobs, Begin(p),
           UNCHANGED <<logs, closers, codes, mails, pushes>>
    PROVE  Starts(p)
<1> DEFINE op == req[p].op
           l == IF op \in Guarded THEN "guard" ELSE FirstStep(op)
<1>1. op \in Ops
  BY DEF BasicInv, TypeInv, Request, Begin
<1>2. /\ l \in Stages(op) \ {"idle", "done"} /\ l \in PCs
      /\ l \in {"guard", "login", "refresh", "email", "code", "mail", "unique"}
      /\ l = "mail" => op = "message"
      /\ l = "unique" => op # "add"
  BY <1>1 DEF Ops, Guarded, Stages, FirstStep, PCs
<1>3. ~HoldsAt(op, l)
  BY <1>2 DEF HoldsAt
<1>4. pc \in [Jobs -> PCs] /\ DOMAIN token = Jobs
  BY DEF BasicInv, TypeInv
<1>5. pc[p] = "idle" /\ pc' = [pc EXCEPT ![p] = l] /\ answer' = answer
  BY DEF Begin, GoTo
<1>6. pc' \in [Jobs -> PCs] /\ pc'[p] = l /\ \A q \in Jobs \ {p} : pc'[q] = pc[q]
  BY <1>2, <1>4, <1>5
<1>7. /\ DOMAIN token' = Jobs /\ \A q \in Jobs \ {p} : token'[q] = token[q]
      /\ NeedsToken(op) => token'[p] \in tokens /\ token'[p].log = req[p].log
  <2>1. CASE NeedsToken(op)
    <3>1. PICK t \in tokens : t.log = req[p].log /\ token' = [token EXCEPT ![p] = t]
      BY <2>1 DEF Begin
    <3> QED  BY <1>4, <3>1
  <2>2. CASE ~NeedsToken(op)
    BY <1>4, <2>2 DEF Begin
  <2> QED  BY <2>1, <2>2
<1> QED  BY <1>2, <1>3, <1>5, <1>6, <1>7 DEF Starts, Begin

(* A failure ends a request, or is not looked at.                          *)
LEMMA FailureEnds ==
    ASSUME BasicInv, NEW p \in Jobs,
           CallFails(p) \/ (pc[p] # "idle" /\ \E i \in Instances : Host[p] = i /\ Crash(i))
    PROVE  Fails(p)
<1>1. /\ pc \in [Jobs -> PCs] /\ answer \in [Jobs -> Answers] /\ faults \in Nat
      /\ MaxFaults \in Nat /\ black \in [Stores -> [Logs -> Entry]]
      /\ \A x \in Stores, s \in Logs : black[x][s].tokens \subseteq tokens
  BY LivesAssumption DEF BasicInv, TypeInv, TokenInv, Answers
<1>2. ASSUME NEW i \in Instances, pc[p] # "idle", Host[p] = i, Crash(i)
      PROVE  Fails(p)
  <2>1. /\ pc' = [q \in Jobs |-> IF Host[q] = i /\ pc[q] # "idle" THEN "done" ELSE pc[q]]
        /\ answer' = answer /\ faults < MaxFaults /\ faults' = faults + 1
        /\ closers' \subseteq closers
        /\ black' = [black EXCEPT ![i] = [s \in Logs |-> NoEntry]]
    BY <1>2 DEF Crash
  <2>2. /\ pc' \in [Jobs -> PCs] /\ pc'[p] = "done"
        /\ \A q \in Jobs : pc'[q] = pc[q] \/ (pc[q] # "idle" /\ pc'[q] = "done")
    BY <1>1, <1>2, <2>1 DEF PCs
  <2>3. faults' \in 1..MaxFaults
    BY <1>1, <2>1
  <2>4. /\ black' \in [Stores -> [Logs -> Entry]]
        /\ \A x \in Stores, s \in Logs : black'[x][s].tokens \subseteq tokens
    <3>1. NoEntry \in Entry /\ NoEntry.tokens = {}
      BY DEF NoEntry, Entry
    <3> QED  BY <1>1, <2>1, <3>1
  <2>5. UNCHANGED <<clock, users, tokens, req, token, mine, before, notices, logs,
                    codes, mails, pushes>>
    BY <1>2 DEF Crash
  <2> QED  BY <1>1, <1>2, <2>1, <2>2, <2>3, <2>4, <2>5 DEF Fails
<1>3. CASE CallFails(p)
  <2>1. faults' \in 1..MaxFaults /\ faults <= faults' /\ closers' = closers
    BY <1>1, <1>3 DEF CallFails
  <2>2. /\ pc[p] \notin {"idle", "done"}
        /\ UNCHANGED <<clock, users, tokens, req, token, mine, before, notices, logs,
                       codes, mails, pushes>>
    BY <1>3 DEF CallFails
  <2>3. /\ black' \in [Stores -> [Logs -> Entry]]
        /\ \A x \in Stores, s \in Logs : black'[x][s].tokens \subseteq tokens
    <3>1. CASE pc[p] = "block"
      <4>1. Put(p, {Host[p]}, mine[p].list \cup {token[p]})
        BY <1>3, <3>1 DEF CallFails
      <4> QED  BY <3>1, <4>1, PutTyped
    <3>2. CASE pc[p] # "block"
      BY <1>1, <1>3, <3>2 DEF CallFails
    <3> QED  BY <3>1, <3>2
  <2>4. \/ \E l \in {"user", "list", "block", "mail"} :
              GoTo(p, l) /\ <<pc[p], l>> \in PassedOver
        \/ \E a \in {"ok", "error"} : End(p, a) /\ (a = "ok" => pc[p] \in {"block", "mail"})
    <3>1. CASE pc[p] \in {"close", "list", "drop"}
      BY <1>3, <3>1 DEF CallFails, PassedOver
    <3>2. CASE pc[p] = "guard"
      <4>1. GoTo(p, "user") \/ End(p, "error")
        BY <1>3, <3>2 DEF CallFails
      <4> QED  BY <3>2, <4>1 DEF PassedOver
    <3>3. CASE pc[p] \in {"block", "mail"}
      BY <1>3, <3>3 DEF CallFails
    <3>4. CASE pc[p] \notin {"close", "list", "drop", "guard", "block", "mail"}
      BY <1>3, <3>4 DEF CallFails
    <3> QED  BY <3>1, <3>2, <3>3, <3>4
  <2>5. CASE \E l \in {"user", "list", "block", "mail"} :
                 GoTo(p, l) /\ <<pc[p], l>> \in PassedOver
    <3>1. PICK l \in {"user", "list", "block", "mail"} :
              /\ pc' = [pc EXCEPT ![p] = l] /\ answer' = answer
              /\ <<pc[p], l>> \in PassedOver
      BY <2>5 DEF GoTo
    <3>2. pc' \in [Jobs -> PCs] /\ pc'[p] = l
      BY <1>1, <3>1 DEF PCs
    <3> QED  BY <1>1, <2>1, <2>2, <2>3, <3>1, <3>2 DEF Fails
  <2>6. CASE \E a \in {"ok", "error"} : End(p, a) /\ (a = "ok" => pc[p] \in {"block", "mail"})
    <3>1. PICK a \in {"ok", "error"} : End(p, a) /\ (a = "ok" => pc[p] \in {"block", "mail"})
      BY <2>6
    <3>2. /\ pc' = [pc EXCEPT ![p] = "done"] /\ answer' = [answer EXCEPT ![p] = a]
          /\ pc' \in [Jobs -> PCs] /\ answer' \in [Jobs -> Answers]
      BY <1>1, <3>1 DEF End, PCs, Answers
    <3> QED  BY <1>1, <2>1, <2>2, <2>3, <3>1, <3>2 DEF Fails
  <2> QED  BY <2>4, <2>5, <2>6
<1> QED  BY <1>2, <1>3

(* The listener, time, and what is lost, touch no table and no request.    *)
LEMMA ListenAside ==
    ASSUME BasicInv, NEW n, n \in notices, UNCHANGED noticeVars, UNCHANGED codes,
           FindTemplate(n) \/ FindAddressee(n) \/ SendMail(n) \/ SendPush(n)
    PROVE  Aside
<1>1. /\ clock \in 0..MaxTime /\ faults \in 0..MaxFaults /\ n \in NoticeType
      /\ \A m \in notices : /\ m \in NoticeType /\ pc[m.job] # "idle"
                            /\ m.step # "find" => m.template \in Templates
      /\ \A m \in mails : m.user \in Users /\ m.template \in Templates
  BY DEF BasicInv, TypeInv, OrderInv
<1>2. /\ clock' = clock /\ faults' = faults /\ closers' = closers
      /\ UNCHANGED <<users, tokens, black, req, pc, token, mine, answer, before, logs, codes>>
      /\ Forgets
  BY SameLists DEF noticeVars
<1>3. clock <= clock' /\ faults <= faults'
  BY <1>1, <1>2, LivesAssumption
<1>4. ASSUME NEW l \in {"user", "mail"}, OnTo(n, l), n.template \in Templates
      PROVE  \A m \in notices' : /\ m \in NoticeType /\ pc[m.job] # "idle"
                                 /\ m.step # "find" => m.template \in Templates
  <2>1. [n EXCEPT !.step = l] \in NoticeType /\ [n EXCEPT !.step = l].job = n.job
           /\ [n EXCEPT !.step = l].template = n.template
    BY <1>1 DEF NoticeType
  <2> QED  BY <1>1, <1>4, <2>1 DEF OnTo
<1>5. CASE FindTemplate(n) \/ FindAddressee(n)
  <2>1. mails' = mails /\ pushes' = pushes
    BY <1>5 DEF FindTemplate, FindAddressee
  <2>2. Drop(n) \/ \E l \in {"user", "mail"} : OnTo(n, l) /\ n.template \in Templates
    <3>1. CASE FindTemplate(n)
      BY <3>1, Zenon DEF FindTemplate
    <3>2. CASE FindAddressee(n)
      <4>1. n.template \in Templates
        BY <1>1, <3>2 DEF FindAddressee
      <4> QED  BY <3>2, <4>1, Zenon DEF FindAddressee
    <3> QED  BY <1>5, <3>1, <3>2
  <2>3. Drop(n) => notices' \subseteq notices
    BY DEF Drop
  <2> QED  BY <1>1, <1>2, <1>3, <1>4, <2>1, <2>2, <2>3 DEF Aside
<1>6. CASE SendMail(n)
  <2>1. /\ pushes' = pushes /\ notices' \subseteq notices /\ n.template \in Templates
        /\ mails' = mails \cup {[job |-> n.job, user |-> n.user, template |-> n.template]}
    BY <1>1, <1>6 DEF SendMail, Drop
  <2>2. n.user \in Users
    BY <1>1, <1>6 DEF SendMail, NoticeType
  <2> QED  BY <1>1, <1>2, <1>3, <2>1, <2>2 DEF Aside
<1>7. CASE SendPush(n)
  <2>1. /\ mails' = mails /\ notices' \subseteq notices
        /\ \A m \in pushes' \ pushes : m.job = n.job /\ m.log \in Logs /\ logs[m.log].active
    BY <1>7 DEF SendPush, Drop
  <2>2. n.job \in Jobs /\ pc[n.job] # "idle"
    BY <1>1 DEF NoticeType
  <2> QED  BY <1>1, <1>2, <1>3, <2>1, <2>2 DEF Aside
<1> QED  BY <1>5, <1>6, <1>7

(* So there are five kinds of steps.                                       *)
LEMMA Steps ==
    ASSUME BasicInv, [Next]_vars
    PROVE  \/ \E p \in Jobs : Starts(p) \/ HandlerStep(p) \/ Fails(p)
           \/ CloseStep
           \/ Aside
<1>1. /\ clock \in 0..MaxTime /\ faults \in 0..MaxFaults /\ MaxTime \in Nat /\ MaxFaults \in Nat
      /\ \A n \in notices : /\ n \in NoticeType /\ pc[n.job] # "idle"
                            /\ n.step # "find" => n.template \in Templates
      /\ \A m \in mails : m.user \in Users /\ m.template \in Templates
  BY LivesAssumption DEF BasicInv, TypeInv, OrderInv
<1>2. CASE \/ \E p \in Jobs : \/ Begin(p) /\ UNCHANGED <<logs, closers, codes, mails, pushes>>
                              \/ HandlerStep(p) \/ CallFails(p)
           \/ \E i \in Instances : Crash(i)
  <2>1. \A i \in Instances : Crash(i) => \E p \in Jobs : Host[p] = i /\ pc[p] # "idle"
    BY DEF Crash
  <2> QED  BY <1>2, <2>1, BeginStarts, FailureEnds
<1>8. ASSUME NEW i \in Instances, NEW s \in Logs, Evict(i, s)
      PROVE  Aside
  <2>1. black \in [Stores -> [Logs -> Entry]] /\ NoEntry \in Entry /\ i \in Stores /\ i # Redis
    BY HostAssumption DEF BasicInv, TypeInv, NoEntry, Entry, Stores
  <2>2. black' = [black EXCEPT ![i][s] = NoEntry]
    BY <1>8 DEF Evict
  <2>3. Forgets
    BY <2>1, <2>2 DEF Forgets, Stores
  <2> QED  BY <1>1, <1>8, <2>3 DEF Evict, Aside
<1>3. CASE Listen /\ UNCHANGED codes
  <2>1. PICK n \in notices : FindTemplate(n) \/ FindAddressee(n) \/ SendMail(n) \/ SendPush(n)
    BY <1>3 DEF Listen
  <2> QED  BY <1>3, <2>1, ListenAside DEF Listen
<1>4. CASE CloserFails
  <2>1. faults' \in 1..MaxFaults /\ faults <= faults'
    BY <1>1, <1>4 DEF CloserFails
  <2>2. Forgets
    BY <1>4, SameLists DEF CloserFails
  <2> QED  BY <1>1, <1>4, <2>1, <2>2 DEF CloserFails, Aside
<1>5. CASE LoseNotice /\ UNCHANGED codes
  <2>1. faults' \in 1..MaxFaults /\ faults <= faults'
    BY <1>1, <1>5 DEF LoseNotice
  <2>2. notices' \subseteq notices
    BY <1>5 DEF LoseNotice, Drop
  <2>3. Forgets
    BY <1>5, SameLists DEF LoseNotice
  <2> QED  BY <1>1, <1>5, <2>1, <2>2, <2>3 DEF LoseNotice, Aside
<1>6. CASE Tick
  <2>1. Forgets
    BY <1>6, SameLists DEF Tick
  <2> QED  BY <1>1, <1>6, <2>1 DEF Tick, Aside
<1>7. CASE UNCHANGED vars
  <2>1. Forgets
    BY <1>7, SameLists DEF vars
  <2> QED  BY <1>1, <1>7, <2>1 DEF vars, Aside
<1> QED  BY <1>2, <1>3, <1>4, <1>5, <1>6, <1>7, <1>8 DEF Next

-----------------------------------------------------------------------------
(* Sessions are opened and closed, not reopened, and keep user and device. *)
LogsOnly == \A s \in Logs : logs[s].is = "used" =>
                /\ logs'[s].is = "used" /\ logs'[s].user = logs[s].user
                /\ logs'[s].device = logs[s].device
                /\ logs'[s].active => logs[s].active

LEMMA LogsWritten ==
    ASSUME BasicInv, NEW p \in Jobs, WritesLogs(p)
    PROVE  /\ logs' \in [Logs -> Log] /\ LogsOnly
           /\ tokens' \subseteq Token /\ tokens \subseteq tokens'
           /\ \A t \in tokens' \ tokens : logs'[t.log].is = "used" /\ logs'[t.log].user = t.user
           /\ closers \subseteq closers' /\ closers' \subseteq [log : Logs, job : Jobs]
           /\ mine' = mine
<1>1. /\ logs \in [Logs -> Log] /\ tokens \subseteq Token /\ clock \in Nat /\ mine[p] \in Mine
      /\ closers \subseteq [log : Logs, job : Jobs] /\ req[p] \in Request
  BY LivesAssumption DEF BasicInv, TypeInv
<1>2. CASE CreateSession(p)
  <2> DEFINE s == First(FreeLogs)
             device == IF req[p].op = "loginAs" THEN "none" ELSE req[p].device
             new == [log |-> s, user |-> mine[p].user, exp |-> clock + TokenLife]
  <2>1. s \in Logs /\ logs[s].is = "free"
    BY <1>2, FirstIn, IdsAssumption DEF CreateSession, FreeLogs
  <2>2. device \in Devices /\ mine[p].user \in Users
    BY <1>1, <1>2, IdsAssumption
       DEF CreateSession, Request, BasicInv, StageInv, Holds, HoldsAt
  <2>3. NewLog(p, device) \in Log
    <3>1. clock + RefreshLife \in Nat
      BY <1>1, LivesAssumption
    <3> QED  BY <2>2, <3>1 DEF NewLog, Log
  <2>4. NewLog(p, device).is = "used" /\ NewLog(p, device).user = mine[p].user
    BY DEF NewLog
  <2>5. /\ logs' = [logs EXCEPT ![s] = NewLog(p, device)] /\ tokens' = tokens \cup {new}
        /\ closers \subseteq closers' /\ closers' \subseteq closers \cup {[log |-> s, job |-> p]}
        /\ mine' = mine
    BY <1>2 DEF CreateSession, CreateToken
  <2>6. new \in Token
    <3>1. clock + TokenLife \in Nat
      BY <1>1, LivesAssumption
    <3> QED  BY <2>1, <2>2, <3>1 DEF Token
  <2> HIDE DEF s, device
  <2>7. logs' \in [Logs -> Log] /\ LogsOnly
    BY <1>1, <2>1, <2>3, <2>5 DEF LogsOnly
  <2> QED  BY <1>1, <2>1, <2>4, <2>5, <2>6, <2>7
<1>3. CASE SaveInfo(p)
  <2>1. token[p].log \in Logs
    BY <1>3, OpsAt, Held DEF SaveInfo, NeedsToken, Guarded
  <2> QED  BY <1>1, <1>3, <2>1 DEF SaveInfo, LogsOnly, Log, Mine
<1>4. CASE CloseLog(p)
  <2>1. token[p].log \in Logs
    BY <1>4, OpsAt, Held DEF CloseLog, NeedsToken, Guarded
  <2> QED  BY <1>1, <1>4, <2>1 DEF CloseLog, LogsOnly, Log
<1> QED  BY <1>2, <1>3, <1>4 DEF WritesLogs

(* Tokens are issued for the user of a session, and listed as they are.    *)
LEMMA TokensWritten ==
    ASSUME BasicInv, NEW p \in Jobs, WritesTokens(p)
    PROVE  /\ tokens' \subseteq Token /\ tokens \subseteq tokens'
           /\ \A t \in tokens' \ tokens : logs[t.log].is = "used" /\ logs[t.log].user = t.user
           /\ black' \in [Stores -> [Logs -> Entry]]
           /\ \A x \in Stores, s \in Logs : black'[x][s].tokens \subseteq tokens'
           /\ mine' = mine
<1>1. /\ tokens \subseteq Token /\ clock \in Nat /\ mine[p] \in Mine
      /\ black \in [Stores -> [Logs -> Entry]]
      /\ \A x \in Stores, s \in Logs : black[x][s].tokens \subseteq tokens
  BY LivesAssumption DEF BasicInv, TypeInv, TokenInv
<1>2. CASE GetNewToken(p)
  <2> DEFINE s == req[p].log
             new == [log |-> s, user |-> logs[s].user, exp |-> clock + TokenLife]
  <2>1. s \in Logs /\ logs[s].is = "used" /\ logs[s].user \in Users
    BY <1>2, Held DEF GetNewToken, BasicInv, TokenInv, Log
  <2>2. new \in Token
    <3>1. clock + TokenLife \in Nat
      BY <1>1, LivesAssumption
    <3> QED  BY <2>1, <3>1 DEF Token
  <2>3. black' = black /\ mine' = mine /\ tokens' \in {tokens, tokens \cup {new}}
    BY <1>2 DEF GetNewToken, CreateToken
  <2> QED  BY <1>1, <2>1, <2>2, <2>3
<1>3. CASE WriteList(p)
  <2>1. /\ pc[p] = "block" /\ Put(p, {Host[p], Redis}, mine[p].list \cup {token[p]})
        /\ tokens' = tokens /\ mine' = mine
    BY <1>3 DEF WriteList
  <2> QED  BY <1>1, <2>1, PutTyped
<1> QED  BY <1>2, <1>3 DEF WritesTokens

(* Codes are asked for, tried, sent again and used up.                     *)
LEMMA CodesWritten ==
    ASSUME BasicInv, NEW p \in Jobs, WritesCodes(p),
           pc[p] \in {"retry", "resend"} => mine[p].left > 0
    PROVE  codes' \in [Codes -> Code] /\ mine' = mine
<1>1. /\ codes \in [Codes -> Code] /\ mine[p] \in Mine /\ clock \in Nat
      /\ req[p] \in Request
  BY LivesAssumption DEF BasicInv, TypeInv
<1>2. CASE CreateCode(p)
  <2> DEFINE free == {c \in Codes : codes[c].is = "free"}
  <2>1. codes' = [codes EXCEPT ![First(free)] = NewCode(p)] /\ mine' = mine
    BY <1>2 DEF CreateCode
  <2>2. mine[p].user \in Users
    BY <1>2 DEF CreateCode, BasicInv, StageInv, Holds, HoldsAt
  <2>3. NewCode(p) \in Code
    <3>1. clock + CodeLife \in Nat
      BY <1>1, LivesAssumption
    <3> QED  BY <1>1, <2>2, <3>1, LivesAssumption DEF NewCode, Code, Request
  <2> HIDE DEF free
  <2> QED  BY <1>1, <2>1, <2>3
<1>3. CASE CountRetry(p) \/ CountResend(p)
  <2>1. mine[p].left - 1 \in Nat
    BY <1>1, <1>3 DEF CountRetry, CountResend, Mine
  <2>2. \/ codes' = [codes EXCEPT ![req[p].code].retry = mine[p].left - 1]
        \/ codes' = [codes EXCEPT ![req[p].code].resend = mine[p].left - 1]
    BY <1>3 DEF CountRetry, CountResend
  <2>3. mine' = mine
    BY <1>3 DEF CountRetry, CountResend
  <2> QED  BY <1>1, <2>1, <2>2, <2>3 DEF Code
<1>4. CASE Verify(p) \/ DropCode(p)
  <2>1. \/ codes' = [codes EXCEPT ![req[p].code].verified = TRUE]
        \/ codes' = [codes EXCEPT ![req[p].code].is = "deleted"]
    BY <1>4 DEF Verify, DropCode
  <2>2. mine' = mine /\ req[p].code \in Codes
    BY <1>1, <1>4 DEF Verify, DropCode, Request
  <2>3. /\ [codes[req[p].code] EXCEPT !.verified = TRUE] \in Code
        /\ [codes[req[p].code] EXCEPT !.is = "deleted"] \in Code
    BY <1>1, <2>2 DEF Code
  <2> QED  BY <1>1, <2>1, <2>2, <2>3
<1> QED  BY <1>2, <1>3, <1>4 DEF WritesCodes

(* Users are registered, edited, removed, and get other passwords.         *)
LEMMA UsersWritten ==
    ASSUME BasicInv, NEW p \in Jobs, WritesUsers(p)
    PROVE  /\ users' \in [Users -> Row] /\ \A q \in Jobs : mine'[q].list = mine[q].list
           /\ \A n \in notices' \ notices : n \in NoticeType /\ n.job = p /\ n.step = "find"
<1>1. /\ users \in [Users -> Row] /\ mine \in [Jobs -> Mine] /\ req[p] \in Request
      /\ Holds(p) => mine[p].user \in Users
  BY DEF BasicInv, TypeInv, StageInv
<1>2. CASE CreateUser(p)
  <2> DEFINE u == First(FreeUsers)
  <2>1. u \in Users
    BY <1>2, FirstIn, IdsAssumption DEF CreateUser, FreeUsers
  <2>2. PICK by \in Users \cup {Nobody} : users' = [users EXCEPT ![u] = NewUser(p, by)]
    <3>1. req[p].op # "register" => mine[p].user \in Users
      BY <1>1, <1>2, OpsAt DEF CreateUser, Holds, HoldsAt
    <3>2. CASE req[p].op = "register"
      BY <1>2, <3>2 DEF CreateUser
    <3>3. CASE req[p].op # "register"
      BY <1>2, <3>1, <3>3 DEF CreateUser
    <3> QED  BY <3>2, <3>3
  <2>3. NewUser(p, by) \in Row
    BY <1>1 DEF NewUser, Row, Request
  <2>4. mine' = [mine EXCEPT ![p].user = u] \/ mine' = mine
    BY <1>2 DEF CreateUser
  <2>5. \A q \in Jobs : mine'[q].list = mine[q].list
    BY <1>1, <2>4 DEF Mine
  <2>6. notices' = notices
    BY <1>2 DEF CreateUser
  <2> HIDE DEF u
  <2> QED  BY <1>1, <2>1, <2>2, <2>3, <2>5, <2>6
<1>3. CASE OwnUser(p)
  <2>1. mine[p].user \in Users
    BY <1>1, <1>3 DEF OwnUser, Holds, HoldsAt
  <2>2. /\ users' = [users EXCEPT ![mine[p].user].by = mine[p].user] /\ mine' = mine
        /\ notices' = notices \cup {Notice(p, mine[p].user, "welcome_email")}
    BY <1>3 DEF OwnUser
  <2> QED  BY <1>1, <2>1, <2>2 DEF Row, Notice, NoticeType, AllTemplates
<1>4. CASE UpdateUser(p) \/ DeleteUser(p) \/ SavePassword(p)
  <2>1. \/ users' = users
        \/ \E u : users' = [users EXCEPT ![u].active = req[p].on]
        \/ \E u : users' = [users EXCEPT ![u].is = "deleted"]
        \/ \E u : users' = [users EXCEPT ![u].pw = req[p].pw]
    BY <1>4 DEF UpdateUser, DeleteUser, SavePassword
  <2>2. mine' = mine /\ notices' = notices
    BY <1>4 DEF UpdateUser, DeleteUser, SavePassword
  <2>3. users' \in [Users -> Row]
    BY <1>1, <2>1 DEF Row, Request
  <2> QED  BY <2>2, <2>3
<1> QED  BY <1>2, <1>3, <1>4 DEF WritesUsers

(* What a handler tells the queue is about its request and a user.         *)
LEMMA Announced ==
    ASSUME BasicInv, NEW p \in Jobs, Announces(p)
    PROVE  /\ mine' = mine
           /\ \A n \in notices' \ notices : n \in NoticeType /\ n.job = p /\ n.step = "find"
<1> DEFINE u == IF req[p].op = "message" THEN req[p].user ELSE mine[p].user
<1>1. /\ mine' = mine
      /\ notices' = notices \cup {Notice(p, u, TemplateOf(req[p].op))}
  BY DEF Announces, ExecuteJob
<1>2. u \in Users
  BY Held DEF Announces, ExecuteJob, BasicInv, StageInv, Holds, HoldsAt
<1>3. TemplateOf(req[p].op) \in AllTemplates
  BY OpsAt DEF Announces, ExecuteJob, TemplateOf, AllTemplates
<1> HIDE DEF u
<1> QED  BY <1>1, <1>2, <1>3 DEF Notice, NoticeType

(* What a step that reads makes of what its job holds.                     *)
LEMMA ListsRead ==
    ASSUME BasicInv, NEW p \in Jobs, Reads(p)
    PROVE  /\ mine'[p].list \subseteq tokens
           /\ \A q \in Jobs \ {p} : mine'[q] = mine[q]
<1>1. /\ mine \in [Jobs -> Mine] /\ \A q \in Jobs : mine[q].list \subseteq tokens
      /\ \A x \in Stores, s \in Logs : black[x][s].tokens \subseteq tokens
  BY DEF BasicInv, TypeInv, TokenInv
<1>2. CASE ReadList(p)
  <2>1. mine' = [mine EXCEPT ![p].list = Listed(Host[p], token[p].log)]
    BY <1>2 DEF ReadList
  <2>2. token[p].log \in Logs
    BY <1>2, OpsAt, Held DEF ReadList, NeedsToken, Guarded
  <2>3. Listed(Host[p], token[p].log) \subseteq tokens
    BY <1>1, <2>2, HostAssumption DEF Listed, Stores
  <2> QED  BY <1>1, <2>1, <2>3 DEF Mine
<1>3. CASE ~ReadList(p)
  <2>1. \/ mine' = mine
        \/ \E u, r : mine' = [mine EXCEPT ![p].user = u, ![p].row = r]
        \/ \E u : mine' = [mine EXCEPT ![p].user = u]
        \/ \E u, l : mine' = [mine EXCEPT ![p].user = u, ![p].left = l]
        \/ \E i : mine' = [mine EXCEPT ![p].info = i]
    <3>1. CheckToken(p) \/ LocalLogin(p) \/ CountUnread(p) \/ FindRefresh(p) \/ ValidateEmail(p)
             \/ FindTarget(p) \/ FindUser(p) => mine' = mine
      BY DEF CheckToken, LocalLogin, CountUnread, FindRefresh, ValidateEmail, FindTarget, FindUser
    <3>2. FindOwner(p) => \E u, r : mine' = [mine EXCEPT ![p].user = u, ![p].row = r]
      BY DEF FindOwner
    <3>3. FindLogin(p) => \/ mine' = mine
                          \/ \E u, r : mine' = [mine EXCEPT ![p].user = u, ![p].row = r]
      BY DEF FindLogin
    <3>4. FindAccount(p) \/ VerifyEmail(p) =>
             mine' = mine \/ \E u : mine' = [mine EXCEPT ![p].user = u]
      BY DEF FindAccount, VerifyEmail
    <3>5. ReadCode(p) => \/ mine' = mine
                         \/ \E u, l : mine' = [mine EXCEPT ![p].user = u, ![p].left = l]
      BY DEF ReadCode
    <3>6. ReadInfo(p) => \E i : mine' = [mine EXCEPT ![p].info = i]
      BY DEF ReadInfo
    <3> QED  BY <1>3, <3>1, <3>2, <3>3, <3>4, <3>5, <3>6 DEF Reads
  <2> QED  BY <1>1, <2>1 DEF Mine
<1> QED  BY <1>2, <1>3

(* Which step a handler takes, and what it may write, is in its pc.        *)
LEMMA ActionAt ==
    ASSUME NEW p \in Jobs, HandlerStep(p)
    PROVE  /\ pc[p] = "guard" => CheckToken(p) /\ Reads(p)
           /\ pc[p] = "user" => FindOwner(p) /\ Reads(p)
           /\ pc[p] = "login" => FindLogin(p) /\ Reads(p)
           /\ pc[p] = "stamp" => LocalLogin(p) /\ Reads(p)
           /\ pc[p] = "account" => FindAccount(p) /\ Reads(p)
           /\ pc[p] = "log" => CreateSession(p) /\ WritesLogs(p)
           /\ pc[p] = "count" => CountUnread(p) /\ Reads(p)
           /\ pc[p] = "refresh" => FindRefresh(p) /\ Reads(p)
           /\ pc[p] = "owner" => GetNewToken(p) /\ WritesTokens(p)
           /\ pc[p] = "info" => ReadInfo(p) /\ Reads(p)
           /\ pc[p] = "merge" => SaveInfo(p) /\ WritesLogs(p)
           /\ pc[p] = "close" => CloseLog(p) /\ WritesLogs(p)
           /\ pc[p] = "list" => ReadList(p) /\ Reads(p)
           /\ pc[p] = "block" => WriteList(p) /\ WritesTokens(p)
           /\ pc[p] = "email" => VerifyEmail(p) /\ Reads(p)
           /\ pc[p] = "otp" => CreateCode(p) /\ WritesCodes(p)
           /\ pc[p] = "code" => ReadCode(p) /\ Reads(p)
           /\ pc[p] = "retry" => CountRetry(p) /\ WritesCodes(p)
           /\ pc[p] = "verify" => Verify(p) /\ WritesCodes(p)
           /\ pc[p] = "resend" => CountResend(p) /\ WritesCodes(p)
           /\ pc[p] = "drop" => DropCode(p) /\ WritesCodes(p)
           /\ pc[p] = "unique" => ValidateEmail(p) /\ Reads(p)
           /\ pc[p] = "insert" => CreateUser(p) /\ WritesUsers(p)
           /\ pc[p] = "own" => OwnUser(p) /\ WritesUsers(p)
           /\ pc[p] = "target" => FindTarget(p) /\ Reads(p)
           /\ pc[p] = "write" => (UpdateUser(p) \/ DeleteUser(p)) /\ WritesUsers(p)
           /\ pc[p] = "old" => FindUser(p) /\ Reads(p)
           /\ pc[p] = "password" => SavePassword(p) /\ WritesUsers(p)
           /\ pc[p] = "mail" => ExecuteJob(p) /\ Announces(p)
<1>1. /\ CheckToken(p) => pc[p] = "guard"
      /\ FindOwner(p) => pc[p] = "user"
      /\ FindLogin(p) => pc[p] = "login"
      /\ LocalLogin(p) => pc[p] = "stamp"
      /\ FindAccount(p) => pc[p] = "account"
      /\ CreateSession(p) => pc[p] = "log"
      /\ CountUnread(p) => pc[p] = "count"
      /\ FindRefresh(p) => pc[p] = "refresh"
      /\ GetNewToken(p) => pc[p] = "owner"
      /\ ReadInfo(p) => pc[p] = "info"
      /\ SaveInfo(p) => pc[p] = "merge"
      /\ CloseLog(p) => pc[p] = "close"
      /\ ReadList(p) => pc[p] = "list"
      /\ WriteList(p) => pc[p] = "block"
  BY DEF CheckToken, FindOwner, FindLogin, LocalLogin, FindAccount, CreateSession, CountUnread,
         FindRefresh, GetNewToken, ReadInfo, SaveInfo, CloseLog, ReadList, WriteList
<1>2. /\ VerifyEmail(p) => pc[p] = "email"
      /\ CreateCode(p) => pc[p] = "otp"
      /\ ReadCode(p) => pc[p] = "code"
      /\ CountRetry(p) => pc[p] = "retry"
      /\ Verify(p) => pc[p] = "verify"
      /\ CountResend(p) => pc[p] = "resend"
      /\ DropCode(p) => pc[p] = "drop"
      /\ ValidateEmail(p) => pc[p] = "unique"
      /\ CreateUser(p) => pc[p] = "insert"
      /\ OwnUser(p) => pc[p] = "own"
      /\ FindTarget(p) => pc[p] = "target"
      /\ UpdateUser(p) \/ DeleteUser(p) => pc[p] = "write"
      /\ FindUser(p) => pc[p] = "old"
      /\ SavePassword(p) => pc[p] = "password"
      /\ ExecuteJob(p) => pc[p] = "mail"
  BY DEF VerifyEmail, CreateCode, ReadCode, CountRetry, Verify, CountResend, DropCode,
         ValidateEmail, CreateUser, OwnUser, FindTarget, UpdateUser, DeleteUser, FindUser,
         SavePassword, ExecuteJob
<1>3. Reads(p) \/ WritesLogs(p) \/ WritesTokens(p) \/ WritesCodes(p) \/ WritesUsers(p)
         \/ Announces(p)
  BY HandlerSteps
<1>4. CASE Reads(p)
  BY <1>1, <1>2, <1>4 DEF Reads
<1>5. CASE WritesLogs(p)
  BY <1>1, <1>5 DEF WritesLogs
<1>6. CASE WritesTokens(p)
  BY <1>1, <1>6 DEF WritesTokens
<1>7. CASE WritesCodes(p)
  BY <1>2, <1>7 DEF WritesCodes
<1>8. CASE WritesUsers(p)
  BY <1>2, <1>8 DEF WritesUsers
<1>9. CASE Announces(p)
  BY <1>2, <1>9 DEF Announces
<1> QED  BY <1>3, <1>4, <1>5, <1>6, <1>7, <1>8, <1>9

(* A token is refreshed of a session that was found.                       *)
LEMMA OwnerFound ==
    ASSUME BasicInv, NEW p \in Jobs, HandlerStep(p), pc'[p] = "owner"
    PROVE  logs[req[p].log].is = "used"
<1>1. pc[p] # "idle" /\ pc[p] # "done" /\ pc'[p] \in Stages(req[p].op) \cup {"done"}
  BY HandlerHandled DEF Handled
<1>2. req[p].op = "refresh" /\ pc[p] \in Stages(req[p].op)
  BY <1>1 DEF Stages, BasicInv, StageInv
<1>3. pc[p] \in {"refresh", "owner"}
  BY <1>2 DEF Stages
<1>4. pc[p] # "owner"
  <2>1. pc[p] = "owner" => pc'[p] = "done"
    BY ActionAt DEF GetNewToken, End, BasicInv, TypeInv
  <2> QED  BY <2>1
<1>5. FindRefresh(p)
  BY <1>3, <1>4, ActionAt
<1>6. pc \in [Jobs -> PCs]
  BY DEF BasicInv, TypeInv
<1> QED  BY <1>5, <1>6 DEF FindRefresh, End

-----------------------------------------------------------------------------
(* What every step keeps of types, tokens, steps and order: a request      *)
(* begins ...                                                              *)
LEMMA StartsBasic ==
    ASSUME BasicInv, NEW p \in Jobs, Starts(p)
    PROVE  BasicInv'
<1>1. TypeInv'
  BY DEF Starts, BasicInv, TypeInv
<1>2. TokenInv'
  <2>1. \A q \in Jobs \ {p} : pc'[q] = pc[q] /\ token'[q] = token[q]
    BY DEF Starts
  <2>2. NeedsToken(req[p].op) => token'[p] \in tokens /\ token'[p].log = req[p].log
    BY DEF Starts
  <2>3. pc'[p] # "owner"
    BY DEF Starts
  <2>4. UNCHANGED <<tokens, logs, black, mine, req>>
    BY DEF Starts
  <2> QED  BY <2>1, <2>2, <2>3, <2>4 DEF BasicInv, TokenInv
<1>3. StageInv'
  <2>1. \A q \in Jobs \ {p} : pc'[q] = pc[q]
    BY DEF Starts
  <2>2. pc'[p] \in Stages(req[p].op) /\ ~HoldsAt(req[p].op, pc'[p]) /\ answer[p] = "none"
    BY DEF Starts, BasicInv, StageInv, TypeInv
  <2>3. UNCHANGED <<req, mine, answer>>
    BY DEF Starts
  <2> QED  BY <2>1, <2>2, <2>3 DEF BasicInv, StageInv, Holds
<1>4. OrderInv'
  <2>1. /\ pc[p] = "idle" /\ pc'[p] # "idle" /\ \A q \in Jobs \ {p} : pc'[q] = pc[q]
        /\ before' = [before EXCEPT ![p] = {q \in Jobs : pc[q] = "done"}]
        /\ notices' = notices /\ pushes' = pushes
    BY DEF Starts, Stages
  <2>2. \A q \in Jobs : pc[q] # "idle" => pc'[q] # "idle"
    BY <2>1
  <2>3. before \in [Jobs -> SUBSET Jobs] /\ \A n \in notices : n.job \in Jobs
    BY DEF BasicInv, TypeInv, NoticeType
  <2>4. \A q \in Jobs : \A r \in before'[q] : pc'[r] = "done" /\ pc'[q] # "idle" /\ r # q
    BY <2>1, <2>2, <2>3 DEF BasicInv, OrderInv
  <2> QED  BY <2>1, <2>2, <2>3, <2>4 DEF BasicInv, OrderInv
<1> QED  BY <1>1, <1>2, <1>3, <1>4 DEF BasicInv

(* ... a call fails or a process dies ...                                  *)
LEMMA FailsBasic ==
    ASSUME BasicInv, NEW p \in Jobs, Fails(p)
    PROVE  BasicInv'
<1>1. /\ UNCHANGED <<users, tokens, req, token, mine, before, notices, logs, codes, pushes>>
      /\ \A q \in Jobs \ {p} : /\ answer'[q] = answer[q]
                               /\ pc'[q] = pc[q] \/ (pc[q] # "idle" /\ pc'[q] = "done")
      /\ \A x \in Stores, s \in Logs : black'[x][s].tokens \subseteq tokens
      /\ pc[p] # "idle"
  BY DEF Fails
<1>2. \/ pc'[p] = "done"
      \/ answer'[p] = answer[p] /\ <<pc[p], pc'[p]>> \in PassedOver
  BY DEF Fails
<1>3. TypeInv'
  <2>1. faults' \in 0..MaxFaults
    BY LivesAssumption DEF Fails
  <2> QED  BY <2>1 DEF Fails, BasicInv, TypeInv, Answers
<1>4. TokenInv'
  <2>1. \A q \in Jobs : /\ pc'[q] # "idle" => pc[q] # "idle"
                        /\ pc'[q] = "owner" => pc[q] = "owner"
    BY <1>1, <1>2 DEF PassedOver
  <2> QED  BY <1>1, <2>1 DEF BasicInv, TokenInv
<1>5. StageInv'
  <2>1. <<pc[p], pc'[p]>> \in PassedOver =>
           /\ pc[p] \in {"guard", "close", "list", "drop"}
           /\ pc'[p] \in {"user", "list", "block", "mail"}
           /\ pc'[p] = "user" => pc[p] = "guard"
           /\ pc'[p] \in {"list", "block"} => pc[p] \in {"close", "list"}
           /\ pc'[p] = "mail" => pc[p] = "drop"
    BY DEF PassedOver
  <2>2. /\ pc[p] \in {"guard", "close", "list", "drop"} => answer[p] = "none"
        /\ pc[p] = "guard" => req[p].op \in Guarded
        /\ pc[p] \in {"close", "list"} => req[p].op = "logout"
        /\ pc[p] = "drop" => req[p].op = "reset" /\ mine[p].user \in Users
    BY OpsAt DEF BasicInv, StageInv, Holds, HoldsAt
  <2>3. pc'[p] \in Stages(req[p].op) \cup {"idle", "done"}
    BY <1>2, <2>1, <2>2 DEF Stages, Guarded
  <2>4. HoldsAt(req[p].op, pc'[p]) => mine[p].user \in Users
    BY <1>2, <2>1, <2>2 DEF HoldsAt
  <2>5. answer'[p] # "none" => pc'[p] = "done"
    BY <1>2, <2>1, <2>2
  <2>6. ASSUME NEW q \in Jobs \ {p}
        PROVE  /\ pc'[q] \in Stages(req[q].op) \cup {"idle", "done"}
               /\ HoldsAt(req[q].op, pc'[q]) => mine[q].user \in Users
               /\ answer'[q] # "none" => pc'[q] = "done"
    <3>1. ~HoldsAt(req[q].op, "done")
      BY DEF HoldsAt
    <3> QED  BY <1>1, <3>1 DEF BasicInv, StageInv, Holds
  <2>7. req' = req /\ mine' = mine
    BY <1>1
  <2> QED  BY <2>3, <2>4, <2>5, <2>6, <2>7 DEF StageInv, Holds
<1>6. OrderInv'
  <2>1. pc'[p] # "idle" /\ (pc[p] = "done" => pc'[p] = "done")
    BY <1>1, <1>2 DEF PassedOver
  <2>2. \A q \in Jobs : /\ pc[q] # "idle" => pc'[q] # "idle"
                        /\ pc[q] = "done" => pc'[q] = "done"
    BY <1>1, <2>1
  <2>3. before \in [Jobs -> SUBSET Jobs] /\ \A n \in notices : n.job \in Jobs
    BY DEF BasicInv, TypeInv, NoticeType
  <2> QED  BY <1>1, <2>2, <2>3 DEF BasicInv, OrderInv
<1> QED  BY <1>3, <1>4, <1>5, <1>6 DEF BasicInv

(* The update closes the other open sessions of the device.                *)
LEMMA CloseLogs ==
    ASSUME BasicInv, NEW c, c \in closers, CloseOthers(c)
    PROVE  /\ logs' \in [Logs -> Log] /\ LogsOnly /\ closers' = closers \ {c} /\ c.log \in Logs
           /\ \A s \in Logs : logs'[s].info = logs[s].info /\ logs'[s].is = logs[s].is
                              /\ logs'[s].device = logs[s].device
           /\ \A s \in Logs : s # c.log /\ logs[s].is = "used" /\ logs[s].device = logs[c.log].device
                 => ~logs'[s].active
<1>1. logs \in [Logs -> Log] /\ c.log \in Logs
  BY DEF BasicInv, TypeInv
<1>2. logs' = [s \in Logs |->
         IF s # c.log /\ logs[s].is = "used" /\ logs[s].device = logs[c.log].device
         THEN [logs[s] EXCEPT !.active = FALSE] ELSE logs[s]]
  BY DEF CloseOthers
<1>3. \A s \in Logs : /\ logs[s] \in Log
                      /\ [logs[s] EXCEPT !.active = FALSE] \in Log
                      /\ logs'[s] \in {logs[s], [logs[s] EXCEPT !.active = FALSE]}
  BY <1>1, <1>2 DEF Log
<1>4. /\ logs' \in [Logs -> Log]
      /\ \A s \in Logs : /\ logs'[s].info = logs[s].info /\ logs'[s].is = logs[s].is
                         /\ logs'[s].user = logs[s].user /\ logs'[s].device = logs[s].device
                         /\ logs'[s].active => logs[s].active
  BY <1>2, <1>3 DEF Log
<1>5. \A s \in Logs : s # c.log /\ logs[s].is = "used" /\ logs[s].device = logs[c.log].device
                 => ~logs'[s].active
  BY <1>2, <1>3 DEF Log
<1> QED  BY <1>1, <1>4, <1>5 DEF LogsOnly, CloseOthers

(* ... an update that nobody awaits ...                                    *)
LEMMA ClosesBasic ==
    ASSUME BasicInv, CloseStep
    PROVE  BasicInv'
<1>1. PICK c \in closers : CloseOthers(c)
  BY DEF CloseStep
<1>2. /\ UNCHANGED <<clock, users, tokens, black, req, pc, token, mine, answer, before, notices, faults>>
      /\ UNCHANGED <<codes, mails, pushes>>
  BY <1>1 DEF CloseOthers, CloseStep
<1>3. logs' \in [Logs -> Log] /\ LogsOnly /\ closers' \subseteq closers
  BY <1>1, CloseLogs
<1>4. TypeInv'
  BY <1>2, <1>3 DEF BasicInv, TypeInv
<1>5. TokenInv'
  <2>1. \A t \in tokens : t.log \in Logs
    BY DEF BasicInv, TypeInv, Token
  <2>2. \A q \in Jobs : req[q].log \in Logs
    BY DEF BasicInv, TypeInv, Request
  <2> QED  BY <1>2, <1>3, <2>1, <2>2 DEF BasicInv, TokenInv, LogsOnly
<1>6. StageInv' /\ OrderInv'
  BY <1>2 DEF BasicInv, StageInv, OrderInv, Holds
<1> QED  BY <1>4, <1>5, <1>6 DEF BasicInv

(* ... what touches no table ...                                           *)
LEMMA AsideBasic ==
    ASSUME BasicInv, Aside
    PROVE  BasicInv'
<1>1. TypeInv'
  BY DEF Aside, BasicInv, TypeInv, Forgets
<1>2. TokenInv' /\ StageInv'
  <2>1. \A x \in Stores, s \in Logs : black'[x][s].tokens \subseteq black[x][s].tokens
    BY DEF Aside, Forgets, Stores, NoEntry
  <2> QED  BY <2>1 DEF Aside, BasicInv, TokenInv, StageInv, Holds
<1>3. OrderInv'
  BY DEF Aside, BasicInv, OrderInv
<1> QED  BY <1>1, <1>2, <1>3 DEF BasicInv

(* ... and a handler takes a step.                                         *)
LEMMA HandlerBasic ==
    ASSUME BasicInv, CodeInv, NEW p \in Jobs, HandlerStep(p)
    PROVE  BasicInv'
<1>1. Handled(p)
  BY HandlerHandled
<1>2. /\ UNCHANGED <<clock, req, token, before, faults>> /\ Others(p)
      /\ pc[p] \notin {"idle", "done"} /\ pc'[p] \in Stages(req[p].op) \cup {"done"}
      /\ answer'[p] # "none" => pc'[p] = "done"
      /\ Holds(p)' => mine'[p].user \in Users
  BY <1>1 DEF Handled
<1>3. pc[p] \in {"retry", "resend"} => mine[p].left > 0
  BY OpsAt DEF CodeInv, Took, CodeOps
<1>4. mails' = mails /\ pushes' = pushes
  BY HandlerSteps DEF Reads, WritesLogs, WritesTokens, WritesCodes, WritesUsers, Announces, Shared
<1>5. /\ users' \in [Users -> Row] /\ logs' \in [Logs -> Log] /\ codes' \in [Codes -> Code]
      /\ tokens' \subseteq Token /\ black' \in [Stores -> [Logs -> Entry]]
      /\ closers' \subseteq [log : Logs, job : Jobs]
      /\ \A n \in notices' \ notices : n \in NoticeType /\ n.job = p /\ n.step = "find"
      /\ tokens \subseteq tokens' /\ LogsOnly
      /\ \A t \in tokens' \ tokens : logs'[t.log].is = "used" /\ logs'[t.log].user = t.user
      /\ \A x \in Stores, s \in Logs : black'[x][s].tokens \subseteq tokens'
      /\ \A q \in Jobs : mine'[q].list \subseteq tokens'
  <2>1. /\ users \in [Users -> Row] /\ logs \in [Logs -> Log] /\ codes \in [Codes -> Code]
        /\ tokens \subseteq Token /\ black \in [Stores -> [Logs -> Entry]]
        /\ closers \subseteq [log : Logs, job : Jobs]
        /\ \A x \in Stores, s \in Logs : black[x][s].tokens \subseteq tokens
        /\ \A q \in Jobs : mine[q].list \subseteq tokens
    BY DEF BasicInv, TypeInv, TokenInv
  <2>2. CASE Reads(p)
    <3>1. UNCHANGED <<users, logs, codes, tokens, black, closers, notices>>
      BY <2>2 DEF Reads, Shared
    <3>2. \A q \in Jobs : mine'[q].list \subseteq tokens
      BY <2>1, <2>2, ListsRead
    <3> QED  BY <2>1, <3>1, <3>2 DEF LogsOnly
  <2>3. CASE WritesLogs(p)
    <3>1. UNCHANGED <<users, black, notices, codes>>
      BY <2>3 DEF WritesLogs
    <3> QED  BY <2>1, <2>3, <3>1, LogsWritten
  <2>4. CASE WritesTokens(p)
    <3>1. UNCHANGED <<users, notices, logs, closers, codes>>
      BY <2>4 DEF WritesTokens
    <3> QED  BY <2>1, <2>4, <3>1, TokensWritten DEF LogsOnly
  <2>5. CASE WritesCodes(p)
    <3>1. UNCHANGED <<users, tokens, black, notices, logs, closers>>
      BY <2>5 DEF WritesCodes
    <3> QED  BY <1>3, <2>1, <2>5, <3>1, CodesWritten DEF LogsOnly
  <2>6. CASE WritesUsers(p)
    <3>1. UNCHANGED <<tokens, black, logs, closers, codes>>
      BY <2>6 DEF WritesUsers
    <3> QED  BY <2>1, <2>6, <3>1, UsersWritten DEF LogsOnly
  <2>7. CASE Announces(p)
    <3>1. UNCHANGED <<users, tokens, black, logs, closers, codes>>
      BY <2>7 DEF Announces
    <3> QED  BY <2>1, <2>7, <3>1, Announced DEF LogsOnly
  <2> QED  BY <2>2, <2>3, <2>4, <2>5, <2>6, <2>7, HandlerSteps
<1>6. TypeInv'
  BY <1>1, <1>2, <1>4, <1>5 DEF BasicInv, TypeInv, Handled, Answers
<1>7. TokenInv'
  <2>1. \A t \in tokens' : logs'[t.log].is = "used" /\ logs'[t.log].user = t.user
    <3>1. \A t \in tokens : t.log \in Logs /\ logs[t.log].is = "used" /\ logs[t.log].user = t.user
      BY DEF BasicInv, TypeInv, TokenInv, Token
    <3> QED  BY <1>5, <3>1 DEF LogsOnly
  <2>2. ASSUME NEW q \in Jobs, pc'[q] # "idle", NeedsToken(req[q].op)
        PROVE  token'[q] \in tokens' /\ token'[q].log = req'[q].log
    <3>1. pc[q] # "idle"
      BY <1>2, <2>2 DEF Others
    <3> QED  BY <1>2, <1>5, <2>2, <3>1 DEF BasicInv, TokenInv
  <2>3. ASSUME NEW q \in Jobs, pc'[q] = "owner"
        PROVE  logs'[req'[q].log].is = "used"
    <3>1. req[q].log \in Logs
      BY Held
    <3>2. logs[req[q].log].is = "used"
      BY <1>2, <2>3, OwnerFound DEF Others, BasicInv, TokenInv
    <3> QED  BY <1>2, <1>5, <3>1, <3>2 DEF LogsOnly
  <2> QED  BY <1>2, <1>5, <2>1, <2>2, <2>3 DEF TokenInv
<1>8. StageInv'
  BY <1>2 DEF BasicInv, StageInv, Holds, Others
<1>9. OrderInv'
  <2>1. pc'[p] # "idle"
    BY <1>2 DEF Stages
  <2>2. \A q \in Jobs : /\ pc[q] # "idle" => pc'[q] # "idle"
                        /\ pc[q] = "done" => pc'[q] = "done"
    BY <1>2, <2>1 DEF Others
  <2>3. before \in [Jobs -> SUBSET Jobs] /\ \A n \in notices : n.job \in Jobs
    BY DEF BasicInv, TypeInv, NoticeType
  <2>4. \A n \in notices' : pc'[n.job] # "idle"
    BY <1>5, <2>1, <2>2, <2>3 DEF BasicInv, OrderInv
  <2> QED  BY <1>2, <1>4, <2>2, <2>3, <2>4 DEF BasicInv, OrderInv
<1> QED  BY <1>6, <1>7, <1>8, <1>9 DEF BasicInv

-----------------------------------------------------------------------------
(* A request that has begun keeps its token and its place in the order,    *)
(* and one that has ended its answer.                                      *)
Steady ==
    /\ req' = req /\ faults <= faults' /\ faults' \in Nat
    /\ \A q \in Jobs : pc[q] # "idle" =>
          pc'[q] # "idle" /\ before'[q] = before[q] /\ token'[q] = token[q]
    /\ \A q \in Jobs : pc[q] = "done" => pc'[q] = "done" /\ answer'[q] = answer[q]

LEMMA StepsSteady ==
    ASSUME BasicInv
    PROVE  /\ \A p \in Jobs : Starts(p) \/ HandlerStep(p) \/ Fails(p) => Steady
           /\ CloseStep \/ Aside => Steady
<1>1. faults \in Nat /\ before \in [Jobs -> SUBSET Jobs] /\ LivesAssumption
  BY LivesAssumption DEF BasicInv, TypeInv
<1>2. ASSUME NEW p \in Jobs, Starts(p)
      PROVE  Steady
  BY <1>1, <1>2 DEF Starts, Steady
<1>3. ASSUME NEW p \in Jobs, HandlerStep(p)
      PROVE  Steady
  <2>1. Handled(p)
    BY <1>3, HandlerHandled
  <2>2. pc'[p] # "idle"
    BY <2>1 DEF Handled, Stages
  <2> QED  BY <1>1, <2>1, <2>2 DEF Handled, Others, Steady
<1>4. ASSUME NEW p \in Jobs, Fails(p)
      PROVE  Steady
  BY <1>1, <1>4 DEF Fails, PassedOver, Steady, LivesAssumption
<1>5. ASSUME CloseStep \/ Aside
      PROVE  Steady
  BY <1>1, <1>5 DEF CloseStep, CloseOthers, Aside, Steady, LivesAssumption
<1> QED  BY <1>2, <1>3, <1>4, <1>5

-----------------------------------------------------------------------------
(* A user who registers has a creator after the second update.             *)
LEMMA CreatorKept ==
    ASSUME BasicInv, CreatorKnown, [Next]_vars
    PROVE  CreatorKnown'
<1>1. faults \in Nat
  BY LivesAssumption DEF BasicInv, TypeInv
<1>2. ASSUME NEW p \in Jobs, Starts(p)
      PROVE  CreatorKnown'
  BY <1>2 DEF Starts, CreatorKnown, Live
<1>3. ASSUME NEW p \in Jobs, Fails(p)
      PROVE  CreatorKnown'
  <2>1. faults' > 0
    BY <1>3, LivesAssumption DEF Fails
  <2> QED  BY <2>1 DEF CreatorKnown
<1>4. ASSUME CloseStep \/ Aside
      PROVE  CreatorKnown'
  <2>1. UNCHANGED <<users, pc, mine>> /\ (faults > 0 => faults' > 0)
    BY <1>1, <1>4, StepsSteady DEF CloseStep, CloseOthers, Aside, Steady
  <2> QED  BY <2>1 DEF CreatorKnown, Live
<1>5. ASSUME NEW p \in Jobs, HandlerStep(p)
      PROVE  CreatorKnown'
  <2>1. faults' = faults /\ \A q \in Jobs \ {p} : pc'[q] = pc[q] /\ mine'[q] = mine[q]
    BY <1>5, HandlerHandled DEF Handled, Others
  <2>2. users \in [Users -> Row] /\ mine \in [Jobs -> Mine] /\ pc \in [Jobs -> PCs]
    BY DEF BasicInv, TypeInv
  <2>3. CASE pc[p] = "insert"
    <3> DEFINE v == First(FreeUsers)
    <3>1. CreateUser(p) /\ v \in Users
      BY <1>5, <2>3, ActionAt, FirstIn, IdsAssumption DEF CreateUser, FreeUsers
    <3>2. CASE req[p].op = "register"
      <4>1. /\ pc'[p] = "own" /\ mine'[p].user = v
            /\ \A u \in Users \ {v} : users'[u] = users[u]
        BY <2>2, <3>1, <3>2 DEF CreateUser, GoTo
      <4> HIDE DEF v
      <4> QED  BY <2>1, <2>3, <4>1 DEF CreatorKnown, Live
    <3>3. CASE req[p].op # "register"
      <4>1. mine[p].user \in Users
        BY <2>3, <3>3, OpsAt DEF BasicInv, StageInv, Holds, HoldsAt
      <4>2. users' = [users EXCEPT ![v] = NewUser(p, mine[p].user)]
        BY <3>1, <3>3 DEF CreateUser
      <4> HIDE DEF v
      <4>3. /\ users'[v].by = mine[p].user /\ mine[p].user # Nobody
            /\ \A u \in Users \ {v} : users'[u] = users[u]
        BY <2>2, <3>1, <4>1, <4>2, IdsAssumption DEF NewUser, Nobody
      <4> QED  BY <2>1, <2>3, <4>3 DEF CreatorKnown, Live
    <3> QED  BY <3>2, <3>3
  <2>4. CASE pc[p] = "own"
    <3>1. OwnUser(p) /\ mine[p].user \in Users /\ mine[p].user # Nobody
      BY <1>5, <2>4, ActionAt, IdsAssumption DEF BasicInv, StageInv, Holds, HoldsAt, Nobody
    <3>2. /\ users'[mine[p].user].by # Nobody
          /\ \A u \in Users \ {mine[p].user} : users'[u] = users[u]
      BY <2>2, <3>1 DEF OwnUser, Row
    <3> QED  BY <2>1, <3>2 DEF CreatorKnown, Live
  <2>5. CASE pc[p] \notin {"insert", "own"}
    <3>1. \A u \in Users : /\ users'[u].by = users[u].by
                           /\ users'[u].is = "live" => users[u].is = "live"
      <4>1. CASE WritesUsers(p)
        <5>1. UpdateUser(p) \/ DeleteUser(p) \/ SavePassword(p)
          BY <2>5, <4>1 DEF WritesUsers, CreateUser, OwnUser
        <5>2. \/ users' = users
              \/ \E u : users' = [users EXCEPT ![u].active = req[p].on]
              \/ \E u : users' = [users EXCEPT ![u].is = "deleted"]
              \/ \E u : users' = [users EXCEPT ![u].pw = req[p].pw]
          BY <5>1 DEF UpdateUser, DeleteUser, SavePassword
        <5> QED  BY <2>2, <5>2 DEF Row
      <4>2. CASE ~WritesUsers(p)
        <5>1. users' = users
          BY <1>5, <4>2, HandlerSteps
             DEF Reads, WritesLogs, WritesTokens, WritesCodes, Announces, Shared
        <5> QED  BY <5>1
      <4> QED  BY <4>1, <4>2
    <3> QED  BY <2>1, <2>5, <3>1 DEF CreatorKnown, Live
  <2> QED  BY <2>3, <2>4, <2>5
<1> QED  BY <1>2, <1>3, <1>4, <1>5, Steps

(* A new session of a device comes with the update that closes the others. *)
LEMMA OneOpenKept ==
    ASSUME BasicInv, OneOpenInv, [Next]_vars
    PROVE  OneOpenInv'
<1>1. logs \in [Logs -> Log] /\ faults \in Nat
  BY LivesAssumption DEF BasicInv, TypeInv
<1>2. ASSUME NEW p \in Jobs, Starts(p)
      PROVE  OneOpenInv'
  BY <1>2 DEF Starts, OneOpenInv
<1>3. ASSUME NEW p \in Jobs, Fails(p)
      PROVE  OneOpenInv'
  <2>1. faults' # 0
    BY <1>3 DEF Fails
  <2> QED  BY <2>1 DEF OneOpenInv
<1>4. CASE CloseStep
  <2>1. PICK c \in closers : CloseOthers(c)
    BY <1>4 DEF CloseStep
  <2>2. /\ LogsOnly /\ closers' = closers \ {c} /\ c.log \in Logs
        /\ \A s \in Logs : logs'[s].is = logs[s].is /\ logs'[s].device = logs[s].device
        /\ \A s \in Logs : s # c.log /\ logs[s].is = "used" /\ logs[s].device = logs[c.log].device
              => ~logs'[s].active
    BY <2>1, CloseLogs
  <2>3. faults' = faults
    BY <2>1 DEF CloseOthers
  <2> SUFFICES ASSUME faults = 0, NEW s \in Logs, NEW r \in Logs,
                      s # r, logs'[s].is = "used", logs'[r].is = "used",
                      logs'[s].active, logs'[r].active,
                      logs'[r].device # "none", logs'[s].device = logs'[r].device
               PROVE  \E d \in closers' : d.log \in {s, r}
    BY <2>3 DEF OneOpenInv
  <2>4. PICK d \in closers : d.log \in {s, r}
    BY <2>2 DEF OneOpenInv, LogsOnly
  <2>5. d # c
    BY <2>2, <2>4
  <2> QED  BY <2>2, <2>4, <2>5
<1>5. CASE Aside
  BY <1>1, <1>5, LivesAssumption DEF Aside, OneOpenInv
<1>6. ASSUME NEW p \in Jobs, HandlerStep(p)
      PROVE  OneOpenInv'
  <2>1. faults' = faults
    BY <1>6, HandlerSteps
  <2>2. CASE CreateSession(p)
    <3> DEFINE s0 == First(FreeLogs)
               device == IF req[p].op = "loginAs" THEN "none" ELSE req[p].device
    <3>1. s0 \in Logs
      BY <2>2, FirstIn, IdsAssumption DEF CreateSession, FreeLogs
    <3>2. /\ logs' = [logs EXCEPT ![s0] = NewLog(p, device)]
          /\ closers \subseteq closers'
          /\ device # "none" => [log |-> s0, job |-> p] \in closers'
      BY <2>2 DEF CreateSession
    <3> HIDE DEF s0, device
    <3>3. logs'[s0].device = device /\ \A s \in Logs \ {s0} : logs'[s] = logs[s]
      BY <1>1, <3>1, <3>2 DEF NewLog
    <3> SUFFICES ASSUME faults = 0, NEW s \in Logs, NEW r \in Logs,
                        s # r, logs'[s].is = "used", logs'[r].is = "used",
                        logs'[s].active, logs'[r].active,
                        logs'[r].device # "none", logs'[s].device = logs'[r].device
                 PROVE  \E d \in closers' : d.log \in {s, r}
      BY <2>1 DEF OneOpenInv
    <3>4. CASE s0 \in {s, r}
      <4>1. [log |-> s0, job |-> p] \in closers'
        BY <3>2, <3>3, <3>4
      <4> QED  BY <3>4, <4>1
    <3>5. CASE s0 \notin {s, r}
      BY <3>2, <3>3, <3>5 DEF OneOpenInv
    <3> QED  BY <3>4, <3>5
  <2>3. CASE ~CreateSession(p)
    <3>1. closers' = closers
      <4>1. SaveInfo(p) \/ CloseLog(p) => closers' = closers
        BY DEF SaveInfo, CloseLog
      <4> QED  BY <1>6, <2>3, <4>1, HandlerSteps
               DEF Reads, WritesLogs, WritesTokens, WritesCodes, WritesUsers, Announces, Shared
    <3>2. \A s \in Logs : /\ logs'[s].is = logs[s].is /\ logs'[s].device = logs[s].device
                          /\ logs'[s].active => logs[s].active
      <4>1. \/ logs' = logs
            \/ \E s, i : logs' = [logs EXCEPT ![s].info = i]
            \/ \E s : logs' = [logs EXCEPT ![s].active = FALSE]
        <5>1. /\ SaveInfo(p) => \E s, i : logs' = [logs EXCEPT ![s].info = i]
              /\ CloseLog(p) => \E s : logs' = [logs EXCEPT ![s].active = FALSE]
          BY DEF SaveInfo, CloseLog
        <5> QED  BY <1>6, <2>3, <5>1, HandlerSteps
                 DEF Reads, WritesLogs, WritesTokens, WritesCodes, WritesUsers, Announces, Shared
      <4> QED  BY <1>1, <4>1 DEF Log
    <3> QED  BY <2>1, <3>1, <3>2 DEF OneOpenInv
  <2> QED  BY <2>2, <2>3
<1> QED  BY <1>2, <1>3, <1>4, <1>5, <1>6, Steps

(* Where a logout and an update of the info of a session come from.        *)
LEMMA SessionMoves ==
    ASSUME BasicInv, NEW p \in Jobs, HandlerStep(p)
    PROVE  /\ req[p].op = "logout" =>
                 /\ pc'[p] = "list" => CloseLog(p)
                 /\ pc'[p] = "block" => ReadList(p)
                 /\ answer'[p] = "ok" => WriteList(p)
           /\ req[p].op = "info" =>
                 /\ pc'[p] = "merge" => ReadInfo(p)
                 /\ answer'[p] = "ok" => SaveInfo(p)
<1>1. pc \in [Jobs -> PCs] /\ answer \in [Jobs -> Answers]
  BY DEF BasicInv, TypeInv, Answers
<1>2. pc[p] \notin {"idle", "done"} /\ pc[p] \in Stages(req[p].op) /\ answer[p] = "none"
  BY HandlerHandled DEF Handled, BasicInv, StageInv
<1>3. pc[p] = "guard" => \/ pc'[p] = "user" /\ answer' = answer
                         \/ pc'[p] = "done" /\ answer'[p] = "refused"
  BY <1>1, ActionAt DEF CheckToken, GoTo, End
<1>4. pc[p] = "user" => \/ pc'[p] = FirstStep(req[p].op) /\ answer' = answer
                        \/ pc'[p] = "done" /\ answer'[p] = "refused"
  BY <1>1, ActionAt DEF FindOwner, GoTo, End
<1>5. /\ pc[p] = "close" => CloseLog(p) /\ pc'[p] = "list" /\ answer' = answer
      /\ pc[p] = "list" => ReadList(p) /\ pc'[p] = "block" /\ answer' = answer
      /\ pc[p] = "block" => WriteList(p) /\ pc'[p] = "done"
      /\ pc[p] = "info" => ReadInfo(p) /\ pc'[p] = "merge" /\ answer' = answer
      /\ pc[p] = "merge" => SaveInfo(p) /\ pc'[p] = "done"
  BY <1>1, ActionAt DEF CloseLog, ReadList, WriteList, ReadInfo, SaveInfo, GoTo, End
<1>6. CASE req[p].op = "logout"
  <2>1. pc[p] \in {"guard", "user", "close", "list", "block"} /\ FirstStep(req[p].op) = "close"
    BY <1>2, <1>6 DEF Stages, FirstStep
  <2> QED  BY <1>2, <1>3, <1>4, <1>5, <1>6, <2>1
<1>7. CASE req[p].op = "info"
  <2>1. pc[p] \in {"guard", "user", "info", "merge"} /\ FirstStep(req[p].op) = "info"
    BY <1>2, <1>7 DEF Stages, FirstStep
  <2> QED  BY <1>2, <1>3, <1>4, <1>5, <1>7, <2>1
<1> QED  BY <1>6, <1>7

(* A session that a logout closed stays closed.                            *)
LEMMA ClosedKept ==
    ASSUME BasicInv, ClosedInv, [Next]_vars
    PROVE  ClosedInv'
<1>1. /\ faults \in Nat /\ logs \in [Logs -> Log]
      /\ \A p \in Jobs : req[p].op = "logout" /\ pc[p] # "idle" =>
            token[p].log \in Logs /\ logs[token[p].log].is = "used"
  BY Held, LivesAssumption DEF BasicInv, TypeInv, NeedsToken, Guarded
<1>2. ASSUME NEW p \in Jobs, Starts(p)
      PROVE  ClosedInv'
  <2>1. /\ pc'[p] \notin {"list", "block"} /\ answer'[p] # "ok"
        /\ \A q \in Jobs \ {p} : pc'[q] = pc[q] /\ token'[q] = token[q]
        /\ UNCHANGED <<answer, req, faults, logs>>
    BY <1>2 DEF Starts, BasicInv, StageInv
  <2> QED  BY <2>1 DEF ClosedInv
<1>3. ASSUME NEW p \in Jobs, Fails(p)
      PROVE  ClosedInv'
  <2>1. faults' # 0
    BY <1>3 DEF Fails
  <2> QED  BY <2>1 DEF ClosedInv
<1>4. CASE CloseStep
  <2>1. LogsOnly /\ UNCHANGED <<req, pc, answer, token, faults>>
    BY <1>4, CloseLogs DEF CloseStep, CloseOthers
  <2>2. \A p \in Jobs : pc[p] \in {"list", "block"} \/ answer[p] = "ok" => pc[p] # "idle"
    BY DEF BasicInv, StageInv
  <2> QED  BY <1>1, <2>1, <2>2 DEF ClosedInv, LogsOnly
<1>5. CASE Aside
  BY <1>1, <1>5, LivesAssumption DEF Aside, ClosedInv
<1>6. ASSUME NEW r \in Jobs, HandlerStep(r)
      PROVE  ClosedInv'
  <2>1. /\ UNCHANGED <<req, token, faults>>
        /\ \A q \in Jobs \ {r} : pc'[q] = pc[q] /\ answer'[q] = answer[q]
        /\ pc[r] # "idle"
    BY <1>6, HandlerHandled DEF Handled, Others
  <2>2. LogsOnly
    <3>1. CASE WritesLogs(r)
      BY <3>1, LogsWritten
    <3>2. CASE ~WritesLogs(r)
      <4>1. logs' = logs
        BY <1>6, <3>2, HandlerSteps
           DEF Reads, WritesTokens, WritesCodes, WritesUsers, Announces, Shared
      <4> QED  BY <4>1 DEF LogsOnly
    <3> QED  BY <3>1, <3>2
  <2> SUFFICES ASSUME NEW p \in Jobs, req[p].op = "logout", faults = 0,
                      pc'[p] \in {"list", "block"} \/ answer'[p] = "ok"
               PROVE  ~logs'[token[p].log].active
    BY <2>1 DEF ClosedInv
  <2>3. CASE p # r
    <3>1. (pc[p] \in {"list", "block"} \/ answer[p] = "ok") /\ pc[p] # "idle"
      BY <2>1, <2>3 DEF BasicInv, StageInv
    <3> QED  BY <1>1, <2>2, <3>1 DEF ClosedInv, LogsOnly
  <2>4. CASE p = r
    <3>1. token[p].log \in Logs /\ logs[token[p].log].is = "used"
      BY <1>1, <2>1, <2>4
    <3>2. CASE CloseLog(p)
      BY <1>1, <3>1, <3>2 DEF CloseLog, Log
    <3>3. CASE ReadList(p) \/ WriteList(p)
      <4>1. pc[p] \in {"list", "block"}
        BY <3>3 DEF ReadList, WriteList
      <4> QED  BY <2>2, <3>1, <4>1 DEF ClosedInv, LogsOnly
    <3> QED  BY <1>6, <2>4, <3>2, <3>3, SessionMoves
  <2> QED  BY <2>3, <2>4
<1> QED  BY <1>2, <1>3, <1>4, <1>5, <1>6, Steps

(* A push goes to sessions that were open when it was made.                *)
LEMMA NoPushKept ==
    ASSUME BasicInv, ClosedInv, NoPushAfterLogout, [Next]_vars
    PROVE  NoPushAfterLogout'
<1>1. /\ faults \in Nat /\ before \in [Jobs -> SUBSET Jobs]
      /\ \A n \in pushes : n.job \in Jobs /\ pc[n.job] # "idle"
      /\ \A p \in Jobs : \A q \in before[p] : pc[q] = "done"
  BY LivesAssumption DEF BasicInv, TypeInv, OrderInv
<1>2. Steady
  BY Steps, StepsSteady
<1>3. \A p \in Jobs : pc[p] # "idle" => \A q \in before'[p] :
          /\ q \in before[p] /\ (Done(q, "logout")' => Done(q, "logout"))
          /\ token'[q] = token[q]
  BY <1>1, <1>2 DEF Steady, Done
<1>4. faults' = 0 => faults = 0
  BY <1>1, <1>2 DEF Steady
<1>5. \A n \in pushes : \A q \in before'[n.job] :
          Done(q, "logout")' /\ token'[q].log = n.log => faults' > 0
  BY <1>1, <1>2, <1>3, <1>4 DEF NoPushAfterLogout, Steady
<1>6. ASSUME NEW n, n \in pushes', n \notin pushes, NEW q \in before'[n.job],
             Done(q, "logout")', token'[q].log = n.log
      PROVE  faults' > 0
  <2>1. Aside
    <3>1. \A p \in Jobs : Starts(p) \/ HandlerStep(p) \/ Fails(p) => pushes' = pushes
      <4>1. \A p \in Jobs : HandlerStep(p) => pushes' = pushes
        BY HandlerSteps DEF Reads, WritesLogs, WritesTokens, WritesCodes, WritesUsers, Announces,
                            Shared
      <4> QED  BY <4>1 DEF Starts, Fails
    <3>2. CloseStep => pushes' = pushes
      BY DEF CloseStep
    <3> QED  BY <1>6, <3>1, <3>2, Steps
  <2>2. n.job \in Jobs /\ pc[n.job] # "idle" /\ logs[n.log].active
    BY <1>6, <2>1 DEF Aside
  <2>3. q \in Jobs /\ Done(q, "logout") /\ token[q].log = n.log
    BY <1>1, <1>3, <1>6, <2>2
  <2>4. faults # 0
    BY <2>2, <2>3 DEF ClosedInv, Done
  <2> QED  BY <1>2, <1>4, <2>4 DEF Steady
<1> QED  BY <1>5, <1>6 DEF NoPushAfterLogout

(* What may have undone a logout stays: both have been answered.           *)
LEMMA LostStays ==
    ASSUME BasicInv, Steady, NEW p \in Jobs, Done(p, "logout"), LostBy(p)
    PROVE  LostBy(p)'
<1>1. PICK q \in Jobs \ {p} :
          /\ Done(q, "logout") /\ token[q].log = token[p].log
          /\ \/ Overlap(p, q)
             \/ p \in before[q] /\ token[q].exp < token[p].exp
             \/ q \in before[p] /\ Host[q] # Host[p]
  BY DEF LostBy
<1>2. pc[p] = "done" /\ pc[q] = "done"
  BY <1>1 DEF Done, BasicInv, StageInv
<1>3. /\ Done(q, "logout")' /\ before'[p] = before[p] /\ before'[q] = before[q]
      /\ token'[p] = token[p] /\ token'[q] = token[q] /\ pc'[p] = "done" /\ pc'[q] = "done"
  BY <1>1, <1>2 DEF Steady, Done
<1>4. Overlap(p, q) => Overlap(p, q)'
  BY <1>3 DEF Overlap
<1> QED  BY <1>1, <1>3, <1>4 DEF LostBy

(* The list that a logout writes back holds what was answered before.      *)
LEMMA LogoutKept ==
    ASSUME BasicInv, LogoutInv, [Next]_vars
    PROVE  LogoutInv'
<1>1. Steady
  BY Steps, StepsSteady
<1>2. /\ clock \in Nat /\ faults \in Nat /\ clock' \in Nat /\ clock <= clock'
      /\ black \in [Stores -> [Logs -> Entry]] /\ Host \in [Jobs -> Instances]
      /\ Instances \subseteq Stores /\ Redis \in Stores /\ Redis \notin Instances
      /\ mine \in [Jobs -> Mine]
      /\ \A p \in Jobs : \A q \in before[p] : pc[q] = "done"
      /\ \A p \in Jobs : req[p].op = "logout" /\ pc[p] # "idle" =>
            token[p].log \in Logs /\ token[p].exp \in Nat
  <2>1. clock \in Nat /\ faults \in Nat
    BY LivesAssumption DEF BasicInv, TypeInv
  <2>2. clock' \in Nat /\ clock <= clock'
    <3>1. \A p \in Jobs : HandlerStep(p) => clock' = clock
      BY HandlerSteps
    <3>2. \A p \in Jobs : Starts(p) \/ Fails(p) => clock' = clock
      BY DEF Starts, Fails
    <3>3. CloseStep => clock' = clock
      BY DEF CloseStep, CloseOthers
    <3>4. Aside => clock' \in Nat /\ clock <= clock'
      BY LivesAssumption DEF Aside
    <3>5. CASE clock' = clock
      BY <2>1, <3>5
    <3> QED  BY <3>1, <3>2, <3>3, <3>4, <3>5, Steps
  <2>3. \A p \in Jobs : req[p].op = "logout" /\ pc[p] # "idle" =>
            token[p].log \in Logs /\ token[p].exp \in Nat
    BY Held DEF NeedsToken, Guarded
  <2> QED  BY <2>1, <2>2, <2>3, HostAssumption DEF BasicInv, TypeInv, OrderInv, Stores
<1> SUFFICES ASSUME faults' = 0
             PROVE  LogoutInv'
  BY DEF LogoutInv
<1>3. /\ faults = 0 /\ req' = req
      /\ \A p \in Jobs : Done(p, "logout") /\ clock < token[p].exp => LostBy(p) \/ Kept(p)
      /\ \A i \in Instances, s \in Logs : Has(i, s) => WrittenHere(i, s)
  <2>1. faults = 0 /\ req' = req
    BY <1>1, <1>2 DEF Steady
  <2> QED  BY <2>1 DEF LogoutInv
(* p was answered before this step.                                        *)
<1>4. ASSUME NEW p \in Jobs, Done(p, "logout")
      PROVE  /\ pc[p] = "done" /\ token'[p] = token[p] /\ before'[p] = before[p]
             /\ token[p].log \in Logs /\ token[p].exp \in Nat /\ Done(p, "logout")'
             /\ clock' < token'[p].exp => LostBy(p)' \/ Kept(p)
  <2>1. pc[p] = "done"
    BY <1>4 DEF Done, BasicInv, StageInv
  <2>2. /\ token'[p] = token[p] /\ before'[p] = before[p] /\ Done(p, "logout")'
        /\ token[p].log \in Logs /\ token[p].exp \in Nat
    BY <1>1, <1>2, <1>4, <2>1 DEF Steady, Done
  <2>3. clock' < token'[p].exp => clock < token[p].exp
    BY <1>2, <2>2
  <2>4. LostBy(p) => LostBy(p)'
    BY <1>1, <1>4, LostStays
  <2> QED  BY <1>3, <1>4, <2>1, <2>2, <2>3, <2>4
<1>5. \A i \in Instances, s \in Logs : WrittenHere(i, s) => WrittenHere(i, s)'
  BY <1>4 DEF WrittenHere
(* A step that answers no logout and writes no list.                       *)
<1>6. ASSUME Forgets,
             \A q \in Jobs : /\ Done(q, "logout")' => Done(q, "logout")
                             /\ pc'[q] = "block" =>
                                  /\ pc[q] = "block" /\ token'[q] = token[q]
                                  /\ before'[q] = before[q] /\ mine'[q] = mine[q]
      PROVE  LogoutInv'
  <2>1. ASSUME NEW i \in Instances, NEW s \in Logs, Has(i, s)'
        PROVE  Has(i, s) /\ black'[i][s] = black[i][s]
    <3>1. black'[i][s] # NoEntry /\ black[i][s].until \in Nat
      BY <1>2, <2>1 DEF Has, NoEntry, Entry
    <3>2. black'[i][s] = black[i][s]
      BY <1>6, <3>1 DEF Forgets
    <3> QED  BY <1>2, <2>1, <3>1, <3>2 DEF Has
  <2>2. ASSUME NEW p \in Jobs, Done(p, "logout")', clock' < token'[p].exp, Kept(p)
        PROVE  Kept(p)'
    <3>1. /\ token[p].log \in Logs /\ token'[p] = token[p] /\ black'[Redis] = black[Redis]
      BY <1>4, <1>6, <2>2 DEF Forgets
    <3>2. \A i \in Instances : Has(i, token[p].log)' => token[p] \in black'[i][token[p].log].tokens
      BY <2>1, <2>2, <3>1 DEF Kept
    <3> QED  BY <1>6, <2>2, <3>1, <3>2 DEF Kept
  <2>3. \A p \in Jobs : Done(p, "logout")' /\ clock' < token'[p].exp => LostBy(p)' \/ Kept(p)'
    BY <1>4, <1>6, <2>2
  <2>4. \A i \in Instances, s \in Logs : Has(i, s)' => WrittenHere(i, s)'
    BY <1>3, <1>5, <2>1
  <2> QED  BY <2>3, <2>4 DEF LogoutInv
<1>7. ASSUME NEW r \in Jobs, Starts(r)
      PROVE  LogoutInv'
  <2>1. Forgets
    BY <1>7, SameLists DEF Starts
  <2>2. /\ UNCHANGED <<req, answer, mine>> /\ pc'[r] # "block"
        /\ \A q \in Jobs \ {r} : pc'[q] = pc[q] /\ token'[q] = token[q] /\ before'[q] = before[q]
    BY <1>7 DEF Starts, BasicInv, TypeInv
  <2> QED  BY <1>6, <2>1, <2>2 DEF Done
<1>8. ASSUME CloseStep \/ Aside
      PROVE  LogoutInv'
  <2>1. Forgets
    BY <1>8, SameLists DEF CloseStep, CloseOthers, Aside
  <2>2. UNCHANGED <<req, mine, pc, token, before, answer>>
    BY <1>8 DEF CloseStep, CloseOthers, Aside
  <2> QED  BY <1>6, <2>1, <2>2 DEF Done
<1>9. ASSUME NEW r \in Jobs, HandlerStep(r)
      PROVE  LogoutInv'
  <2>1. /\ UNCHANGED <<clock, req, token, before>> /\ pc[r] \notin {"idle", "done"}
        /\ \A q \in Jobs \ {r} : pc'[q] = pc[q] /\ mine'[q] = mine[q] /\ answer'[q] = answer[q]
    BY <1>9, HandlerHandled DEF Handled, Others
  <2>2. \A q \in Jobs : r \notin before[q]
    BY <1>2, <2>1
  <2>3. CASE ReadList(r)
    <3>1. /\ mine'[r].list = Listed(Host[r], token[r].log) /\ black' = black /\ answer' = answer
          /\ pc[r] = "list"
      BY <1>2, <2>3 DEF ReadList, Mine, GoTo
    <3>2. ASSUME NEW p \in Jobs, Done(p, "logout")', clock' < token'[p].exp
          PROVE  LostBy(p)' \/ Kept(p)'
      <4>1. Done(p, "logout") /\ p # r
        BY <2>1, <3>1, <3>2 DEF Done, BasicInv, StageInv
      <4>2. CASE Kept(p)
        <5>1. token[r].log = token[p].log => token[p] \in mine'[r].list
          <6> SUFFICES ASSUME token[r].log = token[p].log
                       PROVE  token[p] \in mine'[r].list
            OBVIOUS
          <6>1. Host[r] \in Instances /\ black[Redis][token[p].log].until \in Nat
            BY <1>2, <1>4, <4>1 DEF Entry
          <6>2. Has(Redis, token[p].log)
            BY <1>2, <1>4, <2>1, <3>2, <4>1, <4>2, <6>1 DEF Kept, Has
          <6> QED  BY <3>1, <4>2, <6>1, <6>2 DEF Listed, Kept
        <5> QED  BY <2>1, <3>1, <4>2, <5>1 DEF Kept, Has
      <4> QED  BY <1>4, <3>2, <4>1, <4>2
    <3>3. \A i \in Instances, s \in Logs : Has(i, s)' => WrittenHere(i, s)'
      BY <1>3, <1>5, <2>1, <3>1 DEF Has
    <3> QED  BY <3>2, <3>3 DEF LogoutInv
  <2>4. CASE WriteList(r)
    <3> DEFINE s == token[r].log
               new == [tokens |-> mine[r].list \cup {token[r]}, until |-> EndOfDay(token[r].exp)]
    <3>1. pc[r] = "block" /\ req[r].op = "logout" /\ s \in Logs /\ token[r].exp \in Nat
      BY <1>2, <2>1, <2>4, OpsAt DEF WriteList
    <3>2. EndOfDay(token[r].exp) \in Nat /\ token[r].exp < EndOfDay(token[r].exp)
      BY <3>1, DayEnds
    <3>3. /\ black'[Redis][s] = new /\ black'[Host[r]][s] = new
          /\ \A x \in Stores, l \in Logs :
                x \notin {Host[r], Redis} \/ l # s => black'[x][l] = black[x][l]
      <4>1. Put(r, {Host[r], Redis}, mine[r].list \cup {token[r]})
        BY <2>4 DEF WriteList
      <4>2. Redis \in Stores \cap {Host[r], Redis} /\ Host[r] \in Stores \cap {Host[r], Redis}
        BY <1>2
      <4>3. /\ \A x \in Stores \cap {Host[r], Redis} : black'[x][token[r].log] = new
            /\ \A x \in Stores, l \in Logs :
                  x \notin {Host[r], Redis} \/ l # token[r].log => black'[x][l] = black[x][l]
        BY ONLY BasicInv, r \in Jobs, <3>1, <4>1, PutTyped
      <4> QED  BY <4>2, <4>3
    <3>4. Done(r, "logout")' /\ pc'[r] = "done"
      <4>1. pc \in [Jobs -> PCs] /\ answer \in [Jobs -> Answers]
        BY DEF BasicInv, TypeInv, Answers
      <4> QED  BY <1>3, <2>4, <3>1, <4>1 DEF WriteList, End, Done
    <3>9. s' = s
      BY <2>1
    <3> HIDE DEF s
    <3>5. ASSUME NEW q \in Jobs \ {r}, Done(q, "logout")
          PROVE  Done(q, "logout")'
      BY <1>4, <3>5
(* A copy that another process still holds was written by a logout that    *)
(* overlapped with this one, or before it.                                 *)
    <3>6. ASSUME NEW i \in Instances, i # Host[r], Has(i, s)'
          PROVE  LostBy(r)'
      <4>1. Has(i, s)
        <5>1. i \in Stores /\ i \notin {Host[r], Redis}
          BY <1>2, <3>6
        <5>2. black'[i][s] = black[i][s]
          BY <3>1, <3>3, <5>1
        <5> QED  BY <2>1, <3>6, <3>9, <5>2 DEF Has
      <4>2. PICK q \in Jobs : Done(q, "logout") /\ Host[q] = i /\ token[q].log = s
        BY <1>3, <3>1, <4>1 DEF WrittenHere
      <4>3. q # r /\ Done(q, "logout")' /\ pc'[q] = "done"
        BY <1>4, <2>1, <3>6, <4>2
      <4>4. q \notin before'[r] => Overlap(r, q)'
        BY <2>1, <2>2, <3>4, <4>3 DEF Overlap
      <4> QED  BY <2>1, <3>6, <4>2, <4>3, <4>4 DEF LostBy, s
    <3>7. ASSUME NEW p \in Jobs, Done(p, "logout")', clock' < token'[p].exp
          PROVE  LostBy(p)' \/ Kept(p)'
      <4>1. CASE p = r
        <5>1. \A q \in Jobs : pc'[q] = "block" => q # r /\ p \notin before'[q]
          BY <2>1, <2>2, <3>4, <4>1
        <5>2. /\ token'[r] \in black'[Redis][s].tokens /\ token'[r].exp < black'[Redis][s].until
              /\ token'[r] \in black'[Host[r]][s].tokens
          BY <2>1, <3>2, <3>3
        <5>3. ~LostBy(r)' => \A i \in Instances : Has(i, s)' => token'[r] \in black'[i][s].tokens
          BY <3>6, <5>2
        <5> QED  BY <2>1, <4>1, <5>1, <5>2, <5>3 DEF Kept, s
      <4>2. CASE p # r /\ Kept(p) /\ token[p].log = s
        <5>1. Done(p, "logout") /\ pc[p] = "done" /\ token[p].exp \in Nat
          BY <1>4, <2>1, <3>7, <4>2 DEF Done
        <5>2. CASE p \notin before[r]
          <6>1. Overlap(p, r)'
            BY <2>1, <2>2, <3>4, <4>2, <5>1, <5>2 DEF Overlap
          <6> QED  BY <2>1, <3>4, <4>2, <6>1 DEF LostBy, s
        <5>3. CASE p \in before[r] /\ token[r].exp < token[p].exp
          BY <2>1, <3>4, <4>2, <5>3 DEF LostBy, s
        <5>4. CASE p \in before[r] /\ token[p].exp <= token[r].exp
          <6>1. token[p] \in mine[r].list
            BY <3>1, <4>2, <5>4 DEF Kept, s
          <6>2. /\ token[p] \in black'[Redis][s].tokens /\ token[p].exp < black'[Redis][s].until
                /\ token[p] \in black'[Host[r]][s].tokens
            BY <3>1, <3>2, <3>3, <5>1, <5>4, <6>1
          <6>3. \A i \in Instances : Has(i, s)' => token[p] \in black'[i][s].tokens
            <7>1. ASSUME NEW i \in Instances, i # Host[r], Has(i, s)'
                  PROVE  token[p] \in black'[i][s].tokens
              <8>1. i \in Stores /\ i \notin {Host[r], Redis}
                BY <1>2, <7>1
              <8>2. black'[i][s] = black[i][s]
                BY <3>1, <3>3, <8>1
              <8>3. Has(i, s)
                BY <2>1, <3>9, <7>1, <8>2 DEF Has
              <8> QED  BY <4>2, <7>1, <8>2, <8>3 DEF Kept
            <7> QED  BY <6>2, <7>1
          <6>4. \A q \in Jobs : pc'[q] = "block" => q # r /\ pc[q] = "block" /\ mine'[q] = mine[q]
            BY <2>1, <3>4
          <6>5. token'[p] = token[p] /\ token'[p].log = s /\ token' = token /\ before' = before
            BY <2>1, <4>2
          <6>6. \A q \in Jobs : pc'[q] = "block" /\ token[q].log = s =>
                   token[p] \in mine'[q].list \/ p \notin before[q]
            BY <4>2, <6>4 DEF Kept
          <6> QED  BY <3>9, <6>2, <6>3, <6>5, <6>6 DEF Kept
        <5> QED  BY <3>1, <5>1, <5>2, <5>3, <5>4
      <4>3. CASE p # r /\ Kept(p) /\ token[p].log # s
        <5>1. token[p].log \in Logs
          BY <1>4, <2>1, <3>7, <4>3 DEF Done
        <5>2. \A x \in Stores : black'[x][token[p].log] = black[x][token[p].log]
          BY <3>3, <4>3, <5>1
        <5>3. \A q \in Jobs : pc'[q] = "block" => q # r /\ pc[q] = "block" /\ mine'[q] = mine[q]
          BY <2>1, <3>4
        <5> QED  BY <1>2, <2>1, <4>3, <5>1, <5>2, <5>3 DEF Kept, Has
      <4>4. p # r => Done(p, "logout")
        BY <2>1, <3>7 DEF Done
      <4> QED  BY <1>4, <3>7, <4>1, <4>2, <4>3, <4>4
    <3>8. ASSUME NEW i \in Instances, NEW l \in Logs, Has(i, l)'
          PROVE  WrittenHere(i, l)'
      <4>1. CASE i = Host[r] /\ l = s
        BY <2>1, <3>4, <4>1 DEF WrittenHere, s
      <4>2. CASE i # Host[r] \/ l # s
        <5>1. Has(i, l)
          BY <1>2, <2>1, <3>3, <3>8, <4>2 DEF Has
        <5> QED  BY <1>3, <1>5, <5>1
      <4> QED  BY <4>1, <4>2
    <3> QED  BY <3>7, <3>8 DEF LogoutInv
  <2>5. CASE ~WriteList(r) /\ ~ReadList(r)
    <3>1. black' = black
      <4>1. GetNewToken(r) => black' = black
        BY DEF GetNewToken
      <4> QED  BY <1>9, <2>5, <4>1, HandlerSteps
               DEF Reads, WritesLogs, WritesTokens, WritesCodes, WritesUsers, Announces, Shared
    <3>2. pc'[r] # "block" /\ ~Done(r, "logout")'
      <4>1. pc'[r] = "block" => req[r].op = "logout"
        BY <1>9, HandlerHandled DEF Handled, Stages
      <4> QED  BY <1>3, <1>9, <2>5, <4>1, SessionMoves DEF Done
    <3>3. Forgets
      BY <3>1, SameLists
    <3>4. \A q \in Jobs \ {r} : Done(q, "logout")' => Done(q, "logout")
      BY <2>1 DEF Done
    <3> QED  BY <1>6, <2>1, <3>2, <3>3, <3>4
  <2> QED  BY <2>3, <2>4, <2>5
<1>10. ASSUME NEW r \in Jobs, Fails(r)
       PROVE  FALSE
  BY <1>10 DEF Fails
<1> QED  BY <1>7, <1>8, <1>9, <1>10, Steps

(* Two requests that overlapped, have.                                     *)
LEMMA OverlapStays ==
    ASSUME Steady, NEW p \in Jobs, NEW q \in Jobs, pc[p] # "idle", pc[q] # "idle"
    PROVE  Overlap(p, q)' <=> Overlap(p, q)
BY DEF Steady, Overlap

(* The info that an update writes back holds what was answered before.     *)
LEMMA InfoStays ==
    ASSUME BasicInv, InfoInv, [Next]_vars
    PROVE  InfoInv'
<1>1. Steady
  BY Steps, StepsSteady
<1>2. /\ logs \in [Logs -> Log] /\ mine \in [Jobs -> Mine]
      /\ \A p \in Jobs : \A q \in before[p] : pc[q] = "done"
      /\ \A p \in Jobs : answer[p] # "none" => pc[p] = "done"
      /\ \A p \in Jobs : req[p].op = "info" /\ pc[p] # "idle" =>
            token[p].log \in Logs /\ logs[token[p].log].is = "used"
  BY Held DEF BasicInv, TypeInv, OrderInv, StageInv, NeedsToken, Guarded
<1> SUFFICES ASSUME NEW p \in Jobs, Done(p, "info")'
             PROVE  \/ MergedBy(p)'
                    \/ /\ p \in logs'[token'[p].log].info
                       /\ \A q \in Jobs : pc'[q] = "merge" /\ token'[q].log = token'[p].log =>
                             p \in mine'[q].info \/ p \notin before'[q]
  BY DEF InfoInv
<1>3. req' = req
  BY <1>1 DEF Steady
<1> DEFINE s == token[p].log
           Merged == /\ p \in logs[s].info
                     /\ \A q \in Jobs : pc[q] = "merge" /\ token[q].log = s =>
                           p \in mine[q].info \/ p \notin before[q]
<1>4. ASSUME Done(p, "info")
      PROVE  /\ pc[p] = "done" /\ token'[p] = token[p] /\ before'[p] = before[p]
             /\ s \in Logs /\ logs[s].is = "used"
             /\ MergedBy(p)' \/ Merged
  <2>1. pc[p] = "done"
    BY <1>2, <1>4 DEF Done
  <2>2. /\ token'[p] = token[p] /\ before'[p] = before[p]
        /\ s \in Logs /\ logs[s].is = "used"
    BY <1>1, <1>2, <1>4, <2>1 DEF Steady, Done
  <2>3. ASSUME MergedBy(p)
        PROVE  MergedBy(p)'
    <3>1. PICK q \in Jobs : Done(q, "info") /\ token[q].log = s /\ Overlap(p, q)
      BY <2>3 DEF MergedBy
    <3>2. pc[q] = "done"
      BY <1>2, <3>1 DEF Done
    <3>3. Done(q, "info")' /\ token'[q] = token[q] /\ Overlap(p, q)'
      BY <1>1, <2>1, <3>1, <3>2, OverlapStays DEF Steady, Done
    <3> QED  BY <2>2, <3>1, <3>3 DEF MergedBy
  <2>4. MergedBy(p) \/ Merged
    BY <1>4 DEF InfoInv
  <2> QED  BY <2>1, <2>2, <2>3, <2>4
<1>5. ASSUME NEW r \in Jobs, Starts(r)
      PROVE  MergedBy(p)' \/ Merged'
  <2>1. Done(p, "info")
    BY <1>3, <1>5 DEF Starts, Done
  <2>2. /\ logs' = logs /\ mine' = mine /\ pc'[r] # "merge"
        /\ \A q \in Jobs \ {r} : pc'[q] = pc[q] /\ token'[q] = token[q] /\ before'[q] = before[q]
    BY <1>5 DEF Starts, BasicInv, TypeInv
  <2> QED  BY <1>4, <2>1, <2>2
<1>6. ASSUME NEW r \in Jobs, Fails(r)
      PROVE  MergedBy(p)' \/ Merged'
  <2>1. /\ UNCHANGED <<logs, mine, token, before>> /\ pc'[r] # "merge"
        /\ \A q \in Jobs \ {r} : pc'[q] \in {pc[q], "done"} /\ answer'[q] = answer[q]
    BY <1>6 DEF Fails, PassedOver
  <2>2. Done(p, "info")
    <3>1. r = p => answer'[p] # "ok" \/ answer[p] = "ok" \/ req[p].op # "info"
      BY <1>6, OpsAt DEF Fails
    <3> QED  BY <1>3, <2>1, <3>1 DEF Done
  <2> QED  BY <1>4, <2>1, <2>2
<1>7. CASE Aside
  BY <1>3, <1>4, <1>7 DEF Aside, Done
<1>8. CASE CloseStep
  <2>1. /\ UNCHANGED <<mine, pc, token, before, answer>>
        /\ \A l \in Logs : logs'[l].info = logs[l].info
    BY <1>8, CloseLogs DEF CloseStep, CloseOthers
  <2>2. Done(p, "info")
    BY <1>3, <2>1 DEF Done
  <2> QED  BY <1>4, <2>1, <2>2
<1>9. ASSUME NEW r \in Jobs, HandlerStep(r)
      PROVE  MergedBy(p)' \/ Merged'
  <2>1. /\ UNCHANGED <<token, before>> /\ pc[r] \notin {"idle", "done"} /\ answer[r] = "none"
        /\ \A q \in Jobs \ {r} : pc'[q] = pc[q] /\ mine'[q] = mine[q] /\ answer'[q] = answer[q]
    BY <1>9, HandlerHandled DEF Handled, Others
  <2>2. ASSUME SaveInfo(r)
        PROVE  /\ req[r].op = "info" /\ token[r].log \in Logs
               /\ logs'[token[r].log].info = mine[r].info \cup {r}
               /\ \A l \in Logs \ {token[r].log} : logs'[l] = logs[l]
               /\ Done(r, "info")' /\ pc'[r] = "done" /\ pc[r] = "merge"
    <3>1. req[r].op = "info" /\ token[r].log \in Logs
      BY <1>2, <2>1, <2>2, OpsAt DEF SaveInfo
    <3>2. pc \in [Jobs -> PCs] /\ answer \in [Jobs -> Answers]
      BY DEF BasicInv, TypeInv, Answers
    <3> QED  BY <1>2, <1>3, <2>2, <3>1, <3>2 DEF SaveInfo, End, Done, Log
  <2>3. CASE ~Done(p, "info")
    <3>1. p = r /\ SaveInfo(p)
      BY <1>3, <1>9, <2>1, <2>3, SessionMoves DEF Done
    <3>2. pc[p] # "done" /\ pc'[p] # "merge"
      BY <2>1, <2>2, <3>1
    <3> QED  BY <1>2, <2>1, <2>2, <3>1, <3>2
  <2>4. CASE Done(p, "info") /\ MergedBy(p)'
    BY <2>4
  <2>5. CASE Done(p, "info") /\ Merged
    <3>1. r # p /\ s \in Logs /\ logs[s].is = "used" /\ pc[p] = "done"
      BY <1>4, <2>1, <2>5
    <3>2. CASE SaveInfo(r) /\ token[r].log = s
      <4>1. r \notin before[p]
        BY <1>2, <2>1
      <4>2. CASE p \in mine[r].info
        BY <2>1, <2>2, <2>5, <3>1, <3>2, <4>2
      <4>3. CASE p \notin before[r]
        <5>1. Overlap(p, r)
          BY <2>1, <3>1, <4>1, <4>3 DEF Overlap
        <5>2. Overlap(p, r)'
          BY <1>1, <2>1, <3>1, <5>1, OverlapStays
        <5> QED  BY <2>1, <2>2, <3>2, <5>2 DEF MergedBy
      <4> QED  BY <2>2, <2>5, <3>2, <4>2, <4>3
    <3>3. CASE SaveInfo(r) /\ token[r].log # s
      BY <2>1, <2>2, <2>5, <3>1, <3>3
    <3>4. CASE ReadInfo(r)
      <4>1. mine'[r].info = logs[token[r].log].info /\ logs' = logs
        BY <1>2, <3>4 DEF ReadInfo, Mine
      <4> QED  BY <2>1, <2>5, <4>1
    <3>5. CASE ~SaveInfo(r) /\ ~ReadInfo(r)
      <4>1. logs'[s].info = logs[s].info
        <5>1. CASE CreateSession(r)
          <6>1. First(FreeLogs) \in FreeLogs
            BY <5>1, FirstIn, IdsAssumption DEF CreateSession, FreeLogs
          <6>2. logs'[s] = logs[s]
            BY <1>2, <3>1, <5>1, <6>1 DEF CreateSession, FreeLogs
          <6> QED  BY <6>2
        <5>2. CASE CloseLog(r)
          BY <1>2, <3>1, <5>2 DEF CloseLog, Log
        <5>3. CASE ~CreateSession(r) /\ ~CloseLog(r)
          BY <1>9, <3>5, <5>3, HandlerSteps
             DEF Reads, WritesLogs, WritesTokens, WritesCodes, WritesUsers, Announces, Shared
        <5> QED  BY <5>1, <5>2, <5>3
      <4>2. pc'[r] # "merge"
        <5>1. pc'[r] = "merge" => req[r].op = "info"
          BY <1>9, HandlerHandled DEF Handled, Stages
        <5> QED  BY <1>9, <3>5, <5>1, SessionMoves
      <4> QED  BY <2>1, <2>5, <4>1, <4>2
    <3> QED  BY <3>2, <3>3, <3>4, <3>5
  <2> QED  BY <1>4, <2>3, <2>4, <2>5
<1> QED  BY <1>5, <1>6, <1>7, <1>8, <1>9, Steps

-----------------------------------------------------------------------------
(* A code that was asked for keeps its user; verified it stays verified,   *)
(* and deleted it stays deleted.                                           *)
CodesOnly == \A c \in Codes : codes[c].is # "free" =>
                 /\ codes'[c].is # "free" /\ codes'[c].user = codes[c].user
                 /\ codes[c].verified => codes'[c].verified
                 /\ codes[c].is = "deleted" => codes'[c].is = "deleted"

(* Each write of a code changes one field of one code.                     *)
LEMMA CodeWrites ==
    ASSUME BasicInv, NEW p \in Jobs, HandlerStep(p)
    PROVE  \/ codes' = codes
           \/ /\ pc[p] = "otp"
              /\ \E c \in Codes : codes[c].is = "free" /\ codes' = [codes EXCEPT ![c] = NewCode(p)]
           \/ /\ pc[p] = "retry" /\ req[p].op = "verify" /\ pc'[p] = "done" /\ answer'[p] = "wrong"
              /\ codes' = [codes EXCEPT ![req[p].code].retry = mine[p].left - 1]
           \/ /\ pc[p] = "resend" /\ req[p].op = "send"
              /\ codes' = [codes EXCEPT ![req[p].code].resend = mine[p].left - 1]
           \/ /\ pc[p] = "verify" /\ req[p].op = "verify"
              /\ codes' = [codes EXCEPT ![req[p].code].verified = TRUE]
           \/ /\ pc[p] = "drop" /\ req[p].op = "reset"
              /\ codes' = [codes EXCEPT ![req[p].code].is = "deleted"]
<1>1. pc \in [Jobs -> PCs] /\ answer \in [Jobs -> Answers]
  BY DEF BasicInv, TypeInv, Answers
<1>2. CASE CreateCode(p)
  <2> DEFINE free == {c \in Codes : codes[c].is = "free"}
  <2>1. First(free) \in free
    BY <1>2, FirstIn, IdsAssumption DEF CreateCode
  <2>2. pc[p] = "otp" /\ codes' = [codes EXCEPT ![First(free)] = NewCode(p)]
    BY <1>2 DEF CreateCode
  <2> HIDE DEF free
  <2>3. \E c \in Codes : c \in free /\ codes' = [codes EXCEPT ![c] = NewCode(p)]
    BY <2>1, <2>2 DEF free
  <2> QED  BY <2>2, <2>3 DEF free
<1>3. CASE CountRetry(p)
  BY <1>1, <1>3, OpsAt DEF CountRetry, End
<1>4. CASE Verify(p)
  BY <1>4, OpsAt DEF Verify
<1>5. CASE CountResend(p)
  BY <1>5, OpsAt DEF CountResend
<1>6. CASE DropCode(p)
  BY <1>6, OpsAt DEF DropCode
<1>7. CASE ~WritesCodes(p)
  BY <1>7, HandlerSteps DEF Reads, WritesLogs, WritesTokens, WritesUsers, Announces, Shared
<1> QED  BY <1>2, <1>3, <1>4, <1>5, <1>6, <1>7 DEF WritesCodes

(* So no step takes back what a code has become.                           *)
LEMMA CodesKept ==
    ASSUME BasicInv, [Next]_vars
    PROVE  CodesOnly
<1>1. codes \in [Codes -> Code]
  BY DEF BasicInv, TypeInv
<1>2. ASSUME NEW p \in Jobs, HandlerStep(p)
      PROVE  CodesOnly
  <2>1. \/ codes' = codes
        \/ \E c \in Codes : codes[c].is = "free" /\ codes' = [codes EXCEPT ![c] = NewCode(p)]
        \/ \E c, x : codes' = [codes EXCEPT ![c].retry = x]
        \/ \E c, x : codes' = [codes EXCEPT ![c].resend = x]
        \/ \E c : codes' = [codes EXCEPT ![c].verified = TRUE]
        \/ \E c : codes' = [codes EXCEPT ![c].is = "deleted"]
    BY <1>2, CodeWrites
  <2> QED  BY <1>1, <2>1 DEF CodesOnly, Code
<1>3. \A p \in Jobs : Starts(p) \/ Fails(p) => codes' = codes
  BY DEF Starts, Fails
<1>4. CloseStep \/ Aside => codes' = codes
  BY DEF CloseStep, Aside
<1> QED  BY <1>2, <1>3, <1>4, Steps DEF CodesOnly

(* Where a request about a code comes from.                                *)
LEMMA CodeMoves ==
    ASSUME BasicInv, NEW p \in Jobs, HandlerStep(p), req[p].op \in CodeOps
    PROVE  LET o == req[p].op  c == req[p].code
           IN \/ /\ pc[p] = "code" /\ Open(c, o)
                 /\ mine'[p].user = codes[c].user /\ codes' = codes
                 /\ answer'[p] = "none"
                 /\ \/ o = "send" /\ pc'[p] = "resend" /\ mine'[p].left = codes[c].resend
                    \/ o = "reset" /\ pc'[p] = "old"
                    \/ o = "verify" /\ pc'[p] \in {"verify", "retry"} /\ mine'[p].left = codes[c].retry
              \/ pc'[p] = "done" /\ answer'[p] = "refused"
              \/ o = "verify" /\ pc[p] = "retry" /\ pc'[p] = "done" /\ answer'[p] = "wrong"
              \/ /\ o = "verify" /\ pc[p] = "verify" /\ pc'[p] \in {"account", "done"}
                 /\ codes' = [codes EXCEPT ![c].verified = TRUE]
              \/ /\ o = "verify" /\ pc[p] \in {"account", "log", "count"}
                 /\ pc'[p] \in {"log", "count", "done"}
              \/ o = "send" /\ pc[p] \in {"resend", "mail"} /\ pc'[p] \in {"mail", "done"}
              \/ /\ o = "reset" /\ pc[p] = "old" /\ pc'[p] = "password"
                 /\ mine' = mine /\ answer'[p] = "none"
              \/ /\ o = "reset" /\ pc[p] = "password" /\ pc'[p] = "drop" /\ answer'[p] = "none"
              \/ /\ o = "reset" /\ pc[p] = "drop" /\ pc'[p] = "mail" /\ answer'[p] = "none"
                 /\ codes' = [codes EXCEPT ![c].is = "deleted"]
              \/ o = "reset" /\ pc[p] = "mail" /\ pc'[p] = "done"
<1> DEFINE o == req[p].op  c == req[p].code
<1>1. /\ pc \in [Jobs -> PCs] /\ answer \in [Jobs -> Answers] /\ mine \in [Jobs -> Mine]
      /\ codes \in [Codes -> Code] /\ c \in Codes
  BY Held DEF BasicInv, TypeInv, Answers
<1>2. pc[p] \notin {"idle", "done"} /\ answer[p] = "none" /\ pc[p] \in Stages(o)
  BY HandlerHandled DEF Handled, BasicInv, StageInv
<1>3. CASE pc[p] = "code"
  <2>1. ReadCode(p) /\ Reads(p)
    BY <1>3, ActionAt
  <2>2. CASE Open(c, o)
    <3> DEFINE l == CASE o = "send" -> "resend"
                      [] o = "reset" -> "old"
                      [] OTHER -> IF req[p].right THEN "verify" ELSE "retry"
               x == IF o = "send" THEN codes[c].resend ELSE codes[c].retry
    <3>1. mine' = [mine EXCEPT ![p].user = codes[c].user, ![p].left = x] /\ GoTo(p, l)
      BY <2>1, <2>2 DEF ReadCode
    <3>2. pc'[p] = l /\ answer'[p] = "none"
      BY <1>1, <1>2, <3>1 DEF GoTo
    <3>3. mine'[p].user = codes[c].user /\ mine'[p].left = x
      BY <1>1, <3>1 DEF Mine
    <3>4. codes' = codes
      BY <2>1 DEF ReadCode
    <3> QED  BY <1>3, <2>2, <3>2, <3>3, <3>4 DEF CodeOps
  <2>3. CASE ~Open(c, o)
    <3>1. End(p, "refused")
      BY <2>1, <2>3 DEF ReadCode
    <3> QED  BY <1>1, <3>1 DEF End
  <2> QED  BY <2>2, <2>3
<1>4. CASE pc[p] = "retry"
  <2>1. CountRetry(p) /\ o = "verify"
    BY <1>4, ActionAt, OpsAt
  <2> QED  BY <1>1, <1>4, <2>1 DEF CountRetry, End
<1>5. CASE pc[p] = "verify"
  <2>1. Verify(p) /\ o = "verify"
    BY <1>5, ActionAt, OpsAt
  <2>2. pc'[p] \in {"account", "done"} /\ codes' = [codes EXCEPT ![c].verified = TRUE]
    BY <1>1, <2>1 DEF Verify, GoTo, End
  <2> QED  BY <1>5, <2>1, <2>2
<1>6. CASE pc[p] \in {"account", "log", "count"}
  <2>1. o = "verify"
    BY <1>6, OpsAt DEF CodeOps
  <2>2. FindAccount(p) \/ CreateSession(p) \/ CountUnread(p)
    BY <1>6, ActionAt
  <2>3. pc'[p] \in {"log", "count", "done"}
    BY <1>1, <2>2 DEF FindAccount, CreateSession, CountUnread, GoTo, End
  <2> QED  BY <1>6, <2>1, <2>3
<1>7. CASE pc[p] = "resend" \/ (pc[p] = "mail" /\ o = "send")
  <2>1. o = "send" /\ (CountResend(p) \/ ExecuteJob(p))
    BY <1>7, ActionAt, OpsAt
  <2>2. pc'[p] \in {"mail", "done"}
    BY <1>1, <2>1 DEF CountResend, ExecuteJob, GoTo, End
  <2> QED  BY <1>7, <2>1, <2>2
<1>8. CASE pc[p] = "old"
  <2>1. FindUser(p) /\ o = "reset"
    BY <1>8, ActionAt, OpsAt DEF CodeOps
  <2>2. mine' = mine /\ (GoTo(p, "password") \/ End(p, "refused"))
    BY <2>1 DEF FindUser
  <2> QED  BY <1>1, <1>2, <1>8, <2>1, <2>2 DEF GoTo, End
<1>9. CASE pc[p] = "password"
  <2>1. SavePassword(p) /\ o = "reset"
    BY <1>9, ActionAt, OpsAt DEF CodeOps
  <2> QED  BY <1>1, <1>2, <1>9, <2>1 DEF SavePassword, GoTo
<1>10. CASE pc[p] = "drop"
  <2>1. DropCode(p) /\ o = "reset"
    BY <1>10, ActionAt, OpsAt
  <2> QED  BY <1>1, <1>2, <1>10, <2>1 DEF DropCode, GoTo
<1>11. CASE pc[p] = "mail" /\ o = "reset"
  <2>1. ExecuteJob(p)
    BY <1>11, ActionAt
  <2> QED  BY <1>1, <1>11, <2>1 DEF ExecuteJob, End
<1> QED  BY <1>2, <1>3, <1>4, <1>5, <1>6, <1>7, <1>8, <1>9, <1>10, <1>11 DEF Stages, CodeOps

(* What a request that took a code has made of it, is so for good.         *)
LEMMA CodeKept ==
    ASSUME BasicInv, CodeInv, [Next]_vars
    PROVE  CodeInv'
<1>1. Steady /\ CodesOnly
  BY Steps, StepsSteady, CodesKept
<1>2. /\ faults \in Nat /\ codes \in [Codes -> Code]
      /\ \A p \in Jobs : req[p].code \in Codes
      /\ \A p \in Jobs : answer[p] # "none" => pc[p] = "done"
  BY Held, LivesAssumption DEF BasicInv, TypeInv, StageInv
<1>3. req' = req /\ (faults' = 0 => faults = 0)
  BY <1>1, <1>2 DEF Steady
<1> DEFINE Known(p) ==
              LET code == codes[req[p].code]
              IN /\ code.is # "free"
                 /\ pc[p] \in {"retry", "resend"} => mine[p].left > 0
                 /\ req[p].op = "reset" => code.verified
                 /\ pc[p] \in {"old", "password"} => mine[p].user = code.user
                 /\ req[p].op = "reset" /\ faults = 0 /\ (pc[p] = "mail" \/ answer[p] = "ok") =>
                       code.is = "deleted"
                 /\ req[p].op = "verify" /\ (pc[p] \in {"account", "log", "count"} \/ answer[p] = "ok") =>
                       code.verified
<1> SUFFICES ASSUME NEW p \in Jobs, Took(p)'
             PROVE  Known(p)'
  BY DEF CodeInv
(* Of the requests that the step is not about.                             *)
<1>4. ASSUME pc'[p] = pc[p], answer'[p] = answer[p], mine'[p] = mine[p]
      PROVE  Known(p)'
  <2>1. Took(p)
    BY <1>3, <1>4 DEF Took
  <2>2. Known(p)
    BY <2>1 DEF CodeInv
  <2> QED  BY <1>1, <1>2, <1>3, <1>4, <2>2 DEF CodesOnly
<1>5. ASSUME NEW r \in Jobs, Starts(r)
      PROVE  Known(p)'
  <2>1. CASE r = p
    <3>1. pc'[p] \in Stages(req[p].op) \ {"idle", "done"} /\ answer'[p] \notin {"ok", "wrong"}
      BY <1>5, <2>1 DEF Starts, BasicInv, StageInv
    <3>2. req[p].op \in CodeOps => pc'[p] = "code"
      BY <1>5, <2>1 DEF Starts, CodeOps, Stages, HoldsAt
    <3> QED  BY <1>3, <3>1, <3>2 DEF Took
  <2>2. CASE r # p
    BY <1>4, <1>5, <2>2 DEF Starts
  <2> QED  BY <2>1, <2>2
<1>6. ASSUME NEW r \in Jobs, Fails(r)
      PROVE  Known(p)'
  <2>1. CASE r = p
    <3>1. /\ faults' # 0 /\ codes' = codes
          /\ \/ pc'[p] = "done"
             \/ answer'[p] = answer[p] /\ pc[p] \in {"guard", "close", "list"}
             \/ answer'[p] = answer[p] /\ pc[p] = "drop" /\ pc'[p] = "mail"
          /\ \/ answer'[p] \in {answer[p], "error"}
             \/ answer'[p] = "ok" /\ pc[p] \in {"block", "mail"}
      BY <1>6, <2>1 DEF Fails, PassedOver
    <3>2. req[p].op \in CodeOps
      BY <1>3 DEF Took
    <3>3. pc[p] \notin {"guard", "close", "list", "block"} /\ pc[p] # "idle"
      BY <1>6, <2>1, <3>2, OpsAt DEF CodeOps, Guarded, Fails
    <3>4. Took(p)
      BY <1>2, <1>3, <3>1, <3>2, <3>3 DEF Took
    <3>5. pc[p] = "mail" => req[p].op # "verify"
      BY OpsAt
    <3> QED  BY <1>2, <1>3, <3>1, <3>3, <3>4, <3>5 DEF CodeInv
  <2>2. CASE r # p
    <3>1. /\ codes' = codes /\ mine' = mine /\ answer'[p] = answer[p]
          /\ pc'[p] = pc[p] \/ pc'[p] = "done"
      BY <1>6, <2>2 DEF Fails
    <3>2. CASE pc'[p] # pc[p]
      <4>1. Took(p)
        BY <1>3, <3>1, <3>2 DEF Took
      <4> QED  BY <1>3, <3>1, <3>2, <4>1 DEF CodeInv, Took
    <3> QED  BY <1>4, <3>1, <3>2
  <2> QED  BY <2>1, <2>2
<1>7. CASE CloseStep \/ Aside
  BY <1>4, <1>7 DEF CloseStep, CloseOthers, Aside
<1>8. ASSUME NEW r \in Jobs, HandlerStep(r)
      PROVE  Known(p)'
  <2>1. CASE r # p
    BY <1>4, <1>8, <2>1, HandlerHandled DEF Handled, Others
  <2>2. CASE r = p
    <3> DEFINE o == req[p].op  c == req[p].code
    <3>1. o \in CodeOps /\ c \in Codes /\ faults' = faults
      BY <1>2, <1>3, <1>8, HandlerSteps DEF Took
    <3>2. pc[p] \notin {"idle", "done"} /\ (answer'[p] # "none" <=> pc'[p] = "done")
      BY <1>8, <2>2, HandlerHandled DEF Handled
    <3>3. pc[p] # "code" => Known(p)
      BY <3>1, <3>2 DEF Took, CodeInv
    <3>4. CASE pc[p] = "code" /\ Open(c, o) /\ codes' = codes
                 /\ mine'[p].user = codes[c].user /\ answer'[p] = "none"
                 /\ \/ o = "send" /\ pc'[p] = "resend" /\ mine'[p].left = codes[c].resend
                    \/ o = "reset" /\ pc'[p] = "old"
                    \/ o = "verify" /\ pc'[p] \in {"verify", "retry"} /\ mine'[p].left = codes[c].retry
      BY <1>3, <3>4 DEF Open, LiveCode
    <3>5. CASE pc'[p] = "done" /\ answer'[p] = "refused"
      BY <1>3, <3>5 DEF Took
    <3>6. CASE o = "verify" /\ pc[p] = "retry" /\ pc'[p] = "done" /\ answer'[p] = "wrong"
      BY <1>1, <1>3, <3>1, <3>3, <3>6 DEF CodesOnly
    <3>7. CASE o = "verify" /\ pc[p] = "verify" /\ pc'[p] \in {"account", "done"}
                 /\ codes' = [codes EXCEPT ![c].verified = TRUE]
      <4>1. codes'[c].verified
        BY <1>2, <3>1, <3>7 DEF Code
      <4> QED  BY <1>1, <1>3, <3>1, <3>3, <3>7, <4>1 DEF CodesOnly
    <3>8. CASE o = "verify" /\ pc[p] \in {"account", "log", "count"}
                 /\ pc'[p] \in {"log", "count", "done"}
      BY <1>1, <1>3, <3>1, <3>3, <3>8 DEF CodesOnly
    <3>9. CASE o = "send" /\ pc[p] \in {"resend", "mail"} /\ pc'[p] \in {"mail", "done"}
      BY <1>1, <1>3, <3>1, <3>3, <3>9 DEF CodesOnly
    <3>10. CASE o = "reset" /\ pc[p] = "old" /\ pc'[p] = "password"
                 /\ mine' = mine /\ answer'[p] = "none"
      BY <1>1, <1>3, <3>1, <3>3, <3>10 DEF CodesOnly
    <3>11. CASE o = "reset" /\ pc[p] = "password" /\ pc'[p] = "drop" /\ answer'[p] = "none"
      BY <1>1, <1>3, <3>1, <3>3, <3>11 DEF CodesOnly
    <3>12. CASE o = "reset" /\ pc[p] = "drop" /\ pc'[p] = "mail" /\ answer'[p] = "none"
                 /\ codes' = [codes EXCEPT ![c].is = "deleted"]
      <4>1. codes'[c].is = "deleted"
        BY <1>2, <3>1, <3>12 DEF Code
      <4> QED  BY <1>1, <1>3, <3>1, <3>3, <3>12, <4>1 DEF CodesOnly
    <3>13. CASE o = "reset" /\ pc[p] = "mail" /\ pc'[p] = "done"
      BY <1>1, <1>3, <3>1, <3>3, <3>13 DEF CodesOnly
    <3> HIDE DEF Known
    <3> QED  BY <1>8, <2>2, <3>1, <3>4, <3>5, <3>6, <3>7, <3>8, <3>9, <3>10, <3>11, <3>12, <3>13,
             CodeMoves
  <2> QED  BY <2>1, <2>2
<1> QED  BY <1>5, <1>6, <1>7, <1>8, Steps

(* A code that is used up is not taken again.                              *)
LEMMA OnceKept ==
    ASSUME BasicInv, CodeInv, OnceInv, [Next]_vars
    PROVE  OnceInv'
<1>1. Steady
  BY Steps, StepsSteady
<1>2. /\ faults \in Nat /\ before \in [Jobs -> SUBSET Jobs]
      /\ \A p \in Jobs : \A q \in before[p] : pc[q] = "done"
      /\ \A p \in Jobs : answer[p] # "none" => pc[p] = "done"
  BY LivesAssumption DEF BasicInv, TypeInv, StageInv, OrderInv
<1>3. req' = req /\ (faults' = 0 => faults = 0)
  BY <1>1, <1>2 DEF Steady
<1> SUFFICES ASSUME NEW p \in Jobs, NEW q \in Jobs, p # q, answer'[p] = "ok", Took(q)',
                    req[p].op = req[q].op, req[p].code = req[q].code
             PROVE  /\ req[p].op = "verify" => p \notin before'[q]
                    /\ req[p].op = "reset" /\ faults' = 0 => p \notin before'[q]
  BY <1>3 DEF OnceInv
<1>4. req[q].op \in CodeOps /\ pc'[q] # "idle"
  <2>1. req[q].op \in CodeOps
    BY <1>3 DEF Took
  <2>2. pc'[q] = "idle" => answer'[q] \in {"ok", "wrong"}
    BY DEF Took
  <2>3. BasicInv'
    BY Steps, StartsBasic, HandlerBasic, FailsBasic, ClosesBasic, AsideBasic
  <2> QED  BY <2>1, <2>2, <2>3 DEF BasicInv, StageInv
(* Both were answered and took the code before.                            *)
<1>5. CASE answer[p] = "ok" /\ Took(q)
  <2>1. pc[q] # "idle"
    BY <1>2, <1>5 DEF Took
  <2> QED  BY <1>1, <1>3, <1>5, <2>1 DEF OnceInv, Steady
(* p is answered now, and q was at work.                                   *)
<1>6. CASE answer[p] # "ok"
  <2>1. pc[p] # "done"
    BY <1>1, <1>6 DEF Steady
  <2>2. \A r \in Jobs : ~Starts(r)
    BY <1>6 DEF Starts
  <2>3. before' = before
    <3>1. \A r \in Jobs : HandlerStep(r) \/ Fails(r) => before' = before
      BY HandlerSteps DEF Fails
    <3>2. CloseStep \/ Aside => before' = before
      BY DEF CloseStep, CloseOthers, Aside
    <3> QED  BY <2>2, <3>1, <3>2, Steps
  <2> QED  BY <1>2, <2>1, <2>3
(* q takes it now, which is still open.                                    *)
<1>7. CASE answer[p] = "ok" /\ ~Took(q)
  <2>1. \A r \in Jobs : ~Starts(r) /\ ~Fails(r)
    <3>1. ASSUME NEW r \in Jobs, Starts(r)
          PROVE  FALSE
      <4>1. r = q
        BY <1>3, <1>7, <3>1 DEF Starts, Took
      <4>2. pc'[q] \in Stages(req[q].op) \ {"idle", "done"} /\ answer'[q] \notin {"ok", "wrong"}
        BY <3>1, <4>1 DEF Starts, BasicInv, StageInv
      <4>3. pc'[q] = "code"
        BY <1>4, <3>1, <4>1 DEF Starts, CodeOps, Stages, HoldsAt
      <4> QED  BY <4>2, <4>3 DEF Took
    <3>2. ASSUME NEW r \in Jobs, Fails(r)
          PROVE  FALSE
      <4>1. r = q
        BY <1>3, <1>7, <3>2 DEF Fails, Took
      <4>2. pc[q] \notin {"block", "close"} /\ pc[q] # "idle"
        BY <1>4, <3>2, <4>1, OpsAt DEF CodeOps, Fails
      <4> QED  BY <1>3, <1>4, <1>7, <3>2, <4>1, <4>2 DEF Fails, Took, PassedOver
    <3> QED  BY <3>1, <3>2
  <2>2. ~CloseStep /\ ~Aside
    BY <1>3, <1>7 DEF CloseStep, CloseOthers, Aside, Took
  <2>3. PICK r \in Jobs : HandlerStep(r)
    BY <2>1, <2>2, Steps
  <2>4. r = q
    BY <1>3, <1>7, <2>3, HandlerHandled DEF Handled, Others, Took
  <2>5. /\ pc[q] \notin {"idle", "done"} /\ faults' = faults /\ before' = before
        /\ pc'[q] = "done" => answer'[q] # "refused"
    BY <2>3, <2>4, HandlerHandled DEF Handled, Took
  <2>6. pc[q] = "code"
    BY <1>4, <1>7, <2>5 DEF Took
  <2>7. Open(req[q].code, req[q].op)
    BY <1>4, <2>3, <2>4, <2>5, <2>6, CodeMoves
  <2>8. Took(p)
    BY <1>4, <1>7 DEF Took
  <2> QED  BY <1>3, <1>7, <2>7, <2>8 DEF CodeInv, Open, LiveCode
<1> QED  BY <1>5, <1>6, <1>7

(* A try is answered as wrong by the step that counts it.                  *)
LEMMA WrongMoves ==
    ASSUME BasicInv, NEW p \in Jobs, HandlerStep(p), req[p].op = "verify", answer'[p] = "wrong"
    PROVE  pc[p] = "retry"
<1>1. pc[p] \in Stages(req[p].op) /\ answer[p] = "none" /\ answer \in [Jobs -> Answers]
  BY HandlerHandled DEF Handled, BasicInv, StageInv, TypeInv, Answers
<1>2. /\ pc[p] = "code" => answer'[p] \in {"none", "refused"}
      /\ pc[p] = "verify" => answer'[p] \in {"none", "ok"}
      /\ pc[p] = "account" => answer'[p] \in {"none", "refused"}
      /\ pc[p] = "log" => answer'[p] = "none"
      /\ pc[p] = "count" => answer'[p] = "ok"
  BY <1>1, ActionAt DEF ReadCode, Verify, FindAccount, CreateSession, CountUnread, GoTo, End
<1> QED  BY <1>1, <1>2 DEF Stages

(* The wrong tries can be counted.                                         *)
LEMMA WrongFinite ==
    ASSUME NEW c
    PROVE  IsFiniteSet(Wrong(c)) /\ Cardinality(Wrong(c)) \in Nat
<1>1. Wrong(c) \subseteq Jobs
  BY DEF Wrong, Tries
<1>2. IsFiniteSet(Wrong(c))
  BY <1>1, FS_Subset, IdsAssumption
<1> QED  BY <1>2, FS_CardinalityType

(* Each try that did not overlap with the others has read what they left.  *)
LEMMA TriesKept ==
    ASSUME BasicInv, CodeInv, TriesInv, [Next]_vars
    PROVE  TriesInv'
<1>1. Steady
  BY Steps, StepsSteady
<1>2. /\ codes \in [Codes -> Code] /\ mine \in [Jobs -> Mine] /\ RetryLimit \in Nat
      /\ \A p \in Jobs : \A q \in before[p] : pc[q] = "done"
      /\ \A p \in Jobs : answer[p] # "none" => pc[p] = "done"
      /\ \A p \in Jobs : req[p].code \in Codes
  BY Held, LivesAssumption DEF BasicInv, TypeInv, StageInv, OrderInv
<1>3. req' = req
  BY <1>1 DEF Steady
<1> SUFFICES ASSUME NEW c \in Codes, Apart(c)'
             PROVE  /\ codes'[c].is # "free" => Cardinality(Wrong(c)') + codes'[c].retry <= RetryLimit
                    /\ \A p \in Jobs : pc'[p] = "retry" /\ req[p].code = c /\ Wrong(c)' \subseteq before'[p] =>
                          Cardinality(Wrong(c)') + mine'[p].left <= RetryLimit
  BY <1>3 DEF TriesInv
<1>4. /\ \A p \in Wrong(c) : p \in Jobs /\ pc[p] = "done" /\ p \in Wrong(c)'
      /\ \A p \in Wrong(c) : codes[c].is # "free"
  <2>1. ASSUME NEW p \in Wrong(c)
        PROVE  p \in Jobs /\ pc[p] = "done" /\ p \in Wrong(c)' /\ codes[c].is # "free"
    <3>1. p \in Jobs /\ req[p].op = "verify" /\ req[p].code = c /\ answer[p] = "wrong"
      BY <2>1 DEF Wrong, Tries
    <3>2. pc[p] = "done" /\ answer'[p] = "wrong"
      BY <1>1, <1>2, <3>1 DEF Steady
    <3>3. Took(p)
      BY <3>1 DEF Took, CodeOps
    <3> QED  BY <1>3, <3>1, <3>2, <3>3 DEF Wrong, Tries, CodeInv
  <2> QED  BY <2>1
<1>5. Apart(c)
  BY <1>1, <1>4, OverlapStays DEF Apart
<1>6. /\ codes[c].is # "free" => Cardinality(Wrong(c)) + codes[c].retry <= RetryLimit
      /\ \A p \in Jobs : pc[p] = "retry" /\ req[p].code = c /\ Wrong(c) \subseteq before[p] =>
            Cardinality(Wrong(c)) + mine[p].left <= RetryLimit
  BY <1>5 DEF TriesInv
(* The steps that count no try of c.                                       *)
<1>7. ASSUME \A p \in Jobs : answer'[p] = "wrong" /\ req[p].op = "verify" /\ req[p].code = c =>
                answer[p] = "wrong"
      PROVE  Wrong(c)' = Wrong(c)
  <2>1. Wrong(c)' \subseteq Wrong(c)
    BY <1>3, <1>7 DEF Wrong, Tries
  <2> QED  BY <1>4, <2>1
<1>8. ASSUME NEW r \in Jobs, Starts(r) \/ Fails(r)
      PROVE  /\ codes'[c].is # "free" => Cardinality(Wrong(c)') + codes'[c].retry <= RetryLimit
             /\ \A p \in Jobs : pc'[p] = "retry" /\ req[p].code = c /\ Wrong(c)' \subseteq before'[p] =>
                   Cardinality(Wrong(c)') + mine'[p].left <= RetryLimit
  <2>1. /\ codes' = codes /\ mine' = mine /\ pc'[r] # "retry"
        /\ \A q \in Jobs \ {r} : pc'[q] \in {pc[q], "done"} /\ before'[q] = before[q]
        /\ \A q \in Jobs : answer'[q] = "wrong" => answer[q] = "wrong"
    BY <1>8 DEF Starts, Fails, PassedOver, BasicInv, TypeInv
  <2>2. Wrong(c)' = Wrong(c)
    BY <1>7, <2>1
  <2> QED  BY <1>6, <2>1, <2>2
<1>9. CASE CloseStep \/ Aside
  <2>1. UNCHANGED <<codes, mine, pc, before, answer>>
    BY <1>9 DEF CloseStep, CloseOthers, Aside
  <2>2. Wrong(c)' = Wrong(c)
    BY <1>7, <2>1
  <2> QED  BY <1>6, <2>1, <2>2
<1>10. ASSUME NEW r \in Jobs, HandlerStep(r)
       PROVE  /\ codes'[c].is # "free" => Cardinality(Wrong(c)') + codes'[c].retry <= RetryLimit
              /\ \A p \in Jobs : pc'[p] = "retry" /\ req[p].code = c /\ Wrong(c)' \subseteq before'[p] =>
                    Cardinality(Wrong(c)') + mine'[p].left <= RetryLimit
  <2>1. /\ before' = before /\ pc[r] \notin {"idle", "done"} /\ answer[r] = "none"
        /\ \A q \in Jobs \ {r} : pc'[q] = pc[q] /\ mine'[q] = mine[q] /\ answer'[q] = answer[q]
    BY <1>10, HandlerHandled DEF Handled, Others
  <2>2. CASE pc[r] = "retry" /\ req[r].code = c
    <3>1. /\ req[r].op = "verify" /\ CountRetry(r)
          /\ codes' = [codes EXCEPT ![c].retry = mine[r].left - 1]
          /\ pc'[r] = "done" /\ answer'[r] = "wrong"
      <4>1. CountRetry(r) /\ req[r].op = "verify"
        BY <1>10, <2>2, ActionAt, OpsAt
      <4>2. pc \in [Jobs -> PCs] /\ answer \in [Jobs -> Answers]
        BY DEF BasicInv, TypeInv, Answers
      <4> QED  BY <2>2, <4>1, <4>2 DEF CountRetry, End
    <3>2. r \in Wrong(c)' /\ r \notin Wrong(c)
      BY <1>3, <2>1, <2>2, <3>1 DEF Wrong, Tries
    <3>3. Wrong(c)' = Wrong(c) \cup {r}
      <4>1. Wrong(c)' \subseteq Wrong(c) \cup {r}
        BY <1>3, <2>1 DEF Wrong, Tries
      <4> QED  BY <1>4, <3>2, <4>1
    <3>4. Wrong(c) \subseteq before[r]
      <4>1. ASSUME NEW q \in Wrong(c)
            PROVE  q \in before[r]
        <5>1. q \in Jobs /\ pc[q] = "done" /\ q \in Wrong(c)' /\ q # r
          BY <1>4, <2>1, <4>1
        <5>2. ~Overlap(q, r)'
          BY <3>2, <5>1 DEF Apart
        <5>3. ~Overlap(q, r)
          BY <1>1, <2>1, <5>1, <5>2, OverlapStays
        <5>4. r \notin before[q]
          BY <1>2, <2>1, <5>1
        <5> QED  BY <2>1, <5>1, <5>3, <5>4 DEF Overlap
      <4> QED  BY <4>1
    <3>5. Cardinality(Wrong(c)) + mine[r].left <= RetryLimit
      BY <1>6, <2>2, <3>4
    <3>6. Cardinality(Wrong(c)') = Cardinality(Wrong(c)) + 1
      BY <3>2, <3>3, WrongFinite, FS_AddElement
    <3>7. codes'[c].retry = mine[r].left - 1 /\ mine[r].left \in Nat
      BY <1>2, <3>1 DEF Code, Mine
    <3>8. Cardinality(Wrong(c)') + codes'[c].retry <= RetryLimit
      <4>1. Cardinality(Wrong(c)) \in Nat
        BY WrongFinite
      <4> QED  BY <1>2, <3>5, <3>6, <3>7, <4>1
    <3>9. ASSUME NEW p \in Jobs, pc'[p] = "retry", Wrong(c)' \subseteq before'[p]
          PROVE  FALSE
      BY <1>2, <2>1, <3>2, <3>9
    <3> QED  BY <3>8, <3>9
  <2>3. CASE ~(pc[r] = "retry" /\ req[r].code = c)
    <3>1. Wrong(c)' = Wrong(c)
      <4>1. answer'[r] = "wrong" /\ req[r].op = "verify" => req[r].code # c
        BY <1>10, <2>3, WrongMoves
      <4> QED  BY <1>7, <2>1, <4>1
    <3>2. codes'[c].is # "free" => Cardinality(Wrong(c)) + codes'[c].retry <= RetryLimit
      <4>1. \/ codes'[c] = codes[c]
            \/ codes[c].is = "free" /\ codes'[c] = NewCode(r)
            \/ codes[c].is # "free" /\ codes'[c].retry = codes[c].retry
        <5>1. CASE \E d \in Codes : codes[d].is = "free" /\ codes' = [codes EXCEPT ![d] = NewCode(r)]
          BY <1>2, <5>1
        <5>2. CASE pc[r] = "retry" /\ codes' = [codes EXCEPT ![req[r].code].retry = mine[r].left - 1]
          BY <1>2, <2>3, <5>2
        <5>3. CASE \/ codes' = [codes EXCEPT ![req[r].code].resend = mine[r].left - 1]
                   \/ codes' = [codes EXCEPT ![req[r].code].verified = TRUE]
                   \/ codes' = [codes EXCEPT ![req[r].code].is = "deleted"]
          <6>1. CASE req[r].code = c
            <7>1. codes'[c].retry = codes[c].retry
              BY <1>2, <5>3, <6>1 DEF Code
            <7>2. CASE pc[r] \in {"resend", "verify", "drop"}
              <8>1. Took(r)
                BY <7>2, OpsAt DEF Took, CodeOps
              <8> QED  BY <6>1, <7>1, <8>1 DEF CodeInv
            <7>3. CASE pc[r] \notin {"resend", "verify", "drop"}
              BY <1>2, <1>10, <2>3, <5>1, <6>1, <7>3, CodeWrites
            <7> QED  BY <7>2, <7>3
          <6>2. CASE req[r].code # c
            BY <1>2, <5>3, <6>2
          <6> QED  BY <6>1, <6>2
        <5> QED  BY <1>10, <5>1, <5>2, <5>3, CodeWrites
      <4>2. CASE codes[c].is = "free" /\ codes'[c] = NewCode(r)
        <5>1. codes'[c].retry = RetryLimit
          BY <4>2 DEF NewCode
        <5>2. Wrong(c) = {}
          BY <1>4, <4>2
        <5> QED  BY <1>2, <5>1, <5>2, FS_EmptySet
      <4> QED  BY <1>6, <4>1, <4>2
    <3>3. ASSUME NEW p \in Jobs, pc'[p] = "retry", req[p].code = c, Wrong(c) \subseteq before[p]
          PROVE  Cardinality(Wrong(c)) + mine'[p].left <= RetryLimit
      <4>1. CASE p # r
        BY <1>6, <2>1, <3>3, <4>1
      <4>2. CASE p = r
        <5>1. req[p].op \in CodeOps
          <6>1. pc'[p] \in Stages(req[p].op)
            BY <1>10, <3>3, <4>2, HandlerHandled DEF Handled
          <6> QED  BY <3>3, <6>1 DEF Stages, CodeOps
        <5>2. Open(c, req[p].op) /\ mine'[p].left = codes[c].retry
          BY <1>10, <3>3, <4>2, <5>1, CodeMoves
        <5> QED  BY <1>6, <5>2 DEF Open, LiveCode
      <4> QED  BY <4>1, <4>2
    <3> QED  BY <2>1, <3>1, <3>2, <3>3
  <2> QED  BY <2>2, <2>3
<1> QED  BY <1>8, <1>9, <1>10, Steps

-----------------------------------------------------------------------------
(* Nothing has begun, and the tables are as requests leave them.           *)
LEMMA InitInvariant ==
    ASSUME Init
    PROVE  IInv
<1>1. PICK w \in Worlds : users = w.users /\ tokens = w.tokens /\ logs = w.logs /\ codes = w.codes
  BY DEF Init
<1>2. /\ users \in [Users -> Row] /\ logs \in [Logs -> Log] /\ codes \in [Codes -> Code]
      /\ \A t \in tokens : t \in Token /\ logs[t.log].is = "used" /\ logs[t.log].user = t.user
      /\ \A u \in Users : users[u].is = "live" => users[u].by # Nobody
      /\ \A c \in Codes : codes[c].is # "free" => codes[c].retry <= RetryLimit
      /\ \A s, r \in Logs :
            /\ s # r /\ logs[s].is = "used" /\ logs[r].is = "used"
            /\ logs[r].device # "none" /\ logs[s].device = logs[r].device
            => ~(logs[s].active /\ logs[r].active)
  BY <1>1, WorldsAssumption
<1>3. /\ pc = [p \in Jobs |-> "idle"] /\ answer = [p \in Jobs |-> "none"]
      /\ before = [p \in Jobs |-> {}] /\ notices = {} /\ closers = {} /\ mails = {} /\ pushes = {}
      /\ faults = 0 /\ clock = 0 /\ req \in Calls /\ DOMAIN token = Jobs
      /\ black = [x \in Stores |-> [s \in Logs |-> NoEntry]]
      /\ mine = [p \in Jobs |-> [user |-> Nobody, row |-> users[First(Users)],
                                 list |-> {}, info |-> {}, left |-> 0]]
  BY DEF Init
<1>4. BasicInv
  <2>1. First(Users) \in Users
    BY FirstIn, IdsAssumption
  <2>2. mine \in [Jobs -> Mine]
    BY <1>2, <1>3, <2>1 DEF Mine, Nobody
  <2>3. 0 \in 0..MaxTime /\ 0 \in 0..MaxFaults
    BY LivesAssumption
  <2>4. req \in [Jobs -> Request]
    BY <1>3, CallsAssumption
  <2>5. TypeInv
    BY <1>2, <1>3, <2>2, <2>3, <2>4 DEF TypeInv, PCs, NoEntry, Entry
  <2>6. TokenInv
    BY <1>2, <1>3 DEF TokenInv, NoEntry
  <2>7. StageInv /\ OrderInv
    BY <1>3 DEF StageInv, OrderInv, Holds, HoldsAt
  <2> QED  BY <2>5, <2>6, <2>7 DEF BasicInv
<1>5. CreatorKnown
  BY <1>2 DEF CreatorKnown, Live
<1>6. OneOpenInv
  BY <1>2 DEF OneOpenInv
<1>7. ClosedInv /\ NoPushAfterLogout /\ LogoutInv /\ InfoInv /\ CodeInv /\ OnceInv
  <2>1. \A i \in Instances, s \in Logs : ~Has(i, s)
    BY <1>3 DEF Has, Stores, NoEntry
  <2> QED  BY <1>3, <2>1
           DEF ClosedInv, NoPushAfterLogout, LogoutInv, InfoInv, CodeInv, OnceInv, Took, Done
<1>8. TriesInv
  <2>1. \A c : Wrong(c) = {}
    BY <1>3 DEF Wrong, Tries
  <2>2. \A c \in Codes : codes[c].is # "free" => Cardinality(Wrong(c)) + codes[c].retry <= RetryLimit
    <3>1. \A c : Cardinality(Wrong(c)) = 0
      BY <2>1, FS_EmptySet
    <3>2. \A c \in Codes : codes[c].retry \in Nat
      BY <1>2 DEF Code
    <3> QED  BY <1>2, <3>1, <3>2
  <2> QED  BY <1>3, <2>2 DEF TriesInv
<1> QED  BY <1>4, <1>5, <1>6, <1>7, <1>8 DEF IInv

(* The inductive invariant: what the handlers, the updates nobody awaits,  *)
(* the listener, failures and time keep of every table and every request.  *)
THEOREM Invariant == Spec => []IInv
<1>1. Init => IInv
  BY InitInvariant
<1>2. IInv /\ [Next]_vars => IInv'
  <2> SUFFICES ASSUME IInv, [Next]_vars
               PROVE  IInv'
    OBVIOUS
  <2>1. BasicInv'
    BY Steps, StartsBasic, HandlerBasic, FailsBasic, ClosesBasic, AsideBasic DEF IInv
  <2>2. CreatorKnown' /\ OneOpenInv' /\ ClosedInv' /\ NoPushAfterLogout'
    BY CreatorKept, OneOpenKept, ClosedKept, NoPushKept DEF IInv
  <2>3. LogoutInv' /\ InfoInv'
    BY LogoutKept, InfoStays DEF IInv
  <2>4. CodeInv' /\ OnceInv' /\ TriesInv'
    BY CodeKept, OnceKept, TriesKept DEF IInv
  <2> QED  BY <2>1, <2>2, <2>3, <2>4 DEF IInv
<1> QED  BY <1>1, <1>2, PTL DEF Spec

(* Every variable has its type: a token names a session that is there and  *)
(* its user, and a request at work has one that was issued.                *)
THEOREM TypeCorrect == Spec => []TypeOK
<1>1. IInv => TypeOK
  BY DEF IInv, BasicInv, TypeInv, TokenInv, TypeOK, Entry
<1> QED  BY <1>1, Invariant, PTL

(* A token that was logged out is refused in every process until it        *)
(* expires, but for logouts of its session that overlapped, that came later*)
(* with a token that expires earlier, or before in another process, which  *)
(* keeps its copy of the list (addToBlackList, isBlackListed).             *)
THEOREM LogoutCorrect == Spec => []StaysLoggedOut
<1>1. IInv => StaysLoggedOut
  <2> SUFFICES ASSUME IInv, NEW p \in Jobs, Done(p, "logout"), clock < token[p].exp, faults = 0,
                      ~LostBy(p), NEW i \in Instances
               PROVE  token[p] \in Listed(i, token[p].log)
    BY DEF StaysLoggedOut, LostBy
  <2>1. /\ clock \in Nat /\ token[p].exp \in Nat /\ token[p].log \in Logs
        /\ black[Redis][token[p].log].until \in Nat
    <3>1. pc[p] = "done"
      BY DEF IInv, BasicInv, StageInv, Done
    <3>2. token[p].exp \in Nat /\ token[p].log \in Logs
      BY <3>1, Held DEF IInv, NeedsToken, Guarded, Done
    <3> QED  BY <3>2, LivesAssumption DEF IInv, BasicInv, TypeInv, Stores, Entry
  <2>2. Kept(p)
    BY DEF IInv, LogoutInv
  <2>3. Has(Redis, token[p].log)
    BY <2>1, <2>2 DEF Kept, Has
  <2> QED  BY <2>2, <2>3 DEF Kept, Listed
<1> QED  BY <1>1, Invariant, PTL

(* What an answered updateSessionInfo wrote is lost to one of the same     *)
(* session only that overlapped with it.                                   *)
THEOREM InfoCorrect == Spec => []InfoKept
<1>1. IInv => InfoKept
  BY DEF IInv, InfoInv, MergedBy, InfoKept
<1> QED  BY <1>1, Invariant, PTL

(* A code is accepted once and tried no more often than the limit says,    *)
(* but by tries that overlap (verifyOtp).                                  *)
THEOREM TriesCorrect == Spec => []TriesBounded
<1>1. IInv => TriesBounded
  <2> SUFFICES ASSUME IInv, NEW c \in Codes
               PROVE  /\ \A p, q \in Tries(c, "ok") : p = q \/ Overlap(p, q)
                      /\ Cardinality(Wrong(c)) <= RetryLimit
                           \/ \E p, q \in Wrong(c) : Overlap(p, q)
    BY DEF TriesBounded, Wrong
  <2>1. ASSUME NEW p \in Tries(c, "ok"), NEW q \in Tries(c, "ok"), p # q
        PROVE  Overlap(p, q)
    <3>1. /\ p \in Jobs /\ q \in Jobs /\ Took(p) /\ Took(q) /\ answer[p] = "ok" /\ answer[q] = "ok"
          /\ req[p].op = "verify" /\ req[q].op = "verify" /\ req[p].code = req[q].code
      BY <2>1 DEF Tries, Took, CodeOps
    <3>2. p \notin before[q] /\ q \notin before[p]
      BY <2>1, <3>1 DEF IInv, OnceInv
    <3>3. pc[p] = "done" /\ pc[q] = "done"
      BY <3>1 DEF IInv, BasicInv, StageInv
    <3> QED  BY <2>1, <3>2, <3>3 DEF Overlap
  <2>2. Apart(c) => Cardinality(Wrong(c)) <= RetryLimit
    <3> SUFFICES ASSUME Apart(c)
                 PROVE  Cardinality(Wrong(c)) <= RetryLimit
      OBVIOUS
    <3>1. CASE codes[c].is # "free"
      <4>1. Cardinality(Wrong(c)) + codes[c].retry <= RetryLimit
        BY <3>1 DEF IInv, TriesInv
      <4>2. codes[c].retry \in Nat /\ Cardinality(Wrong(c)) \in Nat /\ RetryLimit \in Nat
        BY WrongFinite, LivesAssumption DEF IInv, BasicInv, TypeInv, Code
      <4> QED  BY <4>1, <4>2
    <3>2. CASE codes[c].is = "free"
      <4>1. Wrong(c) = {}
        BY <3>2 DEF IInv, CodeInv, Wrong, Tries, Took, CodeOps
      <4> QED  BY <4>1, FS_EmptySet, LivesAssumption
    <3> QED  BY <3>1, <3>2
  <2> QED  BY <2>1, <2>2 DEF Apart
<1> QED  BY <1>1, Invariant, PTL

(* resetPassword changes the password of the user of a code that was       *)
(* verified, and once, but by resets that overlap or after a failure.      *)
THEOREM ResetCorrect == Spec => []ResetByCode
<1>1. IInv => ResetByCode
  <2> SUFFICES ASSUME IInv
               PROVE  ResetByCode
    OBVIOUS
  <2>1. ASSUME NEW c \in Codes, NEW p \in Resets(c)
        PROVE  codes[c].verified /\ \A q \in Resets(c) : p = q \/ Overlap(p, q) \/ faults > 0
    <3>1. \A q \in Resets(c) : /\ q \in Jobs /\ Took(q) /\ answer[q] = "ok" /\ pc[q] = "done"
                               /\ req[q].op = "reset" /\ req[q].code = c
      BY DEF Resets, Done, Took, CodeOps, IInv, BasicInv, StageInv
    <3>2. faults = 0 \/ faults > 0
      BY LivesAssumption DEF IInv, BasicInv, TypeInv
    <3>3. codes[c].verified
      BY <2>1, <3>1 DEF IInv, CodeInv
    <3>4. \A q \in Resets(c) : p = q \/ faults > 0 \/ (p \notin before[q] /\ q \notin before[p])
      BY <2>1, <3>1, <3>2 DEF IInv, OnceInv
    <3> QED  BY <2>1, <3>1, <3>3, <3>4 DEF Overlap
  <2>2. ASSUME NEW p \in Jobs, pc[p] = "password", req[p].op = "reset"
        PROVE  mine[p].user = codes[req[p].code].user /\ codes[req[p].code].verified
    BY <2>2 DEF IInv, CodeInv, Took, CodeOps
  <2> QED  BY <2>1, <2>2 DEF ResetByCode
<1> QED  BY <1>1, Invariant, PTL

(* A user is left without a creator by a failure only (createUser).        *)
THEOREM CreatorCorrect == Spec => []CreatorKnown
<1>1. IInv => CreatorKnown
  BY DEF IInv
<1> QED  BY <1>1, Invariant, PTL

(* A push is not sent to a session that was logged out before the message. *)
THEOREM PushCorrect == Spec => []NoPushAfterLogout
<1>1. IInv => NoPushAfterLogout
  BY DEF IInv
<1> QED  BY <1>1, Invariant, PTL

(* With no update of doAfterCreate under way, a device has one open        *)
(* session at most.                                                        *)
THEOREM DeviceCorrect == Spec => []OneOpenPerDevice
<1>1. IInv => OneOpenPerDevice
  <2>1. \A s, r \in Logs : s < r => s # r
    BY IdsAssumption
  <2> QED  BY <2>1 DEF IInv, OneOpenInv, OneOpenPerDevice
<1> QED  BY <1>1, Invariant, PTL

=============================================================================
