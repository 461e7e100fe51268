----------------------------- MODULE MCAccounts -----------------------------
(***************************************************************************)
(* Instance of Accounts: an admin, a user with an open session and an      *)
(* employee with a second factor; every pair of requests, and the triples  *)
(* that a property needs.                                                  *)
(***************************************************************************)
EXTENDS Accounts, Sequences

CONSTANTS p1, p2, p3, i1, i2

(* p1 and p3 meet in one process.                                          *)
MCHost == [p \in Jobs |-> IF p = p2 THEN i2 ELSE i1]

MCEmails == {"admin", "user", "employee", "new"}
MCDevices == {"none", "phone"}
MCTemplates == {"forgot_password", "2fa_otp", "welcome_email"}

Person(e, by, admin, tfa) ==
    [is |-> "live", email |-> e, pw |-> "old", active |-> TRUE, by |-> by,
     admin |-> admin, tfa |-> tfa, mail |-> ~admin]
FreeUser == [Person("new", 0, FALSE, FALSE) EXCEPT !.is = "free"]

UsedLog(u) == [is |-> "used", user |-> u, device |-> "phone", active |-> TRUE,
               until |-> 3, info |-> {}]
SomeCode(u, type) == [is |-> "live", user |-> u, type |-> type, verified |-> FALSE,
                      retry |-> RetryLimit, resend |-> ResendLimit, until |-> 2,
                      device |-> "phone"]

MCWorlds == {[users |-> [u \in Users |-> CASE u = 1 -> Person("admin", 1, TRUE, FALSE)
                                            [] u = 2 -> Person("user", 1, FALSE, FALSE)
                                            [] u = 3 -> Person("employee", 2, FALSE, TRUE)
                                            [] OTHER -> FreeUser],
              logs |-> [s \in Logs |-> CASE s = 1 -> UsedLog(2)
                                         [] s = 2 -> [UsedLog(1) EXCEPT !.device = "none"]
                                         [] OTHER -> [UsedLog(1) EXCEPT !.is = "free"]],
              codes |-> [c \in Codes |-> CASE c = 1 -> SomeCode(2, "Forgot")
                                           [] c = 2 -> SomeCode(3, "Login")
                                           [] OTHER -> [SomeCode(2, "Login") EXCEPT !.is = "free"]],
              tokens |-> {[log |-> 1, user |-> 2, exp |-> 1], [log |-> 1, user |-> 2, exp |-> 3],
                          [log |-> 2, user |-> 1, exp |-> 3]}]}

None == [op |-> "none", log |-> 1, email |-> "new", user |-> 3, pw |-> "old",
         old |-> "old", device |-> "none", code |-> 1, right |-> TRUE, on |-> FALSE]
Ask(o) == [None EXCEPT !.op = o]
LoginAt(e, d) == [Ask("login") EXCEPT !.email = e, !.device = d]
Try(c, r) == [Ask("verify") EXCEPT !.code = c, !.right = r]

Reset(new) == [Ask("reset") EXCEPT !.pw = new]
MessageTo(u) == [Ask("message") EXCEPT !.user = u]

Requests ==
    <<Ask("refresh"), Ask("logout"), Ask("info"), Ask("register"), Ask("add"),
      Ask("me"), Ask("edit"), Ask("remove"), Ask("send"), MessageTo(2),
      LoginAt("admin", "phone"), LoginAt("employee", "phone"),
      [Ask("loginAs") EXCEPT !.log = 2, !.user = 2],
      [Ask("forgot") EXCEPT !.email = "user"],
      Try(1, TRUE), Try(1, FALSE), Try(2, TRUE), Reset("new"),
      [Ask("change") EXCEPT !.pw = "new"]>>

Triples == {<<[LoginAt("user", "phone") EXCEPT !.pw = "new"], Ask("info"), None>>,
            <<[Ask("edit") EXCEPT !.log = 2, !.user = 2], Ask("refresh"), None>>,
            <<Ask("logout"), Ask("logout"), Ask("logout")>>,
            <<Try(1, FALSE), Try(1, FALSE), Try(1, TRUE)>>,
            <<Try(1, TRUE), Reset("new"), Reset("old")>>}

(* The jobs are alike, so that the order of a pair does not matter.        *)
Pairs == UNION {{<<Requests[i], Requests[j], None>> : j \in i..Len(Requests)} :
                  i \in DOMAIN Requests}

MCCalls == {[p \in Jobs |-> IF p = p1 THEN t[1] ELSE IF p = p2 THEN t[2] ELSE t[3]] :
               t \in Pairs \cup Triples}
=============================================================================
