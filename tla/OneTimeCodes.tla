---------------------------- MODULE OneTimeCodes ----------------------------
(***************************************************************************)
(* Codes sent by mail: for a second factor, and for a forgotten password.  *)
(* An otp session is a document in Mongo; each request on it reads it,     *)
(* decides, and saves after an await the one field it changed.             *)
(***************************************************************************)
EXTENDS Sessions

VARIABLES codes     \* otp sessions

Code == [is : {"free", "live", "deleted"}, user : Users, type : {"Login", "Forgot"},
         verified : BOOLEAN, retry : Nat, resend : Nat, until : Nat, device : Devices]

LiveCode(c) == codes[c].is = "live"

-----------------------------------------------------------------------------
(* verifyEmail.                                                            *)
VerifyEmail(p) ==
    /\ pc[p] = "email"
    /\ LET found == WithEmail(req[p].email)
           u == First(found)
       IN IF found # {} /\ users[u].active
          THEN mine' = [mine EXCEPT ![p].user = u] /\ GoTo(p, "otp")
          ELSE mine' = mine /\ End(p, "refused")
    /\ UNCHANGED <<users, tokens, black, notices, logs, closers, codes>>

(* createOtpSession and forgotOtp: the same document but for its type, and *)
(* a mail for a forgotten password only.                                   *)
NewCode(p) == [is |-> "live", user |-> mine[p].user,
               type |-> IF req[p].op = "login" THEN "Login" ELSE "Forgot",
               verified |-> FALSE, retry |-> RetryLimit, resend |-> ResendLimit,
               until |-> clock + CodeLife, device |-> req[p].device]

CreateCode(p) ==
    LET free == {c \in Codes : codes[c].is = "free"}
    IN /\ pc[p] = "otp" /\ free # {}
       /\ codes' = [codes EXCEPT ![First(free)] = NewCode(p)]
       /\ IF req[p].op = "login" THEN End(p, "ok") ELSE GoTo(p, "mail")
       /\ UNCHANGED <<users, tokens, black, mine, notices, logs, closers>>

(* Mutant: the limits are not looked at.                                   *)
OpenNoLimit(c, op) ==
    /\ LiveCode(c) /\ clock < codes[c].until
    /\ IF op = "reset" THEN codes[c].verified ELSE ~codes[c].verified

(* Mutant: a code resets the password before it is verified.               *)
OpenUnverified(c, op) ==
    /\ LiveCode(c) /\ clock < codes[c].until
    /\ CASE op = "verify" -> ~codes[c].verified /\ codes[c].retry > 0
         [] op = "send" -> ~codes[c].verified /\ codes[c].resend > 0
         [] op = "reset" -> TRUE

(* What the session of a code must be for each request: not expired, and   *)
(* not used up (verifyOtp, sendOtp) or verified (resetPassword).           *)
Open(c, op) ==
    /\ LiveCode(c) /\ clock < codes[c].until
    /\ CASE op = "verify" -> ~codes[c].verified /\ codes[c].retry > 0
         [] op = "send" -> ~codes[c].verified /\ codes[c].resend > 0
         [] op = "reset" -> codes[c].verified

ReadCode(p) ==
    LET c == req[p].code  op == req[p].op
    IN /\ pc[p] = "code"
       /\ IF Open(c, op)
          THEN /\ mine' = [mine EXCEPT ![p].user = codes[c].user,
                             ![p].left = IF op = "send" THEN codes[c].resend
                                                        ELSE codes[c].retry]
               /\ GoTo(p, CASE op = "send" -> "resend"
                            [] op = "reset" -> "old"
                            [] OTHER -> IF req[p].right THEN "verify" ELSE "retry")
          ELSE mine' = mine /\ End(p, "refused")
       /\ UNCHANGED <<users, tokens, black, notices, logs, closers, codes>>

(* verifyOtp, wrong code: one try less than were read.                     *)
CountRetry(p) ==
    /\ pc[p] = "retry"
    /\ codes' = [codes EXCEPT ![req[p].code].retry = mine[p].left - 1]
    /\ End(p, "wrong")
    /\ UNCHANGED <<users, tokens, black, mine, notices, logs, closers>>

(* Right code: verified; AuthController.verifyOtp opens the session that a *)
(* Login code was asked for.                                               *)
Verify(p) ==
    /\ pc[p] = "verify"
    /\ codes' = [codes EXCEPT ![req[p].code].verified = TRUE]
    /\ IF codes[req[p].code].type = "Login" THEN GoTo(p, "account") ELSE End(p, "ok")
    /\ UNCHANGED <<users, tokens, black, mine, notices, logs, closers>>

OpenSession(p) == req[p].op = "verify" /\ FindAccount(p) /\ UNCHANGED codes

(* sendOtp: one sending less than were read.                               *)
CountResend(p) ==
    /\ pc[p] = "resend"
    /\ codes' = [codes EXCEPT ![req[p].code].resend = mine[p].left - 1]
    /\ GoTo(p, "mail")
    /\ UNCHANGED <<users, tokens, black, mine, notices, logs, closers>>

(* resetPassword, when the password is saved: the code is deleted, whatever*)
(* comes of it.                                                            *)
DropCode(p) ==
    /\ pc[p] = "drop"
    /\ codes' = [codes EXCEPT ![req[p].code].is = "deleted"]
    /\ GoTo(p, "mail")
    /\ UNCHANGED <<users, tokens, black, mine, notices, logs, closers>>

ForgotPassword(p) == VerifyEmail(p) \/ (req[p].op = "forgot" /\ CreateCode(p))
SecondFactor(p) == req[p].op = "login" /\ CreateCode(p)
SendOtp(p) == (req[p].op = "send" /\ ReadCode(p)) \/ CountResend(p)
VerifyOtp(p) == \/ req[p].op = "verify" /\ ReadCode(p)
                \/ CountRetry(p) \/ Verify(p) \/ OpenSession(p)
ResetPassword(p) == (req[p].op = "reset" /\ ReadCode(p)) \/ DropCode(p)

CodeStep(p) == ForgotPassword(p) \/ SecondFactor(p) \/ SendOtp(p) \/ VerifyOtp(p) \/ ResetPassword(p)
=============================================================================
