------------------------------ MODULE Sessions ------------------------------
(***************************************************************************)
(* Login, logout, refresh and login on behalf of another user.  A session  *)
(* is a login log in Mongo; it issues JWTs as long as it is active.        *)
(***************************************************************************)
EXTENDS Handlers

VARIABLES logs,     \* login logs
          closers   \* updates of doAfterCreate that nobody awaits

Log == [is : {"free", "used"}, user : Users, device : Devices, active : BOOLEAN,
        until : Nat, info : SUBSET Jobs]

FreeLogs == {s \in Logs : logs[s].is = "free"}

-----------------------------------------------------------------------------
(* LocalAuthService.validateUser: the row and the hash are compared as they*)
(* were read; the save of last_login_at changes nothing else.              *)
FindLogin(p) ==
    /\ pc[p] = "login"
    /\ LET found == WithEmail(req[p].email)
           u == First(found)
       IN IF found # {} /\ users[u].pw = req[p].pw /\ users[u].active
          THEN /\ mine' = [mine EXCEPT ![p].user = u, ![p].row = users[u]]
               /\ GoTo(p, "stamp")
          ELSE End(p, "refused") /\ mine' = mine
    /\ UNCHANGED <<users, tokens, black, notices, logs, closers>>

(* LocalAuthController.localLogin: a code first for those who want two     *)
(* factors.                                                                *)
LocalLogin(p) ==
    /\ pc[p] = "stamp"
    /\ GoTo(p, IF mine[p].row.tfa THEN "otp" ELSE "log")
    /\ UNCHANGED <<users, tokens, black, mine, notices, logs, closers>>

(* createUserSession: for an admin (not on behalf of another admin), or    *)
(* with the code of the second factor.                                     *)
FindAccount(p) ==
    /\ pc[p] = "account"
    /\ LET u == IF req[p].op = "loginAs" THEN req[p].user ELSE mine[p].user
       IN IF MayEnter(u) /\ (req[p].op = "loginAs" => ~users[u].admin)
          THEN mine' = [mine EXCEPT ![p].user = u] /\ GoTo(p, "log")
          ELSE mine' = mine /\ End(p, "refused")
    /\ UNCHANGED <<users, tokens, black, notices, logs, closers>>

(* Mutant: on behalf of another, the log names the admin.                  *)
LogOfAdmin(p, device) ==
    [is |-> "used", user |-> IF req[p].op = "loginAs" THEN token[p].user ELSE mine[p].user,
     device |-> device, active |-> TRUE, until |-> clock + RefreshLife, info |-> {}]

(* createSession, with LoginLogService.doAfterCreate: the log, the update  *)
(* that closes the older sessions of its device, and the token.            *)
NewLog(p, device) ==
    [is |-> "used", user |-> mine[p].user, device |-> device, active |-> TRUE,
     until |-> clock + RefreshLife, info |-> {}]

CreateSession(p) ==
    LET s == First(FreeLogs)
        device == IF req[p].op = "loginAs" THEN "none" ELSE req[p].device
    IN /\ pc[p] = "log" /\ FreeLogs # {}
       /\ logs' = [logs EXCEPT ![s] = NewLog(p, device)]
       /\ closers' = IF device = "none" THEN closers
                     ELSE closers \cup {[log |-> s, job |-> p]}
       /\ CreateToken(s, mine[p].user)
       /\ GoTo(p, "count")
       /\ UNCHANGED <<users, black, mine, notices>>

(* getUnreadMessagesCount.                                                 *)
CountUnread(p) ==
    /\ pc[p] = "count" /\ End(p, "ok")
    /\ UNCHANGED <<users, tokens, black, mine, notices, logs, closers>>

(* Mutant: the older sessions of the same user only.                       *)
CloseOwn(c) ==
    /\ c \in closers /\ closers' = closers \ {c}
    /\ logs' = [s \in Logs |->
         IF s # c.log /\ logs[s].is = "used" /\ logs[s].device = logs[c.log].device
              /\ logs[s].user = logs[c.log].user
         THEN [logs[s] EXCEPT !.active = FALSE] ELSE logs[s]]
    /\ UNCHANGED <<clock, users, tokens, black, req, pc, token, mine, answer, before, notices, faults>>

(* updateBulkRecords of doAfterCreate: the other sessions of the device.   *)
CloseOthers(c) ==
    /\ c \in closers /\ closers' = closers \ {c}
    /\ logs' = [s \in Logs |->
         IF s # c.log /\ logs[s].is = "used" /\ logs[s].device = logs[c.log].device
         THEN [logs[s] EXCEPT !.active = FALSE] ELSE logs[s]]
    /\ UNCHANGED <<clock, users, tokens, black, req, pc, token, mine, answer, before, notices, faults>>

-----------------------------------------------------------------------------
(* TokenStrategy.validate.                                                 *)
FindRefresh(p) ==
    /\ pc[p] = "refresh"
    /\ LET s == req[p].log
       IN IF logs[s].is = "used" /\ logs[s].active /\ clock < logs[s].until
          THEN GoTo(p, "owner") ELSE End(p, "refused")
    /\ UNCHANGED <<users, tokens, black, mine, notices, logs, closers>>

(* The user, then getNewToken: the expired token it is given must be of    *)
(* the same session (Begin); a user of a session never changes.            *)
GetNewToken(p) ==
    LET s == req[p].log
    IN /\ pc[p] = "owner"
       /\ IF MayEnter(logs[s].user)
          THEN CreateToken(s, logs[s].user) /\ End(p, "ok")
          ELSE tokens' = tokens /\ End(p, "refused")
       /\ UNCHANGED <<users, black, mine, notices, logs, closers>>

(* updateSessionInfo: info is read, merged and saved whole.                *)
ReadInfo(p) ==
    /\ pc[p] = "info"
    /\ mine' = [mine EXCEPT ![p].info = logs[token[p].log].info]
    /\ GoTo(p, "merge")
    /\ UNCHANGED <<users, tokens, black, notices, logs, closers>>

(* Mutant: the info is replaced.                                           *)
ReplaceInfo(p) ==
    /\ pc[p] = "merge"
    /\ logs' = [logs EXCEPT ![token[p].log].info = {p}]
    /\ End(p, "ok")
    /\ UNCHANGED <<users, tokens, black, mine, notices, closers>>

SaveInfo(p) ==
    /\ pc[p] = "merge"
    /\ logs' = [logs EXCEPT ![token[p].log].info = mine[p].info \cup {p}]
    /\ End(p, "ok")
    /\ UNCHANGED <<users, tokens, black, mine, notices, closers>>

-----------------------------------------------------------------------------
(* clearSession: the log, whatever comes of it; then the blacklist.        *)
CloseLog(p) ==
    /\ pc[p] = "close"
    /\ logs' = [logs EXCEPT ![token[p].log].active = FALSE]
    /\ GoTo(p, "list")
    /\ UNCHANGED <<users, tokens, black, mine, notices, closers>>

(* addToBlackList reads the list of the session, as its process sees it ...*)
ReadList(p) ==
    /\ pc[p] = "list"
    /\ mine' = [mine EXCEPT ![p].list = Listed(Host[p], token[p].log)]
    /\ GoTo(p, "block")
    /\ UNCHANGED <<users, tokens, black, notices, logs, closers>>

(* The end of the day on which a token expires.                            *)
EndOfDay(t) == (t \div Day + 1) * Day

(* The entry that p makes of a list, in the stores X.                      *)
Put(p, X, list) ==
    black' = [x \in Stores |-> IF x \in X
                THEN [black[x] EXCEPT ![token[p].log] =
                        [tokens |-> list, until |-> EndOfDay(token[p].exp)]]
                ELSE black[x]]

(* Mutant: the list is replaced.                                           *)
WriteToken(p) ==
    /\ pc[p] = "block"
    /\ Put(p, {Host[p], Redis}, {token[p]})
    /\ End(p, "ok")
    /\ UNCHANGED <<users, tokens, mine, notices, logs, closers>>

(* ... and writes it back to both stores, for as long as this token needs. *)
WriteList(p) ==
    /\ pc[p] = "block"
    /\ Put(p, {Host[p], Redis}, mine[p].list \cup {token[p]})
    /\ End(p, "ok")
    /\ UNCHANGED <<users, tokens, mine, notices, logs, closers>>

-----------------------------------------------------------------------------
(* The handlers.                                                           *)
Login(p) == FindLogin(p) \/ LocalLogin(p)
Enter(p) == CreateSession(p) \/ CountUnread(p)
LoginAs(p) == req[p].op = "loginAs" /\ FindAccount(p)
Refresh(p) == FindRefresh(p) \/ GetNewToken(p)
UpdateInfo(p) == ReadInfo(p) \/ SaveInfo(p)
Logout(p) == CloseLog(p) \/ ReadList(p) \/ WriteList(p)

SessionStep(p) == Login(p) \/ Enter(p) \/ LoginAs(p) \/ Refresh(p) \/ UpdateInfo(p) \/ Logout(p)
=============================================================================
