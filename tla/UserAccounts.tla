---------------------------- MODULE UserAccounts ----------------------------
(***************************************************************************)
(* UserService: registration, users that a user adds, edits, removes, and  *)
(* passwords.                                                              *)
(***************************************************************************)
EXTENDS Handlers

FreeUsers == {u \in Users : users[u].is = "free"}

(* @IsUnique on the e-mail, before the handler.                            *)
ValidateEmail(p) ==
    /\ pc[p] = "unique"
    /\ IF WithEmail(req[p].email) = {} THEN GoTo(p, "insert") ELSE End(p, "refused")
    /\ UNCHANGED <<users, tokens, black, mine, notices>>

(* create: role User from registration; uid, name and hash by the hooks of *)
(* the entity.  createUser has no owner when one registers.                *)
NewUser(p, by) == [is |-> "live", email |-> req[p].email, pw |-> req[p].pw,
                   active |-> TRUE, by |-> by, admin |-> FALSE, tfa |-> FALSE,
                   mail |-> TRUE]

CreateUser(p) ==
    LET u == First(FreeUsers)
        own == req[p].op = "register"
    IN /\ pc[p] = "insert" /\ FreeUsers # {}
       /\ users' = [users EXCEPT ![u] = NewUser(p, IF own THEN Nobody ELSE mine[p].user)]
       /\ mine' = IF own THEN [mine EXCEPT ![p].user = u] ELSE mine
       /\ IF own THEN GoTo(p, "own") ELSE End(p, "ok")
       /\ UNCHANGED <<tokens, black, notices>>

(* Mutant: nobody is made the creator.                                     *)
OwnNobody(p) ==
    /\ pc[p] = "own" /\ users' = users
    /\ notices' = notices \cup {Notice(p, mine[p].user, "welcome_email")}
    /\ End(p, "ok")
    /\ UNCHANGED <<tokens, black, mine>>

(* ... and is made one's own creator by a second update.  The welcome mail *)
(* is not awaited.                                                         *)
OwnUser(p) ==
    /\ pc[p] = "own"
    /\ users' = [users EXCEPT ![mine[p].user].by = mine[p].user]
    /\ notices' = notices \cup {Notice(p, mine[p].user, "welcome_email")}
    /\ End(p, "ok")
    /\ UNCHANGED <<tokens, black, mine>>

(* update and delete by uid: admins, and the creator of the user.          *)
FindTarget(p) ==
    LET u == req[p].user
    IN /\ pc[p] = "target"
       /\ IF Live(u) /\ (mine[p].row.admin \/ users[u].by = mine[p].user)
          THEN GoTo(p, "write") ELSE End(p, "refused")
       /\ UNCHANGED <<users, tokens, black, mine, notices>>

(* super.update by id: of a user found before, or of oneself (PUT me).  It *)
(* reads and saves (SqlRecords); here the column that sign-in looks at.    *)
UpdateUser(p) ==
    LET u == IF req[p].op = "me" THEN mine[p].user ELSE req[p].user
    IN /\ pc[p] = "write" /\ req[p].op \in {"edit", "me"}
       /\ IF Live(u)
          THEN users' = [users EXCEPT ![u].active = req[p].on] /\ End(p, "ok")
          ELSE users' = users /\ End(p, "refused")
       /\ UNCHANGED <<tokens, black, mine, notices>>

(* The handler of DELETE also asks that one has created the user.          *)
DeleteUser(p) ==
    LET u == req[p].user
    IN /\ pc[p] = "write" /\ req[p].op = "remove"
       /\ IF Live(u) /\ users[u].by = mine[p].user
          THEN users' = [users EXCEPT ![u].is = "deleted"] /\ End(p, "ok")
          ELSE users' = users /\ End(p, "refused")
       /\ UNCHANGED <<tokens, black, mine, notices>>

(* changePassword compares the old password with the row that the guard    *)
(* read; resetPassword has its code.  Then both hash, and update.          *)
FindUser(p) ==
    /\ pc[p] = "old"
    /\ IF /\ req[p].op = "change" => req[p].old = mine[p].row.pw
          /\ Live(mine[p].user)
       THEN GoTo(p, "password") ELSE End(p, "refused")
    /\ UNCHANGED <<users, tokens, black, mine, notices>>

SavePassword(p) ==
    /\ pc[p] = "password"
    /\ users' = [users EXCEPT ![mine[p].user].pw = req[p].pw]
    /\ GoTo(p, IF req[p].op = "reset" THEN "drop" ELSE "mail")
    /\ UNCHANGED <<tokens, black, mine, notices>>

Register(p) == req[p].op = "register" /\ (ValidateEmail(p) \/ CreateUser(p) \/ OwnUser(p))
AddUser(p) == req[p].op = "add" /\ (ValidateEmail(p) \/ CreateUser(p))
EditUser(p) == req[p].op = "edit" /\ (FindTarget(p) \/ UpdateUser(p))
EditMe(p) == req[p].op = "me" /\ UpdateUser(p)
RemoveUser(p) == req[p].op = "remove" /\ (FindTarget(p) \/ DeleteUser(p))
ChangePassword(p) == FindUser(p) \/ SavePassword(p)

UserStep(p) == Register(p) \/ AddUser(p) \/ EditUser(p) \/ EditMe(p) \/ RemoveUser(p) \/ ChangePassword(p)
=============================================================================
