------------------------------- MODULE Accounts -------------------------------
(***************************************************************************)
(* User accounts: the requests of the user pages (webapp/views/users.py),  *)
(* who may make them (webapp/perms.py), the account that the setup command *)
(* creates and the sessions of the users.                                  *)
(*                                                                         *)
(* A request reads its target, counts the remaining administrators, saves  *)
(* the account and then its row of permissions, each in a query of its own *)
(* and without a transaction, so two requests interleave between any two   *)
(* of them.  Of the four permissions only can_manage_users is kept: the    *)
(* others admit to other pages.                                            *)
(***************************************************************************)
EXTENDS Naturals, FiniteSets

CONSTANTS
    Users,    \* primary keys, which SQLite does not use twice
    Threads,  \* threads that serve requests, of any worker
    NoUser

ASSUME AccountsAssumption == NoUser \notin Users

VARIABLES
    status,     \* of each key: "free", "exists" or "deleted"
    superuser,  \* is_superuser (and is_staff)
    active,     \* is_active
    perms,      \* the UserPermission row: "none", or can_manage_users as
                \* "manages" or "plain"
    request     \* the request that each thread handles, with a history variable:
                \* disturbed, another request has changed who is an administrator
                \* since this one read its target

vars == <<status, superuser, active, perms, request>>

\* What a form says of an account; an administrator's permissions are ignored.
Forms == {f \in [admin : BOOLEAN, active : BOOLEAN, manages : BOOLEAN] :
            f.admin => ~f.manages}
NoForm == [admin |-> FALSE, active |-> FALSE, manages |-> FALSE]

Idle == [pc |-> "idle", action |-> "none", target |-> NoUser, form |-> NoForm,
         disturbed |-> FALSE]

TypeOK ==
    /\ status \in [Users -> {"free", "exists", "deleted"}]
    /\ superuser \in [Users -> BOOLEAN]
    /\ active \in [Users -> BOOLEAN]
    /\ perms \in [Users -> {"none", "manages", "plain"}]
    /\ request \in [Threads ->
         [pc : {"idle", "get", "count", "save", "row", "fill"},
          action : {"none", "update", "delete", "password"},
          target : Users \cup {NoUser}, form : Forms, disturbed : BOOLEAN]]
    /\ \A t \in Threads : request[t].pc # "idle" => request[t].target \in Users

Existing == {u \in Users : status[u] = "exists"}
Admins == {u \in Existing : superuser[u]}

\* user_has_perm(user, 'can_manage_users'), of the row read at dispatch.
MayManage(u) == u \in Existing /\ (superuser[u] \/ perms[u] = "manages")

\* Before the setup command, or after it.
Init ==
    /\ status \in [Users -> {"free", "exists"}]
    /\ \A u, v \in Existing : u = v
    /\ superuser = [u \in Users |-> status[u] = "exists"]
    /\ active = [u \in Users |-> status[u] = "exists"]
    /\ perms = [u \in Users |-> "none"]
    /\ request = [t \in Threads |-> Idle]

Answered(t) == [request EXCEPT ![t] = Idle]
Answer(t) == request' = Answered(t)

\* The other requests that have read their target work on what they have read.
Disturbing(t, requests) ==
    [u \in Threads |->
       IF u = t \/ request[u].pc \in {"idle", "get"} THEN requests[u]
                                                     ELSE [requests[u] EXCEPT !.disturbed = TRUE]]

-----------------------------------------------------------------------------
(* Creating an account.                                                    *)

Created(u, admin, row) ==
    /\ status[u] = "free"
    /\ status' = [status EXCEPT ![u] = "exists"]
    /\ superuser' = [superuser EXCEPT ![u] = admin]
    /\ active' = [active EXCEPT ![u] = TRUE]
    /\ perms' = [perms EXCEPT ![u] = row]

\* action == 'create': nothing reads the new account before its permissions
\* are there, so this is one step.
Create(actor, u, form) ==
    /\ MayManage(actor)
    /\ Created(u, form.admin, IF form.admin THEN "none"
                              ELSE IF form.manages THEN "manages" ELSE "plain")
    /\ UNCHANGED request

\* The setup command: an administrator if there is none.
Setup(u) ==
    /\ Admins = {}
    /\ Created(u, TRUE, "none")
    /\ UNCHANGED request

-----------------------------------------------------------------------------
(* Changing one: UsersView.post and UserEditView.post.                     *)

\* PermissionRequiredMixin.dispatch.  Of the own account a user may change the
\* e-mail address only, which is not modelled.
Dispatch(t, action, actor, u, form) ==
    /\ request[t] = Idle
    /\ MayManage(actor)
    /\ u # actor /\ status[u] # "free"
    /\ request' = [request EXCEPT ![t] = [pc |-> "get", action |-> action,
                     target |-> u, form |-> form, disturbed |-> FALSE]]
    /\ UNCHANGED <<status, superuser, active, perms>>

\* The target would be demoted or deleted.
Removes(r) == r.action = "delete" \/ (r.action = "update" /\ ~r.form.admin)

\* User.objects.get(pk=user_id)
Get(t) ==
    /\ request[t].pc = "get"
    /\ LET u == request[t].target
       IN  IF u \notin Existing THEN Answer(t)
             ELSE request' = [request EXCEPT ![t].pc =
                    IF superuser[u] /\ Removes(request[t]) THEN "count" ELSE "save"]
    /\ UNCHANGED <<status, superuser, active, perms>>

\* Mutant: the account to be removed is not excluded from the count.
Count_Itself(t) ==
    /\ request[t].pc = "count"
    /\ IF Admins = {} THEN Answer(t)
                      ELSE request' = [request EXCEPT ![t].pc = "save"]
    /\ UNCHANGED <<status, superuser, active, perms>>

\* remaining: the other administrators, disabled ones included.
Count(t) ==
    /\ request[t].pc = "count"
    /\ IF Admins \ {request[t].target} = {}
         THEN Answer(t)
         ELSE request' = [request EXCEPT ![t].pc = "save"]
    /\ UNCHANGED <<status, superuser, active, perms>>

\* The requests after t has saved the form of its request; the permissions of
\* an administrator are left alone.
Saved(t) ==
    LET r == request[t]
        next == IF r.form.admin THEN Answered(t) ELSE [request EXCEPT ![t].pc = "row"]
    IN  IF superuser[r.target] = r.form.admin THEN next ELSE Disturbing(t, next)

\* Mutant: save() without update_fields inserts the row again if it is gone.
SaveUpdate_AllFields(t) ==
    /\ request[t].pc = "save" /\ request[t].action = "update"
    /\ LET r == request[t]
       IN  /\ status' = [status EXCEPT ![r.target] = "exists"]
           /\ superuser' = [superuser EXCEPT ![r.target] = r.form.admin]
           /\ active' = [active EXCEPT ![r.target] = r.form.active]
    /\ request' = Saved(t)
    /\ UNCHANGED perms

\* save(update_fields=[...]) raises if the row is gone.
SaveUpdate(t) ==
    /\ request[t].pc = "save" /\ request[t].action = "update"
    /\ LET r == request[t]
       IN  IF r.target \notin Existing
             THEN Answer(t) /\ UNCHANGED <<superuser, active>>
             ELSE /\ superuser' = [superuser EXCEPT ![r.target] = r.form.admin]
                  /\ active' = [active EXCEPT ![r.target] = r.form.active]
                  /\ request' = Saved(t)
    /\ UNCHANGED <<status, perms>>

\* _save_permissions: get_or_create fails if the account is gone.
GetRow(t) ==
    /\ request[t].pc = "row"
    /\ LET u == request[t].target
       IN  IF u \notin Existing
             THEN Answer(t) /\ UNCHANGED perms
             ELSE /\ perms' = [perms EXCEPT ![u] = IF @ = "none" THEN "plain" ELSE @]
                  /\ request' = [request EXCEPT ![t].pc = "fill"]
    /\ UNCHANGED <<status, superuser, active>>

\* row.save(): if the row has gone with the account, its insert fails.
FillRow(t) ==
    /\ request[t].pc = "fill"
    /\ LET r == request[t]
       IN  IF r.target \notin Existing THEN UNCHANGED perms
             ELSE perms' = [perms EXCEPT ![r.target] = IF r.form.manages THEN "manages"
                                                                         ELSE "plain"]
    /\ Answer(t)
    /\ UNCHANGED <<status, superuser, active>>

\* set_password and save(update_fields=['password']) touch nothing else here.
SavePassword(t) ==
    /\ request[t].pc = "save" /\ request[t].action = "password"
    /\ Answer(t)
    /\ UNCHANGED <<status, superuser, active, perms>>

\* user.delete(): the account and its permissions, in one transaction.
Delete(t) ==
    /\ request[t].pc = "save" /\ request[t].action = "delete"
    /\ LET u == request[t].target
       IN  /\ status' = [status EXCEPT ![u] = "deleted"]
           /\ superuser' = [superuser EXCEPT ![u] = FALSE]
           /\ active' = [active EXCEPT ![u] = FALSE]
           /\ perms' = [perms EXCEPT ![u] = "none"]
           /\ request' = IF u \in Admins THEN Disturbing(t, Answered(t)) ELSE Answered(t)

-----------------------------------------------------------------------------
Next ==
    \/ \E actor, u \in Users, form \in Forms :
         \/ Create(actor, u, form)
         \/ \E t \in Threads : Dispatch(t, "update", actor, u, form)
    \/ \E actor, u \in Users, t \in Threads :
         \E action \in {"delete", "password"} : Dispatch(t, action, actor, u, NoForm)
    \/ \E u \in Users : Setup(u)
    \/ \E t \in Threads : \/ Get(t) \/ Count(t) \/ SaveUpdate(t) \/ GetRow(t)
                          \/ FillRow(t) \/ SavePassword(t) \/ Delete(t)

Spec == Init /\ [][Next]_vars

-----------------------------------------------------------------------------
(* Properties.                                                             *)

\* An installation that has an administrator keeps one, whatever is updated and
\* deleted and by whom, unless a request works on what another has changed
\* since: the count and the removal are separate queries.
LastAdminStays ==
    [][Admins # {} /\ Admins' = {}
         => \E t \in Threads : request[t].pc = "save" /\ request[t].disturbed]_vars

\* A deleted account stays deleted, and has no permissions that a later account
\* could meet, although requests that read it before still save it.
DeletedStaysDeleted ==
    [][\A u \in Users : status[u] = "deleted" => status'[u] = "deleted" /\ perms'[u] = "none"]_vars
=============================================================================
