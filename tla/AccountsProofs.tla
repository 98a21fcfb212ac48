---------------------------- MODULE AccountsProofs ----------------------------
(***************************************************************************)
(* Proofs about Accounts, for any number of accounts and of threads: an    *)
(* installation keeps an administrator unless requests overlap, and what   *)
(* is deleted stays so.                                                    *)
(***************************************************************************)
EXTENDS Accounts, TLAPS

Requests == [pc : {"idle", "get", "count", "save", "row", "fill"},
             action : {"none", "update", "delete", "password"},
             target : Users \cup {NoUser}, form : Forms, disturbed : BOOLEAN]

LEMMA RequestSteps ==
    ASSUME NEW r \in Requests, NEW pc \in {"idle", "get", "count", "save", "row", "fill"}
    PROVE  /\ [r EXCEPT !.pc = pc] \in Requests
           /\ [r EXCEPT !.pc = pc].target = r.target
           /\ [r EXCEPT !.pc = pc].pc = pc
           /\ [r EXCEPT !.pc = pc].disturbed = r.disturbed
           /\ [r EXCEPT !.pc = pc].action = r.action
           /\ [r EXCEPT !.pc = pc].form = r.form
  BY DEF Requests

LEMMA RequestDisturbed ==
    ASSUME NEW r \in Requests
    PROVE  /\ [r EXCEPT !.disturbed = TRUE] \in Requests
           /\ [r EXCEPT !.disturbed = TRUE].target = r.target
           /\ [r EXCEPT !.disturbed = TRUE].pc = r.pc
           /\ [r EXCEPT !.disturbed = TRUE].disturbed = TRUE
           /\ [r EXCEPT !.disturbed = TRUE].action = r.action
           /\ [r EXCEPT !.disturbed = TRUE].form = r.form
  BY DEF Requests

LEMMA IdleIsRequest == Idle \in Requests /\ Idle.pc = "idle"
  BY DEF Idle, Requests, Forms, NoForm

LEMMA MoveTypes ==
    ASSUME request \in [Threads -> Requests], NEW t \in Threads,
           NEW pc \in {"idle", "get", "count", "save", "row", "fill"}
    PROVE  [request EXCEPT ![t].pc = pc] \in [Threads -> Requests]
  BY RequestSteps

LEMMA AnsweredTypes ==
    ASSUME request \in [Threads -> Requests], NEW t \in Threads
    PROVE  Answered(t) \in [Threads -> Requests]
  BY IdleIsRequest DEF Answered

LEMMA DisturbingTypes ==
    ASSUME request \in [Threads -> Requests], NEW t \in Threads,
           NEW requests \in [Threads -> Requests]
    PROVE  Disturbing(t, requests) \in [Threads -> Requests]
  BY RequestDisturbed DEF Disturbing

\* Thread t has gone to pc or answered; the others are as they were, or disturbed.
Others(t) == \A u \in Threads \ {t} :
    request'[u] = request[u] \/ request'[u] = [request[u] EXCEPT !.disturbed = TRUE]
AllDisturbed(t) == \A u \in Threads \ {t} :
    request[u].pc \in {"idle", "get"} \/ request'[u] = [request[u] EXCEPT !.disturbed = TRUE]

LEMMA DisturbingRequests ==
    ASSUME request \in [Threads -> Requests], NEW t \in Threads,
           NEW next \in [Threads -> Requests],
           \A u \in Threads \ {t} : next[u] = request[u],
           request' = Disturbing(t, next)
    PROVE  /\ request' \in [Threads -> Requests]
           /\ request'[t] = next[t]
           /\ Others(t) /\ AllDisturbed(t)
  <1>1. request' \in [Threads -> Requests]
    BY DisturbingTypes
  <1>2. request'[t] = next[t]
    BY DEF Disturbing
  <1>3. \A u \in Threads \ {t} :
          request'[u] = IF request[u].pc \in {"idle", "get"} THEN next[u]
                        ELSE [next[u] EXCEPT !.disturbed = TRUE]
    BY DEF Disturbing
  <1>4. Others(t) /\ AllDisturbed(t)
    BY <1>3 DEF Others, AllDisturbed
  <1> QED
    BY <1>1, <1>2, <1>4

LEMMA AnsweredRequests ==
    ASSUME request \in [Threads -> Requests], NEW t \in Threads
    PROVE  /\ Answered(t) \in [Threads -> Requests]
           /\ \A u \in Threads \ {t} : Answered(t)[u] = request[u]
           /\ Answered(t)[t].pc = "idle"
  BY AnsweredTypes, IdleIsRequest DEF Answered

LEMMA MovedRequests ==
    ASSUME request \in [Threads -> Requests], NEW t \in Threads,
           NEW pc \in {"idle", "get", "count", "save", "row", "fill"},
           NEW next, next = [request EXCEPT ![t].pc = pc]
    PROVE  /\ next \in [Threads -> Requests]
           /\ \A u \in Threads \ {t} : next[u] = request[u]
           /\ next[t].pc = pc /\ next[t].target = request[t].target
           /\ next[t].action = request[t].action /\ next[t].form = request[t].form
           /\ next[t].disturbed = request[t].disturbed
  <1>1. next[t] = [request[t] EXCEPT !.pc = pc]
    OBVIOUS
  <1>2. request[t] \in Requests
    OBVIOUS
  <1>3. /\ [request[t] EXCEPT !.pc = pc].target = request[t].target
        /\ [request[t] EXCEPT !.pc = pc].pc = pc
        /\ [request[t] EXCEPT !.pc = pc].disturbed = request[t].disturbed
        /\ [request[t] EXCEPT !.pc = pc].action = request[t].action
        /\ [request[t] EXCEPT !.pc = pc].form = request[t].form
    BY <1>2, RequestSteps
  <1>4. next \in [Threads -> Requests]
    BY MoveTypes
  <1>5. \A u \in Threads \ {t} : next[u] = request[u]
    OBVIOUS
  <1> QED
    BY <1>1, <1>3, <1>4, <1>5

LEMMA SavedRequests ==
    ASSUME request \in [Threads -> Requests], NEW t \in Threads, request' = Saved(t)
    PROVE  /\ request' \in [Threads -> Requests]
           /\ Others(t)
           /\ request'[t].pc \in {"idle", "row"}
           /\ request'[t].pc = "row" => request'[t].target = request[t].target
           /\ superuser[request[t].target] = request[t].form.admin \/ AllDisturbed(t)
  <1>1. PICK next : /\ next = Answered(t) \/ next = [request EXCEPT ![t].pc = "row"]
                    /\ request' = IF superuser[request[t].target] = request[t].form.admin
                                     THEN next ELSE Disturbing(t, next)
    BY DEF Saved
  <1>2. /\ next \in [Threads -> Requests]
        /\ \A u \in Threads \ {t} : next[u] = request[u]
        /\ next[t].pc \in {"idle", "row"}
        /\ next[t].pc = "row" => next[t].target = request[t].target
    BY <1>1, AnsweredRequests, MovedRequests
  <1>3. CASE superuser[request[t].target] = request[t].form.admin
    BY <1>1, <1>2, <1>3 DEF Others
  <1>4. CASE superuser[request[t].target] # request[t].form.admin
    BY <1>1, <1>2, <1>4, DisturbingRequests
  <1> QED
    BY <1>3, <1>4

LEMMA DeletedRequests ==
    ASSUME request \in [Threads -> Requests], NEW t \in Threads, NEW removes \in BOOLEAN,
           request' = IF removes THEN Disturbing(t, Answered(t)) ELSE Answered(t)
    PROVE  /\ request' \in [Threads -> Requests]
           /\ Others(t)
           /\ request'[t].pc = "idle"
           /\ removes => AllDisturbed(t)
  <1>1. CASE removes
    BY <1>1, AnsweredRequests, DisturbingRequests
  <1>2. CASE ~removes
    BY <1>2, AnsweredRequests DEF Others
  <1> QED
    BY <1>1, <1>2
-------------------------------------------------------------------------------
(* The invariant.                                                          *)

\* The target of a request was there when it was read.
Known(t) == request[t].pc # "idle" => request[t].target \in Users
                                        /\ status[request[t].target] # "free"
\* A request that removes an administrator leaves another one, if it works on
\* what it has read.
Safe(t) ==
    request[t].pc = "save" /\ Removes(request[t]) /\ ~request[t].disturbed
      => request[t].target \notin Admins \/ Admins \ {request[t].target} # {}
Bare(u) == status[u] = "deleted" => perms[u] = "none"

Types == /\ status \in [Users -> {"free", "exists", "deleted"}]
         /\ superuser \in [Users -> BOOLEAN]
         /\ active \in [Users -> BOOLEAN]
         /\ perms \in [Users -> {"none", "manages", "plain"}]
         /\ request \in [Threads -> Requests]

IInv == /\ Types
        /\ \A t \in Threads : Known(t) /\ Safe(t)
        /\ \A u \in Users : Bare(u)

LEMMA InvTypes == IInv => TypeOK
  BY DEF IInv, Types, Requests, Known, TypeOK

LEMMA InitInv == Init => IInv
  <1> SUFFICES ASSUME Init PROVE IInv
    OBVIOUS
  <1>1. Types
    BY IdleIsRequest DEF Init, Types
  <1>2. \A t \in Threads : request[t].pc = "idle"
    BY IdleIsRequest DEF Init
  <1>3. \A u \in Users : Bare(u)
    BY DEF Init, Bare
  <1> QED
    BY <1>1, <1>2, <1>3 DEF IInv, Known, Safe

\* Accounts only come and go, and only those that come may become administrators.
NothingFreed == \A u \in Users : status[u] # "free" => status'[u] # "free"
AdminsStay == Admins \subseteq Admins' /\ \A u \in Admins' \ Admins : status[u] = "free"

LEMMA SameAdmins == ASSUME UNCHANGED <<status, superuser>> PROVE AdminsStay /\ NothingFreed
  BY DEF AdminsStay, NothingFreed, Admins, Existing

\* A thread that makes no step itself.
LEMMA ThreadKept ==
    ASSUME IInv, NEW t \in Threads, NothingFreed,
           \/ request'[t] = request[t] /\ (AdminsStay \/ request[t].pc \in {"idle", "get"})
           \/ request'[t] = [request[t] EXCEPT !.disturbed = TRUE]
    PROVE  Known(t)' /\ Safe(t)'
  <1>0. request[t] \in Requests /\ Known(t) /\ Safe(t)
    BY DEF IInv, Types
  <1>1. CASE request'[t] = [request[t] EXCEPT !.disturbed = TRUE]
    <2>1. /\ request'[t].pc = request[t].pc /\ request'[t].target = request[t].target
          /\ request'[t].disturbed
      BY <1>0, <1>1, RequestDisturbed
    <2> QED
      BY <1>0, <2>1 DEF Known, Safe, NothingFreed
  <1>2. CASE request'[t] = request[t] /\ request[t].pc \in {"idle", "get"}
    BY <1>0, <1>2 DEF Known, Safe, NothingFreed
  <1>3. CASE request'[t] = request[t] /\ AdminsStay
    <2>1. Known(t)'
      BY <1>0, <1>3 DEF Known, NothingFreed
    <2>2. Safe(t)'
      <3> SUFFICES ASSUME request[t].pc = "save", Removes(request[t]),
                          ~request[t].disturbed, request[t].target \in Admins'
                   PROVE  Admins' \ {request[t].target} # {}
        BY <1>3 DEF Safe, Removes
      <3>1. status[request[t].target] # "free"
        BY <1>0 DEF Known
      <3>2. request[t].target \in Admins
        BY <1>3, <3>1 DEF AdminsStay
      <3>3. Admins \ {request[t].target} # {}
        BY <1>0, <3>2 DEF Safe
      <3>4. Admins \subseteq Admins'
        BY <1>3 DEF AdminsStay
      <3> QED
        BY <3>3, <3>4
    <2> QED
      BY <2>1, <2>2
  <1> QED
    BY <1>1, <1>2, <1>3

\* A step of thread t to a state in which it does not save.
LEMMA ThreadSteps ==
    ASSUME IInv, NEW t \in Threads, NothingFreed, Others(t), AdminsStay \/ AllDisturbed(t),
           Known(t)', Safe(t)', NEW u \in Threads
    PROVE  Known(u)' /\ Safe(u)'
  <1>1. CASE u = t
    BY <1>1
  <1>2. CASE u # t
    BY <1>2, ThreadKept DEF Others, AllDisturbed
  <1> QED
    BY <1>1, <1>2

\* What each step of thread t shows, from which the invariant follows.
Shown(t) == /\ Types' /\ NothingFreed /\ Others(t) /\ (AdminsStay \/ AllDisturbed(t))
            /\ Known(t)' /\ Safe(t)' /\ \A u \in Users : Bare(u)'

LEMMA ShownIsEnough == ASSUME IInv, NEW t \in Threads, Shown(t) PROVE IInv'
  BY ThreadSteps DEF Shown, IInv

\* An answer that leaves the accounts alone, or all but their permissions.
LEMMA AnswerShown ==
    ASSUME IInv, NEW t \in Threads, Answer(t), UNCHANGED <<status, superuser, active>>,
           perms' \in [Users -> {"none", "manages", "plain"}], \A u \in Users : Bare(u)'
    PROVE  Shown(t)
  <1>1. /\ request' \in [Threads -> Requests] /\ Others(t) /\ request'[t].pc = "idle"
    BY AnsweredRequests DEF Answer, Others, IInv, Types
  <1> QED
    BY <1>1, SameAdmins DEF Shown, IInv, Types, Known, Safe

\* A step to another place in the code, which leaves them alone too.
LEMMA MoveShown ==
    ASSUME IInv, NEW t \in Threads, request[t].pc # "idle",
           NEW pc \in {"count", "save", "row", "fill"},
           request' = [request EXCEPT ![t].pc = pc], UNCHANGED <<status, superuser, active>>,
           perms' \in [Users -> {"none", "manages", "plain"}], \A u \in Users : Bare(u)',
           pc = "save" /\ Removes(request[t])
             => request[t].target \notin Admins \/ Admins \ {request[t].target} # {}
    PROVE  Shown(t)
  <1>1. /\ request' \in [Threads -> Requests] /\ Others(t)
        /\ request'[t].pc = pc /\ request'[t].target = request[t].target
        /\ request'[t].action = request[t].action /\ request'[t].form = request[t].form
    BY MovedRequests DEF Others, IInv, Types
  <1>2. Known(t)'
    BY <1>1 DEF Known, IInv
  <1>3. Removes(request[t])' <=> Removes(request[t])
    BY <1>1 DEF Removes
  <1>4. Admins' = Admins
    BY DEF Admins, Existing
  <1>5. Safe(t)'
    BY <1>1, <1>3, <1>4 DEF Safe
  <1> QED
    BY <1>1, <1>2, <1>5, SameAdmins DEF Shown, IInv, Types

LEMMA DispatchShown ==
    ASSUME IInv, NEW t \in Threads, NEW action \in {"update", "delete", "password"},
           NEW actor \in Users, NEW u \in Users, NEW form \in Forms,
           Dispatch(t, action, actor, u, form)
    PROVE  Shown(t)
  <1> DEFINE new == [pc |-> "get", action |-> action, target |-> u, form |-> form,
                     disturbed |-> FALSE]
  <1>1. new \in Requests
    BY DEF Requests
  <1>2. /\ request'[t] = new /\ \A v \in Threads \ {t} : request'[v] = request[v]
        /\ request' \in [Threads -> Requests]
    BY <1>1 DEF Dispatch, IInv, Types
  <1>3. Known(t)' /\ Safe(t)'
    BY <1>2 DEF Dispatch, Known, Safe
  <1> QED
    BY <1>2, <1>3, SameAdmins DEF Dispatch, Shown, Others, IInv, Types, Bare

LEMMA GetShown == ASSUME IInv, NEW t \in Threads, Get(t) PROVE Shown(t)
  <1>1. /\ \A u \in Users : Bare(u)'
        /\ perms' \in [Users -> {"none", "manages", "plain"}]
    BY DEF Get, Bare, IInv, Types
  <1>2. CASE Answer(t)
    BY <1>1, <1>2, AnswerShown DEF Get
  <1>3. CASE request' = [request EXCEPT ![t].pc = "count"]
    BY <1>1, <1>3, MoveShown DEF Get
  <1>4. CASE /\ request' = [request EXCEPT ![t].pc = "save"]
             /\ ~(superuser[request[t].target] /\ Removes(request[t]))
    BY <1>1, <1>4, MoveShown DEF Get, Admins
  <1> QED
    BY <1>2, <1>3, <1>4 DEF Get

LEMMA CountShown == ASSUME IInv, NEW t \in Threads, Count(t) PROVE Shown(t)
  <1>1. /\ \A u \in Users : Bare(u)'
        /\ perms' \in [Users -> {"none", "manages", "plain"}]
    BY DEF Count, Bare, IInv, Types
  <1>2. CASE Answer(t)
    BY <1>1, <1>2, AnswerShown DEF Count
  <1>3. CASE /\ request' = [request EXCEPT ![t].pc = "save"]
             /\ Admins \ {request[t].target} # {}
    BY <1>1, <1>3, MoveShown DEF Count
  <1> QED
    BY <1>2, <1>3 DEF Count

LEMMA SaveUpdateShown == ASSUME IInv, NEW t \in Threads, SaveUpdate(t) PROVE Shown(t)
  <1> DEFINE r == request[t]
  <1>0. /\ \A u \in Users : Bare(u)'
        /\ perms' \in [Users -> {"none", "manages", "plain"}]
        /\ r \in Requests /\ Known(t)
    BY DEF SaveUpdate, Bare, IInv, Types
  <1>1. CASE Answer(t) /\ UNCHANGED <<superuser, active>>
    BY <1>0, <1>1, AnswerShown DEF SaveUpdate
  <1>2. CASE /\ r.target \in Existing
             /\ superuser' = [superuser EXCEPT ![r.target] = r.form.admin]
             /\ active' = [active EXCEPT ![r.target] = r.form.active]
             /\ request' = Saved(t)
    <2>1. /\ request' \in [Threads -> Requests] /\ Others(t)
          /\ request'[t].pc \in {"idle", "row"}
          /\ request'[t].pc = "row" => request'[t].target = r.target
          /\ superuser[r.target] = r.form.admin \/ AllDisturbed(t)
      BY <1>2, SavedRequests DEF IInv, Types
    <2>2. status' = status /\ NothingFreed
      BY DEF SaveUpdate, NothingFreed
    <2>3. Known(t)' /\ Safe(t)'
      BY <1>0, <2>1, <2>2 DEF SaveUpdate, Known, Safe
    <2>4. ASSUME superuser[r.target] = r.form.admin PROVE AdminsStay
      <3>1. superuser' = superuser
        BY <1>2, <2>4 DEF IInv, Types
      <3> QED
        BY <2>2, <3>1, SameAdmins
    <2>5. r.form.admin \in BOOLEAN /\ r.form.active \in BOOLEAN
      BY <1>0 DEF Requests, Forms
    <2>6. Types'
      BY <1>0, <1>2, <2>1, <2>2, <2>5 DEF IInv, Types
    <2> QED
      BY <1>0, <2>1, <2>2, <2>3, <2>4, <2>6 DEF Shown
  <1> QED
    BY <1>1, <1>2 DEF SaveUpdate

LEMMA RowShown ==
    ASSUME IInv, NEW t \in Threads, GetRow(t) \/ FillRow(t) \/ SavePassword(t)
    PROVE  Shown(t)
  <1>0. /\ perms' \in [Users -> {"none", "manages", "plain"}]
        /\ UNCHANGED <<status, superuser, active>>
        /\ request[t].pc # "idle"
    BY DEF GetRow, FillRow, SavePassword, IInv, Types
  <1>1. \A u \in Users : perms'[u] = perms[u] \/ status[u] = "exists"
    BY DEF GetRow, FillRow, SavePassword, Existing, IInv, Types
  <1>2. \A u \in Users : Bare(u)'
    BY <1>0, <1>1 DEF Bare, IInv
  <1>3. CASE Answer(t)
    BY <1>0, <1>2, <1>3, AnswerShown
  <1>4. CASE request' = [request EXCEPT ![t].pc = "fill"]
    BY <1>0, <1>2, <1>4, MoveShown
  <1> QED
    BY <1>3, <1>4 DEF GetRow, FillRow, SavePassword

LEMMA DeleteShown == ASSUME IInv, NEW t \in Threads, Delete(t) PROVE Shown(t)
  <1> DEFINE u == request[t].target
  <1>1. u \in Users /\ Types
    BY DEF Delete, Known, IInv
  <1>2. /\ request' \in [Threads -> Requests] /\ Others(t) /\ request'[t].pc = "idle"
        /\ u \in Admins => AllDisturbed(t)
    BY <1>1, DeletedRequests DEF Delete, Types
  <1>3. Types'
    BY <1>1, <1>2 DEF Delete, Types
  <1>4. NothingFreed /\ \A v \in Users : Bare(v)'
    BY <1>1 DEF Delete, NothingFreed, Bare, IInv, Types
  <1>5. ASSUME u \notin Admins PROVE AdminsStay
    BY <1>1, <1>5 DEF Delete, AdminsStay, Admins, Existing, Types
  <1>6. Known(t)' /\ Safe(t)'
    BY <1>2 DEF Known, Safe
  <1> QED
    BY <1>2, <1>3, <1>4, <1>5, <1>6 DEF Shown

\* A new account changes nothing for the requests.
LEMMA CreatedInv ==
    ASSUME IInv, NEW u \in Users, NEW admin \in BOOLEAN,
           NEW row \in {"none", "manages", "plain"}, Created(u, admin, row), UNCHANGED request
    PROVE  IInv'
  <1>1. Types'
    BY DEF Created, IInv, Types
  <1>2. NothingFreed /\ \A v \in Users : Bare(v)'
    BY DEF Created, NothingFreed, Bare, IInv, Types
  <1>3. AdminsStay
    BY DEF Created, AdminsStay, Admins, Existing, IInv, Types
  <1>4. \A t \in Threads : Known(t)' /\ Safe(t)'
    BY <1>2, <1>3, ThreadKept
  <1> QED
    BY <1>1, <1>2, <1>4 DEF IInv

LEMMA NextInv == IInv /\ [Next]_vars => IInv'
  <1> SUFFICES ASSUME IInv, [Next]_vars PROVE IInv'
    OBVIOUS
  <1>1. ASSUME NEW actor \in Users, NEW u \in Users, NEW form \in Forms,
               Create(actor, u, form)
        PROVE  IInv'
    <2>1. form.admin \in BOOLEAN /\ (IF form.admin THEN "none" ELSE IF form.manages
            THEN "manages" ELSE "plain") \in {"none", "manages", "plain"}
      BY DEF Forms
    <2> QED
      BY <1>1, <2>1, CreatedInv DEF Create
  <1>2. ASSUME NEW u \in Users, Setup(u) PROVE IInv'
    BY <1>2, CreatedInv DEF Setup
  <1>3. ASSUME NEW actor \in Users, NEW u \in Users, NEW form \in Forms, NEW t \in Threads,
               NEW action \in {"update", "delete", "password"},
               Dispatch(t, action, actor, u, form)
        PROVE  IInv'
    BY <1>3, DispatchShown, ShownIsEnough
  <1>4. NoForm \in Forms
    BY DEF NoForm, Forms
  <1>5. ASSUME NEW t \in Threads,
               \/ Get(t) \/ Count(t) \/ SaveUpdate(t) \/ GetRow(t)
               \/ FillRow(t) \/ SavePassword(t) \/ Delete(t)
        PROVE  IInv'
    BY <1>5, GetShown, CountShown, SaveUpdateShown, RowShown, DeleteShown, ShownIsEnough
  <1>6. CASE UNCHANGED vars
    BY <1>6 DEF vars, IInv, Types, Known, Safe, Removes, Admins, Existing, Bare
  <1> QED
    BY <1>1, <1>2, <1>3, <1>4, <1>5, <1>6 DEF Next

(* The types of the accounts and of the requests.                          *)
THEOREM TypeCorrect == Spec => []TypeOK
  BY InitInv, NextInv, InvTypes, PTL DEF Spec

LEMMA LastAdminStep ==
    ASSUME IInv, [Next]_vars, Admins # {}, Admins' = {}
    PROVE  \E t \in Threads : request[t].pc = "save" /\ request[t].disturbed
  <1>1. ASSUME AdminsStay PROVE FALSE
    BY <1>1 DEF AdminsStay
  <1>2. ASSUME UNCHANGED <<status, superuser>> PROVE FALSE
    BY <1>1, <1>2, SameAdmins
  <1>3. ASSUME NEW t \in Threads, SaveUpdate(t) \/ Delete(t)
        PROVE  request[t].pc = "save" /\ request[t].disturbed
    <2> DEFINE r == request[t]
    <2>1. r.pc = "save" /\ r \in Requests /\ r.target \in Users /\ Types
      BY <1>3 DEF SaveUpdate, Delete, IInv, Known, Types
    <2>2. \A v \in Users \ {r.target} : status'[v] = status[v] /\ superuser'[v] = superuser[v]
      BY <1>3, <2>1 DEF SaveUpdate, Delete, Types
    <2>3. Admins \subseteq {r.target}
      BY <2>2 DEF Admins, Existing
    <2>4. r.target \in Admins /\ Admins \ {r.target} = {}
      BY <2>3
    <2>5. Removes(r)
      <3>1. CASE Delete(t)
        BY <3>1 DEF Delete, Removes
      <3>2. CASE SaveUpdate(t)
        <4>1. r.target \notin Admins'
          OBVIOUS
        <4>2. superuser'[r.target] = r.form.admin
          BY <2>1, <2>4, <3>2 DEF SaveUpdate, Admins, Types
        <4> QED
          BY <2>1, <2>4, <3>2, <4>1, <4>2
             DEF SaveUpdate, Removes, Admins, Existing, Types, Requests, Forms
      <3> QED
        BY <1>3, <3>1, <3>2
    <2> QED
      BY <2>1, <2>4, <2>5 DEF IInv, Safe, Requests
  <1>4. ASSUME NEW u \in Users, NEW admin, NEW row, Created(u, admin, row) PROVE FALSE
    BY <1>1, <1>4 DEF Created, AdminsStay, Admins, Existing, IInv, Types
  <1> QED
    BY <1>2, <1>3, <1>4 DEF Next, Create, Setup, Dispatch, Get, Count, GetRow, FillRow,
       SavePassword, vars

(* An installation keeps an administrator, unless a request removes one on *)
(* the strength of what another has changed since (webapp/views/users.py). *)
THEOREM AnAdminStays == Spec => LastAdminStays
  <1>1. IInv /\ [Next]_vars
          => [Admins # {} /\ Admins' = {}
                => \E t \in Threads : request[t].pc = "save" /\ request[t].disturbed]_vars
    BY LastAdminStep
  <1> QED
    BY <1>1, InitInv, NextInv, PTL DEF Spec, LastAdminStays

LEMMA DeletedStep ==
    ASSUME IInv, [Next]_vars, NEW u \in Users, status[u] = "deleted"
    PROVE  status'[u] = "deleted"
  <1>1. ASSUME NEW t \in Threads, Delete(t) PROVE status'[u] = "deleted"
    BY <1>1 DEF Delete, IInv, Types
  <1>2. ASSUME NEW v \in Users, NEW admin, NEW row, Created(v, admin, row)
        PROVE  status'[u] = "deleted"
    BY <1>2 DEF Created, IInv, Types
  <1>3. CASE UNCHANGED status
    BY <1>3
  <1> QED
    BY <1>1, <1>2, <1>3 DEF Next, Create, Setup, Dispatch, Get, Count, SaveUpdate, GetRow,
       FillRow, SavePassword, vars

(* No request that read an account before it was deleted brings it or its  *)
(* permissions back (webapp/views/users.py).                               *)
THEOREM DeletedForGood == Spec => DeletedStaysDeleted
  <1>1. IInv /\ [Next]_vars
          => [\A u \in Users : status[u] = "deleted"
                => status'[u] = "deleted" /\ perms'[u] = "none"]_vars
    BY DeletedStep, NextInv DEF IInv, Bare
  <1> QED
    BY <1>1, InitInv, NextInv, PTL DEF Spec, DeletedStaysDeleted
=============================================================================
