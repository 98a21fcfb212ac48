--------------------------- MODULE FeedbackProofs ---------------------------
(***************************************************************************)
(* Proofs about what users get to see of a run.                            *)
(*                                                                         *)
(* Notifications, for any notifiers, devices and passwords, any number of  *)
(* threads and of requests: everyone is told, a deleted notifier stays     *)
(* deleted, and a password is kept.                                        *)
(*                                                                         *)
(* RunStream, for any number of workers, pages, log rows and stage changes *)
(* and of failures: a page has no gaps, and is complete when it says so.   *)
(***************************************************************************)
EXTENDS Notifications, RunStream, SequenceTheorems, TLAPS

(***************************************************************************)
(* Notifications                                                           *)
(***************************************************************************)
Steps == {"idle", "edit", "toggle", "delete", "find", "update", "drop"}
Requests == [pc : Steps, on : Notifiers \cup {NoNotifier}, device : Devices \cup {"none"},
             id : 0..MaxRows, stored : Stored, enabled : BOOLEAN, typed : Passwords,
             disturbed : BOOLEAN]
Stages == [pc : {"rest", "next", "push", "send", "done"}, todo : SUBSET Notifiers,
           devices : SUBSET [device : Devices, id : 1..MaxRows],
           at : Notifiers \cup {NoNotifier}]

LEMMA Bounds ==
    /\ 0 \in 0..MaxRows /\ 0 \in 0..MaxKeys /\ 0 \in 0..MaxRequests /\ 1 \in 1..MaxKeys
    /\ 1..MaxRows \subseteq 0..MaxRows /\ 1..MaxKeys \subseteq 0..MaxKeys
  BY NotificationsAssumption

LEMMA BlankIsStored == Raw(Blank) \in Stored
  BY Bounds, NotificationsAssumption DEF Raw, Stored

LEMMA IdleIsRequest == Idle \in Requests /\ Idle.pc = "idle" /\ Idle.on = NoNotifier
  BY Bounds, BlankIsStored, NotificationsAssumption DEF Idle, Asking, Requests, Steps

LEMMA RequestDisturbed ==
    ASSUME NEW r \in Requests
    PROVE  LET s == [r EXCEPT !.disturbed = TRUE]
           IN  /\ s \in Requests /\ s.disturbed
               /\ s.pc = r.pc /\ s.on = r.on /\ s.device = r.device /\ s.id = r.id
               /\ s.stored = r.stored
  BY DEF Requests
-------------------------------------------------------------------------------
(* The invariant.                                                          *)

Types == /\ exists \in [Notifiers -> BOOLEAN]
         /\ enabled \in [Notifiers -> BOOLEAN]
         /\ secret \in [Notifiers -> Stored]
         /\ key \in 1..MaxKeys
         /\ sub \in [Devices -> [notifier : Notifiers \cup {NoNotifier}, id : 0..MaxRows]]
         /\ rows \in 0..MaxRows
         /\ gone \subseteq Devices
         /\ stage \in Stages
         /\ due \subseteq Notifiers \cup Devices /\ told \subseteq Notifiers \cup Devices
         /\ spoilt \subseteq {"message", "removal"}
         /\ request \in [Threads -> Requests]
         /\ requests \in 0..MaxRequests

\* A subscription belongs to a notifier that is there.
Subscription(s) == s = NoSub \/ (s.notifier \in Notifiers /\ exists[s.notifier]
                                   /\ s.id \in 1..MaxRows)
\* What a request has read is what is there, unless it is disturbed.
Known(r) ==
    /\ r.pc # "idle" => r.on \in Notifiers
    /\ r.pc = "update" => r.device \in Devices /\ r.id \in 1..MaxRows
    /\ r.pc = "edit" /\ ~r.disturbed => exists[r.on] /\ r.stored = secret[r.on]
\* No text with the prefix is ever encrypted.
Clean(s) == s.key # 0 => s.text \notin Prefixed
\* The stage has told everyone or has them before it, but for what was spoilt.
Told == /\ "message" \notin spoilt => due \cap Notifiers \subseteq told \cup stage.todo
        /\ "removal" \notin spoilt =>
             due \cap Devices \subseteq told \cup {r.device : r \in stage.devices}
        /\ stage.pc # "send" => stage.devices = {}
        /\ stage.pc = "done" => stage.todo = {}
        /\ stage.pc = "push" => stage.at \in Notifiers

IInv == /\ Types /\ Told
        /\ \A d \in Devices : Subscription(sub[d])
        /\ \A t \in Threads : Known(request[t])
        /\ \A n \in Notifiers : Clean(secret[n])

LEMMA InvTypes == IInv => TypeOK
  <1> SUFFICES ASSUME IInv PROVE TypeOK
    OBVIOUS
  <1>1. \A t \in Threads : /\ request[t].pc \in Steps
                           /\ request[t].on \in Notifiers \cup {NoNotifier}
    BY DEF IInv, Types, Requests
  <1>2. \A d \in Devices : sub[d].notifier # NoNotifier => exists[sub[d].notifier]
    BY DEF IInv, Subscription, NoSub
  <1>3. /\ stage.pc \in {"rest", "next", "push", "send", "done"}
        /\ stage.todo \subseteq Notifiers /\ stage.at \in Notifiers \cup {NoNotifier}
        /\ stage.devices \subseteq [device : Devices, id : 1..MaxRows]
    BY DEF IInv, Types, Stages
  <1> QED
    BY <1>1, <1>2, <1>3 DEF IInv, Types, Steps, Known, TypeOK

LEMMA InitInv == Init => IInv
  <1> SUFFICES ASSUME Init PROVE IInv
    OBVIOUS
  <1>1. Rested \in Stages /\ NoSub \in [notifier : Notifiers \cup {NoNotifier}, id : 0..MaxRows]
    BY Bounds DEF Rested, Stages, NoSub
  <1>2. Types
    BY <1>1, Bounds, BlankIsStored, IdleIsRequest DEF Init, Types
  <1>3. Told
    BY DEF Init, Told, Rested
  <1>4. \A n \in Notifiers : Clean(secret[n])
    BY DEF Init, Clean, Raw
  <1>5. /\ \A d \in Devices : Subscription(sub[d])
        /\ \A t \in Threads : Known(request[t])
    BY IdleIsRequest DEF Init, Subscription, Known
  <1> QED
    BY <1>2, <1>3, <1>4, <1>5 DEF IInv
-------------------------------------------------------------------------------
(* The stage.                                                              *)

\* A step of the stage that leaves the database alone.
LEMMA StageKept ==
    ASSUME IInv, UNCHANGED <<table, key, gone, request, requests>>, stage' \in Stages,
           due' \subseteq Notifiers \cup Devices, told' \subseteq Notifiers \cup Devices,
           spoilt' \subseteq {"message", "removal"}, Told'
    PROVE  IInv'
  <1> USE DEF table
  <1>1. Types'
    BY DEF IInv, Types
  <1>2. /\ \A d \in Devices : Subscription(sub[d])'
        /\ \A t \in Threads : Known(request[t])'
        /\ \A n \in Notifiers : Clean(secret[n])'
    BY DEF IInv, Subscription, Known, Clean
  <1> QED
    BY <1>1, <1>2 DEF IInv

LEMMA ConfigureInv == ASSUME IInv, Configure PROVE IInv'
  <1> DEFINE found == {n \in Notifiers : exists[n] /\ enabled[n]}
  <1>1. /\ stage' = [pc |-> "next", todo |-> found, devices |-> {}, at |-> NoNotifier]
        /\ due' = found /\ told' = {} /\ spoilt' = {}
    BY DEF Configure, Rested
  <1> HIDE DEF found
  <1>2. found \subseteq Notifiers
    BY DEF found
  <1>3. stage' \in Stages
    BY <1>1, <1>2 DEF Stages
  <1>4. Told'
    BY <1>1, <1>2, NotificationsAssumption DEF Told
  <1> QED
    BY <1>1, <1>2, <1>3, <1>4, StageKept DEF Configure

LEMMA DispatchInv == ASSUME IInv, Dispatch PROVE IInv'
  <1>0. stage \in Stages /\ stage.pc = "next" /\ stage.devices = {}
    BY DEF Dispatch, IInv, Types, Told
  <1>1. PICK n \in stage.todo :
          /\ told' = told \cup {n}
          /\ stage' = [stage EXCEPT !.todo = @ \ {n},
                                    !.pc = IF n \in Push THEN "push" ELSE "next",
                                    !.at = IF n \in Push THEN n ELSE NoNotifier]
    BY DEF Dispatch
  <1>2. stage' = [pc |-> IF n \in Push THEN "push" ELSE "next", todo |-> stage.todo \ {n},
                  devices |-> {}, at |-> IF n \in Push THEN n ELSE NoNotifier]
    BY <1>0, <1>1 DEF Stages
  <1>3. n \in Notifiers
    BY <1>0 DEF Stages
  <1>4. stage' \in Stages
    BY <1>0, <1>2, <1>3 DEF Stages
  <1>5. Told'
    <2>1. /\ stage'.todo = stage.todo \ {n} /\ stage'.devices = {}
          /\ due' = due /\ spoilt' = spoilt
      BY <1>2 DEF Dispatch
    <2>3. "message" \notin spoilt' => due' \cap Notifiers \subseteq told' \cup stage'.todo
      BY <1>1, <2>1 DEF IInv, Told
    <2>4. "removal" \notin spoilt' =>
            due' \cap Devices \subseteq told' \cup {r.device : r \in stage'.devices}
      BY <1>0, <1>1, <2>1 DEF IInv, Told
    <2>2. stage'.devices = {} /\ stage'.pc \in {"push", "next"}
          /\ (stage'.pc = "push" => stage'.at = n)
      BY <1>2
    <2> QED
      BY <1>3, <2>2, <2>3, <2>4 DEF Told
  <1> QED
    BY <1>1, <1>3, <1>4, <1>5, StageKept DEF Dispatch, IInv, Types

LEMMA DispatchRaisesInv == ASSUME IInv, DispatchRaises PROVE IInv'
  <1>0. stage \in Stages /\ stage.devices = {}
    BY DEF DispatchRaises, IInv, Types, Told
  <1>1. /\ stage' = [pc |-> "done", todo |-> {}, devices |-> {}, at |-> stage.at]
        /\ spoilt' = spoilt \cup {"message"} /\ due' = due /\ told' = told
    BY <1>0 DEF DispatchRaises, Stages
  <1>2. stage' \in Stages
    BY <1>0, <1>1 DEF Stages
  <1>3. Told'
    <2>1. /\ stage'.pc = "done" /\ stage'.todo = {} /\ stage'.devices = {}
      BY <1>1
    <2>2. "removal" \notin spoilt' =>
            due' \cap Devices \subseteq told' \cup {r.device : r \in stage'.devices}
      BY <1>0, <1>1, <2>1 DEF IInv, Told
    <2> QED
      BY <1>1, <2>1, <2>2 DEF Told
  <1> QED
    BY <1>1, <1>2, <1>3, StageKept DEF DispatchRaises, IInv, Types

LEMMA ReadDevicesInv == ASSUME IInv, ReadDevices PROVE IInv'
  <1> DEFINE found == Subscribed(stage.at)
             devices == {[device |-> d, id |-> sub[d].id] : d \in found}
  <1>0. stage \in Stages /\ stage.devices = {} /\ stage.at \in Notifiers
    BY DEF ReadDevices, IInv, Types, Told
  <1>1. /\ stage' = [pc |-> "send", todo |-> stage.todo, devices |-> devices, at |-> stage.at]
        /\ due' = due \cup found /\ told' = told /\ spoilt' = spoilt
    BY <1>0 DEF ReadDevices, Stages
  <1>2. \A d \in found : d \in Devices /\ sub[d].id \in 1..MaxRows
    BY <1>0, NotificationsAssumption DEF Subscribed, IInv, Subscription, NoSub
  <1>3. devices \subseteq [device : Devices, id : 1..MaxRows]
    BY <1>2
  <1>4. found \subseteq {r.device : r \in devices}
    <2> SUFFICES ASSUME NEW d \in found PROVE \E r \in devices : d = r.device
      OBVIOUS
    <2>1. [device |-> d, id |-> sub[d].id] \in devices
      OBVIOUS
    <2>2. [device |-> d, id |-> sub[d].id].device = d
      OBVIOUS
    <2> HIDE DEF found, devices
    <2> QED
      BY <2>1, <2>2
  <1> HIDE DEF found, devices
  <1>5. stage' \in Stages
    BY <1>0, <1>1, <1>3 DEF Stages
  <1>6. Told'
    <2>1. /\ stage'.pc = "send" /\ stage'.todo = stage.todo /\ stage'.devices = devices
      BY <1>1
    <2>2. found \subseteq Devices
      BY <1>2
    <2>3. "message" \notin spoilt' => due' \cap Notifiers \subseteq told' \cup stage'.todo
      BY <1>1, <2>1, <2>2, NotificationsAssumption DEF IInv, Told
    <2>4. "removal" \notin spoilt' =>
            due' \cap Devices \subseteq told' \cup {r.device : r \in stage'.devices}
      BY <1>0, <1>1, <1>4, <2>1 DEF IInv, Told
    <2> QED
      BY <2>1, <2>3, <2>4 DEF Told
  <1>7. due' \subseteq Notifiers \cup Devices
    BY <1>1, <1>2 DEF IInv, Types
  <1> QED
    BY <1>1, <1>5, <1>6, <1>7, StageKept DEF ReadDevices, IInv, Types

LEMMA SendInv == ASSUME IInv, Send PROVE IInv'
  <1>0. stage \in Stages /\ stage.pc = "send"
    BY DEF Send, IInv, Types
  <1>1. PICK r \in stage.devices :
          /\ told' = told \cup {r.device}
          /\ stage' = [stage EXCEPT !.devices = @ \ {r}]
          /\ sub' = IF r.device \in gone THEN Without(r.device, r.id) ELSE sub
    BY DEF Send
  <1>2. stage' = [pc |-> "send", todo |-> stage.todo, devices |-> stage.devices \ {r},
                  at |-> stage.at]
    BY <1>0, <1>1 DEF Stages
  <1>3. r \in [device : Devices, id : 1..MaxRows]
    BY <1>0 DEF Stages
  <1>4. stage' \in Stages
    BY <1>0, <1>2 DEF Stages
  <1>5. Told'
    <2>1. /\ stage'.pc = "send" /\ stage'.todo = stage.todo
          /\ stage'.devices = stage.devices \ {r} /\ due' = due /\ spoilt' = spoilt
      BY <1>2 DEF Send
    <2>2. "message" \notin spoilt' => due' \cap Notifiers \subseteq told' \cup stage'.todo
      BY <1>1, <2>1 DEF IInv, Told
    <2>3. "removal" \notin spoilt' =>
            due' \cap Devices \subseteq told' \cup {s.device : s \in stage'.devices}
      BY <1>1, <2>1 DEF IInv, Told
    <2> QED
      BY <2>1, <2>2, <2>3 DEF Told
  <1>6. /\ sub' \in [Devices -> [notifier : Notifiers \cup {NoNotifier}, id : 0..MaxRows]]
        /\ \A d \in Devices : sub'[d] = sub[d] \/ sub'[d] = NoSub
    <2>1. NoSub \in [notifier : Notifiers \cup {NoNotifier}, id : 0..MaxRows]
      BY Bounds DEF NoSub
    <2> QED
      BY <1>1, <1>3, <2>1 DEF Without, IInv, Types
  <1>7. UNCHANGED <<exists, enabled, secret, rows, key, gone, due, spoilt, request, requests>>
    BY DEF Send
  <1>8. told' \subseteq Notifiers \cup Devices
    BY <1>1, <1>3 DEF IInv, Types
  <1>9. Types'
    BY <1>4, <1>6, <1>7, <1>8 DEF IInv, Types
  <1>10. \A d \in Devices : Subscription(sub[d])'
    BY <1>6, <1>7 DEF IInv, Subscription, NoSub
  <1>11. /\ \A t \in Threads : Known(request[t])'
         /\ \A n \in Notifiers : Clean(secret[n])'
    BY <1>7 DEF IInv, Known, Clean
  <1> QED
    BY <1>5, <1>9, <1>10, <1>11 DEF IInv

LEMMA RemovalRaisesInv == ASSUME IInv, RemovalRaises PROVE IInv'
  <1>0. stage \in Stages
    BY DEF IInv, Types
  <1>1. PICK r \in stage.devices : told' = told \cup {r.device}
    BY DEF RemovalRaises
  <1>2. /\ stage' = [pc |-> "next", todo |-> stage.todo, devices |-> {}, at |-> NoNotifier]
        /\ spoilt' = spoilt \cup {"removal"} /\ due' = due
    BY <1>0 DEF RemovalRaises, Stages
  <1>3. stage' \in Stages
    BY <1>0, <1>2 DEF Stages
  <1>4. told' \subseteq Notifiers \cup Devices
    BY <1>0, <1>1 DEF IInv, Types, Stages
  <1>5. Told'
    <2>1. stage'.pc = "next" /\ stage'.todo = stage.todo /\ stage'.devices = {}
      BY <1>2
    <2>2. "message" \notin spoilt' => due' \cap Notifiers \subseteq told' \cup stage'.todo
      BY <1>1, <1>2, <2>1 DEF IInv, Told
    <2> QED
      BY <1>2, <2>1, <2>2 DEF Told
  <1> QED
    BY <1>2, <1>3, <1>4, <1>5, StageKept DEF RemovalRaises, IInv, Types

LEMMA StageEndInv == ASSUME IInv, Return \/ EndStage \/ NextRun PROVE IInv'
  <1>0. stage \in Stages
    BY DEF IInv, Types
  <1>1. CASE Return
    <2>1. /\ stage' = [pc |-> "next", todo |-> stage.todo, devices |-> {}, at |-> NoNotifier]
          /\ stage.devices = {} /\ UNCHANGED <<due, told, spoilt>>
      BY <1>0, <1>1 DEF Return, Stages, IInv, Told
    <2>2. stage' \in Stages /\ Told'
      BY <1>0, <1>1, <2>1 DEF Return, Stages, IInv, Told
    <2> QED
      BY <1>1, <2>2, StageKept DEF Return, IInv, Types
  <1>2. CASE EndStage
    <2>1. /\ stage' = [pc |-> "done", todo |-> {}, devices |-> {}, at |-> stage.at]
          /\ stage.devices = {} /\ stage.todo = {}
      BY <1>0, <1>2 DEF EndStage, Stages, IInv, Told
    <2>2. stage' \in Stages /\ Told'
      BY <1>0, <1>2, <2>1 DEF EndStage, Stages, IInv, Told
    <2> QED
      BY <1>2, <2>2, StageKept DEF EndStage, IInv, Types
  <1>3. CASE NextRun
    <2>1. /\ stage' = [pc |-> "rest", todo |-> {}, devices |-> {}, at |-> NoNotifier]
          /\ due' = {} /\ spoilt' = {} /\ told' = {}
      BY <1>3 DEF NextRun, Rested
    <2>2. stage' \in Stages /\ Told'
      BY <1>3, <2>1 DEF NextRun, Stages, Told
    <2> QED
      BY <1>3, <2>2, StageKept DEF NextRun, IInv, Types
  <1> QED
    BY <1>1, <1>2, <1>3
-------------------------------------------------------------------------------
(* Requests.                                                               *)

\* A request is received: it knows what it has read.
LEMMA ReceiveInv ==
    ASSUME IInv, NEW t \in Threads, NEW n \in Notifiers, NEW r \in Requests,
           Receive(t, n, r), exists[n] => Known(r)
    PROVE  IInv'
  <1> USE DEF table, run
  <1>1. /\ request' \in [Threads -> Requests] /\ request'[t] = r
        /\ \A u \in Threads \ {t} : request'[u] = request[u]
        /\ requests' \in 0..MaxRequests
    BY NotificationsAssumption DEF Receive, Count, IInv, Types
  <1>2. Types' /\ Told'
    BY <1>1 DEF Receive, IInv, Types, Told
  <1>3. \A u \in Threads : Known(request[u])'
    BY <1>1 DEF Receive, IInv, Known
  <1>4. /\ \A d \in Devices : Subscription(sub[d])'
        /\ \A m \in Notifiers : Clean(secret[m])'
    BY DEF Receive, IInv, Subscription, Clean
  <1> QED
    BY <1>2, <1>3, <1>4 DEF IInv

LEMMA AskingRequests ==
    ASSUME NEW step \in Steps, NEW n \in Notifiers, NEW stored \in Stored,
           NEW typed \in Passwords, NEW on \in BOOLEAN,
           step = "edit" => stored = secret[n], step # "update"
    PROVE  /\ Asking(step, n, stored, typed, on) \in Requests
           /\ exists[n] => Known(Asking(step, n, stored, typed, on))
  <1>1. Asking(step, n, stored, typed, on) \in Requests
    BY Bounds DEF Asking, Requests
  <1>2. exists[n] => Known(Asking(step, n, stored, typed, on))
    BY DEF Asking, Known
  <1> QED
    BY <1>1, <1>2

LEMMA ReceivedInv ==
    ASSUME IInv, NEW t \in Threads, NEW n \in Notifiers,
           \/ \E typed \in Passwords, on \in BOOLEAN : ReceiveEdit(t, n, typed, on)
           \/ ReceiveToggle(t, n)
           \/ \E step \in {"delete", "find", "drop"} : ReceiveOther(t, n, step)
    PROVE  IInv'
  <1>1. ASSUME NEW typed \in Passwords, NEW on \in BOOLEAN, ReceiveEdit(t, n, typed, on)
        PROVE  IInv'
    BY <1>1, AskingRequests, ReceiveInv DEF ReceiveEdit, Steps, IInv, Types
  <1>2. CASE ReceiveToggle(t, n)
    BY <1>2, AskingRequests, ReceiveInv, BlankIsStored, NotificationsAssumption
       DEF ReceiveToggle, Steps, IInv, Types
  <1>3. ASSUME NEW step \in {"delete", "find", "drop"}, ReceiveOther(t, n, step)
        PROVE  IInv'
    BY <1>3, AskingRequests, ReceiveInv, BlankIsStored, NotificationsAssumption
       DEF ReceiveOther, Steps
  <1> QED
    BY <1>1, <1>2, <1>3

\* What the answer of t does to the requests.
LEMMA AnsweredRequests ==
    ASSUME IInv, NEW t \in Threads, NEW changed \in BOOLEAN, Answered(t, changed)
    PROVE  /\ request' \in [Threads -> Requests]
           /\ request'[t] = Idle
           /\ \A u \in Threads \ {t} :
                \/ request'[u] = [request[u] EXCEPT !.disturbed = TRUE]
                \/ /\ request'[u] = request[u]
                   /\ changed => request[u].on # request[t].on
  <1>1. request \in [Threads -> Requests]
    BY DEF IInv, Types
  <1>2. request'[t] = Idle
    BY DEF Answered
  <1>3. \A u \in Threads \ {t} :
          request'[u] = IF changed /\ request[u].on = request[t].on
                          THEN [request[u] EXCEPT !.disturbed = TRUE] ELSE request[u]
    BY DEF Answered
  <1>4. \A u \in Threads : request'[u] \in Requests
    BY <1>1, <1>2, <1>3, IdleIsRequest, RequestDisturbed
  <1>5. request' \in [Threads -> Requests]
    BY <1>4 DEF Answered
  <1> QED
    BY <1>2, <1>3, <1>5

\* After the answer every request knows what is there: of the notifier that has
\* changed all are disturbed.
LEMMA AnsweredKnow ==
    ASSUME IInv, NEW t \in Threads, NEW changed \in BOOLEAN, Answered(t, changed),
           request[t].pc # "idle",
           \A n \in Notifiers : (n = request[t].on /\ changed) \/ ~exists[n]
              \/ (exists'[n] /\ secret'[n] = secret[n])
    PROVE  \A u \in Threads : Known(request[u])'
  <1> SUFFICES ASSUME NEW u \in Threads PROVE Known(request[u])'
    OBVIOUS
  <1>0. request[u] \in Requests /\ Known(request[u])
    BY DEF IInv, Types
  <1>1. CASE u = t
    BY <1>1, AnsweredRequests, IdleIsRequest DEF Known
  <1>2. CASE request'[u] = [request[u] EXCEPT !.disturbed = TRUE]
    BY <1>0, <1>2, RequestDisturbed DEF Known
  <1>3. CASE request'[u] = request[u] /\ (changed => request[u].on # request[t].on)
    BY <1>0, <1>3 DEF Known
  <1> QED
    BY <1>1, <1>2, <1>3, AnsweredRequests

\* What encrypting stores is clean and decrypts to what was typed.
LEMMA EncryptedIs ==
    ASSUME NEW p \in Passwords, key \in 1..MaxKeys
    PROVE  /\ Encrypted(p) \in Stored /\ Clean(Encrypted(p))
           /\ p \notin Prefixed => Decrypted(Encrypted(p)) = p
  <1>1. key # 0 /\ key \in 0..MaxKeys /\ Blank \notin Prefixed
    BY Bounds, NotificationsAssumption
  <1>2. CASE p = Blank \/ p \in Prefixed
    BY <1>1, <1>2, Bounds DEF Encrypted, Raw, Stored, Clean, Decrypted
  <1>3. CASE p # Blank /\ p \notin Prefixed
    BY <1>1, <1>3 DEF Encrypted, Stored, Clean, Decrypted
  <1> QED
    BY <1>2, <1>3

LEMMA DecryptedIs ==
    ASSUME NEW s \in Stored, Clean(s)
    PROVE  Decrypted(s) \in Passwords /\ Decrypted(s) \notin Prefixed
  BY NotificationsAssumption DEF Stored, Clean, Decrypted

LEMMA NewSecretIs ==
    ASSUME NEW r \in Requests, key \in 1..MaxKeys
    PROVE  NewSecret(r) \in Stored /\ Clean(NewSecret(r))
  <1>1. r.typed \in Passwords /\ Decrypted(r.stored) \in Passwords
    BY NotificationsAssumption DEF Requests, Stored, Decrypted
  <1> QED
    BY <1>1, EncryptedIs DEF NewSecret

LEMMA SaveEditInv == ASSUME IInv, NEW t \in Threads, SaveEdit(t) PROVE IInv'
  <1> DEFINE r == request[t]
  <1>0. /\ r \in Requests /\ r.pc = "edit" /\ r.on \in Notifiers /\ r.enabled \in BOOLEAN
        /\ key \in 1..MaxKeys
    BY DEF SaveEdit, IInv, Types, Known, Requests
  <1>1. /\ exists' = [exists EXCEPT ![r.on] = TRUE]
        /\ enabled' = [enabled EXCEPT ![r.on] = r.enabled]
        /\ secret' = [secret EXCEPT ![r.on] = NewSecret(r)]
        /\ Answered(t, TRUE)
        /\ UNCHANGED <<sub, rows, key, gone, stage, due, told, spoilt, requests>>
    BY DEF SaveEdit, run
  <1>2. NewSecret(r) \in Stored /\ Clean(NewSecret(r))
    BY <1>0, NewSecretIs
  <1>3. request' \in [Threads -> Requests]
    BY <1>1, AnsweredRequests
  <1>4. Types'
    BY <1>0, <1>1, <1>2, <1>3 DEF IInv, Types
  <1>5. \A n \in Notifiers : n = r.on \/ (exists'[n] = exists[n] /\ secret'[n] = secret[n])
    BY <1>0, <1>1 DEF IInv, Types
  <1>6. \A u \in Threads : Known(request[u])'
    BY <1>0, <1>1, <1>5, AnsweredKnow
  <1>7. \A d \in Devices : Subscription(sub[d])'
    BY <1>0, <1>1 DEF IInv, Types, Subscription
  <1>8. \A n \in Notifiers : Clean(secret[n])'
    BY <1>0, <1>1, <1>2 DEF IInv, Types, Clean
  <1>9. Told'
    BY <1>1 DEF IInv, Told
  <1> QED
    BY <1>4, <1>6, <1>7, <1>8, <1>9 DEF IInv

LEMMA SaveToggleInv == ASSUME IInv, NEW t \in Threads, SaveToggle(t) PROVE IInv'
  <1> DEFINE r == request[t]
  <1>0. /\ r \in Requests /\ r.pc = "toggle" /\ r.on \in Notifiers /\ exists[r.on] \in BOOLEAN
    BY DEF SaveToggle, IInv, Types, Known
  <1>1. /\ enabled' \in [Notifiers -> BOOLEAN]
        /\ Answered(t, exists[r.on])
        /\ UNCHANGED <<exists, secret, sub, rows, key, gone, stage, due, told, spoilt, requests>>
    BY DEF SaveToggle, run, IInv, Types
  <1>2. request' \in [Threads -> Requests]
    BY <1>0, <1>1, AnsweredRequests
  <1>3. \A u \in Threads : Known(request[u])'
    BY <1>0, <1>1, AnsweredKnow
  <1>4. Types' /\ Told'
    BY <1>1, <1>2 DEF IInv, Types, Told
  <1>5. /\ \A d \in Devices : Subscription(sub[d])'
        /\ \A n \in Notifiers : Clean(secret[n])'
    BY <1>1 DEF IInv, Subscription, Clean
  <1> QED
    BY <1>3, <1>4, <1>5 DEF IInv

LEMMA DeleteInv == ASSUME IInv, NEW t \in Threads, Delete(t) PROVE IInv'
  <1> DEFINE n == request[t].on
  <1>0. request[t].pc = "delete" /\ n \in Notifiers /\ exists[n] \in BOOLEAN
    BY DEF Delete, IInv, Types, Known
  <1>1. /\ exists' = [exists EXCEPT ![n] = FALSE]
        /\ enabled' = [enabled EXCEPT ![n] = FALSE]
        /\ secret' = [secret EXCEPT ![n] = Raw(Blank)]
        /\ sub' = [d \in Devices |-> IF sub[d].notifier = n THEN NoSub ELSE sub[d]]
        /\ Answered(t, exists[n])
        /\ UNCHANGED <<rows, key, gone, stage, due, told, spoilt, requests>>
    BY DEF Delete, run
  <1>2. request' \in [Threads -> Requests]
    BY <1>0, <1>1, AnsweredRequests
  <1>3. NoSub \in [notifier : Notifiers \cup {NoNotifier}, id : 0..MaxRows]
    BY Bounds DEF NoSub
  <1>4. Types'
    BY <1>0, <1>1, <1>2, <1>3, BlankIsStored DEF IInv, Types
  <1>5. \A m \in Notifiers : m = n \/ (exists'[m] = exists[m] /\ secret'[m] = secret[m])
    BY <1>0, <1>1 DEF IInv, Types
  <1>6. \A u \in Threads : Known(request[u])'
    BY <1>0, <1>1, <1>5, AnsweredKnow
  <1>7. \A d \in Devices : Subscription(sub[d])'
    <2> SUFFICES ASSUME NEW d \in Devices PROVE Subscription(sub[d])'
      OBVIOUS
    <2>1. CASE sub'[d] = NoSub
      BY <2>1 DEF Subscription, NoSub
    <2>2. CASE sub'[d] = sub[d] /\ sub[d].notifier # n
      BY <1>5, <2>2 DEF IInv, Subscription, NoSub
    <2> QED
      BY <1>1, <2>1, <2>2
  <1>8. \A m \in Notifiers : Clean(secret[m])'
    BY <1>0, <1>1 DEF IInv, Types, Clean, Raw
  <1>9. Told'
    BY <1>1 DEF IInv, Told
  <1> QED
    BY <1>4, <1>6, <1>7, <1>8, <1>9 DEF IInv

LEMMA CreateInv == ASSUME IInv, NEW n \in Notifiers, Create(n) PROVE IInv'
  <1>1. /\ exists' = [exists EXCEPT ![n] = TRUE]
        /\ enabled' = [enabled EXCEPT ![n] = TRUE]
        /\ secret' = [secret EXCEPT ![n] = Raw(Blank)]
        /\ \A t \in Threads : request[t].on # n
        /\ UNCHANGED <<sub, rows, key, gone, stage, due, told, spoilt, request>>
    BY DEF Create, run
  <1>2. requests' \in 0..MaxRequests
    BY NotificationsAssumption DEF Create, Count, IInv, Types
  <1>3. Types' /\ Told'
    BY <1>1, <1>2, BlankIsStored DEF IInv, Types, Told
  <1>4. \A u \in Threads : Known(request[u])'
    BY <1>1 DEF IInv, Types, Known
  <1>5. \A d \in Devices : Subscription(sub[d])'
    BY <1>1 DEF IInv, Types, Subscription
  <1>6. \A m \in Notifiers : Clean(secret[m])'
    BY <1>1 DEF IInv, Types, Clean, Raw
  <1> QED
    BY <1>3, <1>4, <1>5, <1>6 DEF IInv

\* Only subscriptions change.
LEMMA SubscriptionsInv ==
    ASSUME IInv, UNCHANGED <<exists, enabled, secret, key, gone, stage, due, told, spoilt, requests>>,
           sub' \in [Devices -> [notifier : Notifiers \cup {NoNotifier}, id : 0..MaxRows]],
           rows' \in 0..MaxRows, request' \in [Threads -> Requests],
           \A d \in Devices : Subscription(sub[d])', \A u \in Threads : Known(request[u])'
    PROVE  IInv'
  <1>1. Types' /\ Told'
    BY DEF IInv, Types, Told
  <1>2. \A n \in Notifiers : Clean(secret[n])'
    BY DEF IInv, Clean
  <1> QED
    BY <1>1, <1>2 DEF IInv

LEMMA FindInv == ASSUME IInv, NEW t \in Threads, Find(t) PROVE IInv'
  <1> DEFINE n == request[t].on
  <1>0. /\ request[t].pc = "find" /\ n \in Notifiers /\ request[t] \in Requests
        /\ UNCHANGED <<exists, enabled, secret, key, gone, stage, due, told, spoilt, requests>>
    BY DEF Find, run, IInv, Types, Known
  <1>1. PICK d \in Devices :
          IF sub[d] = NoSub
            THEN /\ IF exists[n]
                      THEN /\ rows < MaxRows
                           /\ rows' = rows + 1
                           /\ sub' = [sub EXCEPT ![d] = [notifier |-> n, id |-> rows']]
                      ELSE UNCHANGED <<rows, sub>>
                 /\ Answered(t, FALSE)
            ELSE /\ request' = [request EXCEPT ![t] =
                                 [@ EXCEPT !.pc = "update", !.device = d, !.id = sub[d].id]]
                 /\ UNCHANGED <<rows, sub>>
    BY DEF Find
  <1>2. CASE sub[d] = NoSub
    <2>1. /\ request' \in [Threads -> Requests] /\ \A u \in Threads : Known(request[u])'
      BY <1>0, <1>1, <1>2, AnsweredRequests, AnsweredKnow
    <2>2. CASE UNCHANGED <<rows, sub>>
      BY <1>0, <2>1, <2>2, SubscriptionsInv DEF IInv, Types, Subscription
    <2>3. CASE /\ exists[n] /\ rows < MaxRows /\ rows' = rows + 1
               /\ sub' = [sub EXCEPT ![d] = [notifier |-> n, id |-> rows']]
      <3>1. rows' \in 1..MaxRows /\ rows' \in 0..MaxRows
        BY <2>3, NotificationsAssumption DEF IInv, Types
      <3>2. sub' \in [Devices -> [notifier : Notifiers \cup {NoNotifier}, id : 0..MaxRows]]
        BY <1>0, <2>3, <3>1 DEF IInv, Types
      <3>3. sub'[d] = [notifier |-> n, id |-> rows']
              /\ \A e \in Devices \ {d} : sub'[e] = sub[e]
        BY <2>3 DEF IInv, Types
      <3>4. \A e \in Devices : Subscription(sub[e])'
        BY <1>0, <2>3, <3>1, <3>3 DEF IInv, Subscription
      <3> QED
        BY <1>0, <2>1, <3>1, <3>2, <3>4, SubscriptionsInv
    <2> QED
      BY <1>1, <1>2, <2>2, <2>3
  <1>3. CASE sub[d] # NoSub
    <2>1. sub[d].id \in 1..MaxRows /\ sub[d].id \in 0..MaxRows
      BY <1>3, Bounds DEF IInv, Subscription
    <2>2. /\ request'[t] = [request[t] EXCEPT !.pc = "update", !.device = d, !.id = sub[d].id]
          /\ \A u \in Threads \ {t} : request'[u] = request[u]
      BY <1>1, <1>3 DEF IInv, Types
    <2>3. /\ request'[t] \in Requests /\ request'[t].pc = "update" /\ request'[t].on = n
          /\ request'[t].device = d /\ request'[t].id = sub[d].id
      BY <1>0, <2>1, <2>2 DEF Requests, Steps
    <2>4. request' \in [Threads -> Requests]
      BY <1>1, <1>3, <2>2, <2>3 DEF IInv, Types
    <2>5. Known(request[t])'
      BY <1>0, <2>1, <2>3 DEF Known
    <2>6. ASSUME NEW u \in Threads \ {t} PROVE Known(request[u])'
      BY <1>0, <2>2 DEF IInv, Known
    <2> QED
      BY <1>0, <1>1, <1>3, <2>4, <2>5, <2>6, SubscriptionsInv DEF IInv, Types, Subscription
  <1> QED
    BY <1>2, <1>3

LEMMA UpdateInv == ASSUME IInv, NEW t \in Threads, Update(t) PROVE IInv'
  <1> DEFINE r == request[t]
  <1>0. /\ r.pc = "update" /\ r.on \in Notifiers /\ r.device \in Devices
        /\ r.id \in 1..MaxRows /\ r.id \in 0..MaxRows
        /\ UNCHANGED <<exists, enabled, secret, rows, key, gone, stage, due, told, spoilt, requests>>
        /\ Answered(t, FALSE)
    BY Bounds DEF Update, run, IInv, Types, Known
  <1>1. /\ request' \in [Threads -> Requests] /\ \A u \in Threads : Known(request[u])'
    BY <1>0, AnsweredRequests, AnsweredKnow
  <1>2. CASE sub' = sub
    BY <1>0, <1>1, <1>2, SubscriptionsInv DEF IInv, Types, Subscription
  <1>3. CASE exists[r.on] /\ sub' = [sub EXCEPT ![r.device] = [notifier |-> r.on, id |-> r.id]]
    <2>1. sub' \in [Devices -> [notifier : Notifiers \cup {NoNotifier}, id : 0..MaxRows]]
      BY <1>0, <1>3 DEF IInv, Types
    <2>2. /\ sub'[r.device] = [notifier |-> r.on, id |-> r.id]
          /\ \A e \in Devices \ {r.device} : sub'[e] = sub[e]
      BY <1>0, <1>3 DEF IInv, Types
    <2>3. \A e \in Devices : Subscription(sub[e])'
      BY <1>0, <1>3, <2>2 DEF IInv, Subscription
    <2> QED
      BY <1>0, <1>1, <2>1, <2>3, SubscriptionsInv DEF IInv, Types
  <1> QED
    BY <1>2, <1>3 DEF Update

LEMMA UnsubscribeInv == ASSUME IInv, NEW t \in Threads, Unsubscribe(t) PROVE IInv'
  <1>0. /\ request[t].pc = "drop"
        /\ UNCHANGED <<exists, enabled, secret, rows, key, gone, stage, due, told, spoilt, requests>>
        /\ Answered(t, FALSE)
    BY DEF Unsubscribe, run
  <1>1. /\ request' \in [Threads -> Requests] /\ \A u \in Threads : Known(request[u])'
    BY <1>0, AnsweredRequests, AnsweredKnow
  <1>2. NoSub \in [notifier : Notifiers \cup {NoNotifier}, id : 0..MaxRows]
    BY Bounds DEF NoSub
  <1>3. /\ sub' \in [Devices -> [notifier : Notifiers \cup {NoNotifier}, id : 0..MaxRows]]
        /\ \A d \in Devices : sub'[d] = sub[d] \/ sub'[d] = NoSub
    BY <1>2 DEF Unsubscribe, IInv, Types
  <1>4. \A d \in Devices : Subscription(sub[d])'
    BY <1>0, <1>3 DEF IInv, Subscription, NoSub
  <1> QED
    BY <1>0, <1>1, <1>3, <1>4, SubscriptionsInv DEF IInv, Types

LEMMA OutsideInv == ASSUME IInv, RotateKey \/ DeviceChanges PROVE IInv'
  <1>1. CASE RotateKey
    <2>0. /\ key' \in 1..MaxKeys
          /\ UNCHANGED <<exists, enabled, secret, sub, rows, gone, stage, due, told, spoilt,
                         request, requests>>
      BY <1>1, NotificationsAssumption DEF RotateKey, table, run, IInv, Types
    <2>1. Types' /\ Told'
      BY <2>0 DEF IInv, Types, Told
    <2> QED
      BY <2>0, <2>1 DEF IInv, Subscription, Known, Clean
  <1>2. CASE DeviceChanges
    <2>0. /\ gone' \subseteq Devices
          /\ UNCHANGED <<exists, enabled, secret, sub, rows, key, stage, due, told, spoilt,
                         request, requests>>
      BY <1>2 DEF DeviceChanges, table, run, IInv, Types
    <2>1. Types' /\ Told'
      BY <2>0 DEF IInv, Types, Told
    <2> QED
      BY <2>0, <2>1 DEF IInv, Subscription, Known, Clean
  <1> QED
    BY <1>1, <1>2

LEMMA NextInv == ASSUME IInv, [Next]_vars PROVE IInv'
  <1>1. CASE Stage \/ NextRun
    BY <1>1, ConfigureInv, DispatchInv, DispatchRaisesInv, ReadDevicesInv, SendInv,
       RemovalRaisesInv, StageEndInv DEF Stage
  <1>2. ASSUME NEW t \in Threads, NEW n \in Notifiers,
               \/ \E typed \in Passwords, on \in BOOLEAN : ReceiveEdit(t, n, typed, on)
               \/ ReceiveToggle(t, n)
               \/ \E step \in {"delete"} \cup (IF n \in Push THEN {"find", "drop"} ELSE {}) :
                    ReceiveOther(t, n, step)
        PROVE  IInv'
    BY <1>2, ReceivedInv
  <1>3. ASSUME NEW n \in Notifiers, Create(n) PROVE IInv'
    BY <1>3, CreateInv
  <1>4. ASSUME NEW t \in Threads, \/ SaveEdit(t) \/ SaveToggle(t) \/ Delete(t)
                                  \/ Find(t) \/ Update(t) \/ Unsubscribe(t)
        PROVE  IInv'
    BY <1>4, SaveEditInv, SaveToggleInv, DeleteInv, FindInv, UpdateInv, UnsubscribeInv
  <1>5. CASE RotateKey \/ DeviceChanges
    BY <1>5, OutsideInv
  <1>6. CASE UNCHANGED vars
    <2>0. UNCHANGED <<exists, enabled, secret, sub, rows, key, gone, stage, due, told, spoilt,
                      request, requests>>
      BY <1>6 DEF vars, table, run
    <2>1. Types' /\ Told'
      BY <2>0 DEF IInv, Types, Told
    <2> QED
      BY <2>0, <2>1 DEF IInv, Subscription, Known, Clean
  <1> QED
    BY <1>1, <1>2, <1>3, <1>4, <1>5, <1>6 DEF Next

LEMMA AlwaysInv == Spec => []IInv
  BY InitInv, NextInv, PTL DEF Spec
-------------------------------------------------------------------------------
(* The theorems.                                                           *)

\* Rows, subscriptions, the stage and the requests keep their types, and every
\* subscription belongs to a notifier that is in the database.
THEOREM TypeCorrect == Spec => []TypeOK
  BY AlwaysInv, InvTypes, PTL

\* NotifyOnCompletion.run and WebPushNotifier.send: when the stage ends, every
\* notifier of the run was tried, unless the message for one could not be
\* prepared, and every device subscribed when it looked, unless the row of a
\* gone device could not be deleted.
THEOREM NobodyIsForgotten == Spec => []EveryoneIsTold
  <1>1. IInv => EveryoneIsTold
    BY DEF IInv, Told, EveryoneIsTold
  <1> QED
    BY <1>1, AlwaysInv, PTL

\* NotifierDeleteView against the other views: a deleted row comes back only by
\* a create, or by the save of an edit that had read it before.
THEOREM DeletedStays == Spec => DeletedNotifierStays
  <1> DEFINE Back(n) == ~exists[n] /\ exists'[n]
             Why(n) == \/ requests' # requests
                       \/ \E t \in Threads : /\ request[t].pc = "edit" /\ request[t].on = n
                                             /\ request[t].disturbed
  <1>1. ASSUME IInv, [Next]_vars, NEW n \in Notifiers, Back(n) PROVE Why(n)
    <2>0. exists \in [Notifiers -> BOOLEAN] /\ ~exists[n] /\ exists'[n]
      BY <1>1 DEF IInv, Types
    <2>1. ASSUME NEW t \in Threads, SaveEdit(t) PROVE Why(n)
      <3>1. request[t].on \in Notifiers /\ request[t].pc = "edit"
            /\ exists' = [exists EXCEPT ![request[t].on] = TRUE]
        BY <1>1, <2>1 DEF SaveEdit, IInv, Known
      <3>2. request[t].on = n
        BY <2>0, <3>1
      <3>3. request[t].disturbed
        BY <1>1, <2>0, <3>1, <3>2 DEF IInv, Known, Types, Requests
      <3> QED
        BY <3>1, <3>2, <3>3
    <2>2. ASSUME NEW m \in Notifiers, Create(m) PROVE Why(n)
      BY <1>1, <2>2 DEF Create, Count, IInv, Types
    <2>3. ASSUME NEW t \in Threads, Delete(t) PROVE FALSE
      BY <2>0, <2>3 DEF Delete
    <2>4. exists' # exists
      BY <2>0
    <2>5. \/ \E t \in Threads : SaveEdit(t) \/ Delete(t)
          \/ \E m \in Notifiers : Create(m)
      BY <1>1, <2>4 DEF Next, vars, table, Stage, Configure, Dispatch, DispatchRaises,
         ReadDevices, Send, RemovalRaises, Return, EndStage, NextRun, ReceiveEdit, ReceiveToggle, ReceiveOther, Receive,
         SaveToggle, Find, Update, Unsubscribe, RotateKey, DeviceChanges
    <2> QED
      BY <2>1, <2>2, <2>3, <2>5
  <1>2. IInv /\ [Next]_vars => [\A n \in Notifiers : Back(n) => Why(n)]_vars
    BY <1>1
  <1> QED
    BY <1>2, AlwaysInv, PTL DEF Spec, DeletedNotifierStays

\* NotifierEditView.post: an edit that nothing disturbed stores the password
\* that was typed, or keeps the one that would have been used.
THEOREM PasswordsAreKept == Spec => PasswordIsKept
  <1> DEFINE Kept == \A t \in Threads :
               LET r == request[t]
               IN  SaveEdit(t) /\ ~r.disturbed /\ r.typed \notin Prefixed
                     => Decrypted(secret'[r.on]) = IF r.typed = Blank
                                                     THEN Decrypted(secret[r.on]) ELSE r.typed
  <1>1. ASSUME IInv, NEW t \in Threads, SaveEdit(t), ~request[t].disturbed,
               request[t].typed \notin Prefixed
        PROVE  Decrypted(secret'[request[t].on]) = IF request[t].typed = Blank
                 THEN Decrypted(secret[request[t].on]) ELSE request[t].typed
    <2> DEFINE r == request[t]
    <2>1. /\ r \in Requests /\ r.on \in Notifiers /\ r.stored = secret[r.on]
          /\ secret'[r.on] = NewSecret(r) /\ key' = key /\ key \in 1..MaxKeys
      BY <1>1 DEF SaveEdit, IInv, Known, Types
    <2>2. secret[r.on] \in Stored /\ Clean(secret[r.on]) /\ r.typed \in Passwords
      BY <1>1, <2>1 DEF IInv, Types, Requests
    <2> DEFINE p == IF r.typed = Blank THEN Decrypted(r.stored) ELSE r.typed
    <2>3. p \in Passwords /\ p \notin Prefixed
      BY <1>1, <2>1, <2>2, DecryptedIs
    <2>4. Decrypted(Encrypted(p)) = p
      BY <2>1, <2>3, EncryptedIs
    <2>5. secret'[r.on] = Encrypted(p)
      BY <2>1 DEF NewSecret
    <2> QED
      BY <2>1, <2>4, <2>5
  <1>2. IInv => Kept
    BY <1>1
  <1> QED
    BY <1>2, AlwaysInv, PTL DEF Spec, PasswordIsKept

(***************************************************************************)
(* RunStream                                                               *)
(***************************************************************************)
(* What a page that has read the first k frames of S knows.                *)
HasLog(S, k, m) == \E j \in 1..k : S[j].type = "log" /\ S[j].n = m

(* Its last stage frame is change x or a later one.                        *)
StageFrom(S, k, x) ==
  /\ \A j \in 1..k : S[j].type = "stage" /\ (\A l \in (j + 1)..k : S[l].type # "stage") => S[j].n >= x
  /\ x > 0 => \E j \in 1..k : S[j].type = "stage"

NoHole(S) == \A i \in 1..Len(S) : S[i].type = "log" =>
               \A m \in 1..(S[i].n - 1) : HasLog(S, i - 1, m)

Covered(S, m) == \A n \in 1..m : HasLog(S, Len(S), n)

NoStageBelow(S, x) == \A i \in 1..Len(S) : S[i].type = "stage" => S[i].n >= x
None(S, type) == \A i \in 1..Len(S) : S[i].type # type

CompleteLate(S) ==
  \A i \in 1..Len(S) : S[i].type = "complete" =>
    /\ ended
    /\ \A n \in 1..atEnd.logs : HasLog(S, i - 1, n)
    /\ StageFrom(S, i - 1, atEnd.stages)

Collecting == Live \ {"notify"}
Final == {"lateLogs", "lateStages", "latePublish"}

RowsOf(w) ==
  /\ lastLog[w] <= logs /\ lastStage[w] <= stages
  /\ sawEnd[w] => ended
  /\ bpc[w] \in Final => sawEnd[w]
  /\ sawEnd[w] /\ bpc[w] \in {"stages", "publish"} \cup Final => lastLog[w] >= atEnd.logs
  /\ sawEnd[w] /\ bpc[w] \in {"publish"} \cup Final => lastStage[w] >= atEnd.stages
  /\ bpc[w] = "none" => events[w] = <<>> /\ frames[w] = <<>> /\ lastLog[w] = 0 /\ lastStage[w] = 0

RowsInv ==
  /\ atEnd.logs <= logs /\ atEnd.stages <= stages
  /\ \A w \in Workers : RowsOf(w)

LogsInv(w) ==
  /\ NoHole(events[w])
  /\ bpc[w] \in Collecting =>
       NoHole(events[w] \o frames[w]) /\ Covered(events[w] \o frames[w], lastLog[w])
  /\ bpc[w] = "poll" => Covered(events[w], lastLog[w])

StagesInv(w) ==
  /\ bpc[w] \in {"poll", "logs", "stages", "lateLogs", "lateStages"} =>
       StageFrom(events[w], Len(events[w]), lastStage[w])
  /\ bpc[w] \in {"logs", "stages"} => None(frames[w], "stage")
  /\ bpc[w] \in {"publish", "latePublish"} =>
       StageFrom(events[w] \o frames[w], Len(events[w] \o frames[w]), lastStage[w])
  /\ bpc[w] \in {"publish", "lateLogs", "lateStages"} => NoStageBelow(frames[w], lastStage[w])

EndInv(w) ==
  /\ CompleteLate(events[w])
  /\ bpc[w] \in Collecting => None(frames[w], "complete")

PageInv(v) ==
  /\ \A n \in 1..lastLogId[v] : shown[v][n] > 0
  /\ \A m, n \in 1..MaxLogs : m < n /\ shown[v][n] > 0 => shown[v][m] > 0
  /\ vpc[v] = "open" => \A i \in 1..cursor[v] :
       events[at[v]][i].type = "log" => shown[v][events[at[v]][i].n] > 0
  /\ vpc[v] = "open" =>
       \/ \A i \in 1..cursor[v] : events[at[v]][i].type # "stage"
       \/ \E j \in 1..cursor[v] : /\ events[at[v]][j].type = "stage"
                                  /\ \A l \in (j + 1)..cursor[v] : events[at[v]][l].type # "stage"
                                  /\ vstage[v] = events[at[v]][j].n
  /\ vpc[v] = "complete" =>
       ended /\ (\A n \in 1..atEnd.logs : shown[v][n] > 0) /\ atEnd.stages <= vstage[v]

WorkersInv == \A w \in Workers : LogsInv(w) /\ StagesInv(w) /\ EndInv(w)
PagesInv == \A v \in Viewers : PageInv(v)
StreamInv == StreamTypeOK /\ RowsInv /\ WorkersInv /\ PagesInv

-----------------------------------------------------------------------------
(* Sequences of frames.                                                    *)
LEMMA FrameFields ==
  ASSUME NEW f \in Frame
  PROVE  /\ f.type \in {"log", "stage", "complete", "done"}
         /\ f.type = "log" => f.n \in 1..MaxLogs
         /\ f.type = "stage" => f.n \in 1..MaxStages
  BY DEF Frame, LogFrame, StageFrame, CompleteFrame, DoneFrame

LEMMA Cat ==
  ASSUME NEW S \in Seq(Frame), NEW T \in Seq(Frame)
  PROVE  /\ S \o T \in Seq(Frame)
         /\ Len(S) \in Nat /\ Len(T) \in Nat /\ Len(S \o T) = Len(S) + Len(T)
         /\ \A i \in 1..Len(S) : (S \o T)[i] = S[i] /\ i \in 1..Len(S \o T)
         /\ \A i \in 1..Len(T) : (S \o T)[Len(S) + i] = T[i] /\ Len(S) + i \in 1..Len(S \o T)
         /\ \A i \in 1..Len(S \o T) :
              \/ i \in 1..Len(S) /\ (S \o T)[i] = S[i]
              \/ \E j \in 1..Len(T) : i = Len(S) + j /\ (S \o T)[i] = T[j]
  <1>1. Len(S) \in Nat /\ Len(T) \in Nat
    BY LenProperties
  <1>2. /\ S \o T \in Seq(Frame) /\ Len(S \o T) = Len(S) + Len(T)
        /\ \A i \in 1..Len(S) + Len(T) : (S \o T)[i] = IF i <= Len(S) THEN S[i] ELSE T[i - Len(S)]
    BY ConcatProperties
  <1>3. ASSUME NEW i \in 1..Len(S \o T), i > Len(S)
        PROVE  \E j \in 1..Len(T) : i = Len(S) + j /\ (S \o T)[i] = T[j]
    <2>1. i - Len(S) \in 1..Len(T) /\ i = Len(S) + (i - Len(S)) /\ (S \o T)[i] = T[i - Len(S)]
      BY <1>1, <1>2, <1>3
    <2> QED
      BY <2>1
  <1>4. ASSUME NEW i \in 1..Len(S) PROVE (S \o T)[i] = S[i] /\ i \in 1..Len(S \o T)
    BY <1>1, <1>2
  <1>5. ASSUME NEW i \in 1..Len(T)
        PROVE  (S \o T)[Len(S) + i] = T[i] /\ Len(S) + i \in 1..Len(S \o T)
    <2>1. Len(S) + i \in 1..(Len(S) + Len(T)) /\ ~(Len(S) + i <= Len(S)) /\ (Len(S) + i) - Len(S) = i
      BY <1>1
    <2> QED
      BY <1>2, <2>1
  <1>6. \A i \in 1..Len(S \o T) : i \in 1..Len(S) \/ i > Len(S)
    BY <1>1, <1>2
  <1> QED
    BY <1>1, <1>2, <1>3, <1>4, <1>5, <1>6

LEMMA CatAssociative ==
  ASSUME NEW S \in Seq(Frame), NEW T \in Seq(Frame), NEW U \in Seq(Frame)
  PROVE  (S \o T) \o U = S \o (T \o U)
  BY ConcatAssociative

LEMMA HasLogLater ==
  ASSUME NEW S, NEW k \in Nat, NEW l \in Nat, k <= l, NEW m, HasLog(S, k, m)
  PROVE  HasLog(S, l, m)
  BY DEF HasLog

(* What has been read does not change when frames are appended.            *)
LEMMA SamePrefix ==
  ASSUME NEW S, NEW R, NEW k \in Nat, \A i \in 1..k : R[i] = S[i]
  PROVE  /\ \A m : HasLog(R, k, m) <=> HasLog(S, k, m)
         /\ \A x : StageFrom(R, k, x) <=> StageFrom(S, k, x)
  <1>1. \A m : HasLog(R, k, m) <=> HasLog(S, k, m)
    BY DEF HasLog
  <1>2. ASSUME NEW x PROVE StageFrom(R, k, x) <=> StageFrom(S, k, x)
    <2>1. ASSUME NEW j \in 1..k, NEW l \in (j + 1)..k PROVE l \in 1..k
      OBVIOUS
    <2> QED
      BY <2>1 DEF StageFrom
  <1> QED
    BY <1>1, <1>2

LEMMA CatHasLog ==
  ASSUME NEW S \in Seq(Frame), NEW T \in Seq(Frame), NEW m
  PROVE  /\ HasLog(S, Len(S), m) => HasLog(S \o T, Len(S), m) /\ HasLog(S \o T, Len(S \o T), m)
         /\ HasLog(T, Len(T), m) => HasLog(S \o T, Len(S \o T), m)
  <1>1. ASSUME HasLog(S, Len(S), m)
        PROVE  HasLog(S \o T, Len(S), m) /\ HasLog(S \o T, Len(S \o T), m)
    <2>1. PICK j \in 1..Len(S) : S[j].type = "log" /\ S[j].n = m
      BY <1>1 DEF HasLog
    <2>2. (S \o T)[j] = S[j] /\ j \in 1..Len(S \o T)
      BY Cat
    <2> QED
      BY <2>1, <2>2 DEF HasLog
  <1>2. ASSUME HasLog(T, Len(T), m) PROVE HasLog(S \o T, Len(S \o T), m)
    <2>1. PICK j \in 1..Len(T) : T[j].type = "log" /\ T[j].n = m
      BY <1>2 DEF HasLog
    <2>2. (S \o T)[Len(S) + j] = T[j] /\ Len(S) + j \in 1..Len(S \o T)
      BY Cat
    <2> QED
      BY <2>1, <2>2 DEF HasLog
  <1> QED
    BY <1>1, <1>2

LEMMA CatCovered ==
  ASSUME NEW S \in Seq(Frame), NEW T \in Seq(Frame), NEW m, Covered(S, m)
  PROVE  Covered(S \o T, m)
  BY CatHasLog DEF Covered

LEMMA CatNone ==
  ASSUME NEW S \in Seq(Frame), NEW T \in Seq(Frame), NEW type, None(S, type), None(T, type)
  PROVE  None(S \o T, type)
  BY Cat DEF None

LEMMA CatNoStageBelow ==
  ASSUME NEW S \in Seq(Frame), NEW T \in Seq(Frame), NEW x, NoStageBelow(S, x), NoStageBelow(T, x)
  PROVE  NoStageBelow(S \o T, x)
  BY Cat DEF NoStageBelow

(* Every row that a frame of T needs before it is in S or earlier in T.    *)
LEMMA CatNoHole ==
  ASSUME NEW S \in Seq(Frame), NEW T \in Seq(Frame), NoHole(S),
         \A i \in 1..Len(T) : T[i].type = "log" =>
            \A m \in 1..(T[i].n - 1) : HasLog(S, Len(S), m) \/ HasLog(T, i - 1, m)
  PROVE  NoHole(S \o T)
  <1> SUFFICES ASSUME NEW i \in 1..Len(S \o T), (S \o T)[i].type = "log",
                      NEW m \in 1..((S \o T)[i].n - 1)
               PROVE  HasLog(S \o T, i - 1, m)
    BY DEF NoHole
  <1>1. CASE i \in 1..Len(S)
    <2>1. (S \o T)[i] = S[i]
      BY <1>1, Cat
    <2>2. HasLog(S, i - 1, m)
      BY <1>1, <2>1 DEF NoHole
    <2>3. \A j \in 1..(i - 1) : (S \o T)[j] = S[j]
      BY <1>1, Cat
    <2>4. i - 1 \in Nat
      BY <1>1
    <2> QED
      BY <2>2, <2>3 DEF HasLog
  <1>2. ASSUME NEW j \in 1..Len(T), i = Len(S) + j, (S \o T)[i] = T[j]
        PROVE  HasLog(S \o T, i - 1, m)
    <2>0. Len(S) \in Nat /\ i - 1 \in Nat /\ Len(S) <= i - 1
      BY <1>2, Cat
    <2>1. CASE HasLog(S, Len(S), m)
      BY <2>0, <2>1, CatHasLog, HasLogLater
    <2>2. CASE HasLog(T, j - 1, m)
      <3>1. PICK l \in 1..(j - 1) : T[l].type = "log" /\ T[l].n = m
        BY <2>2 DEF HasLog
      <3>2. l \in 1..Len(T) /\ Len(S) + l \in 1..(i - 1)
        BY <1>2, <2>0, <3>1, Cat
      <3>3. (S \o T)[Len(S) + l] = T[l]
        BY <3>2, Cat
      <3> QED
        BY <3>1, <3>2, <3>3 DEF HasLog
    <2> QED
      BY <1>2, <2>1, <2>2
  <1> QED
    BY <1>1, <1>2, Cat

(* The frames of the last poll are published a second time.                *)
LEMMA TwiceNoHole ==
  ASSUME NEW S \in Seq(Frame), NEW T \in Seq(Frame), NoHole(S \o T)
  PROVE  NoHole((S \o T) \o T)
  <1>1. ASSUME NEW i \in 1..Len(T), T[i].type = "log", NEW m \in 1..(T[i].n - 1)
        PROVE  HasLog(S \o T, Len(S \o T), m)
    <2>1. (S \o T)[Len(S) + i] = T[i] /\ Len(S) + i \in 1..Len(S \o T) /\ Len(S) \in Nat
          /\ Len(S \o T) \in Nat
      BY Cat
    <2>2. HasLog(S \o T, (Len(S) + i) - 1, m)
      BY <1>1, <2>1 DEF NoHole
    <2> QED
      BY <2>1, <2>2, HasLogLater
  <1>2. S \o T \in Seq(Frame)
    BY Cat
  <1> QED
    BY <1>1, <1>2, CatNoHole

LEMMA CatStages ==
  ASSUME NEW S \in Seq(Frame), NEW T \in Seq(Frame), NEW x \in Nat,
         StageFrom(S, Len(S), x), NoStageBelow(T, x)
  PROVE  StageFrom(S \o T, Len(S \o T), x)
  <1>1. ASSUME NEW j \in 1..Len(S \o T), (S \o T)[j].type = "stage",
               \A l \in (j + 1)..Len(S \o T) : (S \o T)[l].type # "stage"
        PROVE  (S \o T)[j].n >= x
    <2>1. CASE j \in 1..Len(S) /\ (S \o T)[j] = S[j]
      <3>1. \A l \in (j + 1)..Len(S) : l \in (j + 1)..Len(S \o T) /\ (S \o T)[l] = S[l]
        BY <2>1, Cat
      <3>2. \A l \in (j + 1)..Len(S) : S[l].type # "stage"
        BY <1>1, <3>1
      <3> QED
        BY <1>1, <2>1, <3>2 DEF StageFrom
    <2>2. CASE \E i \in 1..Len(T) : j = Len(S) + i /\ (S \o T)[j] = T[i]
      BY <1>1, <2>2 DEF NoStageBelow
    <2> QED
      BY <2>1, <2>2, Cat
  <1>2. ASSUME x > 0 PROVE \E j \in 1..Len(S \o T) : (S \o T)[j].type = "stage"
    <2>1. PICK j \in 1..Len(S) : S[j].type = "stage"
      BY <1>2 DEF StageFrom
    <2> QED
      BY <2>1, Cat
  <1> QED
    BY <1>1, <1>2 DEF StageFrom

LEMMA CatComplete ==
  ASSUME NEW S \in Seq(Frame), NEW T \in Seq(Frame), CompleteLate(S), None(T, "complete")
  PROVE  CompleteLate(S \o T)
  <1> SUFFICES ASSUME NEW i \in 1..Len(S \o T), (S \o T)[i].type = "complete"
               PROVE  /\ ended
                      /\ \A n \in 1..atEnd.logs : HasLog(S \o T, i - 1, n)
                      /\ StageFrom(S \o T, i - 1, atEnd.stages)
    BY DEF CompleteLate
  <1>1. i \in 1..Len(S) /\ S[i].type = "complete"
    <2>1. CASE i \in 1..Len(S) /\ (S \o T)[i] = S[i]
      BY <2>1
    <2>2. CASE \E j \in 1..Len(T) : i = Len(S) + j /\ (S \o T)[i] = T[j]
      BY <2>2 DEF None
    <2> QED
      BY <2>1, <2>2, Cat
  <1>2. i - 1 \in Nat /\ \A j \in 1..(i - 1) : (S \o T)[j] = S[j]
    BY <1>1, Cat
  <1> QED
    BY <1>1, <1>2, SamePrefix DEF CompleteLate

-----------------------------------------------------------------------------
(* What a query of the broadcaster collects.                               *)
LEMMA NewLogsFrames ==
  ASSUME StreamTypeOK, NEW w \in Workers, lastLog[w] <= logs, NEW hasId \in BOOLEAN
  PROVE  /\ NewLogs(w, hasId) \in Seq(Frame)
         /\ Len(NewLogs(w, hasId)) = logs - lastLog[w]
         /\ \A i \in 1..Len(NewLogs(w, hasId)) :
              NewLogs(w, hasId)[i].type = "log" /\ NewLogs(w, hasId)[i].n = lastLog[w] + i
  <1> DEFINE k == logs - lastLog[w]
             N == [i \in 1..k |-> LogFrame(lastLog[w] + i, hasId)]
  <1>1. k \in Nat /\ \A i \in 1..k : lastLog[w] + i \in 1..MaxLogs
    BY StreamAssumption DEF StreamTypeOK
  <1>2. \A i \in 1..k : LogFrame(lastLog[w] + i, hasId) \in Frame
    BY <1>1 DEF Frame
  <1>3. NewLogs(w, hasId) = N
    BY DEF NewLogs
  <1> HIDE DEF k
  <1>4. N \in Seq(Frame) /\ Len(N) = k
    <2>1. N \in [1..k -> Frame]
      BY <1>2
    <2> QED
      BY <1>1, <2>1
  <1>5. \A i \in 1..k : N[i].type = "log" /\ N[i].n = lastLog[w] + i
    BY DEF LogFrame
  <1> QED
    BY <1>3, <1>4, <1>5 DEF k

LEMMA NewLogsTypes ==
  ASSUME StreamTypeOK, NEW w \in Workers, lastLog[w] <= logs, NEW hasId \in BOOLEAN, NEW x
  PROVE  /\ None(NewLogs(w, hasId), "stage") /\ None(NewLogs(w, hasId), "complete")
         /\ NoStageBelow(NewLogs(w, hasId), x)
  BY NewLogsFrames DEF None, NoStageBelow

LEMMA NewLogsFillIn ==
  ASSUME StreamTypeOK, NEW w \in Workers, lastLog[w] <= logs, NEW hasId \in BOOLEAN,
         NEW S \in Seq(Frame), NoHole(S), Covered(S, lastLog[w])
  PROVE  NoHole(S \o NewLogs(w, hasId)) /\ Covered(S \o NewLogs(w, hasId), logs)
  <1>a. PICK a \in Nat, b \in Nat : a = lastLog[w] /\ b = logs /\ a <= b
    BY DEF StreamTypeOK
  <1>b. PICK k \in Nat : k = b - a
    BY <1>a
  <1>c. PICK N \in Seq(Frame) : N = NewLogs(w, hasId)
    BY NewLogsFrames
  <1>d. Len(N) = k /\ \A i \in 1..Len(N) : N[i].type = "log" /\ N[i].n = a + i
    BY <1>a, <1>b, <1>c, NewLogsFrames
  <1>0. /\ N = NewLogs(w, hasId) /\ a = lastLog[w] /\ b = logs /\ a + k = b
        /\ Len(N) = k
        /\ \A i \in 1..k : N[i].type = "log" /\ N[i].n = a + i
    BY <1>a, <1>b, <1>c, <1>d
  <1>1. ASSUME NEW i \in 1..k, NEW m \in 1..(N[i].n - 1)
        PROVE  HasLog(S, Len(S), m) \/ HasLog(N, i - 1, m)
    <2>1. N[i].n = a + i
      BY <1>0
    <2>4. m \in 1..(a + i - 1) /\ i \in Nat /\ i <= k
      BY <2>1
    <2>2. CASE m <= a
      <3>1. m \in 1..a /\ Covered(S, a)
        BY <1>0, <2>2, <2>4
      <3> QED
        BY <3>1 DEF Covered
    <2>3. CASE m > a
      <3>1. m - a \in 1..(i - 1) /\ m - a \in 1..k /\ a + (m - a) = m
        BY <2>3, <2>4
      <3>2. N[m - a].type = "log" /\ N[m - a].n = m
        BY <1>0, <3>1
      <3> QED
        BY <3>1, <3>2 DEF HasLog
    <2> QED
      BY <2>2, <2>3, <2>4
  <1>2. NoHole(S \o N)
    BY <1>0, <1>1, CatNoHole
  <1>3. ASSUME NEW n \in 1..b PROVE HasLog(S \o N, Len(S \o N), n)
    <2>1. CASE n <= a
      <3>1. HasLog(S, Len(S), n)
        BY <1>0, <2>1 DEF Covered
      <3> QED
        BY <3>1, CatHasLog
    <2>2. CASE n > a
      <3>1. n - a \in 1..k /\ a + (n - a) = n
        BY <1>0, <2>2
      <3>2. N[n - a].type = "log" /\ N[n - a].n = n /\ n - a \in 1..Len(N)
        BY <1>0, <3>1
      <3>3. HasLog(N, Len(N), n)
        BY <3>2 DEF HasLog
      <3> QED
        BY <3>3, CatHasLog
    <2> QED
      BY <2>1, <2>2
  <1> QED
    BY <1>0, <1>2, <1>3 DEF Covered

LEMMA NewStagesFrames ==
  ASSUME StreamTypeOK, NEW w \in Workers, lastStage[w] <= stages
  PROVE  /\ NewStages(w) \in Seq(Frame)
         /\ None(NewStages(w), "log") /\ None(NewStages(w), "complete")
         /\ NoStageBelow(NewStages(w), stages)
         /\ stages # lastStage[w] =>
              /\ Len(NewStages(w)) = 1 /\ NewStages(w)[1].type = "stage" /\ NewStages(w)[1].n = stages
  <1>1. CASE stages = lastStage[w]
    <2>1. NewStages(w) = <<>>
      BY <1>1 DEF NewStages
    <2> QED
      BY <1>1, <2>1 DEF None, NoStageBelow
  <1>2. CASE stages # lastStage[w]
    <2>1. stages \in 1..MaxStages
      BY <1>2, StreamAssumption DEF StreamTypeOK
    <2>2. StageFrame(stages) \in Frame
      BY <2>1 DEF Frame
    <2>3. NewStages(w) = <<StageFrame(stages)>>
      BY <1>2 DEF NewStages
    <2>4. NewStages(w) \in Seq(Frame) /\ Len(NewStages(w)) = 1 /\ NewStages(w)[1] = StageFrame(stages)
      BY <2>2, <2>3
    <2> QED
      BY <2>1, <2>4 DEF None, NoStageBelow, StageFrame
  <1> QED
    BY <1>1, <1>2

(* After them the last stage frame is the stage that was read.             *)
LEMMA NewStagesLast ==
  ASSUME StreamTypeOK, NEW w \in Workers, lastStage[w] <= stages,
         NEW S \in Seq(Frame), NEW x \in Nat, StageFrom(S, Len(S), lastStage[w])
  PROVE  StageFrom(S \o NewStages(w), Len(S \o NewStages(w)), stages)
  <1>0. stages \in Nat /\ lastStage[w] \in Nat
    BY DEF StreamTypeOK
  <1>1. CASE stages = lastStage[w]
    BY <1>0, <1>1, NewStagesFrames, CatStages
  <1>2. CASE stages # lastStage[w]
    <2>0. PICK T \in Seq(Frame) : T = NewStages(w)
      BY NewStagesFrames
    <2>1. Len(T) = 1 /\ T[1].type = "stage" /\ T[1].n = stages
      BY <1>2, <2>0, NewStagesFrames
    <2>2. 1 \in 1..Len(T)
      BY <2>1
    <2>11. (S \o T)[Len(S) + 1] = T[1]
      BY <2>2, Cat
    <2>12. Len(S) \in Nat /\ Len(S \o T) = Len(S) + Len(T)
      BY Cat
    <2>3. Len(S) \in Nat /\ Len(S \o T) = Len(S) + 1
      BY <2>1, <2>12
    <2>4. PICK k \in Nat : k = Len(S) /\ Len(S \o T) = k + 1 /\ (S \o T)[k + 1] = T[1]
      BY <2>3, <2>11
    <2>5. \A j \in 1..k : k + 1 \in (j + 1)..(k + 1)
      OBVIOUS
    <2>6. \A j \in 1..(k + 1) : j = k + 1 \/ j \in 1..k
      OBVIOUS
    <2>7. PICK R : R = S \o T
      OBVIOUS
    <2>8. \A j \in 1..(k + 1) : R[j].type = "stage" /\ (\A l \in (j + 1)..(k + 1) : R[l].type # "stage")
            => R[j].n >= stages
      BY <1>0, <2>1, <2>4, <2>5, <2>6, <2>7
    <2>9. k + 1 \in 1..(k + 1) /\ R[k + 1].type = "stage"
      BY <2>1, <2>4, <2>7
    <2>10. StageFrom(R, k + 1, stages)
      BY <2>8, <2>9 DEF StageFrom
    <2> QED
      BY <2>0, <2>4, <2>7, <2>10
  <1> QED
    BY <1>1, <1>2

-----------------------------------------------------------------------------
LEMMA EmptyFrames ==
  /\ <<>> \in Seq(Frame) /\ Len(<<>>) = 0 /\ <<>> \o <<>> = <<>>
  /\ NoHole(<<>>) /\ Covered(<<>>, 0) /\ StageFrom(<<>>, 0, 0) /\ CompleteLate(<<>>)
  /\ \A type : None(<<>>, type)
  BY DEF NoHole, Covered, StageFrom, CompleteLate, None

LEMMA StreamInitInv == StreamInit => StreamInv
  <1> SUFFICES ASSUME StreamInit PROVE StreamInv
    OBVIOUS
  <1>1. StreamTypeOK
    <2>1. /\ ended \in BOOLEAN /\ logs \in 0..MaxLogs /\ stages \in 0..MaxStages
          /\ atEnd \in [logs : 0..MaxLogs, stages : 0..MaxStages] /\ faults \in 0..MaxFaults
      <3>1. 0 \in 0..MaxLogs /\ 0 \in 0..MaxStages /\ 0 \in 0..MaxFaults
        BY StreamAssumption
      <3> QED
        BY <3>1 DEF StreamInit
    <2>2. /\ bpc \in [Workers -> BPC] /\ sawEnd \in [Workers -> BOOLEAN]
          /\ lastLog \in [Workers -> 0..MaxLogs] /\ lastStage \in [Workers -> 0..MaxStages]
          /\ frames \in [Workers -> Seq(Frame)] /\ events \in [Workers -> Seq(Frame)]
      BY StreamAssumption, EmptyFrames DEF StreamInit, BPC
    <2>3. /\ vpc \in [Viewers -> VPC] /\ at \in [Viewers -> Workers \cup {NoWorker}]
          /\ cursor \in [Viewers -> Nat] /\ lastLogId \in [Viewers -> 0..MaxLogs]
          /\ shown \in [Viewers -> [1..MaxLogs -> 0..2]] /\ vstage \in [Viewers -> 0..MaxStages]
      BY StreamAssumption DEF StreamInit, VPC
    <2>4. \A v \in Viewers : vpc[v] # "open"
      BY DEF StreamInit
    <2> QED
      BY <2>1, <2>2, <2>3, <2>4 DEF StreamTypeOK
  <1>2. RowsInv
    BY DEF StreamInit, RowsInv, RowsOf, Final
  <1>3. WorkersInv
    BY EmptyFrames DEF StreamInit, WorkersInv, LogsInv, StagesInv, EndInv, Collecting, Live
  <1>4. PagesInv
    BY DEF StreamInit, PagesInv, PageInv
  <1> QED
    BY <1>1, <1>2, <1>3, <1>4 DEF StreamInv

(* A broadcaster that takes no step, while the run has not ended.          *)
LEMMA WorkerKept ==
  ASSUME NEW u \in Workers, LogsInv(u), StagesInv(u), EndInv(u),
         bpc'[u] = bpc[u], events'[u] = events[u], frames'[u] = frames[u],
         lastLog'[u] = lastLog[u], lastStage'[u] = lastStage[u], UNCHANGED <<ended, atEnd>>
  PROVE  LogsInv(u)' /\ StagesInv(u)' /\ EndInv(u)'
  <1>1. LogsInv(u)'
    BY DEF LogsInv
  <1>2. StagesInv(u)'
    BY DEF StagesInv, StageFrom, None, NoStageBelow
  <1>3. EndInv(u)'
    BY DEF EndInv, CompleteLate, None, HasLog, StageFrom
  <1> QED
    BY <1>1, <1>2, <1>3

(* The pages, while what they have read stays where it was.                *)
LEMMA PagesKept ==
  ASSUME StreamTypeOK, PagesInv, UNCHANGED <<viewer, ended, atEnd>>,
         \A v \in Viewers : vpc[v] = "open" =>
           \A i \in 1..cursor[v] : events'[at[v]][i] = events[at[v]][i]
  PROVE  PagesInv'
  <1> SUFFICES ASSUME NEW v \in Viewers PROVE PageInv(v)'
    BY DEF PagesInv
  <1>1. /\ vpc' = vpc /\ at' = at /\ cursor' = cursor /\ lastLogId' = lastLogId /\ shown' = shown
        /\ vstage' = vstage /\ ended' = ended /\ atEnd' = atEnd
    BY DEF viewer
  <1>2. CASE vpc[v] # "open"
    BY <1>1, <1>2 DEF PagesInv, PageInv
  <1>3. CASE vpc[v] = "open"
    <2>1. cursor[v] \in Nat
      BY DEF StreamTypeOK
    <2>6. PICK c, E, F : c = cursor[v] /\ E = events[at[v]] /\ F = events'[at[v]]
      OBVIOUS
    <2>2. \A i \in 1..c : F[i] = E[i]
      BY <1>3, <2>6
    <2>3. \A j \in 1..c : \A l \in (j + 1)..c : l \in 1..c
      BY <2>1, <2>6
    <2>4. \A i \in 1..c : F[i].type = "log" => shown[v][F[i].n] > 0
      BY <1>3, <2>6, <2>2 DEF PagesInv, PageInv
    <2>5. \/ \A i \in 1..c : F[i].type # "stage"
          \/ \E j \in 1..c : /\ F[j].type = "stage" /\ vstage[v] = F[j].n
                             /\ \A l \in (j + 1)..c : F[l].type # "stage"
      BY <1>3, <2>6, <2>2, <2>3 DEF PagesInv, PageInv
    <2> QED
      BY <1>1, <1>3, <2>6, <2>4, <2>5 DEF PagesInv, PageInv
  <1> QED
    BY <1>2, <1>3

-----------------------------------------------------------------------------
(* The run.                                                                *)
LEMMA StepRun ==
  ASSUME StreamInv, WriteLog \/ ChangeStage \/ EndRun
  PROVE  StreamInv'
  <1>0. StreamTypeOK /\ RowsInv /\ WorkersInv /\ PagesInv
    BY DEF StreamInv
  <1>1. UNCHANGED <<broadcaster, viewer, faults>>
    BY DEF WriteLog, ChangeStage, EndRun
  <1>2. StreamTypeOK'
    <2>1. /\ ended' \in BOOLEAN /\ logs' \in 0..MaxLogs /\ stages' \in 0..MaxStages
          /\ atEnd' \in [logs : 0..MaxLogs, stages : 0..MaxStages]
      <3>1. CASE WriteLog
        BY <1>0, <3>1, StreamAssumption DEF StreamTypeOK, WriteLog
      <3>2. CASE ChangeStage
        BY <1>0, <3>2, StreamAssumption DEF StreamTypeOK, ChangeStage
      <3>3. CASE EndRun
        BY <1>0, <3>3, StreamAssumption DEF StreamTypeOK, EndRun
      <3> QED
        BY <3>1, <3>2, <3>3
    <2> QED
      BY <1>0, <1>1, <2>1 DEF StreamTypeOK, broadcaster, viewer
  <1>3. RowsInv'
    <2>1. CASE WriteLog \/ ChangeStage
      <3>1. /\ logs \in Nat /\ stages \in Nat /\ atEnd.logs \in Nat /\ atEnd.stages \in Nat
            /\ \A w \in Workers : lastLog[w] \in Nat /\ lastStage[w] \in Nat
        BY <1>0 DEF StreamTypeOK
      <3>2. /\ logs' \in {logs, logs + 1} /\ stages' \in {stages, stages + 1}
            /\ atEnd' = atEnd /\ ended' = ended
        BY <2>1 DEF WriteLog, ChangeStage
      <3> QED
        BY <1>0, <1>1, <3>1, <3>2 DEF RowsInv, RowsOf, broadcaster
    <2>2. CASE EndRun
      <3>1. ~ended /\ \A w \in Workers : ~sawEnd[w]
        BY <1>0, <2>2 DEF RowsInv, RowsOf, EndRun
      <3> QED
        BY <1>0, <1>1, <2>2, <3>1 DEF RowsInv, RowsOf, EndRun, broadcaster, StreamTypeOK
    <2> QED
      BY <2>1, <2>2
  <1>4. CASE WriteLog \/ ChangeStage
    <2>1. ended' = ended /\ atEnd' = atEnd
      BY <1>4 DEF WriteLog, ChangeStage
    <2>2. WorkersInv'
      BY <1>0, <1>1, <2>1, WorkerKept DEF WorkersInv, broadcaster
    <2>3. PagesInv'
      BY <1>0, <1>1, <2>1, PagesKept DEF broadcaster
    <2> QED
      BY <1>2, <1>3, <2>2, <2>3 DEF StreamInv
  <1>5. CASE EndRun
    <2>0. ~ended
      BY <1>5 DEF EndRun
    <2>1. ASSUME NEW u \in Workers PROVE LogsInv(u)' /\ StagesInv(u)' /\ EndInv(u)'
      <3>0. bpc' = bpc /\ events' = events /\ frames' = frames /\ lastLog' = lastLog /\ lastStage' = lastStage
        BY <1>1 DEF broadcaster
      <3>1. None(events[u], "complete")
        BY <1>0, <2>0 DEF WorkersInv, EndInv, CompleteLate, None
      <3>2. EndInv(u)'
        BY <1>0, <3>0, <3>1 DEF WorkersInv, EndInv, CompleteLate, None
      <3>3. LogsInv(u)'
        BY <1>0, <3>0 DEF WorkersInv, LogsInv
      <3>4. StagesInv(u)'
        BY <1>0, <3>0 DEF WorkersInv, StagesInv, StageFrom, None, NoStageBelow
      <3> QED
        BY <3>2, <3>3, <3>4
    <2>2. PagesInv'
      <3>1. \A v \in Viewers : vpc[v] # "complete"
        BY <1>0, <2>0 DEF PagesInv, PageInv
      <3> QED
        BY <1>0, <1>1, <3>1 DEF PagesInv, PageInv, broadcaster, viewer
    <2> QED
      BY <1>2, <1>3, <2>1, <2>2 DEF StreamInv, WorkersInv
  <1> QED
    BY <1>4, <1>5

-----------------------------------------------------------------------------
(* The broadcasters: what a step of one of them has to keep.               *)
LEMMA BroadcasterStep ==
  ASSUME StreamInv, NEW w \in Workers, UNCHANGED <<db, viewer>>,
         faults' \in 0..MaxFaults, bpc' \in [Workers -> BPC], sawEnd' \in [Workers -> BOOLEAN],
         lastLog' \in [Workers -> 0..MaxLogs], lastStage' \in [Workers -> 0..MaxStages],
         frames' \in [Workers -> Seq(Frame)], events' \in [Workers -> Seq(Frame)],
         \A u \in Workers \ {w} :
           /\ bpc'[u] = bpc[u] /\ sawEnd'[u] = sawEnd[u] /\ lastLog'[u] = lastLog[u]
           /\ lastStage'[u] = lastStage[u] /\ frames'[u] = frames[u] /\ events'[u] = events[u],
         RowsOf(w)', LogsInv(w)', StagesInv(w)', EndInv(w)',
         \/ events'[w] = events[w]
         \/ \E T \in Seq(Frame) : events'[w] = events[w] \o T
         \/ \A v \in Viewers : vpc[v] = "open" => at[v] # w
  PROVE  StreamInv'
  <1>0. StreamTypeOK /\ RowsInv /\ WorkersInv /\ PagesInv
    BY DEF StreamInv
  <1>1. /\ ended' = ended /\ logs' = logs /\ stages' = stages /\ atEnd' = atEnd
        /\ vpc' = vpc /\ at' = at /\ cursor' = cursor
    BY DEF db, viewer
  <1>2. ASSUME NEW v \in Viewers, vpc[v] = "open"
        PROVE  /\ at[v] # NoWorker /\ cursor[v] <= Len(events'[at[v]])
               /\ \A i \in 1..cursor[v] : events'[at[v]][i] = events[at[v]][i]
    <2>1. at[v] \in Workers /\ cursor[v] \in Nat /\ cursor[v] <= Len(events[at[v]])
      BY <1>0, <1>2 DEF StreamTypeOK
    <2>2. CASE at[v] # w
      BY <2>1, <2>2, StreamAssumption
    <2>3. CASE at[v] = w
      <3>1. PICK E \in Seq(Frame), F \in Seq(Frame) : E = events[w] /\ F = events'[w]
        BY <1>0 DEF StreamTypeOK
      <3>2. Len(E) \in Nat /\ Len(F) \in Nat
        BY LenProperties
      <3>3. Len(E) <= Len(F) /\ \A i \in 1..Len(E) : F[i] = E[i]
        BY <1>2, <2>3, <3>1, <3>2, Cat
      <3> QED
        BY <2>1, <2>3, <3>1, <3>2, <3>3, StreamAssumption
    <2> QED
      BY <2>2, <2>3
  <1>3. StreamTypeOK'
    BY <1>0, <1>2 DEF StreamTypeOK, db, viewer
  <1>4. RowsInv'
    <2>1. ASSUME NEW u \in Workers \ {w} PROVE RowsOf(u)'
      BY <1>0, <1>1 DEF RowsInv, RowsOf
    <2> QED
      BY <1>0, <1>1, <2>1 DEF RowsInv
  <1>5. WorkersInv'
    BY <1>0, <1>1, WorkerKept DEF WorkersInv
  <1>6. PagesInv'
    BY <1>0, <1>1, <1>2, PagesKept
  <1> QED
    BY <1>3, <1>4, <1>5, <1>6 DEF StreamInv

(* The facts a step of broadcaster w starts from.                          *)
LEMMA BroadcasterFacts ==
  ASSUME StreamInv, NEW w \in Workers
  PROVE  /\ StreamTypeOK /\ RowsInv /\ RowsOf(w) /\ LogsInv(w) /\ StagesInv(w) /\ EndInv(w)
         /\ events[w] \in Seq(Frame) /\ frames[w] \in Seq(Frame)
         /\ lastLog[w] \in Nat /\ lastStage[w] \in Nat /\ logs \in Nat /\ stages \in Nat
         /\ logs \in 0..MaxLogs /\ stages \in 0..MaxStages
         /\ atEnd.logs \in Nat /\ atEnd.stages \in Nat /\ faults \in 0..MaxFaults
  <1>1. StreamTypeOK /\ RowsInv /\ RowsOf(w) /\ LogsInv(w) /\ StagesInv(w) /\ EndInv(w)
    BY DEF StreamInv, RowsInv, WorkersInv
  <1> QED
    BY <1>1 DEF StreamTypeOK

LEMMA StepPollRun ==
  ASSUME StreamInv, NEW w \in Workers, PollRun(w)
  PROVE  StreamInv'
  <1> USE BroadcasterFacts
  <1>1. /\ bpc[w] = "poll" /\ bpc' = [bpc EXCEPT ![w] = "logs"]
        /\ sawEnd' = [sawEnd EXCEPT ![w] = ended] /\ frames' = [frames EXCEPT ![w] = <<>>]
        /\ UNCHANGED <<db, lastLog, lastStage, events, viewer, faults>>
    BY DEF PollRun, BGoto
  <1>2. /\ bpc' \in [Workers -> BPC] /\ sawEnd' \in [Workers -> BOOLEAN]
        /\ frames' \in [Workers -> Seq(Frame)]
    BY <1>1, EmptyFrames DEF StreamTypeOK, BPC
  <1>3. bpc'[w] = "logs" /\ sawEnd'[w] = ended /\ frames'[w] = <<>>
    BY <1>1 DEF StreamTypeOK
  <1>4. RowsOf(w)'
    BY <1>1, <1>3 DEF RowsOf, Final, db
  <1>5. LogsInv(w)'
    <2>1. events'[w] \o frames'[w] = events[w] /\ events'[w] = events[w]
      BY <1>1, <1>3, ConcatEmptySeq
    <2> QED
      BY <1>1, <1>3, <2>1 DEF LogsInv
  <1>6. StagesInv(w)'
    BY <1>1, <1>3, EmptyFrames DEF StagesInv
  <1>7. EndInv(w)'
    BY <1>1, <1>3, EmptyFrames DEF EndInv, CompleteLate, db
  <1> QED
    BY <1>1, <1>2, <1>4, <1>5, <1>6, <1>7, BroadcasterStep DEF StreamTypeOK

LEMMA StepPollLogs ==
  ASSUME StreamInv, NEW w \in Workers, NEW hasId \in BOOLEAN,
         NEW from, NEW next,
         \/ from = "logs" /\ next = "stages"
         \/ from = "lateLogs" /\ next = "lateStages",
         bpc[w] = from, BGoto(w, next),
         frames' = [frames EXCEPT ![w] = @ \o NewLogs(w, hasId)],
         lastLog' = [lastLog EXCEPT ![w] = logs],
         UNCHANGED <<db, sawEnd, lastStage, events, viewer, faults>>
  PROVE  StreamInv'
  <1> USE BroadcasterFacts
  <1>1. bpc' = [bpc EXCEPT ![w] = next] /\ next \in BPC
    BY DEF BGoto, BPC
  <1>2. PICK N \in Seq(Frame) :
          N = NewLogs(w, hasId) /\ None(N, "stage") /\ None(N, "complete") /\ NoStageBelow(N, lastStage[w])
    BY NewLogsFrames, NewLogsTypes DEF RowsOf
  <1>3. frames[w] \o N \in Seq(Frame)
    BY Cat
  <1>4. /\ bpc' \in [Workers -> BPC] /\ lastLog' \in [Workers -> 0..MaxLogs]
        /\ frames' \in [Workers -> Seq(Frame)]
    BY <1>1, <1>2, <1>3 DEF StreamTypeOK
  <1>5. bpc'[w] = next /\ lastLog'[w] = logs /\ frames'[w] = frames[w] \o N /\ events'[w] = events[w]
    BY <1>1, <1>2 DEF StreamTypeOK
  <1>6. RowsOf(w)'
    BY <1>5 DEF RowsInv, RowsOf, Final, db
  <1>7. LogsInv(w)'
    <2>1. NoHole(events[w] \o frames[w]) /\ Covered(events[w] \o frames[w], lastLog[w])
      BY DEF LogsInv, Collecting, Live
    <2>2. events[w] \o frames[w] \in Seq(Frame)
      BY Cat
    <2>3. NoHole((events[w] \o frames[w]) \o N) /\ Covered((events[w] \o frames[w]) \o N, logs)
      BY <1>2, <2>1, <2>2, NewLogsFillIn DEF RowsOf
    <2>4. (events[w] \o frames[w]) \o N = events[w] \o (frames[w] \o N)
      <3>1. PICK E \in Seq(Frame), F \in Seq(Frame) : E = events[w] /\ F = frames[w]
        OBVIOUS
      <3>2. (E \o F) \o N = E \o (F \o N)
        BY CatAssociative
      <3> QED
        BY <3>1, <3>2
    <2>5. events'[w] \o frames'[w] = (events[w] \o frames[w]) \o N
      BY <1>5, <2>4
    <2> QED
      BY <1>5, <2>3, <2>5 DEF LogsInv
  <1>8. StagesInv(w)'
    <2>1. StageFrom(events[w], Len(events[w]), lastStage[w])
      BY DEF StagesInv
    <2>2. from = "logs" => None(frames[w] \o N, "stage")
      BY <1>2, CatNone DEF StagesInv
    <2>3. from = "lateLogs" => NoStageBelow(frames[w] \o N, lastStage[w])
      BY <1>2, CatNoStageBelow DEF StagesInv
    <2> QED
      BY <1>5, <2>1, <2>2, <2>3 DEF StagesInv
  <1>9. EndInv(w)'
    <2>1. None(frames[w] \o N, "complete")
      BY <1>2, CatNone DEF EndInv, Collecting, Live
    <2> QED
      BY <1>5, <2>1 DEF EndInv, CompleteLate, db
  <1> QED
    BY <1>1, <1>4, <1>6, <1>7, <1>8, <1>9, BroadcasterStep DEF StreamTypeOK

LEMMA StepPollStages ==
  ASSUME StreamInv, NEW w \in Workers, NEW from, NEW next,
         \/ from = "stages" /\ next = "publish"
         \/ from = "lateStages" /\ next = "latePublish",
         bpc[w] = from, BGoto(w, next),
         frames' = [frames EXCEPT ![w] = @ \o NewStages(w)],
         lastStage' = [lastStage EXCEPT ![w] = stages],
         UNCHANGED <<db, sawEnd, lastLog, events, viewer, faults>>
  PROVE  StreamInv'
  <1> USE BroadcasterFacts
  <1>1. bpc' = [bpc EXCEPT ![w] = next] /\ next \in BPC
    BY DEF BGoto, BPC
  <1>2. PICK E \in Seq(Frame), F \in Seq(Frame), N \in Seq(Frame) :
          /\ E = events[w] /\ F = frames[w] /\ N = NewStages(w)
          /\ None(N, "log") /\ None(N, "complete") /\ NoStageBelow(N, stages)
    BY NewStagesFrames DEF RowsOf
  <1>3. /\ E \o F \in Seq(Frame) /\ F \o N \in Seq(Frame)
        /\ (E \o F) \o N = E \o (F \o N)
    <2>1. E \o F \in Seq(Frame) /\ F \o N \in Seq(Frame)
      BY Cat
    <2>2. (E \o F) \o N = E \o (F \o N)
      BY CatAssociative
    <2> QED
      BY <2>1, <2>2
  <1>4. /\ bpc' \in [Workers -> BPC] /\ lastStage' \in [Workers -> 0..MaxStages]
        /\ frames' \in [Workers -> Seq(Frame)]
    BY <1>1, <1>2, <1>3 DEF StreamTypeOK
  <1>5. bpc'[w] = next /\ lastStage'[w] = stages /\ frames'[w] = F \o N /\ events'[w] = E
    BY <1>1, <1>2 DEF StreamTypeOK
  <1>6. RowsOf(w)'
    BY <1>5 DEF RowsInv, RowsOf, Final, db
  <1>7. LogsInv(w)'
    <2>1. NoHole(E) /\ NoHole(E \o F) /\ Covered(E \o F, lastLog[w])
      BY <1>2 DEF LogsInv, Collecting, Live
    <2>2. NoHole((E \o F) \o N)
      BY <1>2, <1>3, <2>1, CatNoHole DEF None
    <2>3. Covered((E \o F) \o N, lastLog[w])
      BY <1>3, <2>1, CatCovered
    <2> QED
      BY <1>3, <1>5, <2>1, <2>2, <2>3 DEF LogsInv
  <1>8. StagesInv(w)'
    <2>1. StageFrom(E, Len(E), lastStage[w]) /\ NoStageBelow(F, lastStage[w])
      BY <1>2 DEF StagesInv, None, NoStageBelow
    <2>2. StageFrom(E \o F, Len(E \o F), lastStage[w])
      BY <2>1, CatStages
    <2>3. StageFrom((E \o F) \o N, Len((E \o F) \o N), stages)
      BY <1>2, <1>3, <2>2, NewStagesLast DEF RowsOf
    <2>4. from = "stages" => NoStageBelow(F \o N, stages)
      <3>1. from = "stages" => NoStageBelow(F, stages)
        BY <1>2 DEF StagesInv, None, NoStageBelow
      <3> QED
        BY <1>2, <3>1, CatNoStageBelow
    <2> QED
      BY <1>3, <1>5, <2>3, <2>4 DEF StagesInv
  <1>9. EndInv(w)'
    <2>1. None(F \o N, "complete")
      BY <1>2, CatNone DEF EndInv, Collecting, Live
    <2> QED
      BY <1>2, <1>5, <2>1 DEF EndInv, CompleteLate, db
  <1>10. \A u \in Workers \ {w} : bpc'[u] = bpc[u] /\ frames'[u] = frames[u] /\ lastStage'[u] = lastStage[u]
    BY <1>1 DEF StreamTypeOK
  <1> QED
    BY <1>2, <1>4, <1>5, <1>6, <1>7, <1>8, <1>9, <1>10, BroadcasterStep DEF StreamTypeOK

LEMMA StepPublish ==
  ASSUME StreamInv, NEW w \in Workers, Publish(w)
  PROVE  StreamInv'
  <1> USE BroadcasterFacts
  <1>1. PICK next \in {"lateLogs", "poll"} :
          /\ bpc[w] = "publish" /\ bpc' = [bpc EXCEPT ![w] = next]
          /\ next = "lateLogs" => sawEnd[w]
    BY DEF Publish, BGoto
  <1>2. PICK E \in Seq(Frame), F \in Seq(Frame) : E = events[w] /\ F = frames[w]
    OBVIOUS
  <1>3. E \o F \in Seq(Frame)
    BY Cat
  <1>4. /\ events' = [events EXCEPT ![w] = E \o F]
        /\ UNCHANGED <<db, sawEnd, lastLog, lastStage, frames, viewer, faults>>
    BY <1>2 DEF Publish
  <1>5. bpc' \in [Workers -> BPC] /\ events' \in [Workers -> Seq(Frame)]
    BY <1>1, <1>3, <1>4 DEF StreamTypeOK, BPC
  <1>6. bpc'[w] = next /\ events'[w] = E \o F /\ frames'[w] = F
    BY <1>1, <1>2, <1>4 DEF StreamTypeOK
  <1>7. RowsOf(w)'
    BY <1>1, <1>4, <1>6 DEF RowsOf, Final, db
  <1>8. LogsInv(w)'
    <2>1. NoHole(E \o F) /\ Covered(E \o F, lastLog[w])
      BY <1>1, <1>2 DEF LogsInv, Collecting, Live
    <2>2. NoHole((E \o F) \o F) /\ Covered((E \o F) \o F, lastLog[w])
      BY <1>3, <2>1, TwiceNoHole, CatCovered
    <2> QED
      BY <1>4, <1>6, <2>1, <2>2 DEF LogsInv
  <1>9. StagesInv(w)'
    BY <1>1, <1>2, <1>4, <1>6 DEF StagesInv
  <1>10. EndInv(w)'
    <2>1. CompleteLate(E) /\ None(F, "complete")
      BY <1>1, <1>2 DEF EndInv, Collecting, Live
    <2>2. CompleteLate(E \o F)
      BY <2>1, CatComplete
    <2> QED
      BY <1>4, <1>6, <2>1, <2>2 DEF EndInv, CompleteLate, db
  <1>11. \A u \in Workers \ {w} : bpc'[u] = bpc[u] /\ events'[u] = events[u]
    BY <1>1, <1>4 DEF StreamTypeOK
  <1> QED
    BY <1>2, <1>4, <1>5, <1>6, <1>7, <1>8, <1>9, <1>10, <1>11, BroadcasterStep DEF StreamTypeOK

Farewell == <<CompleteFrame, DoneFrame>>

LEMMA FarewellFrames ==
  /\ Farewell \in Seq(Frame) /\ Len(Farewell) = 2
  /\ Farewell[1].type = "complete" /\ Farewell[2].type = "done"
  <1>1. CompleteFrame \in Frame /\ DoneFrame \in Frame
    BY DEF Frame
  <1>2. Farewell \in Seq(Frame) /\ Len(Farewell) = 2 /\ Farewell[1] = CompleteFrame /\ Farewell[2] = DoneFrame
    BY <1>1 DEF Farewell
  <1> QED
    BY <1>2 DEF CompleteFrame, DoneFrame

(* 'complete' follows every row and stage there was when the run ended.    *)
LEMMA CompleteAppended ==
  ASSUME NEW S \in Seq(Frame), CompleteLate(S), ended,
         NEW m \in Nat, atEnd.logs \in Nat, m >= atEnd.logs, Covered(S, m),
         NEW x \in Nat, atEnd.stages \in Nat, x >= atEnd.stages, StageFrom(S, Len(S), x)
  PROVE  CompleteLate(S \o Farewell)
  <1> DEFINE T == S \o Farewell
  <1> SUFFICES ASSUME NEW i \in 1..Len(T), T[i].type = "complete"
               PROVE  /\ \A n \in 1..atEnd.logs : HasLog(T, i - 1, n)
                      /\ StageFrom(T, i - 1, atEnd.stages)
    BY DEF CompleteLate
  <1>1. CASE i \in 1..Len(S)
    <2>1. T[i] = S[i] /\ i - 1 \in Nat /\ \A j \in 1..(i - 1) : T[j] = S[j]
      BY <1>1, FarewellFrames, Cat
    <2>2. /\ \A n \in 1..atEnd.logs : HasLog(S, i - 1, n)
          /\ StageFrom(S, i - 1, atEnd.stages)
      BY <1>1, <2>1 DEF CompleteLate
    <2> QED
      BY <2>1, <2>2, SamePrefix
  <1>2. CASE \E j \in 1..Len(Farewell) : i = Len(S) + j /\ T[i] = Farewell[j]
    <2>1. Len(S) \in Nat /\ i = Len(S) + 1
      <3>1. PICK j \in 1..2 : i = Len(S) + j /\ T[i] = Farewell[j]
        BY <1>2, FarewellFrames
      <3>2. j = 1
        BY <3>1, FarewellFrames
      <3> QED
        BY <3>1, <3>2, LenProperties
    <2>2. i - 1 = Len(S) /\ \A j \in 1..Len(S) : T[j] = S[j]
      BY <2>1, FarewellFrames, Cat
    <2>3. \A n \in 1..atEnd.logs : HasLog(S, Len(S), n)
      <3>1. \A n \in 1..atEnd.logs : n \in 1..m
        OBVIOUS
      <3> QED
        BY <3>1 DEF Covered
    <2>4. StageFrom(S, Len(S), atEnd.stages)
      <3>1. \A j \in 1..Len(S) : S[j].type = "stage" => S[j].n \in Nat
        <4>1. \A j \in 1..Len(S) : S[j] \in Frame
          BY LenProperties, ElementOfSeq
        <4> QED
          BY <4>1, FrameFields
      <3>2. ASSUME NEW j \in 1..Len(S), S[j].type = "stage", S[j].n >= x PROVE S[j].n >= atEnd.stages
        BY <3>1, <3>2
      <3> QED
        BY <3>2 DEF StageFrom
    <2>5. /\ \A n : HasLog(T, Len(S), n) <=> HasLog(S, Len(S), n)
          /\ \A y : StageFrom(T, Len(S), y) <=> StageFrom(S, Len(S), y)
      BY <2>1, <2>2, SamePrefix
    <2> QED
      BY <2>2, <2>3, <2>4, <2>5
  <1> QED
    BY <1>1, <1>2, FarewellFrames, Cat

LEMMA StepLatePublish ==
  ASSUME StreamInv, NEW w \in Workers, LatePublish(w)
  PROVE  StreamInv'
  <1> USE BroadcasterFacts
  <1>1. bpc[w] = "latePublish" /\ bpc' = [bpc EXCEPT ![w] = "notify"]
    BY DEF LatePublish, BGoto
  <1>2. PICK E \in Seq(Frame), F \in Seq(Frame) : E = events[w] /\ F = frames[w]
    OBVIOUS
  <1>3. E \o F \in Seq(Frame) /\ (E \o F) \o Farewell \in Seq(Frame)
    <2>1. E \o F \in Seq(Frame)
      BY Cat
    <2> QED
      BY <2>1, FarewellFrames, Cat
  <1>12. \E T \in Seq(Frame) : (E \o F) \o Farewell = E \o T
    <2>1. F \o Farewell \in Seq(Frame)
      BY FarewellFrames, Cat
    <2>2. (E \o F) \o Farewell = E \o (F \o Farewell)
      BY FarewellFrames, CatAssociative
    <2> QED
      BY <2>1, <2>2
  <1>4. /\ events' = [events EXCEPT ![w] = (E \o F) \o Farewell]
        /\ UNCHANGED <<db, sawEnd, lastLog, lastStage, frames, viewer, faults>>
    BY <1>2 DEF LatePublish, Farewell
  <1>5. bpc' \in [Workers -> BPC] /\ events' \in [Workers -> Seq(Frame)]
    BY <1>1, <1>3, <1>4 DEF StreamTypeOK, BPC
  <1>6. bpc'[w] = "notify" /\ events'[w] = (E \o F) \o Farewell
    BY <1>1, <1>2, <1>4 DEF StreamTypeOK
  <1>7. RowsOf(w)'
    BY <1>1, <1>4, <1>6 DEF RowsOf, Final, db
  <1>8. LogsInv(w)'
    <2>1. NoHole(E \o F)
      BY <1>1, <1>2 DEF LogsInv, Collecting, Live
    <2>2. \A i \in 1..Len(Farewell) : Farewell[i].type # "log"
      BY FarewellFrames
    <2>3. NoHole((E \o F) \o Farewell)
      BY <1>3, <2>1, <2>2, FarewellFrames, CatNoHole
    <2> QED
      BY <1>6, <2>3 DEF LogsInv, Collecting, Live
  <1>9. StagesInv(w)'
    BY <1>6 DEF StagesInv
  <1>10. EndInv(w)'
    <2>1. CompleteLate(E) /\ None(F, "complete")
      BY <1>1, <1>2 DEF EndInv, Collecting, Live
    <2>2. CompleteLate(E \o F)
      BY <2>1, CatComplete
    <2>3. Covered(E \o F, lastLog[w]) /\ StageFrom(E \o F, Len(E \o F), lastStage[w])
      BY <1>1, <1>2 DEF LogsInv, StagesInv, Collecting, Live
    <2>4. ended /\ lastLog[w] >= atEnd.logs /\ lastStage[w] >= atEnd.stages
      BY <1>1 DEF RowsOf, Final
    <2>5. CompleteLate((E \o F) \o Farewell)
      BY <1>3, <2>2, <2>3, <2>4, CompleteAppended
    <2> QED
      BY <1>4, <1>6, <2>5 DEF EndInv, CompleteLate, Collecting, Live, db
  <1>11. \A u \in Workers \ {w} : bpc'[u] = bpc[u] /\ events'[u] = events[u]
    BY <1>1, <1>4 DEF StreamTypeOK
  <1> QED
    BY <1>2, <1>4, <1>5, <1>6, <1>7, <1>8, <1>9, <1>10, <1>11, <1>12, BroadcasterStep DEF StreamTypeOK

(* The thread ends, after its last step or because a query raised.         *)
LEMMA StepDone ==
  ASSUME StreamInv, NEW w \in Workers, Finish(w) \/ PollRaises(w)
  PROVE  StreamInv'
  <1> USE BroadcasterFacts
  <1>1. /\ bpc' = [bpc EXCEPT ![w] = "done"]
        /\ UNCHANGED <<db, sawEnd, lastLog, lastStage, frames, events, viewer>>
    BY DEF Finish, PollRaises, BGoto
  <1>2. faults' \in 0..MaxFaults
    BY StreamAssumption DEF Finish, PollRaises
  <1>3. bpc' \in [Workers -> BPC] /\ bpc'[w] = "done" /\ \A u \in Workers \ {w} : bpc'[u] = bpc[u]
    BY <1>1 DEF StreamTypeOK, BPC
  <1>4. RowsOf(w)'
    BY <1>1, <1>3 DEF RowsOf, Final, db
  <1>5. LogsInv(w)'
    BY <1>1, <1>3 DEF LogsInv, Collecting, Live
  <1>6. StagesInv(w)'
    BY <1>3 DEF StagesInv
  <1>7. EndInv(w)'
    BY <1>1, <1>3 DEF EndInv, CompleteLate, Collecting, Live, db
  <1> QED
    BY <1>1, <1>2, <1>3, <1>4, <1>5, <1>6, <1>7, BroadcasterStep DEF StreamTypeOK

LEMMA StepExpire ==
  ASSUME StreamInv, NEW w \in Workers, Expire(w)
  PROVE  StreamInv'
  <1> USE BroadcasterFacts
  <1>1. /\ bpc' = [bpc EXCEPT ![w] = "none"] /\ sawEnd' = [sawEnd EXCEPT ![w] = FALSE]
        /\ lastLog' = [lastLog EXCEPT ![w] = 0] /\ lastStage' = [lastStage EXCEPT ![w] = 0]
        /\ frames' = [frames EXCEPT ![w] = <<>>] /\ events' = [events EXCEPT ![w] = <<>>]
        /\ UNCHANGED <<db, viewer, faults>>
        /\ \A v \in Viewers : vpc[v] = "open" => at[v] # w
    BY DEF Expire, BGoto
  <1>2. /\ bpc' \in [Workers -> BPC] /\ sawEnd' \in [Workers -> BOOLEAN]
        /\ lastLog' \in [Workers -> 0..MaxLogs] /\ lastStage' \in [Workers -> 0..MaxStages]
        /\ frames' \in [Workers -> Seq(Frame)] /\ events' \in [Workers -> Seq(Frame)]
    BY <1>1, EmptyFrames, StreamAssumption DEF StreamTypeOK, BPC
  <1>3. /\ bpc'[w] = "none" /\ sawEnd'[w] = FALSE /\ lastLog'[w] = 0 /\ lastStage'[w] = 0
        /\ frames'[w] = <<>> /\ events'[w] = <<>>
    BY <1>1 DEF StreamTypeOK
  <1>4. \A u \in Workers \ {w} :
          /\ bpc'[u] = bpc[u] /\ sawEnd'[u] = sawEnd[u] /\ lastLog'[u] = lastLog[u]
          /\ lastStage'[u] = lastStage[u] /\ frames'[u] = frames[u] /\ events'[u] = events[u]
    BY <1>1 DEF StreamTypeOK
  <1>5. RowsOf(w)'
    BY <1>1, <1>3 DEF RowsOf, Final, db
  <1>6. LogsInv(w)'
    BY <1>3, EmptyFrames DEF LogsInv, Collecting, Live
  <1>7. StagesInv(w)'
    BY <1>3 DEF StagesInv
  <1>8. EndInv(w)'
    BY <1>3, EmptyFrames DEF EndInv, CompleteLate, Collecting, Live
  <1>9. faults' \in 0..MaxFaults /\ UNCHANGED <<db, viewer>>
    BY <1>1
  <1> QED
    BY <1>1, <1>2, <1>4, <1>5, <1>6, <1>7, <1>8, <1>9, BroadcasterStep

-----------------------------------------------------------------------------
(* The pages: what a step of one of them has to keep.                      *)
SamePage(u) ==
  /\ vpc'[u] = vpc[u] /\ at'[u] = at[u] /\ cursor'[u] = cursor[u]
  /\ lastLogId'[u] = lastLogId[u] /\ shown'[u] = shown[u] /\ vstage'[u] = vstage[u]

LEMMA ViewerStep ==
  ASSUME StreamInv, NEW v \in Viewers, UNCHANGED <<db, sawEnd, lastLog, lastStage, frames, events>>,
         bpc' \in [Workers -> BPC], RowsInv', WorkersInv', faults' \in 0..MaxFaults,
         vpc' \in [Viewers -> VPC], at' \in [Viewers -> Workers \cup {NoWorker}],
         cursor' \in [Viewers -> Nat], lastLogId' \in [Viewers -> 0..MaxLogs],
         shown' \in [Viewers -> [1..MaxLogs -> 0..2]], vstage' \in [Viewers -> 0..MaxStages],
         \A u \in Viewers \ {v} : SamePage(u),
         vpc'[v] = "open" => at'[v] # NoWorker /\ cursor'[v] <= Len(events[at'[v]]),
         PageInv(v)'
  PROVE  StreamInv'
  <1>0. StreamTypeOK /\ RowsInv /\ WorkersInv /\ PagesInv
    BY DEF StreamInv
  <1>1. StreamTypeOK'
    <2>1. \A u \in Viewers : vpc'[u] = "open" => at'[u] # NoWorker /\ cursor'[u] <= Len(events'[at'[u]])
      BY <1>0 DEF SamePage, StreamTypeOK
    <2> QED
      BY <1>0, <2>1 DEF StreamTypeOK, db
  <1>2. ASSUME NEW u \in Viewers \ {v} PROVE PageInv(u)'
    <2>1. SamePage(u) /\ events' = events /\ ended' = ended /\ atEnd' = atEnd /\ PageInv(u)
      BY <1>0 DEF db, PagesInv
    <2> QED
      BY <2>1 DEF PageInv, SamePage
  <1> QED
    BY <1>0, <1>1, <1>2 DEF StreamInv, PagesInv

LEMMA ViewerFacts ==
  ASSUME StreamInv, NEW v \in Viewers
  PROVE  /\ StreamTypeOK /\ RowsInv /\ WorkersInv /\ PageInv(v)
         /\ logs \in 0..MaxLogs /\ stages \in 0..MaxStages /\ faults \in 0..MaxFaults
         /\ shown[v] \in [1..MaxLogs -> 0..2] /\ cursor[v] \in Nat /\ lastLogId[v] \in 0..MaxLogs
         /\ vstage[v] \in 0..MaxStages
         /\ vpc[v] = "open" => /\ at[v] \in Workers /\ cursor[v] <= Len(events[at[v]])
                               /\ events[at[v]] \in Seq(Frame)
  <1>1. StreamTypeOK /\ RowsInv /\ WorkersInv /\ PageInv(v)
    BY DEF StreamInv, PagesInv
  <1> QED
    BY <1>1 DEF StreamTypeOK

(* A viewer that connects may start a broadcaster, which has sent nothing. *)
LEMMA BroadcasterStarts ==
  ASSUME StreamInv, NEW w \in Workers, GetBroadcaster(w), UNCHANGED db
  PROVE  bpc' \in [Workers -> BPC] /\ RowsInv' /\ WorkersInv'
  <1>0. StreamTypeOK /\ RowsInv /\ WorkersInv
    BY DEF StreamInv
  <1>1. UNCHANGED <<sawEnd, lastLog, lastStage, frames, events, ended, logs, stages, atEnd>>
    BY DEF GetBroadcaster, db
  <1>2. CASE bpc[w] # "none"
    <2>1. bpc' = bpc
      BY <1>0, <1>2 DEF GetBroadcaster, BGoto, StreamTypeOK
    <2>2. RowsInv'
      BY <1>0, <1>1, <2>1 DEF RowsInv, RowsOf
    <2>3. WorkersInv'
      BY <1>0, <1>1, <2>1, WorkerKept DEF WorkersInv
    <2> QED
      BY <1>0, <2>1, <2>2, <2>3 DEF StreamTypeOK
  <1>3. CASE bpc[w] = "none"
    <2>1. bpc' = [bpc EXCEPT ![w] = "poll"]
      BY <1>3 DEF GetBroadcaster, BGoto
    <2>2. bpc' \in [Workers -> BPC] /\ bpc'[w] = "poll" /\ \A u \in Workers \ {w} : bpc'[u] = bpc[u]
      BY <1>0, <2>1 DEF StreamTypeOK, BPC
    <2>3. events'[w] = <<>> /\ frames'[w] = <<>> /\ lastLog'[w] = 0 /\ lastStage'[w] = 0
      BY <1>0, <1>1, <1>3 DEF RowsInv, RowsOf
    <2>4. RowsInv'
      <3>1. RowsOf(w)'
        BY <1>0, <1>1, <2>2 DEF RowsInv, RowsOf, Final
      <3>2. \A u \in Workers \ {w} : RowsOf(u)'
        BY <1>0, <1>1, <2>2 DEF RowsInv, RowsOf
      <3> QED
        BY <1>0, <1>1, <3>1, <3>2 DEF RowsInv
    <2>5. WorkersInv'
      <3>1. LogsInv(w)' /\ StagesInv(w)'
        BY <2>2, <2>3, EmptyFrames DEF LogsInv, StagesInv
      <3>2. EndInv(w)'
        BY <2>2, <2>3, EmptyFrames DEF EndInv, CompleteLate
      <3>3. \A u \in Workers \ {w} : LogsInv(u)' /\ StagesInv(u)' /\ EndInv(u)'
        BY <1>0, <1>1, <2>2, WorkerKept DEF WorkersInv
      <3> QED
        BY <3>1, <3>2, <3>3 DEF WorkersInv
    <2> QED
      BY <2>2, <2>4, <2>5
  <1> QED
    BY <1>2, <1>3

(* The rows rendered by the server are the first ones.                     *)
LEMMA Rendered ==
  ASSUME StreamInv, NEW v \in Viewers, RenderLogs(v)
  PROVE  /\ shown' \in [Viewers -> [1..MaxLogs -> 0..2]]
         /\ lastLogId' \in [Viewers -> 0..MaxLogs] /\ vstage' \in [Viewers -> 0..MaxStages]
         /\ \A n \in 1..lastLogId'[v] : shown'[v][n] > 0
         /\ \A m, n \in 1..MaxLogs : m < n /\ shown'[v][n] > 0 => shown'[v][m] > 0
         /\ \A u \in Viewers \ {v} : shown'[u] = shown[u] /\ lastLogId'[u] = lastLogId[u] /\ vstage'[u] = vstage[u]
  <1> DEFINE all == [n \in 1..MaxLogs |-> IF n <= logs THEN 1 ELSE 0]
  <1>0. StreamTypeOK /\ logs \in 0..MaxLogs /\ stages \in 0..MaxStages
    BY ViewerFacts
  <1>1. /\ shown' = [shown EXCEPT ![v] = all] /\ lastLogId' = [lastLogId EXCEPT ![v] = logs]
        /\ vstage' = [vstage EXCEPT ![v] = stages]
    BY DEF RenderLogs
  <1>2. all \in [1..MaxLogs -> 0..2] /\ \A n \in 1..MaxLogs : all[n] > 0 <=> n <= logs
    OBVIOUS
  <1> HIDE DEF all
  <1>3. shown'[v] = all /\ lastLogId'[v] = logs
    BY <1>0, <1>1 DEF StreamTypeOK
  <1>4. \A n \in 1..logs : n \in 1..MaxLogs /\ n <= logs
    BY <1>0, StreamAssumption
  <1>5. \A m, n \in 1..MaxLogs : m < n /\ n <= logs => m <= logs
    BY <1>0, StreamAssumption
  <1> QED
    BY <1>0, <1>1, <1>2, <1>3, <1>4, <1>5 DEF StreamTypeOK

LEMMA StepOpenPage ==
  ASSUME StreamInv, NEW v \in Viewers, OpenPage(v)
  PROVE  StreamInv'
  <1> USE ViewerFacts
  <1>1. PICK label \in {"closed", "loading"} : vpc' = [vpc EXCEPT ![v] = label]
    BY DEF OpenPage, VGoto
  <1>2. /\ vpc' \in [Viewers -> VPC] /\ vpc'[v] \in {"closed", "loading"}
        /\ \A u \in Viewers \ {v} : vpc'[u] = vpc[u]
    BY <1>1 DEF StreamTypeOK, VPC
  <1>3. UNCHANGED <<db, broadcaster, at, cursor, faults>>
    BY DEF OpenPage
  <1>4. RowsInv' /\ WorkersInv'
    <2>1. RowsInv'
      BY <1>3 DEF RowsInv, RowsOf, db, broadcaster
    <2>2. WorkersInv'
      BY <1>3, WorkerKept DEF WorkersInv, db, broadcaster
    <2> QED
      BY <2>1, <2>2
  <1>5. /\ shown' \in [Viewers -> [1..MaxLogs -> 0..2]]
        /\ lastLogId' \in [Viewers -> 0..MaxLogs] /\ vstage' \in [Viewers -> 0..MaxStages]
        /\ \A n \in 1..lastLogId'[v] : shown'[v][n] > 0
        /\ \A m, n \in 1..MaxLogs : m < n /\ shown'[v][n] > 0 => shown'[v][m] > 0
        /\ \A u \in Viewers \ {v} : shown'[u] = shown[u] /\ lastLogId'[u] = lastLogId[u] /\ vstage'[u] = vstage[u]
    <2>1. CASE RenderLogs(v)
      BY <2>1, Rendered
    <2>2. CASE UNCHANGED <<shown, lastLogId, vstage>>
      BY <2>2 DEF StreamTypeOK, PageInv
    <2> QED
      BY <2>1, <2>2 DEF OpenPage
  <1>6. PageInv(v)'
    BY <1>2, <1>5 DEF PageInv
  <1>7. \A u \in Viewers \ {v} : SamePage(u)
    BY <1>2, <1>3, <1>5 DEF SamePage
  <1> QED
    BY <1>2, <1>3, <1>4, <1>5, <1>6, <1>7, ViewerStep DEF StreamTypeOK, broadcaster

LEMMA StepLoadPage ==
  ASSUME StreamInv, NEW v \in Viewers, LoadPage(v)
  PROVE  StreamInv'
  <1> USE ViewerFacts
  <1>1. PICK w \in Workers : /\ GetBroadcaster(w) /\ vpc' = [vpc EXCEPT ![v] = "open"]
                             /\ at' = [at EXCEPT ![v] = w] /\ cursor' = [cursor EXCEPT ![v] = 0]
    BY DEF LoadPage, Connect, VGoto
  <1>2. /\ vpc' \in [Viewers -> VPC] /\ at' \in [Viewers -> Workers \cup {NoWorker}]
        /\ cursor' \in [Viewers -> Nat]
        /\ vpc'[v] = "open" /\ at'[v] = w /\ cursor'[v] = 0
        /\ \A u \in Viewers \ {v} : vpc'[u] = vpc[u] /\ at'[u] = at[u] /\ cursor'[u] = cursor[u]
    BY <1>1 DEF StreamTypeOK, VPC
  <1>3. RenderLogs(v) /\ UNCHANGED <<db, faults, sawEnd, lastLog, lastStage, frames, events>>
    BY <1>1 DEF LoadPage, GetBroadcaster
  <1>4. bpc' \in [Workers -> BPC] /\ RowsInv' /\ WorkersInv'
    BY <1>1, <1>3, BroadcasterStarts
  <1>5. /\ shown' \in [Viewers -> [1..MaxLogs -> 0..2]]
        /\ lastLogId' \in [Viewers -> 0..MaxLogs] /\ vstage' \in [Viewers -> 0..MaxStages]
        /\ \A n \in 1..lastLogId'[v] : shown'[v][n] > 0
        /\ \A m, n \in 1..MaxLogs : m < n /\ shown'[v][n] > 0 => shown'[v][m] > 0
        /\ \A u \in Viewers \ {v} : shown'[u] = shown[u] /\ lastLogId'[u] = lastLogId[u] /\ vstage'[u] = vstage[u]
    BY <1>3, Rendered
  <1>6. PageInv(v)'
    BY <1>2, <1>5 DEF PageInv
  <1>7. \A u \in Viewers \ {v} : SamePage(u)
    BY <1>2, <1>5 DEF SamePage
  <1>8. at'[v] # NoWorker /\ cursor'[v] <= Len(events[at'[v]])
    <2>1. events[w] \in Seq(Frame)
      BY DEF StreamTypeOK
    <2>2. Len(events[w]) \in Nat
      BY <2>1
    <2> QED
      BY <1>2, <2>2, StreamAssumption
  <1> QED
    BY <1>2, <1>3, <1>4, <1>5, <1>6, <1>7, <1>8, ViewerStep

LEMMA NextUnread ==
  ASSUME StreamInv, NEW v \in Viewers, vpc[v] = "open", Unread(v) # <<>>
  PROVE  /\ cursor[v] + 1 \in 1..Len(events[at[v]])
         /\ Head(Unread(v)) = events[at[v]][cursor[v] + 1]
         /\ Head(Unread(v)) \in Frame
  <1>1. PICK E \in Seq(Frame), c \in Nat : E = events[at[v]] /\ c = cursor[v] /\ c <= Len(E)
    BY ViewerFacts
  <1>2. Len(E) \in Nat /\ Unread(v) = SubSeq(E, c + 1, Len(E))
    BY <1>1 DEF Unread
  <1>3. c + 1 \in 1..Len(E)
    <2>1. SUFFICES ASSUME ~(c + 1 <= Len(E)) PROVE FALSE
      BY <1>2
    <2>2. SubSeq(E, c + 1, Len(E)) = <<>>
      BY <1>2, <2>1, SubSeqEmpty
    <2> QED
      BY <1>2, <2>2
  <1>4. Len(E) \in (c + 1)..Len(E)
    BY <1>2, <1>3
  <1>5. Head(SubSeq(E, c + 1, Len(E))) = E[c + 1]
    BY <1>3, <1>4, HeadTailOfSubSeq
  <1>6. E[c + 1] \in Frame
    BY <1>3, ElementOfSeq
  <1> QED
    BY <1>1, <1>2, <1>3, <1>5, <1>6

LEMMA StepOnMessage ==
  ASSUME StreamInv, NEW v \in Viewers, OnMessage(v)
  PROVE  StreamInv'
  <1> USE ViewerFacts
  <1>1. vpc[v] = "open" /\ Unread(v) # <<>> /\ at[v] \in Workers
    BY DEF OnMessage
  <1>2. PICK E \in Seq(Frame), c \in Nat, f \in Frame :
          /\ E = events[at[v]] /\ c = cursor[v] /\ f = Head(Unread(v))
          /\ c + 1 \in 1..Len(E) /\ f = E[c + 1]
    BY <1>1, NextUnread
  <1>3. /\ f.type \in {"log", "stage", "complete", "done"}
        /\ f.type = "log" => f.n \in 1..MaxLogs
        /\ f.type = "stage" => f.n \in 1..MaxStages
    BY FrameFields
  <1>4. UNCHANGED <<db, broadcaster, lastLogId, faults>> /\ events' = events
    BY DEF OnMessage, broadcaster
  <1>5. RowsInv' /\ WorkersInv'
    <2>1. RowsInv'
      BY <1>4 DEF RowsInv, RowsOf, db, broadcaster
    <2>2. WorkersInv'
      BY <1>4, WorkerKept DEF WorkersInv, db, broadcaster
    <2> QED
      BY <2>1, <2>2
  \* The log rows on the page.
  <1>6. /\ shown' \in [Viewers -> [1..MaxLogs -> 0..2]]
        /\ \A u \in Viewers \ {v} : shown'[u] = shown[u]
        /\ \A n \in 1..MaxLogs : shown[v][n] > 0 => shown'[v][n] > 0
        /\ \A n \in 1..MaxLogs : shown'[v][n] > 0 => shown[v][n] > 0 \/ (f.type = "log" /\ n = f.n)
        /\ f.type = "log" => shown'[v][f.n] > 0
        /\ f.type # "log" => shown'[v] = shown[v]
    <2>1. CASE f.type = "log" /\ ~(f.id /\ f.n <= lastLogId[v])
      <3>1. PICK k : k = f.n /\ k \in 1..MaxLogs
        BY <1>3, <2>1
      <3>2. PICK x \in {1, 2} : shown' = [shown EXCEPT ![v] = [shown[v] EXCEPT ![k] = x]]
        BY <1>2, <2>1, <3>1 DEF OnMessage
      <3>3. /\ shown' \in [Viewers -> [1..MaxLogs -> 0..2]]
            /\ shown'[v] = [shown[v] EXCEPT ![k] = x]
            /\ \A u \in Viewers \ {v} : shown'[u] = shown[u]
        <4>3. [shown[v] EXCEPT ![k] = x] \in [1..MaxLogs -> 0..2]
          BY <3>1
        <4>1. PICK row : row = [shown[v] EXCEPT ![k] = x] /\ row \in [1..MaxLogs -> 0..2]
          BY <4>3
        <4>2. shown' = [shown EXCEPT ![v] = row]
          BY <3>2, <4>1
        <4> QED
          BY <4>1, <4>2 DEF StreamTypeOK
      <3>4. \A n \in 1..MaxLogs : shown'[v][n] = IF n = k THEN x ELSE shown[v][n]
        BY <3>1, <3>3
      <3> QED
        BY <2>1, <3>1, <3>2, <3>3, <3>4
    <2>2. CASE ~(f.type = "log" /\ ~(f.id /\ f.n <= lastLogId[v]))
      <3>1. shown' = shown
        BY <1>2, <2>2 DEF OnMessage
      <3>2. f.type = "log" => f.n \in 1..lastLogId[v]
        BY <1>3, <2>2, StreamAssumption
      <3> QED
        BY <3>1, <3>2 DEF StreamTypeOK, PageInv
    <2> QED
      BY <2>1, <2>2
  <1>7. /\ vstage' \in [Viewers -> 0..MaxStages]
        /\ vstage'[v] = IF f.type = "stage" THEN f.n ELSE vstage[v]
        /\ \A u \in Viewers \ {v} : vstage'[u] = vstage[u]
    <2>1. PICK y : y = IF f.type = "stage" THEN f.n ELSE vstage[v]
      OBVIOUS
    <2>2. y \in 0..MaxStages
      BY <1>3, <2>1, StreamAssumption
    <2>3. vstage' = [vstage EXCEPT ![v] = y]
      BY <1>2, <2>1 DEF OnMessage
    <2> QED
      BY <2>1, <2>2, <2>3 DEF StreamTypeOK
  \* What the frames that were read mean for the page.
  <1>8. /\ \A i \in 1..c : E[i].type = "log" => shown[v][E[i].n] > 0
        /\ \A i \in 1..c : E[i].type = "log" => E[i].n \in 1..MaxLogs
    <2>1. \A i \in 1..c : i \in 1..Len(E) /\ E[i] \in Frame
      BY <1>2, LenProperties, ElementOfSeq
    <2> QED
      BY <1>1, <1>2, <2>1, FrameFields DEF PageInv
  <1>9. ASSUME NEW m \in 1..MaxLogs, HasLog(E, c, m) PROVE shown[v][m] > 0
    BY <1>8, <1>9 DEF HasLog
  <1>10. LogsInv(at[v]) /\ EndInv(at[v])
    BY <1>1 DEF WorkersInv
  <1>11. \A m, n \in 1..MaxLogs : m < n /\ shown'[v][n] > 0 => shown'[v][m] > 0
    <2> SUFFICES ASSUME NEW m \in 1..MaxLogs, NEW n \in 1..MaxLogs, m < n, shown'[v][n] > 0
                 PROVE  shown'[v][m] > 0
      OBVIOUS
    <2>1. CASE shown[v][n] > 0
      BY <1>6, <2>1 DEF PageInv
    <2>2. CASE f.type = "log" /\ n = f.n
      <3>1. m \in 1..(E[c + 1].n - 1)
        BY <1>2, <2>2
      <3>2. NoHole(E) /\ (c + 1) - 1 = c
        BY <1>2, <1>10 DEF LogsInv
      <3>3. HasLog(E, c, m)
        BY <1>2, <2>2, <3>1, <3>2 DEF NoHole
      <3> QED
        BY <1>6, <1>9, <3>3
    <2> QED
      BY <1>6, <2>1, <2>2
  <1>12. \A n \in 1..lastLogId'[v] : shown'[v][n] > 0
    <2>1. lastLogId' = lastLogId /\ \A n \in 1..lastLogId[v] : n \in 1..MaxLogs
      BY <1>4, StreamAssumption
    <2> QED
      BY <1>6, <2>1 DEF PageInv
  <1>13. CASE f.type = "complete"
    <2>1. /\ vpc' = [vpc EXCEPT ![v] = "complete"] /\ at' = [at EXCEPT ![v] = NoWorker]
          /\ cursor' = [cursor EXCEPT ![v] = 0]
      BY <1>2, <1>13 DEF OnMessage, VGoto, CloseStream
    <2>2. /\ vpc' \in [Viewers -> VPC] /\ at' \in [Viewers -> Workers \cup {NoWorker}]
          /\ cursor' \in [Viewers -> Nat] /\ vpc'[v] = "complete"
          /\ \A u \in Viewers \ {v} : vpc'[u] = vpc[u] /\ at'[u] = at[u] /\ cursor'[u] = cursor[u]
      BY <2>1 DEF StreamTypeOK, VPC
    <2>3. /\ ended /\ \A n \in 1..atEnd.logs : HasLog(E, c, n)
          /\ StageFrom(E, c, atEnd.stages)
      <3>1. CompleteLate(E) /\ (c + 1) - 1 = c
        BY <1>2, <1>10 DEF EndInv
      <3> QED
        BY <1>2, <1>13, <3>1 DEF CompleteLate
    <2>4. atEnd.logs \in 0..MaxLogs /\ atEnd.stages \in 0..MaxStages
      BY DEF StreamTypeOK
    <2>5. \A n \in 1..atEnd.logs : shown'[v][n] > 0
      <3>1. \A n \in 1..atEnd.logs : n \in 1..MaxLogs
        BY <2>4, StreamAssumption
      <3> QED
        BY <1>6, <1>9, <1>13, <2>3, <3>1
    <2>6. atEnd.stages <= vstage[v]
      <3>1. CASE \A i \in 1..c : E[i].type # "stage"
        BY <2>3, <2>4, <3>1, StreamAssumption DEF StageFrom
      <3>2. CASE \E j \in 1..c : /\ E[j].type = "stage" /\ vstage[v] = E[j].n
                                 /\ \A l \in (j + 1)..c : E[l].type # "stage"
        <4>1. PICK j \in 1..c : /\ E[j].type = "stage" /\ vstage[v] = E[j].n
                                /\ \A l \in (j + 1)..c : E[l].type # "stage"
          BY <3>2
        <4>2. E[j].n >= atEnd.stages
          BY <2>3, <4>1 DEF StageFrom
        <4> QED
          BY <2>4, <4>1, <4>2, StreamAssumption
      <3> QED
        BY <1>1, <1>2, <3>1, <3>2 DEF PageInv
    <2>7. PageInv(v)'
      BY <1>4, <1>7, <1>11, <1>12, <1>13, <2>2, <2>3, <2>5, <2>6 DEF PageInv, db
    <2>8. \A u \in Viewers \ {v} : SamePage(u)
      BY <1>4, <1>6, <1>7, <2>2 DEF SamePage
    <2> QED
      BY <1>4, <1>5, <1>6, <1>7, <2>2, <2>7, <2>8, ViewerStep DEF StreamTypeOK, broadcaster
  <1>14. CASE f.type # "complete"
    <2>1. vpc' = vpc /\ at' = at /\ cursor' = [cursor EXCEPT ![v] = c + 1]
      BY <1>2, <1>14 DEF OnMessage
    <2>2. /\ cursor' \in [Viewers -> Nat] /\ cursor'[v] = c + 1
          /\ \A u \in Viewers \ {v} : cursor'[u] = cursor[u]
      BY <2>1 DEF StreamTypeOK
    <2>3. \A i \in 1..(c + 1) : i = c + 1 \/ i \in 1..c
      OBVIOUS
    <2>4. \A i \in 1..(c + 1) : E[i].type = "log" => shown'[v][E[i].n] > 0
      BY <1>2, <1>6, <1>8, <2>3
    <2>5. \/ \A i \in 1..(c + 1) : E[i].type # "stage"
          \/ \E j \in 1..(c + 1) : /\ E[j].type = "stage" /\ vstage'[v] = E[j].n
                                   /\ \A l \in (j + 1)..(c + 1) : E[l].type # "stage"
      <3>1. CASE f.type = "stage"
        <4>1. c + 1 \in 1..(c + 1) /\ \A l \in ((c + 1) + 1)..(c + 1) : E[l].type # "stage"
          OBVIOUS
        <4> QED
          BY <1>2, <1>7, <3>1, <4>1
      <3>2. CASE f.type # "stage"
        <4>1. CASE \A i \in 1..c : E[i].type # "stage"
          BY <1>2, <2>3, <3>2, <4>1
        <4>2. CASE \E j \in 1..c : /\ E[j].type = "stage" /\ vstage[v] = E[j].n
                                   /\ \A l \in (j + 1)..c : E[l].type # "stage"
          <5>1. PICK j \in 1..c : /\ E[j].type = "stage" /\ vstage[v] = E[j].n
                                  /\ \A l \in (j + 1)..c : E[l].type # "stage"
            BY <4>2
          <5>2. j \in 1..(c + 1) /\ \A l \in (j + 1)..(c + 1) : l = c + 1 \/ l \in (j + 1)..c
            OBVIOUS
          <5> QED
            BY <1>2, <1>7, <3>2, <5>1, <5>2, ZenonT(40)
        <4> QED
          BY <1>1, <1>2, <4>1, <4>2 DEF PageInv
      <3> QED
        BY <3>1, <3>2
    <2>6. vpc'[v] = "open" /\ events'[at'[v]] = E
      BY <1>1, <1>2, <1>4, <2>1
    <2>7. PageInv(v)'
      BY <1>11, <1>12, <2>2, <2>4, <2>5, <2>6 DEF PageInv
    <2>8. \A u \in Viewers \ {v} : SamePage(u)
      BY <1>4, <1>6, <1>7, <2>1, <2>2 DEF SamePage
    <2>9. at'[v] # NoWorker /\ cursor'[v] <= Len(events[at'[v]])
      <3>1. Len(E) \in Nat
        OBVIOUS
      <3> QED
        BY <1>1, <1>2, <2>1, <2>2, <3>1, StreamAssumption
    <2> QED
      BY <1>4, <1>5, <1>6, <1>7, <2>1, <2>2, <2>7, <2>8, <2>9, ViewerStep DEF StreamTypeOK, broadcaster
  <1> QED
    BY <1>13, <1>14

(* The stream ends or breaks.                                              *)
LEMMA StepBreak ==
  ASSUME StreamInv, NEW v \in Viewers, StreamEnds(v) \/ Drop(v)
  PROVE  StreamInv'
  <1> USE ViewerFacts
  <1>1. /\ vpc' = [vpc EXCEPT ![v] = "broken"] /\ at' = [at EXCEPT ![v] = NoWorker]
        /\ UNCHANGED <<db, broadcaster, cursor, lastLogId, shown, vstage>>
    BY DEF StreamEnds, Drop, VGoto
  <1>2. faults' \in 0..MaxFaults
    BY StreamAssumption DEF StreamEnds, Drop
  <1>3. /\ vpc' \in [Viewers -> VPC] /\ at' \in [Viewers -> Workers \cup {NoWorker}]
        /\ vpc'[v] = "broken" /\ \A u \in Viewers \ {v} : SamePage(u)
    BY <1>1 DEF StreamTypeOK, VPC, SamePage
  <1>4. RowsInv'
    BY <1>1 DEF RowsInv, RowsOf, db, broadcaster
  <1>5. WorkersInv'
    BY <1>1, WorkerKept DEF WorkersInv, db, broadcaster
  <1>6. PageInv(v)'
    BY <1>1, <1>3 DEF PageInv
  <1> QED
    BY <1>1, <1>2, <1>3, <1>4, <1>5, <1>6, ViewerStep DEF StreamTypeOK, broadcaster

LEMMA StepFetchStatus ==
  ASSUME StreamInv, NEW v \in Viewers, FetchStatus(v)
  PROVE  StreamInv'
  <1> USE ViewerFacts
  <1>1. vpc[v] = "broken" /\ UNCHANGED <<db, lastLogId, shown>>
    BY DEF FetchStatus
  <1>2. CASE /\ UNCHANGED <<broadcaster, at, cursor>>
             /\ \E label \in {"closed", "disconnected"} : vpc' = [vpc EXCEPT ![v] = label]
             /\ vstage' = vstage \/ vstage' = [vstage EXCEPT ![v] = stages]
             /\ faults' \in 0..MaxFaults
    <2>1. /\ vpc' \in [Viewers -> VPC] /\ vpc'[v] \in {"closed", "disconnected"}
          /\ vstage' \in [Viewers -> 0..MaxStages]
          /\ \A u \in Viewers \ {v} : SamePage(u)
      BY <1>1, <1>2 DEF StreamTypeOK, VPC, SamePage
    <2>2. RowsInv'
      BY <1>1, <1>2 DEF RowsInv, RowsOf, db, broadcaster
    <2>3. WorkersInv'
      BY <1>1, <1>2, WorkerKept DEF WorkersInv, db, broadcaster
    <2>4. PageInv(v)'
      BY <1>1, <2>1 DEF PageInv
    <2> QED
      BY <1>1, <1>2, <2>1, <2>2, <2>3, <2>4, ViewerStep DEF StreamTypeOK, broadcaster
  <1>3. CASE Connect(v) /\ UNCHANGED <<vstage, faults>>
    <2>1. PICK w \in Workers : /\ GetBroadcaster(w) /\ vpc' = [vpc EXCEPT ![v] = "open"]
                               /\ at' = [at EXCEPT ![v] = w] /\ cursor' = [cursor EXCEPT ![v] = 0]
      BY <1>3 DEF Connect, VGoto
    <2>2. /\ vpc' \in [Viewers -> VPC] /\ at' \in [Viewers -> Workers \cup {NoWorker}]
          /\ cursor' \in [Viewers -> Nat]
          /\ vpc'[v] = "open" /\ at'[v] = w /\ cursor'[v] = 0
          /\ \A u \in Viewers \ {v} : SamePage(u)
      BY <1>1, <1>3, <2>1 DEF StreamTypeOK, VPC, SamePage
    <2>3. UNCHANGED <<sawEnd, lastLog, lastStage, frames, events>>
      BY <2>1 DEF GetBroadcaster
    <2>4. bpc' \in [Workers -> BPC] /\ RowsInv' /\ WorkersInv'
      BY <1>1, <2>1, BroadcasterStarts
    <2>5. PageInv(v)'
      BY <1>1, <2>2 DEF PageInv
    <2>6. at'[v] # NoWorker /\ cursor'[v] <= Len(events[at'[v]])
      <3>1. events[w] \in Seq(Frame)
        BY DEF StreamTypeOK
      <3>2. Len(events[w]) \in Nat
        BY <3>1
      <3> QED
        BY <2>2, <3>2, StreamAssumption
    <2> QED
      BY <1>1, <1>3, <2>2, <2>3, <2>4, <2>5, <2>6, ViewerStep DEF StreamTypeOK
  <1>4. faults < MaxFaults /\ faults' = faults + 1 => faults' \in 0..MaxFaults
    BY StreamAssumption
  <1> QED
    BY <1>2, <1>3, <1>4 DEF FetchStatus, VGoto, broadcaster

-----------------------------------------------------------------------------
LEMMA StreamStepInv == StreamInv /\ [StreamNext]_streamVars => StreamInv'
  <1> SUFFICES ASSUME StreamInv, [StreamNext]_streamVars PROVE StreamInv'
    OBVIOUS
  <1>1. CASE WriteLog \/ ChangeStage \/ EndRun
    BY <1>1, StepRun
  <1>2. ASSUME NEW w \in Workers, PollStep(w) \/ PollRaises(w) \/ Expire(w) PROVE StreamInv'
    <2>1. ASSUME PollLogs(w) PROVE StreamInv'
      <3>1. TRUE \in BOOLEAN
        OBVIOUS
      <3> QED
        BY <2>1, <3>1, StepPollLogs DEF PollLogs
    <2>2. ASSUME LateLogs(w) PROVE StreamInv'
      <3>1. FALSE \in BOOLEAN
        OBVIOUS
      <3> QED
        BY <2>2, <3>1, StepPollLogs DEF LateLogs
    <2>3. ASSUME PollStages(w) \/ LateStages(w) PROVE StreamInv'
      BY <2>3, StepPollStages DEF PollStages, LateStages
    <2> QED
      BY <1>2, <2>1, <2>2, <2>3, StepPollRun, StepPublish, StepLatePublish, StepDone, StepExpire DEF PollStep
  <1>3. ASSUME NEW v \in Viewers, PageStep(v) \/ OpenPage(v) \/ Drop(v) PROVE StreamInv'
    BY <1>3, StepLoadPage, StepOnMessage, StepBreak, StepFetchStatus, StepOpenPage DEF PageStep
  <1>4. CASE UNCHANGED streamVars
    <2>1. UNCHANGED <<db, broadcaster, viewer, faults>>
      BY <1>4 DEF streamVars
    <2>2. StreamTypeOK' /\ RowsInv'
      BY <2>1 DEF StreamInv, StreamTypeOK, RowsInv, RowsOf, db, broadcaster, viewer
    <2>3. WorkersInv'
      BY <2>1, WorkerKept DEF StreamInv, WorkersInv, db, broadcaster
    <2>4. PagesInv'
      BY <2>1, PagesKept DEF StreamInv, db, broadcaster
    <2> QED
      BY <2>2, <2>3, <2>4 DEF StreamInv
  <1> QED
    BY <1>1, <1>2, <1>3, <1>4 DEF StreamNext

(* The events of a broadcaster and the pages keep their types, and no page *)
(* has read beyond the events there are.                                   *)
THEOREM StreamTypeCorrect == StreamSpec => []StreamTypeOK
  <1>1. StreamInv => StreamTypeOK
    BY DEF StreamInv
  <1> QED
    BY <1>1, StreamInitInv, StreamStepInv, PTL DEF StreamSpec

(* No page shows a log row without the rows before it, for any number of   *)
(* workers, reconnects, failed polls and restarted broadcasters.           *)
THEOREM PagesHaveNoGap == StreamSpec => []NoGap
  <1>1. StreamInv => NoGap
    BY DEF StreamInv, PagesInv, PageInv, NoGap
  <1> QED
    BY <1>1, StreamInitInv, StreamStepInv, PTL DEF StreamSpec

(* A page that was told 'complete' shows all rows and stage changes there  *)
(* were when the run ended: the status is read first, and the rows that    *)
(* were read after it are published before (run_broadcaster.py:84-176).    *)
THEOREM CompletePagesAreComplete == StreamSpec => []CompleteIsComplete
  <1>1. StreamInv => CompleteIsComplete
    BY DEF StreamInv, PagesInv, PageInv, CompleteIsComplete
  <1> QED
    BY <1>1, StreamInitInv, StreamStepInv, PTL DEF StreamSpec

(***************************************************************************)
(* RunStream implements RunView.                                           *)
(***************************************************************************)
(* What is sent and shown has been written by the run.                     *)
Written == {f \in Frame : /\ f.type = "log" => f.n <= logs
                          /\ f.type = "stage" => f.n <= stages}

ViewInv ==
  /\ \A w \in Workers : events[w] \in Seq(Written) /\ frames[w] \in Seq(Written)
  /\ \A v \in Viewers : (\A n \in OnPage(v) : n <= logs) /\ vstage[v] <= stages

LEMMA ViewInitInv == StreamInit => ViewInv
  <1> SUFFICES ASSUME StreamInit PROVE ViewInv
    OBVIOUS
  <1>1. <<>> \in Seq(Written)
    BY EmptySeq
  <1>2. \A v \in Viewers : OnPage(v) = {} /\ vstage[v] <= stages
    BY DEF StreamInit, OnPage
  <1> QED
    BY <1>1, <1>2 DEF ViewInv, StreamInit

LEMMA NewFramesAreWritten ==
  ASSUME StreamInv, NEW w \in Workers, NEW hasId \in BOOLEAN
  PROVE  NewLogs(w, hasId) \in Seq(Written) /\ NewStages(w) \in Seq(Written)
  <1>1. /\ StreamTypeOK /\ logs \in 0..MaxLogs /\ stages \in 0..MaxStages
        /\ lastLog[w] \in Nat /\ lastLog[w] <= logs /\ lastStage[w] \in Nat /\ lastStage[w] <= stages
    BY BroadcasterFacts DEF RowsOf
  <1>2. NewLogs(w, hasId) \in Seq(Written)
    <2> DEFINE k == logs - lastLog[w]
               N == [i \in 1..k |-> LogFrame(lastLog[w] + i, hasId)]
    <2>1. k \in Nat /\ \A i \in 1..k : lastLog[w] + i \in 1..MaxLogs /\ lastLog[w] + i <= logs
      BY <1>1, StreamAssumption
    <2>2. ASSUME NEW n \in 1..MaxLogs, n <= logs PROVE LogFrame(n, hasId) \in Written
      <3>1. LogFrame(n, hasId) \in Frame
        BY DEF Frame
      <3> QED
        BY <2>2, <3>1 DEF Written, LogFrame
    <2>3. NewLogs(w, hasId) = N
      BY DEF NewLogs
    <2> HIDE DEF k
    <2>4. N \in [1..k -> Written]
      BY <2>1, <2>2
    <2> QED
      BY <2>1, <2>3, <2>4
  <1>3. NewStages(w) \in Seq(Written)
    <2>1. CASE stages = lastStage[w]
      BY <2>1, EmptySeq DEF NewStages
    <2>2. CASE stages # lastStage[w]
      <3>1. stages \in 1..MaxStages
        BY <1>1, <2>2, StreamAssumption
      <3>2. StageFrame(stages) \in Frame
        BY <3>1 DEF Frame
      <3>3. StageFrame(stages) \in Written
        BY <1>1, <3>2 DEF Written, StageFrame
      <3> QED
        BY <2>2, <3>3 DEF NewStages
    <2> QED
      BY <2>1, <2>2
  <1> QED
    BY <1>2, <1>3

LEMMA CatWritten ==
  ASSUME NEW S \in Seq(Written), NEW T \in Seq(Written)
  PROVE  S \o T \in Seq(Written)
  BY ConcatProperties

LEMMA RunKeepsView ==
  ASSUME StreamInv, ViewInv, WriteLog \/ ChangeStage \/ EndRun
  PROVE  ViewInv'
  <1>1. logs \in Nat /\ stages \in Nat /\ StreamTypeOK
    BY DEF StreamInv, StreamTypeOK
  <1>2. /\ UNCHANGED <<broadcaster, viewer>>
        /\ logs' \in {logs, logs + 1} /\ stages' \in {stages, stages + 1}
    BY DEF WriteLog, ChangeStage, EndRun
  <1>3. Written \subseteq Written'
    <2> SUFFICES ASSUME NEW f \in Written PROVE f \in Written'
      OBVIOUS
    <2>1. /\ f \in Frame
          /\ f.type = "log" => f.n \in Nat /\ f.n <= logs
          /\ f.type = "stage" => f.n \in Nat /\ f.n <= stages
      BY FrameFields DEF Written
    <2> QED
      BY <1>1, <1>2, <2>1 DEF Written
  <1>4. \A w \in Workers : events'[w] \in Seq(Written') /\ frames'[w] \in Seq(Written')
    BY <1>2, <1>3, SeqMonotonic DEF ViewInv, broadcaster
  <1>5. ASSUME NEW v \in Viewers
        PROVE  (\A n \in OnPage(v)' : n <= logs') /\ vstage'[v] <= stages'
    <2>1. OnPage(v)' = OnPage(v) /\ vstage' = vstage /\ vstage[v] \in Nat
      BY <1>1, <1>2 DEF OnPage, viewer, StreamTypeOK
    <2>2. \A n \in OnPage(v) : n \in Nat
      BY DEF OnPage
    <2> QED
      BY <1>1, <1>2, <2>1, <2>2 DEF ViewInv
  <1> QED
    BY <1>4, <1>5 DEF ViewInv

LEMMA BroadcasterKeepsView ==
  ASSUME StreamInv, ViewInv, NEW w \in Workers, PollStep(w) \/ PollRaises(w) \/ Expire(w)
  PROVE  ViewInv' /\ UNCHANGED <<db, viewer>>
  <1>1. PICK E \in Seq(Written), F \in Seq(Written) : E = events[w] /\ F = frames[w]
    BY DEF ViewInv
  <1>2. <<>> \in Seq(Written) /\ Farewell \in Seq(Written)
    <2>1. CompleteFrame \in Written /\ DoneFrame \in Written
      BY DEF Written, Frame, CompleteFrame, DoneFrame
    <2> QED
      BY <2>1, EmptySeq DEF Farewell
  <1>3. \E e \in Seq(Written), f \in Seq(Written) :
          /\ events' = events \/ events' = [events EXCEPT ![w] = e]
          /\ frames' = frames \/ frames' = [frames EXCEPT ![w] = f]
          /\ UNCHANGED <<db, viewer>>
    <2>1. CASE PollRun(w)
      BY <1>2, <2>1 DEF PollRun
    <2>2. CASE PollLogs(w)
      <3>1. TRUE \in BOOLEAN
        OBVIOUS
      <3>2. F \o NewLogs(w, TRUE) \in Seq(Written)
        BY <3>1, NewFramesAreWritten, CatWritten
      <3> QED
        BY <1>1, <2>2, <3>2 DEF PollLogs
    <2>3. CASE LateLogs(w)
      <3>1. FALSE \in BOOLEAN
        OBVIOUS
      <3>2. F \o NewLogs(w, FALSE) \in Seq(Written)
        BY <3>1, NewFramesAreWritten, CatWritten
      <3> QED
        BY <1>1, <2>3, <3>2 DEF LateLogs
    <2>4. CASE PollStages(w) \/ LateStages(w)
      <3>1. TRUE \in BOOLEAN
        OBVIOUS
      <3>2. F \o NewStages(w) \in Seq(Written)
        BY <3>1, NewFramesAreWritten, CatWritten
      <3> QED
        BY <1>1, <2>4, <3>2 DEF PollStages, LateStages
    <2>5. CASE Publish(w)
      <3>1. E \o F \in Seq(Written)
        BY CatWritten
      <3> QED
        BY <1>1, <2>5, <3>1 DEF Publish
    <2>6. CASE LatePublish(w)
      <3>1. E \o F \in Seq(Written)
        BY CatWritten
      <3>2. (E \o F) \o Farewell \in Seq(Written)
        BY <1>2, <3>1, CatWritten
      <3> QED
        BY <1>1, <2>6, <3>2 DEF LatePublish, Farewell
    <2>7. CASE Finish(w) \/ PollRaises(w)
      BY <1>2, <2>7 DEF Finish, PollRaises
    <2>8. CASE Expire(w)
      BY <1>2, <2>8 DEF Expire
    <2> QED
      BY <2>1, <2>2, <2>3, <2>4, <2>5, <2>6, <2>7, <2>8 DEF PollStep
  <1>4. Written' = Written
    BY <1>3 DEF Written, db
  <1>5. \A u \in Workers : events'[u] \in Seq(Written) /\ frames'[u] \in Seq(Written)
    <2>1. events \in [Workers -> Seq(Frame)] /\ frames \in [Workers -> Seq(Frame)]
      BY DEF StreamInv, StreamTypeOK
    <2> QED
      BY <1>3, <2>1 DEF ViewInv
  <1>6. \A v \in Viewers : (\A n \in OnPage(v)' : n <= logs') /\ vstage'[v] <= stages'
    BY <1>3 DEF ViewInv, OnPage, db, viewer
  <1> QED
    BY <1>3, <1>4, <1>5, <1>6 DEF ViewInv

LEMMA RenderedRows ==
  ASSUME StreamInv, NEW v \in Viewers, RenderLogs(v)
  PROVE  /\ OnPage(v)' = 1..logs /\ vstage' = [vstage EXCEPT ![v] = stages]
         /\ \A u \in Viewers \ {v} : OnPage(u)' = OnPage(u)
  <1> DEFINE page == [n \in 1..MaxLogs |-> IF n <= logs THEN 1 ELSE 0]
  <1>1. /\ shown' = [shown EXCEPT ![v] = page] /\ vstage' = [vstage EXCEPT ![v] = stages]
        /\ StreamTypeOK /\ logs \in 0..MaxLogs
    BY ViewerFacts DEF RenderLogs
  <1>2. {n \in 1..MaxLogs : page[n] > 0} = 1..logs
    BY <1>1, StreamAssumption
  <1> HIDE DEF page
  <1>3. shown'[v] = page /\ \A u \in Viewers \ {v} : shown'[u] = shown[u]
    BY <1>1 DEF StreamTypeOK
  <1> QED
    BY <1>1, <1>2, <1>3 DEF OnPage

(* The pages.  A page that keeps following shows more rows, or the same.   *)
LEMMA PageShows ==
  ASSUME StreamInv, StreamInv', UNCHANGED db, NEW v \in Viewers,
         vpc[v] \in {"loading", "open", "broken"}, vpc'[v] \in {"loading", "open", "broken"},
         \A u \in Viewers \ {v} : SamePage(u),
         OnPage(v) \subseteq OnPage(v)', \A n \in OnPage(v)' : n <= logs, vstage'[v] <= stages
  PROVE  View!Show(v)
  <1>1. /\ StreamTypeOK /\ StreamTypeOK' /\ logs \in Nat /\ stages \in Nat
        /\ \A n \in OnPage(v)' : n \in 1..MaxLogs
    <2>1. StreamTypeOK /\ StreamTypeOK'
      BY DEF StreamInv
    <2>2. logs \in Nat /\ stages \in Nat
      BY <2>1 DEF StreamTypeOK
    <2> QED
      BY <2>1, <2>2 DEF OnPage
  <1>2. \A u \in Viewers : PageOf(u)' = PageOf(u)
    BY DEF PageOf, SamePage
  <1>3. \A u \in Viewers \ {v} : OnPage(u)' = OnPage(u)
    BY DEF OnPage, SamePage
  <1>4. OnPage(v)' \in SUBSET (1..logs)
    BY <1>1
  <1>5. View!Prefix(OnPage(v)')
    <2>1. \A m, n \in 1..MaxLogs : m < n /\ shown'[v][n] > 0 => shown'[v][m] > 0
      BY DEF StreamInv, PagesInv, PageInv
    <2>2. ASSUME NEW n \in OnPage(v)', NEW m \in 1..n PROVE m \in OnPage(v)'
      <3>1. n \in 1..MaxLogs /\ shown'[v][n] > 0 /\ m \in 1..MaxLogs /\ (m < n \/ m = n)
        BY StreamAssumption DEF OnPage
      <3> QED
        BY <2>1, <3>1 DEF OnPage
    <2> QED
      BY <2>2 DEF View!Prefix
  <1>6. vstage'[v] \in 0..stages /\ vstage' = [vstage EXCEPT ![v] = vstage'[v]]
    BY <1>1 DEF StreamTypeOK, SamePage
  <1>7. [u \in Viewers |-> OnPage(u)]' = [[u \in Viewers |-> OnPage(u)] EXCEPT ![v] = OnPage(v)']
    BY <1>3
  <1>8. [u \in Viewers |-> PageOf(u)]' = [u \in Viewers |-> PageOf(u)] /\ PageOf(v) = "following"
    BY <1>2 DEF PageOf
  <1> QED
    BY <1>4, <1>5, <1>6, <1>7, <1>8 DEF View!Show, View!run, db

(* A page that turns to something else.                                    *)
LEMMA PageTurns ==
  ASSUME NEW v \in Viewers, NEW from, NEW to, PageOf(v) = from, PageOf(v)' = to,
         \A u \in Viewers \ {v} : vpc'[u] = vpc[u]
  PROVE  View!Turn(v, from, to)
  BY DEF View!Turn, PageOf

LEMMA OpenPageIsView ==
  ASSUME StreamInv, ViewInv, NEW v \in Viewers, OpenPage(v)
  PROVE  ViewInv' /\ (View!Follow(v) \/ View!Read(v))
  <1>0. StreamTypeOK /\ logs \in 0..MaxLogs /\ stages \in 0..MaxStages
    BY ViewerFacts
  <1>1. /\ vpc[v] = "away" /\ UNCHANGED <<db, broadcaster, at, cursor, faults>>
        /\ vpc' = [vpc EXCEPT ![v] = IF ended THEN "closed" ELSE "loading"]
    BY DEF OpenPage, VGoto
  <1>2. \A u \in Viewers \ {v} : vpc'[u] = vpc[u]
    BY <1>0, <1>1 DEF StreamTypeOK
  <1>3. Written' = Written /\ events' = events /\ frames' = frames
    BY <1>1 DEF Written, db, broadcaster
  <1>4. CASE ended
    <2>1. RenderLogs(v)
      BY <1>4 DEF OpenPage
    <2>2. /\ OnPage(v)' = 1..logs /\ vstage' = [vstage EXCEPT ![v] = stages]
          /\ \A u \in Viewers \ {v} : OnPage(u)' = OnPage(u)
      BY <2>1, RenderedRows
    <2>3. PageOf(v) = "away" /\ PageOf(v)' = "over"
      BY <1>0, <1>1, <1>4 DEF PageOf, StreamTypeOK
    <2>4. View!Turn(v, "away", "over")
      BY <1>2, <2>3, PageTurns
    <2>5. [u \in Viewers |-> OnPage(u)]' = [[u \in Viewers |-> OnPage(u)] EXCEPT ![v] = 1..logs]
      BY <2>2
    <2>6. View!Read(v)
      BY <1>1, <1>4, <2>2, <2>4, <2>5 DEF View!Read, View!run, db
    <2>7. ViewInv'
      <3>1. ASSUME NEW u \in Viewers PROVE (\A n \in OnPage(u)' : n <= logs) /\ vstage'[u] <= stages
        BY <1>0, <2>2 DEF ViewInv, StreamTypeOK
      <3> QED
        BY <1>1, <1>3, <3>1 DEF ViewInv, db
    <2> QED
      BY <2>6, <2>7
  <1>5. CASE ~ended
    <2>1. shown' = shown /\ vstage' = vstage
      BY <1>5 DEF OpenPage
    <2>2. PageOf(v) = "away" /\ PageOf(v)' = "following"
      BY <1>0, <1>1, <1>5 DEF PageOf, StreamTypeOK
    <2>3. View!Turn(v, "away", "following")
      BY <1>2, <2>2, PageTurns
    <2>4. \A u \in Viewers : OnPage(u)' = OnPage(u)
      BY <2>1 DEF OnPage
    <2>5. View!Follow(v)
      BY <1>1, <1>5, <2>1, <2>3, <2>4 DEF View!Follow, View!run, db
    <2>6. ViewInv'
      BY <1>1, <1>3, <2>1, <2>4 DEF ViewInv, db
    <2> QED
      BY <2>5, <2>6
  <1> QED
    BY <1>4, <1>5

LEMMA LoadPageIsView ==
  ASSUME StreamInv, StreamInv', ViewInv, NEW v \in Viewers, LoadPage(v)
  PROVE  ViewInv' /\ View!Show(v)
  <1>0. StreamTypeOK /\ logs \in 0..MaxLogs /\ stages \in 0..MaxStages
    BY ViewerFacts
  <1>1. PICK w \in Workers : /\ vpc[v] = "loading" /\ RenderLogs(v) /\ GetBroadcaster(w)
                             /\ vpc' = [vpc EXCEPT ![v] = "open"] /\ at' = [at EXCEPT ![v] = w]
                             /\ cursor' = [cursor EXCEPT ![v] = 0] /\ UNCHANGED <<db, faults>>
    BY DEF LoadPage, Connect, VGoto
  <1>2. /\ OnPage(v)' = 1..logs /\ vstage' = [vstage EXCEPT ![v] = stages]
        /\ \A u \in Viewers \ {v} : OnPage(u)' = OnPage(u) /\ SamePage(u)
    <2>1. \A u \in Viewers \ {v} : shown'[u] = shown[u] /\ lastLogId'[u] = lastLogId[u] /\ vstage'[u] = vstage[u]
      BY <1>1, Rendered
    <2>2. \A u \in Viewers \ {v} : vpc'[u] = vpc[u] /\ at'[u] = at[u] /\ cursor'[u] = cursor[u]
      BY <1>0, <1>1 DEF StreamTypeOK
    <2> QED
      BY <1>1, <2>1, <2>2, RenderedRows DEF SamePage
  <1>3. \A u \in Viewers : (\A n \in OnPage(u)' : n <= logs) /\ vstage'[u] <= stages
    BY <1>0, <1>2 DEF ViewInv, StreamTypeOK
  <1>4. ViewInv'
    BY <1>1, <1>3 DEF ViewInv, Written, GetBroadcaster, db
  <1>5. OnPage(v) \subseteq 1..logs
    BY <1>0 DEF ViewInv, OnPage
  <1>6. vpc'[v] = "open"
    BY <1>0, <1>1 DEF StreamTypeOK
  <1> QED
    BY <1>1, <1>2, <1>3, <1>4, <1>5, <1>6, PageShows

LEMMA OnMessageIsView ==
  ASSUME StreamInv, StreamInv', ViewInv, NEW v \in Viewers, OnMessage(v)
  PROVE  ViewInv' /\ (View!Show(v) \/ View!Complete(v))
  <1>0. StreamTypeOK /\ logs \in 0..MaxLogs /\ stages \in 0..MaxStages /\ shown[v] \in [1..MaxLogs -> 0..2]
    BY ViewerFacts
  <1>1. /\ vpc[v] = "open" /\ Unread(v) # <<>> /\ at[v] \in Workers
        /\ UNCHANGED <<db, broadcaster, lastLogId, faults>>
    BY ViewerFacts DEF OnMessage
  <1>2. PICK f \in Written : f = Head(Unread(v))
    <2>1. PICK E \in Seq(Written), c \in Nat : E = events[at[v]] /\ c = cursor[v]
      BY <1>0, <1>1 DEF ViewInv, StreamTypeOK
    <2>2. c + 1 \in 1..Len(E) /\ Head(Unread(v)) = E[c + 1]
      BY <1>1, <2>1, NextUnread
    <2> QED
      BY <2>2, ElementOfSeq
  <1>3. /\ f.type = "log" => f.n \in 1..MaxLogs /\ f.n <= logs
        /\ f.type = "stage" => f.n \in 1..MaxStages /\ f.n <= stages
    BY FrameFields DEF Written
  <1>4. /\ \A u \in Viewers \ {v} : shown'[u] = shown[u]
        /\ \A n \in OnPage(v)' : n \in OnPage(v) \/ (f.type = "log" /\ n = f.n)
        /\ OnPage(v) \subseteq OnPage(v)'
        /\ f.type # "log" => OnPage(v)' = OnPage(v)
    <2>1. CASE shown' = shown
      BY <2>1 DEF OnPage
    <2>2. CASE shown' # shown
      <3>1. f.type = "log" /\ shown' = [shown EXCEPT ![v][f.n] = IF @ = 0 THEN 1 ELSE 2]
        BY <1>2, <2>2 DEF OnMessage
      <3>2. PICK k : k = f.n /\ k \in 1..MaxLogs
        BY <1>3, <3>1
      <3>3. PICK x \in {1, 2} : shown' = [shown EXCEPT ![v] = [shown[v] EXCEPT ![k] = x]]
        BY <3>1, <3>2
      <3>4. PICK page : page = [shown[v] EXCEPT ![k] = x]
        OBVIOUS
      <3>5. shown'[v] = page /\ \A u \in Viewers \ {v} : shown'[u] = shown[u]
        BY <1>0, <3>3, <3>4 DEF StreamTypeOK
      <3>6. \A n \in 1..MaxLogs : page[n] = IF n = k THEN x ELSE shown[v][n]
        BY <1>0, <3>4
      <3> QED
        BY <3>1, <3>2, <3>5, <3>6 DEF OnPage
    <2> QED
      BY <2>1, <2>2
  <1>5. /\ vstage'[v] = IF f.type = "stage" THEN f.n ELSE vstage[v]
        /\ \A u \in Viewers \ {v} : vstage'[u] = vstage[u]
    <2>1. vstage' = [vstage EXCEPT ![v] = IF f.type = "stage" THEN f.n ELSE @]
      BY <1>2 DEF OnMessage
    <2> QED
      BY <1>0, <2>1 DEF StreamTypeOK
  <1>6. \A u \in Viewers : (\A n \in OnPage(u)' : n <= logs) /\ vstage'[u] <= stages
    <2>1. (\A n \in OnPage(v)' : n <= logs) /\ vstage'[v] <= stages
      BY <1>3, <1>4, <1>5 DEF ViewInv
    <2>2. \A u \in Viewers \ {v} : OnPage(u)' = OnPage(u)
      BY <1>4 DEF OnPage
    <2> QED
      BY <1>5, <2>1, <2>2 DEF ViewInv
  <1>7. ViewInv'
    BY <1>1, <1>6 DEF ViewInv, Written, db, broadcaster
  <1>8. CASE f.type = "complete"
    <2>1. vpc' = [vpc EXCEPT ![v] = "complete"]
      BY <1>2, <1>8 DEF OnMessage, VGoto
    <2>2. vpc'[v] = "complete" /\ \A u \in Viewers \ {v} : vpc'[u] = vpc[u]
      BY <1>0, <2>1 DEF StreamTypeOK
    <2>3. View!Turn(v, "following", "complete")
      BY <1>1, <2>2, PageTurns DEF PageOf
    <2>4. \A u \in Viewers : OnPage(u)' = OnPage(u)
      BY <1>4, <1>8 DEF OnPage
    <2>5. vstage' = vstage
      BY <1>0, <1>2, <1>8 DEF OnMessage, StreamTypeOK
    <2>6. ended /\ (\A n \in 1..atEnd.logs : shown'[v][n] > 0) /\ atEnd.stages <= vstage'[v]
      BY <1>1, <2>2 DEF StreamInv, PagesInv, PageInv, db
    <2>7. 1..atEnd.logs \subseteq OnPage(v)
      <3>1. atEnd.logs \in 0..MaxLogs
        BY <1>0 DEF StreamTypeOK
      <3>2. \A n \in 1..atEnd.logs : n \in 1..MaxLogs
        BY <3>1, StreamAssumption
      <3> QED
        BY <2>4, <2>6, <3>2 DEF OnPage
    <2>8. View!Complete(v)
      BY <1>1, <2>3, <2>4, <2>5, <2>6, <2>7 DEF View!Complete, View!run, db
    <2> QED
      BY <1>7, <2>8
  <1>9. CASE f.type # "complete"
    <2>1. vpc' = vpc /\ at' = at /\ cursor' = [cursor EXCEPT ![v] = @ + 1]
      BY <1>2, <1>9 DEF OnMessage
    <2>2. \A u \in Viewers \ {v} : SamePage(u)
      BY <1>0, <1>1, <1>4, <1>5, <2>1 DEF SamePage, StreamTypeOK
    <2>3. View!Show(v)
      BY <1>1, <1>4, <1>6, <2>1, <2>2, PageShows
    <2> QED
      BY <1>7, <2>3
  <1> QED
    BY <1>8, <1>9

LEMMA BreakIsView ==
  ASSUME StreamInv, StreamInv', ViewInv, NEW v \in Viewers, StreamEnds(v) \/ Drop(v)
  PROVE  ViewInv' /\ View!Show(v)
  <1>0. StreamTypeOK
    BY ViewerFacts
  <1>1. /\ vpc[v] = "open" /\ vpc' = [vpc EXCEPT ![v] = "broken"] /\ at' = [at EXCEPT ![v] = NoWorker]
        /\ UNCHANGED <<db, broadcaster, cursor, lastLogId, shown, vstage>>
    BY DEF StreamEnds, Drop, VGoto
  <1>2. vpc'[v] = "broken" /\ \A u \in Viewers \ {v} : SamePage(u)
    BY <1>0, <1>1 DEF StreamTypeOK, SamePage
  <1>3. ViewInv'
    BY <1>1 DEF ViewInv, Written, OnPage, db, broadcaster
  <1>4. OnPage(v)' = OnPage(v) /\ (\A n \in OnPage(v) : n <= logs) /\ vstage'[v] <= stages
    BY <1>1 DEF OnPage, ViewInv
  <1> QED
    BY <1>1, <1>2, <1>3, <1>4, PageShows

LEMMA FetchStatusIsView ==
  ASSUME StreamInv, StreamInv', ViewInv, NEW v \in Viewers, FetchStatus(v)
  PROVE  ViewInv' /\ (View!Show(v) \/ View!Close(v) \/ View!GiveUp(v))
  <1>0. StreamTypeOK /\ logs \in 0..MaxLogs /\ stages \in 0..MaxStages
    BY ViewerFacts
  <1>1. vpc[v] = "broken" /\ PageOf(v) = "following" /\ UNCHANGED <<db, lastLogId, shown, events, frames>>
    BY DEF FetchStatus, PageOf, Connect, GetBroadcaster, broadcaster
  <1>2. \A u \in Viewers : OnPage(u)' = OnPage(u)
    BY <1>1 DEF OnPage
  <1>3. vstage' = vstage \/ vstage' = [vstage EXCEPT ![v] = stages]
    BY DEF FetchStatus
  <1>4. ViewInv'
    <2>1. ASSUME NEW u \in Viewers PROVE vstage'[u] <= stages
      <3>1. vstage[u] <= stages /\ stages <= stages
        BY <1>0 DEF ViewInv
      <3>2. vstage'[u] = vstage[u] \/ vstage'[u] = stages
        BY <1>0, <1>3 DEF StreamTypeOK
      <3> QED
        BY <3>1, <3>2
    <2> QED
      BY <1>1, <1>2, <2>1 DEF ViewInv, Written, db
  <1>5. CASE ended /\ vpc' = [vpc EXCEPT ![v] = "closed"] /\ vstage' = [vstage EXCEPT ![v] = stages]
    <2>1. PageOf(v)' = "over" /\ \A u \in Viewers \ {v} : vpc'[u] = vpc[u]
      BY <1>0, <1>5 DEF PageOf, StreamTypeOK
    <2>2. View!Turn(v, "following", "over")
      BY <1>1, <2>1, PageTurns
    <2>3. View!Close(v)
      BY <1>1, <1>2, <1>5, <2>2 DEF View!Close, View!run, db
    <2> QED
      BY <1>4, <2>3
  <1>6. CASE Connect(v) /\ UNCHANGED <<vstage, faults>>
    <2>1. PICK w \in Workers : /\ vpc' = [vpc EXCEPT ![v] = "open"]
                               /\ at' = [at EXCEPT ![v] = w] /\ cursor' = [cursor EXCEPT ![v] = 0]
      BY <1>6 DEF Connect, VGoto
    <2>2. vpc'[v] = "open" /\ \A u \in Viewers \ {v} : SamePage(u)
      BY <1>0, <1>1, <1>6, <2>1 DEF StreamTypeOK, SamePage
    <2>3. (\A n \in OnPage(v) : n <= logs) /\ vstage'[v] <= stages
      BY <1>6 DEF ViewInv
    <2> QED
      BY <1>1, <1>2, <1>4, <2>2, <2>3, PageShows
  <1>7. CASE vpc' = [vpc EXCEPT ![v] = "disconnected"] /\ UNCHANGED vstage
    <2>1. PageOf(v)' = "disconnected" /\ \A u \in Viewers \ {v} : vpc'[u] = vpc[u]
      BY <1>0, <1>7 DEF PageOf, StreamTypeOK
    <2>2. View!Turn(v, "following", "disconnected")
      BY <1>1, <2>1, PageTurns
    <2>3. View!GiveUp(v)
      BY <1>1, <1>2, <1>7, <2>2 DEF View!GiveUp, View!run, db
    <2> QED
      BY <1>4, <2>3
  <1> QED
    BY <1>5, <1>6, <1>7 DEF FetchStatus, VGoto

-----------------------------------------------------------------------------
LEMMA ViewStep ==
  ASSUME StreamInv, StreamInv', ViewInv, [StreamNext]_streamVars
  PROVE  ViewInv' /\ [View!Next]_(View!view)
  <1> USE DEF View!Next
  <1>1. ASSUME UNCHANGED <<db, viewer>> PROVE UNCHANGED View!view
    BY <1>1 DEF View!view, View!run, View!pages, PageOf, OnPage, db, viewer
  <1>2. CASE WriteLog \/ ChangeStage \/ EndRun
    <2>1. ViewInv'
      BY <1>2, RunKeepsView
    <2>2. UNCHANGED View!pages
      BY <1>2 DEF View!pages, PageOf, OnPage, WriteLog, ChangeStage, EndRun, viewer
    <2>3. View!WriteLog \/ View!ChangeStage \/ View!End
      BY <1>2, <2>2 DEF WriteLog, ChangeStage, EndRun, View!WriteLog, View!ChangeStage, View!End
    <2> QED
      BY <2>1, <2>3
  <1>3. ASSUME NEW w \in Workers, PollStep(w) \/ PollRaises(w) \/ Expire(w)
        PROVE  ViewInv' /\ UNCHANGED View!view
    <2>1. ViewInv' /\ UNCHANGED <<db, viewer>>
      BY <1>3, BroadcasterKeepsView
    <2> QED
      BY <1>1, <2>1
  <1>4. ASSUME NEW v \in Viewers, PageStep(v) \/ OpenPage(v) \/ Drop(v)
        PROVE  ViewInv' /\ View!Next
    BY <1>4, OpenPageIsView, LoadPageIsView, OnMessageIsView, BreakIsView, FetchStatusIsView DEF PageStep
  <1>5. CASE UNCHANGED streamVars
    <2>1. UNCHANGED <<db, viewer, events, frames>>
      BY <1>5 DEF streamVars, broadcaster
    <2>2. ViewInv'
      BY <2>1 DEF ViewInv, Written, OnPage, db, viewer
    <2> QED
      BY <1>1, <2>1, <2>2
  <1> QED
    BY <1>2, <1>3, <1>4, <1>5 DEF StreamNext

(* RunStream implements RunView for any number of workers, pages, rows and *)
(* failures: what the page of a run (detail.html:448-576) promises about   *)
(* the rows of the database is kept, whatever happens in between.          *)
THEOREM PagesKeepTheirPromise == StreamSpec => ImplementsView
  <1>1. StreamInit => View!Init
    <2>1. ASSUME StreamInit PROVE \A v \in Viewers : PageOf(v) = "away" /\ OnPage(v) = {}
      BY <2>1 DEF StreamInit, PageOf, OnPage
    <2> QED
      BY <2>1 DEF StreamInit, View!Init
  <1>2. StreamInv /\ StreamInv' /\ ViewInv /\ [StreamNext]_streamVars => ViewInv' /\ [View!Next]_(View!view)
    BY ViewStep
  <1> QED
    BY <1>1, <1>2, StreamInitInv, StreamStepInv, ViewInitInv, PTL
    DEF StreamSpec, ImplementsView, View!Spec
=============================================================================
