---------------------------- MODULE Notifications ----------------------------
(***************************************************************************)
(* Completion notifications: the notifiers and the push subscriptions in   *)
(* the database (webapp/models.py), the requests that change them          *)
(* (webapp/views/notifications.py), their encrypted passwords              *)
(* (webapp/encryption.py), and the stage that tells every notifier of a    *)
(* finished run (stages/notify.py, notifiers/webpush.py).                  *)
(*                                                                         *)
(* The stage has the notifiers as they were when the run was configured,   *)
(* reads the subscriptions when it comes to a Web Push notifier, and       *)
(* deletes those whose device is gone.  Requests read a row and save it    *)
(* later; Django's save() inserts a row that is gone by then.              *)
(***************************************************************************)
EXTENDS Naturals

CONSTANTS
    Notifiers,      \* primary keys
    Push,           \* the notifiers of type webpush
    Devices,        \* endpoints of browsers, which are unique
    Passwords,      \* what a password field may hold, Blank among it
    Blank,
    Prefixed,       \* passwords that begin with "enc:" as they are typed
    Threads,        \* threads that serve requests
    NoNotifier,
    MaxRows,        \* bound: subscription rows created
    MaxRequests,    \* bound: requests
    MaxKeys         \* bound: values of SECRET_KEY

ASSUME NotificationsAssumption ==
    /\ Push \subseteq Notifiers
    /\ NoNotifier \notin Notifiers
    /\ Notifiers \cap Devices = {}
    /\ Blank \in Passwords
    /\ Prefixed \subseteq Passwords \ {Blank}
    /\ MaxRows \in Nat /\ MaxRequests \in Nat /\ MaxKeys \in Nat \ {0}

VARIABLES
    exists,    \* the Notifier rows
    enabled,
    secret,    \* the password in config, as stored
    key,       \* the version of SECRET_KEY
    sub,       \* the subscription of each device: its notifier and its row id
    rows,      \* row ids given so far
    gone,      \* devices for which the push service answers 410
    stage,     \* NotifyOnCompletion: its step, the notifiers and the devices
               \* left, and the notifier at work
    due,       \* history: what the stage has read that it must tell
    told,      \* history: what it has tried to tell
    spoilt,    \* history: what raised in it where nothing is caught
    request,   \* the request that each thread handles, with a history variable:
               \* disturbed, its row has been saved or deleted since it was read
    requests

table == <<exists, enabled, secret, sub, rows>>
run   == <<stage, due, told, spoilt>>
vars  == <<table, key, gone, run, request, requests>>

-----------------------------------------------------------------------------
(* encryption.py and Notifier.save.                                        *)

Raw(p) == [key |-> 0, text |-> p]

\* What is stored: no text is encrypted that has the prefix already.
Encrypted(p) ==
    IF p = Blank \/ p \in Prefixed THEN Raw(p) ELSE [key |-> key, text |-> p]

\* decrypted_config: a text that does not decrypt with the key of now is blank.
Decrypted(s) ==
    IF s.key = 0 THEN IF s.text \in Prefixed THEN Blank ELSE s.text
                 ELSE IF s.key = key THEN s.text ELSE Blank

-----------------------------------------------------------------------------
\* What a request is about, and what it has read when it is received.
Asking(step, n, stored, typed, on) ==
    [pc |-> step, on |-> n, device |-> "none", id |-> 0, stored |-> stored,
     enabled |-> on, typed |-> typed, disturbed |-> FALSE]
Idle == Asking("idle", NoNotifier, Raw(Blank), Blank, FALSE)

NoSub == [notifier |-> NoNotifier, id |-> 0]
Rested == [pc |-> "rest", todo |-> {}, devices |-> {}, at |-> NoNotifier]

Subscribed(n) == {d \in Devices : sub[d].notifier = n}

Stored == [key : 0..MaxKeys, text : Passwords]

TypeOK ==
    /\ exists \in [Notifiers -> BOOLEAN]
    /\ enabled \in [Notifiers -> BOOLEAN]
    /\ secret \in [Notifiers -> Stored]
    /\ key \in 1..MaxKeys
    /\ sub \in [Devices -> [notifier : Notifiers \cup {NoNotifier}, id : 0..MaxRows]]
    /\ \A d \in Devices : sub[d].notifier # NoNotifier => exists[sub[d].notifier]
    /\ rows \in 0..MaxRows
    /\ gone \subseteq Devices
    /\ stage.pc \in {"rest", "next", "push", "send", "done"}
    /\ stage.todo \subseteq Notifiers /\ stage.at \in Notifiers \cup {NoNotifier}
    /\ stage.devices \subseteq [device : Devices, id : 1..MaxRows]
    /\ due \subseteq Notifiers \cup Devices /\ told \subseteq Notifiers \cup Devices
    /\ spoilt \subseteq {"message", "removal"}
    /\ \A t \in Threads :
         /\ request[t].pc \in {"idle", "edit", "toggle", "delete", "find", "update", "drop"}
         /\ request[t].on \in Notifiers \cup {NoNotifier}
         /\ request[t].pc # "idle" => request[t].on \in Notifiers
    /\ requests \in 0..MaxRequests

Init ==
    /\ exists \in [Notifiers -> BOOLEAN]
    /\ enabled = exists
    /\ secret = [n \in Notifiers |-> Raw(Blank)]
    /\ key = 1
    /\ sub = [d \in Devices |-> NoSub]
    /\ rows = 0
    /\ gone = {}
    /\ stage = Rested
    /\ due = {} /\ told = {} /\ spoilt = {}
    /\ request = [t \in Threads |-> Idle]
    /\ requests = 0

-----------------------------------------------------------------------------
(* The stage.                                                              *)

\* config_from_settings, when the run starts.
Configure ==
    /\ stage.pc = "rest"
    /\ LET found == {n \in Notifiers : exists[n] /\ enabled[n]}
       IN  /\ stage' = [Rested EXCEPT !.pc = "next", !.todo = found]
           /\ due' = found
    /\ told' = {} /\ spoilt' = {}
    /\ UNCHANGED <<table, key, gone, request, requests>>

\* One notifier after the other.  That its module is missing, or that its
\* service refuses the message, makes no difference.
Dispatch ==
    /\ stage.pc = "next"
    /\ \E n \in stage.todo :
         /\ told' = told \cup {n}
         /\ stage' = [stage EXCEPT !.todo = @ \ {n},
                                   !.pc = IF n \in Push THEN "push" ELSE "next",
                                   !.at = IF n \in Push THEN n ELSE NoNotifier]
    /\ UNCHANGED <<table, key, gone, due, spoilt, request, requests>>

\* What precedes send() is not guarded: a template such as {run.id} raises
\* AttributeError in _render, and a module may raise when it is imported.
\* That ends the loop over the notifiers and, with it, the stage.
DispatchRaises ==
    /\ stage.pc = "next" /\ stage.todo # {}
    /\ stage' = [stage EXCEPT !.pc = "done", !.todo = {}]
    /\ spoilt' = spoilt \cup {"message"}
    /\ UNCHANGED <<table, key, gone, due, told, request, requests>>

\* The subscriptions of the notifier, all at once.
ReadDevices ==
    /\ stage.pc = "push"
    /\ LET found == Subscribed(stage.at)
       IN  /\ stage' = [stage EXCEPT !.pc = "send",
                          !.devices = {[device |-> d, id |-> sub[d].id] : d \in found}]
           /\ due' = due \cup found
    /\ UNCHANGED <<table, key, gone, told, spoilt, request, requests>>

\* Subscriptions after the row with that id has been deleted, if it is there.
Without(d, id) == IF sub[d].id = id THEN [sub EXCEPT ![d] = NoSub] ELSE sub

\* Mutant: the loop ends with the first device that is gone.
Send_StopAtGone ==
    /\ stage.pc = "send"
    /\ \E r \in stage.devices :
         /\ told' = told \cup {r.device}
         /\ stage' = [stage EXCEPT !.devices = IF r.device \in gone THEN {} ELSE @ \ {r}]
         /\ sub' = IF r.device \in gone THEN Without(r.device, r.id) ELSE sub
    /\ UNCHANGED <<exists, enabled, secret, rows, key, gone, due, spoilt, request, requests>>

\* One device: 410 deletes its row, other errors are collected.
Send ==
    /\ stage.pc = "send"
    /\ \E r \in stage.devices :
         /\ told' = told \cup {r.device}
         /\ stage' = [stage EXCEPT !.devices = @ \ {r}]
         /\ sub' = IF r.device \in gone THEN Without(r.device, r.id) ELSE sub
    /\ UNCHANGED <<exists, enabled, secret, rows, key, gone, due, spoilt, request, requests>>

\* The deletion of a gone device's row raises (the database is locked, say).
\* No handler of the loop catches that: send() ends, and run() goes on.
RemovalRaises ==
    /\ stage.pc = "send"
    /\ \E r \in stage.devices :
         /\ r.device \in gone
         /\ told' = told \cup {r.device}
    /\ stage' = [stage EXCEPT !.pc = "next", !.devices = {}, !.at = NoNotifier]
    /\ spoilt' = spoilt \cup {"removal"}
    /\ UNCHANGED <<table, key, gone, due, request, requests>>

\* send() returns, or raises what it has collected; run() logs that.  It may
\* raise before it has looked for devices: there are no VAPID keys.
Return ==
    /\ stage.pc = "push" \/ (stage.pc = "send" /\ stage.devices = {})
    /\ stage' = [stage EXCEPT !.pc = "next", !.at = NoNotifier]
    /\ UNCHANGED <<table, key, gone, due, told, spoilt, request, requests>>

EndStage ==
    /\ stage.pc = "next" /\ stage.todo = {}
    /\ stage' = [stage EXCEPT !.pc = "done"]
    /\ UNCHANGED <<table, key, gone, due, told, spoilt, request, requests>>

NextRun ==
    /\ stage.pc = "done"
    /\ stage' = Rested
    /\ due' = {} /\ told' = {} /\ spoilt' = {}
    /\ UNCHANGED <<table, key, gone, request, requests>>

-----------------------------------------------------------------------------
(* Requests: the first step reads the row, the second writes it.           *)

Count == requests < MaxRequests /\ requests' = requests + 1

Receive(t, n, what) ==
    /\ request[t] = Idle
    /\ Count
    /\ exists[n]
    /\ request' = [request EXCEPT ![t] = what]
    /\ UNCHANGED <<table, key, gone, run>>

\* A form says what is typed into the password field and whether the notifier
\* is enabled; the row is needed for the stored password.
ReceiveEdit(t, n, typed, on) == Receive(t, n, Asking("edit", n, secret[n], typed, on))

ReceiveToggle(t, n) == Receive(t, n, Asking("toggle", n, Raw(Blank), Blank, enabled[n]))

ReceiveOther(t, n, step) == Receive(t, n, Asking(step, n, Raw(Blank), Blank, FALSE))

\* After t: its request is answered, and those that have read the same row
\* work on an old one.
Answered(t, changed) ==
    request' = [u \in Threads |->
                  IF u = t THEN Idle
                  ELSE IF changed /\ request[u].on = request[t].on
                         THEN [request[u] EXCEPT !.disturbed = TRUE] ELSE request[u]]

\* Quick-create.
Create(n) ==
    /\ Count
    /\ ~exists[n] /\ \A t \in Threads : request[t].on # n /\ n \notin stage.todo
    /\ exists' = [exists EXCEPT ![n] = TRUE]
    /\ enabled' = [enabled EXCEPT ![n] = TRUE]
    /\ secret' = [secret EXCEPT ![n] = Raw(Blank)]
    /\ UNCHANGED <<sub, rows, key, gone, run, request>>

\* Mutant: a password field that is left blank clears the password.
NewSecret_Cleared(r) == Encrypted(r.typed)

\* A password field that is left blank keeps the password that was read, as
\* far as it decrypts.
NewSecret(r) == Encrypted(IF r.typed = Blank THEN Decrypted(r.stored) ELSE r.typed)

\* NotifierEditView.post ends with a save of all fields.
SaveEdit(t) ==
    /\ request[t].pc = "edit"
    /\ LET r == request[t]
       IN  /\ exists' = [exists EXCEPT ![r.on] = TRUE]
           /\ enabled' = [enabled EXCEPT ![r.on] = r.enabled]
           /\ secret' = [secret EXCEPT ![r.on] = NewSecret(r)]
    /\ Answered(t, TRUE)
    /\ UNCHANGED <<sub, rows, key, gone, run, requests>>

\* Mutant: the toggle inserts a row that is gone.
SaveToggle_AllFields(t) ==
    /\ request[t].pc = "toggle"
    /\ LET r == request[t]
       IN  /\ exists' = [exists EXCEPT ![r.on] = TRUE]
           /\ enabled' = [enabled EXCEPT ![r.on] = ~r.enabled]
           /\ Answered(t, TRUE)
    /\ UNCHANGED <<secret, sub, rows, key, gone, run, requests>>

\* NotifierToggleView: save(update_fields=['enabled']) raises if the row is gone.
SaveToggle(t) ==
    /\ request[t].pc = "toggle"
    /\ LET r == request[t]
       IN  /\ enabled' = IF exists[r.on] THEN [enabled EXCEPT ![r.on] = ~r.enabled] ELSE enabled
           /\ Answered(t, exists[r.on])
    /\ UNCHANGED <<exists, secret, sub, rows, key, gone, run, requests>>

\* Mutant: the subscriptions stay.
Delete_NoCascade(t) ==
    /\ request[t].pc = "delete"
    /\ LET n == request[t].on
       IN  /\ exists' = [exists EXCEPT ![n] = FALSE]
           /\ enabled' = [enabled EXCEPT ![n] = FALSE]
           /\ secret' = [secret EXCEPT ![n] = Raw(Blank)]
           /\ Answered(t, exists[n])
    /\ UNCHANGED <<sub, rows, key, gone, run, requests>>

\* NotifierDeleteView: the subscriptions go with it.
Delete(t) ==
    /\ request[t].pc = "delete"
    /\ LET n == request[t].on
       IN  /\ exists' = [exists EXCEPT ![n] = FALSE]
           /\ enabled' = [enabled EXCEPT ![n] = FALSE]
           /\ secret' = [secret EXCEPT ![n] = Raw(Blank)]
           /\ sub' = [d \in Devices |-> IF sub[d].notifier = n THEN NoSub ELSE sub[d]]
           /\ Answered(t, exists[n])
    /\ UNCHANGED <<rows, key, gone, run, requests>>

\* WebPushSubscribeView: get_or_create by endpoint.  An insert for a notifier
\* that is gone fails.
Find(t) ==
    /\ request[t].pc = "find"
    /\ \E d \in Devices :
         LET n == request[t].on
         IN  IF sub[d] = NoSub
               THEN /\ IF exists[n]
                         THEN /\ rows < MaxRows
                              /\ rows' = rows + 1
                              /\ sub' = [sub EXCEPT ![d] = [notifier |-> n, id |-> rows']]
                         ELSE UNCHANGED <<rows, sub>>
                    /\ Answered(t, FALSE)
               ELSE /\ request' = [request EXCEPT ![t] =
                                     [@ EXCEPT !.pc = "update", !.device = d, !.id = sub[d].id]]
                    /\ UNCHANGED <<rows, sub>>
    /\ UNCHANGED <<exists, enabled, secret, key, gone, run, requests>>

\* sub.save(): the row moves to the notifier, or comes back with its old id;
\* that fails if the notifier is gone or the endpoint has another row by now.
Update(t) ==
    /\ request[t].pc = "update"
    /\ LET r == request[t]
       IN  sub' = IF exists[r.on] /\ sub[r.device].id \in {0, r.id}
                    THEN [sub EXCEPT ![r.device] = [notifier |-> r.on, id |-> r.id]] ELSE sub
    /\ Answered(t, FALSE)
    /\ UNCHANGED <<exists, enabled, secret, rows, key, gone, run, requests>>

\* WebPushUnsubscribeView: the row of this notifier with the id from the page.
Unsubscribe(t) ==
    /\ request[t].pc = "drop"
    /\ \E d \in Devices :
         sub' = IF sub[d].notifier = request[t].on THEN [sub EXCEPT ![d] = NoSub] ELSE sub
    /\ Answered(t, FALSE)
    /\ UNCHANGED <<exists, enabled, secret, rows, key, gone, run, requests>>

-----------------------------------------------------------------------------
(* Outside.                                                                *)

\* SECRET_KEY is changed, which takes a restart: what is stored no longer
\* decrypts.
RotateKey ==
    /\ key < MaxKeys
    /\ stage.pc = "rest" /\ \A t \in Threads : request[t] = Idle
    /\ key' = key + 1
    /\ UNCHANGED <<table, gone, run, request, requests>>

\* A browser drops its subscription, or is installed again.
DeviceChanges ==
    /\ \E d \in Devices : gone' = IF d \in gone THEN gone \ {d} ELSE gone \cup {d}
    /\ UNCHANGED <<table, key, run, request, requests>>

Stage == \/ Configure \/ Dispatch \/ DispatchRaises \/ ReadDevices
         \/ Send \/ RemovalRaises \/ Return \/ EndStage

Next ==
    \/ Stage \/ NextRun
    \/ \E t \in Threads, n \in Notifiers :
         \/ \E typed \in Passwords, on \in BOOLEAN : ReceiveEdit(t, n, typed, on)
         \/ ReceiveToggle(t, n)
         \/ \E step \in {"delete"} \cup (IF n \in Push THEN {"find", "drop"} ELSE {}) :
              ReceiveOther(t, n, step)
    \/ \E n \in Notifiers : Create(n)
    \/ \E t \in Threads : \/ SaveEdit(t) \/ SaveToggle(t) \/ Delete(t)
                          \/ Find(t) \/ Update(t) \/ Unsubscribe(t)
    \/ RotateKey \/ DeviceChanges

Spec == Init /\ [][Next]_vars

-----------------------------------------------------------------------------
(* Properties.                                                             *)

\* When the stage ends it has tried every notifier of the run, unless the
\* message for one could not be prepared, and every device that was subscribed
\* when it looked, unless the row of a gone device could not be deleted.  So
\* neither a service that fails, nor a device that is gone, nor a request that
\* deletes rows meanwhile costs anyone the message; a row that cannot be
\* deleted costs no notifier; and a message that cannot be prepared costs no
\* device of the notifiers before it.
EveryoneIsTold ==
    stage.pc = "done" =>
      /\ "message" \notin spoilt => due \cap Notifiers \subseteq told
      /\ "removal" \notin spoilt => due \cap Devices \subseteq told

\* A notifier that was deleted stays deleted until somebody creates it, unless
\* an edit had read it before: that edit's save inserts it again.
DeletedNotifierStays ==
    [][\A n \in Notifiers : ~exists[n] /\ exists'[n]
         => \/ requests' # requests   \* Create(n)
            \/ \E t \in Threads : /\ request[t].pc = "edit" /\ request[t].on = n
                                  /\ request[t].disturbed]_vars

\* Saving a notifier stores the password that was typed, or keeps the one that
\* would have been used, unless another request has changed the notifier since.
\* A password that begins with "enc:" is excluded: it is taken for encrypted.
PasswordIsKept ==
    [][\A t \in Threads :
         LET r == request[t]
         IN  SaveEdit(t) /\ ~r.disturbed /\ r.typed \notin Prefixed
               => Decrypted(secret'[r.on]) = IF r.typed = Blank
                                               THEN Decrypted(secret[r.on]) ELSE r.typed]_vars
=============================================================================
