------------------------------- MODULE ApiAuth -------------------------------
(***************************************************************************)
(* Authentication of the API and of the login form: HMAC-signed requests   *)
(* and the record of their nonces (api/authentication.py), one-time        *)
(* challenges (api/views/auth.py), their redemption for a token            *)
(* (GetTokenView) or a session (webapp/auth_backends.py), and the tokens,  *)
(* accounts and passwords that are changed meanwhile.                      *)
(*                                                                         *)
(* Each query is a step of its own; nothing here runs in a transaction.    *)
(* Cryptography is ideal: a signature verifies if it was made with the     *)
(* token's secret over the string that the server builds, the answer to a  *)
(* challenge if it was made from the password of now.                      *)
(***************************************************************************)
EXTENDS Naturals

CONSTANTS
    Users, Tokens, Challenges,  \* names of rows
    Messages,   \* signed requests: [token, timestamp, nonce, signed]; signed
                \* says how: "server" as the server does, "guide" as the signing
                \* guide of the API page says, "wrong" with another secret
    Nonces, Nobody, NoArg,
    Threads,    \* request threads, of any worker
    Window,     \* _TIMESTAMP_TOLERANCE
    Lifetime,   \* _CHALLENGE_TTL_SECONDS
    MaxTime,    \* bound: ticks of the clock
    MaxEdits    \* bound: changes of accounts, passwords and tokens

ASSUME ApiAuthAssumption ==
    /\ Messages \subseteq [token : Tokens, timestamp : Nat, nonce : Nonces,
                           signed : {"server", "guide", "wrong"}]
    /\ Nobody \notin Users
    /\ NoArg \notin Messages \cup Challenges
    /\ Messages \cap Challenges = {}
    /\ Window \in Nat /\ Lifetime \in Nat /\ MaxTime \in Nat /\ MaxEdits \in Nat

VARIABLES
    clock,
    account,    \* "active", "disabled" or "deleted"
    password,   \* version of each password hash
    owner,      \* owner of each APIToken row, Nobody if there is no such row
    challenge,  \* the AuthChallenge rows
    nonces,     \* the UsedNonce rows: [token, nonce, used_at]
    thread,     \* the request that each thread handles
    accepted,   \* history: number of times each message was authenticated
    ahead,      \* history: messages recorded before their own time stamp
    stalled,    \* history: messages that a thread was handling, their time stamp
                \* already checked, when their nonce was pruned
    granted,    \* history: number of times each challenge was redeemed
    overlapped, \* history: challenges that two requests redeemed together
    edits

rows    == <<account, password, owner>>
history == <<accepted, ahead, stalled, granted, overlapped>>
vars == <<clock, rows, challenge, nonces, thread, history, edits>>

\* Steps of a signed request, and of one that redeems a challenge.
Signed == {"token", "nonce", "verify", "record", "prune"}
Unmarked == {"expiry", "user", "mark"}
Redeeming == Unmarked \cup {"issue"}

Idle == [pc |-> "idle", arg |-> NoArg, active |-> FALSE, for |-> "none"]
NoChallenge == [user |-> Nobody, hash |-> 0, expires |-> 0, used |-> FALSE]

TypeOK ==
    /\ clock \in 0..MaxTime
    /\ account \in [Users -> {"active", "disabled", "deleted"}]
    /\ password \in [Users -> 0..MaxEdits]
    /\ owner \in [Tokens -> Users \cup {Nobody}]
    /\ challenge \in [Challenges -> [user : Users \cup {Nobody}, hash : 0..MaxEdits,
                                     expires : Nat, used : BOOLEAN]]
    /\ nonces \subseteq [token : Tokens, nonce : Nonces, used_at : 0..MaxTime]
    /\ thread \in [Threads ->
                     [pc : {"idle"} \cup Signed \cup Redeeming,
                      arg : Messages \cup Challenges \cup {NoArg},
                      active : BOOLEAN, for : {"none", "token", "session"}]]
    /\ \A t \in Threads : /\ thread[t].pc \in Signed => thread[t].arg \in Messages
                          /\ thread[t].pc \in Redeeming => thread[t].arg \in Challenges
    /\ accepted \in [Messages -> Nat]
    /\ ahead \subseteq Messages /\ stalled \subseteq Messages
    /\ granted \in [Challenges -> Nat]
    /\ overlapped \subseteq Challenges
    /\ edits \in 0..MaxEdits

Init ==
    /\ clock = 0
    /\ account = [u \in Users |-> "active"]
    /\ password = [u \in Users |-> 0]
    /\ owner \in [Tokens -> Users \cup {Nobody}]
    /\ challenge = [c \in Challenges |-> NoChallenge]
    /\ nonces = {}
    /\ thread = [t \in Threads |-> Idle]
    /\ accepted = [m \in Messages |-> 0]
    /\ ahead = {} /\ stalled = {}
    /\ granted = [c \in Challenges |-> 0]
    /\ overlapped = {}
    /\ edits = 0

\* Thread t is idle, takes a request, goes on with it, and answers.
Begin(t, step, what, for) ==
    /\ thread[t] = Idle
    /\ thread' = [thread EXCEPT ![t] =
                    [pc |-> step, arg |-> what, active |-> FALSE, for |-> for]]
Goto(t, step) == thread' = [thread EXCEPT ![t] = [@ EXCEPT !.pc = step]]
Answer(t) == thread' = [thread EXCEPT ![t] = Idle]

Tick ==
    /\ clock < MaxTime
    /\ clock' = clock + 1
    /\ UNCHANGED <<rows, challenge, nonces, thread, history, edits>>

-----------------------------------------------------------------------------
(* APITokenAuthentication.authenticate.  A client repeats a request of     *)
(* which it does not know whether it has arrived.                          *)

\* _check_timestamp: a time stamp may be that far behind, or ahead.
InWindow(m) == clock <= m.timestamp + Window /\ m.timestamp <= clock + Window

CheckTimestamp(t, m) ==
    /\ InWindow(m)
    /\ Begin(t, "token", m, "none")
    /\ UNCHANGED <<clock, rows, challenge, nonces, history, edits>>

\* _get_token reads the user along with the token, once for all.
GetToken(t) ==
    /\ thread[t].pc = "token"
    /\ LET u == owner[thread[t].arg.token]
       IN  IF u = Nobody THEN Answer(t)
             ELSE thread' = [thread EXCEPT ![t] =
                              [@ EXCEPT !.pc = "nonce", !.active = (account[u] = "active")]]
    /\ UNCHANGED <<clock, rows, challenge, nonces, history, edits>>

Recorded(m) == \E n \in nonces : n.token = m.token /\ n.nonce = m.nonce

CheckNonce(t) ==
    /\ thread[t].pc = "nonce"
    /\ IF Recorded(thread[t].arg) THEN Answer(t) ELSE Goto(t, "verify")
    /\ UNCHANGED <<clock, rows, challenge, nonces, history, edits>>

\* _verify_signature: the server's string has a line for the query, also when
\* it is empty.
Verify(t) ==
    /\ thread[t].pc = "verify"
    /\ IF thread[t].arg.signed = "server" THEN Goto(t, "record") ELSE Answer(t)
    /\ UNCHANGED <<clock, rows, challenge, nonces, history, edits>>

Row(m) == [token |-> m.token, nonce |-> m.nonce, used_at |-> clock]

\* Mutant: the table has no unique_together.
RecordNonce_NotUnique(t) ==
    /\ thread[t].pc = "record"
    /\ LET m == thread[t].arg
       IN  /\ nonces' = nonces \cup {Row(m)}
           /\ ahead' = IF clock < m.timestamp THEN ahead \cup {m} ELSE ahead
           /\ Goto(t, "prune")
    /\ UNCHANGED <<clock, rows, challenge, accepted, stalled, granted, overlapped,
                   edits>>

\* _record_nonce, the insert: it fails if the pair is there.
RecordNonce(t) ==
    /\ thread[t].pc = "record"
    /\ LET m == thread[t].arg
       IN  IF Recorded(m)
             THEN /\ Answer(t)
                  /\ UNCHANGED <<nonces, ahead>>
             ELSE /\ nonces' = nonces \cup {Row(m)}
                  /\ ahead' = IF clock < m.timestamp THEN ahead \cup {m} ELSE ahead
                  /\ Goto(t, "prune")
    /\ UNCHANGED <<clock, rows, challenge, accepted, stalled, granted, overlapped,
                   edits>>

\* The rest of _record_nonce, of this credential only; then is_active as it was
\* when the token was read.
Prune(t) ==
    /\ thread[t].pc = "prune"
    /\ LET m == thread[t].arg
           kept == {n \in nonces : n.token # m.token \/ clock <= n.used_at + Window}
       IN  /\ nonces' = kept
           /\ stalled' = stalled \cup
                {o \in Messages :
                   /\ \E n \in nonces \ kept : n.token = o.token /\ n.nonce = o.nonce
                   /\ \E u \in Threads \ {t} : thread[u].pc \in Signed
                                                  /\ thread[u].arg = o}
           /\ accepted' = IF thread[t].active THEN [accepted EXCEPT ![m] = @ + 1]
                                              ELSE accepted
    /\ Answer(t)
    /\ UNCHANGED <<clock, rows, challenge, ahead, granted, overlapped, edits>>

-----------------------------------------------------------------------------
(* Challenges.                                                             *)

\* ChallengeView; the client derives its answer from the hash of now.
Issue(c, u) ==
    /\ challenge[c] = NoChallenge
    /\ account[u] = "active"
    /\ challenge' = [challenge EXCEPT ![c] =
                       [user |-> u, hash |-> password[u],
                        expires |-> clock + Lifetime, used |-> FALSE]]
    /\ UNCHANGED <<clock, rows, nonces, thread, history, edits>>

\* Mutant: used=False is left out of the query.
Lookup_UsedToo(t, c, for) ==
    /\ challenge[c] # NoChallenge
    /\ Begin(t, "expiry", c, for)
    /\ UNCHANGED <<clock, rows, challenge, nonces, history, edits>>

\* GetTokenView.post and ChallengeResponseBackend.authenticate, the first query.
Lookup(t, c, for) ==
    /\ challenge[c] # NoChallenge
    /\ ~challenge[c].used
    /\ Begin(t, "expiry", c, for)
    /\ UNCHANGED <<clock, rows, challenge, nonces, history, edits>>

CheckExpiry(t) ==
    /\ thread[t].pc = "expiry"
    /\ IF challenge[thread[t].arg].expires < clock THEN Answer(t) ELSE Goto(t, "user")
    /\ UNCHANGED <<clock, rows, challenge, nonces, history, edits>>

\* The user, and verify_challenge_response against the hash just read.
CheckUser(t) ==
    /\ thread[t].pc = "user"
    /\ LET c == challenge[thread[t].arg]
       IN  IF account[c.user] = "active" /\ password[c.user] = c.hash
             THEN Goto(t, "mark") ELSE Answer(t)
    /\ UNCHANGED <<clock, rows, challenge, nonces, history, edits>>

\* challenge.save(update_fields=['used']), whatever the row says by now.
MarkUsed(t) ==
    /\ thread[t].pc = "mark"
    /\ LET c == thread[t].arg
       IN  /\ challenge' = [challenge EXCEPT ![c] = [@ EXCEPT !.used = TRUE]]
           /\ granted' = [granted EXCEPT ![c] = @ + 1]
           /\ overlapped' = IF \E u \in Threads \ {t} : thread[u].pc \in Unmarked
                                                          /\ thread[u].arg = c
                              THEN overlapped \cup {c} ELSE overlapped
    /\ IF thread[t].for = "token" THEN Goto(t, "issue") ELSE Answer(t)
    /\ UNCHANGED <<clock, rows, nonces, accepted, ahead, stalled, edits>>

\* A token of the user, or a new one named Default; the insert fails if the
\* user has been deleted meanwhile.
IssueToken(t) ==
    /\ thread[t].pc = "issue"
    /\ LET u == challenge[thread[t].arg].user
       IN  IF account[u] = "deleted" \/ \E k \in Tokens : owner[k] = u
             THEN UNCHANGED owner
             ELSE \E k \in Tokens : /\ owner[k] = Nobody
                                    /\ owner' = [owner EXCEPT ![k] = u]
    /\ Answer(t)
    /\ UNCHANGED <<clock, account, password, challenge, nonces, history, edits>>

-----------------------------------------------------------------------------
(* Other requests: ApiTokensView, the user pages, the account page.        *)

Edit ==
    /\ edits < MaxEdits
    /\ edits' = edits + 1
    /\ UNCHANGED <<clock, challenge, nonces, thread, history>>

CreateToken(u) ==
    /\ Edit
    /\ account[u] # "deleted"
    /\ \E k \in Tokens : owner[k] = Nobody /\ owner' = [owner EXCEPT ![k] = u]
    /\ UNCHANGED <<account, password>>

RevokeToken(k) ==
    /\ Edit
    /\ owner[k] # Nobody
    /\ owner' = [owner EXCEPT ![k] = Nobody]
    /\ UNCHANGED <<account, password>>

SetActive(u) ==
    /\ Edit
    /\ account[u] # "deleted"
    /\ account' = [account EXCEPT ![u] = IF @ = "active" THEN "disabled" ELSE "active"]
    /\ UNCHANGED <<password, owner>>

\* The tokens go with the user; challenges and nonces name no row.
DeleteUser(u) ==
    /\ Edit
    /\ account[u] # "deleted"
    /\ account' = [account EXCEPT ![u] = "deleted"]
    /\ owner' = [k \in Tokens |-> IF owner[k] = u THEN Nobody ELSE owner[k]]
    /\ UNCHANGED password

ChangePassword(u) ==
    /\ Edit
    /\ account[u] # "deleted"
    /\ password' = [password EXCEPT ![u] = edits']
    /\ UNCHANGED <<account, owner>>

-----------------------------------------------------------------------------
SignedStep(t) == GetToken(t) \/ CheckNonce(t) \/ Verify(t) \/ RecordNonce(t) \/ Prune(t)
RedeemStep(t) == CheckExpiry(t) \/ CheckUser(t) \/ MarkUsed(t) \/ IssueToken(t)

Next ==
    \/ \E t \in Threads :
         \/ \E m \in Messages : CheckTimestamp(t, m)
         \/ \E c \in Challenges, for \in {"token", "session"} : Lookup(t, c, for)
         \/ SignedStep(t) \/ RedeemStep(t)
    \/ \E c \in Challenges, u \in Users : Issue(c, u)
    \/ \E u \in Users : CreateToken(u) \/ SetActive(u) \/ DeleteUser(u) \/ ChangePassword(u)
    \/ \E k \in Tokens : RevokeToken(k)
    \/ Tick

Spec == Init /\ [][Next]_vars

-----------------------------------------------------------------------------
(* Properties.                                                             *)

\* A signed request counts once, however often it arrives and however its
\* copies interleave, although nonces are pruned.  Apart from requests recorded
\* before their own time stamp, whose window outlasts the record, and from those
\* that a thread was still handling when the record was pruned.
AcceptedOnce ==
    \A m \in Messages : accepted[m] <= 1 \/ m \in ahead \cup stalled

\* A challenge is redeemed once, by a login or for a token, unless two requests
\* hold it at the same time: reading it and marking it are separate queries.
RedeemedOnce ==
    \A c \in Challenges : granted[c] <= 1 \/ c \in overlapped
=============================================================================
