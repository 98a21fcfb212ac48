---------------------------- MODULE ApiAuthProofs ----------------------------
(***************************************************************************)
(* Proofs about ApiAuth, for any users, tokens, messages and threads, any  *)
(* tolerance of the time stamps and any lifetime of a challenge: a signed  *)
(* request counts once and a challenge is redeemed once, apart from the    *)
(* races that the history variables name.                                  *)
(***************************************************************************)
EXTENDS ApiAuth, TLAPS

Work == [pc : {"idle"} \cup Signed \cup Redeeming,
         arg : Messages \cup Challenges \cup {NoArg},
         active : BOOLEAN, for : {"none", "token", "session"}]
ChallengeRow == [user : Users \cup {Nobody}, hash : 0..MaxEdits,
                 expires : Nat, used : BOOLEAN]
NonceRow == [token : Tokens, nonce : Nonces, used_at : 0..MaxTime]

\* A thread works on a thing of its kind.
Kind(w) == /\ w.pc \in Signed => w.arg \in Messages
           /\ w.pc \in Redeeming => w.arg \in Challenges

Types ==
    /\ clock \in 0..MaxTime
    /\ account \in [Users -> {"active", "disabled", "deleted"}]
    /\ password \in [Users -> 0..MaxEdits]
    /\ owner \in [Tokens -> Users \cup {Nobody}]
    /\ challenge \in [Challenges -> ChallengeRow]
    /\ nonces \subseteq NonceRow
    /\ thread \in [Threads -> Work]
    /\ \A t \in Threads : Kind(thread[t])
    /\ accepted \in [Messages -> Nat]
    /\ ahead \subseteq Messages /\ stalled \subseteq Messages
    /\ granted \in [Challenges -> Nat]
    /\ overlapped \subseteq Challenges
    /\ edits \in 0..MaxEdits

-----------------------------------------------------------------------------
(* What keeps a message from counting twice, and a challenge from being    *)
(* redeemed twice.                                                         *)

Handles(t, m) == thread[t].pc \in Signed /\ thread[t].arg = m
Pending(t, m) == thread[t].pc = "prune" /\ thread[t].arg = m

\* The row of m is there and will be until m is out of its window, or m is out
\* of its window and nobody is past checking that.
Guarded(m) ==
    \/ \E n \in nonces : n.token = m.token /\ n.nonce = m.nonce /\ n.used_at >= m.timestamp
    \/ /\ clock > m.timestamp + Window
       /\ \A t \in Threads : Handles(t, m) => Pending(t, m)

Once(m) ==
    /\ accepted[m] <= 1
    /\ \A t, u \in Threads : Pending(t, m) /\ Pending(u, m) => t = u
    /\ \A t \in Threads : Pending(t, m) => accepted[m] = 0
    /\ accepted[m] = 1 \/ (\E t \in Threads : Pending(t, m)) => Guarded(m)

Holds(t, c) == thread[t].pc \in Unmarked /\ thread[t].arg = c

Redeemed(c) ==
    /\ granted[c] <= 1
    /\ granted[c] = 1 => /\ challenge[c].used
                         /\ \A t \in Threads : ~Holds(t, c)

Messaging == \A m \in Messages : m \in ahead \cup stalled \/ Once(m)
Challenging == \A c \in Challenges : c \in overlapped \/ Redeemed(c)

IInv == Types /\ Messaging /\ Challenging

-----------------------------------------------------------------------------
(* Types.                                                                  *)

LEMMA Bounds == 0 \in 0..MaxTime /\ 0 \in 0..MaxEdits
  BY ApiAuthAssumption

LEMMA IdleIsWork == Idle \in Work /\ Kind(Idle) /\ Idle.pc = "idle"
  BY DEF Idle, Work, Kind, Signed, Redeeming, Unmarked

\* A thread that takes a request, goes to another step, or answers.
LEMMA BeginIs ==
    ASSUME NEW t \in Threads, NEW step \in {"idle"} \cup Signed \cup Redeeming,
           NEW what \in Messages \cup Challenges, NEW for \in {"none", "token", "session"},
           Begin(t, step, what, for), thread \in [Threads -> Work]
    PROVE  /\ thread' \in [Threads -> Work]
           /\ thread'[t].pc = step /\ thread'[t].arg = what
           /\ \A u \in Threads \ {t} : thread'[u] = thread[u]
  <1> DEFINE w == [pc |-> step, arg |-> what, active |-> FALSE, for |-> for]
  <1>1. w \in Work /\ w.pc = step /\ w.arg = what
    BY DEF Work
  <1>2. thread' = [thread EXCEPT ![t] = w]
    BY DEF Begin
  <1> HIDE DEF w
  <1> QED
    BY <1>1, <1>2

LEMMA GotoIs ==
    ASSUME NEW t \in Threads, NEW step \in {"idle"} \cup Signed \cup Redeeming,
           Goto(t, step), thread \in [Threads -> Work]
    PROVE  /\ thread' \in [Threads -> Work]
           /\ thread'[t].pc = step /\ thread'[t].arg = thread[t].arg
           /\ \A u \in Threads \ {t} : thread'[u] = thread[u]
  <1>1. thread' = [thread EXCEPT ![t] = [@ EXCEPT !.pc = step]]
    BY DEF Goto
  <1>2. /\ thread'[t] = [thread[t] EXCEPT !.pc = step]
        /\ \A u \in Threads \ {t} : thread'[u] = thread[u]
    BY <1>1
  <1>3. thread[t] \in Work
    OBVIOUS
  <1>4. /\ thread'[t] \in Work
        /\ thread'[t].pc = step /\ thread'[t].arg = thread[t].arg
    BY <1>2, <1>3 DEF Work
  <1>5. thread' \in [Threads -> Work]
    BY <1>1, <1>2, <1>4
  <1> QED
    BY <1>2, <1>4, <1>5

LEMMA AnswerIs ==
    ASSUME NEW t \in Threads, Answer(t), thread \in [Threads -> Work]
    PROVE  /\ thread' \in [Threads -> Work] /\ thread'[t] = Idle
           /\ \A u \in Threads \ {t} : thread'[u] = thread[u]
  BY IdleIsWork DEF Answer

-----------------------------------------------------------------------------
(* Frames.                                                                 *)

\* A step that records and prunes nothing keeps what is known of the messages,
\* if no thread comes to record one, and none takes one that is out of time.
LEMMA MessagingKept ==
    ASSUME IInv, UNCHANGED <<nonces, accepted, ahead, stalled>>,
           clock' >= clock, clock' \in Nat, thread' \in [Threads -> Work],
           \A t \in Threads, m \in Messages :
              /\ Pending(t, m)' => Pending(t, m)
              /\ Handles(t, m)' => \/ Handles(t, m) /\ (Pending(t, m) => Pending(t, m)')
                                   \/ clock <= m.timestamp + Window /\ clock' = clock
    PROVE  Messaging'
  <1> SUFFICES ASSUME NEW m \in Messages, m \notin ahead' \cup stalled' PROVE Once(m)'
    BY DEF Messaging
  <1>1. Once(m)
    BY DEF IInv, Messaging
  <1>2. /\ m.timestamp \in Nat /\ Window \in Nat /\ clock \in Nat
    BY ApiAuthAssumption DEF IInv, Types
  <1>3. ASSUME Guarded(m) PROVE Guarded(m)'
    <2>1. CASE \E n \in nonces : n.token = m.token /\ n.nonce = m.nonce
                                   /\ n.used_at >= m.timestamp
      BY <2>1 DEF Guarded
    <2>2. CASE /\ clock > m.timestamp + Window
               /\ \A t \in Threads : Handles(t, m) => Pending(t, m)
      BY <1>2, <2>2 DEF Guarded
    <2> QED
      BY <1>3, <2>1, <2>2 DEF Guarded
  <1> QED
    BY <1>1, <1>3 DEF Once

\* The same for the challenges: nobody comes to hold one that is used.
LEMMA ChallengingKept ==
    ASSUME IInv, UNCHANGED <<granted, overlapped>>,
           \A c \in Challenges : challenge[c].used => challenge'[c].used,
           \A t \in Threads, c \in Challenges :
              Holds(t, c)' => Holds(t, c) \/ ~challenge[c].used
    PROVE  Challenging'
  BY DEF IInv, Challenging, Redeemed

\* A step of t that stays with what t was at, or ends the request.
LEMMA Moved ==
    ASSUME IInv, NEW t \in Threads, UNCHANGED clock, thread' \in [Threads -> Work],
           \A u \in Threads \ {t} : thread'[u] = thread[u],
           \/ thread'[t].pc = "idle"
           \/ /\ thread'[t].arg = thread[t].arg
              /\ \/ thread[t].pc \in Signed \ {"prune"} /\ thread'[t].pc \in Signed \ {"prune"}
                 \/ thread[t].pc \in Unmarked /\ thread'[t].pc \in Redeeming
    PROVE  /\ \A u \in Threads : Kind(thread[u])'
           /\ \A u \in Threads, m \in Messages :
                 /\ Pending(u, m)' => Pending(u, m)
                 /\ Handles(u, m)' => Handles(u, m) /\ (Pending(u, m) => Pending(u, m)')
           /\ \A u \in Threads, c \in Challenges : Holds(u, c)' => Holds(u, c)
  <1>1. \A u \in Threads \ {t} : Kind(thread[u])'
    BY DEF IInv, Types, Kind
  <1>2. Kind(thread[t])'
    BY DEF IInv, Types, Kind, Signed, Redeeming, Unmarked
  <1>3. ASSUME NEW m \in Messages
        PROVE  /\ Pending(t, m)' => Pending(t, m)
               /\ Handles(t, m)' => Handles(t, m) /\ (Pending(t, m) => Pending(t, m)')
    BY <1>3 DEF Pending, Handles, Signed, Redeeming, Unmarked
  <1>4. ASSUME NEW c \in Challenges PROVE Holds(t, c)' => Holds(t, c)
    BY <1>4, ApiAuthAssumption DEF Holds, Signed, Redeeming, Unmarked, IInv, Types, Kind
  <1>5. \A u \in Threads \ {t} :
          /\ \A m \in Messages : /\ Pending(u, m)' = Pending(u, m)
                                 /\ Handles(u, m)' = Handles(u, m)
          /\ \A c \in Challenges : Holds(u, c)' = Holds(u, c)
    BY DEF Pending, Handles, Holds
  <1> QED
    BY <1>1, <1>2, <1>3, <1>4, <1>5

-----------------------------------------------------------------------------
(* Steps of a signed request.                                              *)

\* A step of t that changes nothing but its place.
LEMMA StepInv ==
    ASSUME IInv, NEW t \in Threads,
           UNCHANGED <<clock, rows, challenge, nonces, history, edits>>,
           thread' \in [Threads -> Work],
           \A u \in Threads \ {t} : thread'[u] = thread[u],
           \/ thread'[t].pc = "idle"
           \/ /\ thread'[t].arg = thread[t].arg
              /\ \/ thread[t].pc \in Signed \ {"prune"} /\ thread'[t].pc \in Signed \ {"prune"}
                 \/ thread[t].pc \in Unmarked /\ thread'[t].pc \in Redeeming
    PROVE  IInv'
  <1>1. /\ \A u \in Threads : Kind(thread[u])'
        /\ \A u \in Threads, m \in Messages :
              /\ Pending(u, m)' => Pending(u, m)
              /\ Handles(u, m)' => Handles(u, m) /\ (Pending(u, m) => Pending(u, m)')
        /\ \A u \in Threads, c \in Challenges : Holds(u, c)' => Holds(u, c)
    BY Moved
  <1>2. UNCHANGED <<clock, account, password, owner, challenge, nonces, accepted, ahead,
                    stalled, granted, overlapped, edits>>
    BY DEF rows, history
  <1>3. Types'
    BY <1>1, <1>2 DEF IInv, Types
  <1>4. clock' >= clock /\ clock' \in Nat
    BY <1>2, ApiAuthAssumption DEF IInv, Types
  <1>5. Messaging'
    BY <1>1, <1>2, <1>4, MessagingKept
  <1>6. Challenging'
    BY <1>1, <1>2, ChallengingKept
  <1> QED
    BY <1>3, <1>5, <1>6 DEF IInv

LEMMA CheckTimestampInv ==
    ASSUME IInv, NEW t \in Threads, NEW m \in Messages, CheckTimestamp(t, m)
    PROVE  IInv'
  <1>1. /\ clock <= m.timestamp + Window
        /\ Begin(t, "token", m, "none")
        /\ UNCHANGED <<clock, account, password, owner, challenge, nonces, accepted, ahead,
                       stalled, granted, overlapped, edits>>
    BY DEF CheckTimestamp, InWindow, rows, history
  <1>4. /\ thread' \in [Threads -> Work]
        /\ thread'[t].pc = "token" /\ thread'[t].arg = m
        /\ \A u \in Threads \ {t} : thread'[u] = thread[u]
    BY <1>1, BeginIs DEF IInv, Types, Signed
  <1>5. \A u \in Threads : Kind(thread[u])'
    BY <1>4 DEF IInv, Types, Kind, Redeeming, Unmarked
  <1>6. Types'
    BY <1>1, <1>4, <1>5 DEF IInv, Types
  <1>7. /\ \A n \in Messages : ~Pending(t, n)' /\ (Handles(t, n)' => n = m)
        /\ \A c \in Challenges : ~Holds(t, c)'
    BY <1>4 DEF Pending, Handles, Holds, Unmarked
  <1>8. \A u \in Threads \ {t} :
          /\ \A n \in Messages : /\ Pending(u, n)' = Pending(u, n)
                                 /\ Handles(u, n)' = Handles(u, n)
          /\ \A c \in Challenges : Holds(u, c)' = Holds(u, c)
    BY <1>4 DEF Pending, Handles, Holds
  <1>9. clock' >= clock /\ clock' \in Nat
    BY <1>1, ApiAuthAssumption DEF IInv, Types
  <1>10. Messaging'
    BY <1>1, <1>4, <1>7, <1>8, <1>9, MessagingKept
  <1>11. Challenging'
    BY <1>1, <1>7, <1>8, ChallengingKept
  <1> QED
    BY <1>6, <1>10, <1>11 DEF IInv

LEMMA GetTokenInv == ASSUME IInv, NEW t \in Threads, GetToken(t) PROVE IInv'
  <1> DEFINE u == owner[thread[t].arg.token]
  <1>0. thread[t].pc = "token" /\ thread \in [Threads -> Work]
        /\ UNCHANGED <<clock, rows, challenge, nonces, history, edits>>
    BY DEF GetToken, IInv, Types
  <1>1. CASE Answer(t)
    BY <1>0, <1>1, AnswerIs, IdleIsWork, StepInv
  <1>2. CASE thread' = [thread EXCEPT ![t] =
                 [@ EXCEPT !.pc = "nonce", !.active = (account[u] = "active")]]
    <2>1. /\ thread'[t] = [thread[t] EXCEPT !.pc = "nonce", !.active = (account[u] = "active")]
          /\ \A v \in Threads \ {t} : thread'[v] = thread[v]
      BY <1>0, <1>2
    <2>2. thread[t] \in Work /\ (account[u] = "active") \in BOOLEAN
      BY <1>0
    <2>3. thread'[t] \in Work /\ thread'[t].pc = "nonce" /\ thread'[t].arg = thread[t].arg
      <3> DEFINE a == (account[u] = "active")
      <3>1. a \in BOOLEAN /\ thread'[t] = [thread[t] EXCEPT !.pc = "nonce", !.active = a]
        BY <2>1
      <3> HIDE DEF a
      <3> QED
        BY <2>2, <3>1 DEF Work, Signed
    <2>4. thread' \in [Threads -> Work]
      BY <1>0, <1>2, <2>1, <2>3
    <2> QED
      BY <1>0, <2>1, <2>3, <2>4, StepInv DEF Signed
  <1> QED
    BY <1>1, <1>2 DEF GetToken

\* CheckNonce and Verify.
LEMMA CheckInv == ASSUME IInv, NEW t \in Threads, CheckNonce(t) \/ Verify(t) PROVE IInv'
  <1>0. /\ thread \in [Threads -> Work]
        /\ UNCHANGED <<clock, rows, challenge, nonces, history, edits>>
    BY DEF CheckNonce, Verify, IInv, Types
  <1>1. CASE Answer(t)
    BY <1>0, <1>1, AnswerIs, IdleIsWork, StepInv
  <1>2. ASSUME NEW step \in {"verify", "record"}, thread[t].pc \in {"nonce", "verify"},
               Goto(t, step)
        PROVE  IInv'
    BY <1>0, <1>2, GotoIs, StepInv DEF Signed
  <1> QED
    BY <1>1, <1>2 DEF CheckNonce, Verify

LEMMA RecordNonceInv == ASSUME IInv, NEW t \in Threads, RecordNonce(t) PROVE IInv'
  <1> DEFINE m == thread[t].arg
  <1>0. /\ thread[t].pc = "record" /\ thread \in [Threads -> Work] /\ m \in Messages
        /\ UNCHANGED <<clock, rows, challenge, accepted, stalled, granted, overlapped, edits>>
    BY DEF RecordNonce, IInv, Types, Kind, Signed
  <1>1. CASE Recorded(m)
    BY <1>0, <1>1, AnswerIs, IdleIsWork, StepInv DEF RecordNonce, history
  <1>2. CASE ~Recorded(m)
    <2>1. /\ nonces' = nonces \cup {Row(m)}
          /\ ahead' = IF clock < m.timestamp THEN ahead \cup {m} ELSE ahead
          /\ Goto(t, "prune")
      BY <1>2 DEF RecordNonce
    <2>2. /\ thread' \in [Threads -> Work]
          /\ thread'[t].pc = "prune" /\ thread'[t].arg = m
          /\ \A u \in Threads \ {t} : thread'[u] = thread[u]
      BY <1>0, <2>1, GotoIs DEF Signed
    <2>3. /\ Row(m) \in NonceRow /\ Row(m).token = m.token /\ Row(m).nonce = m.nonce
          /\ Row(m).used_at = clock
      BY <1>0, ApiAuthAssumption DEF Row, NonceRow, IInv, Types
    <2>4. \A u \in Threads : Kind(thread[u])'
      BY <1>0, <2>2 DEF IInv, Types, Kind, Redeeming, Unmarked
    <2>5. Types'
      BY <1>0, <2>1, <2>2, <2>3, <2>4 DEF IInv, Types, rows
    <2>6. /\ \A c \in Challenges : ~Holds(t, c)'
          /\ \A u \in Threads \ {t}, c \in Challenges : Holds(u, c)' = Holds(u, c)
          /\ \A u \in Threads \ {t}, o \in Messages : /\ Pending(u, o)' = Pending(u, o)
                                                     /\ Handles(u, o)' = Handles(u, o)
      BY <2>2 DEF Holds, Unmarked, Pending, Handles
    <2>7. Challenging'
      BY <1>0, <2>6, ChallengingKept
    <2>8. ASSUME NEW o \in Messages, o \notin ahead' \cup stalled' PROVE Once(o)'
      <3>0. Once(o) /\ o \notin ahead
        BY <1>0, <2>1, <2>8 DEF IInv, Messaging
      <3>1. CASE o # m
        <4>1. ~Pending(t, o)' /\ ~Handles(t, o)' /\ ~Pending(t, o) /\ ~Handles(t, o)
          BY <2>2, <3>1 DEF Pending, Handles
        <4>2. Guarded(o) => Guarded(o)'
          BY <1>0, <2>1, <2>6, <4>1 DEF Guarded
        <4> QED
          BY <1>0, <2>6, <3>0, <4>1, <4>2 DEF Once
      <3>2. CASE o = m
        <4>1. ~Guarded(m)
          BY <1>0, <1>2 DEF Guarded, Recorded, Handles, Pending, Signed
        <4>2. accepted[m] = 0 /\ \A u \in Threads : ~Pending(u, m)
          BY <1>0, <3>0, <3>2, <4>1 DEF Once, IInv, Types
        <4>3. \A u \in Threads : Pending(u, o)' => u = t
          BY <1>0, <2>6, <3>2, <4>2
        <4>4. clock >= m.timestamp
          BY <1>0, <2>1, <2>8, <3>2, ApiAuthAssumption DEF IInv, Types
        <4>5. Guarded(o)'
          BY <2>1, <2>3, <3>2, <4>4 DEF Guarded
        <4> QED
          BY <1>0, <3>2, <4>2, <4>3, <4>5 DEF Once
      <3> QED
        BY <3>1, <3>2
    <2> QED
      BY <2>5, <2>7, <2>8 DEF IInv, Messaging
  <1> QED
    BY <1>1, <1>2

LEMMA PruneInv == ASSUME IInv, NEW t \in Threads, Prune(t) PROVE IInv'
  <1> DEFINE m == thread[t].arg
             kept == {n \in nonces : n.token # m.token \/ clock <= n.used_at + Window}
  <1>0. /\ thread[t].pc = "prune" /\ thread \in [Threads -> Work] /\ m \in Messages
        /\ nonces' = kept /\ Answer(t)
        /\ stalled' = stalled \cup
             {o \in Messages :
                /\ \E n \in nonces \ kept : n.token = o.token /\ n.nonce = o.nonce
                /\ \E u \in Threads \ {t} : thread[u].pc \in Signed /\ thread[u].arg = o}
        /\ accepted' \in {accepted, [accepted EXCEPT ![m] = @ + 1]}
        /\ UNCHANGED <<clock, account, password, owner, challenge, ahead, granted,
                       overlapped, edits>>
    BY DEF Prune, IInv, Types, Kind, Signed, rows
  <1>1. /\ thread' \in [Threads -> Work] /\ thread'[t] = Idle
        /\ \A u \in Threads \ {t} : thread'[u] = thread[u]
    BY <1>0, AnswerIs
  <1>2. \A u \in Threads : Kind(thread[u])'
    BY <1>1, IdleIsWork DEF IInv, Types, Kind
  <1>3. kept \subseteq nonces /\ accepted' \in [Messages -> Nat]
    BY <1>0 DEF IInv, Types
  <1>4. Types'
    BY <1>0, <1>1, <1>2, <1>3 DEF IInv, Types
  <1>5. /\ \A c \in Challenges : ~Holds(t, c)'
        /\ \A o \in Messages : ~Pending(t, o)' /\ ~Handles(t, o)'
        /\ \A u \in Threads \ {t}, c \in Challenges : Holds(u, c)' = Holds(u, c)
        /\ \A u \in Threads \ {t}, o \in Messages : /\ Pending(u, o)' = Pending(u, o)
                                                   /\ Handles(u, o)' = Handles(u, o)
    BY <1>1, IdleIsWork DEF Holds, Unmarked, Pending, Handles, Signed
  <1>6. Challenging'
    BY <1>0, <1>5, ChallengingKept
  <1>7. ASSUME NEW o \in Messages, o \notin ahead' \cup stalled' PROVE Once(o)'
    <2>0. Once(o) /\ o \notin stalled
      BY <1>0, <1>7 DEF IInv, Messaging
    <2>1. /\ o.timestamp \in Nat /\ Window \in Nat /\ clock \in Nat
          /\ \A n \in nonces : n.used_at \in Nat
      BY ApiAuthAssumption DEF IInv, Types, NonceRow
    <2>2. ASSUME NEW n \in nonces \ kept, n.token = o.token, n.nonce = o.nonce,
                 n.used_at >= o.timestamp
          PROVE  Guarded(o)'
      <3>1. clock > o.timestamp + Window
        BY <2>1, <2>2
      <3>2. \A u \in Threads \ {t} : ~Handles(u, o)
        BY <1>0, <1>7, <2>2 DEF Handles
      <3> QED
        BY <1>0, <1>5, <3>1, <3>2 DEF Guarded
    <2>3. Guarded(o) => Guarded(o)'
      <3>1. CASE \E n \in nonces : n.token = o.token /\ n.nonce = o.nonce
                                     /\ n.used_at >= o.timestamp
        <4>1. PICK n \in nonces : n.token = o.token /\ n.nonce = o.nonce
                                     /\ n.used_at >= o.timestamp
          BY <3>1
        <4>2. CASE n \in kept
          BY <1>0, <4>1, <4>2 DEF Guarded
        <4> QED
          BY <2>2, <4>1, <4>2
      <3>2. CASE /\ clock > o.timestamp + Window
                 /\ \A u \in Threads : Handles(u, o) => Pending(u, o)
        BY <1>0, <1>5, <3>2 DEF Guarded
      <3> QED
        BY <3>1, <3>2 DEF Guarded
    <2>4. CASE o # m
      <3>1. accepted'[o] = accepted[o]
        BY <1>0, <2>4 DEF IInv, Types
      <3> QED
        BY <1>5, <2>0, <2>3, <3>1 DEF Once
    <2>5. CASE o = m
      <3>1. Pending(t, m)
        BY <1>0 DEF Pending
      <3>2. accepted[m] = 0 /\ Guarded(m) /\ \A u \in Threads \ {t} : ~Pending(u, m)
        BY <2>0, <2>5, <3>1 DEF Once
      <3>3. \A u \in Threads : ~Pending(u, o)'
        BY <1>0, <1>5, <2>5, <3>2
      <3>4. accepted'[o] \in {0, 1}
        BY <1>0, <2>5, <3>2 DEF IInv, Types
      <3> QED
        BY <2>3, <2>5, <3>2, <3>3, <3>4 DEF Once
    <2> QED
      BY <2>4, <2>5
  <1> QED
    BY <1>4, <1>6, <1>7 DEF IInv, Messaging

-----------------------------------------------------------------------------
(* Steps of a redemption, and the steps of nobody in particular.           *)

\* A step that leaves the messages and the threads alone.
LEMMA QuietInv ==
    ASSUME IInv, UNCHANGED <<nonces, thread, history>>, clock' >= clock,
           clock' \in 0..MaxTime,
           account' \in [Users -> {"active", "disabled", "deleted"}],
           password' \in [Users -> 0..MaxEdits],
           owner' \in [Tokens -> Users \cup {Nobody}],
           challenge' \in [Challenges -> ChallengeRow], edits' \in 0..MaxEdits,
           \A c \in Challenges : challenge[c].used => challenge'[c].used
    PROVE  IInv'
  <1>1. UNCHANGED <<accepted, ahead, stalled, granted, overlapped>>
    BY DEF history
  <1>2. Types'
    BY <1>1 DEF IInv, Types, Kind
  <1>3. clock' \in Nat /\ thread' \in [Threads -> Work]
    BY ApiAuthAssumption DEF IInv, Types
  <1>4. Messaging'
    BY <1>1, <1>3, MessagingKept DEF Pending, Handles
  <1>5. Challenging'
    BY <1>1, ChallengingKept DEF Holds
  <1> QED
    BY <1>2, <1>4, <1>5 DEF IInv

LEMMA TickInv == ASSUME IInv, Tick PROVE IInv'
  <1>1. clock' = clock + 1 /\ clock \in 0..MaxTime /\ clock < MaxTime
    BY DEF Tick, IInv, Types
  <1>2. clock' >= clock /\ clock' \in 0..MaxTime
    BY <1>1, ApiAuthAssumption
  <1> QED
    BY <1>2, QuietInv DEF Tick, rows, IInv, Types

LEMMA IssueInv ==
    ASSUME IInv, NEW c \in Challenges, NEW u \in Users, Issue(c, u) PROVE IInv'
  <1> DEFINE row == [user |-> u, hash |-> password[u],
                     expires |-> clock + Lifetime, used |-> FALSE]
  <1>1. /\ challenge[c] = NoChallenge /\ challenge' = [challenge EXCEPT ![c] = row]
        /\ UNCHANGED <<clock, account, password, owner, nonces, thread, history, edits>>
    BY DEF Issue, rows
  <1>2. row \in ChallengeRow
    BY ApiAuthAssumption DEF ChallengeRow, IInv, Types
  <1> HIDE DEF row
  <1>3. challenge' \in [Challenges -> ChallengeRow]
    BY <1>1, <1>2 DEF IInv, Types
  <1>4. \A d \in Challenges : challenge[d].used => challenge'[d].used
    BY <1>1 DEF IInv, Types, NoChallenge
  <1>5. clock' >= clock
    BY <1>1, ApiAuthAssumption DEF IInv, Types
  <1> QED
    BY <1>1, <1>3, <1>4, <1>5, QuietInv DEF IInv, Types

LEMMA LookupInv ==
    ASSUME IInv, NEW t \in Threads, NEW c \in Challenges, NEW for \in {"token", "session"},
           Lookup(t, c, for)
    PROVE  IInv'
  <1>1. /\ ~challenge[c].used /\ Begin(t, "expiry", c, for)
        /\ UNCHANGED <<clock, account, password, owner, challenge, nonces, accepted, ahead,
                       stalled, granted, overlapped, edits>>
    BY DEF Lookup, rows, history
  <1>2. /\ thread' \in [Threads -> Work]
        /\ thread'[t].pc = "expiry" /\ thread'[t].arg = c
        /\ \A u \in Threads \ {t} : thread'[u] = thread[u]
    BY <1>1, BeginIs DEF IInv, Types, Redeeming, Unmarked
  <1>3. \A u \in Threads : Kind(thread[u])'
    BY <1>2 DEF IInv, Types, Kind, Signed
  <1>4. Types'
    BY <1>1, <1>2, <1>3 DEF IInv, Types
  <1>5. /\ \A m \in Messages : ~Pending(t, m)' /\ ~Handles(t, m)'
        /\ \A d \in Challenges : Holds(t, d)' => d = c
        /\ \A u \in Threads \ {t} :
             /\ \A m \in Messages : Pending(u, m)' = Pending(u, m)
                                      /\ Handles(u, m)' = Handles(u, m)
             /\ \A d \in Challenges : Holds(u, d)' = Holds(u, d)
    BY <1>2 DEF Pending, Handles, Holds, Signed
  <1>6. clock' >= clock /\ clock' \in Nat
    BY <1>1, ApiAuthAssumption DEF IInv, Types
  <1>7. Messaging'
    BY <1>1, <1>2, <1>5, <1>6, MessagingKept
  <1>8. Challenging'
    BY <1>1, <1>5, ChallengingKept
  <1> QED
    BY <1>4, <1>7, <1>8 DEF IInv

\* CheckExpiry and CheckUser.
LEMMA CheckChallengeInv ==
    ASSUME IInv, NEW t \in Threads, CheckExpiry(t) \/ CheckUser(t) PROVE IInv'
  <1>0. /\ thread \in [Threads -> Work]
        /\ UNCHANGED <<clock, rows, challenge, nonces, history, edits>>
    BY DEF CheckExpiry, CheckUser, IInv, Types
  <1>1. CASE Answer(t)
    BY <1>0, <1>1, AnswerIs, IdleIsWork, StepInv
  <1>2. ASSUME NEW step \in {"user", "mark"}, thread[t].pc \in {"expiry", "user"},
               Goto(t, step)
        PROVE  IInv'
    BY <1>0, <1>2, GotoIs, StepInv DEF Unmarked, Redeeming
  <1> QED
    BY <1>1, <1>2 DEF CheckExpiry, CheckUser

LEMMA MarkUsedInv == ASSUME IInv, NEW t \in Threads, MarkUsed(t) PROVE IInv'
  <1>0. PICK c \in Challenges :
          /\ thread[t].pc = "mark" /\ thread[t].arg = c
          /\ challenge' = [challenge EXCEPT ![c] = [@ EXCEPT !.used = TRUE]]
          /\ granted' = [granted EXCEPT ![c] = @ + 1]
          /\ overlapped' = IF \E u \in Threads \ {t} : thread[u].pc \in Unmarked
                                                         /\ thread[u].arg = c
                             THEN overlapped \cup {c} ELSE overlapped
    BY DEF MarkUsed, IInv, Types, Kind, Redeeming, Unmarked
  <1>1. /\ thread \in [Threads -> Work] /\ challenge[c] \in ChallengeRow
        /\ UNCHANGED <<clock, account, password, owner, nonces, accepted, ahead, stalled, edits>>
    BY DEF MarkUsed, IInv, Types, rows
  <1>2. /\ thread' \in [Threads -> Work]
        /\ \A u \in Threads \ {t} : thread'[u] = thread[u]
        /\ \/ thread'[t].pc = "idle"
           \/ thread'[t].pc = "issue" /\ thread'[t].arg = c
    <2>1. CASE Goto(t, "issue")
      BY <1>0, <1>1, <2>1, GotoIs DEF Redeeming
    <2>2. CASE Answer(t)
      BY <1>1, <2>2, AnswerIs, IdleIsWork
    <2> QED
      BY <2>1, <2>2 DEF MarkUsed
  <1>3. /\ challenge'[c] = [challenge[c] EXCEPT !.used = TRUE]
        /\ \A d \in Challenges \ {c} : challenge'[d] = challenge[d]
    BY <1>0 DEF IInv, Types
  <1>4. challenge'[c] \in ChallengeRow /\ challenge'[c].used
    BY <1>1, <1>3 DEF ChallengeRow
  <1>5. challenge' \in [Challenges -> ChallengeRow]
    BY <1>0, <1>3, <1>4 DEF IInv, Types
  <1>6. /\ \A u \in Threads : Kind(thread[u])'
        /\ \A u \in Threads, m \in Messages :
              /\ Pending(u, m)' => Pending(u, m)
              /\ Handles(u, m)' => Handles(u, m) /\ (Pending(u, m) => Pending(u, m)')
        /\ \A u \in Threads, d \in Challenges : Holds(u, d)' => Holds(u, d)
    <2>1. \/ thread'[t].pc = "idle"
          \/ /\ thread'[t].arg = thread[t].arg
             /\ thread[t].pc \in Unmarked /\ thread'[t].pc \in Redeeming
      BY <1>0, <1>2 DEF Unmarked, Redeeming
    <2> QED
      BY <1>1, <1>2, <2>1, Moved
  <1>7. granted' \in [Challenges -> Nat] /\ overlapped \subseteq overlapped'
        /\ overlapped' \subseteq Challenges
    BY <1>0 DEF IInv, Types
  <1>8. Types'
    BY <1>1, <1>2, <1>5, <1>6, <1>7 DEF IInv, Types
  <1>9. clock' >= clock /\ clock' \in Nat
    BY <1>1, ApiAuthAssumption DEF IInv, Types
  <1>10. Messaging'
    BY <1>1, <1>2, <1>6, <1>9, MessagingKept
  <1>11. ASSUME NEW d \in Challenges, d \notin overlapped' PROVE Redeemed(d)'
    <2>0. Redeemed(d)
      BY <1>7, <1>11 DEF IInv, Challenging
    <2>1. CASE d # c
      <3>1. granted'[d] = granted[d] /\ challenge'[d] = challenge[d]
        BY <1>0, <1>3, <2>1 DEF IInv, Types
      <3> QED
        BY <1>6, <2>0, <3>1 DEF Redeemed
    <2>2. CASE d = c
      <3>1. Holds(t, d)
        BY <1>0, <2>2 DEF Holds, Unmarked
      <3>2. granted[d] = 0
        BY <2>0, <3>1 DEF Redeemed, IInv, Types
      <3>3. \A u \in Threads \ {t} : ~Holds(u, d)
        BY <1>0, <1>11, <2>2 DEF Holds
      <3>4. ~Holds(t, d)'
        BY <1>2 DEF Holds, Unmarked
      <3>5. granted'[d] = 1
        BY <1>0, <2>2, <3>2 DEF IInv, Types
      <3> QED
        BY <1>4, <1>6, <2>2, <3>3, <3>4, <3>5 DEF Redeemed
    <2> QED
      BY <2>1, <2>2
  <1> QED
    BY <1>8, <1>10, <1>11 DEF IInv, Challenging

LEMMA IssueTokenInv == ASSUME IInv, NEW t \in Threads, IssueToken(t) PROVE IInv'
  <1>0. /\ thread[t].pc = "issue" /\ Answer(t) /\ thread \in [Threads -> Work]
        /\ UNCHANGED <<clock, account, password, challenge, nonces, accepted, ahead, stalled,
                       granted, overlapped, edits>>
        /\ thread[t].arg \in Challenges
    BY DEF IssueToken, history, IInv, Types, Kind, Redeeming
  <1>1. challenge[thread[t].arg].user \in Users \cup {Nobody}
    BY <1>0 DEF IInv, Types, ChallengeRow
  <1>2. owner' \in [Tokens -> Users \cup {Nobody}]
    BY <1>1 DEF IssueToken, IInv, Types
  <1>3. /\ thread' \in [Threads -> Work] /\ thread'[t] = Idle
        /\ \A u \in Threads \ {t} : thread'[u] = thread[u]
    BY <1>0, AnswerIs
  <1>4. /\ \A u \in Threads : Kind(thread[u])'
        /\ \A u \in Threads, m \in Messages :
              /\ Pending(u, m)' => Pending(u, m)
              /\ Handles(u, m)' => Handles(u, m) /\ (Pending(u, m) => Pending(u, m)')
        /\ \A u \in Threads, d \in Challenges : Holds(u, d)' => Holds(u, d)
    BY <1>0, <1>3, IdleIsWork, Moved
  <1>5. Types'
    BY <1>0, <1>2, <1>3, <1>4 DEF IInv, Types
  <1>6. clock' >= clock /\ clock' \in Nat
    BY <1>0, ApiAuthAssumption DEF IInv, Types
  <1>7. Messaging'
    BY <1>0, <1>3, <1>4, <1>6, MessagingKept
  <1>8. Challenging'
    BY <1>0, <1>4, ChallengingKept
  <1> QED
    BY <1>5, <1>7, <1>8 DEF IInv

\* A change of an account, a password or a token.
LEMMA EditInv ==
    ASSUME IInv, Edit,
           account' \in [Users -> {"active", "disabled", "deleted"}],
           password' \in [Users -> 0..MaxEdits],
           owner' \in [Tokens -> Users \cup {Nobody}]
    PROVE  IInv'
  <1>1. edits' \in 0..MaxEdits
    BY ApiAuthAssumption DEF Edit, IInv, Types
  <1>2. clock' >= clock
    BY ApiAuthAssumption DEF Edit, IInv, Types
  <1> QED
    BY <1>1, <1>2, QuietInv DEF Edit, IInv, Types

LEMMA EditsInv ==
    ASSUME IInv,
           \/ \E u \in Users : CreateToken(u) \/ SetActive(u) \/ DeleteUser(u) \/ ChangePassword(u)
           \/ \E k \in Tokens : RevokeToken(k)
    PROVE  IInv'
  <1>0. /\ account \in [Users -> {"active", "disabled", "deleted"}]
        /\ password \in [Users -> 0..MaxEdits]
        /\ owner \in [Tokens -> Users \cup {Nobody}]
    BY DEF IInv, Types
  <1>1. ASSUME NEW u \in Users, CreateToken(u) PROVE IInv'
    BY <1>0, <1>1, EditInv DEF CreateToken
  <1>2. ASSUME NEW u \in Users, SetActive(u) PROVE IInv'
    BY <1>0, <1>2, EditInv DEF SetActive
  <1>3. ASSUME NEW u \in Users, DeleteUser(u) PROVE IInv'
    BY <1>0, <1>3, EditInv DEF DeleteUser
  <1>4. ASSUME NEW u \in Users, ChangePassword(u) PROVE IInv'
    <2>1. edits' \in 0..MaxEdits
      BY <1>4, ApiAuthAssumption DEF ChangePassword, Edit, IInv, Types
    <2> QED
      BY <1>0, <1>4, <2>1, EditInv DEF ChangePassword
  <1>5. ASSUME NEW k \in Tokens, RevokeToken(k) PROVE IInv'
    BY <1>0, <1>5, EditInv DEF RevokeToken
  <1> QED
    BY <1>1, <1>2, <1>3, <1>4, <1>5

-----------------------------------------------------------------------------
(* The theorems.                                                           *)

LEMMA InitInv == Init => IInv
  <1> SUFFICES ASSUME Init PROVE IInv
    OBVIOUS
  <1>1. NoChallenge \in ChallengeRow
    BY Bounds DEF NoChallenge, ChallengeRow
  <1>2. Types
    BY <1>1, Bounds, IdleIsWork DEF Init, Types
  <1>3. \A t \in Threads : thread[t].pc = "idle"
    BY IdleIsWork DEF Init
  <1>4. Messaging
    BY <1>3 DEF Init, Messaging, Once, Pending
  <1>5. Challenging
    BY DEF Init, Challenging, Redeemed
  <1> QED
    BY <1>2, <1>4, <1>5 DEF IInv

LEMMA NextInv == IInv /\ [Next]_vars => IInv'
  <1> SUFFICES ASSUME IInv, [Next]_vars PROVE IInv'
    OBVIOUS
  <1>1. ASSUME NEW t \in Threads, NEW m \in Messages, CheckTimestamp(t, m) PROVE IInv'
    BY <1>1, CheckTimestampInv
  <1>2. ASSUME NEW t \in Threads, NEW c \in Challenges, NEW for \in {"token", "session"},
               Lookup(t, c, for)
        PROVE  IInv'
    BY <1>2, LookupInv
  <1>3. ASSUME NEW t \in Threads, SignedStep(t) PROVE IInv'
    BY <1>3, GetTokenInv, CheckInv, RecordNonceInv, PruneInv DEF SignedStep
  <1>4. ASSUME NEW t \in Threads, RedeemStep(t) PROVE IInv'
    BY <1>4, CheckChallengeInv, MarkUsedInv, IssueTokenInv DEF RedeemStep
  <1>5. ASSUME NEW c \in Challenges, NEW u \in Users, Issue(c, u) PROVE IInv'
    BY <1>5, IssueInv
  <1>6. CASE Tick
    BY <1>6, TickInv
  <1>7. CASE UNCHANGED vars
    <2>1. UNCHANGED <<clock, account, password, owner, challenge, nonces, thread, history,
                      edits>>
      BY <1>7 DEF vars, rows
    <2>2. clock' >= clock
      BY <2>1, ApiAuthAssumption DEF IInv, Types
    <2> QED
      BY <2>1, <2>2, QuietInv DEF IInv, Types
  <1> QED
    BY <1>1, <1>2, <1>3, <1>4, <1>5, <1>6, <1>7, EditsInv DEF Next

LEMMA AlwaysInv == Spec => []IInv
  BY InitInv, NextInv, PTL DEF Spec

\* The rows and the threads keep their types, whatever the requests do.
THEOREM TypeCorrect == Spec => []TypeOK
  <1>1. IInv => TypeOK
    BY DEF IInv, Types, TypeOK, Kind, Work, ChallengeRow, NonceRow
  <1> QED
    BY <1>1, AlwaysInv, PTL

\* APITokenAuthentication with its pruned UsedNonce rows: however often a signed
\* request is repeated, by however many threads, it counts once, unless it was
\* recorded before its own time stamp or handled while its record was pruned.
THEOREM RequestsCountOnce == Spec => []AcceptedOnce
  <1>1. IInv => AcceptedOnce
    BY DEF IInv, Messaging, Once, AcceptedOnce
  <1> QED
    BY <1>1, AlwaysInv, PTL

\* GetTokenView and ChallengeResponseBackend: a challenge is redeemed once, for a
\* token or for a session, unless two requests held it unmarked together.
THEOREM ChallengesAreUsedOnce == Spec => []RedeemedOnce
  <1>1. IInv => RedeemedOnce
    BY DEF IInv, Challenging, Redeemed, RedeemedOnce
  <1> QED
    BY <1>1, AlwaysInv, PTL
=============================================================================
