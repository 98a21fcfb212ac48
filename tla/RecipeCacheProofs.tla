--------------------------- MODULE RecipeCacheProofs ---------------------------
(***************************************************************************)
(* Proofs about RecipeCache, for any recipes and overrides, any number of  *)
(* threads, changes and faults: one build at a time, a fresh cache that    *)
(* matches the disk, and a save that is the selection of the page.         *)
(***************************************************************************)
EXTENDS RecipeCache, TLAPS

Builders == {t \in Threads : build[t].pc # "none"}
BuildStates == [pc : {"none", "scan", "read", "stamp", "end"}, found : SUBSET Files]
Pages == [state : {"closed", "polling", "loaded", "failed"}, rows : SUBSET Identifiers,
          listed : SUBSET Identifiers, known : SUBSET Identifiers]

\* What the invariant needs of the types.
Types == /\ installed \subseteq Files
         /\ overrides \subseteq OverrideFiles
         /\ ts \in {"zero", "recent", "old"}
         /\ pc \in [Threads -> {"idle", "reset", "check", "lock", "answer"}]
         /\ job \in [Threads -> {"none", "change", "look", "poll"}]
         /\ build \in [Threads -> BuildStates]
         /\ \A t \in Threads : pc[t] = "reset" => job[t] = "change"

\* The invalidations that have reset the stamp, and those that have not.
ChangeAt(step) == \E t \in Threads : job[t] = "change" /\ pc[t] = step

\* The cache has an entry for each identifier on disk, from one of its files.
Matches == data \in Dedupe({Info(f) : f \in installed})

\* At most one build, and the flag says so.
Alone == \A t, u \in Builders : t = u
Flagged == Builders # {} => building
\* What the build that is under way has read is what is on disk, or somebody says so.
ScanIsGood == \A t \in Threads : build[t].pc = "read"
                => build[t].found = installed \/ lost = "yes" \/ InvalidationUnderWay
DataIsGood == \A t \in Threads : build[t].pc = "stamp"
                => Matches \/ lost = "yes" \/ InvalidationUnderWay
\* The stamp is never recent during a build, nor before the first one.
StampIsLast == \A t \in Threads : build[t].pc \in {"scan", "read", "stamp"} => ts # "recent"
FirstStamp == /\ ~built => ts # "recent"
              /\ \A t \in Threads : build[t].pc = "stamp" => built
\* An invalidation whose stamp was overwritten is lost.
Overwritten == ChangeAt("check") \/ ChangeAt("lock") => ts # "recent" \/ lost # "no"
FreshIsGood == Ready /\ ~Behind => Matches

IInv == /\ Types
        /\ Alone /\ Flagged /\ ScanIsGood /\ DataIsGood /\ StampIsLast /\ FirstStamp
        /\ Overwritten /\ FreshIsGood

LEMMA InitInv == Init => IInv
  <1> SUFFICES ASSUME Init PROVE IInv
    OBVIOUS
  <1>1. Types
    <2>1. installed \subseteq Files
      BY DEF Init, FilesOf
    <2>2. overrides \subseteq OverrideFiles
      BY DEF Init
    <2>3. [pc |-> "none", found |-> {}] \in BuildStates
      BY DEF BuildStates
    <2>4. build \in [Threads -> BuildStates]
      BY <2>3 DEF Init
    <2>5. /\ pc \in [Threads -> {"idle", "reset", "check", "lock", "answer"}]
          /\ job \in [Threads -> {"none", "change", "look", "poll"}]
      BY DEF Init
    <2> QED
      BY <2>1, <2>2, <2>4, <2>5 DEF Init, Types
  <1>2. Builders = {} /\ \A t \in Threads : build[t].pc = "none"
    BY DEF Init, Builders
  <1>3. ~built /\ ts = "zero"
    BY DEF Init
  <1> QED
    BY <1>1, <1>2, <1>3 DEF IInv, Alone, Flagged, ScanIsGood, DataIsGood, StampIsLast,
       FirstStamp, Overwritten, FreshIsGood, Ready

\* An invalidation under way is at one of three steps.
LEMMA UnderWay ==
    InvalidationUnderWay <=> ChangeAt("reset") \/ ChangeAt("check") \/ ChangeAt("lock")
  BY DEF InvalidationUnderWay, ChangeAt

-------------------------------------------------------------------------------
(* The steps that leave the cache alone.                                   *)

Asking == ChangeAt("check") \/ ChangeAt("lock")

\* Neither the cache nor the builds change, and no invalidation is over.
LEMMA CacheKept ==
    ASSUME IInv, Types', UNCHANGED <<built, data, ts, building, build, lost>>,
           upLong => upLong', installed' = installed \/ InvalidationUnderWay',
           InvalidationUnderWay => InvalidationUnderWay', Asking' => Asking
    PROVE  IInv'
  <1>1. Builders' = Builders
    BY DEF Builders
  <1>2. Alone' /\ Flagged' /\ StampIsLast' /\ FirstStamp'
    BY <1>1 DEF IInv, Alone, Flagged, StampIsLast, FirstStamp
  <1>3. ScanIsGood' /\ DataIsGood'
    BY DEF IInv, ScanIsGood, DataIsGood, Matches
  <1>4. Overwritten'
    BY DEF IInv, Overwritten, Asking
  <1>5. FreshIsGood'
    BY DEF IInv, FreshIsGood, Ready, Behind, Matches
  <1> QED
    BY <1>2, <1>3, <1>4, <1>5 DEF IInv

\* A thread that begins a request, one that is no invalidation included.
LEMMA Begun ==
    ASSUME IInv, NEW t \in Threads, NEW step \in {"reset", "check"},
           NEW what \in {"change", "look", "poll"}, Begin(t, step, what),
           what = "change" <=> step = "reset"
    PROVE  /\ pc' \in [Threads -> {"idle", "reset", "check", "lock", "answer"}]
           /\ job' \in [Threads -> {"none", "change", "look", "poll"}]
           /\ \A u \in Threads : pc'[u] = "reset" => job'[u] = "change"
           /\ InvalidationUnderWay => InvalidationUnderWay'
           /\ Asking' => Asking
           /\ what = "change" => InvalidationUnderWay'
  <1>1. /\ pc' \in [Threads -> {"idle", "reset", "check", "lock", "answer"}]
        /\ job' \in [Threads -> {"none", "change", "look", "poll"}]
        /\ pc[t] = "idle" /\ pc'[t] = step /\ job'[t] = what
        /\ \A u \in Threads \ {t} : pc'[u] = pc[u] /\ job'[u] = job[u]
    BY DEF Begin, IInv, Types
  <1>2. InvalidationUnderWay => InvalidationUnderWay'
    BY <1>1 DEF InvalidationUnderWay
  <1>3. Asking' => Asking
    BY <1>1 DEF Asking, ChangeAt
  <1>4. what = "change" => InvalidationUnderWay'
    BY <1>1 DEF InvalidationUnderWay
  <1>5. \A u \in Threads : pc'[u] = "reset" => job'[u] = "change"
    BY <1>1 DEF IInv, Types
  <1> QED
    BY <1>1, <1>2, <1>3, <1>4, <1>5

\* A thread whose request is over and was no invalidation.
LEMMA Finished ==
    ASSUME IInv, NEW t \in Threads, Finish(t), pc[t] = "answer"
    PROVE  /\ pc' \in [Threads -> {"idle", "reset", "check", "lock", "answer"}]
           /\ job' \in [Threads -> {"none", "change", "look", "poll"}]
           /\ \A u \in Threads : pc'[u] = "reset" => job'[u] = "change"
           /\ InvalidationUnderWay => InvalidationUnderWay'
           /\ Asking' => Asking
  <1>1. /\ pc' \in [Threads -> {"idle", "reset", "check", "lock", "answer"}]
        /\ job' \in [Threads -> {"none", "change", "look", "poll"}]
        /\ pc'[t] = "idle"
        /\ \A u \in Threads \ {t} : pc'[u] = pc[u] /\ job'[u] = job[u]
    BY DEF Finish, IInv, Types
  <1>2. InvalidationUnderWay => InvalidationUnderWay'
    BY <1>1 DEF InvalidationUnderWay
  <1>3. Asking' => Asking
    BY <1>1 DEF Asking, ChangeAt
  <1>4. \A u \in Threads : pc'[u] = "reset" => job'[u] = "change"
    BY <1>1 DEF IInv, Types
  <1> QED
    BY <1>1, <1>2, <1>3, <1>4

LEMMA RequestInv == ASSUME IInv, NEW t \in Threads, Request(t) PROVE IInv'
  <1> USE DEF cacheVars, diskVars, boundVars
  <1>1. ASSUME RepoChange(t), installed' \subseteq Files PROVE IInv'
    <2>1. Types'
      BY <1>1, Begun DEF RepoChange, IInv, Types
    <2> QED
      BY <1>1, <2>1, Begun, CacheKept DEF RepoChange
  <1>2. ASSUME NEW r \in Repos, AddRepo(t, r) \/ AddIndexedRepo(t, r) PROVE IInv'
    BY <1>1, <1>2 DEF AddRepo, AddIndexedRepo, FilesOf, IInv, Types
  <1>3. ASSUME NEW r \in Repos, DeleteRepo(t, r) PROVE IInv'
    BY <1>1, <1>3 DEF DeleteRepo, IInv, Types
  <1>4. ASSUME NEW r \in Repos, UpdateRepo(t, r) PROVE IInv'
    BY <1>1, <1>4 DEF UpdateRepo, FilesOf, IInv, Types
  <1>5. CASE ChangeOverrides(t)
    <2>1. Types'
      BY <1>5, Begun DEF ChangeOverrides, IInv, Types
    <2> QED
      BY <1>5, <2>1, Begun, CacheKept DEF ChangeOverrides
  <1>6. CASE ResetCache(t)
    <2>1. Types'
      BY <1>6, Begun DEF ResetCache, IInv, Types
    <2> QED
      BY <1>6, <2>1, Begun, CacheKept DEF ResetCache
  <1>7. CASE OpenPage(t)
    <2>1. Types'
      BY <1>7, Begun DEF OpenPage, IInv, Types
    <2> QED
      BY <1>7, <2>1, Begun, CacheKept DEF OpenPage
  <1>8. ASSUME NEW clicked \in SUBSET page.rows, Save(t, clicked) PROVE IInv'
    <2>1. Types'
      BY <1>8, Begun DEF Save, IInv, Types
    <2> QED
      BY <1>8, <2>1, Begun, CacheKept DEF Save
  <1> QED
    BY <1>2, <1>3, <1>4, <1>5, <1>6, <1>7, <1>8 DEF Request

LEMMA QuietInv ==
    ASSUME IInv, \/ \E t \in Threads : Poll(t) \/ Answer(t) \/ PollFails(t)
                 \/ EditOverride \/ SaveElsewhere \/ UptimePasses \/ UNCHANGED vars
    PROVE  IInv'
  <1> USE DEF cacheVars, diskVars, boundVars
  <1>1. ASSUME NEW t \in Threads, Poll(t) PROVE IInv'
    <2>1. Types'
      BY <1>1, Begun DEF Poll, IInv, Types
    <2> QED
      BY <1>1, <2>1, Begun, CacheKept DEF Poll
  <1>2. ASSUME NEW t \in Threads, Answer(t) \/ PollFails(t) PROVE IInv'
    <2>1. Types'
      BY <1>2, Finished DEF Answer, PollFails, IInv, Types
    <2> QED
      BY <1>2, <2>1, Finished, CacheKept DEF Answer, PollFails
  <1>3. CASE EditOverride
    BY <1>3, CacheKept DEF EditOverride, IInv, Types, InvalidationUnderWay, Asking, ChangeAt
  <1>4. CASE SaveElsewhere \/ UptimePasses \/ UNCHANGED vars
    <2>1. /\ UNCHANGED <<installed, overrides, built, data, ts, building, build, lost, pc, job>>
          /\ upLong => upLong'
      BY <1>4 DEF SaveElsewhere, UptimePasses, vars
    <2> QED
      BY <2>1, CacheKept DEF IInv, Types, InvalidationUnderWay, Asking, ChangeAt
  <1> QED
    BY <1>1, <1>2, <1>3, <1>4
-------------------------------------------------------------------------------
(* Changes that the worker does not notice, and time.                      *)

LEMMA ElsewhereInv == ASSUME IInv, ChangeElsewhere PROVE IInv'
  <1> USE DEF ChangeElsewhere
  <1>1. Types' /\ lost' = "yes" /\ Builders' = Builders
    BY DEF IInv, Types, Builders
  <1>2. Alone' /\ Flagged' /\ StampIsLast' /\ FirstStamp'
    BY <1>1 DEF IInv, Alone, Flagged, StampIsLast, FirstStamp
  <1>3. ScanIsGood' /\ DataIsGood' /\ Overwritten' /\ FreshIsGood'
    BY <1>1 DEF ScanIsGood, DataIsGood, Overwritten, FreshIsGood, Behind
  <1> QED
    BY <1>1, <1>2, <1>3 DEF IInv

LEMMA ExpireInv == ASSUME IInv, Expire PROVE IInv'
  <1>1. /\ UNCHANGED <<installed, built, data, building, build, lost, pc, job, overrides>>
        /\ ts' = "old"
    BY DEF Expire, diskVars
  <1>2. Types' /\ Builders' = Builders
    BY <1>1 DEF IInv, Types, Builders
  <1>3. Alone' /\ Flagged' /\ StampIsLast' /\ FirstStamp' /\ Overwritten'
    BY <1>1, <1>2 DEF IInv, Alone, Flagged, StampIsLast, FirstStamp, Overwritten
  <1>4. ScanIsGood' /\ DataIsGood'
    BY <1>1 DEF IInv, ScanIsGood, DataIsGood, Matches, InvalidationUnderWay
  <1>5. FreshIsGood'
    BY <1>1 DEF FreshIsGood, Ready
  <1> QED
    BY <1>2, <1>3, <1>4, <1>5 DEF IInv

LEMMA ResetInv == ASSUME IInv, NEW t \in Threads, Reset(t) PROVE IInv'
  <1>0. pc \in [Threads -> {"idle", "reset", "check", "lock", "answer"}]
    BY DEF IInv, Types
  <1>1. /\ UNCHANGED <<installed, built, data, building, build, lost, job, overrides>>
        /\ ts' = "zero" /\ pc' = [pc EXCEPT ![t] = "check"] /\ pc[t] = "reset"
    BY DEF Reset, diskVars
  <1>2. Types' /\ Builders' = Builders
    BY <1>1 DEF IInv, Types, Builders
  <1>3. Alone' /\ Flagged' /\ StampIsLast' /\ FirstStamp' /\ Overwritten'
    BY <1>1, <1>2 DEF IInv, Alone, Flagged, StampIsLast, FirstStamp, Overwritten
  <1>4. InvalidationUnderWay => InvalidationUnderWay'
    BY <1>0, <1>1 DEF InvalidationUnderWay
  <1>5. ScanIsGood' /\ DataIsGood'
    BY <1>1, <1>4 DEF IInv, ScanIsGood, DataIsGood, Matches
  <1>6. InvalidationUnderWay'
    BY <1>0, <1>1 DEF InvalidationUnderWay, IInv, Types
  <1>7. FreshIsGood'
    BY <1>1, <1>4, <1>6 DEF IInv, FreshIsGood, Ready, Behind, Matches
  <1> QED
    BY <1>2, <1>3, <1>5, <1>7 DEF IInv
-------------------------------------------------------------------------------
(* _start_cache_build.                                                     *)

LEMMA Returned ==
    ASSUME IInv, NEW t \in Threads, Return(t), pc[t] \in {"check", "lock"}
    PROVE  /\ pc' \in [Threads -> {"idle", "reset", "check", "lock", "answer"}]
           /\ job' \in [Threads -> {"none", "change", "look", "poll"}]
           /\ \A u \in Threads : pc'[u] = "reset" => job'[u] = "change"
           /\ job[t] # "change" /\ InvalidationUnderWay => InvalidationUnderWay'
           /\ Asking' => Asking
           /\ job[t] = "change" => Asking
  <1>1. /\ pc' \in [Threads -> {"idle", "reset", "check", "lock", "answer"}]
        /\ job' \in [Threads -> {"none", "change", "look", "poll"}]
        /\ pc'[t] \in {"idle", "answer"}
        /\ \A u \in Threads \ {t} : pc'[u] = pc[u] /\ job'[u] = job[u]
    BY DEF Return, Finish, IInv, Types
  <1>2. job[t] # "change" /\ InvalidationUnderWay => InvalidationUnderWay'
    BY <1>1 DEF InvalidationUnderWay
  <1>3. Asking' => Asking
    BY <1>1 DEF Asking, ChangeAt
  <1>4. \A u \in Threads : pc'[u] = "reset" => job'[u] = "change"
    BY <1>1 DEF IInv, Types
  <1>5. job[t] = "change" => Asking
    BY DEF Asking, ChangeAt
  <1> QED
    BY <1>1, <1>2, <1>3, <1>4, <1>5

\* There is nothing to build, or it is being built.
LEMMA ReturnInv ==
    ASSUME IInv, NEW t \in Threads, Return(t), pc[t] \in {"check", "lock"}, Ready \/ building,
           lost' = IF Loses(t) THEN "yes" ELSE lost,
           UNCHANGED <<installed, overrides, built, data, ts, building, build, upLong>>
    PROVE  IInv'
  <1>1. Types' /\ Builders' = Builders
    BY Returned DEF IInv, Types, Builders
  <1>2. Alone' /\ Flagged' /\ StampIsLast' /\ FirstStamp'
    BY <1>1 DEF IInv, Alone, Flagged, StampIsLast, FirstStamp
  <1>3. CASE lost' = "yes"
    BY <1>1, <1>2, <1>3 DEF IInv, ScanIsGood, DataIsGood, Overwritten, FreshIsGood, Behind
  <1>4. CASE job[t] # "change" /\ lost' = lost
    BY <1>1, <1>4, Returned, CacheKept
  <1>5. CASE job[t] = "change" /\ ~Loses(t)
    <2>1. ~building /\ ts = "recent"
      BY <1>5 DEF Loses, Ready
    <2>2. lost # "no" /\ lost' = lost
      BY <1>5, <2>1, Returned DEF IInv, Overwritten, Asking
    <2>3. ScanIsGood' /\ DataIsGood'
      BY <2>1 DEF IInv, Flagged, Builders, ScanIsGood, DataIsGood
    <2> QED
      BY <1>1, <1>2, <2>2, <2>3 DEF IInv, Overwritten, FreshIsGood, Behind
  <1> QED
    BY <1>3, <1>4, <1>5 DEF Loses

LEMMA CheckInv == ASSUME IInv, NEW t \in Threads, Check(t) PROVE IInv'
  <1>1. CASE Ready \/ building
    BY <1>1, ReturnInv DEF Check, diskVars
  <1>2. CASE ~(Ready \/ building)
    <2>1. /\ pc \in [Threads -> {"idle", "reset", "check", "lock", "answer"}]
          /\ pc[t] = "check" /\ pc' = [pc EXCEPT ![t] = "lock"] /\ job' = job
      BY <1>2 DEF Check, IInv, Types
    <2>2. Types'
      BY <1>2, <2>1 DEF Check, diskVars, IInv, Types
    <2>3. InvalidationUnderWay => InvalidationUnderWay'
      BY <2>1 DEF InvalidationUnderWay
    <2>4. Asking' => Asking
      BY <2>1 DEF Asking, ChangeAt
    <2> QED
      BY <1>2, <2>2, <2>3, <2>4, CacheKept DEF Check, diskVars
  <1> QED
    BY <1>1, <1>2

LEMMA StartBuildInv == ASSUME IInv, NEW t \in Threads, StartBuild(t) PROVE IInv'
  <1>1. CASE Ready \/ building
    BY <1>1, ReturnInv DEF StartBuild, diskVars
  <1>2. CASE ~(Ready \/ building)
    <2>1. /\ build \in [Threads -> BuildStates] /\ Builders = {}
          /\ building' = TRUE /\ lost' = lost
          /\ Builds(t, "scan", {})
          /\ UNCHANGED <<installed, overrides, built, data, ts, upLong>>
      BY <1>2 DEF StartBuild, diskVars, IInv, Types, Flagged
    <2>2. [pc |-> "scan", found |-> {}] \in BuildStates
      BY DEF BuildStates
    <2>3. /\ build' \in [Threads -> BuildStates]
          /\ build'[t] = [pc |-> "scan", found |-> {}]
          /\ \A u \in Threads \ {t} : build'[u] = build[u] /\ build[u].pc = "none"
      BY <2>1, <2>2 DEF Builds, Builders
    <2>4. ts # "recent"
      BY <1>2 DEF Ready, IInv, FirstStamp
    <2>5. Types'
      BY <2>1, <2>3, Returned DEF StartBuild, IInv, Types
    <2>6. Alone' /\ Flagged' /\ ScanIsGood' /\ DataIsGood'
      BY <2>1, <2>3 DEF Alone, Flagged, Builders, ScanIsGood, DataIsGood
    <2>7. StampIsLast' /\ FirstStamp' /\ Overwritten'
      BY <2>1, <2>3, <2>4 DEF StampIsLast, FirstStamp, Overwritten
    <2>8. FreshIsGood'
      BY <1>2, <2>1 DEF FreshIsGood, Ready
    <2> QED
      BY <2>5, <2>6, <2>7, <2>8 DEF IInv
  <1> QED
    BY <1>1, <1>2
-------------------------------------------------------------------------------
(* The build thread, which is the only one.                                *)

LEMMA Built ==
    ASSUME IInv, NEW t \in Threads, build[t].pc # "none",
           NEW step \in {"none", "read", "stamp", "end"}, NEW found \in SUBSET Files,
           Builds(t, step, found)
    PROVE  /\ build' \in [Threads -> BuildStates]
           /\ build'[t] = [pc |-> step, found |-> found]
           /\ \A u \in Threads \ {t} : build'[u].pc = "none"
           /\ Alone'
           /\ building' = building => Flagged'
  <1>1. [pc |-> step, found |-> found] \in BuildStates
    BY DEF BuildStates
  <1>2. /\ build' \in [Threads -> BuildStates]
        /\ build'[t] = [pc |-> step, found |-> found]
        /\ \A u \in Threads \ {t} : build'[u] = build[u]
    BY <1>1 DEF Builds, IInv, Types
  <1>3. \A u \in Threads \ {t} : build[u].pc = "none"
    BY DEF IInv, Alone, Builders
  <1>4. Alone'
    BY <1>2, <1>3 DEF Alone, Builders
  <1>5. building' = building => Flagged'
    BY DEF IInv, Flagged, Builders
  <1> QED
    BY <1>2, <1>3, <1>4, <1>5

LEMMA ScanInv == ASSUME IInv, NEW t \in Threads, Scan(t) PROVE IInv'
  <1>0. installed \in SUBSET Files
    BY DEF IInv, Types
  <1>1. /\ build'[t] = [pc |-> "read", found |-> installed]
        /\ build' \in [Threads -> BuildStates]
        /\ \A u \in Threads \ {t} : build'[u].pc = "none"
        /\ Alone' /\ Flagged'
    BY <1>0, Built DEF Scan
  <1>2. /\ UNCHANGED <<installed, overrides, built, data, ts, upLong, pc, job>>
        /\ lost' = lost \/ (lost = "yes" /\ lost' = "scanned")
    BY DEF Scan, diskVars
  <1>3. Types' /\ ScanIsGood' /\ DataIsGood'
    BY <1>1, <1>2 DEF IInv, Types, ScanIsGood, DataIsGood
  <1>4. StampIsLast' /\ FirstStamp' /\ Overwritten'
    BY <1>1, <1>2 DEF Scan, IInv, StampIsLast, FirstStamp, Overwritten, ChangeAt
  <1>5. FreshIsGood'
    BY <1>2 DEF IInv, FreshIsGood, Ready, Behind, InvalidationUnderWay, Matches
  <1> QED
    BY <1>1, <1>3, <1>4, <1>5 DEF IInv

LEMMA ReadInv == ASSUME IInv, NEW t \in Threads, Read(t) PROVE IInv'
  <1>0. {} \in SUBSET Files /\ Builds(t, "stamp", {}) /\ build[t].pc # "none" /\ building' = building
    BY DEF Read
  <1>1. /\ build'[t] = [pc |-> "stamp", found |-> {}]
        /\ build' \in [Threads -> BuildStates]
        /\ \A u \in Threads \ {t} : build'[u].pc = "none"
        /\ Alone' /\ Flagged'
    BY <1>0, Built DEF Read
  <1>2. /\ UNCHANGED <<installed, overrides, ts, upLong, pc, job>>
        /\ built' = TRUE /\ ts # "recent" /\ build[t].pc = "read"
        /\ lost' = lost \/ (lost = "scanned" /\ lost' = "no")
    BY DEF Read, diskVars, IInv, StampIsLast
  <1>3. build[t].found = installed => Matches'
    <2> SUFFICES ASSUME build[t].found = installed PROVE Matches'
      OBVIOUS
    <2>1. {IF f \in installed THEN Info(f) ELSE Fallback(f) : f \in build[t].found}
            = {Info(f) : f \in installed}
      OBVIOUS
    <2>2. data' \in Dedupe({Info(f) : f \in installed})
      BY <2>1 DEF Read
    <2> QED
      BY <1>2, <2>2 DEF Matches
  <1>4. Matches' \/ lost' = "yes" \/ InvalidationUnderWay'
    BY <1>2, <1>3 DEF IInv, ScanIsGood, InvalidationUnderWay
  <1>5. Types' /\ ScanIsGood' /\ DataIsGood'
    BY <1>1, <1>2, <1>4 DEF IInv, Types, ScanIsGood, DataIsGood
  <1>6. StampIsLast' /\ FirstStamp' /\ Overwritten'
    BY <1>2 DEF StampIsLast, FirstStamp, Overwritten
  <1>7. FreshIsGood'
    BY <1>4 DEF FreshIsGood, Behind
  <1> QED
    BY <1>1, <1>5, <1>6, <1>7 DEF IInv

LEMMA StampInv == ASSUME IInv, NEW t \in Threads, Stamp(t) PROVE IInv'
  <1>0. {} \in SUBSET Files /\ Builds(t, "end", {}) /\ build[t].pc # "none" /\ building' = building
    BY DEF Stamp
  <1>1. /\ build'[t] = [pc |-> "end", found |-> {}]
        /\ build' \in [Threads -> BuildStates]
        /\ \A u \in Threads \ {t} : build'[u].pc = "none"
        /\ Alone' /\ Flagged'
    BY <1>0, Built DEF Stamp
  <1>2. /\ UNCHANGED <<installed, overrides, built, data, upLong, pc, job>>
        /\ ts' = "recent" /\ build[t].pc = "stamp"
        /\ lost' = IF Asking THEN "yes" ELSE lost
    BY DEF Stamp, diskVars, Asking, ChangeAt
  <1>3. Types' /\ ScanIsGood' /\ DataIsGood' /\ StampIsLast'
    BY <1>1, <1>2 DEF IInv, Types, ScanIsGood, DataIsGood, StampIsLast
  <1>4. Overwritten'
    BY <1>2 DEF Overwritten, Asking, ChangeAt
  <1>5. built
    BY <1>2 DEF IInv, FirstStamp
  <1>6. FirstStamp'
    BY <1>2, <1>5 DEF FirstStamp
  <1>7. FreshIsGood'
    BY <1>2 DEF IInv, DataIsGood, FreshIsGood, Behind, InvalidationUnderWay, Matches
  <1> QED
    BY <1>1, <1>3, <1>4, <1>6, <1>7 DEF IInv

LEMMA EndInv == ASSUME IInv, NEW t \in Threads, EndBuild(t) \/ BuildFails(t) PROVE IInv'
  <1>1. CASE EndBuild(t)
    <2>0. {} \in SUBSET Files /\ Builds(t, "none", {}) /\ build[t].pc # "none"
      BY <1>1 DEF EndBuild
    <2>1. /\ build'[t] = [pc |-> "none", found |-> {}]
          /\ build' \in [Threads -> BuildStates]
          /\ \A u \in Threads \ {t} : build'[u].pc = "none"
          /\ Alone'
      BY <2>0, Built
    <2>2. UNCHANGED <<installed, overrides, built, data, ts, lost, upLong, pc, job>>
      BY <1>1 DEF EndBuild, diskVars
    <2>3. Flagged' /\ ScanIsGood' /\ DataIsGood' /\ StampIsLast'
      BY <2>1 DEF Flagged, Builders, ScanIsGood, DataIsGood, StampIsLast
    <2>4. Types' /\ FirstStamp' /\ Overwritten'
      BY <2>1, <2>2 DEF IInv, Types, FirstStamp, Overwritten, ChangeAt
    <2>5. FreshIsGood'
      BY <2>2 DEF IInv, FreshIsGood, Ready, Behind, InvalidationUnderWay, Matches
    <2> QED
      BY <2>1, <2>3, <2>4, <2>5 DEF IInv
  <1>2. CASE BuildFails(t)
    <2>0. /\ {} \in SUBSET Files /\ Builds(t, "end", {}) /\ build[t].pc # "none"
          /\ building' = building
      BY <1>2 DEF BuildFails
    <2>1. /\ build'[t] = [pc |-> "end", found |-> {}]
          /\ build' \in [Threads -> BuildStates]
          /\ \A u \in Threads \ {t} : build'[u].pc = "none"
          /\ Alone' /\ Flagged'
      BY <2>0, Built
    <2>2. /\ UNCHANGED <<installed, overrides, built, data, ts, upLong, pc, job>>
          /\ lost' = "yes"
      BY <1>2 DEF BuildFails, diskVars
    <2>3. ScanIsGood' /\ DataIsGood' /\ StampIsLast'
      BY <2>1 DEF ScanIsGood, DataIsGood, StampIsLast
    <2>4. Types' /\ FirstStamp' /\ Overwritten'
      BY <2>1, <2>2 DEF IInv, Types, FirstStamp, Overwritten, ChangeAt
    <2>5. FreshIsGood'
      BY <2>2 DEF FreshIsGood, Behind
    <2> QED
      BY <2>1, <2>3, <2>4, <2>5 DEF IInv
  <1> QED
    BY <1>1, <1>2

LEMMA NextInv == IInv /\ [Next]_vars => IInv'
  BY RequestInv, QuietInv, ElsewhereInv, ExpireInv, ResetInv, CheckInv, StartBuildInv,
     ScanInv, ReadInv, StampInv, EndInv DEF Next, Handle, Build

(* At most one thread builds the cache, however many requests find it cold *)
(* (_start_cache_build of webapp/views/recipes.py).                        *)
THEOREM BuildsAreUnique == Spec => []OneBuild
  <1>1. IInv => OneBuild
    BY DEF IInv, Alone, Flagged, Builders, OneBuild
  <1> QED
    BY <1>1, InitInv, NextInv, PTL DEF Spec

LEMMA MatchingIdentifiers ==
    ASSUME Matches
    PROVE  {i.identifier : i \in data} = {f.identifier : f \in installed}
  <1>1. {i.identifier : i \in data} = {i.identifier : i \in {Info(f) : f \in installed}}
    BY DEF Matches, Dedupe
  <1>2. \A f : Info(f).identifier = f.identifier
    BY DEF Info
  <1>3. \A x : x \in {i.identifier : i \in {Info(f) : f \in installed}}
                <=> \E f \in installed : x = Info(f).identifier
    OBVIOUS
  <1> QED
    BY <1>1, <1>2, <1>3

(* A cache that passes as fresh has the recipes on disk, unless an         *)
(* invalidation is under way or came to nothing (_is_cache_ready and       *)
(* _invalidate_recipe_cache of webapp/views/recipes.py).                   *)
THEOREM FreshCacheMatches == Spec => []CacheMatchesDisk
  <1>1. IInv => CacheMatchesDisk
    BY MatchingIdentifiers DEF IInv, FreshIsGood, CacheMatchesDisk
  <1> QED
    BY <1>1, InitInv, NextInv, PTL DEF Spec
-------------------------------------------------------------------------------
(* What is saved.                                                          *)

LEMMA RowsAreEntries ==
    ASSUME NEW r \in data, NEW row \in RowsOf(r, overrides)
    PROVE  row.id \in RowIds(data, overrides)
  <1>1. row \in Entries(data, overrides)
    BY DEF Entries
  <1> QED
    BY <1>1 DEF RowIds

LEMMA OwnRowsOf ==
    ASSUME NEW S, NEW o \in S, NEW row \in OwnRows(o, data)
    PROVE  row \in UNION {OwnRows(u, data) : u \in S}
  OBVIOUS

LEMMA OwnRowsAreEntries ==
    ASSUME NEW o \in overrides \ Claimed(data, overrides), NEW row \in OwnRows(o, data)
    PROVE  row.id \in RowIds(data, overrides)
  <1>1. row \in UNION {OwnRows(u, data) : u \in overrides \ Claimed(data, overrides)}
    BY OwnRowsOf
  <1>2. row \in Entries(data, overrides)
    BY <1>1 DEF Entries
  <1> QED
    BY <1>2 DEF RowIds

\* Every override has a row, and every recipe on disk that none supersedes.
LEMMA RowsOnDisk == ASSUME Matches PROVE OnDisk \subseteq RowIds(data, overrides)
  <1>1. ASSUME NEW o \in overrides PROVE o.identifier \in RowIds(data, overrides)
    <2>1. ASSUME NEW r \in data, OverrideRow(o, r) \in RowsOf(r, overrides)
          PROVE  o.identifier \in RowIds(data, overrides)
      <3>1. OverrideRow(o, r).id = o.identifier
        BY DEF OverrideRow
      <3> QED
        BY <2>1, <3>1, RowsAreEntries
    <2>2. ASSUME NEW r \in data, o \in Superseding(r, overrides)
          PROVE  OverrideRow(o, r) \in RowsOf(r, overrides)
      BY <2>2 DEF RowsOf
    <2>3. ASSUME NEW r \in data, o.parent = r.identifier, Superseding(r, overrides) = {}
          PROVE  OverrideRow(o, r) \in RowsOf(r, overrides)
      BY <2>3 DEF RowsOf
    <2>4. ASSUME o \notin Claimed(data, overrides)
          PROVE  o.identifier \in RowIds(data, overrides)
      <3>1. PICK p : p \in EffectiveParents(data, o)
        <4>1. CASE {r \in data : r.identifier = o.parent} = {}
          BY <4>1 DEF EffectiveParents
        <4>2. ASSUME NEW r \in data, r.identifier = o.parent
              PROVE  r.parent \in EffectiveParents(data, o)
          BY <4>2 DEF EffectiveParents
        <4> QED
          BY <4>1, <4>2
      <3> DEFINE row == [id |-> o.identifier, override |-> TRUE, parent |-> p]
      <3>2. row \in OwnRows(o, data)
        BY <3>1 DEF OwnRows
      <3>3. row.id = o.identifier
        OBVIOUS
      <3> HIDE DEF row
      <3> QED
        BY <2>4, <3>2, <3>3, OwnRowsAreEntries
    <2>5. o \in Claimed(data, overrides)
            => \E r \in data : \/ o \in Superseding(r, overrides)
                               \/ o.parent = r.identifier /\ Superseding(r, overrides) = {}
      <3>1. o \in UNION {Superseding(r, overrides) : r \in data}
              => \E r \in data : o \in Superseding(r, overrides)
        OBVIOUS
      <3> QED
        BY <3>1, Zenon DEF Claimed
    <2> QED
      BY <2>1, <2>2, <2>3, <2>4, <2>5
  <1>2. ASSUME NEW f \in installed, ~Superseded(f)
        PROVE  f.identifier \in RowIds(data, overrides)
    <2>1. PICK r \in data : r.identifier = f.identifier
      BY MatchingIdentifiers
    <2>2. PICK g \in installed : r = Info(g)
      BY DEF Matches, Dedupe
    <2>3. r.stem = g.stem /\ r.identifier = g.identifier
      BY <2>2 DEF Info
    <2>4. Superseding(r, overrides) = {}
      BY <1>2, <2>1, <2>3 DEF Superseding, Superseded
    <2>5. RecipeRow(r) \in RowsOf(r, overrides)
      BY <2>4 DEF RowsOf
    <2>6. RecipeRow(r).id = f.identifier
      BY <2>1 DEF RecipeRow
    <2> QED
      BY <2>5, <2>6, RowsAreEntries
  <1> QED
    BY <1>1, <1>2 DEF OnDisk

\* What is known to be on disk has a row on a page that was filled.
IsPage == \E state, rows, listed, known :
            page = [state |-> state, rows |-> rows, listed |-> listed, known |-> known]
KnownIsShown == page.state = "loaded" => page.known \subseteq page.rows
PageInv == IInv /\ IsPage /\ KnownIsShown

LEMMA PageInit == Init => PageInv
  BY InitInv DEF Init, NoPage, Polling, PageInv, IsPage, KnownIsShown

LEMMA PageNext == PageInv /\ [Next]_vars => PageInv'
  <1> SUFFICES ASSUME PageInv, [Next]_vars PROVE IsPage' /\ KnownIsShown'
    BY NextInv DEF PageInv
  <1>1. CASE UNCHANGED page
    BY <1>1 DEF PageInv, IsPage, KnownIsShown
  <1>2. CASE page' = Polling
    BY <1>2 DEF Polling, NoPage, IsPage, KnownIsShown
  <1>3. ASSUME NEW t \in Threads, Answer(t), page' # page PROVE IsPage' /\ KnownIsShown'
    <2>1. /\ Ready
          /\ page' = [state |-> "loaded", rows |-> RowIds(data, overrides),
                      listed |-> runList, known |-> IF Behind THEN {} ELSE OnDisk]
      BY <1>3 DEF Answer
    <2>2. ~Behind => OnDisk \subseteq RowIds(data, overrides)
      BY <2>1, RowsOnDisk DEF PageInv, IInv, FreshIsGood
    <2>3. page'.known \subseteq page'.rows
      BY <2>1, <2>2
    <2> QED
      BY <2>1, <2>3 DEF IsPage, KnownIsShown
  <1>4. ASSUME NEW t \in Threads, PollFails(t), page' # page PROVE IsPage' /\ KnownIsShown'
    <2>1. PICK state, rows, listed, known :
            page = [state |-> state, rows |-> rows, listed |-> listed, known |-> known]
      BY DEF PageInv, IsPage
    <2>2. page' = [page EXCEPT !.state = "failed"]
      BY <1>4 DEF PollFails
    <2>3. page' = [state |-> "failed", rows |-> rows, listed |-> listed, known |-> known]
      BY <2>1, <2>2
    <2> QED
      BY <2>3 DEF IsPage, KnownIsShown
  <1> QED
    BY <1>1, <1>2, <1>3, <1>4 DEF Next, vars, Request, Poll, Handle, Build, AddRepo,
       AddIndexedRepo, DeleteRepo, UpdateRepo, RepoChange, ChangeOverrides, ResetCache,
       OpenPage, Save, Reset, Check, StartBuild, Scan, Read, Stamp, EndBuild, BuildFails,
       EditOverride, ChangeElsewhere, SaveElsewhere, Expire, UptimePasses

(* A save leaves the run list as it was when the page was filled, with the *)
(* clicks applied to every recipe that had to have a row then, and puts    *)
(* nothing else on it (RecipeListView.post and the page's rows,            *)
(* _build_recipe_entries).  What was put on the list later is dropped.     *)
THEOREM SaveIsTheSelection == Spec => SaveAppliesClicks
  <1>1. PageInv /\ [Next]_vars
          => [\A t \in Threads, clicked \in SUBSET page.rows :
                Save(t, clicked) /\ page.state = "loaded"
                  => /\ runList' \subseteq page.listed \cup clicked
                     /\ \A i \in page.known :
                          i \in runList' <=> ~(i \in page.listed <=> i \in clicked)]_vars
    <2> SUFFICES ASSUME PageInv, NEW t \in Threads, NEW clicked \in SUBSET page.rows,
                        Save(t, clicked), page.state = "loaded"
                 PROVE  /\ runList' \subseteq page.listed \cup clicked
                        /\ \A i \in page.known :
                             i \in runList' <=> ~(i \in page.listed <=> i \in clicked)
      OBVIOUS
    <2>1. /\ page.known \subseteq page.rows /\ clicked \subseteq page.rows
          /\ runList' = ((page.listed \cap page.rows) \ clicked)
                          \cup (clicked \ (page.listed \cap page.rows))
      BY DEF PageInv, KnownIsShown, Save
    <2> QED
      BY <2>1
  <1> QED
    BY <1>1, PageInit, PageNext, PTL DEF Spec, SaveAppliesClicks
=============================================================================
