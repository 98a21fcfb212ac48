-------------------------- MODULE RecipeIndexProofs --------------------------
(***************************************************************************)
(* Proofs about RecipeIndex, for any number of workers and fetch threads   *)
(* and any number of faults: a worker has one fetch at a time, and never   *)
(* goes back to an older index than it has shown.                          *)
(***************************************************************************)
EXTENDS RecipeIndex, TLAPS

FetchStates == [pc : {"none", "request", "store", "fail", "clear"}, got : 0..MaxVersions]

Step(w) == \/ \E f \in Fetches : \/ Request(w, f) \/ RequestFails(w, f) \/ Store(w, f)
                                 \/ StoreError(w, f) \/ Clear(w, f)
           \/ BootLock(w) \/ BootMark(w) \/ Crash(w) \/ Age(w) \/ HourlyRefresh(w)
           \/ OpenPage(w) \/ Search(w) \/ Refresh(w)

LEMMA NextIs ==
    [Next]_vars <=> (\E w \in Workers : Step(w)) \/ Publish \/ SentinelAges \/ SearchFails
                      \/ PollFails
                      \/ UNCHANGED vars
  BY DEF Next, Fetching, Booting, Step

LEMMA ZeroIsVersion == 0 \in 0..MaxVersions
  BY RecipeIndexAssumption

LEMMA GotoTypes ==
    ASSUME TypeOK, NEW w \in Workers, NEW f \in Fetches,
           NEW pc \in {"none", "request", "store", "fail", "clear"},
           NEW got \in 0..MaxVersions, Goto(w, f, pc, got)
    PROVE  fetch' \in [Workers -> [Fetches -> FetchStates]]
  <1>1. [pc |-> pc, got |-> got] \in FetchStates
    BY DEF FetchStates
  <1>2. fetch \in [Workers -> [Fetches -> FetchStates]]
    BY DEF TypeOK, FetchStates
  <1> QED
    BY <1>1, <1>2 DEF Goto

LEMMA EnsureFreshTypes ==
    ASSUME TypeOK, NEW w \in Workers, NEW force \in BOOLEAN, EnsureFresh(w, force)
    PROVE  /\ building' \in [Workers -> BOOLEAN]
           /\ fetch' \in [Workers -> [Fetches -> FetchStates]]
  <1>1. CASE UNCHANGED <<building, fetch>>
    BY <1>1 DEF TypeOK, FetchStates
  <1>2. CASE StartFetch(w)
    <2>1. PICK f \in Fetches : Goto(w, f, "request", 0)
      BY <1>2 DEF StartFetch
    <2>2. building' \in [Workers -> BOOLEAN]
      BY <1>2 DEF StartFetch, TypeOK
    <2> QED
      BY <2>1, <2>2, GotoTypes, ZeroIsVersion
  <1> QED
    BY <1>1, <1>2 DEF EnsureFresh

LEMMA StepTypes ==
    ASSUME TypeOK, NEW w \in Workers, Step(w)
    PROVE  TypeOK'
  <1> USE RecipeIndexAssumption DEF TypeOK, cacheVars, bootVars, Fault, NoFetch
  <1>1. ASSUME NEW f \in Fetches, Request(w, f) PROVE TypeOK'
    BY <1>1, GotoTypes DEF Request, FetchStates
  <1>2. ASSUME NEW f \in Fetches, RequestFails(w, f) PROVE TypeOK'
    BY <1>2, GotoTypes, ZeroIsVersion DEF RequestFails, FetchStates
  <1>3. ASSUME NEW f \in Fetches, Store(w, f) PROVE TypeOK'
    BY <1>3, GotoTypes, ZeroIsVersion DEF Store, FetchStates
  <1>4. ASSUME NEW f \in Fetches, StoreError(w, f) PROVE TypeOK'
    BY <1>4, GotoTypes, ZeroIsVersion DEF StoreError, FetchStates
  <1>5. ASSUME NEW f \in Fetches, Clear(w, f) PROVE TypeOK'
    <2>1. fetch' \in [Workers -> [Fetches -> FetchStates]]
      BY <1>5, GotoTypes, ZeroIsVersion DEF Clear
    <2>2. boot' \in [Workers -> {"lock", "fetch", "mark", "done"}]
      BY <1>5 DEF Clear
    <2> QED
      BY <1>5, <2>1, <2>2 DEF Clear, FetchStates
  <1>6. CASE BootLock(w)
    <2>1. boot' \in [Workers -> {"lock", "fetch", "mark", "done"}]
      BY <1>6 DEF BootLock
    <2>2. fetch' \in [Workers -> [Fetches -> FetchStates]]
      BY <1>6, GotoTypes, ZeroIsVersion DEF BootLock, FetchStates
    <2> QED
      BY <1>6, <2>1, <2>2 DEF BootLock, FetchStates
  <1>7. CASE BootMark(w)
    BY <1>7 DEF BootMark
  <1>8. CASE Crash(w)
    BY <1>8 DEF Crash
  <1>9. CASE Age(w)
    BY <1>9 DEF Age
  <1>10. CASE HourlyRefresh(w)
    BY <1>10, EnsureFreshTypes DEF HourlyRefresh, FetchStates
  <1>11. CASE OpenPage(w)
    BY <1>11, EnsureFreshTypes DEF OpenPage, FetchStates
  <1>12. CASE Search(w)
    BY <1>12, EnsureFreshTypes DEF Search, FetchStates
  <1>13. CASE Refresh(w)
    BY <1>13, EnsureFreshTypes DEF Refresh, FetchStates
  <1> QED
    BY <1>1, <1>2, <1>3, <1>4, <1>5, <1>6, <1>7, <1>8, <1>9, <1>10, <1>11, <1>12, <1>13
       DEF Step

LEMMA NextTypes == TypeOK /\ [Next]_vars => TypeOK'
  <1> SUFFICES ASSUME TypeOK, [Next]_vars PROVE TypeOK'
    OBVIOUS
  <1>1. CASE \E w \in Workers : Step(w)
    BY <1>1, StepTypes
  <1> USE RecipeIndexAssumption DEF TypeOK
  <1>2. CASE Publish
    BY <1>2 DEF Publish, cacheVars, bootVars
  <1>3. CASE SentinelAges
    BY <1>3 DEF SentinelAges, cacheVars
  <1>4. CASE SearchFails
                      \/ PollFails
    BY <1>4 DEF SearchFails, PollFails, Fault, cacheVars, bootVars
  <1>5. CASE UNCHANGED vars
    BY <1>5 DEF vars, cacheVars, bootVars
  <1> QED
    BY <1>1, <1>2, <1>3, <1>4, <1>5, NextIs

LEMMA InitTypes == Init => TypeOK
  BY RecipeIndexAssumption DEF Init, TypeOK, NoFetch

(* The types of the caches, of the fetches and of the page.                *)
THEOREM TypeCorrect == Spec => []TypeOK
  BY InitTypes, NextTypes, PTL DEF Spec
-------------------------------------------------------------------------------
(* One fetch at a time, and what its answer is worth.                      *)

None(w) == \A f \in Fetches : fetch[w][f].pc = "none"
Unique(w) == \A f, g \in Fetches :
               fetch[w][f].pc # "none" /\ fetch[w][g].pc # "none" => f = g
\* The flag during the boot and after it.
Flagged(w) ==
    /\ boot[w] = "done" /\ building[w] = FALSE => None(w)
    /\ boot[w] = "done" /\ building[w] = TRUE => ~None(w)
    /\ boot[w] # "done" => building[w] = FALSE
    /\ boot[w] \in {"lock", "mark"} => None(w)
\* An answer is not older than what the worker has, nor newer than the index.
Fresh(w) ==
    /\ data[w] <= remote
    /\ \A f \in Fetches : fetch[w][f].pc = "store"
         => data[w] <= fetch[w][f].got /\ fetch[w][f].got <= remote

Good(w) == Unique(w) /\ Flagged(w) /\ Fresh(w)
IInv == TypeOK /\ \A w \in Workers : Good(w)

LEMMA InitInv == Init => IInv
  BY InitTypes, RecipeIndexAssumption
     DEF Init, IInv, Good, None, Unique, Flagged, Fresh, NoFetch

LEMMA InvIsOneFetch == IInv => OneFetch
  BY DEF IInv, Good, TypeOK, None, Unique, Flagged, OneFetch, Active

\* What a step of a worker does not touch stays good.
LEMMA Untouched ==
    ASSUME NEW w \in Workers, Good(w), remote' >= remote, TypeOK, TypeOK',
           data'[w] = data[w], fetch'[w] = fetch[w], boot'[w] = boot[w],
           building'[w] = building[w]
    PROVE  Good(w)'
  <1>1. /\ Unique(w)' /\ Flagged(w)'
    BY DEF Good, Unique, Flagged, None
  <1>2. Fresh(w)'
    BY RecipeIndexAssumption DEF Good, Fresh, TypeOK
  <1> QED
    BY <1>1, <1>2 DEF Good

\* The step of thread f of a worker whose only fetch it is.
LEMMA Moved ==
    ASSUME TypeOK, TypeOK', NEW w \in Workers, NEW f \in Fetches, Good(w),
           fetch[w][f].pc # "none" \/ None(w),
           NEW pc, NEW got, Goto(w, f, pc, got)
    PROVE  /\ fetch'[w][f] = [pc |-> pc, got |-> got]
           /\ \A g \in Fetches \ {f} : fetch'[w][g] = fetch[w][g]
           /\ \A g \in Fetches \ {f} : fetch'[w][g].pc = "none"
           /\ Unique(w)'
  <1>1. /\ fetch'[w][f] = [pc |-> pc, got |-> got]
        /\ \A g \in Fetches \ {f} : fetch'[w][g] = fetch[w][g]
    BY DEF Goto, TypeOK
  <1>2. \A g \in Fetches \ {f} : fetch[w][g].pc = "none"
    BY DEF Good, Unique, None
  <1> QED
    BY <1>1, <1>2 DEF Unique

LEMMA EnsureFreshKeeps ==
    ASSUME IInv, TypeOK', NEW w \in Workers, NEW force \in BOOLEAN, boot[w] = "done",
           EnsureFresh(w, force), UNCHANGED <<remote, data, boot>>
    PROVE  Good(w)'
  <1>0. Good(w) /\ TypeOK
    BY DEF IInv
  <1>1. CASE UNCHANGED <<building, fetch>>
    <2>1. remote' >= remote
      BY <1>0, RecipeIndexAssumption DEF TypeOK
    <2> QED
      BY <1>0, <1>1, <2>1, Untouched
  <1>2. CASE building[w] = FALSE /\ StartFetch(w)
    <2>1. PICK f \in Fetches : Goto(w, f, "request", 0)
      BY <1>2 DEF StartFetch
    <2>2. None(w)
      BY <1>0, <1>2 DEF Good, Flagged
    <2>3. /\ fetch'[w][f] = [pc |-> "request", got |-> 0]
          /\ \A g \in Fetches \ {f} : fetch'[w][g].pc = "none"
          /\ Unique(w)'
      BY <1>0, <2>1, <2>2, Moved
    <2>4. building'[w] = TRUE
      BY <1>0, <1>2 DEF StartFetch, TypeOK
    <2>5. Flagged(w)'
      BY <2>3, <2>4 DEF Flagged, None
    <2>6. Fresh(w)'
      BY <1>0, <2>3 DEF Good, Fresh
    <2> QED
      BY <2>3, <2>5, <2>6 DEF Good
  <1> QED
    BY <1>0, <1>1, <1>2 DEF EnsureFresh, TypeOK

LEMMA StepGood ==
    ASSUME IInv, TypeOK', NEW w \in Workers, Step(w)
    PROVE  Good(w)'
  <1>0. Good(w) /\ TypeOK
    BY DEF IInv
  <1>1. ASSUME NEW f \in Fetches, Request(w, f) PROVE Good(w)'
    <2>1. /\ fetch'[w][f] = [pc |-> "store", got |-> remote]
          /\ \A g \in Fetches \ {f} : fetch'[w][g].pc = "none"
          /\ Unique(w)'
      BY <1>0, <1>1, Moved DEF Request
    <2>2. boot[w] \notin {"lock", "mark"} /\ ~None(w)
      BY <1>0, <1>1 DEF Request, Good, Flagged, None
    <2>3. Flagged(w)'
      BY <1>0, <1>1, <2>1, <2>2 DEF Request, bootVars, Good, Flagged, None
    <2>4. data'[w] = data[w] /\ remote' = remote
      BY <1>1 DEF Request
    <2>5. data[w] <= remote /\ remote <= remote
      BY <1>0, RecipeIndexAssumption DEF Good, Fresh, TypeOK
    <2>6. \A g \in Fetches : fetch'[w][g].pc = "store" => fetch'[w][g].got = remote
      BY <2>1
    <2>7. Fresh(w)'
      BY <2>4, <2>5, <2>6 DEF Fresh
    <2> QED
      BY <2>1, <2>3, <2>7 DEF Good
  <1>2. ASSUME NEW f \in Fetches, RequestFails(w, f) PROVE Good(w)'
    <2>1. /\ fetch'[w][f] = [pc |-> "fail", got |-> 0]
          /\ \A g \in Fetches \ {f} : fetch'[w][g].pc = "none"
          /\ Unique(w)'
      BY <1>0, <1>2, Moved DEF RequestFails
    <2>2. boot[w] \notin {"lock", "mark"} /\ ~None(w)
      BY <1>0, <1>2 DEF RequestFails, Good, Flagged, None
    <2>3. Flagged(w)'
      BY <1>0, <1>2, <2>1, <2>2 DEF RequestFails, bootVars, Good, Flagged, None
    <2>4. Fresh(w)'
      BY <1>0, <1>2, <2>1 DEF RequestFails, Good, Fresh
    <2> QED
      BY <2>1, <2>3, <2>4 DEF Good
  <1>3. ASSUME NEW f \in Fetches, Store(w, f) PROVE Good(w)'
    <2>1. /\ fetch'[w][f] = [pc |-> "clear", got |-> 0]
          /\ \A g \in Fetches \ {f} : fetch'[w][g].pc = "none"
          /\ Unique(w)'
      BY <1>0, <1>3, Moved DEF Store
    <2>2. boot[w] \notin {"lock", "mark"} /\ ~None(w)
      BY <1>0, <1>3 DEF Store, Good, Flagged, None
    <2>3. Flagged(w)'
      BY <1>0, <1>3, <2>1, <2>2 DEF Store, bootVars, Good, Flagged, None
    <2>4. data'[w] = fetch[w][f].got /\ fetch[w][f].got <= remote /\ remote' = remote
      BY <1>0, <1>3 DEF Store, Good, Fresh, TypeOK
    <2>5. Fresh(w)'
      BY <2>1, <2>4 DEF Fresh
    <2> QED
      BY <2>1, <2>3, <2>5 DEF Good
  <1>4. ASSUME NEW f \in Fetches, StoreError(w, f) PROVE Good(w)'
    <2>1. /\ fetch'[w][f] = [pc |-> "clear", got |-> 0]
          /\ \A g \in Fetches \ {f} : fetch'[w][g].pc = "none"
          /\ Unique(w)'
      BY <1>0, <1>4, Moved DEF StoreError
    <2>2. boot[w] \notin {"lock", "mark"} /\ ~None(w)
      BY <1>0, <1>4 DEF StoreError, Good, Flagged, None
    <2>3. Flagged(w)'
      BY <1>0, <1>4, <2>1, <2>2 DEF StoreError, bootVars, Good, Flagged, None
    <2>4. Fresh(w)'
      BY <1>0, <1>4, <2>1 DEF StoreError, Good, Fresh
    <2> QED
      BY <2>1, <2>3, <2>4 DEF Good
  <1>5. ASSUME NEW f \in Fetches, Clear(w, f) PROVE Good(w)'
    <2>1. /\ fetch'[w][f] = [pc |-> "none", got |-> 0]
          /\ \A g \in Fetches \ {f} : fetch'[w][g].pc = "none"
          /\ Unique(w)'
      BY <1>0, <1>5, Moved DEF Clear
    <2>2. None(w)' /\ building'[w] = FALSE
      BY <1>0, <1>5, <2>1 DEF Clear, None, TypeOK
    <2>3. Flagged(w)'
      BY <2>2 DEF Flagged
    <2>4. Fresh(w)'
      BY <1>0, <1>5, <2>2 DEF Clear, Good, Fresh, None
    <2> QED
      BY <2>1, <2>3, <2>4 DEF Good
  <1>6. CASE BootLock(w)
    <2>1. CASE UNCHANGED <<warmLock, fetch>>
      BY <1>0, <1>6, <2>1 DEF BootLock, Good, Unique, Flagged, Fresh, None, TypeOK
    <2>2. ASSUME NEW f \in Fetches, Goto(w, f, "request", 0), boot'[w] = "fetch"
          PROVE  Good(w)'
      <3>1. None(w)
        BY <1>0, <1>6 DEF BootLock, Good, Flagged
      <3>2. /\ fetch'[w][f] = [pc |-> "request", got |-> 0]
            /\ \A g \in Fetches \ {f} : fetch'[w][g].pc = "none"
            /\ Unique(w)'
        BY <1>0, <2>2, <3>1, Moved
      <3>3. Flagged(w)'
        BY <1>0, <1>6, <2>2 DEF BootLock, Good, Flagged
      <3>4. Fresh(w)'
        BY <1>0, <1>6, <3>2 DEF BootLock, Good, Fresh
      <3> QED
        BY <3>2, <3>3, <3>4 DEF Good
    <2> QED
      BY <1>0, <1>6, <2>1, <2>2 DEF BootLock, TypeOK
  <1>7. CASE BootMark(w)
    BY <1>0, <1>7 DEF BootMark, cacheVars, Good, Unique, Flagged, Fresh, None, TypeOK
  <1>8. CASE Crash(w)
    <2>1. None(w)' /\ data'[w] = 0 /\ boot'[w] = "lock" /\ building'[w] = FALSE
      BY <1>0, <1>8 DEF Crash, None, NoFetch, TypeOK
    <2> QED
      BY <1>0, <1>8, <2>1, RecipeIndexAssumption
         DEF Crash, Good, Unique, Flagged, Fresh, None, TypeOK
  <1>9. CASE Age(w)
    BY <1>0, <1>9 DEF Age, bootVars, Good, Unique, Flagged, Fresh, None
  <1>10. CASE HourlyRefresh(w)
    BY <1>10, EnsureFreshKeeps DEF HourlyRefresh, bootVars
  <1>11. CASE OpenPage(w)
    BY <1>11, EnsureFreshKeeps DEF OpenPage, bootVars
  <1>12. CASE Search(w)
    BY <1>12, EnsureFreshKeeps DEF Search, bootVars
  <1>13. CASE Refresh(w)
    BY <1>13, EnsureFreshKeeps DEF Refresh, bootVars
  <1> QED
    BY <1>1, <1>2, <1>3, <1>4, <1>5, <1>6, <1>7, <1>8, <1>9, <1>10, <1>11, <1>12, <1>13
       DEF Step

\* A worker's step touches no other worker.
LEMMA StepLocal ==
    ASSUME TypeOK, NEW w \in Workers, NEW v \in Workers \ {w}, Step(w)
    PROVE  /\ data'[v] = data[v] /\ fetch'[v] = fetch[v] /\ boot'[v] = boot[v]
           /\ building'[v] = building[v] /\ remote' = remote
  BY DEF Step, Request, RequestFails, Store, StoreError, Clear, BootLock, BootMark, Crash,
     Age, HourlyRefresh, OpenPage, Search, Refresh, EnsureFresh, StartFetch, Goto,
     cacheVars, bootVars, TypeOK

LEMMA NextInv == IInv /\ [Next]_vars => IInv'
  <1> SUFFICES ASSUME IInv, [Next]_vars PROVE IInv'
    OBVIOUS
  <1>0. TypeOK /\ TypeOK'
    BY NextTypes DEF IInv
  <1>1. ASSUME NEW w \in Workers, Step(w), NEW v \in Workers PROVE Good(v)'
    <2>1. CASE v = w
      BY <1>0, <1>1, <2>1, StepGood
    <2>2. CASE v # w
      <3>1. Good(v) /\ remote' >= remote
        BY <1>0, <1>1, <2>2, StepLocal, RecipeIndexAssumption DEF IInv, TypeOK
      <3> QED
        BY <1>0, <1>1, <2>2, <3>1, StepLocal, Untouched
    <2> QED
      BY <2>1, <2>2
  <1>2. ASSUME Publish \/ SentinelAges \/ SearchFails \/ PollFails \/ UNCHANGED vars, NEW v \in Workers
        PROVE  Good(v)'
    <2>1. /\ data' = data /\ fetch' = fetch /\ boot' = boot /\ building' = building
          /\ remote' \in {remote, remote + 1}
      BY <1>2 DEF Publish, SentinelAges, SearchFails, PollFails, vars, cacheVars, bootVars
    <2>2. Good(v) /\ remote' >= remote
      BY <1>0, <2>1, RecipeIndexAssumption DEF IInv, TypeOK
    <2> QED
      BY <1>0, <2>1, <2>2, Untouched
  <1> QED
    BY <1>0, <1>1, <1>2, NextIs DEF IInv

(* A worker has one fetch at a time, and the flag is set exactly while it  *)
(* runs (ensure_fresh and _fetch of recipe_index.py, post_fork).           *)
THEOREM FetchesAreUnique == Spec => []OneFetch
  BY InitInv, NextInv, InvIsOneFetch, PTL DEF Spec

LEMMA StepNewer ==
    ASSUME IInv, NEW w \in Workers, Step(w)
    PROVE  data'[w] >= data[w] \/ boot'[w] = "lock"
  <1>0. TypeOK /\ data[w] \in Nat
    BY RecipeIndexAssumption DEF IInv, TypeOK
  <1>1. ASSUME NEW f \in Fetches, Store(w, f) PROVE data'[w] >= data[w]
    BY <1>0, <1>1 DEF Store, IInv, Good, Fresh, TypeOK
  <1>2. CASE Crash(w)
    BY <1>0, <1>2 DEF Crash, TypeOK
  <1>3. CASE data' = data
    BY <1>0, <1>3
  <1> QED
    BY <1>1, <1>2, <1>3 DEF Step, Request, RequestFails, StoreError, Clear, BootLock,
       BootMark, Age, HourlyRefresh, OpenPage, Search, Refresh, cacheVars

(* No answer, however late, makes a worker go back to an older index       *)
(* (_fetch of recipe_index.py).                                            *)
THEOREM IndexIsNeverOlder == Spec => NeverOlder
  <1>1. IInv /\ [Next]_vars
          => [\A w \in Workers : data'[w] >= data[w] \/ boot'[w] = "lock"]_vars
    <2> SUFFICES ASSUME IInv, [Next]_vars, NEW v \in Workers
                 PROVE  data'[v] >= data[v] \/ boot'[v] = "lock"
      OBVIOUS
    <2>0. TypeOK /\ data[v] \in Nat
      BY RecipeIndexAssumption DEF IInv, TypeOK
    <2>1. ASSUME NEW w \in Workers, Step(w) PROVE data'[v] >= data[v] \/ boot'[v] = "lock"
      <3>1. CASE v = w
        BY <2>1, <3>1, StepNewer
      <3>2. CASE v # w
        BY <2>0, <2>1, <3>2, StepLocal
      <3> QED
        BY <3>1, <3>2
    <2>2. CASE Publish \/ SentinelAges \/ SearchFails \/ PollFails \/ UNCHANGED vars
      BY <2>0, <2>2 DEF Publish, SentinelAges, SearchFails, PollFails, vars, cacheVars
    <2> QED
      BY <2>1, <2>2, NextIs
  <1> QED
    BY <1>1, InitInv, NextInv, PTL DEF Spec, NeverOlder
=============================================================================
