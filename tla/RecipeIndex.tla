----------------------------- MODULE RecipeIndex -----------------------------
(***************************************************************************)
(* The public recipe index that each gunicorn worker keeps in memory       *)
(* (webapp/recipe_index.py), the fetch threads that renew it, the fetch at *)
(* boot that only the first worker makes (_start_services_in_worker), and  *)
(* the Find Recipes page, whose requests reach any worker.                 *)
(*                                                                         *)
(* A worker serves requests only when post_fork has returned, so nothing   *)
(* else touches its cache during the fetch at boot.  Versions of the index *)
(* stand for its contents; 0 is the empty cache.                           *)
(***************************************************************************)
EXTENDS Naturals

CONSTANTS
    Workers,
    Fetches,      \* fetch threads of a worker
    NoWorker,
    MaxVersions,  \* bound: versions of the index published
    MaxFaults     \* bound: fetches that fail, requests that fail, crashes

ASSUME RecipeIndexAssumption ==
    /\ NoWorker \notin Workers
    /\ MaxVersions \in Nat \ {0} /\ MaxFaults \in Nat

VARIABLES
    remote,    \* the version at _INDEX_URL
    data,      \* _cache['identifiers'] of each worker
    old,       \* is_stale() of each worker
    error,     \* _cache['error'] is set
    building,  \* _cache['building']
    fetch,     \* the fetch threads of each worker: their step and their answer
    boot,      \* post_fork of each worker: "lock", "fetch", "mark", "done"
    warmLock,  \* the worker that holds autopkg-runner-index-warm.lock
    sentinel,  \* autopkg-runner-index-warm.done is at most 300 s old
    page,      \* the page: "closed", "search", "refresh", "shown", "failed",
               \* or "stuck", with a refresh that never ends
    faults

cacheVars == <<data, old, error, building, fetch>>
bootVars  == <<boot, warmLock, sentinel>>
vars == <<remote, cacheVars, bootVars, page, faults>>

NoFetch == [pc |-> "none", got |-> 0]
Active(w) == {f \in Fetches : fetch[w][f].pc # "none"}

TypeOK ==
    /\ remote \in 1..MaxVersions
    /\ data \in [Workers -> 0..MaxVersions]
    /\ old \in [Workers -> BOOLEAN]
    /\ error \in [Workers -> BOOLEAN]
    /\ building \in [Workers -> BOOLEAN]
    /\ fetch \in [Workers -> [Fetches ->
                    [pc : {"none", "request", "store", "fail", "clear"},
                     got : 0..MaxVersions]]]
    /\ boot \in [Workers -> {"lock", "fetch", "mark", "done"}]
    /\ warmLock \in Workers \cup {NoWorker}
    /\ sentinel \in BOOLEAN
    /\ page \in {"closed", "search", "refresh", "shown", "failed", "stuck"}
    /\ faults \in 0..MaxFaults

\* Thread f of worker w goes to its step pc.
Goto(w, f, pc, got) == fetch' = [fetch EXCEPT ![w][f] = [pc |-> pc, got |-> got]]

\* Import of the module in a worker that has just been forked.
Init ==
    /\ remote = 1
    /\ data = [w \in Workers |-> 0]
    /\ old = [w \in Workers |-> TRUE]
    /\ error = [w \in Workers |-> FALSE]
    /\ building = [w \in Workers |-> FALSE]
    /\ fetch = [w \in Workers |-> [f \in Fetches |-> NoFetch]]
    /\ boot = [w \in Workers |-> "lock"]
    /\ warmLock = NoWorker
    /\ sentinel \in BOOLEAN
    /\ page = "closed"
    /\ faults = 0

-----------------------------------------------------------------------------
(* ensure_fresh: one critical section of _cache_lock.                      *)

StartFetch(w) ==
    /\ building' = [building EXCEPT ![w] = TRUE]
    /\ \E f \in Fetches :
         /\ fetch[w][f] = NoFetch
         /\ Goto(w, f, "request", 0)

\* Mutant: a forced refresh does not look whether a fetch is under way.
EnsureFresh_ForceFirst(w, force) ==
    IF (building[w] \/ (data[w] # 0 /\ ~old[w])) /\ ~force
      THEN UNCHANGED <<building, fetch>>
      ELSE StartFetch(w)

EnsureFresh(w, force) ==
    IF building[w] \/ (~force /\ data[w] # 0 /\ ~old[w])
      THEN UNCHANGED <<building, fetch>>
      ELSE StartFetch(w)

-----------------------------------------------------------------------------
(* _fetch.                                                                 *)

Fault == faults < MaxFaults /\ faults' = faults + 1

\* urlopen and read: the answer is the version of the moment.
Request(w, f) ==
    /\ fetch[w][f].pc = "request"
    /\ Goto(w, f, "store", remote)
    /\ UNCHANGED <<remote, data, old, error, building, bootVars, page, faults>>

RequestFails(w, f) ==
    /\ fetch[w][f].pc = "request"
    /\ Fault
    /\ Goto(w, f, "fail", 0)
    /\ UNCHANGED <<remote, data, old, error, building, bootVars, page>>

Store(w, f) ==
    /\ fetch[w][f].pc = "store"
    /\ data' = [data EXCEPT ![w] = fetch[w][f].got]
    /\ old' = [old EXCEPT ![w] = FALSE]
    /\ error' = [error EXCEPT ![w] = FALSE]
    /\ Goto(w, f, "clear", 0)
    /\ UNCHANGED <<remote, building, bootVars, page, faults>>

StoreError(w, f) ==
    /\ fetch[w][f].pc = "fail"
    /\ error' = [error EXCEPT ![w] = TRUE]
    /\ Goto(w, f, "clear", 0)
    /\ UNCHANGED <<remote, data, old, building, bootVars, page, faults>>

\* Mutant: the flag is cleared only if there was no error.
Clear_NoFinally(w, f) ==
    /\ fetch[w][f].pc = "clear"
    /\ building' = [building EXCEPT ![w] = error[w]]
    /\ Goto(w, f, "none", 0)
    /\ boot' = [boot EXCEPT ![w] = IF @ = "fetch" THEN "mark" ELSE @]
    /\ UNCHANGED <<remote, data, old, error, warmLock, sentinel, page, faults>>

\* finally: the flag, whoever set it.  The fetch at boot returns here.
Clear(w, f) ==
    /\ fetch[w][f].pc = "clear"
    /\ building' = [building EXCEPT ![w] = FALSE]
    /\ Goto(w, f, "none", 0)
    /\ boot' = [boot EXCEPT ![w] = IF @ = "fetch" THEN "mark" ELSE @]
    /\ UNCHANGED <<remote, data, old, error, warmLock, sentinel, page, faults>>

-----------------------------------------------------------------------------
(* post_fork of a worker, and its death.                                   *)

\* flock, and the age of the sentinel; _fetch is called without the flag.
BootLock(w) ==
    /\ boot[w] = "lock"
    /\ warmLock = NoWorker
    /\ IF sentinel
         THEN /\ boot' = [boot EXCEPT ![w] = "done"]
              /\ UNCHANGED <<warmLock, fetch>>
         ELSE /\ boot' = [boot EXCEPT ![w] = "fetch"]
              /\ warmLock' = w
              /\ \E f \in Fetches : Goto(w, f, "request", 0)
    /\ UNCHANGED <<remote, data, old, error, building, sentinel, page, faults>>

\* The sentinel is written whether or not the fetch has failed.
BootMark(w) ==
    /\ boot[w] = "mark"
    /\ sentinel' = TRUE
    /\ warmLock' = NoWorker
    /\ boot' = [boot EXCEPT ![w] = "done"]
    /\ UNCHANGED <<remote, cacheVars, page, faults>>

\* The memory of the worker and its flock are gone, another one is forked.
Crash(w) ==
    /\ Fault
    /\ data' = [data EXCEPT ![w] = 0]
    /\ old' = [old EXCEPT ![w] = TRUE]
    /\ error' = [error EXCEPT ![w] = FALSE]
    /\ building' = [building EXCEPT ![w] = FALSE]
    /\ fetch' = [fetch EXCEPT ![w] = [f \in Fetches |-> NoFetch]]
    /\ boot' = [boot EXCEPT ![w] = "lock"]
    /\ warmLock' = IF warmLock = w THEN NoWorker ELSE warmLock
    /\ UNCHANGED <<remote, sentinel, page>>

-----------------------------------------------------------------------------
(* Time, and the world outside.                                            *)

Publish ==
    /\ remote < MaxVersions
    /\ remote' = remote + 1
    /\ UNCHANGED <<cacheVars, bootVars, page, faults>>

Age(w) ==
    /\ ~old[w]
    /\ old' = [old EXCEPT ![w] = TRUE]
    /\ UNCHANGED <<remote, data, error, building, fetch, bootVars, page, faults>>

SentinelAges ==
    /\ sentinel
    /\ sentinel' = FALSE
    /\ UNCHANGED <<remote, cacheVars, boot, warmLock, page, faults>>

\* _refresh_recipe_index, in the worker whose scheduler runs.
HourlyRefresh(w) ==
    /\ boot[w] = "done"
    /\ EnsureFresh(w, TRUE)
    /\ UNCHANGED <<remote, data, old, error, bootVars, page, faults>>

-----------------------------------------------------------------------------
(* The page.                                                               *)

\* RecipeIndexView; the page searches as soon as it is loaded.
OpenPage(w) ==
    /\ page \in {"closed", "shown", "failed", "stuck"}
    /\ boot[w] = "done"
    /\ EnsureFresh(w, FALSE)
    /\ page' = "search"
    /\ UNCHANGED <<remote, data, old, error, bootVars, faults>>

\* RecipeIndexSearchView, asked again every two seconds while it says 202;
\* poll() of a refresh asks the same, then searches for what it shows.
Search(w) ==
    /\ page \in {"search", "refresh"}
    /\ boot[w] = "done"
    /\ EnsureFresh(w, FALSE)
    /\ page' = IF data[w] = 0 THEN page
               ELSE IF page = "refresh" THEN "search" ELSE "shown"
    /\ UNCHANGED <<remote, data, old, error, bootVars, faults>>

\* A search fails: _fetch reports it.
SearchFails ==
    /\ Fault
    /\ page = "search" /\ page' = "failed"
    /\ UNCHANGED <<remote, cacheVars, bootVars>>

\* The poll of a refresh fails.  poll() does not catch that: the button stays
\* disabled until the page is loaded again.  An error status ends the refresh,
\* and the page searches.
PollFails ==
    /\ Fault
    /\ page = "refresh" /\ page' \in {"stuck", "search"}
    /\ UNCHANGED <<remote, cacheVars, bootVars>>

\* refreshIndex: RecipeIndexRefreshView, then poll().
Refresh(w) ==
    /\ page = "shown"
    /\ boot[w] = "done"
    /\ EnsureFresh(w, TRUE)
    /\ page' = "refresh"
    /\ UNCHANGED <<remote, data, old, error, bootVars, faults>>

-----------------------------------------------------------------------------
Fetching(w) ==
    \E f \in Fetches : Request(w, f) \/ Store(w, f) \/ StoreError(w, f) \/ Clear(w, f)

Booting(w) == BootLock(w) \/ BootMark(w)

Next ==
    \/ \E w \in Workers :
         \/ Fetching(w) \/ \E f \in Fetches : RequestFails(w, f)
         \/ Booting(w) \/ Crash(w) \/ Age(w) \/ HourlyRefresh(w)
         \/ OpenPage(w) \/ Search(w) \/ Refresh(w)
    \/ Publish \/ SentinelAges \/ SearchFails \/ PollFails

\* The threads of a worker go on (urlopen has a time-out) and the page's timer
\* fires; that each worker gets a share of the requests is not assumed.
Fairness ==
    /\ \A w \in Workers : WF_vars(Fetching(w)) /\ WF_vars(Booting(w))
    /\ WF_vars(\E w \in Workers : Search(w))

Spec == Init /\ [][Next]_vars
FairSpec == Spec /\ Fairness

-----------------------------------------------------------------------------
(* Properties.                                                             *)

\* However many requests, schedulers and refreshes want a fetch, a worker has
\* one at a time: the flag is set exactly while it runs, the fetch at boot,
\* which comes before any request, apart.
OneFetch ==
    \A w \in Workers :
      /\ \A f, g \in Active(w) : f = g
      /\ boot[w] = "done" => (building[w] <=> Active(w) # {})
      /\ boot[w] \in {"lock", "mark"} => Active(w) = {}

\* A worker never goes back to an older index than it has shown: an answer
\* that arrives late cannot overwrite a newer one.
NeverOlder == [][\A w \in Workers : data'[w] >= data[w] \/ boot'[w] = "lock"]_vars

\* A page that searches or refreshes gets an answer in the end, from whichever
\* workers its requests reach, although fetches fail and workers die; unless a
\* request of its own fails.
SearchIsAnswered ==
    page \in {"search", "refresh"} ~> page \in {"shown", "failed", "stuck"}
=============================================================================
