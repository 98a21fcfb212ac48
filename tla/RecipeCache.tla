---------------------------- MODULE RecipeCache ----------------------------
(***************************************************************************)
(* The recipe list of one worker (webapp/views/recipes.py): the cache of   *)
(* recipe files found in the repositories on disk, the threads that build  *)
(* it, the requests that invalidate it, the overrides, which are read live *)
(* from their own directory, and the page on which a user selects the      *)
(* recipes of the run list.                                                *)
(*                                                                         *)
(* Every access to a shared module variable is a step.  The time stamp of  *)
(* the cache is abstracted to what _is_cache_ready tells apart: 0.0, less  *)
(* than the time to live ago, or longer ago.  It is compared with          *)
(* time.monotonic(), which counts from the boot of the machine: as long as *)
(* the machine is up for less than the time to live (~upLong), a stamp of  *)
(* 0.0 counts as recent.                                                   *)
(*                                                                         *)
(* Other workers, the pipeline (autopkg repo-update) and commands that     *)
(* time out change the repositories without a word to this worker          *)
(* (ChangeElsewhere); other tabs write the run list (SaveElsewhere).       *)
(***************************************************************************)
EXTENDS Naturals, FiniteSets

CONSTANTS
    Files,        \* recipe files that repositories may hold:
                  \* [repo, stem, identifier, parent]
    OverrideFiles,\* contents an override may have: [stem, identifier, parent]
    NoParent,     \* a file without ParentRecipe
    Threads,      \* threads of the worker that serve requests
    MaxChanges,   \* bound: changes of repositories and overrides, resets of the
                  \* cache and changes of the run list elsewhere
    MaxFaults     \* bound: times the cache grows older than its time to live,
                  \* builds that raise and polls that fail

Repos == {f.repo : f \in Files}
Stems == {f.stem : f \in Files} \cup {o.stem : o \in OverrideFiles}
Identifiers == {f.identifier : f \in Files}
                 \cup {o.identifier : o \in OverrideFiles} \cup Stems

\* What a build keeps of a file.
Infos == [stem : Stems, identifier : Identifiers,
          parent : Identifiers \cup {NoParent}]

ASSUME RecipeCacheAssumption ==
    /\ Files \subseteq [repo : Repos, stem : Stems, identifier : Identifiers,
                        parent : Identifiers \cup {NoParent}]
    /\ OverrideFiles \subseteq Infos
    /\ NoParent \notin Identifiers
    /\ MaxChanges \in Nat /\ MaxFaults \in Nat

VARIABLES
    installed,  \* recipe files in the repositories on disk
    overrides,  \* the overrides directory
    runList,    \* identifiers in the recipe list file
    built,      \* _RECIPES_CACHE['data'] is not None
    data,       \* _RECIPES_CACHE['data']
    ts,         \* _RECIPES_CACHE['ts']: "zero", "recent" or "old"
    upLong,     \* the machine is up for at least the time to live
    building,   \* _RECIPES_BUILDING
    pc,         \* next step of each request thread
    job,        \* what it does: "change", "look", "poll", or "none"
    build,      \* the build thread that each request thread has started
    page,       \* the page of a user
    lost,       \* history: "yes" if an invalidation came to nothing since the
                \* last scan, "scanned" until that scan is stored, else "no"
    changes, faults

diskVars  == <<installed, overrides, runList>>
cacheVars == <<built, data, ts, building, build, lost>>
boundVars == <<changes, faults>>
vars == <<diskVars, cacheVars, upLong, pc, job, page, boundVars>>

-----------------------------------------------------------------------------
(* What is on disk, and what a scan makes of it.                           *)

FilesOf(repo) == {f \in Files : f.repo = repo}

Info(f) == [stem |-> f.stem, identifier |-> f.identifier, parent |-> f.parent]

\* A file that is gone when it is read passes as a recipe named by its stem.
Fallback(f) == [stem |-> f.stem, identifier |-> f.stem, parent |-> NoParent]

\* One entry per identifier; which file it comes from is left to chance.
Dedupe(infos) ==
    {S \in SUBSET infos :
        /\ {i.identifier : i \in S} = {i.identifier : i \in infos}
        /\ \A i, j \in S : i.identifier = j.identifier => i = j}

-----------------------------------------------------------------------------
(* _build_recipe_entries: the rows of the page, from the cached data and   *)
(* the overrides.                                                          *)

\* Mutant: an override with ParentRecipe hides the recipe of its stem as well.
Superseding_ByStem(r, ovs) == {o \in ovs : o.stem = r.stem}

\* An override without ParentRecipe takes the place of the recipe of its stem.
Superseding(r, ovs) == {o \in ovs : o.stem = r.stem /\ o.parent = NoParent}

\* An override with ParentRecipe has a row next to its parent, if the parent
\* has one; an override that no recipe claims has a row of its own.
Claimed(d, ovs) ==
    (UNION {Superseding(r, ovs) : r \in d})
      \cup {o \in ovs : \E r \in d : o.parent = r.identifier
                                       /\ Superseding(r, ovs) = {}}

OverrideRow(o, r) == [id |-> o.identifier, override |-> TRUE, parent |-> r.parent]
RecipeRow(r) == [id |-> r.identifier, override |-> FALSE, parent |-> r.parent]

\* For an override without a row next to its parent: the parent's own parent
\* if the parent is installed, and the missing parent itself if it is not.
EffectiveParents(d, o) ==
    LET bases == {r \in d : r.identifier = o.parent}
    IN  IF bases = {} THEN {o.parent} ELSE {r.parent : r \in bases}

RowsOf(r, ovs) ==
    IF Superseding(r, ovs) # {}
      THEN {OverrideRow(o, r) : o \in Superseding(r, ovs)}
      ELSE {RecipeRow(r)} \cup {OverrideRow(o, r) : o \in {p \in ovs : p.parent = r.identifier}}

OwnRows(o, d) == {[id |-> o.identifier, override |-> TRUE, parent |-> p] :
                     p \in EffectiveParents(d, o)}

Entries(d, ovs) == (UNION {RowsOf(r, ovs) : r \in d})
                     \cup (UNION {OwnRows(o, d) : o \in ovs \ Claimed(d, ovs)})

RowIds(d, ovs) == {row.id : row \in Entries(d, ovs)}

-----------------------------------------------------------------------------
(* State.                                                                  *)

NoPage == [state |-> "closed", rows |-> {}, listed |-> {}, known |-> {}]

Polling == [NoPage EXCEPT !.state = "polling"]

Ready == built /\ (ts = "recent" \/ (ts = "zero" /\ ~upLong))

TypeOK ==
    /\ installed \subseteq Files
    /\ overrides \subseteq OverrideFiles
    /\ runList \subseteq Identifiers
    /\ built \in BOOLEAN
    /\ data \subseteq Infos
    /\ ts \in {"zero", "recent", "old"}
    /\ upLong \in BOOLEAN
    /\ building \in BOOLEAN
    /\ pc \in [Threads -> {"idle", "reset", "check", "lock", "answer"}]
    /\ job \in [Threads -> {"none", "change", "look", "poll"}]
    /\ build \in [Threads -> [pc : {"none", "scan", "read", "stamp", "end"},
                              found : SUBSET Files]]
    /\ page \in [state : {"closed", "polling", "loaded", "failed"},
                 rows : SUBSET Identifiers, listed : SUBSET Identifiers,
                 known : SUBSET Identifiers]
    /\ lost \in {"no", "scanned", "yes"}
    /\ changes \in 0..MaxChanges
    /\ faults \in 0..MaxFaults

\* A worker that has just started: boot is one of the threads about to look.
Init ==
    /\ installed \in {UNION {FilesOf(r) : r \in repos} : repos \in SUBSET Repos}
    /\ overrides \in {S \in SUBSET OverrideFiles :
                       \A o, p \in S : o.stem = p.stem => o = p}
    /\ runList \in {{}, {f.identifier : f \in installed}}
    /\ built = FALSE /\ data = {} /\ ts = "zero"
    /\ upLong \in BOOLEAN
    /\ building = FALSE
    /\ \E boot \in Threads :
         /\ pc = [t \in Threads |-> IF t = boot THEN "check" ELSE "idle"]
         /\ job = [t \in Threads |-> IF t = boot THEN "look" ELSE "none"]
    /\ build = [t \in Threads |-> [pc |-> "none", found |-> {}]]
    /\ page \in {NoPage, Polling}
    /\ lost = "no"
    /\ changes = 0 /\ faults = 0

-----------------------------------------------------------------------------
(* Requests that change something.  autopkg and git are done when the      *)
(* handler goes on; only then does it invalidate the cache.                *)

Changing == changes < MaxChanges /\ changes' = changes + 1
Fault == faults < MaxFaults /\ faults' = faults + 1

Begin(t, step, what) ==
    /\ pc[t] = "idle"
    /\ pc' = [pc EXCEPT ![t] = step]
    /\ job' = [job EXCEPT ![t] = what]

Finish(t) ==
    /\ pc' = [pc EXCEPT ![t] = "idle"]
    /\ job' = [job EXCEPT ![t] = "none"]

RepoChange(t) ==
    /\ Begin(t, "reset", "change")
    /\ Changing
    /\ UNCHANGED <<overrides, runList, cacheVars, upLong, page, faults>>

\* The Repositories page.
AddRepo(t, r) == RepoChange(t) /\ installed' = installed \cup FilesOf(r)
DeleteRepo(t, r) == RepoChange(t) /\ installed' = installed \ FilesOf(r)

\* git pull: recipes come and go.
UpdateRepo(t, r) ==
    /\ RepoChange(t)
    /\ installed \cap FilesOf(r) # {}
    /\ \E pulled \in SUBSET FilesOf(r) : installed' = (installed \ FilesOf(r)) \cup pulled

\* The Find Recipes page.
AddIndexedRepo(t, r) == AddRepo(t, r)

\* OverrideCreateView (a new file), OverrideDeleteView.
ChangeOverrides(t) ==
    /\ Begin(t, "reset", "change")
    /\ Changing
    /\ \/ \E o \in OverrideFiles :
            /\ o.stem \notin {p.stem : p \in overrides}
            /\ overrides' = overrides \cup {o}
       \/ \E o \in overrides : overrides' = overrides \ {o}
    /\ UNCHANGED <<installed, runList, cacheVars, upLong, page, faults>>

\* OverrideEditView.post writes the file and leaves the cache alone.
EditOverride ==
    /\ Changing
    /\ \E o \in overrides, p \in OverrideFiles :
         /\ p.stem = o.stem
         /\ overrides' = (overrides \ {o}) \cup {p}
    /\ UNCHANGED <<installed, runList, cacheVars, upLong, pc, job, page, faults>>

\* RecipeCacheResetView.
ResetCache(t) ==
    /\ Begin(t, "reset", "change")
    /\ Changing
    /\ UNCHANGED <<diskVars, cacheVars, upLong, page, faults>>

ChangeElsewhere ==
    /\ Changing
    /\ installed' \in SUBSET Files
    /\ lost' = "yes"
    /\ UNCHANGED <<overrides, runList, built, data, ts, building, build, upLong,
                   pc, job, page, faults>>

\* Another tab or user selects or unselects a recipe.
SaveElsewhere ==
    /\ Changing
    /\ \E f \in Files : runList' = IF f.identifier \in runList
                                    THEN runList \ {f.identifier}
                                    ELSE runList \cup {f.identifier}
    /\ UNCHANGED <<installed, overrides, cacheVars, upLong, pc, job, page, faults>>

-----------------------------------------------------------------------------
(* _invalidate_recipe_cache and _start_cache_build.                        *)

\* Mutant: the stamp is left alone.
Reset_KeepsStamp(t) ==
    /\ pc[t] = "reset"
    /\ pc' = [pc EXCEPT ![t] = "check"]
    /\ UNCHANGED <<diskVars, cacheVars, upLong, job, page, boundVars>>

\* _RECIPES_CACHE['ts'] = 0.0
Reset(t) ==
    /\ pc[t] = "reset"
    /\ ts' = "zero"
    /\ pc' = [pc EXCEPT ![t] = "check"]
    /\ UNCHANGED <<diskVars, built, data, building, build, lost, upLong, job,
                   page, boundVars>>

\* A poll goes on to its answer, any other request is done.
Return(t) ==
    IF job[t] = "poll"
      THEN pc' = [pc EXCEPT ![t] = "answer"] /\ UNCHANGED job
      ELSE Finish(t)

\* The build thread of t goes to its step step.
Builds(t, step, found) == build' = [build EXCEPT ![t] = [pc |-> step, found |-> found]]

\* An invalidation starts no build: one is running, or the stamp of 0.0 passes.
Loses(t) ==
    job[t] = "change" /\ (building \/ (ts = "zero" /\ Ready))

\* if _is_cache_ready() or _RECIPES_BUILDING: return
Check(t) ==
    /\ pc[t] = "check"
    /\ IF Ready \/ building
         THEN /\ Return(t)
              /\ lost' = IF Loses(t) THEN "yes" ELSE lost
         ELSE /\ pc' = [pc EXCEPT ![t] = "lock"]
              /\ UNCHANGED <<job, lost>>
    /\ UNCHANGED <<diskVars, built, data, ts, building, build, upLong, page,
                   boundVars>>

\* Mutant: the lock is taken, the check is not repeated.
StartBuild_NoRecheck(t) ==
    /\ pc[t] = "lock"
    /\ Return(t)
    /\ building' = TRUE
    /\ build[t].pc = "none"
    /\ Builds(t, "scan", {})
    /\ UNCHANGED <<diskVars, built, data, ts, lost, upLong, page, boundVars>>

\* The same check under _RECIPES_BUILD_LOCK; the build thread starts at once.
StartBuild(t) ==
    /\ pc[t] = "lock"
    /\ Return(t)
    /\ IF Ready \/ building
         THEN /\ lost' = IF Loses(t) THEN "yes" ELSE lost
              /\ UNCHANGED <<building, build>>
         ELSE /\ building' = TRUE
              /\ build[t].pc = "none"
              /\ Builds(t, "scan", {})
              /\ lost' = lost
    /\ UNCHANGED <<diskVars, built, data, ts, upLong, page, boundVars>>

-----------------------------------------------------------------------------
(* The build thread.                                                       *)

\* Phase 1: the paths of the recipe files.
Scan(t) ==
    /\ build[t].pc = "scan"
    /\ Builds(t, "read", installed)
    /\ lost' = IF lost = "yes" THEN "scanned" ELSE lost
    /\ UNCHANGED <<diskVars, built, data, ts, building, upLong, pc, job, page,
                   boundVars>>

\* Phase 2: read them, and replace the data.
Read(t) ==
    /\ build[t].pc = "read"
    /\ \E infos \in Dedupe({IF f \in installed THEN Info(f) ELSE Fallback(f) :
                              f \in build[t].found}) : data' = infos
    /\ built' = TRUE
    /\ Builds(t, "stamp", {})
    /\ lost' = IF lost = "scanned" THEN "no" ELSE lost
    /\ UNCHANGED <<diskVars, ts, building, upLong, pc, job, page, boundVars>>

\* _RECIPES_CACHE['ts'] = time.monotonic()
\* It overwrites the 0.0 of a request that has not looked at it yet.
Stamp(t) ==
    /\ build[t].pc = "stamp"
    /\ ts' = "recent"
    /\ Builds(t, "end", {})
    /\ lost' = IF \E u \in Threads : job[u] = "change" /\ pc[u] \in {"check", "lock"}
                 THEN "yes" ELSE lost
    /\ UNCHANGED <<diskVars, built, data, building, upLong, pc, job, page, boundVars>>

\* Mutant: the flag is not cleared in a finally clause.
BuildFails_NoFinally(t) ==
    /\ build[t].pc \in {"scan", "read"}
    /\ Fault
    /\ Builds(t, "none", {})
    /\ UNCHANGED <<diskVars, built, data, ts, building, lost, upLong, pc, job,
                   page, changes>>

\* An exception is swallowed: nothing is stored.
BuildFails(t) ==
    /\ build[t].pc \in {"scan", "read"}
    /\ Fault
    /\ Builds(t, "end", {})
    /\ lost' = "yes"
    /\ UNCHANGED <<diskVars, built, data, ts, building, upLong, pc, job, page,
                   changes>>

\* finally: _RECIPES_BUILDING = False
EndBuild(t) ==
    /\ build[t].pc = "end"
    /\ building' = FALSE
    /\ Builds(t, "none", {})
    /\ UNCHANGED <<diskVars, built, data, ts, lost, upLong, pc, job, page,
                   boundVars>>

-----------------------------------------------------------------------------
(* Time.                                                                   *)

Expire ==
    /\ ts = "recent"
    /\ Fault
    /\ ts' = "old"
    /\ UNCHANGED <<diskVars, built, data, building, build, lost, upLong, pc, job,
                   page, changes>>

UptimePasses ==
    /\ ~upLong
    /\ upLong' = TRUE
    /\ UNCHANGED <<diskVars, cacheVars, pc, job, page, boundVars>>

-----------------------------------------------------------------------------
(* The page.                                                               *)

\* RecipeListView.get_context_data
OpenPage(t) ==
    /\ page.state # "polling"
    /\ Begin(t, "check", "look")
    /\ page' = Polling
    /\ UNCHANGED <<diskVars, cacheVars, upLong, boundVars>>

\* RecipeDataView.get, first line.
Poll(t) ==
    /\ page.state = "polling"
    /\ ~\E u \in Threads : pc[u] # "idle" /\ job[u] = "poll"
    /\ Begin(t, "check", "poll")
    /\ UNCHANGED <<diskVars, cacheVars, upLong, page, boundVars>>

InvalidationUnderWay ==
    \E t \in Threads : job[t] = "change" /\ pc[t] \in {"reset", "check", "lock"}

\* The cache may be behind the disk.
Behind == lost # "no" \/ InvalidationUnderWay

\* History: the identifiers on disk that have a row unless the cache is
\* behind.  The recipe behind a superseding override has none, nor any other
\* file with its identifier.
Superseded(f) == \E g \in installed, o \in overrides :
                   g.identifier = f.identifier /\ o.stem = g.stem /\ o.parent = NoParent
OnDisk == {o.identifier : o \in overrides}
            \cup {f.identifier : f \in {g \in installed : ~Superseded(g)}}

\* RecipeDataView.get: 202 while there is nothing to show, else the rows.
Answer(t) ==
    /\ pc[t] = "answer"
    /\ Finish(t)
    /\ LET rows == RowIds(data, overrides)
       IN  page' = IF page.state = "polling" /\ Ready
                     THEN [state |-> "loaded", rows |-> rows, listed |-> runList,
                           known |-> IF Behind THEN {} ELSE OnDisk]
                     ELSE page
    /\ UNCHANGED <<diskVars, cacheVars, upLong, boundVars>>

\* The request fails: the page shows an error, and its Save button is enabled.
PollFails(t) ==
    /\ pc[t] = "answer"
    /\ Fault
    /\ Finish(t)
    /\ page' = IF page.state = "polling" THEN [page EXCEPT !.state = "failed"]
                                         ELSE page
    /\ UNCHANGED <<diskVars, cacheVars, upLong, changes>>

\* RecipeListView.post writes the selection and redirects to a new page.  What
\* was clicked since the page was filled matters only now; on a page that was
\* not filled nothing is listed and nothing selected.
Save(t, clicked) ==
    /\ page.state \in {"loaded", "failed"}
    /\ clicked \subseteq page.rows
    /\ Begin(t, "check", "look")
    /\ LET selected == page.listed \cap page.rows
       IN  runList' = (selected \ clicked) \cup (clicked \ selected)
    /\ page' = Polling
    /\ UNCHANGED <<installed, overrides, cacheVars, upLong, boundVars>>

-----------------------------------------------------------------------------
Request(t) == (\E r \in Repos : AddRepo(t, r) \/ DeleteRepo(t, r) \/ UpdateRepo(t, r)
                                   \/ AddIndexedRepo(t, r))
                \/ ChangeOverrides(t) \/ ResetCache(t) \/ OpenPage(t)
                \/ \E clicked \in SUBSET page.rows : Save(t, clicked)
Handle(t) == Reset(t) \/ Check(t) \/ StartBuild(t) \/ Answer(t)
Build(t) == Scan(t) \/ Read(t) \/ Stamp(t) \/ EndBuild(t)

Next ==
    \/ \E t \in Threads : \/ Request(t) \/ Poll(t) \/ Handle(t) \/ Build(t)
                          \/ BuildFails(t) \/ PollFails(t)
    \/ EditOverride \/ ChangeElsewhere \/ SaveElsewhere
    \/ Expire \/ UptimePasses

\* Threads go on and an open page polls; users, faults and time are free.
Fairness ==
    /\ \A t \in Threads : WF_vars(Handle(t)) /\ WF_vars(Build(t))
    /\ WF_vars(\E t \in Threads : Poll(t))

Spec == Init /\ [][Next]_vars
FairSpec == Spec /\ Fairness

-----------------------------------------------------------------------------
(* Properties.                                                             *)

\* At most one thread builds the cache at any time, however many requests find
\* it cold: that is what _RECIPES_BUILD_LOCK and the second check are for.
OneBuild ==
    /\ \A t, u \in Threads :
         build[t].pc # "none" /\ build[u].pc # "none" => t = u
    /\ (\E t \in Threads : build[t].pc # "none") => building

\* A cache that passes as fresh has the identifiers of the recipes on disk,
\* once the invalidation of every change is through and none of them came to
\* nothing (during a build, or while the machine has just booted).
CacheMatchesDisk ==
    Ready /\ ~Behind
      => {i.identifier : i \in data} = {f.identifier : f \in installed}

\* A save replaces the run list by what it was when the page was filled with the
\* clicks applied, for every recipe that had to have a row then: on disk, not
\* behind a superseding override, and the cache not behind the disk.  Nothing is
\* put on the list that was neither on it nor clicked.  No more is claimed: what
\* was put on the list after the page was filled, what had no row, and, if the
\* page could not be filled, everything is dropped.
SaveAppliesClicks ==
    [][\A t \in Threads, clicked \in SUBSET page.rows :
         Save(t, clicked) /\ page.state = "loaded"
           => /\ runList' \subseteq page.listed \cup clicked
              /\ \A i \in page.known :
                   i \in runList' <=> ~(i \in page.listed <=> i \in clicked)]_vars

\* A page that waits for the list gets an answer in the end.
PageIsAnswered == page.state = "polling" ~> page.state # "polling"
=============================================================================
