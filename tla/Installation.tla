----------------------------- MODULE Installation -----------------------------
(***************************************************************************)
(* The daemon on the machine: the commands service_daemon --install and    *)
(* --remove (webapp/management/commands/service_daemon.py) and purge       *)
(* (purge.py), each run with root's rights (directly) or with a user's (by *)
(* a script that osascript runs as root after a dialog).                   *)
(*                                                                         *)
(* launchd keeps, in each of its domains, the plist contents it was told   *)
(* to run, whatever has become of the file.  A server that it started ends *)
(* with its registration; one that a legacy installation started in a      *)
(* user's domain is not tracked and goes on.  One command runs at a time,  *)
(* and it may be killed, or the machine restarted, between any two steps.  *)
(* Temporary scripts are left out.  The order in which the domains are     *)
(* visited, and in which files are removed, is left open.                  *)
(***************************************************************************)
EXTENDS Integers

CONSTANTS
    Accounts, \* all accounts of the machine
    Users,    \* those with a uid of 500 or more; each has its gui domain
    Caller,   \* the one who runs the commands, or sudo
    Owner,    \* the account that owns every file of the project
    Configs,  \* what --install may be asked for: [user, port, workers]
    NoConfig,
    Frozen    \* the bundle: its server is "autopkg-runner serve", and has no
              \* asgi application among its arguments

ASSUME InstallationAssumption ==
    /\ Caller \in Users /\ "system" \notin Users
    /\ Configs \subseteq [user : STRING, port : Int, workers : Int]
    /\ NoConfig \notin Configs
    /\ Frozen \in BOOLEAN

VARIABLES
    plist,   \* PLIST_DEST, in /Library/LaunchDaemons
    loaded,  \* what launchd has registered in each domain
    strays,  \* users in whose domain a server runs that launchd does not track
    files,   \* the other artefacts
    cmd      \* the command that runs, or the last one with its report

vars == <<plist, loaded, strays, files, cmd>>

Domains == {"system"} \cup Users
Data == {"system_support", "user_support"}
Artefacts == Data \cup {"user_agent", "system_prefs", "user_prefs", "logs"}
\* _PRIVILEGED
Privileged == {"daemon", "system_support", "system_prefs", "logs"}
Reports == {"none", "installed", "removed", "purged", "nothing", "failed",
            "cancelled", "aborted", "killed"}
Steps == {"logs", "stop", "write", "bootstrap", "dialog", "list", "bootout", "kill",
          "unlink", "confirm", "unload", "own", "rm"}

TypeOK ==
    /\ plist \in Configs \cup {NoConfig}
    /\ loaded \in [Domains -> Configs \cup {NoConfig}]
    /\ strays \subseteq Users
    /\ files \subseteq Artefacts
    /\ cmd \in [kind : {"none", "install", "remove", "purge"}, root : BOOLEAN,
                config : Configs \cup {NoConfig}, pc : Reports \cup Steps,
                domains : SUBSET Domains,              \* still to be booted out
                targets : SUBSET (Artefacts \cup {"daemon"}),  \* and to be removed
                \* domains whose bootout or unload failed, and commands that
                \* failed, which all goes unnoticed
                ignored : SUBSET (Domains \cup {"dscl", "pkill"})]

Running == cmd.pc \in Steps
At(kind, pc) == cmd.kind = kind /\ cmd.pc = pc
Goto(pc) == cmd' = [cmd EXCEPT !.pc = pc]

\* A machine without the daemon, or with one that a user installed with
\* launchctl load.
Init ==
    /\ files \in SUBSET Artefacts
    /\ cmd = [kind |-> "none", root |-> FALSE, config |-> NoConfig, pc |-> "none",
              domains |-> {}, targets |-> {}, ignored |-> {}]
    /\ \/ /\ plist = NoConfig /\ strays = {}
          /\ loaded = [d \in Domains |-> NoConfig]
       \/ \E u \in Users :
            /\ plist \in Configs /\ strays = {u}
            /\ loaded = [d \in Domains |-> IF d = u THEN plist ELSE NoConfig]

Start(kind, root, config, pc, domains, targets) ==
    /\ ~Running
    /\ cmd' = [kind |-> kind, root |-> root, config |-> config, pc |-> pc,
               domains |-> domains, targets |-> targets, ignored |-> {}]
    /\ UNCHANGED <<plist, loaded, strays, files>>

-----------------------------------------------------------------------------
(* service_daemon --install                                                *)

\* The checks before anything is touched; those of the options ...
ValidUser(c) == c.user \in Accounts
ValidPort(c) == c.port \in 1..65535
ValidWorkers(c) == c.workers >= 1

\* ... and those of the machine: whether the project lies in a directory that is
\* protected and there is no Full Disk Access, who owns its files, and whether
\* gunicorn and the template of the plist are there.
LocationAllowed(protected, granted) == protected => granted
OwnedBy(c) == c.user = Owner
Accepted(c, protected, granted) ==
    /\ ValidUser(c) /\ ValidPort(c) /\ ValidWorkers(c)
    /\ LocationAllowed(protected, granted) /\ OwnedBy(c)

StartInstall(root, config) ==
    \E protected, granted, rendered \in BOOLEAN :
        Start("install", root, config,
              IF ~Accepted(config, protected, granted) \/ ~rendered THEN "failed"
              ELSE IF root THEN "logs" ELSE "dialog", {}, {})

\* _prepare_log_dir_as_root, and the script's mkdir.
PrepareLogDir ==
    /\ At("install", "logs")
    /\ \/ files' = files \cup {"logs"} /\ Goto(IF cmd.root THEN "stop" ELSE "write")
       \/ files' \in {files, files \cup {"logs"}} /\ Goto("failed")
    /\ UNCHANGED <<plist, loaded, strays>>

\* The system domain only.  With root's rights, only if there is a plist; the
\* script tries in any case.  A failure is ignored.
StopExisting ==
    /\ At("install", "stop")
    /\ \/ /\ cmd.root => plist # NoConfig
          /\ loaded' = [loaded EXCEPT !["system"] = NoConfig]
       \/ UNCHANGED loaded
    /\ Goto(IF cmd.root THEN "write" ELSE "logs")
    /\ UNCHANGED <<plist, strays, files>>

WritePlist ==
    /\ At("install", "write")
    /\ \/ plist' = cmd.config /\ Goto("bootstrap")
       \/ plist' \in {plist, cmd.config} /\ Goto("failed")
    /\ UNCHANGED <<loaded, strays, files>>

\* Mutant: the exit status of launchctl is not looked at.
Bootstrap_IgnoreExit ==
    /\ At("install", "bootstrap")
    /\ loaded' = IF loaded["system"] = NoConfig
                   THEN [loaded EXCEPT !["system"] = plist] ELSE loaded
    /\ Goto("installed")
    /\ UNCHANGED <<plist, strays, files>>

\* launchctl refuses a label that the domain has already, and may fail for other
\* reasons; the plist is then removed again, but not by the script.
Bootstrap ==
    /\ At("install", "bootstrap")
    /\ \/ /\ loaded["system"] = NoConfig
          /\ loaded' = [loaded EXCEPT !["system"] = plist]
          /\ Goto("installed")
          /\ UNCHANGED plist
       \/ /\ plist' = IF cmd.root THEN NoConfig ELSE plist
          /\ Goto("failed")
          /\ UNCHANGED loaded
    /\ UNCHANGED <<strays, files>>

-----------------------------------------------------------------------------
(* service_daemon --remove                                                 *)

StartRemove(root) ==
    Start("remove", root, NoConfig,
          IF plist = NoConfig THEN "nothing" ELSE IF root THEN "list" ELSE "dialog", {}, {})

\* _launchd_domains, and the script's loop, ask dscl for the users.  Whether it
\* fails is not looked at; there is the system domain only, then.
ListDomains ==
    /\ At("remove", "list")
    /\ \/ cmd' = [cmd EXCEPT !.pc = "bootout", !.domains = Domains]
       \/ cmd' = [cmd EXCEPT !.pc = "bootout", !.domains = {"system"},
                             !.ignored = @ \cup {"dscl"}]
    /\ UNCHANGED <<plist, loaded, strays, files>>

\* The result of launchctl bootout is at most reported, and the loop goes on.
Bootout ==
    /\ At("remove", "bootout")
    /\ \E d \in cmd.domains, fails \in BOOLEAN :
         /\ loaded' = IF fails THEN loaded ELSE [loaded EXCEPT ![d] = NoConfig]
         /\ cmd' = [cmd EXCEPT !.domains = @ \ {d},
                               !.ignored = IF fails /\ loaded[d] # NoConfig
                                             THEN @ \cup {d} ELSE @,
                               !.pc = IF cmd.domains = {d} THEN "kill" ELSE @]
    /\ UNCHANGED <<plist, strays, files>>

\* _kill_stale_workers looks for the asgi application in the arguments.  Whether
\* pkill fails is not looked at.
KillStaleWorkers ==
    /\ At("remove", "kill")
    /\ \/ strays' = (IF Frozen THEN strays ELSE {}) /\ Goto("unlink")
       \/ /\ strays' \in SUBSET strays \ {{}}
          /\ cmd' = [cmd EXCEPT !.pc = "unlink", !.ignored = @ \cup {"pkill"}]
    /\ UNCHANGED <<plist, loaded, files>>

Unlink ==
    /\ At("remove", "unlink")
    /\ \/ plist' = NoConfig /\ Goto("removed")
       \/ UNCHANGED plist /\ Goto("failed")
    /\ UNCHANGED <<loaded, strays, files>>

-----------------------------------------------------------------------------
(* purge                                                                   *)

Candidates(keepData) ==
    (IF plist = NoConfig THEN {} ELSE {"daemon"}) \cup (IF keepData THEN files \ Data ELSE files)

StartPurge(root, keepData, force) ==
    LET targets == Candidates(keepData)
    IN  Start("purge", root, NoConfig,
              IF targets = {} THEN "nothing" ELSE IF force THEN "unload" ELSE "confirm",
              {}, targets)

Confirm ==
    /\ At("purge", "confirm")
    /\ \E pc \in {"unload", "aborted"} : Goto(pc)
    /\ UNCHANGED <<plist, loaded, strays, files>>

\* launchctl unload acts on the domain of who calls it.
OwnDomain == IF cmd.root THEN "system" ELSE Caller

\* Mutant: only the user agent is unloaded.
LaunchctlUnload_AgentOnly ==
    /\ At("purge", "unload")
    /\ loaded' = IF "user_agent" \in cmd.targets THEN [loaded EXCEPT ![OwnDomain] = NoConfig]
                                                 ELSE loaded
    /\ Goto("own")
    /\ UNCHANGED <<plist, strays, files>>

\* Both plists have the same label.  A failure is only reported.
LaunchctlUnload ==
    /\ At("purge", "unload")
    /\ \/ /\ {"daemon", "user_agent"} \cap cmd.targets # {}
          /\ loaded' = [loaded EXCEPT ![OwnDomain] = NoConfig]
          /\ Goto("own")
       \/ /\ UNCHANGED loaded
          /\ cmd' = [cmd EXCEPT !.pc = "own", !.ignored = {OwnDomain}]
    /\ UNCHANGED <<plist, strays, files>>

\* _remove catches every error and goes on.
Removed(t) ==
    IF t = "daemon" THEN plist' = NoConfig /\ UNCHANGED files
                    ELSE files' = files \ {t} /\ UNCHANGED plist

RemoveOwn ==
    /\ At("purge", "own")
    /\ \E t \in cmd.targets \ Privileged :
         /\ Removed(t) \/ UNCHANGED <<plist, files>>
         /\ cmd' = [cmd EXCEPT !.targets = @ \ {t}]
    /\ UNCHANGED <<loaded, strays>>

OwnDone ==
    /\ At("purge", "own")
    /\ cmd.targets \subseteq Privileged
    /\ Goto(IF cmd.targets = {} THEN "purged" ELSE IF cmd.root THEN "rm" ELSE "dialog")
    /\ UNCHANGED <<plist, loaded, strays, files>>

\* With root's rights by _remove; otherwise by _remove_privileged, whose script
\* stops at the first error.
RemovePrivileged ==
    /\ At("purge", "rm")
    /\ \E t \in cmd.targets :
         LET left == cmd.targets \ {t}
         IN  \/ /\ Removed(t) \/ (cmd.root /\ UNCHANGED <<plist, files>>)
                /\ cmd' = [cmd EXCEPT !.targets = left,
                                      !.pc = IF left = {} THEN "purged" ELSE @]
             \/ /\ ~cmd.root
                /\ Goto("failed")
                /\ UNCHANGED <<plist, files>>
    /\ UNCHANGED <<loaded, strays>>

-----------------------------------------------------------------------------
\* _run_via_osascript: the dialog is cancelled, osascript fails, or the script runs.
Dialog ==
    /\ cmd.pc = "dialog"
    /\ \E pc \in {"cancelled", "failed",
                  CASE cmd.kind = "install" -> "stop"
                    [] cmd.kind = "remove" -> "list"
                    [] OTHER -> "rm"} : Goto(pc)
    /\ UNCHANGED <<plist, loaded, strays, files>>

Kill ==
    /\ Running
    /\ Goto("killed")
    /\ UNCHANGED <<plist, loaded, strays, files>>

\* The machine starts: launchd loads the daemon, and the user agent at login.
Reboot ==
    /\ cmd' = [cmd EXCEPT !.kind = "none", !.pc = "none"]
    /\ strays' = {}
    /\ \E c \in Configs :
         loaded' = [d \in Domains |->
                      CASE d = "system" -> plist
                        [] d = Caller /\ "user_agent" \in files -> c
                        [] OTHER -> NoConfig]
    /\ UNCHANGED <<plist, files>>

Next ==
    \/ \E root \in BOOLEAN, config \in Configs : StartInstall(root, config)
    \/ PrepareLogDir \/ StopExisting \/ WritePlist \/ Bootstrap
    \/ \E root \in BOOLEAN : StartRemove(root)
    \/ ListDomains \/ Bootout \/ KillStaleWorkers \/ Unlink
    \/ \E root, keepData, force \in BOOLEAN : StartPurge(root, keepData, force)
    \/ Confirm \/ LaunchctlUnload \/ RemoveOwn \/ OwnDone \/ RemovePrivileged
    \/ Dialog \/ Kill \/ Reboot

Spec == Init /\ [][Next]_vars

-----------------------------------------------------------------------------
(* Properties.                                                             *)

Served(config) == plist = config /\ loaded["system"] = config

\* What is left of the service is what failed unnoticed: a registration whose
\* bootout failed, one of a user if dscl did not list the users, and untracked
\* servers if pkill failed or does not find them, as in the bundle.
GoneButForIgnored ==
    /\ plist = NoConfig
    /\ \A d \in Domains : loaded[d] # NoConfig
                           => d \in cmd.ignored \/ (d \in Users /\ "dscl" \in cmd.ignored)
    /\ strays # {} => Frozen \/ "pkill" \in cmd.ignored

\* What a command reports as done is done, whatever earlier commands, killed at any
\* step, legacy installations and restarts have left: a daemon that is installed is
\* registered with the plist that is on disk and was asked for; of one that is
\* removed there is neither file, registration in any domain nor server, but for
\* those that a failure of this very command, which it ignores, has spared.
SuccessIsTrue ==
    /\ cmd.pc = "installed" => Served(cmd.config)
    /\ cmd.pc = "removed" => GoneButForIgnored

\* The plist is never taken away from under a registered service ("Stop any running
\* launchd services before touching their plists"), or --remove would find nothing
\* to remove and the service would run on until the machine restarts.  Excepted are
\* a bootout or unload of the system domain that failed, the purge by a user, who
\* cannot unload the system's service, and the installation that fails because it is
\* registered.
PlistOutlivesService ==
    [][plist # NoConfig /\ plist' = NoConfig /\ loaded["system"] # NoConfig
         => \/ "system" \in cmd.ignored
            \/ cmd.kind = "purge" /\ ~cmd.root
            \/ cmd.kind = "install"]_vars
=============================================================================
