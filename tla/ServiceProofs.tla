--------------------------- MODULE ServiceProofs ----------------------------
(***************************************************************************)
(* Proofs about how the service is kept running on its machine.            *)
(*                                                                         *)
(* Installation, for any machine: what a command reports as done is done,  *)
(* but for the failures it ignores, and the cases in which a plist is      *)
(* taken away from under a registered service.                             *)
(*                                                                         *)
(* Scheduler, for any number of workers and of requests that save the      *)
(* schedule at once: an enabled schedule keeps a job, and only the holder  *)
(* of the lock fires as long as it serves every save.                      *)
(***************************************************************************)
EXTENDS Installation, Scheduler, FiniteSetTheorems, TLAPS

(***************************************************************************)
(* Installation                                                            *)
(***************************************************************************)
Actions == PrepareLogDir \/ StopExisting \/ WritePlist \/ Bootstrap \/ ListDomains
             \/ Bootout \/ KillStaleWorkers \/ Unlink \/ Confirm \/ LaunchctlUnload \/ RemoveOwn
             \/ OwnDone \/ RemovePrivileged \/ Dialog \/ Kill \/ Reboot

\* What may fail and be ignored.
Failures == Domains \cup {"dscl", "pkill"}

Commands ==
    [kind : {"none", "install", "remove", "purge"}, root : BOOLEAN,
     config : Configs \cup {NoConfig}, pc : Reports \cup Steps, domains : SUBSET Domains,
     targets : SUBSET (Artefacts \cup {"daemon"}), ignored : SUBSET Failures]

LEMMA CommandTypes == TypeOK => cmd \in Commands
  BY DEF TypeOK, Commands, Failures

\* The command at another step, with other domains left and failures ignored.
Command(step, domains, ignored) ==
    [kind |-> cmd.kind, root |-> cmd.root, config |-> cmd.config, pc |-> step,
     domains |-> domains, targets |-> cmd.targets, ignored |-> ignored]

LEMMA CommandGoes ==
    ASSUME cmd \in Commands, NEW step \in Reports \cup Steps,
           NEW domains \in SUBSET Domains, NEW ignored \in SUBSET Failures
    PROVE  LET d == Command(step, domains, ignored)
           IN  /\ d \in Commands /\ d.kind = cmd.kind /\ d.root = cmd.root
               /\ d.targets = cmd.targets
               /\ d.pc = step /\ d.domains = domains /\ d.ignored = ignored
  BY DEF Commands, Command

LEMMA InitTypes == Init => TypeOK
  <1> SUFFICES ASSUME Init PROVE TypeOK
    OBVIOUS
  <1>1. /\ plist \in Configs \cup {NoConfig}
        /\ strays \subseteq Users
        /\ files \subseteq Artefacts
    BY DEF Init
  <1>2. loaded \in [Domains -> Configs \cup {NoConfig}]
    BY DEF Init
  <1>3. cmd \in [kind : {"none", "install", "remove", "purge"}, root : BOOLEAN,
                config : Configs \cup {NoConfig}, pc : Reports \cup Steps,
                domains : SUBSET Domains, targets : SUBSET (Artefacts \cup {"daemon"}),
                ignored : SUBSET Failures]
    BY DEF Init, Reports, Failures
  <1> QED
    BY <1>1, <1>2, <1>3 DEF TypeOK, Failures

\* What every command leaves alone when it starts, and what it starts with.
LEMMA StartTypes ==
    ASSUME TypeOK,
           NEW kind \in {"install", "remove", "purge"}, NEW root \in BOOLEAN,
           NEW config \in Configs \cup {NoConfig}, NEW step \in Reports \cup Steps,
           NEW domains \in SUBSET Domains,
           NEW targets \in SUBSET (Artefacts \cup {"daemon"}),
           Start(kind, root, config, step, domains, targets)
    PROVE  TypeOK'
  BY DEF TypeOK, Start

\* The steps that may ignore a failure.
LEMMA IgnoringSteps ==
    ASSUME TypeOK
    PROVE  /\ ListDomains => /\ cmd' \in Commands /\ cmd'.kind = cmd.kind
                            /\ cmd'.root = cmd.root /\ cmd'.pc = "bootout"
                            /\ \/ cmd'.domains = Domains
                               \/ /\ cmd'.domains = {"system"}
                                  /\ cmd'.ignored = cmd.ignored \cup {"dscl"}
                            /\ UNCHANGED <<plist, loaded, strays, files>>
           /\ KillStaleWorkers =>
                 /\ cmd' \in Commands /\ cmd'.kind = cmd.kind /\ cmd'.root = cmd.root
                 /\ cmd'.pc = "unlink" /\ cmd'.domains = cmd.domains
                 /\ cmd.ignored \subseteq cmd'.ignored
                 /\ strays' \subseteq Users
                 /\ strays' # {} => Frozen \/ "pkill" \in cmd'.ignored
                 /\ cmd.kind = "remove" /\ cmd.pc = "kill"
                 /\ UNCHANGED <<plist, loaded, files>>
           /\ LaunchctlUnload =>
                 /\ cmd' \in Commands /\ cmd'.kind = cmd.kind /\ cmd'.root = cmd.root
                 /\ cmd'.pc = "own" /\ cmd'.targets = cmd.targets
                 /\ loaded' \in [Domains -> Configs \cup {NoConfig}]
                 /\ cmd.kind = "purge"
                 /\ cmd.root /\ "daemon" \in cmd.targets
                      => "system" \in cmd'.ignored \/ loaded'["system"] = NoConfig
                 /\ UNCHANGED <<plist, strays, files>>
  <1>1. cmd \in Commands
    BY CommandTypes
  <1>2. /\ "bootout" \in Reports \cup Steps /\ "unlink" \in Reports \cup Steps
        /\ "own" \in Reports \cup Steps
    BY DEF Steps
  <1>3. /\ OwnDomain \in Domains /\ Domains \subseteq Failures
        /\ {"dscl"} \subseteq Failures /\ {"pkill"} \subseteq Failures
        /\ "system" \in Domains /\ Domains \in SUBSET Domains
        /\ cmd.ignored \subseteq Failures /\ cmd.domains \subseteq Domains
        /\ cmd.pc \in Reports \cup Steps
    BY <1>1, InstallationAssumption DEF OwnDomain, Domains, Failures, Commands
  <1>4. ASSUME ListDomains
        PROVE  \/ cmd' = Command("bootout", Domains, cmd.ignored)
               \/ cmd' = Command("bootout", {"system"}, cmd.ignored \cup {"dscl"})
    BY <1>1, <1>4 DEF ListDomains, Commands, Command
  <1>5. ASSUME KillStaleWorkers
        PROVE  \/ /\ cmd' = Command("unlink", cmd.domains, cmd.ignored)
                  /\ strays' = IF Frozen THEN strays ELSE {}
               \/ /\ cmd' = Command("unlink", cmd.domains, cmd.ignored \cup {"pkill"})
                  /\ strays' \subseteq strays
    BY <1>1, <1>5 DEF KillStaleWorkers, Goto, Commands, Command
  <1>6. ASSUME LaunchctlUnload
        PROVE  \/ /\ cmd' = Command("own", cmd.domains, cmd.ignored)
                  /\ loaded' = [loaded EXCEPT ![OwnDomain] = NoConfig]
               \/ /\ cmd' = Command("own", cmd.domains, {OwnDomain})
                  /\ loaded' = loaded
    BY <1>1, <1>6 DEF LaunchctlUnload, Goto, Commands, Command
  <1>7. ASSUME ListDomains
        PROVE  /\ cmd' \in Commands /\ cmd'.kind = cmd.kind
               /\ cmd'.root = cmd.root /\ cmd'.pc = "bootout"
               /\ \/ cmd'.domains = Domains
                  \/ /\ cmd'.domains = {"system"}
                     /\ cmd'.ignored = cmd.ignored \cup {"dscl"}
               /\ UNCHANGED <<plist, loaded, strays, files>>
    <2>1. {"system"} \in SUBSET Domains /\ cmd.ignored \cup {"dscl"} \in SUBSET Failures
      BY <1>3
    <2>2. CASE cmd' = Command("bootout", Domains, cmd.ignored)
      BY <1>1, <1>2, <1>3, <1>7, <2>2, CommandGoes DEF ListDomains
    <2>3. CASE cmd' = Command("bootout", {"system"}, cmd.ignored \cup {"dscl"})
      BY <1>1, <1>2, <1>7, <2>1, <2>3, CommandGoes DEF ListDomains
    <2> QED
      BY <1>4, <1>7, <2>2, <2>3
  <1>8. ASSUME KillStaleWorkers
        PROVE  /\ cmd' \in Commands /\ cmd'.kind = cmd.kind /\ cmd'.root = cmd.root
               /\ cmd'.pc = "unlink" /\ cmd'.domains = cmd.domains
               /\ cmd.ignored \subseteq cmd'.ignored
               /\ strays' \subseteq Users
               /\ strays' # {} => Frozen \/ "pkill" \in cmd'.ignored
               /\ cmd.kind = "remove" /\ cmd.pc = "kill"
               /\ UNCHANGED <<plist, loaded, files>>
    <2>0. /\ cmd.ignored \cup {"pkill"} \in SUBSET Failures /\ strays \subseteq Users
          /\ cmd.kind = "remove" /\ cmd.pc = "kill" /\ UNCHANGED <<plist, loaded, files>>
      BY <1>3, <1>8 DEF KillStaleWorkers, At, TypeOK
    <2>2. CASE /\ cmd' = Command("unlink", cmd.domains, cmd.ignored)
               /\ strays' = IF Frozen THEN strays ELSE {}
      BY <1>1, <1>2, <1>3, <2>0, <2>2, CommandGoes
    <2>3. CASE /\ cmd' = Command("unlink", cmd.domains, cmd.ignored \cup {"pkill"})
               /\ strays' \subseteq strays
      BY <1>1, <1>2, <1>3, <2>0, <2>3, CommandGoes
    <2> QED
      BY <1>5, <1>8, <2>2, <2>3
  <1>9. ASSUME LaunchctlUnload
        PROVE  /\ cmd' \in Commands /\ cmd'.kind = cmd.kind /\ cmd'.root = cmd.root
               /\ cmd'.pc = "own" /\ cmd'.targets = cmd.targets
               /\ loaded' \in [Domains -> Configs \cup {NoConfig}]
               /\ cmd.kind = "purge"
               /\ cmd.root /\ "daemon" \in cmd.targets
                    => "system" \in cmd'.ignored \/ loaded'["system"] = NoConfig
               /\ UNCHANGED <<plist, strays, files>>
    <2>0. /\ cmd.kind = "purge" /\ UNCHANGED <<plist, strays, files>>
          /\ loaded \in [Domains -> Configs \cup {NoConfig}]
          /\ cmd.root => OwnDomain = "system"
          /\ {OwnDomain} \in SUBSET Failures
      BY <1>3, <1>9 DEF LaunchctlUnload, At, TypeOK, OwnDomain
    <2>2. CASE /\ cmd' = Command("own", cmd.domains, cmd.ignored)
               /\ loaded' = [loaded EXCEPT ![OwnDomain] = NoConfig]
      BY <1>1, <1>2, <1>3, <2>0, <2>2, CommandGoes
    <2>3. CASE /\ cmd' = Command("own", cmd.domains, {OwnDomain})
               /\ loaded' = loaded
      BY <1>1, <1>2, <1>3, <2>0, <2>3, CommandGoes
    <2> QED
      BY <1>6, <1>9, <2>2, <2>3
  <1> QED
    BY <1>7, <1>8, <1>9

LEMMA StepTypes == TypeOK /\ Actions => TypeOK'
  <1> SUFFICES ASSUME TypeOK, Actions PROVE TypeOK'
    OBVIOUS
  <1> USE DEF TypeOK, At, Goto, Running
  <1>16. cmd \in Commands
    BY CommandTypes
  <1>17. ASSUME UNCHANGED <<plist, files>>, loaded' \in [Domains -> Configs \cup {NoConfig}],
                strays' \subseteq Users, cmd' \in Commands
         PROVE  TypeOK'
    BY <1>17 DEF Commands, Failures
  <1>0. CASE ListDomains
    BY <1>0, <1>16, <1>17, IgnoringSteps
  <1>1. CASE PrepareLogDir
    BY <1>1 DEF PrepareLogDir, Reports, Steps, Artefacts, Data
  <1>2. CASE StopExisting
    BY <1>2 DEF StopExisting, Steps, Domains
  <1>3. CASE WritePlist
    BY <1>3 DEF WritePlist, Reports, Steps
  <1>4. CASE Bootstrap
    BY <1>4 DEF Bootstrap, Reports, Domains
  <1>5. CASE Bootout
    <2>1. PICK d \in cmd.domains, fails \in BOOLEAN :
            /\ loaded' = IF fails THEN loaded ELSE [loaded EXCEPT ![d] = NoConfig]
            /\ cmd' = [cmd EXCEPT !.domains = @ \ {d},
                                  !.ignored = IF fails /\ loaded[d] # NoConfig
                                                THEN @ \cup {d} ELSE @,
                                  !.pc = IF cmd.domains = {d} THEN "kill" ELSE @]
      BY <1>5 DEF Bootout
    <2>2. loaded' \in [Domains -> Configs \cup {NoConfig}]
      BY <2>1
    <2>3. (IF fails /\ loaded[d] # NoConfig THEN cmd.ignored \cup {d} ELSE cmd.ignored)
            \in SUBSET Failures
      BY DEF Failures
    <2>4. (IF cmd.domains = {d} THEN "kill" ELSE cmd.pc) \in Reports \cup Steps
      BY DEF Steps
    <2>5. cmd' \in [kind : {"none", "install", "remove", "purge"}, root : BOOLEAN,
                    config : Configs \cup {NoConfig}, pc : Reports \cup Steps,
                    domains : SUBSET Domains,
                    targets : SUBSET (Artefacts \cup {"daemon"}), ignored : SUBSET Failures]
      BY <2>1, <2>3, <2>4
    <2> QED
      BY <1>5, <2>2, <2>5 DEF Bootout, Failures
  <1>6. CASE KillStaleWorkers
    BY <1>6, <1>17, IgnoringSteps
  <1>7. CASE Unlink
    BY <1>7 DEF Unlink, Reports
  <1>8. CASE Confirm
    BY <1>8 DEF Confirm, Reports, Steps
  <1>9. CASE LaunchctlUnload
    BY <1>9, <1>17, IgnoringSteps
  <1>10. CASE RemoveOwn
    BY <1>10 DEF RemoveOwn, Removed
  <1>11. CASE OwnDone
    BY <1>11 DEF OwnDone, Reports, Steps
  <1>12. CASE RemovePrivileged
    <2>1. PICK t \in cmd.targets :
            LET left == cmd.targets \ {t}
            IN  \/ /\ Removed(t) \/ (cmd.root /\ UNCHANGED <<plist, files>>)
                   /\ cmd' = [cmd EXCEPT !.targets = left,
                                         !.pc = IF left = {} THEN "purged" ELSE @]
                \/ /\ ~cmd.root
                   /\ Goto("failed")
                   /\ UNCHANGED <<plist, files>>
      BY <1>12 DEF RemovePrivileged
    <2>2. /\ plist' \in Configs \cup {NoConfig}
          /\ files' \subseteq Artefacts
      BY <2>1 DEF Removed
    <2>3. (IF cmd.targets \ {t} = {} THEN "purged" ELSE cmd.pc) \in Reports \cup Steps
      BY DEF Reports
    <2>4. cmd' \in [kind : {"none", "install", "remove", "purge"}, root : BOOLEAN,
                    config : Configs \cup {NoConfig}, pc : Reports \cup Steps,
                    domains : SUBSET Domains,
                    targets : SUBSET (Artefacts \cup {"daemon"}), ignored : SUBSET Failures]
      <3>1. CASE cmd' = [cmd EXCEPT !.targets = @ \ {t},
                            !.pc = IF cmd.targets \ {t} = {} THEN "purged" ELSE @]
        BY <3>1, <2>3, <1>16 DEF Commands
      <3>2. CASE Goto("failed")
        BY <3>2, <1>16 DEF Reports, Commands
      <3> QED
        BY <2>1, <3>1, <3>2
    <2> QED
      BY <1>12, <2>2, <2>4 DEF RemovePrivileged, Failures
  <1>13. CASE Dialog
    BY <1>13 DEF Dialog, Reports, Steps
  <1>14. CASE Kill
    BY <1>14 DEF Kill, Reports
  <1>15. CASE Reboot
    <2>1. cmd' \in Commands
      BY <1>15, <1>16 DEF Reboot, Reports, Commands
    <2>2. loaded' \in [Domains -> Configs \cup {NoConfig}]
      BY <1>15 DEF Reboot
    <2> QED
      BY <1>15, <1>17, <2>1, <2>2 DEF Reboot
  <1> QED
    BY <1>0, <1>1, <1>2, <1>3, <1>4, <1>5, <1>6, <1>7, <1>8, <1>9, <1>10, <1>11, <1>12,
       <1>13, <1>14, <1>15 DEF Actions

LEMMA NextTypes == TypeOK /\ [Next]_vars => TypeOK'
  <1> SUFFICES ASSUME TypeOK, [Next]_vars PROVE TypeOK'
    OBVIOUS
  <1>1. CASE \E root \in BOOLEAN, config \in Configs : StartInstall(root, config)
    BY <1>1, StartTypes DEF StartInstall, Steps, Reports
  <1>2. CASE \E root \in BOOLEAN : StartRemove(root)
    BY <1>2, StartTypes DEF StartRemove, Steps, Reports
  <1>3. CASE \E root, keepData, force \in BOOLEAN : StartPurge(root, keepData, force)
    <2>1. PICK root \in BOOLEAN, keepData \in BOOLEAN, force \in BOOLEAN :
            StartPurge(root, keepData, force)
      BY <1>3
    <2>2. Candidates(keepData) \in SUBSET (Artefacts \cup {"daemon"})
      BY DEF Candidates, TypeOK
    <2> QED
      BY <2>1, <2>2, StartTypes DEF StartPurge, Steps, Reports
  <1>4. CASE Actions
    BY <1>4, StepTypes
  <1>5. CASE UNCHANGED vars
    BY <1>5 DEF vars, TypeOK
  <1> QED
    BY <1>1, <1>2, <1>3, <1>4, <1>5 DEF Next, Actions

(* The types of the machine and of the command, whatever is installed,     *)
(* removed and purged (service_daemon.py, purge.py).                       *)
THEOREM TypeCorrect == Spec => []TypeOK
  BY InitTypes, NextTypes, PTL DEF Spec
-------------------------------------------------------------------------------
(* What is known at each step of a command, whatever earlier ones left.    *)

\* A registration that the removal spares, as its bootout failed or as dscl did.
Spared(d) == d \in cmd.ignored \/ (d \in Users /\ "dscl" \in cmd.ignored)
\* The domains that are not before a removal any more have no registration left,
\* but for those it spares.
Visited ==
    cmd.kind = "remove" /\ cmd.pc \in {"bootout", "kill", "unlink"}
      => \A d \in Domains \ cmd.domains : loaded[d] # NoConfig => Spared(d)
AllVisited ==
    cmd.kind = "remove" /\ cmd.pc \in {"kill", "unlink"} => cmd.domains = {}
NoStrays ==
    cmd.kind = "remove" /\ cmd.pc = "unlink"
      => (strays # {} => Frozen \/ "pkill" \in cmd.ignored)
Written == cmd.kind = "install" /\ cmd.pc = "bootstrap" => plist = cmd.config
\* A purge that is about to remove the plist with root's rights has unloaded it.
Unloaded ==
    cmd.kind = "purge" /\ cmd.root /\ cmd.pc \in {"own", "rm"} /\ "daemon" \in cmd.targets
      => "system" \in cmd.ignored \/ loaded["system"] = NoConfig
RootHasNoDialog == cmd.kind = "purge" /\ cmd.pc = "dialog" => ~cmd.root

IInv == /\ TypeOK /\ SuccessIsTrue
        /\ Visited /\ AllVisited /\ NoStrays /\ Written /\ Unloaded /\ RootHasNoDialog

LEMMA InitInv == Init => IInv
  <1> SUFFICES ASSUME Init PROVE IInv
    OBVIOUS
  <1>1. cmd.pc = "none"
    BY DEF Init
  <1> QED
    BY <1>1, InitTypes DEF IInv, SuccessIsTrue, Visited, AllVisited, NoStrays, Written,
       Unloaded, RootHasNoDialog

\* A command that has just started has done nothing yet.
LEMMA StartInv ==
    ASSUME IInv, TypeOK',
           NEW kind, NEW root, NEW config, NEW step, NEW domains, NEW targets,
           Start(kind, root, config, step, domains, targets),
           step \in {"failed", "logs", "dialog", "nothing", "list", "unload", "confirm"},
           kind = "purge" => step # "dialog"
    PROVE  IInv'
  <1>1. cmd' = [kind |-> kind, root |-> root, config |-> config, pc |-> step,
                domains |-> domains, targets |-> targets, ignored |-> {}]
    BY DEF Start
  <1>2. SuccessIsTrue' /\ AllVisited' /\ NoStrays' /\ Written' /\ Unloaded'
    BY <1>1 DEF SuccessIsTrue, AllVisited, NoStrays, Written, Unloaded
  <1>3. Visited'
    BY <1>1 DEF Visited
  <1>4. RootHasNoDialog'
    BY <1>1 DEF RootHasNoDialog
  <1> QED
    BY <1>2, <1>3, <1>4 DEF IInv

LEMMA StepInv == IInv /\ Actions => IInv'
  <1> SUFFICES ASSUME IInv, Actions PROVE IInv'
    OBVIOUS
  <1>0. TypeOK'
    BY StepTypes DEF IInv
  <1> USE <1>0 DEF IInv, TypeOK, At, Goto, SuccessIsTrue, Visited, AllVisited, NoStrays,
                Written, Unloaded, RootHasNoDialog
  <1>16. CASE ListDomains
    BY <1>16, IgnoringSteps DEF Domains, Spared
  <1>1. CASE PrepareLogDir
    BY <1>1 DEF PrepareLogDir
  <1>2. CASE StopExisting
    BY <1>2 DEF StopExisting
  <1>3. CASE WritePlist
    BY <1>3 DEF WritePlist
  <1>4. CASE Bootstrap
    BY <1>4 DEF Bootstrap, Served, Domains
  <1>5. CASE Bootout
    <2>1. PICK d \in cmd.domains, fails \in BOOLEAN :
            /\ loaded' = IF fails THEN loaded ELSE [loaded EXCEPT ![d] = NoConfig]
            /\ cmd' = [cmd EXCEPT !.domains = @ \ {d},
                                  !.ignored = IF fails /\ loaded[d] # NoConfig
                                                THEN @ \cup {d} ELSE @,
                                  !.pc = IF cmd.domains = {d} THEN "kill" ELSE @]
      BY <1>5 DEF Bootout
    <2>2. /\ cmd'.kind = "remove" /\ cmd'.domains = cmd.domains \ {d}
          /\ cmd'.pc = IF cmd.domains = {d} THEN "kill" ELSE "bootout"
      BY <1>5, <2>1 DEF Bootout
    <2>3. cmd'.ignored = IF fails /\ loaded[d] # NoConfig THEN cmd.ignored \cup {d}
                                                          ELSE cmd.ignored
      BY <2>1
    <2>4. \A e \in Domains \ cmd.domains : loaded[e] # NoConfig => Spared(e)
      BY <1>5 DEF Bootout
    <2>5. \A e \in Domains : Spared(e) => Spared(e)'
      BY <2>3 DEF Spared
    <2>6. loaded'[d] # NoConfig => Spared(d)'
      BY <2>1, <2>3 DEF Spared
    <2>7. \A e \in Domains : loaded'[e] # NoConfig => loaded[e] # NoConfig
      BY <2>1
    <2>8. \A e \in Domains \ cmd'.domains : loaded'[e] # NoConfig => Spared(e)'
      BY <2>2, <2>4, <2>5, <2>6, <2>7
    <2> QED
      BY <2>2, <2>8
  <1>6. CASE KillStaleWorkers
    BY <1>6, IgnoringSteps DEF Spared
  <1>7. CASE Unlink
    BY <1>7 DEF Unlink, GoneButForIgnored, Spared
  <1>8. CASE Confirm
    BY <1>8 DEF Confirm
  <1>9. CASE LaunchctlUnload
    BY <1>9, IgnoringSteps
  <1>10. CASE RemoveOwn
    BY <1>10 DEF RemoveOwn, Removed
  <1>11. CASE OwnDone
    BY <1>11 DEF OwnDone
  <1>12. CASE RemovePrivileged
    <2>1. PICK t \in cmd.targets :
            LET left == cmd.targets \ {t}
            IN  \/ /\ Removed(t) \/ (cmd.root /\ UNCHANGED <<plist, files>>)
                   /\ cmd' = [cmd EXCEPT !.targets = left,
                                         !.pc = IF left = {} THEN "purged" ELSE @]
                \/ /\ ~cmd.root
                   /\ Goto("failed")
                   /\ UNCHANGED <<plist, files>>
      BY <1>12 DEF RemovePrivileged
    <2>2. /\ cmd'.kind = "purge" /\ cmd'.root = cmd.root /\ cmd'.ignored = cmd.ignored
          /\ cmd'.pc \in {"rm", "purged", "failed"} /\ cmd'.targets \subseteq cmd.targets
      <3>1. CASE cmd' = [cmd EXCEPT !.targets = @ \ {t},
                            !.pc = IF cmd.targets \ {t} = {} THEN "purged" ELSE @]
        <4>1. cmd'.pc = IF cmd.targets \ {t} = {} THEN "purged" ELSE cmd.pc
          BY <3>1
        <4> QED
          BY <1>12, <3>1, <4>1 DEF RemovePrivileged
      <3>2. CASE Goto("failed")
        BY <1>12, <3>2 DEF RemovePrivileged
      <3> QED
        BY <2>1, <3>1, <3>2
    <2> QED
      BY <1>12, <2>2 DEF RemovePrivileged
  <1>13. CASE Dialog
    BY <1>13 DEF Dialog
  <1>14. CASE Kill
    BY <1>14 DEF Kill
  <1>15. CASE Reboot
    BY <1>15 DEF Reboot
  <1> QED
    BY <1>1, <1>2, <1>3, <1>4, <1>5, <1>6, <1>7, <1>8, <1>9, <1>10, <1>11, <1>12,
       <1>13, <1>14, <1>15, <1>16 DEF Actions

LEMMA NextInv == IInv /\ [Next]_vars => IInv'
  <1> SUFFICES ASSUME IInv, [Next]_vars PROVE IInv'
    OBVIOUS
  <1>0. TypeOK'
    BY NextTypes DEF IInv
  <1>1. CASE \E root \in BOOLEAN, config \in Configs : StartInstall(root, config)
    BY <1>0, <1>1, StartInv DEF StartInstall
  <1>2. CASE \E root \in BOOLEAN : StartRemove(root)
    BY <1>0, <1>2, StartInv DEF StartRemove
  <1>3. CASE \E root, keepData, force \in BOOLEAN : StartPurge(root, keepData, force)
    BY <1>0, <1>3, StartInv DEF StartPurge
  <1>4. CASE Actions
    BY <1>4, StepInv
  <1>5. CASE UNCHANGED vars
    <2>1. /\ plist' = plist /\ loaded' = loaded /\ strays' = strays
          /\ files' = files /\ cmd' = cmd
      BY <1>5 DEF vars
    <2> QED
      BY <2>1, <1>0 DEF IInv, SuccessIsTrue, Served, GoneButForIgnored, Visited,
         Spared, AllVisited, NoStrays,
         Written, Unloaded, RootHasNoDialog
  <1> QED
    BY <1>1, <1>2, <1>3, <1>4, <1>5 DEF Next, Actions

(* A daemon reported as installed is registered with the plist that is on  *)
(* disk, and of one reported as removed nothing is left but what a failed  *)
(* bootout, dscl or pkill of that very command spared and the bundle's     *)
(* untracked servers, whatever earlier commands, killed at any step, have  *)
(* left (service_daemon.py).                                               *)
THEOREM ReportsAreTrue == Spec => []SuccessIsTrue
  <1>1. IInv => SuccessIsTrue
    BY DEF IInv
  <1> QED
    BY <1>1, InitInv, NextInv, PTL DEF Spec

LEMMA PlistStep ==
    ASSUME IInv, [Next]_vars, plist # NoConfig, plist' = NoConfig,
           loaded["system"] # NoConfig
    PROVE  "system" \in cmd.ignored \/ (cmd.kind = "purge" /\ ~cmd.root) \/ cmd.kind = "install"
  <1> USE DEF IInv, TypeOK, At
  <1>1. CASE WritePlist \/ Bootstrap
    BY <1>1 DEF WritePlist, Bootstrap
  <1>2. CASE Unlink
    BY <1>2, InstallationAssumption DEF Unlink, Visited, AllVisited, Spared, Domains
  <1>3. CASE RemoveOwn
    BY <1>3 DEF RemoveOwn, Removed, Privileged
  <1>4. CASE RemovePrivileged
    BY <1>4 DEF RemovePrivileged, Removed, Unloaded
  <1>5. CASE UNCHANGED plist
    BY <1>5
  <1>6. [Next]_vars => WritePlist \/ Bootstrap \/ Unlink \/ RemoveOwn \/ RemovePrivileged
                         \/ UNCHANGED plist
    BY DEF Next, vars, StartInstall, StartRemove, StartPurge, Start, PrepareLogDir,
       StopExisting, ListDomains, Bootout, KillStaleWorkers, Confirm, LaunchctlUnload, OwnDone,
       Dialog, Kill, Reboot
  <1> QED
    BY <1>1, <1>2, <1>3, <1>4, <1>5, <1>6

(* The plist is taken away from under a registered service only where the  *)
(* unloading of the system domain failed, by a user's purge, or by an      *)
(* installation that failed (service_daemon.py, purge.py).                 *)
THEOREM PlistIsNotTaken == Spec => PlistOutlivesService
  <1>1. IInv /\ [Next]_vars
          => [plist # NoConfig /\ plist' = NoConfig /\ loaded["system"] # NoConfig
                => \/ "system" \in cmd.ignored
                   \/ cmd.kind = "purge" /\ ~cmd.root
                   \/ cmd.kind = "install"]_vars
    BY PlistStep
  <1> QED
    BY <1>1, InitInv, NextInv, PTL DEF Spec, PlistOutlivesService

(***************************************************************************)
(* Scheduler                                                               *)
(***************************************************************************)
(* Who executes reschedule_job, and where: a worker's own boot in that     *)
(* worker before it serves requests, a request in a worker that serves.    *)
Placed ==
  /\ \A w \in Workers : on[w] = w /\ (pc[w] = "idle" <=> w \in up)
  /\ \A r \in Requests :
       IF pc[r] = "idle" THEN on[r] = NoWorker ELSE on[r] \in up /\ pc[r] \notin {"fork", "lock"}

(* A worker gets no more instances than requests that found none at once.  *)
Creating(w) == {r \in Requests : on[r] = w /\ pc[r] = "create"}

InstancesBounded ==
  /\ \A w \in Workers : current[w] + Cardinality(Creating(w)) <= Cardinality(Requests)
  /\ \A w \in Workers : pc[w] = "create" => current[w] = 0
  /\ \A t \in Threads : pc[t] = "return" => current[on[t]] # 0

BootInv == SchedulerTypeOK /\ Placed /\ InstancesBounded

Alone == faults = 0 /\ ~overlap
RunningInstance == \A t \in Threads : pc[t] \in {"remove", "read", "add"} => mine[t] \in running[on[t]]

Pending(t) ==
  \/ pc[t] \in {"get", "create", "return", "check", "remove", "read"}
  \/ pc[t] = "start" /\ mine[t] \notin running[on[t]]
  \/ pc[t] = "add" /\ seen[t] \in Crons

CoverInv ==
  faults = 0 /\ stored \in Crons =>
    (\E w \in Workers : JobsOf(w) # {}) \/ (\E t \in Threads : Pending(t))

(* Requests that do not overlap in one worker: it has one thread in        *)
(* reschedule_job and one scheduler.                                       *)
Apart == \A q, r \in Requests : on[q] = on[r] /\ on[q] # NoWorker => q = r
OneInstance == /\ \A w \in Workers : current[w] \in {0, 1} /\ running[w] \subseteq {1}
               /\ \A t \in Threads : mine[t] \in {0, 1}
Fresh == /\ \A t \in Threads : pc[t] = "create" => current[on[t]] = 0
         /\ \A t \in Threads : pc[t] = "start" => mine[t] \notin running[on[t]]
ServedLast ==
  /\ saver # NoWorker => saver \in up
  /\ \A r \in Requests : on[r] = saver /\ saver # NoWorker =>
       /\ pc[r] = "read" => JobsOf(saver) = {}
       /\ pc[r] = "add" => JobsOf(saver) = {} /\ seen[r] = stored
  /\ saver # NoWorker /\ (\A r \in Requests : on[r] # saver)
       => JobsOf(saver) = {stored} \cap Crons

AtMostOne == Apart /\ OneInstance /\ Fresh /\ ServedLast

AloneInv == Alone => AtMostOne

(* As long as saves are served by holders of the lock, whoever executes    *)
(* reschedule_job is in the holder, and only the holder has jobs.          *)
InHolder == \A t \in Threads : pc[t] \notin {"idle", "fork", "lock"} => on[t] = lock
HolderInv ==
  ~strayed => InHolder /\ \A w \in Workers : JobsOf(w) # {} => w = lock

-----------------------------------------------------------------------------
LEMMA EnoughInstances == Cardinality(Requests) \in Nat /\ Cardinality(Requests) >= 1
  <1>1. IsFiniteSet(Requests) /\ Requests # {}
    BY SchedulerAssumption
  <1> QED
    BY <1>1, FS_CardinalityType, FS_EmptySet

LEMMA CreatingFinite ==
  ASSUME NEW S \in SUBSET Requests
  PROVE  IsFiniteSet(S) /\ Cardinality(S) \in Nat /\ Cardinality(S) <= Cardinality(Requests)
  BY SchedulerAssumption, FS_Subset, FS_CardinalityType

(* A thread at "create" can create one more.                               *)
LEMMA RoomForOne ==
  ASSUME BootInv, NEW t \in Threads, pc[t] = "create"
  PROVE  /\ on[t] \in Workers /\ current[on[t]] \in Nat
         /\ current[on[t]] + 1 \in Instances
         /\ t \in Workers => Creating(t) = {}
  <1>1. CASE t \in Workers
    <2>1. on[t] = t /\ t \notin up /\ current[t] = 0
      BY <1>1 DEF BootInv, Placed, InstancesBounded
    <2>2. Creating(t) = {}
      BY <2>1, <1>1 DEF BootInv, Placed, Creating
    <2> QED
      BY <1>1, <2>1, <2>2, EnoughInstances DEF Instances
  <1>2. CASE t \in Requests
    <2>1. on[t] \in up /\ on[t] \in Workers
      BY <1>2 DEF BootInv, Placed, SchedulerTypeOK
    <2>2. t \in Creating(on[t]) /\ Creating(on[t]) \in SUBSET Requests
      BY <1>2 DEF Creating
    <2>3. Cardinality(Creating(on[t])) \in Nat /\ Cardinality(Creating(on[t])) >= 1
      BY <2>2, CreatingFinite, FS_EmptySet
    <2>4. current[on[t]] + Cardinality(Creating(on[t])) <= Cardinality(Requests)
      BY <2>1 DEF BootInv, InstancesBounded
    <2>5. current[on[t]] \in {0} \cup Instances
      BY <2>1 DEF BootInv, SchedulerTypeOK
    <2>6. current[on[t]] \in Nat
      BY <2>5, EnoughInstances DEF Instances
    <2>7. current[on[t]] + 1 \in Instances
      BY <2>3, <2>4, <2>6, EnoughInstances DEF Instances
    <2>8. t \notin Workers
      BY <1>2, SchedulerAssumption
    <2> QED
      BY <2>1, <2>6, <2>7, <2>8
  <1> QED
    BY <1>1, <1>2 DEF Threads

LEMMA ThreadPlace ==
  ASSUME BootInv, NEW t \in Threads, pc[t] # "idle"
  PROVE  /\ on[t] \in Workers
         /\ t \in Workers => on[t] = t /\ t \notin up
         /\ t \in Requests => on[t] \in up
  BY DEF BootInv, Placed, SchedulerTypeOK, Threads

(* The end of a thread.                                                    *)
LEMMA EndTypes ==
  ASSUME SchedulerTypeOK, NEW t \in Threads, End(t)
  PROVE  /\ lock' \in Workers \cup {NoWorker}
         /\ up' \subseteq Workers
         /\ pc' \in [Threads -> PC]
         /\ on' \in [Threads -> Workers \cup {NoWorker}]
         /\ mine' \in [Threads -> {0} \cup Instances]
         /\ seen' \in [Threads -> Schedules]
         /\ \A q \in Threads : pc'[q] \in {"check", "start", "remove", "read", "add"} => mine'[q] # 0
  BY DEF SchedulerTypeOK, End, ThreadGoto, PC, Schedules

LEMMA EndPlaced ==
  ASSUME BootInv, NEW t \in Threads, pc[t] # "idle", End(t)
  PROVE  Placed'
  <1>1. CASE t \in Workers
    <2>1. t \notin Requests /\ up' = up \cup {t} /\ on' = on /\ pc' = [pc EXCEPT ![t] = "idle"]
      BY <1>1, SchedulerAssumption DEF End, ThreadGoto
    <2> QED
      BY <1>1, <2>1, SchedulerAssumption DEF BootInv, Placed, SchedulerTypeOK, Threads
  <1>2. CASE t \in Requests
    <2>1. /\ t \notin Workers /\ up' = up /\ on' = [on EXCEPT ![t] = NoWorker]
          /\ pc' = [pc EXCEPT ![t] = "idle"]
      BY <1>2, SchedulerAssumption DEF End, ThreadGoto
    <2> QED
      BY <1>2, <2>1, SchedulerAssumption DEF BootInv, Placed, SchedulerTypeOK, Threads
  <1> QED
    BY <1>1, <1>2 DEF Threads

(* A step that creates no scheduler and makes no thread want to.           *)
LEMMA NobodyCreates ==
  ASSUME BootInv,
         \A w \in Workers : current'[w] = current[w] \/ current'[w] = 0,
         \A t \in Threads : pc'[t] = "create" => pc[t] = "create" /\ on'[t] = on[t] /\ current'[on[t]] = current[on[t]],
         \A t \in Threads : pc'[t] = "return" => current'[on'[t]] # 0
  PROVE  InstancesBounded'
  <1>1. ASSUME NEW w \in Workers
        PROVE  current'[w] + Cardinality(Creating(w)') <= Cardinality(Requests)
    <2>1. Creating(w)' \subseteq Creating(w) /\ Creating(w) \in SUBSET Requests
      BY DEF Creating, Threads
    <2>2. /\ IsFiniteSet(Creating(w)) /\ Cardinality(Creating(w)) \in Nat
          /\ Cardinality(Creating(w)') \in Nat
          /\ Cardinality(Creating(w)') <= Cardinality(Requests)
      BY <2>1, CreatingFinite
    <2>3. Cardinality(Creating(w)') <= Cardinality(Creating(w))
      BY <2>1, <2>2, FS_Subset
    <2>4. current[w] + Cardinality(Creating(w)) <= Cardinality(Requests)
      BY DEF BootInv, InstancesBounded
    <2>5. current[w] \in Nat
      BY EnoughInstances DEF BootInv, SchedulerTypeOK, Instances
    <2> QED
      BY <2>2, <2>3, <2>4, <2>5, EnoughInstances
  <1>2. ASSUME NEW w \in Workers, pc'[w] = "create" PROVE current'[w] = 0
    BY <1>2 DEF BootInv, InstancesBounded, Placed, Threads
  <1> QED
    BY <1>1, <1>2 DEF InstancesBounded

LEMMA BootInit == SchedulerInit => BootInv
  <1> SUFFICES ASSUME SchedulerInit PROVE BootInv
    OBVIOUS
  <1>1. SchedulerTypeOK
    <2>1. current \in [Workers -> {0} \cup Instances] /\ running \in [Workers -> SUBSET Instances]
          /\ job \in [Workers -> [Instances -> Crons \cup {NoJob}]]
      BY DEF SchedulerInit
    <2>2. pc \in [Threads -> PC] /\ on \in [Threads -> Workers \cup {NoWorker}]
          /\ mine \in [Threads -> {0} \cup Instances] /\ seen \in [Threads -> Schedules]
      BY DEF SchedulerInit, PC, Schedules
    <2>3. \A t \in Threads : pc[t] \notin {"check", "start", "remove", "read", "add"}
      BY DEF SchedulerInit
    <2>4. faults \in 0..MaxFaults
      BY SchedulerAssumption DEF SchedulerInit
    <2>5. stored \in Schedules /\ lock \in Workers \cup {NoWorker} /\ up \subseteq Workers
          /\ saver \in Workers \cup {NoWorker} /\ overlap \in BOOLEAN /\ strayed \in BOOLEAN
      BY DEF SchedulerInit, Schedules
    <2> QED
      BY <2>1, <2>2, <2>3, <2>4, <2>5 DEF SchedulerTypeOK
  <1>2. Placed
    BY SchedulerAssumption DEF SchedulerInit, Placed, Threads
  <1>3. ASSUME NEW w \in Workers PROVE current[w] + Cardinality(Creating(w)) <= Cardinality(Requests)
    <2>1. Creating(w) = {} /\ current[w] = 0
      BY SchedulerAssumption DEF Creating, SchedulerInit, Threads
    <2> QED
      BY <2>1, FS_EmptySet, EnoughInstances
  <1>4. \A t \in Threads : pc[t] \notin {"create", "return"}
    BY DEF SchedulerInit
  <1> QED
    BY <1>1, <1>2, <1>3, <1>4 DEF BootInv, InstancesBounded, Threads

-----------------------------------------------------------------------------
(* The steps.                                                              *)
LEMMA BootFork ==
  ASSUME BootInv, NEW w \in Workers, Fork(w)
  PROVE  BootInv'
  <1>1. w \in Threads /\ pc' = [pc EXCEPT ![w] = "lock"] /\ on' = on /\ up' = up /\ current' = current
    BY DEF Fork, ThreadGoto, Threads, process, scheduler
  <1>2. SchedulerTypeOK'
    BY <1>1 DEF BootInv, SchedulerTypeOK, Fork, PC, process, scheduler, history
  <1>3. Placed'
    BY <1>1, SchedulerAssumption DEF BootInv, Placed, Fork, Threads, SchedulerTypeOK
  <1>4. InstancesBounded'
    <2>1. \A t \in Threads : pc'[t] = "return" => current'[on'[t]] # 0
      BY <1>1 DEF BootInv, InstancesBounded, SchedulerTypeOK
    <2>2. \A t \in Threads : pc'[t] = "create" => pc[t] = "create"
      BY <1>1 DEF BootInv, SchedulerTypeOK
    <2> QED
      BY <1>1, <2>1, <2>2, NobodyCreates
  <1> QED
    BY <1>2, <1>3, <1>4 DEF BootInv

(* The thread has ended and no scheduler has been created.                 *)
LEMMA EndBounded ==
  ASSUME BootInv, NEW t \in Threads, pc[t] # "idle", End(t), current' = current
  PROVE  InstancesBounded'
  <1>1. pc' = [pc EXCEPT ![t] = "idle"]
    BY DEF End, ThreadGoto
  <1>2. \A q \in Threads : q # t => on'[q] = on[q]
    BY DEF End, BootInv, SchedulerTypeOK
  <1>3. \A q \in Threads : pc'[q] = "return" => current'[on'[q]] # 0
    BY <1>1, <1>2 DEF BootInv, InstancesBounded, SchedulerTypeOK
  <1>4. \A q \in Threads : pc'[q] = "create" => pc[q] = "create" /\ on'[q] = on[q]
    BY <1>1, <1>2 DEF BootInv, SchedulerTypeOK
  <1> QED
    BY <1>3, <1>4, NobodyCreates

LEMMA BootEnd ==
  ASSUME BootInv, NEW t \in Threads, pc[t] # "idle", End(t), current' = current,
         stored' \in Schedules, running' \in [Workers -> SUBSET Instances],
         job' \in [Workers -> [Instances -> Crons \cup {NoJob}]],
         saver' \in Workers \cup {NoWorker}, overlap' \in BOOLEAN, strayed' \in BOOLEAN,
         faults' \in 0..MaxFaults
  PROVE  BootInv'
  <1>1. SchedulerTypeOK'
    BY EndTypes DEF BootInv, SchedulerTypeOK
  <1> QED
    BY <1>1, EndPlaced, EndBounded DEF BootInv

(* The thread goes on, in the worker where it is.                          *)
LEMMA BootGoOn ==
  ASSUME BootInv, NEW t \in Threads, NEW label \in PC, pc[t] \notin {"idle", "fork"},
         label \notin {"idle", "fork", "lock", "create", "return"},
         ThreadGoto(t, label), UNCHANGED <<up, on>>, current' = current
  PROVE  Placed' /\ InstancesBounded'
  <1>1. pc' = [pc EXCEPT ![t] = label]
    BY DEF ThreadGoto
  <1>2. Placed'
    BY <1>1, SchedulerAssumption DEF BootInv, Placed, Threads, SchedulerTypeOK
  <1>3. \A q \in Threads : pc'[q] = "return" => current'[on'[q]] # 0
    BY <1>1 DEF BootInv, InstancesBounded, SchedulerTypeOK
  <1>4. \A q \in Threads : pc'[q] = "create" => pc[q] = "create"
    BY <1>1 DEF BootInv, SchedulerTypeOK
  <1> QED
    BY <1>2, <1>3, <1>4, NobodyCreates

LEMMA BootAcquire ==
  ASSUME BootInv, NEW w \in Workers, AcquireLock(w)
  PROVE  BootInv'
  <1>1. w \in Threads /\ pc[w] = "lock"
    BY DEF AcquireLock, Threads
  <1>2. CASE lock = NoWorker /\ lock' = w /\ ThreadGoto(w, "get") /\ UNCHANGED <<up, on, mine, seen>>
    <2>1. SchedulerTypeOK'
      BY <1>1, <1>2 DEF AcquireLock, BootInv, SchedulerTypeOK, ThreadGoto, PC, scheduler, history
    <2>2. current' = current
      BY DEF AcquireLock, scheduler
    <2> QED
      BY <1>1, <1>2, <2>1, <2>2, BootGoOn DEF BootInv, PC
  <1>3. CASE lock # NoWorker /\ End(w)
    BY <1>1, <1>3, BootEnd DEF AcquireLock, BootInv, SchedulerTypeOK, scheduler, history
  <1> QED
    BY <1>2, <1>3 DEF AcquireLock

LEMMA BootCrash ==
  ASSUME BootInv, NEW w \in Workers, Crash(w)
  PROVE  BootInv'
  <1> DEFINE Dropped(t) == t \in Requests /\ on[t] = w
  <1>0. /\ current' = [current EXCEPT ![w] = 0] /\ up' = up \ {w}
        /\ pc' = [t \in Threads |-> IF t = w THEN "fork" ELSE IF Dropped(t) THEN "idle" ELSE pc[t]]
        /\ on' = [t \in Threads |-> IF Dropped(t) THEN NoWorker ELSE on[t]]
    BY DEF Crash
  <1>1. SchedulerTypeOK'
    <2>1. /\ running' \in [Workers -> SUBSET Instances]
          /\ current' \in [Workers -> {0} \cup Instances]
      BY DEF Crash, BootInv, SchedulerTypeOK
    <2>2. job' \in [Workers -> [Instances -> Crons \cup {NoJob}]]
      BY DEF Crash, BootInv, SchedulerTypeOK
    <2>3. pc' \in [Threads -> PC] /\ on' \in [Threads -> Workers \cup {NoWorker}]
      BY <1>0 DEF BootInv, SchedulerTypeOK, PC
    <2>4. mine' \in [Threads -> {0} \cup Instances] /\ seen' \in [Threads -> Schedules]
      BY DEF Crash, BootInv, SchedulerTypeOK, Schedules
    <2>5. \A t \in Threads : pc'[t] \in {"check", "start", "remove", "read", "add"} => mine'[t] # 0
      BY DEF Crash, BootInv, SchedulerTypeOK
    <2>6. faults' \in 0..MaxFaults
      BY SchedulerAssumption DEF Crash, Fault, BootInv, SchedulerTypeOK
    <2> QED
      BY <2>1, <2>2, <2>3, <2>4, <2>5, <2>6 DEF Crash, BootInv, SchedulerTypeOK, history
  <1>2. Placed'
    <2>1. ASSUME NEW v \in Workers PROVE on'[v] = v /\ (pc'[v] = "idle" <=> v \in up')
      BY <1>0, SchedulerAssumption DEF BootInv, Placed, Threads
    <2>2. ASSUME NEW r \in Requests
          PROVE  IF pc'[r] = "idle" THEN on'[r] = NoWorker
                 ELSE on'[r] \in up' /\ pc'[r] \notin {"fork", "lock"}
      BY <1>0, SchedulerAssumption DEF BootInv, Placed, Threads
    <2> QED
      BY <2>1, <2>2 DEF Placed
  <1>3. InstancesBounded'
    <2>0. ASSUME NEW t \in Threads, pc'[t] \notin {"idle", "fork"}
          PROVE  pc'[t] = pc[t] /\ on'[t] = on[t] /\ on[t] # w
      BY <1>0, <2>0, SchedulerAssumption DEF BootInv, Placed, Threads
    <2>1. \A t \in Threads : pc'[t] = "return" => current'[on'[t]] # 0
      BY <1>0, <2>0, ThreadPlace DEF BootInv, InstancesBounded, SchedulerTypeOK
    <2>2. \A t \in Threads : pc'[t] = "create" =>
             pc[t] = "create" /\ on'[t] = on[t] /\ current'[on[t]] = current[on[t]]
      BY <1>0, <2>0, ThreadPlace DEF BootInv, SchedulerTypeOK
    <2>3. \A v \in Workers : current'[v] = current[v] \/ current'[v] = 0
      BY <1>0 DEF BootInv, SchedulerTypeOK
    <2> QED
      BY <2>1, <2>2, <2>3, NobodyCreates
  <1> QED
    BY <1>1, <1>2, <1>3 DEF BootInv

LEMMA BootSave ==
  ASSUME BootInv, NEW r \in Requests, Save(r)
  PROVE  BootInv'
  <1>1. PICK w \in up, s \in Schedules :
          stored' = s /\ on' = [on EXCEPT ![r] = w] /\ saver' = w
            /\ overlap' = (overlap \/ \E q \in Requests : on[q] = w)
            /\ strayed' = (strayed \/ lock # w)
    BY DEF Save
  <1>2. r \in Threads /\ r \notin Workers /\ w \in Workers /\ pc' = [pc EXCEPT ![r] = "get"]
        /\ up' = up /\ current' = current
    BY SchedulerAssumption DEF Save, Threads, ThreadGoto, BootInv, SchedulerTypeOK, process, scheduler
  <1>3. SchedulerTypeOK'
    <2>1. overlap' \in BOOLEAN
      BY <1>1 DEF BootInv, SchedulerTypeOK
    <2>2. strayed' \in BOOLEAN
      BY <1>1 DEF BootInv, SchedulerTypeOK
    <2> QED
      BY <1>1, <1>2, <2>1, <2>2 DEF Save, BootInv, SchedulerTypeOK, PC, process, scheduler
  <1>4. Placed'
    BY <1>1, <1>2 DEF BootInv, Placed, SchedulerTypeOK, Threads
  <1>5. InstancesBounded'
    <2>1. \A q \in Threads : pc'[q] = "return" => pc[q] = "return" /\ on'[q] = on[q]
      BY <1>1, <1>2 DEF BootInv, SchedulerTypeOK
    <2>2. \A q \in Threads : pc'[q] = "create" => pc[q] = "create" /\ on'[q] = on[q]
      BY <1>1, <1>2 DEF BootInv, SchedulerTypeOK
    <2> QED
      BY <1>2, <2>1, <2>2, NobodyCreates DEF BootInv, InstancesBounded
  <1> QED
    BY <1>3, <1>4, <1>5 DEF BootInv

LEMMA BootGet ==
  ASSUME BootInv, NEW t \in Threads, GetScheduler(t)
  PROVE  BootInv'
  <1>1. PICK label \in {"create", "return"} :
          /\ pc' = [pc EXCEPT ![t] = label]
          /\ label = "create" <=> current[on[t]] = 0
    BY DEF GetScheduler, ThreadGoto
  <1>2. on' = on /\ up' = up /\ current' = current /\ pc[t] = "get"
    BY DEF GetScheduler, process, scheduler
  <1>3. SchedulerTypeOK'
    BY <1>1, <1>2 DEF GetScheduler, BootInv, SchedulerTypeOK, PC, process, scheduler, history
  <1>4. Placed'
    BY <1>1, <1>2, SchedulerAssumption DEF BootInv, Placed, Threads, SchedulerTypeOK
  <1>5. ASSUME NEW w \in Workers
        PROVE  current'[w] + Cardinality(Creating(w)') <= Cardinality(Requests)
    <2>1. Creating(w) \in SUBSET Requests /\ Creating(w)' \in SUBSET Requests
      BY DEF Creating
    <2>2. CASE Creating(w)' = Creating(w)
      BY <1>2, <2>2 DEF BootInv, InstancesBounded
    <2>3. CASE Creating(w)' # Creating(w)
      <3>1. w = on[t] /\ label = "create"
        BY <1>1, <1>2, <2>3 DEF Creating, BootInv, SchedulerTypeOK, Threads
      <3> QED
        BY <1>1, <1>2, <2>1, <3>1, CreatingFinite, EnoughInstances
    <2> QED
      BY <2>2, <2>3
  <1>6. ASSUME NEW w \in Workers, pc'[w] = "create" PROVE current'[w] = 0
    BY <1>1, <1>2, <1>6 DEF BootInv, InstancesBounded, Placed, SchedulerTypeOK, Threads
  <1>7. \A q \in Threads : pc'[q] = "return" => current'[on'[q]] # 0
    BY <1>1, <1>2 DEF BootInv, InstancesBounded, SchedulerTypeOK
  <1> QED
    BY <1>3, <1>4, <1>5, <1>6, <1>7 DEF BootInv, InstancesBounded

LEMMA BootCreate ==
  ASSUME BootInv, NEW t \in Threads, CreateScheduler(t)
  PROVE  BootInv'
  <1>1. pc[t] = "create" /\ pc' = [pc EXCEPT ![t] = "return"] /\ on' = on /\ up' = up
    BY DEF CreateScheduler, ThreadGoto, process
  <1>2. PICK k : k = on[t] /\ k \in Workers /\ current' = [current EXCEPT ![k] = current[k] + 1]
    BY <1>1, RoomForOne DEF CreateScheduler
  <1>3. current[k] \in Nat /\ current[k] + 1 \in Instances /\ current[k] + 1 # 0
    BY <1>1, <1>2, RoomForOne, EnoughInstances DEF Instances
  <1>4. SchedulerTypeOK'
    BY <1>1, <1>2, <1>3 DEF CreateScheduler, BootInv, SchedulerTypeOK, PC, process, history
  <1>5. Placed'
    BY <1>1, SchedulerAssumption DEF BootInv, Placed, Threads, SchedulerTypeOK
  <1>6. ASSUME NEW w \in Workers
        PROVE  current'[w] + Cardinality(Creating(w)') <= Cardinality(Requests)
    <2>0. Creating(w) \in SUBSET Requests /\ Creating(w)' \in SUBSET Requests
      BY DEF Creating
    <2>1. CASE w # k
      <3>1. Creating(w)' = Creating(w) /\ current'[w] = current[w]
        BY <1>1, <1>2, <2>1 DEF Creating, BootInv, SchedulerTypeOK, Threads
      <3> QED
        BY <3>1 DEF BootInv, InstancesBounded
    <2>2. CASE w = k /\ t \in Workers
      <3>1. Creating(w) = {} /\ w = t
        BY <1>1, <1>2, <2>2, RoomForOne, ThreadPlace
      <3>2. Creating(w)' = {}
        BY <1>1, <3>1 DEF Creating, BootInv, SchedulerTypeOK, Threads
      <3>3. current'[w] = current[k] + 1
        BY <1>2, <2>2 DEF BootInv, SchedulerTypeOK
      <3> QED
        BY <1>3, <3>2, <3>3, FS_EmptySet, EnoughInstances DEF Instances
    <2>3. CASE w = k /\ t \in Requests
      <3>1. t \in Creating(w) /\ Creating(w)' = Creating(w) \ {t}
        BY <1>1, <1>2, <2>3 DEF Creating, BootInv, SchedulerTypeOK, Threads
      <3>2. Cardinality(Creating(w)') = Cardinality(Creating(w)) - 1
        BY <2>0, <3>1, CreatingFinite, FS_RemoveElement
      <3>3. current'[w] = current[k] + 1
        BY <1>2, <2>3 DEF BootInv, SchedulerTypeOK
      <3>4. current[w] + Cardinality(Creating(w)) <= Cardinality(Requests)
        BY DEF BootInv, InstancesBounded
      <3> QED
        BY <1>3, <2>0, <2>3, <3>2, <3>3, <3>4, CreatingFinite, EnoughInstances
    <2> QED
      BY <2>1, <2>2, <2>3 DEF Threads
  <1>7. ASSUME NEW w \in Workers, pc'[w] = "create" PROVE current'[w] = 0
    <2>1. w # t /\ pc[w] = "create" /\ w \in Threads
      BY <1>1, <1>7 DEF BootInv, SchedulerTypeOK, Threads
    <2>2. k # w
      BY <1>1, <1>2, <2>1, ThreadPlace DEF Threads
    <2> QED
      BY <1>2, <2>1, <2>2 DEF BootInv, InstancesBounded, SchedulerTypeOK
  <1>8. ASSUME NEW q \in Threads, pc'[q] = "return" PROVE current'[on'[q]] # 0
    <2>1. on[q] = k \/ (on[q] # k /\ pc[q] = "return")
      BY <1>1, <1>2, <1>8 DEF BootInv, SchedulerTypeOK
    <2> QED
      BY <1>1, <1>2, <1>3, <2>1, ThreadPlace DEF BootInv, InstancesBounded, SchedulerTypeOK
  <1> QED
    BY <1>4, <1>5, <1>6, <1>7, <1>8 DEF BootInv, InstancesBounded

LEMMA BootReturn ==
  ASSUME BootInv, NEW t \in Threads, ReturnScheduler(t)
  PROVE  BootInv'
  <1>1. pc[t] = "return" /\ pc' = [pc EXCEPT ![t] = "check"] /\ mine' = [mine EXCEPT ![t] = current[on[t]]]
    BY DEF ReturnScheduler, ThreadGoto
  <1>2. current[on[t]] \in {0} \cup Instances /\ current[on[t]] # 0
    BY <1>1, ThreadPlace DEF BootInv, SchedulerTypeOK, InstancesBounded
  <1>3. SchedulerTypeOK'
    BY <1>1, <1>2 DEF ReturnScheduler, BootInv, SchedulerTypeOK, PC, process, scheduler, history
  <1> QED
    BY <1>1, <1>3, BootGoOn DEF BootInv, ReturnScheduler, PC, process, scheduler

LEMMA BootCheck ==
  ASSUME BootInv, NEW t \in Threads, CheckRunning(t)
  PROVE  BootInv'
  <1>1. PICK label \in {"remove", "start"} : pc[t] = "check" /\ ThreadGoto(t, label)
    BY DEF CheckRunning
  <1>2. SchedulerTypeOK'
    BY <1>1 DEF CheckRunning, ThreadGoto, BootInv, SchedulerTypeOK, PC, process, scheduler, history
  <1> QED
    BY <1>1, <1>2, BootGoOn DEF BootInv, CheckRunning, PC, process, scheduler

LEMMA BootStart ==
  ASSUME BootInv, NEW t \in Threads, StartScheduler(t)
  PROVE  BootInv'
  <1>1. pc[t] = "start" /\ current' = current /\ job' = job /\ on[t] \in Workers /\ mine[t] \in Instances
    BY ThreadPlace DEF StartScheduler, BootInv, SchedulerTypeOK
  <1>2. CASE /\ running' = [running EXCEPT ![on[t]] = @ \cup {mine[t]}]
             /\ ThreadGoto(t, "remove") /\ UNCHANGED <<process, on, mine, seen>>
    <2>1. running' \in [Workers -> SUBSET Instances]
      BY <1>1, <1>2 DEF BootInv, SchedulerTypeOK
    <2>2. SchedulerTypeOK'
      BY <1>1, <1>2, <2>1 DEF StartScheduler, ThreadGoto, BootInv, SchedulerTypeOK, PC, process, history
    <2> QED
      BY <1>1, <1>2, <2>2, BootGoOn DEF BootInv, PC, process
  <1>3. CASE UNCHANGED running /\ End(t)
    BY <1>1, <1>3, BootEnd DEF StartScheduler, BootInv, SchedulerTypeOK, history
  <1> QED
    BY <1>2, <1>3 DEF StartScheduler

LEMMA SetJobType ==
  ASSUME BootInv, NEW t \in Threads, mine[t] # 0, pc[t] # "idle", NEW j \in Crons \cup {NoJob}, SetJob(t, j)
  PROVE  /\ job' \in [Workers -> [Instances -> Crons \cup {NoJob}]]
         /\ job' = [job EXCEPT ![on[t]] = [job[on[t]] EXCEPT ![mine[t]] = j]]
  <1>1. on[t] \in Workers /\ mine[t] \in Instances /\ job[on[t]] \in [Instances -> Crons \cup {NoJob}]
    BY ThreadPlace DEF BootInv, SchedulerTypeOK
  <1>2. job' = [job EXCEPT ![on[t]] = [job[on[t]] EXCEPT ![mine[t]] = j]]
    BY DEF SetJob
  <1> QED
    BY <1>1, <1>2 DEF BootInv, SchedulerTypeOK

LEMMA BootRemove ==
  ASSUME BootInv, NEW t \in Threads, RemoveJob(t)
  PROVE  BootInv'
  <1>1. pc[t] = "remove" /\ mine[t] # 0 /\ ThreadGoto(t, "read") /\ SetJob(t, NoJob)
    BY DEF RemoveJob, BootInv, SchedulerTypeOK
  <1>2. job' \in [Workers -> [Instances -> Crons \cup {NoJob}]]
    BY <1>1, SetJobType
  <1>3. SchedulerTypeOK'
    BY <1>1, <1>2 DEF RemoveJob, ThreadGoto, BootInv, SchedulerTypeOK, PC, process, history
  <1> QED
    BY <1>1, <1>3, BootGoOn DEF BootInv, RemoveJob, PC, process

LEMMA BootRead ==
  ASSUME BootInv, NEW t \in Threads, ReadSchedule(t)
  PROVE  BootInv'
  <1>1. pc[t] = "read" /\ mine[t] # 0 /\ current' = current /\ running' = running /\ job' = job
        /\ stored' = stored /\ saver' = saver /\ overlap' = overlap /\ strayed' = strayed
    BY DEF ReadSchedule, BootInv, SchedulerTypeOK, scheduler, history
  <1>2. CASE seen' = [seen EXCEPT ![t] = stored] /\ ThreadGoto(t, "add") /\ UNCHANGED <<process, on, mine, faults>>
    <2>1. SchedulerTypeOK'
      BY <1>1, <1>2 DEF ThreadGoto, BootInv, SchedulerTypeOK, PC, process
    <2> QED
      BY <1>1, <1>2, <2>1, BootGoOn DEF BootInv, PC, process
  <1>3. CASE Fault /\ End(t)
    <2>1. faults' \in 0..MaxFaults
      BY <1>3, SchedulerAssumption DEF Fault, BootInv, SchedulerTypeOK
    <2> QED
      BY <1>1, <1>3, <2>1, BootEnd DEF BootInv, SchedulerTypeOK
  <1> QED
    BY <1>2, <1>3 DEF ReadSchedule

LEMMA BootAdd ==
  ASSUME BootInv, NEW t \in Threads, AddJob(t)
  PROVE  BootInv'
  <1>1. pc[t] = "add" /\ mine[t] # 0 /\ End(t) /\ current' = current /\ running' = running
        /\ stored' = stored /\ saver' = saver /\ overlap' = overlap /\ strayed' = strayed /\ faults' = faults
    BY DEF AddJob, BootInv, SchedulerTypeOK, history
  <1>2. job' \in [Workers -> [Instances -> Crons \cup {NoJob}]]
    BY <1>1, SetJobType DEF AddJob, BootInv, SchedulerTypeOK
  <1> QED
    BY <1>1, <1>2, BootEnd DEF BootInv, SchedulerTypeOK

LEMMA BootStep == BootInv /\ [SchedulerNext]_schedulerVars => BootInv'
  <1> SUFFICES ASSUME BootInv, [SchedulerNext]_schedulerVars PROVE BootInv'
    OBVIOUS
  <1>1. ASSUME NEW w \in Workers, Fork(w) \/ AcquireLock(w) \/ Crash(w) PROVE BootInv'
    BY <1>1, BootFork, BootAcquire, BootCrash
  <1>2. ASSUME NEW r \in Requests, Save(r) PROVE BootInv'
    BY <1>2, BootSave
  <1>3. ASSUME NEW t \in Threads, Reschedule(t) PROVE BootInv'
    BY <1>3, BootGet, BootCreate, BootReturn, BootCheck, BootStart, BootRemove, BootRead, BootAdd
    DEF Reschedule
  <1>4. CASE UNCHANGED schedulerVars
    BY <1>4 DEF BootInv, SchedulerTypeOK, Placed, InstancesBounded, Creating,
                schedulerVars, process, scheduler, thread, history
  <1> QED
    BY <1>1, <1>2, <1>3, <1>4 DEF SchedulerNext, Boot, Threads

-----------------------------------------------------------------------------
LEMMA OthersStay ==
  ASSUME SchedulerTypeOK, NEW t \in Threads, End(t)
  PROVE  /\ pc'[t] = "idle"
         /\ \A q \in Threads \ {t} : /\ pc'[q] = pc[q] /\ on'[q] = on[q]
                                     /\ mine'[q] = mine[q] /\ seen'[q] = seen[q]
  BY DEF SchedulerTypeOK, End, ThreadGoto

LEMMA RunningStep ==
  ASSUME BootInv, RunningInstance, [SchedulerNext]_schedulerVars
  PROVE  RunningInstance'
  <1> DEFINE Sets(q) == pc'[q] \in {"remove", "read", "add"} => mine'[q] \in running'[on'[q]]
             Stays(q) == pc'[q] = pc[q] /\ on'[q] = on[q] /\ mine'[q] = mine[q]
  <1>1. \A q \in Threads : Stays(q) /\ running' = running => Sets(q)
    BY DEF RunningInstance
  <1>2. ASSUME NEW w \in Workers, Fork(w) PROVE RunningInstance'
    BY <1>2 DEF Fork, ThreadGoto, RunningInstance, BootInv, SchedulerTypeOK, scheduler
  <1>3. ASSUME NEW w \in Workers, AcquireLock(w) PROVE RunningInstance'
    <2>1. w \in Threads /\ running' = running
      BY <1>3 DEF AcquireLock, Threads, scheduler
    <2>2. CASE ThreadGoto(w, "get") /\ UNCHANGED <<on, mine>>
      BY <2>1, <2>2 DEF ThreadGoto, RunningInstance, BootInv, SchedulerTypeOK
    <2>3. CASE End(w)
      BY <2>1, <2>3, OthersStay DEF RunningInstance, BootInv
    <2> QED
      BY <1>3, <2>2, <2>3 DEF AcquireLock
  <1>4. ASSUME NEW w \in Workers, Crash(w) PROVE RunningInstance'
    <2> SUFFICES ASSUME NEW q \in Threads, pc'[q] \in {"remove", "read", "add"}
                 PROVE  mine'[q] \in running'[on'[q]]
      BY DEF RunningInstance
    <2>1. pc'[q] = pc[q] /\ q # w /\ ~(q \in Requests /\ on[q] = w) /\ mine'[q] = mine[q] /\ on'[q] = on[q]
      BY <1>4 DEF Crash
    <2>2. on[q] \in Workers /\ on[q] # w
      BY <2>1, ThreadPlace DEF Threads
    <2> QED
      BY <1>4, <2>1, <2>2 DEF Crash, RunningInstance, BootInv, SchedulerTypeOK
  <1>5. ASSUME NEW r \in Requests, Save(r) PROVE RunningInstance'
    <2>1. /\ r \in Threads /\ pc' = [pc EXCEPT ![r] = "get"] /\ mine' = mine /\ running' = running
          /\ \A q \in Threads \ {r} : on'[q] = on[q]
      BY <1>5 DEF Save, ThreadGoto, scheduler, Threads, BootInv, SchedulerTypeOK
    <2> QED
      BY <2>1 DEF RunningInstance, BootInv, SchedulerTypeOK
  <1>6. ASSUME NEW t \in Threads, GetScheduler(t) \/ CreateScheduler(t) PROVE RunningInstance'
    BY <1>6 DEF GetScheduler, CreateScheduler, ThreadGoto, RunningInstance, BootInv, SchedulerTypeOK, scheduler
  <1>7. ASSUME NEW t \in Threads, ReturnScheduler(t) PROVE RunningInstance'
    BY <1>7 DEF ReturnScheduler, ThreadGoto, RunningInstance, BootInv, SchedulerTypeOK, scheduler
  <1>8. ASSUME NEW t \in Threads, CheckRunning(t) PROVE RunningInstance'
    BY <1>8 DEF CheckRunning, ThreadGoto, RunningInstance, BootInv, SchedulerTypeOK, scheduler
  <1>9. ASSUME NEW t \in Threads, StartScheduler(t) PROVE RunningInstance'
    <2>1. CASE running' = [running EXCEPT ![on[t]] = @ \cup {mine[t]}]
               /\ ThreadGoto(t, "remove") /\ UNCHANGED <<on, mine>>
      <3>1. on[t] \in Workers
        BY <1>9, ThreadPlace DEF StartScheduler
      <3>2. \A v \in Workers : running[v] \subseteq running'[v]
        BY <2>1 DEF BootInv, SchedulerTypeOK
      <3>3. mine[t] \in running'[on[t]]
        BY <2>1, <3>1 DEF BootInv, SchedulerTypeOK
      <3>4. \A q \in Threads : pc'[q] \in {"remove", "read", "add"} => on[q] \in Workers
        BY <2>1, <3>1, ThreadPlace DEF ThreadGoto, BootInv, SchedulerTypeOK
      <3> QED
        BY <2>1, <3>2, <3>3, <3>4 DEF ThreadGoto, RunningInstance, BootInv, SchedulerTypeOK
    <2>2. CASE UNCHANGED running /\ End(t)
      BY <2>2, OthersStay DEF RunningInstance, BootInv
    <2> QED
      BY <1>9, <2>1, <2>2 DEF StartScheduler
  <1>10. ASSUME NEW t \in Threads, RemoveJob(t) PROVE RunningInstance'
    BY <1>10 DEF RemoveJob, ThreadGoto, RunningInstance, BootInv, SchedulerTypeOK
  <1>11. ASSUME NEW t \in Threads, ReadSchedule(t) PROVE RunningInstance'
    <2>1. CASE ThreadGoto(t, "add") /\ UNCHANGED <<on, mine>>
      BY <1>11, <2>1 DEF ReadSchedule, ThreadGoto, RunningInstance, BootInv, SchedulerTypeOK, scheduler
    <2>2. CASE End(t)
      BY <1>11, <2>2, OthersStay DEF ReadSchedule, RunningInstance, BootInv, scheduler
    <2> QED
      BY <1>11, <2>1, <2>2 DEF ReadSchedule
  <1>12. ASSUME NEW t \in Threads, AddJob(t) PROVE RunningInstance'
    BY <1>12, OthersStay DEF AddJob, RunningInstance, BootInv
  <1>13. CASE UNCHANGED schedulerVars
    BY <1>13 DEF RunningInstance, schedulerVars, scheduler, thread
  <1> QED
    BY <1>2, <1>3, <1>4, <1>5, <1>6, <1>7, <1>8, <1>9, <1>10, <1>11, <1>12, <1>13
    DEF SchedulerNext, Boot, Reschedule, Threads

(* A thread that had nothing to add takes a step.                          *)
LEMMA CoverKept ==
  ASSUME CoverInv, NEW t \in Threads, ~Pending(t), UNCHANGED <<stored, faults, running, job>>,
         \A q \in Threads \ {t} :
           pc'[q] = pc[q] /\ on'[q] = on[q] /\ mine'[q] = mine[q] /\ seen'[q] = seen[q]
  PROVE  CoverInv'
  <1> SUFFICES ASSUME faults = 0, stored \in Crons,
                      \A w \in Workers : JobsOf(w)' = {}
               PROVE  \E q \in Threads : Pending(q)'
    BY DEF CoverInv
  <1>1. \A w \in Workers : JobsOf(w) = {}
    BY DEF JobsOf
  <1>2. PICK q \in Threads : Pending(q)
    BY <1>1 DEF CoverInv
  <1>3. q # t
    BY <1>2
  <1> QED
    BY <1>2, <1>3 DEF Pending

LEMMA CoverStep ==
  ASSUME BootInv, RunningInstance, CoverInv, [SchedulerNext]_schedulerVars
  PROVE  CoverInv'
  <1>0. \A t \in Threads : Pending(t)' => CoverInv'
    BY DEF CoverInv
  <1>1. ASSUME NEW w \in Workers, Fork(w) PROVE CoverInv'
    <2>1. w \in Threads /\ ~Pending(w)
      BY <1>1 DEF Fork, Pending, Threads
    <2> QED
      BY <1>1, <2>1, CoverKept DEF Fork, ThreadGoto, BootInv, SchedulerTypeOK, scheduler
  <1>2. ASSUME NEW w \in Workers, AcquireLock(w) PROVE CoverInv'
    <2>1. w \in Threads /\ ~Pending(w) /\ UNCHANGED <<stored, faults, running, job>>
      BY <1>2 DEF AcquireLock, Pending, Threads, scheduler
    <2>2. CASE ThreadGoto(w, "get")
      BY <1>0, <2>1, <2>2 DEF ThreadGoto, Pending, BootInv, SchedulerTypeOK
    <2>3. CASE End(w)
      BY <2>1, <2>3, OthersStay, CoverKept DEF BootInv
    <2> QED
      BY <1>2, <2>2, <2>3 DEF AcquireLock
  <1>3. ASSUME NEW w \in Workers, Crash(w) PROVE CoverInv'
    BY <1>3 DEF Crash, Fault, CoverInv, BootInv, SchedulerTypeOK
  <1>4. ASSUME NEW r \in Requests, Save(r) PROVE CoverInv'
    BY <1>0, <1>4 DEF Save, ThreadGoto, Pending, Threads, BootInv, SchedulerTypeOK
  <1>5. ASSUME NEW t \in Threads, GetScheduler(t) \/ CreateScheduler(t) \/ ReturnScheduler(t)
        PROVE  CoverInv'
    BY <1>0, <1>5 DEF GetScheduler, CreateScheduler, ReturnScheduler, ThreadGoto, Pending,
                      BootInv, SchedulerTypeOK
  <1>6. ASSUME NEW t \in Threads, CheckRunning(t) PROVE CoverInv'
    BY <1>0, <1>6 DEF CheckRunning, ThreadGoto, Pending, BootInv, SchedulerTypeOK, scheduler
  <1>7. ASSUME NEW t \in Threads, StartScheduler(t) PROVE CoverInv'
    <2>1. CASE ThreadGoto(t, "remove")
      BY <1>0, <2>1 DEF ThreadGoto, Pending, BootInv, SchedulerTypeOK
    <2>2. CASE mine[t] \in running[on[t]] /\ UNCHANGED running /\ End(t)
      <3>1. ~Pending(t)
        BY <1>7, <2>2 DEF StartScheduler, Pending
      <3> QED
        BY <1>7, <2>2, <3>1, OthersStay, CoverKept DEF StartScheduler, BootInv
    <2> QED
      BY <1>7, <2>1, <2>2 DEF StartScheduler
  <1>8. ASSUME NEW t \in Threads, RemoveJob(t) PROVE CoverInv'
    BY <1>0, <1>8 DEF RemoveJob, ThreadGoto, Pending, BootInv, SchedulerTypeOK
  <1>9. ASSUME NEW t \in Threads, ReadSchedule(t) PROVE CoverInv'
    <2>1. CASE seen' = [seen EXCEPT ![t] = stored] /\ ThreadGoto(t, "add")
      <3>1. stored' \in Crons => Pending(t)'
        BY <1>9, <2>1 DEF ReadSchedule, ThreadGoto, Pending, BootInv, SchedulerTypeOK
      <3> QED
        BY <1>0, <3>1 DEF CoverInv
    <2>2. CASE Fault
      BY <2>2 DEF Fault, CoverInv, BootInv, SchedulerTypeOK
    <2> QED
      BY <1>9, <2>1, <2>2 DEF ReadSchedule
  <1>10. ASSUME NEW t \in Threads, AddJob(t) PROVE CoverInv'
    <2>1. CASE seen[t] \in Crons
      <3>1. /\ on[t] \in Workers /\ mine[t] \in Instances /\ mine[t] \in running[on[t]]
            /\ pc[t] # "idle" /\ mine[t] # 0
        BY <1>10, ThreadPlace DEF AddJob, RunningInstance, BootInv, SchedulerTypeOK
      <3>2. job' = [job EXCEPT ![on[t]] = [job[on[t]] EXCEPT ![mine[t]] = seen[t]]]
        BY <1>10, <2>1, <3>1, SetJobType DEF AddJob
      <3>3. job'[on[t]][mine[t]] = seen[t] /\ running' = running
        BY <1>10, <3>1, <3>2 DEF AddJob, BootInv, SchedulerTypeOK
      <3>4. PICK v \in Workers : v = on[t]
        BY <3>1
      <3>5. seen[t] \in JobsOf(v)'
        BY <2>1, <3>1, <3>3, <3>4, SchedulerAssumption DEF JobsOf
      <3> QED
        BY <3>5 DEF CoverInv
    <2>2. CASE seen[t] \notin Crons
      <3>1. ~Pending(t)
        BY <1>10, <2>2 DEF AddJob, Pending
      <3> QED
        BY <1>10, <2>2, <3>1, OthersStay, CoverKept DEF AddJob, BootInv
    <2> QED
      BY <2>1, <2>2
  <1>11. CASE UNCHANGED schedulerVars
    BY <1>11 DEF CoverInv, Pending, JobsOf, schedulerVars, scheduler, thread
  <1> QED
    BY <1>1, <1>2, <1>3, <1>4, <1>5, <1>6, <1>7, <1>8, <1>9, <1>10, <1>11
    DEF SchedulerNext, Boot, Reschedule, Threads

-----------------------------------------------------------------------------
LEMMA OneThread ==
  ASSUME BootInv, AtMostOne, NEW t \in Threads, NEW q \in Threads,
         pc[t] # "idle", pc[q] # "idle", on[t] = on[q]
  PROVE  t = q
  BY SchedulerAssumption DEF BootInv, Placed, AtMostOne, Apart, SchedulerTypeOK, Threads

LEMMA SameJobs ==
  ASSUME NEW w \in Workers, running'[w] = running[w], job'[w] = job[w]
  PROVE  JobsOf(w)' = JobsOf(w)
  BY DEF JobsOf

(* A thread ends; in its worker at most the job is new.                    *)
LEMMA AloneEnd ==
  ASSUME BootInv, AtMostOne, NEW t \in Threads, pc[t] # "idle", End(t),
         UNCHANGED <<stored, current, running, history>>,
         \A w \in Workers \ {on[t]} : job'[w] = job[w],
         t \in Requests /\ on[t] = saver /\ saver # NoWorker => JobsOf(saver)' = {stored} \cap Crons
  PROVE  AtMostOne'
  <1> USE DEF AtMostOne
  <1>0. /\ pc'[t] = "idle"
        /\ \A q \in Threads \ {t} : pc'[q] = pc[q] /\ on'[q] = on[q] /\ mine'[q] = mine[q] /\ seen'[q] = seen[q]
    BY OthersStay DEF BootInv
  <1>1. t \in Requests => on'[t] = NoWorker
    BY SchedulerAssumption DEF End, BootInv, SchedulerTypeOK
  <1>2. Apart'
    BY <1>0, <1>1 DEF Apart, Threads
  <1>3. OneInstance'
    <2>1. mine'[t] = 0
      BY DEF End, BootInv, SchedulerTypeOK
    <2> QED
      BY <1>0, <2>1 DEF OneInstance
  <1>4. Fresh'
    BY <1>0 DEF Fresh
  <1>5. ServedLast'
    <2>1. up \subseteq up' /\ saver' = saver /\ stored' = stored
      BY DEF End, history
    <2>2. ASSUME saver # NoWorker, on[t] # saver PROVE JobsOf(saver)' = JobsOf(saver)
      BY <2>1, <2>2 DEF JobsOf, BootInv, SchedulerTypeOK
    <2>7. ASSUME saver # NoWorker, on[t] = saver
          PROVE  /\ \A r \in Requests : on'[r] # saver
                 /\ JobsOf(saver)' = {stored} \cap Crons
      <3>1. t \in Requests
        BY <2>7, ThreadPlace DEF ServedLast, Threads
      <3>2. \A r \in Requests \ {t} : on[r] # saver
        BY <2>7, <3>1 DEF Apart
      <3> QED
        BY <1>0, <1>1, <2>7, <3>1, <3>2 DEF Threads
    <2>3. \A r \in Requests : r # t => pc'[r] = pc[r] /\ on'[r] = on[r] /\ seen'[r] = seen[r]
      BY <1>0 DEF Threads
    <2>4. ASSUME saver' # NoWorker PROVE saver' \in up'
      BY <2>1, <2>4 DEF ServedLast
    <2>5. ASSUME NEW r \in Requests, on'[r] = saver', saver' # NoWorker
          PROVE  /\ pc'[r] = "read" => JobsOf(saver)' = {}
                 /\ pc'[r] = "add" => JobsOf(saver)' = {} /\ seen'[r] = stored'
      BY <1>1, <2>1, <2>2, <2>3, <2>5, <2>7 DEF ServedLast
    <2>6. ASSUME saver' # NoWorker, \A r \in Requests : on'[r] # saver'
          PROVE  JobsOf(saver)' = {stored'} \cap Crons
      BY <1>1, <2>1, <2>2, <2>3, <2>6, <2>7 DEF ServedLast
    <2> QED
      BY <2>4, <2>5, <2>6 DEF ServedLast
  <1> QED
    BY <1>2, <1>3, <1>4, <1>5

(* A thread goes on where it is, and what it does not own is as it was.    *)
LEMMA AloneServed ==
  ASSUME BootInv, AtMostOne, NEW t \in Threads, pc[t] # "idle",
         UNCHANGED <<stored, up, on, history>>,
         \A w \in Workers \ {on[t]} : running'[w] = running[w] /\ job'[w] = job[w],
         \A q \in Threads \ {t} : pc'[q] = pc[q] /\ seen'[q] = seen[q],
         pc'[t] = "read" /\ t \in Requests => JobsOf(on[t])' = {},
         pc'[t] = "add" /\ t \in Requests => JobsOf(on[t])' = {} /\ seen'[t] = stored
  PROVE  ServedLast'
  <1> USE DEF AtMostOne
  <1>1. CASE saver = NoWorker
    BY <1>1, SchedulerAssumption DEF ServedLast, history
  <1>2. CASE saver # NoWorker
    <2>1. saver \in up /\ saver \in Workers /\ saver' = saver
      BY <1>2 DEF ServedLast, BootInv, SchedulerTypeOK, history
    <2>2. ASSUME saver # on[t] PROVE ServedLast'
      <3>1. JobsOf(saver)' = JobsOf(saver)
        BY <2>1, <2>2, SameJobs DEF JobsOf
      <3>2. \A r \in Requests : on[r] = saver => pc'[r] = pc[r] /\ seen'[r] = seen[r]
        BY <2>2 DEF Threads
      <3> QED
        BY <2>1, <3>1, <3>2 DEF ServedLast
    <2>3. ASSUME saver = on[t] PROVE ServedLast'
      <3>1. t \in Requests
        BY <2>1, <2>3, ThreadPlace DEF Threads
      <3>2. \A r \in Requests : on[r] = saver => r = t
        BY <1>2, <2>3, <3>1 DEF Apart
      <3>3. pc'[t] = "read" => JobsOf(saver)' = {}
        BY <2>1, <2>3, <3>1 DEF JobsOf
      <3>4. pc'[t] = "add" => JobsOf(saver)' = {} /\ seen'[t] = stored
        BY <2>1, <2>3, <3>1 DEF JobsOf
      <3> QED
        BY <2>1, <2>3, <3>1, <3>2, <3>3, <3>4 DEF ServedLast
    <2> QED
      BY <2>2, <2>3
  <1> QED
    BY <1>1, <1>2

LEMMA AloneStep ==
  ASSUME BootInv, RunningInstance, AloneInv, [SchedulerNext]_schedulerVars
  PROVE  AloneInv'
  <1> SUFFICES ASSUME Alone' PROVE AtMostOne'
    BY DEF AloneInv
  <1>0. AtMostOne
    <2>1. faults \in Nat /\ overlap \in BOOLEAN
      BY SchedulerAssumption DEF BootInv, SchedulerTypeOK
    <2>2. faults = 0
      BY <2>1 DEF Alone, SchedulerNext, Boot, Reschedule, schedulerVars, history, Fault, Fork, AcquireLock,
                  Crash, Save, GetScheduler, CreateScheduler, ReturnScheduler, CheckRunning,
                  StartScheduler, RemoveJob, ReadSchedule, AddJob
    <2>3. CASE overlap' = overlap
      BY <2>2, <2>3 DEF Alone, AloneInv
    <2>4. CASE \E r \in Requests : Save(r)
      BY <2>1, <2>2, <2>4 DEF Alone, AloneInv, Save
    <2> QED
      BY <2>3, <2>4 DEF SchedulerNext, Boot, Reschedule, schedulerVars, history, Fork, AcquireLock,
                  Crash, GetScheduler, CreateScheduler, ReturnScheduler, CheckRunning,
                  StartScheduler, RemoveJob, ReadSchedule, AddJob
  <1>1. ASSUME NEW w \in Workers, Fork(w) PROVE AtMostOne'
    <2>0. w \in Threads /\ pc[w] # "idle" /\ pc' = [pc EXCEPT ![w] = "lock"]
      BY <1>1 DEF Fork, ThreadGoto, Threads
    <2>1. Apart' /\ OneInstance' /\ Fresh'
      BY <1>0, <1>1, <2>0 DEF AtMostOne, Apart, OneInstance, Fresh, Fork, scheduler, BootInv, SchedulerTypeOK
    <2>2. ServedLast'
      BY <1>0, <1>1, <2>0, AloneServed DEF Fork, process, scheduler, BootInv, SchedulerTypeOK
    <2> QED
      BY <2>1, <2>2 DEF AtMostOne
  <1>2. ASSUME NEW w \in Workers, AcquireLock(w) PROVE AtMostOne'
    <2>0. w \in Threads /\ pc[w] # "idle" /\ w \notin Requests
      BY <1>2, SchedulerAssumption DEF AcquireLock, Threads
    <2>1. CASE ThreadGoto(w, "get") /\ UNCHANGED <<up, on, mine, seen>>
      <3>0. pc' = [pc EXCEPT ![w] = "get"] /\ UNCHANGED <<stored, scheduler, history>>
        BY <1>2, <2>1 DEF ThreadGoto, AcquireLock
      <3>1. Apart' /\ OneInstance' /\ Fresh'
        BY <1>0, <2>0, <2>1, <3>0 DEF AtMostOne, Apart, OneInstance, Fresh, scheduler, BootInv, SchedulerTypeOK
      <3>2. ServedLast'
        BY <1>0, <2>0, <2>1, <3>0, AloneServed DEF scheduler, BootInv, SchedulerTypeOK
      <3> QED
        BY <3>1, <3>2 DEF AtMostOne
    <2>2. CASE End(w)
      BY <1>0, <1>2, <2>0, <2>2, AloneEnd DEF AcquireLock, scheduler
    <2> QED
      BY <1>2, <2>1, <2>2 DEF AcquireLock
  <1>3. ASSUME NEW w \in Workers, Crash(w) PROVE AtMostOne'
    BY <1>3, SchedulerAssumption DEF Crash, Fault, Alone, BootInv, SchedulerTypeOK
  <1>4. ASSUME NEW r \in Requests, Save(r) PROVE AtMostOne'
    <2>1. PICK w \in up : /\ on' = [on EXCEPT ![r] = w] /\ saver' = w
                          /\ overlap' = (overlap \/ \E q \in Requests : on[q] = w)
      BY <1>4 DEF Save
    <2>2. \A q \in Requests : on[q] # w
      BY <2>1 DEF Alone
    <2>3. /\ r \in Threads /\ pc' = [pc EXCEPT ![r] = "get"]
          /\ UNCHANGED <<up, scheduler, mine, seen>> /\ w \in Workers
      BY <1>4 DEF Save, ThreadGoto, process, Threads, BootInv, SchedulerTypeOK
    <2>4. \A q \in Threads \ {r} : on'[q] = on[q] /\ pc'[q] = pc[q]
      BY <2>1, <2>3 DEF BootInv, SchedulerTypeOK
    <2>5. on'[r] = w /\ pc'[r] = "get"
      BY <2>1, <2>3 DEF BootInv, SchedulerTypeOK
    <2>6. Apart'
      BY <1>0, <2>2, <2>4, <2>5 DEF AtMostOne, Apart, Threads
    <2>7. OneInstance' /\ Fresh'
      BY <1>0, <2>3, <2>4, <2>5 DEF AtMostOne, OneInstance, Fresh, scheduler
    <2>8. ServedLast'
      <3>1. \A q \in Requests : on'[q] = saver' => q = r
        BY <2>1, <2>2, <2>4 DEF Threads
      <3> QED
        BY <2>1, <2>3, <2>5, <3>1 DEF ServedLast
    <2> QED
      BY <2>6, <2>7, <2>8 DEF AtMostOne
  <1>5. ASSUME NEW t \in Threads, NEW label,
               label \in {"create", "return", "check", "start", "remove"},
               pc[t] # "idle", ThreadGoto(t, label), UNCHANGED <<stored, up, on, seen, history, job>>,
               \A w \in Workers \ {on[t]} : running'[w] = running[w]
        PROVE  Apart' /\ ServedLast'
    <2>0. pc' = [pc EXCEPT ![t] = label]
      BY <1>5 DEF ThreadGoto
    <2>1. Apart'
      BY <1>0, <1>5 DEF AtMostOne, Apart
    <2>2. \A q \in Threads \ {t} : pc'[q] = pc[q]
      BY <2>0 DEF BootInv, SchedulerTypeOK
    <2>3. pc'[t] \notin {"read", "add"}
      BY <1>5, <2>0 DEF BootInv, SchedulerTypeOK
    <2>4. ServedLast'
      BY <1>0, <1>5, <2>2, <2>3, AloneServed
    <2> QED
      BY <2>1, <2>4
  <1>6. ASSUME NEW t \in Threads, GetScheduler(t) PROVE AtMostOne'
    <2>1. PICK label \in {"create", "return"} :
            /\ ThreadGoto(t, label) /\ pc' = [pc EXCEPT ![t] = label]
            /\ label = "create" <=> current[on[t]] = 0
      BY <1>6 DEF GetScheduler, ThreadGoto
    <2>2. Apart' /\ ServedLast'
      BY <1>5, <1>6, <2>1 DEF GetScheduler, process, scheduler
    <2>3. OneInstance' /\ Fresh'
      BY <1>0, <1>6, <2>1 DEF GetScheduler, AtMostOne, OneInstance, Fresh, scheduler, BootInv, SchedulerTypeOK
    <2> QED
      BY <2>2, <2>3 DEF AtMostOne
  <1>7. ASSUME NEW t \in Threads, CreateScheduler(t) PROVE AtMostOne'
    <2>1. /\ pc[t] = "create" /\ on[t] \in Workers /\ current[on[t]] = 0
          /\ ThreadGoto(t, "return") /\ pc' = [pc EXCEPT ![t] = "return"]
          /\ current' = [current EXCEPT ![on[t]] = current[on[t]] + 1]
      BY <1>0, <1>7, ThreadPlace DEF CreateScheduler, ThreadGoto, AtMostOne, Fresh
    <2>2. Apart' /\ ServedLast'
      BY <1>5, <1>7, <2>1 DEF CreateScheduler, process
    <2>3. \A w \in Workers : current'[w] = IF w = on[t] THEN 1 ELSE current[w]
      BY <2>1 DEF BootInv, SchedulerTypeOK
    <2>4. OneInstance'
      BY <1>0, <1>7, <2>3 DEF CreateScheduler, AtMostOne, OneInstance
    <2>5. ASSUME NEW q \in Threads, pc'[q] = "create" PROVE current'[on[q]] = 0
      <3>1. q # t /\ pc[q] = "create"
        BY <2>1, <2>5 DEF BootInv, SchedulerTypeOK
      <3>2. on[q] # on[t] /\ on[q] \in Workers
        BY <1>0, <2>1, <3>1, OneThread, ThreadPlace
      <3> QED
        BY <1>0, <2>3, <3>1, <3>2 DEF AtMostOne, Fresh
    <2>6. \A q \in Threads : pc'[q] = "start" => pc[q] = "start"
      BY <2>1 DEF BootInv, SchedulerTypeOK
    <2>7. Fresh'
      BY <1>0, <1>7, <2>5, <2>6 DEF CreateScheduler, AtMostOne, Fresh
    <2> QED
      BY <2>2, <2>4, <2>7 DEF AtMostOne
  <1>8. ASSUME NEW t \in Threads, ReturnScheduler(t) PROVE AtMostOne'
    <2>1. /\ pc[t] = "return" /\ on[t] \in Workers /\ current[on[t]] \in {0, 1}
          /\ ThreadGoto(t, "check") /\ pc' = [pc EXCEPT ![t] = "check"]
          /\ mine' = [mine EXCEPT ![t] = current[on[t]]]
      BY <1>0, <1>8, ThreadPlace DEF ReturnScheduler, ThreadGoto, AtMostOne, OneInstance
    <2>2. Apart' /\ ServedLast'
      BY <1>5, <1>8, <2>1 DEF ReturnScheduler, process, scheduler
    <2>3. OneInstance' /\ Fresh'
      BY <1>0, <1>8, <2>1 DEF ReturnScheduler, AtMostOne, OneInstance, Fresh, scheduler, BootInv, SchedulerTypeOK
    <2> QED
      BY <2>2, <2>3 DEF AtMostOne
  <1>9. ASSUME NEW t \in Threads, CheckRunning(t) PROVE AtMostOne'
    <2>1. PICK label \in {"remove", "start"} :
            /\ pc[t] = "check" /\ ThreadGoto(t, label) /\ pc' = [pc EXCEPT ![t] = label]
            /\ label = "remove" <=> mine[t] \in running[on[t]]
      BY <1>9 DEF CheckRunning, ThreadGoto
    <2>2. Apart' /\ ServedLast'
      BY <1>5, <1>9, <2>1 DEF CheckRunning, process, scheduler
    <2>3. OneInstance' /\ Fresh'
      BY <1>0, <1>9, <2>1 DEF CheckRunning, AtMostOne, OneInstance, Fresh, scheduler, BootInv, SchedulerTypeOK
    <2> QED
      BY <2>2, <2>3 DEF AtMostOne
  <1>10. ASSUME NEW t \in Threads, StartScheduler(t) PROVE AtMostOne'
    <2>1. /\ pc[t] = "start" /\ on[t] \in Workers /\ mine[t] \notin running[on[t]] /\ mine[t] = 1
          /\ ThreadGoto(t, "remove") /\ pc' = [pc EXCEPT ![t] = "remove"]
          /\ running' = [running EXCEPT ![on[t]] = running[on[t]] \cup {mine[t]}]
          /\ UNCHANGED <<process, on, mine, seen, stored, current, job, history>>
      BY <1>0, <1>10, ThreadPlace
      DEF StartScheduler, ThreadGoto, AtMostOne, Fresh, OneInstance, BootInv, SchedulerTypeOK
    <2>2. \A w \in Workers : running'[w] = IF w = on[t] THEN running[w] \cup {1} ELSE running[w]
      BY <2>1 DEF BootInv, SchedulerTypeOK
    <2>3. Apart' /\ ServedLast'
      BY <1>5, <2>1, <2>2 DEF process
    <2>4. OneInstance'
      BY <1>0, <2>1, <2>2 DEF AtMostOne, OneInstance
    <2>5. ASSUME NEW q \in Threads, pc'[q] = "start" PROVE mine[q] \notin running'[on[q]]
      <3>1. q # t /\ pc[q] = "start"
        BY <2>1, <2>5 DEF BootInv, SchedulerTypeOK
      <3>2. on[q] # on[t] /\ on[q] \in Workers
        BY <1>0, <2>1, <3>1, OneThread, ThreadPlace
      <3> QED
        BY <1>0, <2>2, <3>1, <3>2 DEF AtMostOne, Fresh
    <2>6. \A q \in Threads : pc'[q] = "create" => pc[q] = "create"
      BY <2>1 DEF BootInv, SchedulerTypeOK
    <2>7. Fresh'
      BY <1>0, <2>1, <2>5, <2>6 DEF AtMostOne, Fresh
    <2> QED
      BY <2>3, <2>4, <2>7 DEF AtMostOne
  <1>11. ASSUME NEW t \in Threads, RemoveJob(t) PROVE AtMostOne'
    <2>1. /\ pc[t] = "remove" /\ on[t] \in Workers /\ mine[t] = 1 /\ mine[t] # 0
          /\ pc' = [pc EXCEPT ![t] = "read"]
          /\ UNCHANGED <<stored, process, current, running, on, mine, seen, history>>
      BY <1>0, <1>11, ThreadPlace DEF RemoveJob, ThreadGoto, AtMostOne, OneInstance, BootInv, SchedulerTypeOK
    <2>2. job' = [job EXCEPT ![on[t]] = [job[on[t]] EXCEPT ![mine[t]] = NoJob]]
      BY <1>11, <2>1, SetJobType DEF RemoveJob
    <2>3. /\ \A w \in Workers \ {on[t]} : job'[w] = job[w]
          /\ job'[on[t]][1] = NoJob
      <3>1. job[on[t]] \in [Instances -> Crons \cup {NoJob}] /\ 1 \in Instances
        BY <2>1, EnoughInstances DEF BootInv, SchedulerTypeOK, Instances
      <3> QED
        BY <2>1, <2>2, <3>1 DEF BootInv, SchedulerTypeOK
    <2>4. JobsOf(on[t])' = {}
      <3>1. running'[on[t]] \subseteq {1}
        BY <1>0, <2>1 DEF AtMostOne, OneInstance
      <3> QED
        BY <2>1, <2>3, <3>1 DEF JobsOf
    <2>5. Apart' /\ OneInstance' /\ Fresh'
      BY <1>0, <2>1 DEF AtMostOne, Apart, OneInstance, Fresh, BootInv, SchedulerTypeOK
    <2>6. \A q \in Threads \ {t} : pc'[q] = pc[q]
      BY <2>1 DEF BootInv, SchedulerTypeOK
    <2>7. pc'[t] = "read"
      BY <2>1 DEF BootInv, SchedulerTypeOK
    <2>8. ServedLast'
      BY <1>0, <2>1, <2>3, <2>4, <2>6, <2>7, AloneServed DEF process
    <2> QED
      BY <2>5, <2>8 DEF AtMostOne
  <1>12. ASSUME NEW t \in Threads, ReadSchedule(t) PROVE AtMostOne'
    <2>1. /\ pc[t] = "read" /\ seen' = [seen EXCEPT ![t] = stored]
          /\ pc' = [pc EXCEPT ![t] = "add"]
          /\ UNCHANGED <<process, on, mine, stored, scheduler, history>>
      BY <1>12, SchedulerAssumption DEF ReadSchedule, ThreadGoto, Fault, Alone, BootInv, SchedulerTypeOK
    <2>2. \A q \in Threads \ {t} : pc'[q] = pc[q] /\ seen'[q] = seen[q]
      BY <2>1 DEF BootInv, SchedulerTypeOK
    <2>3. pc'[t] = "add" /\ seen'[t] = stored
      BY <2>1 DEF BootInv, SchedulerTypeOK
    <2>4. t \in Requests => JobsOf(on[t]) = {} \/ on[t] # saver \/ saver = NoWorker
      BY <1>0, <2>1 DEF AtMostOne, ServedLast
    <2>5. Apart' /\ OneInstance' /\ Fresh'
      BY <1>0, <2>1 DEF AtMostOne, Apart, OneInstance, Fresh, scheduler, BootInv, SchedulerTypeOK
    <2>6. saver # NoWorker => JobsOf(saver)' = JobsOf(saver)
      BY <2>1 DEF JobsOf, scheduler, history
    <2>7. ServedLast'
      <3>1. UNCHANGED <<up, on, saver, stored>>
        BY <2>1 DEF process, history
      <3>2. ASSUME NEW r \in Requests, on[r] = saver, saver # NoWorker
            PROVE  /\ pc'[r] = "read" => JobsOf(saver)' = {}
                   /\ pc'[r] = "add" => JobsOf(saver)' = {} /\ seen'[r] = stored
        BY <1>0, <2>2, <2>3, <2>4, <2>6, <3>2 DEF AtMostOne, ServedLast, Threads
      <3> QED
        BY <1>0, <2>6, <3>1, <3>2 DEF AtMostOne, ServedLast
    <2> QED
      BY <2>5, <2>7 DEF AtMostOne
  <1>13. ASSUME NEW t \in Threads, AddJob(t) PROVE AtMostOne'
    <2>1. /\ pc[t] = "add" /\ on[t] \in Workers /\ mine[t] = 1 /\ mine[t] # 0
          /\ mine[t] \in running[on[t]] /\ End(t)
          /\ UNCHANGED <<stored, current, running, history>>
      BY <1>0, <1>13, ThreadPlace
      DEF AddJob, RunningInstance, AtMostOne, OneInstance, BootInv, SchedulerTypeOK
    <2>2. PICK v \in Workers : v = on[t]
      BY <2>1
    <2>3. CASE seen[t] \notin Crons
      <3>1. UNCHANGED job
        BY <1>13, <2>3 DEF AddJob
      <3>2. v = saver => JobsOf(v)' = JobsOf(v)
        BY <2>1, <3>1 DEF JobsOf
      <3>3. t \in Requests /\ v = saver => JobsOf(v) = {} /\ seen[t] = stored
        BY <1>0, <2>1, <2>2, SchedulerAssumption DEF AtMostOne, ServedLast
      <3>4. t \in Requests /\ on[t] = saver /\ saver # NoWorker => JobsOf(saver)' = {stored} \cap Crons
        BY <2>1, <2>2, <2>3, <3>2, <3>3 DEF JobsOf, history
      <3> QED
        BY <1>0, <2>1, <3>1, <3>4, AloneEnd
    <2>4. CASE seen[t] \in Crons
      <3>1. job' = [job EXCEPT ![on[t]] = [job[on[t]] EXCEPT ![mine[t]] = seen[t]]]
        BY <1>13, <2>1, <2>4, SetJobType DEF AddJob
      <3>2. /\ \A w \in Workers \ {on[t]} : job'[w] = job[w]
            /\ job'[v][1] = seen[t]
        <4>1. job[on[t]] \in [Instances -> Crons \cup {NoJob}] /\ 1 \in Instances
          BY <2>1, EnoughInstances DEF BootInv, SchedulerTypeOK, Instances
        <4> QED
          BY <2>1, <2>2, <3>1, <4>1 DEF BootInv, SchedulerTypeOK
      <3>3. running'[v] = {1} /\ seen[t] # NoJob
        BY <1>0, <2>1, <2>2, <2>4, SchedulerAssumption DEF AtMostOne, OneInstance
      <3>4. JobsOf(v)' = {seen[t]}
        BY <3>2, <3>3 DEF JobsOf
      <3>5. t \in Requests /\ v = saver => seen[t] = stored
        BY <1>0, <2>1, <2>2, SchedulerAssumption DEF AtMostOne, ServedLast
      <3>6. v = saver => JobsOf(saver)' = JobsOf(v)'
        BY <2>1 DEF JobsOf, history
      <3>7. t \in Requests /\ on[t] = saver /\ saver # NoWorker => JobsOf(saver)' = {stored} \cap Crons
        BY <2>2, <2>4, <3>4, <3>5, <3>6
      <3> QED
        BY <1>0, <2>1, <3>2, <3>7, AloneEnd
    <2> QED
      BY <2>3, <2>4
  <1>14. CASE UNCHANGED schedulerVars
    BY <1>0, <1>14 DEF AtMostOne, Apart, OneInstance, Fresh, ServedLast, JobsOf, schedulerVars, process,
                       scheduler, thread, history
  <1> QED
    BY <1>1, <1>2, <1>3, <1>4, <1>6, <1>7, <1>8, <1>9, <1>10, <1>11, <1>12, <1>13, <1>14
    DEF SchedulerNext, Boot, Reschedule, Threads

-----------------------------------------------------------------------------
(* A thread that ends, or goes on, in its worker.                          *)
LEMMA HolderKept ==
  ASSUME BootInv, HolderInv, NEW t \in Threads, pc[t] \notin {"idle", "fork", "lock"},
         UNCHANGED <<lock, strayed>>,
         \/ End(t)
         \/ UNCHANGED on /\ \A q \in Threads \ {t} : pc'[q] = pc[q],
         \A w \in Workers \ {on[t]} : JobsOf(w)' = JobsOf(w)
  PROVE  HolderInv'
  <1> SUFFICES ASSUME ~strayed PROVE InHolder' /\ \A w \in Workers : JobsOf(w)' # {} => w = lock
    BY DEF HolderInv
  <1>1. on[t] = lock
    BY DEF HolderInv, InHolder
  <1>2. InHolder'
    <2>1. CASE End(t)
      BY <2>1, OthersStay DEF HolderInv, InHolder, BootInv
    <2>2. CASE UNCHANGED on /\ \A q \in Threads \ {t} : pc'[q] = pc[q]
      BY <1>1, <2>2 DEF HolderInv, InHolder
    <2> QED
      BY <2>1, <2>2
  <1> QED
    BY <1>1, <1>2 DEF HolderInv

LEMMA HolderReschedules ==
  ASSUME BootInv, HolderInv, NEW t \in Threads, Reschedule(t)
  PROVE  HolderInv'
  <1>1. pc[t] \notin {"idle", "fork", "lock"} /\ UNCHANGED <<lock, strayed>>
    BY DEF Reschedule, GetScheduler, CreateScheduler, ReturnScheduler, CheckRunning, StartScheduler,
           RemoveJob, ReadSchedule, AddJob, End, process, history
  <1>2. End(t) \/ (UNCHANGED on /\ \E l \in PC : ThreadGoto(t, l))
    BY DEF Reschedule, GetScheduler, CreateScheduler, ReturnScheduler, CheckRunning, StartScheduler,
           RemoveJob, ReadSchedule, AddJob, PC
  <1>3. End(t) \/ (UNCHANGED on /\ \A q \in Threads \ {t} : pc'[q] = pc[q])
    BY <1>2 DEF ThreadGoto, BootInv, SchedulerTypeOK
  <1>4. \A w \in Workers \ {on[t]} : JobsOf(w)' = JobsOf(w)
    <2>1. on[t] \in Workers
      BY <1>1, ThreadPlace
    <2>2. \A w \in Workers \ {on[t]} : running'[w] = running[w]
      BY <2>1 DEF Reschedule, GetScheduler, CreateScheduler, ReturnScheduler, CheckRunning,
             StartScheduler, RemoveJob, ReadSchedule, AddJob, scheduler, BootInv, SchedulerTypeOK
    <2>3. \A w \in Workers \ {on[t]} : job'[w] = job[w]
      BY <2>1 DEF Reschedule, GetScheduler, CreateScheduler, ReturnScheduler, CheckRunning,
             StartScheduler, RemoveJob, ReadSchedule, AddJob, SetJob, scheduler, BootInv, SchedulerTypeOK
    <2> QED
      BY <2>2, <2>3 DEF JobsOf
  <1> QED
    BY <1>1, <1>3, <1>4, HolderKept

LEMMA HolderStep ==
  ASSUME BootInv, HolderInv, [SchedulerNext]_schedulerVars
  PROVE  HolderInv'
  <1>1. ASSUME NEW w \in Workers, Fork(w) PROVE HolderInv'
    <2>1. /\ UNCHANGED <<lock, strayed, on, running, job>> /\ pc'[w] = "lock"
          /\ \A q \in Threads \ {w} : pc'[q] = pc[q]
      BY <1>1 DEF Fork, ThreadGoto, process, scheduler, history, Threads, BootInv, SchedulerTypeOK
    <2> QED
      BY <2>1 DEF HolderInv, InHolder, JobsOf
  <1>2. ASSUME NEW w \in Workers, AcquireLock(w) PROVE HolderInv'
    <2>1. w \in Threads /\ UNCHANGED <<strayed, running, job>> /\ pc[w] = "lock" /\ on[w] = w
      BY <1>2 DEF AcquireLock, Threads, scheduler, history, BootInv, Placed
    <2>2. CASE lock = NoWorker /\ lock' = w /\ ThreadGoto(w, "get") /\ UNCHANGED on
      <3> SUFFICES ASSUME ~strayed PROVE InHolder' /\ \A v \in Workers : JobsOf(v)' # {} => v = lock'
        BY <2>1 DEF HolderInv
      <3>1. ASSUME NEW q \in Threads, pc[q] \notin {"idle", "fork", "lock"} PROVE FALSE
        <4>1. on[q] = NoWorker
          BY <2>2, <3>1 DEF HolderInv, InHolder
        <4> QED
          BY <3>1, <4>1, ThreadPlace, SchedulerAssumption
      <3>2. \A v \in Workers : JobsOf(v)' = {}
        BY <2>1, <2>2, SchedulerAssumption DEF HolderInv, JobsOf
      <3>3. \A q \in Threads \ {w} : pc'[q] = pc[q]
        BY <2>2 DEF ThreadGoto, BootInv, SchedulerTypeOK
      <3> QED
        BY <2>1, <2>2, <3>1, <3>2, <3>3 DEF InHolder
    <2>3. CASE End(w)
      <3>1. /\ UNCHANGED lock /\ pc'[w] = "idle"
            /\ \A q \in Threads \ {w} : pc'[q] = pc[q] /\ on'[q] = on[q]
        BY <2>1, <2>3, OthersStay DEF End, BootInv
      <3> QED
        BY <2>1, <3>1 DEF HolderInv, InHolder, JobsOf
    <2> QED
      BY <1>2, <2>2, <2>3 DEF AcquireLock
  <1>3. ASSUME NEW w \in Workers, Crash(w) PROVE HolderInv'
    <2> SUFFICES ASSUME ~strayed PROVE InHolder' /\ \A v \in Workers : JobsOf(v)' # {} => v = lock'
      BY <1>3 DEF HolderInv, Crash, history
    <2>1. \A v \in Workers : JobsOf(v)' # {} => v # w /\ JobsOf(v) # {}
      BY <1>3 DEF Crash, JobsOf, BootInv, SchedulerTypeOK
    <2>2. ASSUME NEW q \in Threads, pc'[q] \notin {"idle", "fork", "lock"} PROVE on'[q] = lock'
      <3>1. pc'[q] = pc[q] /\ q # w /\ ~(q \in Requests /\ on[q] = w) /\ on'[q] = on[q]
        BY <1>3, <2>2 DEF Crash
      <3>2. on[q] # w
        BY <2>2, <3>1, ThreadPlace DEF Threads
      <3> QED
        BY <1>3, <2>2, <3>1, <3>2 DEF Crash, HolderInv, InHolder
    <2>3. \A v \in Workers : JobsOf(v) # {} => v = lock
      BY DEF HolderInv
    <2>4. lock # w => lock' = lock
      BY <1>3 DEF Crash
    <2> QED
      BY <2>1, <2>2, <2>3, <2>4 DEF InHolder
  <1>4. ASSUME NEW r \in Requests, Save(r) PROVE HolderInv'
    <2>1. PICK w \in up : on' = [on EXCEPT ![r] = w] /\ strayed' = (strayed \/ lock # w)
      BY <1>4 DEF Save
    <2>2. UNCHANGED <<lock, running, job>> /\ pc' = [pc EXCEPT ![r] = "get"]
      BY <1>4 DEF Save, ThreadGoto, process, scheduler
    <2> SUFFICES ASSUME ~strayed, lock = w
                 PROVE InHolder' /\ \A v \in Workers : JobsOf(v)' # {} => v = lock'
      BY <2>1 DEF HolderInv
    <2>3. InHolder'
      BY <2>1, <2>2 DEF HolderInv, InHolder, BootInv, SchedulerTypeOK
    <2>4. \A v \in Workers : JobsOf(v)' = JobsOf(v)
      BY <2>2 DEF JobsOf
    <2> QED
      BY <2>2, <2>3, <2>4 DEF HolderInv
  <1>5. ASSUME NEW t \in Threads, Reschedule(t) PROVE HolderInv'
    BY <1>5, HolderReschedules
  <1>6. CASE UNCHANGED schedulerVars
    BY <1>6 DEF HolderInv, InHolder, JobsOf, schedulerVars, process, scheduler, thread, history
  <1> QED
    BY <1>1, <1>2, <1>3, <1>4, <1>5, <1>6 DEF SchedulerNext, Boot, Threads

-----------------------------------------------------------------------------
SchedulerInv == BootInv /\ RunningInstance /\ CoverInv /\ AloneInv /\ HolderInv

LEMMA SchedulerInvInit == SchedulerInit => SchedulerInv
  <1> SUFFICES ASSUME SchedulerInit PROVE SchedulerInv
    OBVIOUS
  <1>1. BootInv
    BY BootInit
  <1>2. RunningInstance
    BY DEF SchedulerInit, RunningInstance
  <1>3. CoverInv
    BY SchedulerAssumption DEF SchedulerInit, CoverInv
  <1>4. AtMostOne
    BY SchedulerAssumption
    DEF SchedulerInit, AtMostOne, Apart, OneInstance, Fresh, ServedLast, Threads
  <1>5. HolderInv
    BY DEF SchedulerInit, HolderInv, InHolder, JobsOf
  <1> QED
    BY <1>1, <1>2, <1>3, <1>4, <1>5 DEF SchedulerInv, AloneInv

LEMMA SchedulerInvStep == SchedulerInv /\ [SchedulerNext]_schedulerVars => SchedulerInv'
  BY BootStep, RunningStep, CoverStep, AloneStep, HolderStep DEF SchedulerInv

(* All variables of the scheduler keep their types; in particular a worker *)
(* never makes more instances of it than there are requests.               *)
THEOREM SchedulerTypeCorrect == SchedulerSpec => []SchedulerTypeOK
  <1>1. SchedulerInv => SchedulerTypeOK
    BY DEF SchedulerInv, BootInv
  <1> QED
    BY <1>1, SchedulerInvInit, SchedulerInvStep, PTL DEF SchedulerSpec

(* Without a crash and with queries that succeed, any number of requests   *)
(* that save the schedule in any workers at once leave an enabled schedule *)
(* with a job in some running scheduler: reschedule_job removes the job    *)
(* before it reads the schedule (scheduler.py:132-141).                    *)
THEOREM EnabledScheduleIsCovered == SchedulerSpec => []EnabledIsCovered
  <1>1. SchedulerInv => EnabledIsCovered
    BY DEF SchedulerInv, CoverInv, Pending, EnabledIsCovered, Quiet
  <1> QED
    BY <1>1, SchedulerInvInit, SchedulerInvStep, PTL DEF SchedulerSpec

(* Only the holder of the lock fires jobs, through crashes and failures,   *)
(* as long as it served every save; and what it fires then is what was     *)
(* saved, if requests never overlapped in one worker and nothing failed    *)
(* (apps.py:99-101, scheduler.py:94-147).                                  *)
THEOREM OnlyTheHolderFires == SchedulerSpec => []HolderFires
  <1>1. SchedulerInv => HolderFires
    <2>1. ASSUME SchedulerInv, faults = 0, ~overlap, Quiet, saver # NoWorker
          PROVE  JobsOf(saver) = {stored} \cap Crons
      <3>1. ServedLast /\ Placed
        BY <2>1 DEF SchedulerInv, AloneInv, Alone, AtMostOne, BootInv
      <3>2. \A r \in Requests : on[r] # saver
        BY <2>1, <3>1 DEF Placed, Quiet, Threads
      <3> QED
        BY <2>1, <3>1, <3>2 DEF ServedLast
    <2>2. ASSUME SchedulerInv, ~strayed
          PROVE  \A w \in Workers : JobsOf(w) # {} => w = lock
      BY <2>2 DEF SchedulerInv, HolderInv
    <2> QED
      BY <2>1, <2>2 DEF HolderFires
  <1> QED
    BY <1>1, SchedulerInvInit, SchedulerInvStep, PTL DEF SchedulerSpec
=============================================================================
