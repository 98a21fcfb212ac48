---------------------------- MODULE MCInstallation ----------------------------
(* Two configurations that pass the checks and one whose port does not; the  *)
(* caller is one of two users, and the daemon runs as an account of its own.  *)
EXTENDS Installation

Config(port) == [user |-> "autopkg", port |-> port, workers |-> 1]
MCConfigs == {Config(port) : port \in {1, 65535, 65536}}
=============================================================================
