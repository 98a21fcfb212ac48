--------------------------- MODULE MCNotifications ---------------------------
(* A plain and a Web Push notifier, two devices, a password of each sort.    *)
EXTENDS Notifications, TLC
CONSTANTS mail, web, x, enc

Symmetry == Permutations(Devices) \cup Permutations(Threads)
=============================================================================
