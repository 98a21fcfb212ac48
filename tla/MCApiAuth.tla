------------------------------ MODULE MCApiAuth ------------------------------
(* A window of one tick: the first message is in time and grows stale, the    *)
(* second is ahead, the third is not signed as the server expects.            *)
EXTENDS ApiAuth, TLC
CONSTANTS k1, n1, n2

MCMessages ==
    {[token |-> k1, timestamp |-> 1, nonce |-> n1, signed |-> "server"],
     [token |-> k1, timestamp |-> 2, nonce |-> n2, signed |-> "server"],
     [token |-> k1, timestamp |-> 1, nonce |-> n2, signed |-> "guide"]}
Symmetry == Permutations(Threads)
=============================================================================
