------------------------------ MODULE MCCluster ------------------------------
(***************************************************************************)
(* Cluster for TLC: three members, and who can reach whom.                 *)
(***************************************************************************)
EXTENDS Cluster, TLC

CONSTANTS n1, n2, n3

Members    == {n1, n2, n3}
FirstTwo   == {n1, n2}
Everywhere == Members \X Members
ViaN3      == {<<a, b>> \in Everywhere : a = n3 \/ b = n3}

Ts2 == 1..2
Ts3 == 1..3

SwapFirstTwo == Permutations(FirstTwo)

(* A member with requests in its mailbox takes one before anything else    *)
(* happens there.  With room for one request only, nothing else could be   *)
(* put in, and what others do before or after commutes with the turn.      *)
(* A pending reset, which nothing else reads, is taken at once.            *)
HandleFirst ==
    IF \E n \in Node : resets[n]
    THEN \A n \in Node : ~resets'[n]
    ELSE \A n \in Node :
             phase[n] = "up" /\ mailbox[n] /= <<>> => mailbox'[n] /= mailbox[n]

=============================================================================
