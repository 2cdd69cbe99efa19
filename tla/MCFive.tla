-------------------------------- MODULE MCFive --------------------------------
(***************************************************************************)
(* Cluster for TLC: five members, of whom three run: a quorum is two       *)
(* remote hosts, and one ack is not enough.                                *)
(***************************************************************************)
EXTENDS Cluster, TLC

CONSTANTS n1, n2, n3, n4, n5

Members  == {n1, n2, n3, n4, n5}
Running  == {n1, n2, n3}

(* Only n1 can get a quorum.                                               *)
OneCandidate == {<<n1, n2>>, <<n1, n3>>, <<n2, n1>>}

Ts1 == 1..1

HandleFirst ==
    IF \E n \in Node : resets[n]
    THEN \A n \in Node : ~resets'[n]
    ELSE \A n \in Node :
             phase[n] = "up" /\ mailbox[n] /= <<>> => mailbox'[n] /= mailbox[n]

=============================================================================
