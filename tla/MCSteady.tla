------------------------------- MODULE MCSteady -------------------------------
(***************************************************************************)
(* Cluster for TLC, from the state in which an election has come to rest:  *)
(* n1 has won it with timestamp 1, and the streams in Wired are open.      *)
(***************************************************************************)
EXTENDS MCCluster

CONSTANT Wired    \* the streams that are open; Route says which open again

SwapFollowers == Permutations({n2, n3})
Nobody        == {}
Five          == {<<n1, n2>>, <<n2, n1>>, <<n2, n3>>, <<n3, n1>>, <<n3, n2>>}

SteadyHosts(n) == {m \in Node \ {n} : <<n, m>> \in Wired}

SteadyHealth(n) == IF SteadyHosts(n) = Node \ {n} THEN "Good" ELSE "Degraded"

SteadyState(l, n) ==
    IF n = l THEN Leader
    ELSE IF l \in SteadyHosts(n) THEN Follower ELSE LeaderTxAwait(l)

SteadyTx(l, n) == IF l \in SteadyHosts(n) THEN l ELSE None

Steady(l) ==
    /\ phase = [n \in Node |-> "up"]
    /\ link = [n \in Node |-> [m \in Node |->
                  IF m \in SteadyHosts(n) THEN "open" ELSE "down"]]
    /\ leaked = [n \in Node |-> [m \in Node |-> 0]]
    /\ wire = [n \in Node |-> [m \in Node |-> <<>>]]
    /\ acks = [n \in Node |-> [m \in Node |-> <<>>]]
    /\ mailbox = [n \in Node |-> <<>>]
    /\ faults = [f \in {"break", "open", "stop", "timeout"} |-> 0]
    /\ hosts = [n \in Node |-> SteadyHosts(n)]
    /\ health = [n \in Node |-> SteadyHealth(n)]
    /\ state = [n \in Node |-> SteadyState(l, n)]
    /\ leader = [n \in Node |-> IF n = l THEN Local(1) ELSE Remote(l, 1)]
    /\ txLeader = [n \in Node |-> SteadyTx(l, n)]
    /\ ackCount = [n \in Node |-> IF n = l THEN QuorumSize ELSE 0]
    /\ watch = [n \in Node |->
           [health |-> SteadyHealth(n), state |-> SteadyState(l, n),
            txLeader |-> SteadyTx(l, n),
            connectedHosts |-> Cardinality(SteadyHosts(n))]]
    /\ timers = [n \in Node |-> 0]
    /\ resets = [n \in Node |-> FALSE]
    /\ owner = [t \in Ts |-> IF t = 1 THEN l ELSE None]

SteadySpec == Steady(n1) /\ [][Next]_vars

=============================================================================
