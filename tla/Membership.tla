------------------------------ MODULE Membership ------------------------------
(***************************************************************************)
(* What the cache operations of redhac may rely on.  They see the quorum   *)
(* handler of their member only through the watch channel, and the streams *)
(* only through what arrives on them: here nothing else is left of either. *)
(* Cluster implements this specification; Requests and CacheOps are built   *)
(* on it.                                                                   *)
(***************************************************************************)
EXTENDS Integers, FiniteSets

CONSTANTS
    Node,    \* the members named in HA_HOSTS
    None     \* no member

ASSUME MemberAssumption ==
    /\ IsFiniteSet(Node)
    /\ Cardinality(Node) >= 2
    /\ None \notin Node

VARIABLES
    up,       \* [Node -> BOOLEAN], the process of a member runs
    conn,     \* [Node -> [Node -> ...]], the client of one for another
    view,     \* [Node -> View], the last QuorumHealthState published
    resets    \* [Node -> BOOLEAN], a Reset waits in the queues of the caches

memberVars == <<up, conn, view, resets>>

-----------------------------------------------------------------------------
(* Remote hosts that make a quorum, and acks that AckLevel::Quorum needs.  *)
Quorum == Cardinality(Node) \div 2

Role == {"Leader", "LeaderDead", "LeaderSwitch", "Follower", "Undefined",
         "Retry", "LeaderTxAwait", "LeadershipRequested"}

View == [quorum : BOOLEAN, role : Role, to : Node \cup {None}, hosts : Nat]

(* What the watch channel of a member holds before its handler has         *)
(* published anything: in HA mode it begins with a default, not with None. *)
DefaultView ==
    [quorum |-> FALSE, role |-> "Undefined", to |-> None, hosts |-> 0]

(* A client has no connection ("down"), has one and no stream on it yet    *)
(* ("connected"), holds a stream ("up"), or has not noticed that the       *)
(* process at the other end is gone ("lost").                              *)
Client == {"down", "connected", "up", "lost"}

MembershipTypeOK ==
    /\ up \in [Node -> BOOLEAN]
    /\ conn \in [Node -> [Node -> Client]]
    /\ view \in [Node -> View]
    /\ resets \in [Node -> BOOLEAN]

-----------------------------------------------------------------------------
Connects(n, m) ==
    /\ n /= m
    /\ up[n] /\ up[m]
    /\ conn[n][m] = "down"
    /\ conn' = [conn EXCEPT ![n][m] = "connected"]
    /\ UNCHANGED <<up, view, resets>>

Opens(n, m) ==
    /\ up[n] /\ up[m]
    /\ conn[n][m] = "connected"
    /\ conn' = [conn EXCEPT ![n][m] = "up"]
    /\ UNCHANGED <<up, view, resets>>

(* A stream that ends, or that fails to open.                              *)
Breaks(n, m) ==
    /\ up[n]
    /\ conn[n][m] /= "down"
    /\ conn' = [conn EXCEPT ![n][m] = "down"]
    /\ UNCHANGED <<up, view, resets>>

(* A quorum has that many hosts, a follower a client of its leader, and    *)
(* who asks to lead a quorum: the expect()s of the cache operations.       *)
Usable(v) ==
    /\ v.quorum => v.hosts >= Quorum
    /\ v.role = "Follower" => v.to /= None
    /\ v.role = "LeadershipRequested" => v.quorum

(* A cluster may be looked at from any moment on.                          *)
MembershipInit ==
    /\ MembershipTypeOK
    /\ \A n \in Node :
           /\ Usable(view[n])
           /\ ~up[n] => /\ view[n] = DefaultView /\ ~resets[n]
                        /\ \A m \in Node : conn[n][m] = "down"

(* The quorum is never lost without a word to the caches: the publication  *)
(* that says so comes with a Reset, and names no leader.                   *)
Publishes(n, v) ==
    /\ up[n]
    /\ v \in View
    /\ Usable(v)
    /\ view' = [view EXCEPT ![n] = v]
    /\ IF view[n].quorum /\ ~v.quorum
       THEN /\ v.role = "Undefined" /\ v.to = None
            /\ resets' = [resets EXCEPT ![n] = TRUE]
       ELSE UNCHANGED resets
    /\ UNCHANGED <<up, conn>>

Empties(n) ==
    /\ resets[n]
    /\ resets' = [resets EXCEPT ![n] = FALSE]
    /\ UNCHANGED <<up, conn, view>>

(* The process of n is gone.  Of the others' clients for it some have not   *)
(* noticed yet; one without a stream will notice when it opens one.         *)
ConnWithout(n, unaware) ==
    [a \in Node |-> [b \in Node |->
        IF a = n \/ (b = n /\ a \notin unaware /\ conn[a][n] /= "lost")
        THEN "down"
        ELSE IF b = n /\ conn[a][n] = "up" THEN "lost" ELSE conn[a][b]]]

Stops(n) ==
    /\ up[n]
    /\ up' = [up EXCEPT ![n] = FALSE]
    /\ \E unaware \in SUBSET (Node \ {n}) : conn' = ConnWithout(n, unaware)
    /\ view' = [view EXCEPT ![n] = DefaultView]
    /\ resets' = [resets EXCEPT ![n] = FALSE]

Starts(n) ==
    /\ ~up[n]
    /\ up' = [up EXCEPT ![n] = TRUE]
    /\ UNCHANGED <<conn, view, resets>>

MembershipNext ==
    \E n \in Node :
        \/ \E m \in Node : Connects(n, m) \/ Opens(n, m) \/ Breaks(n, m)
        \/ Publishes(n, view'[n])
        \/ Empties(n) \/ Stops(n) \/ Starts(n)

MembershipSpec == MembershipInit /\ [][MembershipNext]_memberVars

==============================================================================
