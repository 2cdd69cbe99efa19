---------------------------- MODULE ClusterSafety ----------------------------
(***************************************************************************)
(* The safety properties of Cluster that hold for every set of members,    *)
(* every network and every value of the bounds, and for every order of     *)
(* stops, breaks and timeouts.  Most follow from one inductive invariant:  *)
(* the types, HealthInv, LeaderInv and QuorumHasLeader.  WaitsAreTimed and *)
(* HostsFollowClients need GoneInv besides, and the latter NewsInv.        *)
(***************************************************************************)
EXTENDS ClusterProofs

(* A member's health fits the hosts it counts, none of which is itself.    *)
HealthFits(n) ==
    /\ n \notin hosts[n]
    /\ health[n] = "Bad" <=> Cardinality(hosts[n]) < QuorumSize
    /\ health[n] = "Good" <=> Cardinality(hosts[n]) = ClientsCount

HealthInv == \A n \in Node : HealthFits(n)

(* A leader l with client tx fits a member in state s with health h.  A    *)
(* member that has asked to lead has a quorum: it gives the leadership up  *)
(* with the quorum, in the same turn.                                      *)
LeaderFits(s, l, tx, h) ==
    /\ s = Leader => l.is = "Local"
    /\ s = Follower => l.is = "Remote" /\ tx = l.addr
    /\ s.is = "LeaderTxAwait" => l.is = "Remote" /\ l.addr = s.addr
    /\ s.is = "LeadershipRequested" => l = Local(s.ts) /\ h /= "Bad"
    /\ s \in {Retry, LeaderDead} => l.is = "Remote"

LeaderInv ==
    \A n \in Node : LeaderFits(state[n], leader[n], txLeader[n], health[n])

Inv == TypeOK /\ HealthInv /\ LeaderInv /\ QuorumHasLeader

-----------------------------------------------------------------------------
(* One host at least makes a quorum, and all hosts are one.                *)
LEMMA QuorumBounds ==
    /\ ClientsCount \in Nat /\ QuorumSize \in Nat
    /\ 1 <= QuorumSize /\ QuorumSize <= ClientsCount
<1>1. Cardinality(Node) \in Nat /\ Cardinality(Node) >= 2
  BY FS_CardinalityType, NodeAssumption
<1> QED  BY <1>1, SMT DEF ClientsCount, QuorumSize

(* A member has a client for every other member and no more.               *)
LEMMA HostsCount ==
    ASSUME NEW n \in Node, NEW h \in SUBSET (Node \ {n})
    PROVE  /\ Cardinality(h) \in Nat
           /\ Cardinality(h) <= ClientsCount
           /\ Cardinality(h) = ClientsCount => h = Node \ {n}
<1>1. IsFiniteSet(Node \ {n}) /\ Cardinality(Node \ {n}) = ClientsCount
  BY FS_RemoveElement, NodeAssumption DEF ClientsCount
<1>2. Cardinality(h) <= ClientsCount /\ Cardinality(h) \in Nat
  BY <1>1, FS_Subset, FS_CardinalityType
<1>3. Cardinality(h) = Cardinality(Node \ {n}) => h = Node \ {n}
  BY <1>1, FS_Subset
<1> QED  BY <1>1, <1>2, <1>3

(* What a new host does to the health.                                     *)
LEMMA HostJoinsHealth ==
    ASSUME TypeOK, HealthInv, NEW n \in Node, Receives(n, "Alive"), HostJoins(n)
    PROVE  /\ HealthInv'
           /\ SetHealth(n, health'[n])
           /\ MakesQuorum(n) => health'[n] /= "Bad"
           /\ health'[n] = "Bad" => health[n] = "Bad"
           /\ ~MakesQuorum(n) /\ QuorumHasLeader /\ leader[n] = NoLeader =>
                  health'[n] = "Bad"
<1> DEFINE joined == hosts[n] \cup {Req(n).addr}
           count == Cardinality(joined)
<1>1. Req(n).addr \in Node \ {n}
  BY Received DEF Plain
<1>2. hosts[n] \in SUBSET (Node \ {n}) /\ joined \in SUBSET (Node \ {n})
  BY <1>1 DEF HealthInv, HealthFits, TypeOK, HandlerTypeOK
<1>3. Cardinality(hosts[n]) \in Nat /\ count \in Nat /\ count <= ClientsCount
  BY <1>2, HostsCount
<1>4. Cardinality(hosts[n]) <= count
  BY <1>2, HostsFinite, FS_Subset
<1>5. /\ hosts' = [hosts EXCEPT ![n] = joined]
      /\ health' = [health EXCEPT ![n] = HealthWith(n, count)]
  BY DEF HostJoins, SetHosts, SetHealth
<1>6. hosts'[n] = joined /\ health'[n] = HealthWith(n, count)
  BY <1>5 DEF TypeOK, HandlerTypeOK
<1>7. HealthFits(n)
  BY DEF HealthInv
<1>8. HealthFits(n)'
  <2>1. n \notin joined
    BY <1>2
  <2>2. HealthWith(n, count) = "Bad" <=> count < QuorumSize
    BY <1>3, <1>4, <1>7, QuorumBounds DEF HealthWith, HealthFits
  <2>3. HealthWith(n, count) = "Good" <=> count = ClientsCount
    BY <1>3, <1>4, <1>7, QuorumBounds DEF HealthWith, HealthFits
  <2> HIDE DEF count, joined
  <2> QED  BY <1>6, <2>1, <2>2, <2>3 DEF HealthFits, count
<1>9. HealthInv'
  <2> SUFFICES ASSUME NEW m \in Node, m /= n PROVE HealthFits(m)'
    BY <1>8 DEF HealthInv
  <2>1. hosts'[m] = hosts[m] /\ health'[m] = health[m]
    BY <1>5 DEF TypeOK, HandlerTypeOK
  <2> QED  BY <2>1 DEF HealthInv, HealthFits
<1>10. /\ count >= QuorumSize => health'[n] /= "Bad"
       /\ count < QuorumSize => health'[n] = health[n]
  BY <1>3, <1>6, QuorumBounds DEF HealthWith
<1>11. QuorumHasLeader /\ leader[n] = NoLeader => health[n] = "Bad"
  BY DEF QuorumHasLeader
<1>12. SetHealth(n, health'[n])
  BY <1>5, <1>6 DEF SetHealth
<1> QED  BY <1>3, <1>9, <1>10, <1>11, <1>12, QuorumBounds DEF MakesQuorum

(* What is left when a host dies.                                          *)
LEMMA HostLeavesHealth ==
    ASSUME TypeOK, HealthInv, NEW n \in Node, Receives(n, "Dead"),
           SetHosts(n, Left(n)),
           SetHealth(n, IF KeepsQuorum(n) THEN "Degraded" ELSE "Bad")
    PROVE  /\ HealthInv'
           /\ KeepsQuorum(n) => health[n] /= "Bad"
<1>1. Req(n).addr \in Node \ {n}
  BY Received DEF Plain
<1>2. /\ hosts[n] \in SUBSET (Node \ {n})
      /\ Left(n) \in SUBSET (Node \ {n})
      /\ Left(n) /= Node \ {n}
  BY <1>1 DEF HealthInv, HealthFits, TypeOK, HandlerTypeOK, Left
<1>3. /\ Cardinality(hosts[n]) \in Nat
      /\ Cardinality(Left(n)) \in Nat
      /\ Cardinality(Left(n)) /= ClientsCount
  BY <1>2, HostsCount
<1>4. Cardinality(Left(n)) <= Cardinality(hosts[n])
  BY <1>2, HostsFinite, FS_Subset DEF Left
<1>5. /\ hosts' = [hosts EXCEPT ![n] = Left(n)]
      /\ health' = [health EXCEPT ![n] = IF KeepsQuorum(n) THEN "Degraded" ELSE "Bad"]
  BY DEF SetHosts, SetHealth
<1>6. /\ hosts'[n] = Left(n)
      /\ health'[n] = IF KeepsQuorum(n) THEN "Degraded" ELSE "Bad"
  BY <1>5 DEF TypeOK, HandlerTypeOK
<1>7. HealthFits(n)'
  BY <1>2, <1>3, <1>6, QuorumBounds DEF HealthFits, KeepsQuorum
<1>8. HealthInv'
  <2> SUFFICES ASSUME NEW m \in Node, m /= n PROVE HealthFits(m)'
    BY <1>7 DEF HealthInv
  <2>1. hosts'[m] = hosts[m] /\ health'[m] = health[m]
    BY <1>5 DEF TypeOK, HandlerTypeOK
  <2> QED  BY <2>1 DEF HealthInv, HealthFits
<1>9. KeepsQuorum(n) => health[n] /= "Bad"
  BY <1>3, <1>4, QuorumBounds DEF KeepsQuorum, HealthInv, HealthFits
<1> QED  BY <1>8, <1>9
-----------------------------------------------------------------------------
(* The other actions of a handler count nobody in or out.                  *)
LEMMA ElectionKeepsHosts ==
    ASSUME NEW n \in Node, Election(n)
    PROVE  UNCHANGED <<hosts, health>>
<1>1. CASE LeaderInfoIgnored(n) \/ LeaderInfoNoTx(n) \/ LeaderInfoFollow(n)
  BY <1>1 DEF LeaderInfoIgnored, LeaderInfoNoTx, LeaderInfoFollow, handlerVars
<1>2. CASE LeaderReqConflict(n) \/ LeaderReqAccepted(n) \/ LeaderReqTooEarly(n)
  BY <1>2 DEF LeaderReqConflict, LeaderReqAccepted, LeaderReqTooEarly, handlerVars
<1>3. CASE LeaderReqAckNews(n) \/ LeaderReqAckCounted(n) \/ LeaderReqAckOther(n)
  BY <1>3 DEF LeaderReqAckNews, LeaderReqAckCounted, LeaderReqAckOther, CountAck,
     handlerVars
<1>4. CASE LeaderAcked(n)
  BY <1>4 DEF LeaderAcked
<1> QED  BY <1>1, <1>2, <1>3, <1>4 DEF Election

LEMMA SwitchingKeepsHosts ==
    ASSUME NEW n \in Node, Switching(n)
    PROVE  UNCHANGED <<hosts, health>>
<1>1. CASE LeaderSwitched(n) \/ LeaderSwitchedDead(n)
  BY <1>1 DEF LeaderSwitched, LeaderSwitchedDead
<1>2. CASE LeaderSwitchAckCounted(n) \/ LeaderSwitchAckOther(n)
  BY <1>2 DEF LeaderSwitchAckCounted, LeaderSwitchAckOther, CountAck, handlerVars
<1>3. CASE PriorityForMe(n) \/ PriorityForOther(n) \/ PriorityIgnored(n)
  BY <1>3 DEF PriorityForMe, PriorityForOther, PriorityIgnored, handlerVars
<1> QED  BY <1>1, <1>2, <1>3 DEF Switching

LEMMA TimeoutKeepsHosts ==
    ASSUME NEW n \in Node, Timeout(n)
    PROVE  UNCHANGED <<hosts, health>>
<1>1. CASE TimeoutRetry(n)
  BY <1>1 DEF TimeoutRetry
<1>2. CASE TimeoutNoLeader(n) \/ TimeoutLeaderDead(n) \/ TimeoutRequested(n)
  BY <1>2 DEF TimeoutNoLeader, TimeoutLeaderDead, TimeoutRequested, handlerVars
<1>3. CASE TimeoutSwitchOver(n) \/ TimeoutGivesUp(n) \/ TimeoutOther(n)
  BY <1>3 DEF TimeoutSwitchOver, TimeoutGivesUp, TimeoutOther, handlerVars
<1> QED  BY <1>1, <1>2, <1>3 DEF Timeout

(* What a member makes of its leader, of the client it has of it, and of   *)
(* itself.                                                                 *)
Becomes(n, s, l, tx) == SetState(n, s) /\ SetLeader(n, l) /\ SetTx(n, tx)

LEMMA Stays ==
    ASSUME TypeOK, NEW n \in Node
    PROVE  /\ UNCHANGED state => SetState(n, state[n])
           /\ UNCHANGED leader => SetLeader(n, leader[n])
           /\ UNCHANGED txLeader => SetTx(n, txLeader[n])
           /\ UNCHANGED health => SetHealth(n, health[n])
BY DEF SetState, SetLeader, SetTx, SetHealth, TypeOK, HandlerTypeOK

(* It is enough to look at the member that takes the turn.                 *)
LEMMA TurnFits ==
    ASSUME TypeOK, LeaderInv, QuorumHasLeader,
           NEW n \in Node, NEW s, NEW l, NEW tx, NEW h,
           Becomes(n, s, l, tx), SetHealth(n, h),
           LeaderFits(s, l, tx, h), l = NoLeader => h = "Bad"
    PROVE  /\ LeaderInv' /\ QuorumHasLeader'
           /\ LeaderFits(state[n], leader[n], txLeader[n], health[n])'
<1>1. /\ state' = [state EXCEPT ![n] = s]
      /\ leader' = [leader EXCEPT ![n] = l]
      /\ txLeader' = [txLeader EXCEPT ![n] = tx]
      /\ health' = [health EXCEPT ![n] = h]
  BY DEF Becomes, SetState, SetLeader, SetTx, SetHealth
<1>2. state'[n] = s /\ leader'[n] = l /\ txLeader'[n] = tx /\ health'[n] = h
  BY <1>1 DEF TypeOK, HandlerTypeOK
<1>3. \A m \in Node \ {n} :
          /\ state'[m] = state[m] /\ leader'[m] = leader[m]
          /\ txLeader'[m] = txLeader[m] /\ health'[m] = health[m]
  BY <1>1 DEF TypeOK, HandlerTypeOK
<1>4. LeaderFits(state[n], leader[n], txLeader[n], health[n])'
  BY <1>2 DEF LeaderFits
<1>5. LeaderInv'
  <2> SUFFICES ASSUME NEW m \in Node \ {n}
               PROVE  LeaderFits(state[m], leader[m], txLeader[m], health[m])'
    BY <1>4 DEF LeaderInv
  <2>1. LeaderFits(state[m], leader[m], txLeader[m], health[m])
    BY DEF LeaderInv
  <2> QED  BY <1>3, <2>1 DEF LeaderFits
<1>6. QuorumHasLeader'
  BY <1>2, <1>3 DEF QuorumHasLeader
<1> QED  BY <1>4, <1>5, <1>6

(* The states that no leader has to fit, and what follows a named leader.  *)
LEMMA StateKinds ==
    ASSUME NEW a \in Node, NEW t \in Ts, NEW l, NEW tx, NEW h
    PROVE  /\ LeaderFits(Undefined, l, tx, h)
           /\ LeaderFits(SwitchOver, l, tx, h)
           /\ LeaderFits(Leader, l, tx, h) <=> l.is = "Local"
           /\ LeaderFits(Follower, l, tx, h) <=> l.is = "Remote" /\ tx = l.addr
           /\ LeaderFits(Retry, l, tx, h) <=> l.is = "Remote"
           /\ LeaderFits(LeaderDead, l, tx, h) <=> l.is = "Remote"
           /\ LeaderFits(LeaderTxAwait(a), l, tx, h) <=>
                  l.is = "Remote" /\ l.addr = a
           /\ LeaderFits(LeadershipRequested(t), l, tx, h) <=>
                  l = Local(t) /\ h /= "Bad"
BY DEF LeaderFits, Undefined, SwitchOver, Leader, Follower, Retry, LeaderDead,
       LeaderTxAwait, LeadershipRequested

LEMMA NamedLeaderFits ==
    ASSUME NEW n \in Node, NEW a \in Node, NEW t \in Ts, NEW h
    PROVE  LeaderFits(FollowOrAwait(n, a), Remote(a, t), TxOf(n, a), h)
BY StateKinds, LeaderMade DEF FollowOrAwait, TxOf

(* A leader that is not registered leaves three states.                    *)
LEMMA NoLeaderStates ==
    ASSUME TypeOK, LeaderInv, NEW n \in Node, leader[n] = NoLeader
    PROVE  state[n] \in {Undefined, SwitchOver}
<1>1. state[n] \in QuorumState
  BY DEF TypeOK, HandlerTypeOK
<1>2. LeaderFits(state[n], NoLeader, txLeader[n], health[n])
  BY DEF LeaderInv
<1>3. \A t : NoLeader /= Local(t)
  BY DEF NoLeader, Local
<1> QED  BY <1>1, <1>2, <1>3 DEF LeaderFits, QuorumState, NoLeader
-----------------------------------------------------------------------------
(* Every action keeps the parts of Inv, given the types.                   *)

Kept == HealthInv' /\ LeaderInv' /\ QuorumHasLeader'

LEMMA AliveKeeps ==
    ASSUME Inv, NEW n \in Node,
           \/ AliveAwaitedLeader(n) \/ AliveRetriedLeader(n)
           \/ AliveRequestLeadership(n) \/ AliveOther(n)
    PROVE  Kept
<1> DEFINE m == Req(n).addr
           t == leader[n].ts
<1>1. Receives(n, "Alive") /\ HostJoins(n)
  BY DEF AliveAwaitedLeader, AliveRetriedLeader, AliveRequestLeadership, AliveOther
<1>2. /\ HealthInv'
      /\ SetHealth(n, health'[n])
      /\ MakesQuorum(n) => health'[n] /= "Bad"
      /\ health'[n] = "Bad" => health[n] = "Bad"
      /\ ~MakesQuorum(n) /\ leader[n] = NoLeader => health'[n] = "Bad"
  BY <1>1, HostJoinsHealth DEF Inv
<1>3. m \in Node /\ leader[n] \in RegisteredLeader
  BY <1>1, Received DEF Inv, Plain
<1>4. CASE AliveAwaitedLeader(n)
  <2>1. Becomes(n, Follower, Remote(m, t), m) /\ leader[n] /= NoLeader
    BY <1>4 DEF AliveAwaitedLeader, Becomes
  <2>2. t \in Ts
    BY <1>3, <2>1, LeaderFields
  <2>3. LeaderFits(Follower, Remote(m, t), m, health'[n]) /\ Remote(m, t) /= NoLeader
    BY <1>3, <2>2, LeaderMade, StateKinds
  <2> QED  BY <1>2, <2>1, <2>3, TurnFits DEF Inv, Kept
<1>5. CASE AliveRetriedLeader(n)
  <2>1. /\ Becomes(n, Follower, leader[n], m)
        /\ leader[n].is = "Remote" /\ leader[n].addr = m
    BY <1>5, Stays DEF AliveRetriedLeader, RetriesFor, Becomes, Inv
  <2>2. leader[n].ts \in Ts /\ leader[n] /= NoLeader
    BY <1>3, <2>1, LeaderFields DEF NoLeader
  <2>3. LeaderFits(Follower, leader[n], m, health'[n])
    BY <1>3, <2>1, <2>2, StateKinds
  <2> QED  BY <1>2, <2>1, <2>2, <2>3, TurnFits DEF Inv, Kept
<1>6. CASE AliveRequestLeadership(n)
  <2>1. PICK u \in Ts : Becomes(n, LeadershipRequested(u), Local(u), None)
    BY <1>6 DEF AliveRequestLeadership, Becomes
  <2>2. MakesQuorum(n)
    BY <1>6 DEF AliveRequestLeadership
  <2>3. /\ LeaderFits(LeadershipRequested(u), Local(u), None, health'[n])
        /\ Local(u) /= NoLeader
    BY <1>2, <2>2, LeaderMade, StateKinds
  <2> QED  BY <1>2, <2>1, <2>3, TurnFits DEF Inv, Kept
<1>7. CASE AliveOther(n)
  <2>1. Becomes(n, state[n], leader[n], txLeader[n])
    BY <1>7, Stays DEF AliveOther, Becomes, Inv
  <2>2. LeaderFits(state[n], leader[n], txLeader[n], health[n])
    BY DEF Inv, LeaderInv
  <2>3. LeaderFits(state[n], leader[n], txLeader[n], health'[n])
    BY <1>2, <2>2 DEF LeaderFits
  <2>4. ~MakesQuorum(n)
    BY <1>7 DEF AliveOther
  <2> QED  BY <1>2, <2>1, <2>3, <2>4, TurnFits DEF Inv, Kept
<1> QED  BY <1>4, <1>5, <1>6, <1>7

LEMMA DeadKeeps ==
    ASSUME Inv, NEW n \in Node,
           \/ DeadLeader(n) \/ DeadLeaderAgain(n)
           \/ DeadOther(n) \/ DeadQuorumLost(n)
    PROVE  Kept
<1> DEFINE h == IF KeepsQuorum(n) THEN "Degraded" ELSE "Bad"
<1>1. /\ Receives(n, "Dead")
      /\ SetHosts(n, Left(n))
      /\ SetHealth(n, h)
  BY DEF DeadLeader, DeadLeaderAgain, DeadOther, DeadQuorumLost, LeaderDied
<1>2. HealthInv' /\ (KeepsQuorum(n) => health[n] /= "Bad")
  BY <1>1, HostLeavesHealth DEF Inv
<1>3. /\ LeaderFits(state[n], leader[n], txLeader[n], health[n])
      /\ leader[n] = NoLeader => health[n] = "Bad"
  BY DEF Inv, LeaderInv, QuorumHasLeader
<1>4. CASE DeadLeader(n)
  <2>1. PICK t \in Ts : Becomes(n, LeadershipRequested(t), Local(t), None)
    BY <1>4 DEF DeadLeader, TakeOverFromDead, Becomes
  <2>2. h /= "Bad"
    BY <1>4 DEF DeadLeader, LeaderDied
  <2>3. LeaderFits(LeadershipRequested(t), Local(t), None, h) /\ Local(t) /= NoLeader
    BY <2>2, LeaderMade, StateKinds
  <2> QED  BY <1>1, <1>2, <2>1, <2>3, TurnFits DEF Inv, Kept
<1>5. CASE DeadLeaderAgain(n)
  <2>1. /\ Becomes(n, state[n], leader[n], txLeader[n])
        /\ KeepsQuorum(n)
    BY <1>5, Stays DEF DeadLeaderAgain, LeaderDied, Becomes, Inv
  <2>2. LeaderFits(state[n], leader[n], txLeader[n], h)
    BY <1>3, <2>1 DEF LeaderFits
  <2> QED  BY <1>1, <1>2, <1>3, <2>1, <2>2, TurnFits DEF Inv, Kept
<1>6. CASE DeadOther(n)
  <2>1. /\ Becomes(n, state[n], leader[n], txLeader[n])
        /\ KeepsQuorum(n) \/ health[n] = "Bad"
    BY <1>6, Stays DEF DeadOther, Becomes, Inv
  <2>2. LeaderFits(state[n], leader[n], txLeader[n], h)
    BY <1>3, <2>1 DEF LeaderFits
  <2> QED  BY <1>1, <1>2, <1>3, <2>1, <2>2, TurnFits DEF Inv, Kept
<1>7. CASE DeadQuorumLost(n)
  <2>1. Becomes(n, Undefined, NoLeader, None) /\ ~KeepsQuorum(n)
    BY <1>7 DEF DeadQuorumLost, Becomes
  <2>2. LeaderFits(Undefined, NoLeader, None, h)
    BY DEF LeaderFits, Undefined, Leader, Follower, Retry, LeaderDead
  <2> QED  BY <1>1, <1>2, <2>1, <2>2, TurnFits DEF Inv, Kept
<1> QED  BY <1>4, <1>5, <1>6, <1>7

(* A turn that leaves the hosts alone.                                     *)
LEMMA SteadyTurn ==
    ASSUME Inv, UNCHANGED <<hosts, health>>,
           NEW n \in Node, NEW s, NEW l, NEW tx,
           Becomes(n, s, l, tx), LeaderFits(s, l, tx, health[n]),
           l = NoLeader => health[n] = "Bad"
    PROVE  Kept
<1>1. SetHealth(n, health[n])
  BY Stays DEF Inv
<1>2. LeaderInv' /\ QuorumHasLeader'
  BY <1>1, TurnFits DEF Inv
<1>3. HealthInv'
  BY DEF Inv, HealthInv, HealthFits
<1> QED  BY <1>2, <1>3 DEF Kept

LEMMA StillKept ==
    ASSUME Inv, UNCHANGED handlerVars
    PROVE  Kept
<1>1. HealthInv'
  BY DEF Inv, HealthInv, HealthFits, handlerVars
<1>2. LeaderInv' /\ QuorumHasLeader'
  BY DEF Inv, LeaderInv, LeaderFits, QuorumHasLeader, handlerVars
<1> QED  BY <1>1, <1>2 DEF Kept
LEMMA CountAckKeeps ==
    ASSUME Inv, NEW n \in Node, leader[n].is = "Local",
           NEW tx, NEW own, NEW out, CountAck(n, tx, own, out)
    PROVE  Kept
<1>1. UNCHANGED <<hosts, health, leader>>
  BY DEF CountAck
<1>2. leader[n] /= NoLeader
  BY DEF NoLeader
<1>3. CASE Enough(ackCount[n] + 1)
  <2>1. Becomes(n, Leader, leader[n], tx)
    BY <1>3, Stays DEF CountAck, Becomes, Inv
  <2>2. LeaderFits(Leader, leader[n], tx, health[n])
    BY DEF LeaderFits, Leader, Follower, Retry, LeaderDead
  <2> QED  BY <1>1, <1>2, <2>1, <2>2, SteadyTurn
<1>4. CASE ~Enough(ackCount[n] + 1)
  <2>1. UNCHANGED <<state, leader, txLeader>>
    BY <1>4 DEF CountAck
  <2>2. Becomes(n, state[n], leader[n], txLeader[n])
    BY <2>1, Stays DEF Becomes, Inv
  <2>3. LeaderFits(state[n], leader[n], txLeader[n], health[n])
    BY DEF Inv, LeaderInv
  <2> QED  BY <1>1, <1>2, <2>2, <2>3, SteadyTurn
<1> QED  BY <1>3, <1>4
LEMMA ElectionKeeps ==
    ASSUME Inv, NEW n \in Node, Election(n)
    PROVE  Kept
<1> DEFINE a == Req(n).addr
           t == Req(n).ts
<1>1. UNCHANGED <<hosts, health>>
  BY ElectionKeepsHosts
<1>2. \E kind \in Timed : Receives(n, kind)
  BY DEF Election, LeaderInfoIgnored, LeaderInfoNoTx, LeaderInfoFollow,
     LeaderReqConflict, LeaderReqAccepted, LeaderReqTooEarly, LeaderReqAckNews,
     LeaderReqAckCounted, LeaderReqAckOther, LeaderAcked, Timed
<1>3. a \in Node /\ t \in Ts
  BY <1>2, Received DEF Inv
<1>4. Remote(a, t) /= NoLeader /\ Remote(a, t).is = "Remote" /\ Remote(a, t).addr = a
  BY <1>3, LeaderMade
<1>5. CASE LeaderInfoIgnored(n) \/ LeaderReqConflict(n) \/ LeaderReqAckOther(n)
  BY <1>5, StillKept DEF LeaderInfoIgnored, LeaderReqConflict, LeaderReqAckOther
<1>6. CASE LeaderInfoNoTx(n)
  <2>1. Becomes(n, LeaderTxAwait(a), Remote(a, t), txLeader[n])
    BY <1>6, Stays DEF LeaderInfoNoTx, Becomes, Inv
  <2>2. LeaderFits(LeaderTxAwait(a), Remote(a, t), txLeader[n], health[n])
    BY <1>3, <1>4, StateKinds
  <2> QED  BY <1>1, <1>4, <2>1, <2>2, SteadyTurn
<1>7. CASE LeaderInfoFollow(n)
  <2>1. Becomes(n, Follower, Remote(a, t), a)
    BY <1>7 DEF LeaderInfoFollow, Becomes
  <2>2. LeaderFits(Follower, Remote(a, t), a, health[n])
    BY <1>3, <1>4, StateKinds
  <2> QED  BY <1>1, <1>4, <2>1, <2>2, SteadyTurn
<1>8. CASE LeaderReqAccepted(n)
  <2>1. Becomes(n, state[n], Remote(a, t), a) /\ leader[n] = NoLeader
    BY <1>8, Stays DEF LeaderReqAccepted, Conflict, Becomes, Inv
  <2>2. LeaderFits(state[n], Remote(a, t), a, health[n])
    BY <1>3, <2>1, NoLeaderStates, StateKinds DEF Inv
  <2> QED  BY <1>1, <1>4, <2>1, <2>2, SteadyTurn
<1>9. CASE LeaderReqTooEarly(n)
  <2>1. Becomes(n, Retry, Remote(a, t), None)
    BY <1>9 DEF LeaderReqTooEarly, Becomes
  <2>2. LeaderFits(Retry, Remote(a, t), None, health[n])
    BY <1>3, <1>4, StateKinds
  <2> QED  BY <1>1, <1>4, <2>1, <2>2, SteadyTurn
<1>10. CASE LeaderReqAckNews(n)
  <2>1. Becomes(n, LeaderTxAwait(a), Remote(a, t), TxOf(n, a))
    BY <1>10 DEF LeaderReqAckNews, Becomes
  <2>2. LeaderFits(LeaderTxAwait(a), Remote(a, t), TxOf(n, a), health[n])
    BY <1>3, <1>4, StateKinds
  <2> QED  BY <1>1, <1>4, <2>1, <2>2, SteadyTurn
<1>11. CASE LeaderReqAckCounted(n)
  BY <1>11, CountAckKeeps, <1>3 DEF LeaderReqAckCounted, AckForMe
<1>12. CASE LeaderAcked(n)
  <2>1. Becomes(n, FollowOrAwait(n, a), Remote(a, t), TxOf(n, a))
    BY <1>12 DEF LeaderAcked, Becomes
  <2> QED  BY <1>1, <1>3, <1>4, <2>1, NamedLeaderFits, SteadyTurn
<1> QED
  BY <1>5, <1>6, <1>7, <1>8, <1>9, <1>10, <1>11, <1>12 DEF Election

LEMMA SwitchingKeeps ==
    ASSUME Inv, NEW n \in Node, Switching(n)
    PROVE  Kept
<1> DEFINE a == Req(n).addr
           t == Req(n).ts
<1>1. UNCHANGED <<hosts, health>>
  BY SwitchingKeepsHosts
<1>2. CASE LeaderSwitchAckCounted(n)
  BY <1>2, CountAckKeeps DEF LeaderSwitchAckCounted, AckForMe, Inv, TypeOK, HandlerTypeOK
<1>3. CASE LeaderSwitchAckOther(n) \/ PriorityIgnored(n)
  BY <1>3, StillKept DEF LeaderSwitchAckOther, PriorityIgnored
<1>4. CASE LeaderSwitched(n) \/ LeaderSwitchedDead(n) \/ PriorityForMe(n) \/ PriorityForOther(n)
  <2>1. a \in Node /\ t \in Ts
    BY <1>4, Received DEF LeaderSwitched, LeaderSwitchedDead, PriorityForMe,
       PriorityForOther, Timed, Inv
  <2>2. /\ Remote(a, t) /= NoLeader /\ Remote(a, t).is = "Remote"
        /\ Local(t) /= NoLeader /\ Local(t).is = "Local"
    BY <2>1, LeaderMade
  <2>3. CASE LeaderSwitched(n)
    <3>1. PICK l \in {Local(t), Remote(a, t)}, tx \in {None, TxOf(n, a)} :
              Becomes(n, SwitchOver, l, tx)
      BY <2>3 DEF LeaderSwitched, Becomes
    <3>2. LeaderFits(SwitchOver, l, tx, health[n])
      BY <2>1, StateKinds
    <3> QED  BY <1>1, <2>2, <3>1, <3>2, SteadyTurn
  <2>4. CASE LeaderSwitchedDead(n)
    <3>1. Becomes(n, LeaderDead, Remote(a, t), TxOf(n, a))
      BY <2>4 DEF LeaderSwitchedDead, Becomes
    <3>2. LeaderFits(LeaderDead, Remote(a, t), TxOf(n, a), health[n])
      BY <2>1, <2>2, StateKinds
    <3> QED  BY <1>1, <2>2, <3>1, <3>2, SteadyTurn
  <2>5. CASE PriorityForMe(n)
    <3>1. Becomes(n, Leader, Local(t), None)
      BY <2>5 DEF PriorityForMe, Becomes
    <3>2. LeaderFits(Leader, Local(t), None, health[n])
      BY <2>1, <2>2, StateKinds
    <3> QED  BY <1>1, <2>2, <3>1, <3>2, SteadyTurn
  <2>6. CASE PriorityForOther(n)
    <3>1. Becomes(n, FollowOrAwait(n, a), Remote(a, t), TxOf(n, a))
      BY <2>6 DEF PriorityForOther, Becomes
    <3> QED  BY <1>1, <2>1, <2>2, <3>1, NamedLeaderFits, SteadyTurn
  <2> QED  BY <1>4, <2>3, <2>4, <2>5, <2>6
<1> QED  BY <1>2, <1>3, <1>4 DEF Switching

LEMMA TimeoutKeeps ==
    ASSUME Inv, NEW n \in Node, Timeout(n)
    PROVE  Kept
<1>1. UNCHANGED <<hosts, health>>
  BY TimeoutKeepsHosts
<1>2. leader[n] \in RegisteredLeader /\ state[n] \in QuorumState
  BY DEF Inv, TypeOK, HandlerTypeOK
<1>3. LeaderFits(state[n], leader[n], txLeader[n], health[n])
  BY DEF Inv, LeaderInv
<1>4. CASE TimeoutNoLeader(n) \/ TimeoutRequested(n) \/ TimeoutOther(n)
  BY <1>4, StillKept DEF TimeoutNoLeader, TimeoutRequested, TimeoutOther
<1>5. CASE TimeoutRetry(n)
  <2> DEFINE a == leader[n].addr
  <2>1. leader[n].is = "Remote" /\ leader[n] /= NoLeader
    BY <1>5 DEF TimeoutRetry, NoLeader
  <2>2. a \in Node /\ leader[n].ts \in Ts
    BY <1>2, <2>1, LeaderFields
  <2>3. CASE a \in hosts[n]
    <3>1. Becomes(n, Follower, leader[n], a)
      BY <1>5, <2>3, Stays DEF TimeoutRetry, Becomes, Inv
    <3>2. LeaderFits(Follower, leader[n], a, health[n])
      BY <2>1, <2>2, StateKinds
    <3> QED  BY <1>1, <2>1, <3>1, <3>2, SteadyTurn
  <2>4. CASE a \notin hosts[n]
    <3>1. Becomes(n, Undefined, leader[n], txLeader[n])
      BY <1>5, <2>4, Stays DEF TimeoutRetry, Becomes, Inv
    <3>2. LeaderFits(Undefined, leader[n], txLeader[n], health[n])
      BY <2>2, StateKinds
    <3> QED  BY <1>1, <2>1, <3>1, <3>2, SteadyTurn
  <2> QED  BY <2>3, <2>4
<1>6. CASE TimeoutLeaderDead(n)
  <2>1. PICK t \in Ts : Becomes(n, LeadershipRequested(t), Local(t), None)
    BY <1>6 DEF TimeoutLeaderDead, TakeOverFromDead, Becomes
  <2>2. Cardinality(hosts[n]) >= QuorumSize
    BY <1>6 DEF TimeoutLeaderDead, MayTakeOver
  <2>3. Cardinality(hosts[n]) \in Nat
    BY HostsFinite DEF Inv, TypeOK, HandlerTypeOK
  <2>4. health[n] /= "Bad"
    BY <2>2, <2>3, QuorumBounds DEF Inv, HealthInv, HealthFits
  <2>5. LeaderFits(LeadershipRequested(t), Local(t), None, health[n])
        /\ Local(t) /= NoLeader
    BY <2>4, LeaderMade, StateKinds
  <2> QED  BY <1>1, <2>1, <2>5, SteadyTurn
<1>7. CASE TimeoutSwitchOver(n)
  <2>1. PICK t \in Ts : SetLeader(n, Local(t)) /\ SetTx(n, None) /\ UNCHANGED state
    BY <1>7 DEF TimeoutSwitchOver
  <2>2. Becomes(n, SwitchOver, Local(t), None)
    BY <1>7, <2>1, Stays DEF TimeoutSwitchOver, Becomes, Inv
  <2>3. LeaderFits(SwitchOver, Local(t), None, health[n]) /\ Local(t) /= NoLeader
    BY LeaderMade, StateKinds
  <2> QED  BY <1>1, <2>2, <2>3, SteadyTurn
<1>8. CASE TimeoutGivesUp(n)
  <2>1. Becomes(n, state[n], NoLeader, txLeader[n]) /\ health[n] = "Bad"
    BY <1>8, Stays DEF TimeoutGivesUp, Becomes, Inv
  <2>2. state[n].is = "LeaderSwitch"
    BY <1>3, <1>8, <2>1 DEF TimeoutGivesUp, LeaderFits
  <2>3. LeaderFits(state[n], NoLeader, txLeader[n], health[n])
    BY <2>2 DEF LeaderFits, Leader, Follower, Retry, LeaderDead
  <2> QED  BY <1>1, <2>1, <2>3, SteadyTurn
<1> QED  BY <1>4, <1>5, <1>6, <1>7, <1>8 DEF Timeout
LEMMA HandlerStepKeeps ==
    ASSUME Inv, NEW n \in Node, HandlerStep(n)
    PROVE  Kept
<1>1. CASE UpdateServer(n)
  BY <1>1, AliveKeeps, DeadKeeps DEF UpdateServer
<1> QED  BY <1>1, ElectionKeeps, SwitchingKeeps, TimeoutKeeps DEF HandlerStep

(* A process that ends counts nobody and knows no leader.                  *)
LEMMA ForgetKeeps ==
    ASSUME Inv, NEW n \in Node, Forget(n)
    PROVE  Kept
<1>1. /\ Becomes(n, Undefined, NoLeader, None)
      /\ SetHealth(n, "Bad")
      /\ hosts' = [hosts EXCEPT ![n] = {}]
      /\ health' = [health EXCEPT ![n] = "Bad"]
  BY DEF Forget, Becomes, SetState, SetLeader, SetTx, SetHealth
<1>2. LeaderFits(Undefined, NoLeader, None, "Bad")
  BY DEF LeaderFits, Undefined, Leader, Follower, Retry, LeaderDead
<1>3. LeaderInv' /\ QuorumHasLeader'
  BY <1>1, <1>2, TurnFits DEF Inv
<1>4. HealthInv'
  <2>1. HealthFits(n)'
    <3>1. hosts'[n] = {} /\ health'[n] = "Bad"
      BY <1>1 DEF Inv, TypeOK, HandlerTypeOK
    <3>2. Cardinality({}) = 0
      BY FS_EmptySet
    <3> QED  BY <3>1, <3>2, QuorumBounds DEF HealthFits
  <2>2. ASSUME NEW m \in Node, m /= n PROVE HealthFits(m)'
    <3>1. hosts'[m] = hosts[m] /\ health'[m] = health[m]
      BY <1>1, <2>2 DEF Inv, TypeOK, HandlerTypeOK
    <3> QED  BY <3>1 DEF Inv, HealthInv, HealthFits
  <2> QED  BY <2>1, <2>2 DEF HealthInv
<1> QED  BY <1>3, <1>4 DEF Kept

LEMMA InvInit == Init => Inv
<1> SUFFICES ASSUME Init PROVE Inv
  OBVIOUS
<1>1. Cardinality({}) = 0
  BY FS_EmptySet
<1>2. HealthInv
  BY <1>1, QuorumBounds DEF Init, HandlerInit, HealthInv, HealthFits
<1>3. LeaderFits(Undefined, NoLeader, None, "Bad")
  BY DEF LeaderFits, Undefined, Leader, Follower, Retry, LeaderDead
<1>4. LeaderInv /\ QuorumHasLeader
  BY <1>3 DEF Init, HandlerInit, LeaderInv, QuorumHasLeader
<1> QED  BY <1>2, <1>4, InitTypes DEF Inv

LEMMA InvStep == Inv /\ [Next]_vars => Inv'
<1> SUFFICES ASSUME Inv, [Next]_vars PROVE Inv'
  OBVIOUS
<1>1. TypeOK'
  BY TypeStep DEF Inv
<1>2. ASSUME NEW n \in Node, NEW m \in Node, Transport(n, m) \/ Failure(n, m)
      PROVE  Kept
  BY <1>2, StillKept DEF Transport, Failure, handlerVars
<1>3. ASSUME NEW n \in Node, HandlerStep(n) PROVE Kept
  BY <1>3, HandlerStepKeeps
<1>4. ASSUME NEW n \in Node, HandlerPanics(n) \/ TimerFires(n) \/ CacheReset(n)
      PROVE  Kept
  BY <1>4, StillKept DEF HandlerPanics, TimerFires, CacheReset
<1>5. ASSUME NEW n \in Node, ProcessStep(n) PROVE Kept
  <2>1. CASE RequestShutdown(n) \/ Restart(n)
    BY <2>1, StillKept DEF RequestShutdown, Restart
  <2>2. CASE HandOver(n) \/ ShutDown(n) \/ Crash(n)
    BY <2>2, ForgetKeeps DEF HandOver, ShutDown, Crash
  <2> QED  BY <1>5, <2>1, <2>2 DEF ProcessStep
<1>6. ASSUME UNCHANGED vars PROVE Kept
  BY <1>6, StillKept DEF vars, handlerVars
<1>7. Kept
  BY <1>2, <1>3, <1>4, <1>5, <1>6 DEF Next
<1> QED  BY <1>1, <1>7 DEF Inv, Kept

LEMMA InvHolds == Spec => []Inv
BY InvInit, InvStep, PTL DEF Spec

-----------------------------------------------------------------------------
(* In clusters of any size, whatever breaks, stops and comes late: health  *)
(* is Bad exactly below a quorum of connected hosts, and Good exactly with *)
(* all of them (quorum.rs, UpdateServer).                                  *)
THEOREM HealthCorrect == Spec => []HealthMatchesHosts
<1>1. Inv => HealthMatchesHosts
  BY DEF Inv, HealthInv, HealthFits, HealthMatchesHosts
<1> QED  BY <1>1, InvHolds, PTL

(* The registered leader always fits the state, so that no unwrap() of a   *)
(* leader or of tx_leader can fail (quorum.rs; lib.rs, cache operations).  *)
THEOREM LeaderCorrect == Spec => []LeaderMatchesState
<1>1. Inv => LeaderMatchesState
  BY DEF Inv, LeaderInv, LeaderFits, LeaderMatchesState
<1> QED  BY <1>1, InvHolds, PTL

(* A member with a quorum has a leader registered or has asked to lead:    *)
(* it never waits for an election that nothing would start.                *)
THEOREM QuorumLed == Spec => []QuorumHasLeader
<1>1. Inv => QuorumHasLeader
  BY DEF Inv
<1> QED  BY <1>1, InvHolds, PTL

(* No unreachable!() of the handler is ever reached, and no unwrap() of    *)
(* its leader fails, but for the one in LeaderSwitchAck (quorum.rs:766).   *)
THEOREM OnePanic == Spec => []OnlySwitchAckPanics
<1>1. Inv => OnlySwitchAckPanics
  <2> SUFFICES ASSUME Inv, NEW n \in Node PROVE ~OtherPanics(n)
    BY DEF OnlySwitchAckPanics
  <2>1. LeaderFits(state[n], leader[n], txLeader[n], health[n])
    BY DEF Inv, LeaderInv
  <2>2. ~(leader[n] = NoLeader /\ AwaitsTxOf(n, Req(n).addr))
    BY <2>1 DEF AwaitsTxOf, LeaderTxAwait, LeaderFits, NoLeader
  <2>3. ~(leader[n].is = "Local" /\ state[n] = Retry)
    BY <2>1 DEF LeaderFits
  <2>4. ~PriorityPanics(n)
    BY <2>1 DEF PriorityPanics, LeaderFits
  <2> QED  BY <2>2, <2>3, <2>4 DEF OtherPanics
<1> QED  BY <1>1, InvHolds, PTL
-----------------------------------------------------------------------------
(* A handler publishes what it has become, or publishes nothing.           *)
LEMMA UpdatePublishes ==
    ASSUME NEW n \in Node, UpdateServer(n)
    PROVE  Publish(n) \/ UNCHANGED watch
<1>1. CASE AliveAwaitedLeader(n) \/ AliveRetriedLeader(n)
  BY <1>1 DEF AliveAwaitedLeader, AliveRetriedLeader, Turn
<1>2. CASE AliveRequestLeadership(n) \/ AliveOther(n)
  BY <1>2 DEF AliveRequestLeadership, AliveOther, Turn
<1>3. CASE DeadLeader(n) \/ DeadLeaderAgain(n)
  BY <1>3 DEF DeadLeader, DeadLeaderAgain, TakeOverFromDead, Turn
<1>4. CASE DeadOther(n) \/ DeadQuorumLost(n)
  BY <1>4 DEF DeadOther, DeadQuorumLost, Turn
<1> QED  BY <1>1, <1>2, <1>3, <1>4 DEF UpdateServer

LEMMA CountAckPublishes ==
    ASSUME NEW n \in Node, NEW tx, NEW own, NEW out, CountAck(n, tx, own, out)
    PROVE  Publish(n)
<1>1. CASE Enough(ackCount[n] + 1)
  BY <1>1 DEF CountAck, Turn
<1>2. CASE ~Enough(ackCount[n] + 1)
  BY <1>2 DEF CountAck, Turn
<1> QED  BY <1>1, <1>2

LEMMA ElectionPublishes ==
    ASSUME NEW n \in Node, Election(n)
    PROVE  Publish(n)
<1>1. CASE LeaderInfoIgnored(n) \/ LeaderInfoNoTx(n) \/ LeaderInfoFollow(n)
  BY <1>1 DEF LeaderInfoIgnored, LeaderInfoNoTx, LeaderInfoFollow, Turn
<1>2. CASE LeaderReqConflict(n) \/ LeaderReqAccepted(n) \/ LeaderReqTooEarly(n)
  BY <1>2 DEF LeaderReqConflict, LeaderReqAccepted, LeaderReqTooEarly, Turn
<1>3. CASE LeaderReqAckNews(n) \/ LeaderReqAckCounted(n) \/ LeaderReqAckOther(n)
  BY <1>3, CountAckPublishes
     DEF LeaderReqAckNews, LeaderReqAckCounted, LeaderReqAckOther, Turn
<1>4. CASE LeaderAcked(n)
  BY <1>4 DEF LeaderAcked, Turn
<1> QED  BY <1>1, <1>2, <1>3, <1>4 DEF Election

LEMMA SwitchingPublishes ==
    ASSUME NEW n \in Node, Switching(n)
    PROVE  Publish(n)
<1>1. CASE LeaderSwitched(n) \/ LeaderSwitchedDead(n)
  BY <1>1 DEF LeaderSwitched, LeaderSwitchedDead, Turn
<1>2. CASE LeaderSwitchAckCounted(n) \/ LeaderSwitchAckOther(n)
  BY <1>2, CountAckPublishes
     DEF LeaderSwitchAckCounted, LeaderSwitchAckOther, Turn
<1>3. CASE PriorityForMe(n) \/ PriorityForOther(n) \/ PriorityIgnored(n)
  BY <1>3 DEF PriorityForMe, PriorityForOther, PriorityIgnored, Turn
<1> QED  BY <1>1, <1>2, <1>3 DEF Switching

LEMMA TimeoutPublishes ==
    ASSUME NEW n \in Node, Timeout(n)
    PROVE  Publish(n) \/ UNCHANGED watch
<1>1. CASE TimeoutRetry(n)
  <2>1. CASE leader[n].addr \in hosts[n]
    BY <1>1, <2>1 DEF TimeoutRetry, Turn
  <2>2. CASE leader[n].addr \notin hosts[n]
    BY <1>1, <2>2 DEF TimeoutRetry, Turn
  <2> QED  BY <2>1, <2>2
<1>2. CASE TimeoutNoLeader(n) \/ TimeoutLeaderDead(n) \/ TimeoutRequested(n)
  BY <1>2 DEF TimeoutNoLeader, TimeoutLeaderDead, TimeoutRequested,
     TakeOverFromDead, Turn
<1>3. CASE TimeoutSwitchOver(n) \/ TimeoutGivesUp(n) \/ TimeoutOther(n)
  BY <1>3 DEF TimeoutSwitchOver, TimeoutGivesUp, TimeoutOther, Turn
<1> QED  BY <1>1, <1>2, <1>3 DEF Timeout

(* What may be read from a member's watch.                                 *)
Usable(w) ==
    /\ w.health /= "Bad" => w.connectedHosts >= QuorumSize
    /\ w.state = Follower => w.txLeader /= None

LEMMA PublishedFits ==
    ASSUME Inv, Inv', PublishedUsable, NEW n \in Node, Publish(n)
    PROVE  PublishedUsable'
<1> DEFINE w == [health |-> health'[n], state |-> state'[n],
                 txLeader |-> txLeader'[n],
                 connectedHosts |-> Cardinality(hosts'[n])]
<1>1. watch' = [watch EXCEPT ![n] = w]
  BY DEF Publish
<1>2. Cardinality(hosts'[n]) \in Nat
  BY HostsFinite DEF Inv, TypeOK, HandlerTypeOK
<1>3. w.health /= "Bad" => w.connectedHosts >= QuorumSize
  BY <1>2, QuorumBounds DEF Inv, HealthInv, HealthFits
<1>4. w.state = Follower => w.txLeader /= None
  <2>1. leader'[n] \in RegisteredLeader
    BY DEF Inv, TypeOK, HandlerTypeOK
  <2>2. w.state = Follower => leader'[n].is = "Remote" /\ w.txLeader = leader'[n].addr
    BY DEF Inv, LeaderInv, LeaderFits
  <2> QED  BY <2>1, <2>2, LeaderFields, NodeAssumption
<1> HIDE DEF w
<1>5. ASSUME NEW m \in Node PROVE Usable(watch'[m])
  <2>1. CASE m = n
    BY <1>1, <1>3, <1>4, <2>1 DEF Usable, Inv, TypeOK, HandlerTypeOK
  <2>2. CASE m /= n
    BY <1>1, <2>2 DEF Usable, PublishedUsable, Inv, TypeOK, HandlerTypeOK
  <2> QED  BY <2>1, <2>2
<1> QED  BY <1>5 DEF Usable, PublishedUsable

LEMMA ForgetPublished ==
    ASSUME Inv, PublishedUsable, NEW n \in Node, Forget(n)
    PROVE  PublishedUsable'
<1>1. watch' = [watch EXCEPT ![n] = DefaultHealthState]
  BY DEF Forget
<1>2. Usable(DefaultHealthState)
  BY DEF Usable, DefaultHealthState, Follower, Undefined
<1>3. ASSUME NEW m \in Node PROVE Usable(watch'[m])
  <2>1. CASE m = n
    BY <1>1, <1>2, <2>1 DEF Inv, TypeOK, HandlerTypeOK
  <2>2. CASE m /= n
    BY <1>1, <2>2 DEF Usable, PublishedUsable, Inv, TypeOK, HandlerTypeOK
  <2> QED  BY <2>1, <2>2
<1> QED  BY <1>3 DEF Usable, PublishedUsable

LEMMA UsableInit == Init => PublishedUsable
BY DEF Init, HandlerInit, DefaultHealthState, Follower, Undefined,
   PublishedUsable

LEMMA UsableStep == Inv /\ Inv' /\ PublishedUsable /\ [Next]_vars => PublishedUsable'
<1> SUFFICES ASSUME Inv, Inv', PublishedUsable, [Next]_vars PROVE PublishedUsable'
  OBVIOUS
<1>1. UNCHANGED watch => PublishedUsable'
  BY DEF PublishedUsable
<1>2. ASSUME NEW n \in Node, NEW m \in Node, Transport(n, m) \/ Failure(n, m)
      PROVE  UNCHANGED watch
  BY <1>2 DEF Transport, Failure
<1>3. ASSUME NEW n \in Node, HandlerStep(n) PROVE PublishedUsable'
  <2>1. Publish(n) \/ UNCHANGED watch
    BY <1>3, UpdatePublishes, ElectionPublishes, SwitchingPublishes,
       TimeoutPublishes DEF HandlerStep
  <2> QED  BY <1>1, <2>1, PublishedFits
<1>4. ASSUME NEW n \in Node, HandlerPanics(n) \/ TimerFires(n) \/ CacheReset(n)
      PROVE  UNCHANGED watch
  BY <1>4 DEF HandlerPanics, TimerFires, CacheReset
<1>5. ASSUME NEW n \in Node, ProcessStep(n) PROVE PublishedUsable'
  <2>1. CASE RequestShutdown(n) \/ Restart(n)
    BY <1>1, <2>1 DEF RequestShutdown, Restart
  <2>2. CASE HandOver(n) \/ ShutDown(n) \/ Crash(n)
    BY <2>2, ForgetPublished DEF HandOver, ShutDown, Crash
  <2> QED  BY <1>5, <2>1, <2>2 DEF ProcessStep
<1>6. CASE UNCHANGED vars
  BY <1>1, <1>6 DEF vars
<1> QED  BY <1>1, <1>2, <1>3, <1>4, <1>5, <1>6 DEF Next

(* Whatever a cache operation reads from the watch channel, and however    *)
(* late, is one state of the handler: a health that promises a quorum      *)
(* comes with one, and a follower with its leader's client, so that the    *)
(* expect() of tx_leader in lib.rs never fails for a follower.             *)
THEOREM PublishedCorrect == Spec => []PublishedUsable
BY UsableInit, UsableStep, InvHolds, PTL DEF Spec
-----------------------------------------------------------------------------
(* Where one host makes a quorum, a follower loses its leader's client     *)
(* only together with the quorum, or by asking to lead itself.             *)
LEMMA FollowerTurn ==
    ASSUME TypeOK, FollowerHasClient, NEW n \in Node, NEW s, NEW l, NEW h,
           SetState(n, s), SetLeader(n, l), SetHosts(n, h),
           s = Follower => l.addr \in h
    PROVE  FollowerHasClient'
<1>1. /\ state' = [state EXCEPT ![n] = s]
      /\ leader' = [leader EXCEPT ![n] = l]
      /\ hosts' = [hosts EXCEPT ![n] = h]
  BY DEF SetState, SetLeader, SetHosts
<1>2. ASSUME NEW m \in Node, state'[m] = Follower PROVE leader'[m].addr \in hosts'[m]
  <2>1. CASE m = n
    BY <1>1, <1>2, <2>1 DEF TypeOK, HandlerTypeOK
  <2>2. CASE m /= n
    BY <1>1, <1>2, <2>2 DEF FollowerHasClient, TypeOK, HandlerTypeOK
  <2> QED  BY <2>1, <2>2
<1> QED  BY <1>2 DEF FollowerHasClient

LEMMA FollowerStill ==
    ASSUME FollowerHasClient, UNCHANGED <<state, leader, hosts>>
    PROVE  FollowerHasClient'
BY DEF FollowerHasClient

(* A turn that leaves the hosts alone, and does not make a follower        *)
(* without a client.                                                       *)
LEMMA FollowerSteady ==
    ASSUME TypeOK, FollowerHasClient, UNCHANGED hosts, NEW n \in Node,
           NEW s, NEW l, SetState(n, s), SetLeader(n, l),
           s = Follower => l.addr \in hosts[n]
    PROVE  FollowerHasClient'
<1>1. SetHosts(n, hosts[n])
  BY DEF SetHosts, TypeOK, HandlerTypeOK
<1> QED  BY <1>1, FollowerTurn

LEMMA NotFollower ==
    ASSUME NEW a, NEW t
    PROVE  Follower \notin {Undefined, SwitchOver, Leader, Retry, LeaderDead,
                            LeaderTxAwait(a), LeadershipRequested(t)}
BY DEF Follower, Undefined, SwitchOver, Leader, Retry, LeaderDead,
   LeaderTxAwait, LeadershipRequested

LEMMA NamedLeaderFollowed ==
    ASSUME NEW n \in Node, NEW a \in Node, NEW t \in Ts,
           FollowOrAwait(n, a) = Follower
    PROVE  Remote(a, t).addr \in hosts[n]
BY NotFollower, LeaderMade DEF FollowOrAwait

LEMMA AliveFollowed ==
    ASSUME Inv, FollowerHasClient, NEW n \in Node,
           \/ AliveAwaitedLeader(n) \/ AliveRetriedLeader(n)
           \/ AliveRequestLeadership(n) \/ AliveOther(n)
    PROVE  FollowerHasClient'
<1> DEFINE m == Req(n).addr
           joined == hosts[n] \cup {m}
           t == leader[n].ts
<1>1. Receives(n, "Alive") /\ SetHosts(n, joined)
  BY DEF AliveAwaitedLeader, AliveRetriedLeader, AliveRequestLeadership,
     AliveOther, HostJoins
<1>2. m \in Node /\ leader[n] \in RegisteredLeader
  BY <1>1, Received DEF Inv, Plain
<1>3. CASE AliveAwaitedLeader(n)
  <2>1. SetState(n, Follower) /\ SetLeader(n, Remote(m, t)) /\ leader[n] /= NoLeader
    BY <1>3 DEF AliveAwaitedLeader
  <2>2. Remote(m, t).addr \in joined
    BY <1>2, <2>1, LeaderFields, LeaderMade
  <2> QED  BY <1>1, <2>1, <2>2, FollowerTurn DEF Inv
<1>4. CASE AliveRetriedLeader(n)
  <2>1. SetState(n, Follower) /\ SetLeader(n, leader[n]) /\ leader[n].addr \in joined
    BY <1>4, Stays DEF AliveRetriedLeader, RetriesFor, Inv
  <2> QED  BY <1>1, <2>1, FollowerTurn DEF Inv
<1>5. CASE AliveRequestLeadership(n)
  <2>1. PICK u \in Ts : SetLeader(n, Local(u)) /\ SetState(n, LeadershipRequested(u))
    BY <1>5 DEF AliveRequestLeadership
  <2> QED  BY <1>1, <2>1, NotFollower, FollowerTurn DEF Inv
<1>6. CASE AliveOther(n)
  <2>1. SetState(n, state[n]) /\ SetLeader(n, leader[n])
    BY <1>6, Stays DEF AliveOther, Inv
  <2>2. state[n] = Follower => leader[n].addr \in joined
    BY DEF FollowerHasClient
  <2> QED  BY <1>1, <2>1, <2>2, FollowerTurn DEF Inv
<1> QED  BY <1>3, <1>4, <1>5, <1>6

LEMMA DeadFollowed ==
    ASSUME QuorumSize <= 1, Inv, FollowerHasClient, NEW n \in Node,
           \/ DeadLeader(n) \/ DeadLeaderAgain(n)
           \/ DeadOther(n) \/ DeadQuorumLost(n)
    PROVE  FollowerHasClient'
<1>1. SetHosts(n, Left(n))
  BY DEF DeadLeader, DeadLeaderAgain, DeadOther, DeadQuorumLost
<1>2. CASE DeadLeader(n)
  <2>1. PICK t \in Ts : SetLeader(n, Local(t)) /\ SetState(n, LeadershipRequested(t))
    BY <1>2 DEF DeadLeader, TakeOverFromDead
  <2> QED  BY <1>1, <2>1, NotFollower, FollowerTurn DEF Inv
<1>3. CASE DeadLeaderAgain(n)
  <2>1. SetState(n, LeaderDead) /\ SetLeader(n, leader[n])
    BY <1>3, Stays DEF DeadLeaderAgain, Inv
  <2> QED  BY <1>1, <2>1, NotFollower, FollowerTurn DEF Inv
<1>4. CASE DeadOther(n)
  <2>1. SetState(n, state[n]) /\ SetLeader(n, leader[n])
    BY <1>4, Stays DEF DeadOther, Inv
  <2>2. ASSUME state[n] = Follower PROVE leader[n].addr \in Left(n)
    <3>1. leader[n].addr \in hosts[n] /\ leader[n].is = "Remote"
      BY <2>2 DEF FollowerHasClient, Inv, LeaderInv, LeaderFits
    <3>2. hosts[n] \in SUBSET Node
      BY DEF Inv, TypeOK, HandlerTypeOK
    <3>3. Cardinality(hosts[n]) \in Nat /\ Cardinality(hosts[n]) /= 0
      BY <3>1, <3>2, HostsFinite, FS_EmptySet
    <3>4. health[n] /= "Bad"
      BY <3>3, QuorumBounds DEF Inv, HealthInv, HealthFits
    <3>5. KeepsQuorum(n) /\ ~LeaderDied(n)
      BY <1>4, <3>4 DEF DeadOther
    <3> QED  BY <3>1, <3>5 DEF LeaderDied, Left
  <2> QED  BY <1>1, <2>1, <2>2, FollowerTurn DEF Inv
<1>5. CASE DeadQuorumLost(n)
  <2>1. SetState(n, Undefined) /\ SetLeader(n, NoLeader)
    BY <1>5 DEF DeadQuorumLost
  <2> QED  BY <1>1, <2>1, NotFollower, FollowerTurn DEF Inv
<1> QED  BY <1>2, <1>3, <1>4, <1>5
LEMMA CountAckFollowed ==
    ASSUME Inv, FollowerHasClient, NEW n \in Node, NEW tx, NEW own, NEW out,
           CountAck(n, tx, own, out)
    PROVE  FollowerHasClient'
<1>1. UNCHANGED <<hosts, leader>>
  BY DEF CountAck
<1>2. CASE Enough(ackCount[n] + 1)
  <2>1. SetState(n, Leader) /\ SetLeader(n, leader[n])
    BY <1>1, <1>2, Stays DEF CountAck, Inv
  <2> QED  BY <1>1, <2>1, NotFollower, FollowerSteady DEF Inv
<1>3. CASE ~Enough(ackCount[n] + 1)
  BY <1>1, <1>3, FollowerStill DEF CountAck
<1> QED  BY <1>2, <1>3

LEMMA ElectionFollowed ==
    ASSUME Inv, FollowerHasClient, NEW n \in Node, Election(n)
    PROVE  FollowerHasClient'
<1> DEFINE a == Req(n).addr
           t == Req(n).ts
<1>1. UNCHANGED hosts
  BY ElectionKeepsHosts
<1>2. \E kind \in Timed : Receives(n, kind)
  BY DEF Election, LeaderInfoIgnored, LeaderInfoNoTx, LeaderInfoFollow,
     LeaderReqConflict, LeaderReqAccepted, LeaderReqTooEarly, LeaderReqAckNews,
     LeaderReqAckCounted, LeaderReqAckOther, LeaderAcked, Timed
<1>3. a \in Node /\ t \in Ts
  BY <1>2, Received DEF Inv
<1>4. CASE LeaderInfoIgnored(n) \/ LeaderReqConflict(n) \/ LeaderReqAckOther(n)
  BY <1>4, FollowerStill
     DEF LeaderInfoIgnored, LeaderReqConflict, LeaderReqAckOther, handlerVars
<1>5. CASE LeaderInfoNoTx(n) \/ LeaderReqAckNews(n)
  <2>1. SetState(n, LeaderTxAwait(a)) /\ SetLeader(n, Remote(a, t))
    BY <1>5 DEF LeaderInfoNoTx, LeaderReqAckNews
  <2> QED  BY <1>1, <2>1, NotFollower, FollowerSteady DEF Inv
<1>6. CASE LeaderInfoFollow(n)
  <2>1. SetState(n, Follower) /\ SetLeader(n, Remote(a, t)) /\ a \in hosts[n]
    BY <1>6 DEF LeaderInfoFollow
  <2>2. Remote(a, t).addr = a
    BY <1>3, LeaderMade
  <2> QED  BY <1>1, <2>1, <2>2, FollowerSteady DEF Inv
<1>7. CASE LeaderReqAccepted(n)
  <2>1. SetState(n, state[n]) /\ SetLeader(n, Remote(a, t)) /\ leader[n] = NoLeader
    BY <1>7, Stays DEF LeaderReqAccepted, Conflict, Inv
  <2>2. state[n] /= Follower
    BY <2>1, NoLeaderStates, NotFollower DEF Inv
  <2> QED  BY <1>1, <2>1, <2>2, FollowerSteady DEF Inv
<1>8. CASE LeaderReqTooEarly(n)
  <2>1. SetState(n, Retry) /\ SetLeader(n, Remote(a, t))
    BY <1>8 DEF LeaderReqTooEarly
  <2> QED  BY <1>1, <2>1, NotFollower, FollowerSteady DEF Inv
<1>9. CASE LeaderReqAckCounted(n)
  BY <1>9, CountAckFollowed DEF LeaderReqAckCounted
<1>10. CASE LeaderAcked(n)
  <2>1. SetState(n, FollowOrAwait(n, a)) /\ SetLeader(n, Remote(a, t))
    BY <1>10 DEF LeaderAcked
  <2> QED  BY <1>1, <1>3, <2>1, NamedLeaderFollowed, FollowerSteady DEF Inv
<1> QED  BY <1>4, <1>5, <1>6, <1>7, <1>8, <1>9, <1>10 DEF Election

LEMMA SwitchingFollowed ==
    ASSUME Inv, FollowerHasClient, NEW n \in Node, Switching(n)
    PROVE  FollowerHasClient'
<1> DEFINE a == Req(n).addr
           t == Req(n).ts
<1>1. UNCHANGED hosts
  BY SwitchingKeepsHosts
<1>2. CASE LeaderSwitched(n)
  <2>1. \E l : SetState(n, SwitchOver) /\ SetLeader(n, l)
    BY <1>2 DEF LeaderSwitched
  <2> QED  BY <1>1, <2>1, NotFollower, FollowerSteady DEF Inv
<1>3. CASE LeaderSwitchedDead(n)
  <2>1. SetState(n, LeaderDead) /\ SetLeader(n, Remote(a, t))
    BY <1>3 DEF LeaderSwitchedDead
  <2> QED  BY <1>1, <2>1, NotFollower, FollowerSteady DEF Inv
<1>4. CASE LeaderSwitchAckCounted(n)
  BY <1>4, CountAckFollowed DEF LeaderSwitchAckCounted
<1>5. CASE LeaderSwitchAckOther(n) \/ PriorityIgnored(n)
  BY <1>5, FollowerStill DEF LeaderSwitchAckOther, PriorityIgnored, handlerVars
<1>6. CASE PriorityForMe(n)
  <2>1. SetState(n, Leader) /\ SetLeader(n, Local(t))
    BY <1>6 DEF PriorityForMe
  <2> QED  BY <1>1, <2>1, NotFollower, FollowerSteady DEF Inv
<1>7. CASE PriorityForOther(n)
  <2>1. SetState(n, FollowOrAwait(n, a)) /\ SetLeader(n, Remote(a, t))
    BY <1>7 DEF PriorityForOther
  <2>2. a \in Node /\ t \in Ts
    BY <1>7, Received DEF PriorityForOther, Timed, Inv
  <2> QED  BY <1>1, <2>1, <2>2, NamedLeaderFollowed, FollowerSteady DEF Inv
<1> QED  BY <1>2, <1>3, <1>4, <1>5, <1>6, <1>7 DEF Switching

LEMMA TimeoutFollowed ==
    ASSUME Inv, FollowerHasClient, NEW n \in Node, Timeout(n)
    PROVE  FollowerHasClient'
<1>1. UNCHANGED hosts
  BY TimeoutKeepsHosts
<1>2. CASE TimeoutNoLeader(n) \/ TimeoutRequested(n) \/ TimeoutOther(n)
  BY <1>2, FollowerStill
     DEF TimeoutNoLeader, TimeoutRequested, TimeoutOther, handlerVars
<1>3. CASE TimeoutRetry(n)
  <2>1. CASE leader[n].addr \in hosts[n]
    <3>1. SetState(n, Follower) /\ SetLeader(n, leader[n])
      BY <1>3, <2>1, Stays DEF TimeoutRetry, Inv
    <3> QED  BY <1>1, <2>1, <3>1, FollowerSteady DEF Inv
  <2>2. CASE leader[n].addr \notin hosts[n]
    <3>1. SetState(n, Undefined) /\ SetLeader(n, leader[n])
      BY <1>3, <2>2, Stays DEF TimeoutRetry, Inv
    <3> QED  BY <1>1, <3>1, NotFollower, FollowerSteady DEF Inv
  <2> QED  BY <2>1, <2>2
<1>4. CASE TimeoutLeaderDead(n)
  <2>1. PICK t \in Ts : SetLeader(n, Local(t)) /\ SetState(n, LeadershipRequested(t))
    BY <1>4 DEF TimeoutLeaderDead, TakeOverFromDead
  <2> QED  BY <1>1, <2>1, NotFollower, FollowerSteady DEF Inv
<1>5. CASE TimeoutSwitchOver(n)
  <2>1. PICK t \in Ts : SetLeader(n, Local(t)) /\ UNCHANGED state
    BY <1>5 DEF TimeoutSwitchOver
  <2>2. SetState(n, SwitchOver)
    BY <1>5, <2>1, Stays DEF TimeoutSwitchOver, Inv
  <2> QED  BY <1>1, <2>1, <2>2, NotFollower, FollowerSteady DEF Inv
<1>6. CASE TimeoutGivesUp(n)
  <2>1. SetState(n, state[n]) /\ SetLeader(n, NoLeader)
    BY <1>6, Stays DEF TimeoutGivesUp, Inv
  <2>2. state[n] /= Follower
    BY <1>6 DEF TimeoutGivesUp, Follower
  <2> QED  BY <1>1, <2>1, <2>2, FollowerSteady DEF Inv
<1> QED  BY <1>2, <1>3, <1>4, <1>5, <1>6 DEF Timeout

LEMMA FollowedInit == Init => FollowerHasClient
BY DEF Init, HandlerInit, Undefined, Follower, FollowerHasClient

LEMMA FollowedStep ==
    QuorumSize <= 1 /\ Inv /\ FollowerHasClient /\ [Next]_vars => FollowerHasClient'
<1> SUFFICES ASSUME QuorumSize <= 1, Inv, FollowerHasClient, [Next]_vars
             PROVE  FollowerHasClient'
  OBVIOUS
<1>1. ASSUME NEW n \in Node, NEW m \in Node, Transport(n, m) \/ Failure(n, m)
      PROVE  FollowerHasClient'
  BY <1>1, FollowerStill DEF Transport, Failure, handlerVars
<1>2. ASSUME NEW n \in Node, HandlerStep(n) PROVE FollowerHasClient'
  <2>1. CASE UpdateServer(n)
    BY <2>1, AliveFollowed, DeadFollowed DEF UpdateServer
  <2> QED
    BY <1>2, <2>1, ElectionFollowed, SwitchingFollowed, TimeoutFollowed
       DEF HandlerStep
<1>3. ASSUME NEW n \in Node, HandlerPanics(n) \/ TimerFires(n) \/ CacheReset(n)
      PROVE  FollowerHasClient'
  BY <1>3, FollowerStill DEF HandlerPanics, TimerFires, CacheReset, handlerVars
<1>4. ASSUME NEW n \in Node, ProcessStep(n) PROVE FollowerHasClient'
  <2>1. CASE RequestShutdown(n) \/ Restart(n)
    BY <2>1, FollowerStill DEF RequestShutdown, Restart, handlerVars
  <2>2. CASE HandOver(n) \/ ShutDown(n) \/ Crash(n)
    <3>1. SetState(n, Undefined) /\ SetLeader(n, NoLeader) /\ SetHosts(n, {})
      BY <2>2 DEF HandOver, ShutDown, Crash, Forget, SetState, SetLeader, SetHosts
    <3> QED  BY <3>1, NotFollower, FollowerTurn DEF Inv
  <2> QED  BY <1>4, <2>1, <2>2 DEF ProcessStep
<1>5. CASE UNCHANGED vars
  BY <1>5, FollowerStill DEF vars, handlerVars
<1> QED  BY <1>1, <1>2, <1>3, <1>4, <1>5 DEF Next

(* In clusters of two and three members a follower is always connected to  *)
(* its leader: when that connection is lost it loses the quorum or asks to *)
(* lead, in the same turn (quorum.rs, UpdateServer).  With five members it *)
(* is not so.                                                              *)
THEOREM FollowersConnected ==
    ASSUME Cardinality(Node) <= 3
    PROVE  Spec => []FollowerHasClient
<1>1. QuorumSize <= 1
  <2>1. Cardinality(Node) \in Nat
    BY FS_CardinalityType, NodeAssumption
  <2> QED  BY <2>1, SMT DEF QuorumSize, ClientsCount
<1>2. Inv /\ FollowerHasClient /\ [Next]_vars => FollowerHasClient'
  BY <1>1, FollowedStep
<1> QED  BY <1>2, FollowedInit, InvHolds, PTL DEF Spec

-----------------------------------------------------------------------------
(* A turn of a handler takes one request, puts back at most one message of *)
(* its own, and leaves the connections alone.                              *)
TakesTurn(n) ==
    /\ mailbox[n] /= <<>>
    /\ Take(n, <<>>) \/ \E r \in Message : Take(n, <<r>>)
    /\ UNCHANGED <<phase, link, leaked>>

LEMMA ConflictTurn ==
    ASSUME NEW n \in Node, NEW a \in Node, NEW t \in Ts, mailbox[n] /= <<>>,
           NEW out, Turn(n, ConflictOwn(n, a, t), out)
    PROVE  TakesTurn(n)
<1>1. LeaderSwitchPriority(a, t) \in Message
  BY MessageMade
<1>2. ConflictOwn(n, a, t) \in {<<>>, <<LeaderSwitchPriority(a, t)>>}
  BY DEF ConflictOwn
<1>3. Take(n, <<>>) \/ Take(n, <<LeaderSwitchPriority(a, t)>>)
  BY <1>2 DEF Turn
<1> QED  BY <1>1, <1>3 DEF TakesTurn, Turn, sameStreams

LEMMA UpdateTurn ==
    ASSUME NEW n \in Node, UpdateServer(n)
    PROVE  TakesTurn(n)
<1>1. CASE \/ AliveAwaitedLeader(n) \/ AliveRetriedLeader(n)
           \/ AliveRequestLeadership(n) \/ AliveOther(n)
  BY <1>1 DEF AliveAwaitedLeader, AliveRetriedLeader, AliveRequestLeadership,
     AliveOther, Turn, sameStreams, TakesTurn, Receives
<1>2. CASE \/ DeadLeader(n) \/ DeadLeaderAgain(n)
           \/ DeadOther(n) \/ DeadQuorumLost(n)
  BY <1>2 DEF DeadLeader, TakeOverFromDead, DeadLeaderAgain, DeadOther,
     DeadQuorumLost, Turn, sameStreams, TakesTurn, Receives
<1> QED  BY <1>1, <1>2 DEF UpdateServer

LEMMA CountAckTurn ==
    ASSUME NEW n \in Node, NEW tx, NEW own, NEW out, CountAck(n, tx, own, out)
    PROVE  \E o : Turn(n, own, o)
BY DEF CountAck

LEMMA ElectionTurn ==
    ASSUME TypeOK, NEW n \in Node, Election(n)
    PROVE  TakesTurn(n)
<1> DEFINE a == Req(n).addr
           t == Req(n).ts
<1>1. \E kind \in Timed : Receives(n, kind)
  BY DEF Election, LeaderInfoIgnored, LeaderInfoNoTx, LeaderInfoFollow,
     LeaderReqConflict, LeaderReqAccepted, LeaderReqTooEarly, LeaderReqAckNews,
     LeaderReqAckCounted, LeaderReqAckOther, LeaderAcked, Timed
<1>2. a \in Node /\ t \in Ts /\ mailbox[n] /= <<>>
  BY <1>1, Received
<1>3. CASE LeaderInfoIgnored(n) \/ LeaderReqConflict(n) \/ LeaderReqAckOther(n)
           \/ LeaderInfoNoTx(n) \/ LeaderInfoFollow(n)
  <2>1. \E out : Turn(n, ConflictOwn(n, a, t), out)
    BY <1>3 DEF LeaderInfoIgnored, LeaderReqConflict, LeaderReqAckOther,
       LeaderInfoNoTx, LeaderInfoFollow
  <2> QED  BY <1>2, <2>1, ConflictTurn
<1>4. CASE LeaderReqAckCounted(n)
  <2>1. \E out : Turn(n, ConflictOwn(n, n, t), out)
    BY <1>4, CountAckTurn DEF LeaderReqAckCounted
  <2> QED  BY <1>2, <2>1, ConflictTurn
<1>5. CASE LeaderReqAccepted(n)
  BY <1>2, <1>5 DEF LeaderReqAccepted, TakesTurn
<1>6. CASE LeaderReqTooEarly(n) \/ LeaderReqAckNews(n) \/ LeaderAcked(n)
  BY <1>2, <1>6 DEF LeaderReqTooEarly, LeaderReqAckNews, LeaderAcked, TakesTurn,
     Turn, sameStreams
<1> QED  BY <1>3, <1>4, <1>5, <1>6 DEF Election

LEMMA SwitchingTurn ==
    ASSUME NEW n \in Node, Switching(n)
    PROVE  TakesTurn(n)
<1>1. CASE LeaderSwitchAckCounted(n)
  <2>1. \E out : Turn(n, <<>>, out)
    BY <1>1, CountAckTurn DEF LeaderSwitchAckCounted
  <2> QED
    BY <1>1, <2>1 DEF LeaderSwitchAckCounted, Turn, sameStreams, TakesTurn, Receives
<1>2. CASE ~LeaderSwitchAckCounted(n)
  BY <1>2 DEF Switching, LeaderSwitched, LeaderSwitchedDead, LeaderSwitchAckOther,
     PriorityForMe, PriorityForOther, PriorityIgnored, Turn, sameStreams, TakesTurn,
     Receives
<1> QED  BY <1>1, <1>2

LEMMA TimeoutTurn ==
    ASSUME NEW n \in Node, Timeout(n)
    PROVE  TakesTurn(n)
<1>1. CASE TimeoutNoLeader(n) \/ TimeoutRetry(n) \/ TimeoutLeaderDead(n)
  BY <1>1 DEF TimeoutNoLeader, TimeoutRetry, TimeoutLeaderDead, TakeOverFromDead,
     Turn, sameStreams, TakesTurn, Receives
<1>2. CASE \/ TimeoutRequested(n) \/ TimeoutSwitchOver(n)
           \/ TimeoutGivesUp(n) \/ TimeoutOther(n)
  BY <1>2 DEF TimeoutRequested, TimeoutSwitchOver, TimeoutGivesUp, TimeoutOther,
     Turn, sameStreams, TakesTurn, Receives
<1> QED  BY <1>1, <1>2 DEF Timeout

LEMMA HandlerTurn ==
    ASSUME TypeOK, NEW n \in Node, HandlerStep(n)
    PROVE  TakesTurn(n)
BY UpdateTurn, ElectionTurn, SwitchingTurn, TimeoutTurn DEF HandlerStep

-----------------------------------------------------------------------------
(* A process that is gone has left no leader, no host, no request and no   *)
(* connection behind for the one that is started after it.                 *)
Gone(n) ==
    /\ leader[n] = NoLeader
    /\ hosts[n] = {}
    /\ mailbox[n] = <<>>
    /\ \A m \in Node : link[n][m] = "down"

GoneInv == \A n \in Node : phase[n] = "off" => Gone(n)

CheckPending(n) ==
    timers[n] > 0 \/ \E i \in DOMAIN mailbox[n] : mailbox[n][i] = CheckElectionTimeout

(* A turn of n leaves the waiting of others alone; n starts a timeout,     *)
(* waits no more, or goes on waiting without having taken a check.         *)
Renews(n) ==
    /\ \A m \in Node \ {n} :
           leader'[m] = leader[m] /\ state'[m] = state[m] /\ timers'[m] = timers[m]
    /\ \/ timers'[n] > 0
       \/ ~Waits(n)'
       \/ /\ timers'[n] = timers[n]
          /\ Waits(n)' => Waits(n)
          /\ Req(n).is /= "CheckElectionTimeout"

LEMMA Arms ==
    ASSUME TypeOK, NEW n \in Node, Arm(n)
    PROVE  timers'[n] > 0 /\ \A m \in Node \ {n} : timers'[m] = timers[m]
BY TimerBound DEF Arm, TypeOK, HandlerTypeOK

(* What a turn that starts no timeout has to show.                         *)
LEMMA SettlesDown ==
    ASSUME TypeOK, NEW n \in Node, NEW s \in QuorumState, NEW l \in RegisteredLeader,
           SetState(n, s), SetLeader(n, l), UNCHANGED timers,
           l = NoLeader \/ s.is \notin {"LeadershipRequested", "LeaderSwitch", "Retry"}
    PROVE  Renews(n)
BY DEF Renews, Waits, SetState, SetLeader, TypeOK, HandlerTypeOK

LEMMA StaysPut ==
    ASSUME NEW n \in Node, UNCHANGED <<state, leader, timers>>,
           Req(n).is /= "CheckElectionTimeout"
    PROVE  Renews(n)
BY DEF Renews, Waits

LEMMA Rearms ==
    ASSUME TypeOK, NEW n \in Node, NEW s, NEW l,
           SetState(n, s), SetLeader(n, l), Arm(n)
    PROVE  Renews(n)
BY Arms DEF Renews, SetState, SetLeader, TypeOK, HandlerTypeOK

LEMMA QuietStates ==
    ASSUME NEW n, NEW a \in Node
    PROVE  \A s \in {Leader, LeaderDead, Follower, Undefined, LeaderTxAwait(a),
                     FollowOrAwait(n, a)} :
               /\ s \in QuorumState
               /\ s.is \notin {"LeadershipRequested", "LeaderSwitch", "Retry"}
BY SimpleStates, StateMade
   DEF Leader, LeaderDead, Follower, Undefined, LeaderTxAwait, FollowOrAwait, QuorumState

LEMMA UpdateRenews ==
    ASSUME TypeOK, NEW n \in Node, UpdateServer(n)
    PROVE  Renews(n)
<1> DEFINE m == Req(n).addr
<1>1. \E kind \in {"Alive", "Dead"} : Receives(n, kind)
  BY DEF UpdateServer, AliveAwaitedLeader, AliveRetriedLeader,
     AliveRequestLeadership, AliveOther, DeadLeader, DeadLeaderAgain, DeadOther,
     DeadQuorumLost
<1>2. /\ m \in Node /\ leader[n] \in RegisteredLeader
      /\ Req(n).is /= "CheckElectionTimeout"
  BY <1>1, Received DEF Plain
<1>3. CASE AliveAwaitedLeader(n)
  <2>1. Remote(m, leader[n].ts) \in RegisteredLeader
    BY <1>2, <1>3, LeaderFields, LeaderMade DEF AliveAwaitedLeader
  <2>2. SetState(n, Follower) /\ SetLeader(n, Remote(m, leader[n].ts)) /\ UNCHANGED timers
    BY <1>3 DEF AliveAwaitedLeader
  <2> QED  BY <1>2, <2>1, <2>2, QuietStates, SettlesDown
<1>4. CASE AliveRetriedLeader(n)
  <2>1. SetState(n, Follower) /\ SetLeader(n, leader[n]) /\ UNCHANGED timers
    BY <1>4, Stays DEF AliveRetriedLeader
  <2> QED  BY <1>2, <2>1, QuietStates, SettlesDown
<1>5. CASE AliveRequestLeadership(n)
  BY <1>5, Rearms DEF AliveRequestLeadership
<1>6. CASE AliveOther(n) \/ DeadLeaderAgain(n) \/ DeadOther(n)
  BY <1>2, <1>6, StaysPut DEF AliveOther, DeadLeaderAgain, DeadOther
<1>7. CASE DeadLeader(n)
  BY <1>7, Rearms DEF DeadLeader, TakeOverFromDead
<1>8. CASE DeadQuorumLost(n)
  BY <1>2, <1>8, QuietStates, SettlesDown, NoneLeaderMade DEF DeadQuorumLost
<1> QED  BY <1>3, <1>4, <1>5, <1>6, <1>7, <1>8 DEF UpdateServer

LEMMA CountAckRenews ==
    ASSUME TypeOK, NEW n \in Node, NEW tx, NEW own, NEW out,
           CountAck(n, tx, own, out), Req(n).is /= "CheckElectionTimeout"
    PROVE  Renews(n)
<1>1. CASE Enough(ackCount[n] + 1)
  <2>1. SetState(n, Leader) /\ SetLeader(n, leader[n]) /\ UNCHANGED timers
    BY <1>1, Stays DEF CountAck
  <2>2. leader[n] \in RegisteredLeader
    BY DEF TypeOK, HandlerTypeOK
  <2> QED  BY <2>1, <2>2, QuietStates, SettlesDown
<1>2. CASE ~Enough(ackCount[n] + 1)
  BY <1>2, StaysPut DEF CountAck
<1> QED  BY <1>1, <1>2

LEMMA ElectionRenews ==
    ASSUME TypeOK, NEW n \in Node, Election(n)
    PROVE  Renews(n)
<1> DEFINE a == Req(n).addr
           t == Req(n).ts
<1>1. \E kind \in Timed : Receives(n, kind)
  BY DEF Election, LeaderInfoIgnored, LeaderInfoNoTx, LeaderInfoFollow,
     LeaderReqConflict, LeaderReqAccepted, LeaderReqTooEarly, LeaderReqAckNews,
     LeaderReqAckCounted, LeaderReqAckOther, LeaderAcked, Timed
<1>2. /\ a \in Node /\ t \in Ts /\ Remote(a, t) \in RegisteredLeader
      /\ Req(n).is /= "CheckElectionTimeout"
  BY <1>1, Received, LeaderMade DEF Timed
<1>3. CASE LeaderInfoIgnored(n) \/ LeaderReqConflict(n) \/ LeaderReqAckOther(n)
  BY <1>2, <1>3, StaysPut
     DEF LeaderInfoIgnored, LeaderReqConflict, LeaderReqAckOther, handlerVars
<1>4. CASE LeaderInfoNoTx(n) \/ LeaderInfoFollow(n) \/ LeaderAcked(n)
  <2>1. /\ \E s \in {Follower, LeaderTxAwait(a), FollowOrAwait(n, a)} : SetState(n, s)
        /\ SetLeader(n, Remote(a, t)) /\ UNCHANGED timers
    BY <1>4 DEF LeaderInfoNoTx, LeaderInfoFollow, LeaderAcked
  <2> QED  BY <1>2, <2>1, QuietStates, SettlesDown
<1>5. CASE LeaderReqAccepted(n)
  <2>1. SetState(n, state[n]) /\ SetLeader(n, Remote(a, t)) /\ Arm(n)
    BY <1>5, Stays DEF LeaderReqAccepted
  <2> QED  BY <2>1, Rearms
<1>6. CASE LeaderReqTooEarly(n) \/ LeaderReqAckNews(n)
  BY <1>6, Rearms DEF LeaderReqTooEarly, LeaderReqAckNews
<1>7. CASE LeaderReqAckCounted(n)
  BY <1>2, <1>7, CountAckRenews DEF LeaderReqAckCounted
<1> QED  BY <1>3, <1>4, <1>5, <1>6, <1>7 DEF Election

LEMMA SwitchingRenews ==
    ASSUME TypeOK, NEW n \in Node, Switching(n)
    PROVE  Renews(n)
<1> DEFINE a == Req(n).addr
           t == Req(n).ts
<1>1. \E kind \in Timed \cup Plain : Receives(n, kind)
  BY DEF Switching, LeaderSwitched, LeaderSwitchedDead, LeaderSwitchAckCounted,
     LeaderSwitchAckOther, PriorityForMe, PriorityForOther, PriorityIgnored, Timed,
     Plain
<1>2. Req(n).is /= "CheckElectionTimeout"
  BY <1>1, Received DEF Timed, Plain
<1>3. CASE LeaderSwitched(n)
  <2>1. \E l : SetState(n, SwitchOver) /\ SetLeader(n, l) /\ Arm(n)
    BY <1>3 DEF LeaderSwitched
  <2> QED  BY <2>1, Rearms
<1>4. CASE LeaderSwitchedDead(n)
  BY <1>4, Rearms DEF LeaderSwitchedDead
<1>5. CASE LeaderSwitchAckCounted(n)
  BY <1>2, <1>5, CountAckRenews DEF LeaderSwitchAckCounted
<1>6. CASE LeaderSwitchAckOther(n) \/ PriorityIgnored(n)
  BY <1>2, <1>6, StaysPut DEF LeaderSwitchAckOther, PriorityIgnored, handlerVars
<1>7. CASE PriorityForMe(n) \/ PriorityForOther(n)
  <2>1. a \in Node /\ t \in Ts
    BY <1>7, Received DEF PriorityForMe, PriorityForOther, Timed
  <2>2. Local(t) \in RegisteredLeader /\ Remote(a, t) \in RegisteredLeader
    BY <2>1, LeaderMade
  <2>3. /\ \E s \in {Leader, FollowOrAwait(n, a)} : SetState(n, s)
        /\ \E l \in {Local(t), Remote(a, t)} : SetLeader(n, l)
        /\ UNCHANGED timers
    BY <1>7 DEF PriorityForMe, PriorityForOther
  <2> QED  BY <2>1, <2>2, <2>3, QuietStates, SettlesDown
<1> QED  BY <1>3, <1>4, <1>5, <1>6, <1>7 DEF Switching

LEMMA TimeoutRenews ==
    ASSUME TypeOK, NEW n \in Node, Timeout(n)
    PROVE  Renews(n)
<1>1. leader[n] \in RegisteredLeader /\ state[n] \in QuorumState
  BY DEF TypeOK, HandlerTypeOK
<1>2. CASE TimeoutNoLeader(n)
  BY <1>2 DEF TimeoutNoLeader, Renews, Waits, handlerVars
<1>3. CASE TimeoutRetry(n)
  <2>1. CASE leader[n].addr \in hosts[n]
    BY <1>3, <2>1, Stays, Rearms DEF TimeoutRetry
  <2>2. CASE leader[n].addr \notin hosts[n]
    <3>1. SetState(n, Undefined) /\ SetLeader(n, leader[n]) /\ UNCHANGED timers
      BY <1>3, <2>2, Stays DEF TimeoutRetry
    <3>2. leader[n].addr \in Node
      BY <1>1, <1>3, LeaderFields DEF TimeoutRetry
    <3> QED  BY <1>1, <3>1, <3>2, QuietStates, SettlesDown
  <2> QED  BY <2>1, <2>2
<1>4. CASE TimeoutLeaderDead(n)
  BY <1>4, Rearms DEF TimeoutLeaderDead, TakeOverFromDead
<1>5. CASE TimeoutRequested(n)
  <2>1. SetState(n, state[n]) /\ SetLeader(n, leader[n]) /\ Arm(n)
    BY <1>5, Stays DEF TimeoutRequested, handlerVars
  <2> QED  BY <2>1, Rearms
<1>6. CASE TimeoutSwitchOver(n)
  <2>1. \E l : SetState(n, state[n]) /\ SetLeader(n, l) /\ Arm(n)
    BY <1>6, Stays DEF TimeoutSwitchOver
  <2> QED  BY <2>1, Rearms
<1>7. CASE TimeoutGivesUp(n)
  <2>1. SetState(n, state[n]) /\ SetLeader(n, NoLeader) /\ UNCHANGED timers
    BY <1>7, Stays DEF TimeoutGivesUp
  <2> QED  BY <1>1, <2>1, NoneLeaderMade, SettlesDown
<1>8. CASE TimeoutOther(n)
  BY <1>8 DEF TimeoutOther, Renews, Waits, handlerVars, LeaderDead
<1> QED  BY <1>2, <1>3, <1>4, <1>5, <1>6, <1>7, <1>8 DEF Timeout

LEMMA HandlerRenews ==
    ASSUME TypeOK, NEW n \in Node, HandlerStep(n)
    PROVE  Renews(n)
BY UpdateRenews, ElectionRenews, SwitchingRenews, TimeoutRenews DEF HandlerStep

(* What a turn does to the hosts that are counted.                         *)
HostsAfter(n) ==
    IF Req(n).is = "Alive" THEN hosts[n] \cup {Req(n).addr}
    ELSE IF Req(n).is = "Dead" THEN Left(n)
    ELSE hosts[n]

LEMMA HandlerCounts ==
    ASSUME TypeOK, NEW n \in Node, HandlerStep(n)
    PROVE  SetHosts(n, HostsAfter(n))
<1>1. CASE UpdateServer(n)
  <2>1. CASE \/ AliveAwaitedLeader(n) \/ AliveRetriedLeader(n)
             \/ AliveRequestLeadership(n) \/ AliveOther(n)
    BY <2>1 DEF AliveAwaitedLeader, AliveRetriedLeader, AliveRequestLeadership,
       AliveOther, HostJoins, Receives, Req, HostsAfter
  <2>2. CASE \/ DeadLeader(n) \/ DeadLeaderAgain(n)
             \/ DeadOther(n) \/ DeadQuorumLost(n)
    BY <2>2 DEF DeadLeader, DeadLeaderAgain, DeadOther, DeadQuorumLost, Receives,
       Req, HostsAfter
  <2> QED  BY <1>1, <2>1, <2>2 DEF UpdateServer
<1>2. CASE Election(n) \/ Switching(n) \/ Timeout(n)
  <2>1. UNCHANGED hosts
    BY <1>2, ElectionKeepsHosts, SwitchingKeepsHosts, TimeoutKeepsHosts
  <2>2. HostsAfter(n) = hosts[n]
    <3>1. CASE Election(n)
      <4>1. \E kind \in Timed : Receives(n, kind)
        BY <3>1 DEF Election, LeaderInfoIgnored, LeaderInfoNoTx, LeaderInfoFollow,
           LeaderReqConflict, LeaderReqAccepted, LeaderReqTooEarly,
           LeaderReqAckNews, LeaderReqAckCounted, LeaderReqAckOther, LeaderAcked,
           Timed
      <4> QED  BY <4>1 DEF Receives, Req, Timed, HostsAfter
    <3>2. CASE Switching(n)
      <4>1. \E kind \in {"LeaderSwitch", "LeaderSwitchDead", "LeaderSwitchAck",
                         "LeaderSwitchPriority"} : Receives(n, kind)
        BY <3>2 DEF Switching, LeaderSwitched, LeaderSwitchedDead,
           LeaderSwitchAckCounted, LeaderSwitchAckOther, PriorityForMe,
           PriorityForOther, PriorityIgnored
      <4> QED  BY <4>1 DEF Receives, Req, HostsAfter
    <3>3. CASE Timeout(n)
      <4>1. Receives(n, "CheckElectionTimeout")
        BY <3>3 DEF Timeout, TimeoutNoLeader, TimeoutRetry, TimeoutLeaderDead,
           TimeoutRequested, TimeoutSwitchOver, TimeoutGivesUp, TimeoutOther
      <4> QED  BY <4>1 DEF Receives, Req, HostsAfter
    <3> QED  BY <1>2, <3>1, <3>2, <3>3
  <2> QED  BY <2>1, <2>2 DEF SetHosts, TypeOK, HandlerTypeOK
<1> QED  BY <1>1, <1>2 DEF HandlerStep

-----------------------------------------------------------------------------
(* What n's client of m does to the connection, seen from its reports.     *)
LinkGoes(n, m) ==
    /\ link'[n][m] /= "down" => link[n][m] /= "down"
    /\ link'[n][m] = "down" /\ (link[n][m] /= "down" \/ leaked[n][m] > 0) =>
           leaked'[n][m] > 0

NewsOf(m) == {Alive(m), Dead(m)}

(* A connection goes up or down with the report of it; what else is put    *)
(* into a mailbox says nothing of it.                                      *)
Reports(n, m) ==
    \/ mailbox'[n] = mailbox[n] /\ LinkGoes(n, m)
    \/ /\ \E r \in Request(n) \ NewsOf(m) : mailbox'[n] = Append(mailbox[n], r)
       /\ LinkGoes(n, m)
    \/ mailbox'[n] = Append(mailbox[n], Alive(m)) /\ link'[n][m] /= "down"
    \/ mailbox'[n] = Append(mailbox[n], Dead(m)) /\ link'[n][m] = "down"

LEMMA SaysNothing ==
    ASSUME NEW n \in Node, NEW m
    PROVE  /\ Message \cap NewsOf(m) = {}
           /\ {CheckElectionTimeout, HostShutdown} \cap NewsOf(m) = {}
           /\ \A a : a /= m => {Alive(a), Dead(a)} \cap NewsOf(m) = {}
BY SMT DEF Message, NewsOf, Alive, Dead, CheckElectionTimeout, HostShutdown

LEMMA LinkStays ==
    ASSUME NEW n, NEW m, link'[n][m] = link[n][m],
           leaked[n][m] > 0 => leaked'[n][m] > 0
    PROVE  LinkGoes(n, m)
BY DEF LinkGoes

LEMMA EnqueueReports ==
    ASSUME TypeOK, NEW n \in Node, NEW r \in Request(n), Enqueue(n, r),
           NEW a \in Node, NEW b \in Node, LinkGoes(a, b),
           a = n => r \notin NewsOf(b)
    PROVE  Reports(a, b)
BY DEF Enqueue, Reports, TypeOK, StreamsTypeOK, MailboxTypeOK

LEMMA ConnectReports ==
    ASSUME TypeOK, NEW n \in Node, NEW m \in Node, Connect(n, m),
           NEW a \in Node, NEW b \in Node
    PROVE  Reports(a, b)
<1>1. /\ n /= m /\ Enqueue(n, Alive(m))
      /\ link' = [link EXCEPT ![n][m] = "connected"]
      /\ \A x, y \in Node : <<x, y>> /= <<n, m>> => leaked'[x][y] = leaked[x][y]
  BY DEF Connect, TypeOK, StreamsTypeOK
<1>2. CASE a = n /\ b = m
  BY <1>1, <1>2 DEF Enqueue, Reports, TypeOK, StreamsTypeOK, MailboxTypeOK
<1>3. CASE <<a, b>> /= <<n, m>>
  <2>1. LinkGoes(a, b)
    <3>1. link'[a][b] = link[a][b]
      BY <1>1, <1>3 DEF TypeOK, StreamsTypeOK
    <3>2. leaked'[a][b] = leaked[a][b]
      BY <1>1, <1>3
    <3> QED  BY <3>1, <3>2 DEF LinkGoes
  <2>2. Alive(m) \in Request(n) /\ (a = n => Alive(m) \notin NewsOf(b))
    BY <1>1, <1>3, RequestMade, SaysNothing
  <2> QED  BY <1>1, <2>1, <2>2, EnqueueReports
<1> QED  BY <1>2, <1>3

LEMMA BreakReports ==
    ASSUME TypeOK, NEW n \in Node, NEW m \in Node, Break(n, m),
           NEW a \in Node, NEW b \in Node
    PROVE  Reports(a, b)
<1>1. /\ Enqueue(n, Dead(m)) /\ link[n][m] /= "down"
      /\ link' = [link EXCEPT ![n][m] = "down"] /\ UNCHANGED leaked
  BY DEF Break
<1>2. n /= m
  BY <1>1 DEF TypeOK, StreamsTypeOK
<1>3. CASE a = n /\ b = m
  BY <1>1, <1>3 DEF Enqueue, Reports, TypeOK, StreamsTypeOK, MailboxTypeOK
<1>4. CASE <<a, b>> /= <<n, m>>
  <2>1. LinkGoes(a, b)
    BY <1>1, <1>4, LinkStays DEF TypeOK, StreamsTypeOK
  <2>2. Dead(m) \in Request(n) /\ (a = n => Dead(m) \notin NewsOf(b))
    BY <1>2, <1>4, RequestMade, SaysNothing
  <2> QED  BY <1>1, <2>1, <2>2, EnqueueReports
<1> QED  BY <1>3, <1>4

LEMMA StreamReports ==
    ASSUME TypeOK, NEW n \in Node, NEW m \in Node,
           Transport(n, m) \/ Failure(n, m), NEW a \in Node, NEW b \in Node
    PROVE  Reports(a, b)
<1>1. CASE Connect(n, m) \/ Break(n, m)
  BY <1>1, ConnectReports, BreakReports
<1>2. CASE DeliverRequest(n, m) \/ DeliverAck(n, m)
  <2>1. LinkGoes(a, b)
    <3>1. UNCHANGED <<link, leaked>>
      BY <1>2 DEF DeliverRequest, DeliverAck
    <3> QED  BY <3>1 DEF LinkGoes
  <2>2. CASE DeliverRequest(n, m)
    <3>1. wire[n][m] \in Seq(Message) /\ wire[n][m] /= <<>>
      BY <2>2 DEF DeliverRequest, TypeOK, StreamsTypeOK
    <3>2. Head(wire[n][m]) \in Message
      BY <3>1, HeadTailProperties
    <3> QED
      BY <2>1, <2>2, <3>2, RequestMade, SaysNothing, EnqueueReports
         DEF DeliverRequest
  <2>3. CASE DeliverAck(n, m)
    <3>1. acks[n][m] \in Seq(Message) /\ acks[n][m] /= <<>>
      BY <2>3 DEF DeliverAck, TypeOK, StreamsTypeOK
    <3>2. Head(acks[n][m]) \in Message
      BY <3>1, HeadTailProperties
    <3> QED
      BY <2>1, <2>3, <3>2, RequestMade, SaysNothing, EnqueueReports DEF DeliverAck
  <2> QED  BY <1>2, <2>2, <2>3
<1>3. CASE OpenStream(n, m, Report(m))
  BY <1>3 DEF OpenStream, Reports, LinkGoes, TypeOK, StreamsTypeOK
<1>4. CASE OpenFails(n, m)
  <2>1. /\ leaked[n][m] \in Nat /\ UNCHANGED mailbox
        /\ leaked'[n][m] = leaked[n][m] + 1 /\ link'[n][m] = "down"
        /\ <<a, b>> /= <<n, m>> =>
               leaked'[a][b] = leaked[a][b] /\ link'[a][b] = link[a][b]
    BY <1>4 DEF OpenFails, TypeOK, StreamsTypeOK
  <2>2. LinkGoes(a, b)
    <3>1. CASE a = n /\ b = m
      BY <2>1, <3>1 DEF LinkGoes
    <3>2. CASE <<a, b>> /= <<n, m>>
      BY <2>1, <3>2 DEF LinkGoes
    <3> QED  BY <3>1, <3>2
  <2> QED  BY <2>1, <2>2 DEF Reports
<1>5. CASE LeakedForwarderTakes(n, m)
  BY <1>5 DEF LeakedForwarderTakes, Queued, Reports, LinkGoes, TypeOK, StreamsTypeOK
<1>6. CASE LoseRest(n, m)
  BY <1>6, LinkStays DEF LoseRest, Reports
<1> QED  BY <1>1, <1>2, <1>3, <1>4, <1>5, <1>6 DEF Transport, Failure

(* Only a member whose process runs is given anything.                     *)
LEMMA StreamGives ==
    ASSUME TypeOK, GoneInv, NEW n \in Node, NEW m \in Node,
           Transport(n, m) \/ Failure(n, m), NEW a \in Node, phase[a] = "off"
    PROVE  /\ mailbox'[a] = mailbox[a]
           /\ \A b \in Node : link'[a][b] = "down"
<1>1. \A b \in Node : link[a][b] = "down"
  BY DEF GoneInv, Gone
<1>2. mailbox'[a] = mailbox[a]
  <2>1. CASE \/ Connect(n, m) \/ Break(n, m)
             \/ DeliverRequest(n, m) \/ DeliverAck(n, m)
    BY <2>1 DEF Connect, Break, DeliverRequest, DeliverAck, Enqueue, TypeOK,
       StreamsTypeOK, MailboxTypeOK
  <2>2. CASE \/ OpenStream(n, m, Report(m)) \/ OpenFails(n, m)
             \/ LeakedForwarderTakes(n, m) \/ LoseRest(n, m)
    BY <2>2 DEF OpenStream, OpenFails, LeakedForwarderTakes, LoseRest
  <2> QED  BY <2>1, <2>2 DEF Transport, Failure
<1>3. ASSUME NEW b \in Node PROVE link'[a][b] = "down"
  <2>1. CASE Connect(n, m) \/ Break(n, m) \/ OpenFails(n, m)
    BY <1>1, <2>1 DEF Connect, Break, OpenFails, TypeOK, StreamsTypeOK
  <2>2. CASE OpenStream(n, m, Report(m))
    BY <1>1, <2>2 DEF OpenStream, TypeOK, StreamsTypeOK
  <2>3. CASE \/ LeakedForwarderTakes(n, m) \/ LoseRest(n, m)
             \/ DeliverRequest(n, m) \/ DeliverAck(n, m)
    BY <1>1, <2>3 DEF LeakedForwarderTakes, LoseRest, DeliverRequest, DeliverAck
  <2> QED  BY <2>1, <2>2, <2>3 DEF Transport, Failure
<1> QED  BY <1>2, <1>3

LEMMA GoneInit == Init => GoneInv
BY DEF Init, StreamsInit, HandlerInit, GoneInv, Gone

(* The member whose process ends forgets everything; to a peer it looks    *)
(* like a stream that is lost, or like one that does not open.             *)
LEMMA EndReports ==
    ASSUME TypeOK, NEW n \in Node, Disconnect(n), Forget(n), NEW a \in Node, a /= n
    PROVE  /\ mailbox'[a] = mailbox[a] /\ phase'[a] = phase[a]
           /\ leader'[a] = leader[a] /\ state'[a] = state[a]
           /\ timers'[a] = timers[a] /\ hosts'[a] = hosts[a]
           /\ \A b \in Node : LinkGoes(a, b)
           /\ (\A b \in Node : link[a][b] = "down") =>
                  \A b \in Node : link'[a][b] = "down"
<1>1. /\ mailbox'[a] = mailbox[a] /\ phase'[a] = phase[a]
      /\ leader'[a] = leader[a] /\ state'[a] = state[a]
      /\ timers'[a] = timers[a] /\ hosts'[a] = hosts[a]
  BY DEF Disconnect, Forget, TypeOK, StreamsTypeOK, MailboxTypeOK, HandlerTypeOK
<1>2. ASSUME NEW b \in Node
      PROVE  LinkGoes(a, b) /\ (link[a][b] = "down" => link'[a][b] = "down")
  <2>1. link'[a][b] = IF b = n /\ link[a][b] = "connected" THEN "down"
                      ELSE IF b = n /\ link[a][b] = "open" THEN "lost"
                      ELSE link[a][b]
    BY DEF Disconnect, LinksWithout
  <2>2. leaked'[a][b] = IF b = n /\ link[a][b] = "connected" THEN leaked[a][b] + 1
                      ELSE leaked[a][b]
    BY DEF Disconnect, LeakedWithout
  <2>3. leaked[a][b] \in Nat
    BY DEF TypeOK, StreamsTypeOK
  <2> QED  BY <2>1, <2>2, <2>3 DEF LinkGoes
<1> QED  BY <1>1, <1>2

LEMMA EndForgets ==
    ASSUME TypeOK, NEW n \in Node, Disconnect(n), Forget(n)
    PROVE  phase'[n] = "off" /\ Gone(n)'
BY DEF Disconnect, LinksWithout, Forget, Gone, TypeOK, StreamsTypeOK, MailboxTypeOK,
   HandlerTypeOK

(* A turn concerns nobody else.                                            *)
LEMMA TurnElsewhere ==
    ASSUME TypeOK, NEW n \in Node, HandlerStep(n), NEW a \in Node, a /= n
    PROVE  /\ mailbox'[a] = mailbox[a] /\ hosts'[a] = hosts[a]
           /\ leader'[a] = leader[a] /\ state'[a] = state[a]
           /\ timers'[a] = timers[a]
           /\ UNCHANGED <<phase, link, leaked>>
<1>1. TakesTurn(n) /\ Renews(n) /\ SetHosts(n, HostsAfter(n))
  BY HandlerTurn, HandlerRenews, HandlerCounts
<1>2. mailbox'[a] = mailbox[a]
  BY <1>1 DEF TakesTurn, Take, TypeOK, StreamsTypeOK, MailboxTypeOK
<1>3. hosts'[a] = hosts[a]
  BY <1>1 DEF SetHosts, TypeOK, HandlerTypeOK
<1> QED  BY <1>1, <1>2, <1>3 DEF Renews, TakesTurn

(* Only a member whose handler runs takes a turn.                          *)
LEMMA TurnsOfTheLiving ==
    ASSUME NEW n \in Node, HandlerStep(n)
    PROVE  phase[n] = "up" /\ mailbox[n] /= <<>>
<1>1. \E kind : Receives(n, kind)
  <2>1. CASE UpdateServer(n)
    BY <2>1 DEF UpdateServer, AliveAwaitedLeader, AliveRetriedLeader,
       AliveRequestLeadership, AliveOther, DeadLeader, DeadLeaderAgain, DeadOther,
       DeadQuorumLost
  <2>2. CASE Election(n)
    BY <2>2 DEF Election, LeaderInfoIgnored, LeaderInfoNoTx, LeaderInfoFollow,
       LeaderReqConflict, LeaderReqAccepted, LeaderReqTooEarly, LeaderReqAckNews,
       LeaderReqAckCounted, LeaderReqAckOther, LeaderAcked
  <2>3. CASE Switching(n)
    BY <2>3 DEF Switching, LeaderSwitched, LeaderSwitchedDead,
       LeaderSwitchAckCounted, LeaderSwitchAckOther, PriorityForMe,
       PriorityForOther, PriorityIgnored
  <2>4. CASE Timeout(n)
    BY <2>4 DEF Timeout, TimeoutNoLeader, TimeoutRetry, TimeoutLeaderDead,
       TimeoutRequested, TimeoutSwitchOver, TimeoutGivesUp, TimeoutOther
  <2> QED  BY <2>1, <2>2, <2>3, <2>4 DEF HandlerStep
<1> QED  BY <1>1 DEF Receives

-----------------------------------------------------------------------------
LEMMA GoneStep == TypeOK /\ GoneInv /\ [Next]_vars => GoneInv'
<1> SUFFICES ASSUME TypeOK, GoneInv, [Next]_vars, NEW a \in Node, phase'[a] = "off"
             PROVE  Gone(a)'
  BY DEF GoneInv
<1>1. phase[a] = "off" => Gone(a)
  BY DEF GoneInv
<1>2. ASSUME NEW n \in Node, NEW m \in Node, Transport(n, m) \/ Failure(n, m)
      PROVE  Gone(a)'
  <2>1. UNCHANGED <<phase, leader, hosts>>
    BY <1>2 DEF Transport, Failure, handlerVars, Connect, OpenStream,
       LeakedForwarderTakes, Break, DeliverRequest, DeliverAck, OpenFails, LoseRest
  <2> QED  BY <1>1, <1>2, <2>1, StreamGives DEF Gone
<1>3. ASSUME NEW n \in Node, HandlerStep(n) PROVE Gone(a)'
  <2>1. phase[n] = "up" /\ UNCHANGED <<phase, link, leaked>>
    BY <1>3, TurnsOfTheLiving, HandlerTurn DEF TakesTurn
  <2>2. a /= n
    BY <2>1
  <2> QED  BY <1>1, <1>3, <2>1, <2>2, TurnElsewhere DEF Gone
<1>4. ASSUME NEW n \in Node, HandlerPanics(n) \/ TimerFires(n) \/ RequestShutdown(n)
      PROVE  Gone(a)'
  <2>1. phase[n] = "up"
    BY <1>4 DEF HandlerPanics, SwitchAckPanics, OtherPanics, Receives, TimerFires,
       RequestShutdown
  <2>2. CASE HandlerPanics(n)
    BY <1>1, <2>1, <2>2 DEF HandlerPanics, Take, handlerVars, Gone, TypeOK,
       StreamsTypeOK, MailboxTypeOK
  <2>3. CASE TimerFires(n) \/ RequestShutdown(n)
    BY <1>1, <2>1, <2>3 DEF TimerFires, RequestShutdown, Enqueue, handlerVars, Gone,
       TypeOK, StreamsTypeOK, MailboxTypeOK
  <2> QED  BY <1>4, <2>2, <2>3
<1>5. ASSUME NEW n \in Node, CacheReset(n) PROVE Gone(a)'
  BY <1>1, <1>5 DEF CacheReset, streamVars, handlerVars, Gone
<1>6. ASSUME NEW n \in Node, HandOver(n) \/ ShutDown(n) \/ Crash(n) PROVE Gone(a)'
  <2>1. Disconnect(n) /\ Forget(n)
    BY <1>6 DEF HandOver, ShutDown, Crash
  <2>2. CASE a = n
    BY <2>1, <2>2, EndForgets
  <2>3. CASE a /= n
    BY <1>1, <2>1, <2>3, EndReports DEF Gone
  <2> QED  BY <2>2, <2>3
<1>7. ASSUME NEW n \in Node, Restart(n) PROVE Gone(a)'
  BY <1>1, <1>7 DEF Restart, handlerVars, Gone, TypeOK, StreamsTypeOK
<1>8. CASE UNCHANGED vars
  BY <1>1, <1>8 DEF vars, streamVars, handlerVars, Gone
<1> QED  BY <1>2, <1>3, <1>4, <1>5, <1>6, <1>7, <1>8 DEF Next, ProcessStep

LEMMA PendingStays ==
    ASSUME NEW n \in Node, CheckPending(n), timers'[n] = timers[n],
           mailbox[n] \in Seq(Request(n)),
           \/ mailbox'[n] = mailbox[n]
           \/ \E r \in Request(n) : mailbox'[n] = Append(mailbox[n], r)
    PROVE  CheckPending(n)'
BY DEF CheckPending

(* A turn that takes something else leaves the check where it is, one      *)
(* place nearer to its turn.                                               *)
LEMMA PendingWaits ==
    ASSUME TypeOK, NEW n \in Node, TakesTurn(n), CheckPending(n),
           timers'[n] = timers[n], Req(n).is /= "CheckElectionTimeout"
    PROVE  CheckPending(n)'
<1>1. mailbox[n] \in Seq(Request(n)) /\ mailbox[n] /= <<>>
  BY DEF TypeOK, StreamsTypeOK, MailboxTypeOK, TakesTurn
<1>2. SUFFICES ASSUME NEW i \in DOMAIN mailbox[n],
                      mailbox[n][i] = CheckElectionTimeout
               PROVE  \E j \in DOMAIN mailbox'[n] :
                          mailbox'[n][j] = CheckElectionTimeout
  BY DEF CheckPending
<1>3. i /= 1
  BY <1>1, <1>2 DEF Req, CheckElectionTimeout
<1>4. Message \subseteq Request(n)
  BY RequestMade
<1>5. CASE Take(n, <<>>)
  <2>1. mailbox'[n] = Tail(mailbox[n]) \o <<>>
    BY <1>5 DEF Take, TypeOK, StreamsTypeOK, MailboxTypeOK
  <2> HIDE DEF CheckElectionTimeout
  <2>2. i - 1 \in DOMAIN mailbox'[n] /\ mailbox'[n][i - 1] = CheckElectionTimeout
    BY <1>1, <1>2, <1>3, <2>1
  <2> QED  BY <2>2
<1>6. ASSUME NEW r \in Message, Take(n, <<r>>)
      PROVE  \E j \in DOMAIN mailbox'[n] : mailbox'[n][j] = CheckElectionTimeout
  <2>1. mailbox'[n] = Tail(mailbox[n]) \o <<r>> /\ r \in Request(n)
    BY <1>4, <1>6 DEF Take, TypeOK, StreamsTypeOK, MailboxTypeOK
  <2>2. i - 1 \in DOMAIN mailbox'[n] /\ mailbox'[n][i - 1] = CheckElectionTimeout
    BY <1>1, <1>2, <1>3, <2>1
  <2> QED  BY <2>2
<1> QED  BY <1>5, <1>6 DEF TakesTurn

LEMMA WaitsInit == Init => WaitsAreTimed
BY DEF Init, HandlerInit, WaitsAreTimed, Waits

LEMMA WaitsStep == TypeOK /\ GoneInv /\ WaitsAreTimed /\ [Next]_vars => WaitsAreTimed'
<1> SUFFICES ASSUME TypeOK, GoneInv, WaitsAreTimed, [Next]_vars,
                    NEW a \in Node, phase'[a] = "up", Waits(a)'
             PROVE  CheckPending(a)'
  BY DEF WaitsAreTimed, CheckPending
<1>1. phase[a] = "up" /\ Waits(a) => CheckPending(a)
  BY DEF WaitsAreTimed, CheckPending
<1>2. mailbox[a] \in Seq(Request(a))
  BY DEF TypeOK, StreamsTypeOK, MailboxTypeOK
<1>3. ASSUME NEW n \in Node, NEW m \in Node, Transport(n, m) \/ Failure(n, m)
      PROVE  CheckPending(a)'
  <2>1. UNCHANGED <<phase, leader, state, timers>>
    BY <1>3 DEF Transport, Failure, handlerVars, Connect, OpenStream,
       LeakedForwarderTakes, Break, DeliverRequest, DeliverAck, OpenFails, LoseRest
  <2>2. phase[a] = "up" /\ Waits(a)
    BY <2>1 DEF Waits
  <2>3. Reports(a, a)
    BY <1>3, StreamReports
  <2>4. \/ mailbox'[a] = mailbox[a]
        \/ \E r \in Request(a) : mailbox'[a] = Append(mailbox[a], r)
        \/ mailbox'[a] \in {Append(mailbox[a], Alive(a)), Append(mailbox[a], Dead(a))}
    BY <2>3 DEF Reports
  <2> QED  BY <1>1, <1>2, <2>1, <2>2, <2>4, PendingStays DEF CheckPending
<1>4. ASSUME NEW n \in Node, HandlerStep(n) PROVE CheckPending(a)'
  <2>1. TakesTurn(n) /\ Renews(n)
    BY <1>4, HandlerTurn, HandlerRenews
  <2>2. phase[a] = "up"
    BY <2>1 DEF TakesTurn
  <2>3. CASE a = n
    BY <1>1, <2>1, <2>2, <2>3, PendingWaits DEF Renews, CheckPending
  <2>4. CASE a /= n
    <3>1. mailbox'[a] = mailbox[a] /\ timers'[a] = timers[a] /\ Waits(a)
      BY <1>4, <2>4, TurnElsewhere DEF Waits
    <3> QED  BY <1>1, <1>2, <2>2, <3>1, PendingStays
  <2> QED  BY <2>3, <2>4
<1>5. ASSUME NEW n \in Node, HandlerPanics(n) PROVE CheckPending(a)'
  <2>1. a /= n /\ phase[a] = "up" /\ Waits(a) /\ UNCHANGED timers
    BY <1>5 DEF HandlerPanics, handlerVars, Waits, TypeOK, StreamsTypeOK
  <2>2. mailbox'[a] = mailbox[a]
    BY <1>5, <2>1 DEF HandlerPanics, Take, TypeOK, StreamsTypeOK, MailboxTypeOK
  <2> QED  BY <1>1, <1>2, <2>1, <2>2, PendingStays
<1>6. ASSUME NEW n \in Node, TimerFires(n) PROVE CheckPending(a)'
  <2>1. phase[a] = "up" /\ Waits(a)
    BY <1>6 DEF TimerFires, handlerVars, Waits
  <2>2. CASE a = n
    <3>1. mailbox'[a] = Append(mailbox[a], CheckElectionTimeout)
      BY <1>6, <2>2 DEF TimerFires, Enqueue, TypeOK, StreamsTypeOK, MailboxTypeOK
    <3>2. CheckElectionTimeout \in Request(a)
      BY RequestMade
    <3> HIDE DEF CheckElectionTimeout
    <3>3. /\ Len(mailbox[a]) + 1 \in DOMAIN mailbox'[a]
          /\ mailbox'[a][Len(mailbox[a]) + 1] = CheckElectionTimeout
      BY <1>2, <3>1, <3>2
    <3> QED  BY <3>3 DEF CheckPending
  <2>3. CASE a /= n
    <3>1. mailbox'[a] = mailbox[a] /\ timers'[a] = timers[a]
      BY <1>6, <2>3 DEF TimerFires, Enqueue, TypeOK, StreamsTypeOK, MailboxTypeOK,
         HandlerTypeOK
    <3> QED  BY <1>1, <1>2, <2>1, <3>1, PendingStays
  <2> QED  BY <2>2, <2>3
<1>7. ASSUME NEW n \in Node, CacheReset(n) \/ RequestShutdown(n)
      PROVE  CheckPending(a)'
  <2>1. phase[a] = "up" /\ Waits(a) /\ timers'[a] = timers[a]
    BY <1>7 DEF CacheReset, RequestShutdown, streamVars, handlerVars, Waits
  <2>2. \/ mailbox'[a] = mailbox[a]
        \/ mailbox'[a] = Append(mailbox[a], HostShutdown)
    BY <1>7 DEF CacheReset, RequestShutdown, streamVars, Enqueue, TypeOK,
       StreamsTypeOK, MailboxTypeOK
  <2>3. HostShutdown \in Request(a)
    BY RequestMade
  <2> QED  BY <1>1, <1>2, <2>1, <2>2, <2>3, PendingStays
<1>8. ASSUME NEW n \in Node, HandOver(n) \/ ShutDown(n) \/ Crash(n)
      PROVE  CheckPending(a)'
  <2>1. Disconnect(n) /\ Forget(n)
    BY <1>8 DEF HandOver, ShutDown, Crash
  <2>2. a /= n
    BY <2>1, EndForgets
  <2>3. /\ mailbox'[a] = mailbox[a] /\ timers'[a] = timers[a]
        /\ phase[a] = "up" /\ Waits(a)
    BY <2>1, <2>2, EndReports DEF Waits
  <2> QED  BY <1>1, <1>2, <2>3, PendingStays
<1>9. ASSUME NEW n \in Node, Restart(n) PROVE CheckPending(a)'
  <2>1. a /= n
    BY <1>9 DEF Restart, handlerVars, GoneInv, Gone, Waits
  <2>2. /\ mailbox'[a] = mailbox[a] /\ timers'[a] = timers[a]
        /\ phase[a] = "up" /\ Waits(a)
    BY <1>9, <2>1 DEF Restart, handlerVars, Waits, TypeOK, StreamsTypeOK
  <2> QED  BY <1>1, <1>2, <2>2, PendingStays
<1>10. CASE UNCHANGED vars
  <2>1. /\ mailbox'[a] = mailbox[a] /\ timers'[a] = timers[a]
        /\ phase[a] = "up" /\ Waits(a)
    BY <1>10 DEF vars, streamVars, handlerVars, Waits
  <2> QED  BY <1>1, <1>2, <2>1, PendingStays
<1> QED
  BY <1>3, <1>4, <1>5, <1>6, <1>7, <1>8, <1>9, <1>10 DEF Next, ProcessStep

LEMMA GoneHolds == Spec => []GoneInv
BY GoneInit, GoneStep, TypeCorrect, PTL DEF Spec

(* A member that has asked to lead, switches over or waits for the client  *)
(* of a leader always checks on it later: a timeout sleeps or its check is *)
(* in the mailbox.  Every branch that leaves it waiting, the check itself  *)
(* included, starts a timeout (quorum.rs, election_timeout_handler).       *)
THEOREM WaitsTimed == Spec => []WaitsAreTimed
BY WaitsInit, WaitsStep, GoneHolds, TypeCorrect, PTL DEF Spec

-----------------------------------------------------------------------------
(* HostsFollowClients.  The last report of m that waits in a mailbox says  *)
(* how n's client of m stands; once there is none, the handler knows.      *)
LastOf(s, m, r) ==
    \E i \in DOMAIN s :
        s[i] = r /\ \A j \in DOMAIN s : j > i => s[j] \notin NewsOf(m)

Silence(s, m) == \A i \in DOMAIN s : s[i] \notin NewsOf(m)

(* s is a mailbox, counted whether m is a host of it, l its client of m,   *)
(* and k whether a forwarder of that client was left behind.               *)
ReportsFit(s, m, counted, l, k) ==
    /\ LastOf(s, m, Alive(m)) => l /= "down" \/ k
    /\ LastOf(s, m, Dead(m)) => l = "down"
    /\ Silence(s, m) => (l /= "down" => counted) /\ (counted => l /= "down" \/ k)

NewsFit(n, m) ==
    ReportsFit(mailbox[n], m, m \in hosts[n], link[n][m], leaked[n][m] > 0)

NewsInv == \A n, m \in Node : phase[n] = "up" /\ n /= m => NewsFit(n, m)

LEMMA NewsInvSuffices == NewsInv => HostsFollowClients
<1> SUFFICES ASSUME NewsInv, NEW n \in Node, NEW m \in Node,
                    phase[n] = "up", n /= m, ReportsOf(n, m) = {}
             PROVE  /\ link[n][m] /= "down" => m \in hosts[n]
                    /\ m \in hosts[n] => link[n][m] /= "down" \/ leaked[n][m] > 0
  BY DEF HostsFollowClients
<1>1. Silence(mailbox[n], m)
  BY DEF ReportsOf, Silence, NewsOf
<1>2. NewsFit(n, m)
  BY DEF NewsInv
<1> QED  BY <1>1, <1>2 DEF NewsFit, ReportsFit

LEMMA LastAppend ==
    ASSUME NEW S, NEW s \in Seq(S), NEW x \in S, NEW m
    PROVE  /\ Silence(Append(s, x), m) => Silence(s, m) /\ x \notin NewsOf(m)
           /\ \A r \in NewsOf(m) : LastOf(Append(s, x), m, r) =>
                  x = r \/ (x \notin NewsOf(m) /\ LastOf(s, m, r))
<1> DEFINE t == Append(s, x)
<1>1. /\ Len(s) \in Nat /\ DOMAIN s = 1..Len(s) /\ DOMAIN t = 1..(Len(s) + 1)
      /\ t[Len(s) + 1] = x /\ \A i \in 1..Len(s) : t[i] = s[i]
  OBVIOUS
<1> HIDE DEF t
<1>2. Silence(t, m) => Silence(s, m) /\ x \notin NewsOf(m)
  BY <1>1 DEF Silence
<1>3. ASSUME NEW r \in NewsOf(m), LastOf(t, m, r)
      PROVE  x = r \/ (x \notin NewsOf(m) /\ LastOf(s, m, r))
  <2>1. PICK i \in DOMAIN t :
            t[i] = r /\ \A j \in DOMAIN t : j > i => t[j] \notin NewsOf(m)
    BY <1>3 DEF LastOf
  <2>2. CASE i = Len(s) + 1
    BY <1>1, <2>1, <2>2
  <2>3. CASE i /= Len(s) + 1
    <3>1. i \in DOMAIN s /\ s[i] = r
      BY <1>1, <2>1, <2>3
    <3>2. \A j \in DOMAIN s : j > i => s[j] \notin NewsOf(m)
      BY <1>1, <2>1
    <3>3. x \notin NewsOf(m)
      BY <1>1, <2>1, <2>3
    <3> QED  BY <3>1, <3>2, <3>3 DEF LastOf
  <2> QED  BY <2>2, <2>3
<1> QED  BY <1>2, <1>3 DEF t

LEMMA LastTail ==
    ASSUME NEW S, NEW s \in Seq(S), s /= <<>>, NEW m
    PROVE  /\ Silence(Tail(s), m) =>
                  \/ Head(s) \notin NewsOf(m) /\ Silence(s, m)
                  \/ Head(s) \in NewsOf(m) /\ LastOf(s, m, Head(s))
           /\ \A r : LastOf(Tail(s), m, r) => LastOf(s, m, r)
<1> DEFINE t == Tail(s)
<1>1. /\ Len(s) \in Nat /\ Len(s) >= 1 /\ DOMAIN s = 1..Len(s)
      /\ DOMAIN t = 1..(Len(s) - 1)
      /\ Head(s) = s[1] /\ \A i \in 2..Len(s) : s[i] = t[i - 1]
      /\ \A i \in 1..(Len(s) - 1) : t[i] = s[i + 1]
  OBVIOUS
<1> HIDE DEF t
<1>2. Silence(t, m) => \A i \in DOMAIN s : i > 1 => s[i] \notin NewsOf(m)
  BY <1>1 DEF Silence
<1>3. ASSUME Silence(t, m), Head(s) \notin NewsOf(m) PROVE Silence(s, m)
  <2> SUFFICES ASSUME NEW i \in DOMAIN s PROVE s[i] \notin NewsOf(m)
    BY DEF Silence
  <2>1. i = 1 \/ i > 1
    BY <1>1
  <2> QED  BY <1>1, <1>2, <1>3, <2>1
<1>4. ASSUME Silence(t, m), Head(s) \in NewsOf(m) PROVE LastOf(s, m, Head(s))
  BY <1>1, <1>2, <1>4 DEF LastOf
<1>5. ASSUME NEW r, LastOf(t, m, r) PROVE LastOf(s, m, r)
  <2>1. PICK i \in DOMAIN t :
            t[i] = r /\ \A j \in DOMAIN t : j > i => t[j] \notin NewsOf(m)
    BY <1>5 DEF LastOf
  <2>2. i + 1 \in DOMAIN s /\ s[i + 1] = r
    BY <1>1, <2>1
  <2>3. ASSUME NEW j \in DOMAIN s, j > i + 1 PROVE s[j] \notin NewsOf(m)
    <3>1. j - 1 \in DOMAIN t /\ j - 1 > i /\ s[j] = t[j - 1]
      BY <1>1, <2>1, <2>3
    <3> QED  BY <2>1, <3>1
  <2> QED  BY <2>2, <2>3 DEF LastOf
<1> QED  BY <1>3, <1>4, <1>5 DEF t

(* A step of n's clients keeps the last report true.                       *)
LEMMA ReportKeeps ==
    ASSUME TypeOK, NEW n \in Node, NEW m \in Node, n /= m, NewsFit(n, m),
           hosts'[n] = hosts[n], Reports(n, m)
    PROVE  NewsFit(n, m)'
<1> DEFINE s == mailbox[n]
           counted == m \in hosts[n]
           l == link[n][m]
           k == leaked[n][m] > 0
<1>1. s \in Seq(Request(n)) /\ {Alive(m), Dead(m)} \subseteq Request(n)
  BY RequestMade DEF TypeOK, StreamsTypeOK, MailboxTypeOK
<1>2. ReportsFit(s, m, counted, l, k)
  BY DEF NewsFit
<1>3. Alive(m) \in NewsOf(m) /\ Dead(m) \in NewsOf(m) /\ Alive(m) /= Dead(m)
  BY DEF NewsOf, Alive, Dead
<1>4. CASE mailbox'[n] = s /\ LinkGoes(n, m)
  BY <1>2, <1>4 DEF NewsFit, ReportsFit, LinkGoes
<1>5. ASSUME NEW r \in Request(n) \ NewsOf(m), mailbox'[n] = Append(s, r),
             LinkGoes(n, m)
      PROVE  NewsFit(n, m)'
  <2>1. /\ Silence(mailbox'[n], m) => Silence(s, m)
        /\ \A x \in NewsOf(m) : LastOf(mailbox'[n], m, x) => LastOf(s, m, x)
    BY <1>1, <1>5, LastAppend
  <2> QED  BY <1>2, <1>3, <1>5, <2>1 DEF NewsFit, ReportsFit, LinkGoes
<1>6. ASSUME NEW r \in NewsOf(m), mailbox'[n] = Append(s, r)
      PROVE  /\ ~Silence(mailbox'[n], m)
             /\ \A x \in NewsOf(m) : LastOf(mailbox'[n], m, x) => x = r
  BY <1>1, <1>6, LastAppend DEF NewsOf
<1>7. CASE mailbox'[n] = Append(s, Alive(m)) /\ link'[n][m] /= "down"
  BY <1>3, <1>6, <1>7 DEF NewsFit, ReportsFit
<1>8. CASE mailbox'[n] = Append(s, Dead(m)) /\ link'[n][m] = "down"
  BY <1>3, <1>6, <1>8 DEF NewsFit, ReportsFit
<1> QED  BY <1>4, <1>5, <1>7, <1>8 DEF Reports

(* A turn of the handler counts or forgets the host it is told of.         *)
LEMMA TurnKeepsNews ==
    ASSUME TypeOK, NEW n \in Node, NEW m \in Node, n /= m, NewsFit(n, m),
           TakesTurn(n), SetHosts(n, HostsAfter(n))
    PROVE  NewsFit(n, m)'
<1> DEFINE s == mailbox[n]
<1>1. s \in Seq(Request(n)) /\ s /= <<>> /\ Req(n) = Head(s) /\ Req(n) \in Request(n)
  BY HeadTypes DEF TypeOK, StreamsTypeOK, MailboxTypeOK, TakesTurn, Req
<1>2. Tail(s) \in Seq(Request(n)) /\ Message \subseteq Request(n)
  BY <1>1, HeadTailProperties, RequestMade
<1>3. /\ Silence(mailbox'[n], m) => Silence(Tail(s), m)
      /\ \A r \in NewsOf(m) : LastOf(mailbox'[n], m, r) => LastOf(Tail(s), m, r)
  <2>1. CASE Take(n, <<>>)
    <3>1. mailbox'[n] = Tail(s) \o <<>>
      BY <2>1 DEF Take, TypeOK, StreamsTypeOK, MailboxTypeOK
    <3>2. mailbox'[n] = Tail(s)
      BY <1>2, <3>1
    <3> QED  BY <3>2
  <2>2. ASSUME NEW r \in Message, Take(n, <<r>>)
        PROVE  /\ Silence(mailbox'[n], m) => Silence(Tail(s), m)
               /\ \A x \in NewsOf(m) :
                      LastOf(mailbox'[n], m, x) => LastOf(Tail(s), m, x)
    <3>1. mailbox'[n] = Tail(s) \o <<r>>
      BY <2>2 DEF Take, TypeOK, StreamsTypeOK, MailboxTypeOK
    <3>2. mailbox'[n] = Append(Tail(s), r) /\ r \in Request(n)
      BY <1>2, <2>2, <3>1
    <3>3. r \notin NewsOf(m)
      BY SaysNothing
    <3> QED  BY <1>2, <3>2, <3>3, LastAppend
  <2> QED  BY <2>1, <2>2 DEF TakesTurn
<1>4. /\ Silence(mailbox'[n], m) =>
             \/ Req(n) \notin NewsOf(m) /\ Silence(s, m)
             \/ Req(n) \in NewsOf(m) /\ LastOf(s, m, Req(n))
      /\ \A r \in NewsOf(m) : LastOf(mailbox'[n], m, r) => LastOf(s, m, r)
  BY <1>1, <1>3, LastTail
<1>5. link'[n][m] = link[n][m] /\ leaked'[n][m] = leaked[n][m]
  BY DEF TakesTurn
<1>6. hosts'[n] = HostsAfter(n)
  BY DEF SetHosts, TypeOK, HandlerTypeOK
<1>7. Req(n) \notin NewsOf(m) => (m \in hosts'[n] <=> m \in hosts[n])
  <2>1. Req(n).is = "Alive" => Req(n) = Alive(Req(n).addr)
    BY <1>1, SMT DEF Request, Message, News, Alive, CheckElectionTimeout, HostShutdown
  <2>2. Req(n).is = "Dead" => Req(n) = Dead(Req(n).addr)
    BY <1>1, SMT DEF Request, Message, News, Dead, CheckElectionTimeout, HostShutdown
  <2> QED  BY <1>6, <2>1, <2>2 DEF HostsAfter, Left, NewsOf
<1>8. /\ Req(n) = Alive(m) => m \in hosts'[n]
      /\ Req(n) = Dead(m) => m \notin hosts'[n]
  BY <1>6 DEF HostsAfter, Left, Alive, Dead
<1>9. Alive(m) \in NewsOf(m) /\ Dead(m) \in NewsOf(m)
  BY DEF NewsOf
<1>10. ReportsFit(s, m, m \in hosts[n], link[n][m], leaked[n][m] > 0)
  BY DEF NewsFit
<1>11. LastOf(mailbox'[n], m, Alive(m)) => link[n][m] /= "down" \/ leaked[n][m] > 0
  BY <1>4, <1>9, <1>10 DEF ReportsFit
<1>12. LastOf(mailbox'[n], m, Dead(m)) => link[n][m] = "down"
  BY <1>4, <1>9, <1>10 DEF ReportsFit
<1>13. ASSUME Silence(mailbox'[n], m)
       PROVE  /\ link[n][m] /= "down" => m \in hosts'[n]
              /\ m \in hosts'[n] => link[n][m] /= "down" \/ leaked[n][m] > 0
  <2>1. CASE Req(n) \notin NewsOf(m)
    BY <1>4, <1>7, <1>10, <1>13, <2>1 DEF ReportsFit
  <2>2. CASE Req(n) = Alive(m)
    BY <1>4, <1>8, <1>9, <1>10, <1>13, <2>2 DEF ReportsFit
  <2>3. CASE Req(n) = Dead(m)
    BY <1>4, <1>8, <1>9, <1>10, <1>13, <2>3 DEF ReportsFit
  <2> QED  BY <2>1, <2>2, <2>3 DEF NewsOf
<1> QED  BY <1>5, <1>11, <1>12, <1>13 DEF NewsFit, ReportsFit

LEMMA NewsInit == Init => NewsInv
<1> SUFFICES ASSUME Init, NEW n \in Node, NEW m \in Node PROVE NewsFit(n, m)
  BY DEF NewsInv
<1>1. /\ mailbox[n] = <<>> /\ hosts[n] = {} /\ link[n][m] = "down"
  BY DEF Init, StreamsInit, HandlerInit
<1>2. DOMAIN mailbox[n] = {}
  BY <1>1
<1> QED  BY <1>1, <1>2 DEF NewsFit, ReportsFit, LastOf

LEMMA NewsStep == TypeOK /\ GoneInv /\ NewsInv /\ [Next]_vars => NewsInv'
<1> SUFFICES ASSUME TypeOK, GoneInv, NewsInv, [Next]_vars,
                    NEW a \in Node, NEW b \in Node, phase'[a] = "up", a /= b
             PROVE  NewsFit(a, b)'
  BY DEF NewsInv
<1>1. phase[a] = "up" => NewsFit(a, b)
  BY DEF NewsInv
<1>2. ASSUME NEW n \in Node, NEW m \in Node, Transport(n, m) \/ Failure(n, m)
      PROVE  NewsFit(a, b)'
  <2>1. UNCHANGED <<phase, hosts>>
    BY <1>2 DEF Transport, Failure, handlerVars, Connect, OpenStream,
       LeakedForwarderTakes, Break, DeliverRequest, DeliverAck, OpenFails, LoseRest
  <2> QED  BY <1>1, <1>2, <2>1, StreamReports, ReportKeeps
<1>3. ASSUME NEW n \in Node, HandlerStep(n) PROVE NewsFit(a, b)'
  <2>1. TakesTurn(n) /\ SetHosts(n, HostsAfter(n)) /\ phase[a] = "up"
    BY <1>3, HandlerTurn, HandlerCounts DEF TakesTurn
  <2>2. CASE a = n
    BY <1>1, <2>1, <2>2, TurnKeepsNews
  <2>3. CASE a /= n
    BY <1>1, <1>3, <2>1, <2>3, TurnElsewhere DEF NewsFit
  <2> QED  BY <2>2, <2>3
<1>4. ASSUME NEW n \in Node, HandlerPanics(n) PROVE NewsFit(a, b)'
  <2>1. a /= n /\ phase[a] = "up" /\ UNCHANGED <<hosts, link, leaked>>
    BY <1>4 DEF HandlerPanics, handlerVars, TypeOK, StreamsTypeOK
  <2>2. mailbox'[a] = mailbox[a]
    BY <1>4, <2>1 DEF HandlerPanics, Take, TypeOK, StreamsTypeOK, MailboxTypeOK
  <2> QED  BY <1>1, <2>1, <2>2 DEF NewsFit
<1>5. ASSUME NEW n \in Node, TimerFires(n) \/ RequestShutdown(n)
      PROVE  NewsFit(a, b)'
  <2>1. \E r \in {CheckElectionTimeout, HostShutdown} : Enqueue(n, r)
    BY <1>5 DEF TimerFires, RequestShutdown
  <2>2. phase[a] = "up" /\ UNCHANGED <<hosts, link, leaked>>
    BY <1>5 DEF TimerFires, RequestShutdown, handlerVars
  <2>3. LinkGoes(a, b)
    BY <2>2 DEF LinkGoes
  <2>4. Reports(a, b)
    BY <2>1, <2>3, RequestMade, SaysNothing, EnqueueReports
  <2> QED  BY <1>1, <2>2, <2>4, ReportKeeps
<1>6. ASSUME NEW n \in Node, HandOver(n) \/ ShutDown(n) \/ Crash(n)
      PROVE  NewsFit(a, b)'
  <2>1. Disconnect(n) /\ Forget(n)
    BY <1>6 DEF HandOver, ShutDown, Crash
  <2>2. a /= n
    BY <2>1, EndForgets
  <2>3. /\ mailbox'[a] = mailbox[a] /\ hosts'[a] = hosts[a]
        /\ phase[a] = "up" /\ LinkGoes(a, b)
    BY <2>1, <2>2, EndReports
  <2> QED  BY <1>1, <2>3, ReportKeeps DEF Reports
<1>7. ASSUME NEW n \in Node, Restart(n) PROVE NewsFit(a, b)'
  <2>1. UNCHANGED <<mailbox, hosts, link, leaked>>
    BY <1>7 DEF Restart, handlerVars
  <2>2. CASE phase[a] = "up"
    BY <1>1, <2>1, <2>2 DEF NewsFit
  <2>3. CASE phase[a] /= "up"
    <3>1. Gone(a)
      BY <1>7, <2>3 DEF Restart, GoneInv, TypeOK, StreamsTypeOK
    <3>2. mailbox'[a] = <<>> /\ hosts'[a] = {} /\ link'[a][b] = "down"
      BY <2>1, <3>1 DEF Gone
    <3>3. DOMAIN mailbox'[a] = {}
      BY <3>2
    <3> QED  BY <3>2, <3>3 DEF NewsFit, ReportsFit, LastOf
  <2> QED  BY <2>2, <2>3
<1>8. CASE UNCHANGED vars \/ \E n \in Node : CacheReset(n)
  <2>1. UNCHANGED <<phase, mailbox, hosts, link, leaked>>
    BY <1>8 DEF CacheReset, vars, streamVars, handlerVars
  <2> QED  BY <1>1, <2>1 DEF NewsFit
<1> QED
  BY <1>2, <1>3, <1>4, <1>5, <1>6, <1>7, <1>8 DEF Next, ProcessStep

(* The hosts a handler counts are the clients that are connected, as soon  *)
(* as it has read their reports: however often streams break, fail to open *)
(* and are opened again, every change is reported once and in order, and   *)
(* the one host counted without a connection has left a forwarder behind.  *)
THEOREM HostsReported == Spec => []HostsFollowClients
BY NewsInit, NewsStep, NewsInvSuffices, GoneHolds, TypeCorrect, PTL DEF Spec

=============================================================================
