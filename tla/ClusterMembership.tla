-------------------------- MODULE ClusterMembership --------------------------
(***************************************************************************)
(* Cluster implements Membership, for every set of members, every network  *)
(* and every value of the bounds.  The steps of a connection map to         *)
(* Connects, Opens and Breaks, a turn of a handler to Publishes, the end of *)
(* a process to Stops, everything else but a reset and a restart to nothing. *)
(***************************************************************************)
EXTENDS ClusterSafety

(* What a handler has published, and the default before: a state it may be *)
(* in, and a request to lead only with a quorum.                           *)
Told(w) ==
    /\ w.state \in QuorumState
    /\ w.state.is = "LeadershipRequested" => w.health /= "Bad"

(* The quorum that is published is the quorum the handler has, for the two *)
(* turns that publish nothing neither gain nor lose it.                    *)
WatchFits(n) ==
    /\ watch[n].health = "Bad" <=> health[n] = "Bad"
    /\ Told(watch[n])

WatchInv == \A n \in Node : WatchFits(n)

RefInv == Inv /\ GoneInv /\ PublishedUsable /\ WatchInv

-----------------------------------------------------------------------------
(* What is shown of a publication is a view that can be used.              *)
LEMMA ShownUsable ==
    ASSUME NEW w \in QuorumHealthState,
           w.health /= "Bad" => w.connectedHosts >= QuorumSize,
           w.state = Follower => w.txLeader /= None,
           Told(w)
    PROVE  Shown(w) \in M!View /\ M!Usable(Shown(w))
<1>1. M!Quorum = QuorumSize
  <2>1. M!Cardinality(Node) = Cardinality(Node)
    BY DEF M!Cardinality, Cardinality
  <2>2. Cardinality(Node) \in Nat
    BY FS_CardinalityType, NodeAssumption
  <2> QED  BY <2>1, <2>2, SMT DEF M!Quorum, QuorumSize, ClientsCount
<1>2. w.state \in QuorumState
  BY DEF Told
<1>3. w.state.is \in M!Role
  BY <1>2, StateFields DEF M!Role
<1>4. /\ (w.health /= "Bad") \in BOOLEAN
      /\ w.txLeader \in Node \cup {None} /\ w.connectedHosts \in Nat
  BY DEF QuorumHealthState
<1>5. Shown(w) \in M!View
  BY <1>3, <1>4 DEF Shown, M!View
<1>6. w.state.is = "Follower" => w.state = Follower
  BY <1>2 DEF QuorumState, Leader, LeaderDead, SwitchOver, Follower, Undefined,
     Retry
<1>7. M!Usable(Shown(w))
  BY <1>1, <1>6 DEF M!Usable, Shown, Told
<1> QED  BY <1>5, <1>7

(* Before anything is published.                                           *)
LEMMA DefaultTold == Told(DefaultHealthState) /\ Shown(DefaultHealthState) = M!DefaultView
BY DEF Told, Shown, DefaultHealthState, M!DefaultView, QuorumState, Undefined

(* What every member shows can be used at any time.                        *)
LEMMA ShowsUsable ==
    ASSUME RefInv, NEW n \in Node
    PROVE  /\ Shows[n] \in M!View /\ M!Usable(Shows[n])
           /\ Shows[n].quorum <=> health[n] /= "Bad"
<1>1. watch[n] \in QuorumHealthState
  BY DEF RefInv, Inv, TypeOK, HandlerTypeOK
<1>2. /\ watch[n].health /= "Bad" => watch[n].connectedHosts >= QuorumSize
      /\ watch[n].state = Follower => watch[n].txLeader /= None
  BY DEF RefInv, PublishedUsable
<1>3. WatchFits(n)
  BY DEF RefInv, WatchInv
<1> QED  BY <1>1, <1>2, <1>3, ShownUsable DEF Shows, Shown, WatchFits

-----------------------------------------------------------------------------
(* What others see of a turn of n: the streams stay, a quorum that is lost *)
(* is published with a reset and without a leader, and a turn that says    *)
(* nothing changes nothing that was said.                                  *)
Announces(n) ==
    /\ UNCHANGED <<phase, link>>
    /\ \A m \in Node \ {n} : health'[m] = health[m]
    /\ IF health[n] /= "Bad" /\ health'[n] = "Bad"
       THEN /\ Publish(n)
            /\ state'[n] = Undefined /\ txLeader'[n] = None
            /\ resets' = [resets EXCEPT ![n] = TRUE]
       ELSE /\ UNCHANGED resets
            /\ \/ Publish(n)
               \/ /\ UNCHANGED watch
                  /\ health'[n] = "Bad" <=> health[n] = "Bad"

LEMMA UpdateAnnounces ==
    ASSUME Inv, NEW n \in Node, UpdateServer(n)
    PROVE  Announces(n)
<1>1. UNCHANGED <<phase, link>>
  <2>1. CASE AliveAwaitedLeader(n) \/ AliveRetriedLeader(n)
    BY <2>1 DEF AliveAwaitedLeader, AliveRetriedLeader, Turn, sameStreams
  <2>2. CASE AliveRequestLeadership(n) \/ AliveOther(n)
    BY <2>2 DEF AliveRequestLeadership, AliveOther, Turn, sameStreams
  <2>3. CASE DeadLeader(n) \/ DeadLeaderAgain(n)
    BY <2>3 DEF DeadLeader, DeadLeaderAgain, TakeOverFromDead, Turn, sameStreams
  <2>4. CASE DeadOther(n) \/ DeadQuorumLost(n)
    BY <2>4 DEF DeadOther, DeadQuorumLost, Turn, sameStreams
  <2> QED  BY <2>1, <2>2, <2>3, <2>4 DEF UpdateServer
<1>2. health \in [Node -> QuorumHealth] /\ state \in [Node -> QuorumState]
      /\ txLeader \in [Node -> Node \cup {None}]
  BY DEF Inv, TypeOK, HandlerTypeOK
<1>3. CASE \/ AliveAwaitedLeader(n) \/ AliveRetriedLeader(n)
           \/ AliveRequestLeadership(n) \/ AliveOther(n)
  <2>1. /\ Receives(n, "Alive") /\ HostJoins(n)
        /\ Publish(n) /\ UNCHANGED resets
    BY <1>3 DEF AliveAwaitedLeader, AliveRetriedLeader, AliveRequestLeadership,
       AliveOther, Turn
  <2>2. SetHealth(n, health'[n]) /\ (health'[n] = "Bad" => health[n] = "Bad")
    BY <2>1, HostJoinsHealth DEF Inv
  <2> QED  BY <1>1, <1>2, <2>1, <2>2 DEF Announces, SetHealth
<1>4. CASE DeadLeader(n) \/ DeadLeaderAgain(n)
  <2>1. /\ Receives(n, "Dead") /\ LeaderDied(n) /\ SetHosts(n, Left(n))
        /\ SetHealth(n, "Degraded") /\ UNCHANGED resets
        /\ Publish(n) \/ UNCHANGED watch
    BY <1>4 DEF DeadLeader, DeadLeaderAgain, TakeOverFromDead, Turn
  <2>2. health[n] /= "Bad"
    BY <2>1, HostLeavesHealth DEF Inv, LeaderDied
  <2> QED  BY <1>1, <1>2, <2>1, <2>2 DEF Announces, SetHealth
<1>5. CASE DeadOther(n)
  <2>1. /\ KeepsQuorum(n) \/ health[n] = "Bad"
        /\ SetHealth(n, IF KeepsQuorum(n) THEN "Degraded" ELSE "Bad")
        /\ Publish(n) /\ UNCHANGED resets
    BY <1>5 DEF DeadOther, Turn
  <2> QED  BY <1>1, <1>2, <2>1 DEF Announces, SetHealth
<1>6. CASE DeadQuorumLost(n)
  <2>1. /\ health[n] /= "Bad" /\ SetHealth(n, "Bad")
        /\ SetState(n, Undefined) /\ SetTx(n, None)
        /\ Publish(n) /\ resets' = [resets EXCEPT ![n] = TRUE]
    BY <1>6 DEF DeadQuorumLost, EmptyCaches, Turn
  <2> QED
    BY <1>1, <1>2, <2>1 DEF Announces, SetHealth, SetState, SetTx
<1> QED  BY <1>3, <1>4, <1>5, <1>6 DEF UpdateServer

(* The other turns leave the health alone.                                 *)
LEMMA ElectionAnnounces ==
    ASSUME NEW n \in Node, Election(n)
    PROVE  UNCHANGED <<phase, link, resets>>
<1>1. CASE LeaderInfoIgnored(n) \/ LeaderInfoNoTx(n) \/ LeaderInfoFollow(n)
  BY <1>1 DEF LeaderInfoIgnored, LeaderInfoNoTx, LeaderInfoFollow, Turn,
     sameStreams
<1>2. CASE LeaderReqConflict(n) \/ LeaderReqAccepted(n) \/ LeaderReqTooEarly(n)
  BY <1>2 DEF LeaderReqConflict, LeaderReqAccepted, LeaderReqTooEarly, Turn,
     sameStreams
<1>3. CASE LeaderReqAckNews(n) \/ LeaderReqAckOther(n) \/ LeaderAcked(n)
  BY <1>3 DEF LeaderReqAckNews, LeaderReqAckOther, LeaderAcked, Turn, sameStreams
<1>4. CASE LeaderReqAckCounted(n)
  BY <1>4 DEF LeaderReqAckCounted, CountAck, Turn, sameStreams
<1> QED  BY <1>1, <1>2, <1>3, <1>4 DEF Election

LEMMA SwitchingAnnounces ==
    ASSUME NEW n \in Node, Switching(n)
    PROVE  UNCHANGED <<phase, link, resets>>
<1>1. CASE LeaderSwitched(n) \/ LeaderSwitchedDead(n)
  BY <1>1 DEF LeaderSwitched, LeaderSwitchedDead, Turn, sameStreams
<1>2. CASE LeaderSwitchAckCounted(n) \/ LeaderSwitchAckOther(n)
  BY <1>2 DEF LeaderSwitchAckCounted, LeaderSwitchAckOther, CountAck, Turn,
     sameStreams
<1>3. CASE PriorityForMe(n) \/ PriorityForOther(n) \/ PriorityIgnored(n)
  BY <1>3 DEF PriorityForMe, PriorityForOther, PriorityIgnored, Turn, sameStreams
<1> QED  BY <1>1, <1>2, <1>3 DEF Switching

LEMMA TimeoutAnnounces ==
    ASSUME NEW n \in Node, Timeout(n)
    PROVE  UNCHANGED <<phase, link, resets>>
<1>1. CASE TimeoutRetry(n)
  BY <1>1 DEF TimeoutRetry, Turn, sameStreams
<1>2. CASE TimeoutNoLeader(n) \/ TimeoutLeaderDead(n) \/ TimeoutRequested(n)
  BY <1>2 DEF TimeoutNoLeader, TimeoutLeaderDead, TimeoutRequested,
     TakeOverFromDead, Turn, sameStreams
<1>3. CASE TimeoutSwitchOver(n) \/ TimeoutGivesUp(n) \/ TimeoutOther(n)
  BY <1>3 DEF TimeoutSwitchOver, TimeoutGivesUp, TimeoutOther, Turn, sameStreams
<1> QED  BY <1>1, <1>2, <1>3 DEF Timeout

LEMMA HandlerAnnounces ==
    ASSUME Inv, NEW n \in Node, HandlerStep(n)
    PROVE  Announces(n)
<1>1. CASE UpdateServer(n)
  BY <1>1, UpdateAnnounces
<1>2. CASE Election(n) \/ Switching(n) \/ Timeout(n)
  <2>1. UNCHANGED <<phase, link, resets>>
    BY <1>2, ElectionAnnounces, SwitchingAnnounces, TimeoutAnnounces
  <2>2. UNCHANGED health
    BY <1>2, ElectionKeepsHosts, SwitchingKeepsHosts, TimeoutKeepsHosts
  <2>3. Publish(n) \/ UNCHANGED watch
    BY <1>2, ElectionPublishes, SwitchingPublishes, TimeoutPublishes
  <2> QED  BY <2>1, <2>2, <2>3 DEF Announces
<1> QED  BY <1>1, <1>2 DEF HandlerStep

-----------------------------------------------------------------------------
(* WatchInv, step by step.                                                 *)
LEMMA WatchInit == Init => WatchInv
<1> SUFFICES ASSUME Init, NEW n \in Node PROVE WatchFits(n)
  BY DEF WatchInv
<1>1. watch[n] = DefaultHealthState /\ health[n] = "Bad"
  BY DEF Init, HandlerInit
<1> QED  BY <1>1, DefaultTold DEF WatchFits, DefaultHealthState

LEMMA WatchAnnounced ==
    ASSUME RefInv, Inv', NEW n \in Node, Announces(n)
    PROVE  WatchInv'
<1>1. ASSUME NEW m \in Node \ {n}, watch'[m] = watch[m] PROVE WatchFits(m)'
  <2>1. WatchFits(m) /\ health'[m] = health[m]
    BY DEF Announces, RefInv, WatchInv
  <2> QED  BY <1>1, <2>1 DEF WatchFits, Told
<1>2. CASE Publish(n)
  <2> DEFINE w == [health |-> health'[n], state |-> state'[n],
                   txLeader |-> txLeader'[n],
                   connectedHosts |-> Cardinality(hosts'[n])]
  <2>1. watch' = [watch EXCEPT ![n] = w]
    BY <1>2 DEF Publish
  <2>2. Told(w)
    <3>1. state'[n] \in QuorumState
      BY DEF Inv, TypeOK, HandlerTypeOK
    <3>2. LeaderFits(state[n], leader[n], txLeader[n], health[n])'
      BY DEF Inv, LeaderInv
    <3> QED  BY <3>1, <3>2 DEF Told, LeaderFits
  <2>3. w.health = health'[n]
    OBVIOUS
  <2> HIDE DEF w
  <2>4. watch'[n] = w /\ \A m \in Node \ {n} : watch'[m] = watch[m]
    BY <2>1 DEF RefInv, Inv, TypeOK, HandlerTypeOK
  <2>5. WatchFits(n)'
    BY <2>2, <2>3, <2>4 DEF WatchFits, Told
  <2> QED  BY <1>1, <2>4, <2>5 DEF WatchInv
<1>3. CASE UNCHANGED watch /\ (health'[n] = "Bad" <=> health[n] = "Bad")
  <2>1. WatchFits(n)
    BY DEF RefInv, WatchInv
  <2>2. WatchFits(n)'
    BY <1>3, <2>1 DEF WatchFits, Told
  <2> QED  BY <1>1, <1>3, <2>2 DEF WatchInv
<1> QED  BY <1>2, <1>3 DEF Announces

LEMMA WatchForgotten ==
    ASSUME RefInv, NEW n \in Node, Forget(n)
    PROVE  WatchInv'
<1>1. /\ watch' = [watch EXCEPT ![n] = DefaultHealthState]
      /\ health' = [health EXCEPT ![n] = "Bad"]
  BY DEF Forget
<1>2. watch'[n] = DefaultHealthState /\ health'[n] = "Bad"
  BY <1>1 DEF RefInv, Inv, TypeOK, HandlerTypeOK
<1>3. WatchFits(n)'
  <2>1. Told(watch'[n])
    BY <1>2, DefaultTold
  <2>2. watch'[n].health = "Bad"
    BY <1>2 DEF DefaultHealthState
  <2> QED  BY <1>2, <2>1, <2>2 DEF WatchFits, Told
<1>4. ASSUME NEW m \in Node \ {n} PROVE WatchFits(m)'
  <2>1. watch'[m] = watch[m] /\ health'[m] = health[m]
    BY <1>1 DEF RefInv, Inv, TypeOK, HandlerTypeOK
  <2>2. WatchFits(m)
    BY DEF RefInv, WatchInv
  <2> QED  BY <2>1, <2>2 DEF WatchFits, Told
<1> QED  BY <1>3, <1>4 DEF WatchInv

LEMMA WatchStill ==
    ASSUME WatchInv, UNCHANGED <<watch, health>>
    PROVE  WatchInv'
BY DEF WatchInv, WatchFits, Told

LEMMA RefInit == Init => RefInv
BY InvInit, GoneInit, UsableInit, WatchInit DEF RefInv

LEMMA RefStep == RefInv /\ [Next]_vars => RefInv'
<1> SUFFICES ASSUME RefInv, [Next]_vars PROVE RefInv'
  OBVIOUS
<1>1. Inv' /\ GoneInv' /\ PublishedUsable'
  BY InvStep, GoneStep, UsableStep DEF RefInv, Inv
<1>2. ASSUME NEW n \in Node, NEW m \in Node, Transport(n, m) \/ Failure(n, m)
      PROVE  WatchInv'
  BY <1>2, WatchStill DEF Transport, Failure, handlerVars, RefInv
<1>3. ASSUME NEW n \in Node, HandlerStep(n) PROVE WatchInv'
  BY <1>1, <1>3, HandlerAnnounces, WatchAnnounced DEF RefInv
<1>4. ASSUME NEW n \in Node, HandlerPanics(n) \/ TimerFires(n) \/ CacheReset(n)
      PROVE  WatchInv'
  BY <1>4, WatchStill DEF HandlerPanics, TimerFires, CacheReset, handlerVars, RefInv
<1>5. ASSUME NEW n \in Node, ProcessStep(n) PROVE WatchInv'
  <2>1. CASE RequestShutdown(n) \/ Restart(n)
    BY <2>1, WatchStill DEF RequestShutdown, Restart, handlerVars, RefInv
  <2>2. CASE HandOver(n) \/ ShutDown(n) \/ Crash(n)
    BY <2>2, WatchForgotten DEF HandOver, ShutDown, Crash
  <2> QED  BY <1>5, <2>1, <2>2 DEF ProcessStep
<1>6. ASSUME UNCHANGED vars PROVE WatchInv'
  BY <1>6, WatchStill DEF vars, handlerVars, RefInv
<1>7. WatchInv'
  BY <1>2, <1>3, <1>4, <1>5, <1>6 DEF Next
<1> QED  BY <1>1, <1>7 DEF RefInv

-----------------------------------------------------------------------------
(* Every step of Cluster is a step of Membership, or changes nothing there. *)
Maps == M!MembershipNext \/ UNCHANGED <<Runs, Client, Shows, resets>>

LEMMA MapsInit == Init => M!MembershipInit
<1> SUFFICES ASSUME Init PROVE M!MembershipInit
  OBVIOUS
<1>1. RefInv
  BY RefInit
<1>2. \A n \in Node : Shows[n] \in M!View /\ M!Usable(Shows[n])
  BY <1>1, ShowsUsable
<1>3. \A n \in Node : watch[n] = DefaultHealthState /\ ~resets[n]
  BY DEF Init, HandlerInit
<1>4. \A n \in Node : Shows[n] = M!DefaultView
  BY <1>3, DefaultTold DEF Shows
<1>5. Client = [n \in Node |-> [m \in Node |-> "down"]]
  BY DEF Init, StreamsInit, Client
<1>6. /\ Runs \in [Node -> BOOLEAN]
      /\ Client \in [Node -> [Node -> M!Client]]
      /\ resets \in [Node -> BOOLEAN]
  BY <1>5 DEF Runs, Init, HandlerInit, M!Client
<1>7. Shows \in [Node -> M!View]
  BY <1>2 DEF Shows
<1> QED  BY <1>2, <1>3, <1>4, <1>5, <1>6, <1>7
            DEF M!MembershipInit, M!MembershipTypeOK

LEMMA AnnouncementMaps ==
    ASSUME RefInv, RefInv', NEW n \in Node, phase[n] = "up", Announces(n)
    PROVE  Maps
<1>1. Runs[n] /\ UNCHANGED <<Runs, Client>>
  BY DEF Runs, Client, Announces
<1>2. CASE UNCHANGED watch
  <2>1. UNCHANGED Shows
    BY <1>2 DEF Shows, Shown
  <2>2. health'[n] = "Bad" <=> health[n] = "Bad"
    BY <1>2 DEF RefInv, WatchInv, WatchFits
  <2>3. UNCHANGED resets
    BY <2>2 DEF Announces
  <2> QED  BY <1>1, <2>1, <2>3 DEF Maps
<1>3. CASE Publish(n)
  <2> DEFINE w == [health |-> health'[n], state |-> state'[n],
                   txLeader |-> txLeader'[n],
                   connectedHosts |-> Cardinality(hosts'[n])]
  <2>1. watch' = [watch EXCEPT ![n] = w]
    BY <1>3 DEF Publish
  <2>2. /\ w.state = state'[n] /\ w.txLeader = txLeader'[n]
        /\ w.health = health'[n]
    OBVIOUS
  <2> HIDE DEF w
  <2>3. watch'[n] = w
    BY <2>1 DEF RefInv, Inv, TypeOK, HandlerTypeOK
  <2>4. Shows' = [Shows EXCEPT ![n] = Shown(w)]
    BY <2>1 DEF Shows, Shown, RefInv, Inv, TypeOK, HandlerTypeOK
  <2>5. Shows'[n] = Shown(w)
    BY <2>4 DEF Shows
  <2>6. Shown(w) \in M!View /\ M!Usable(Shown(w))
    <3>1. w \in QuorumHealthState
      BY <2>3 DEF RefInv, Inv, TypeOK, HandlerTypeOK
    <3>2. /\ w.health /= "Bad" => w.connectedHosts >= QuorumSize
          /\ w.state = Follower => w.txLeader /= None
      BY <2>3 DEF RefInv, PublishedUsable
    <3>3. Told(w)
      BY <2>3 DEF RefInv, WatchInv, WatchFits, Told
    <3> QED  BY <3>1, <3>2, <3>3, ShownUsable
  <2>7. /\ Shows[n].quorum <=> health[n] /= "Bad"
        /\ Shown(w).quorum <=> health'[n] /= "Bad"
    BY <2>2, ShowsUsable DEF Shown
  <2>8. IF Shows[n].quorum /\ ~Shown(w).quorum
        THEN /\ Shown(w).role = "Undefined" /\ Shown(w).to = None
             /\ resets' = [resets EXCEPT ![n] = TRUE]
        ELSE UNCHANGED resets
    BY <2>2, <2>7 DEF Announces, Shown, Undefined
  <2>9. M!Publishes(n, Shows'[n])
    BY <1>1, <2>4, <2>5, <2>6, <2>8 DEF M!Publishes
  <2> QED  BY <2>9 DEF Maps, M!MembershipNext
<1> QED  BY <1>2, <1>3 DEF Announces

(* A client connects, opens its stream and loses the one or the other.     *)
LEMMA TransportMaps ==
    ASSUME Inv, GoneInv, NEW n \in Node, NEW m \in Node,
           Transport(n, m) \/ Failure(n, m)
    PROVE  Maps
<1>1. UNCHANGED <<phase, watch, resets>>
  BY DEF Transport, Failure, Connect, OpenStream, LeakedForwarderTakes, Break,
     DeliverRequest, DeliverAck, OpenFails, LoseRest
<1>2. UNCHANGED <<Runs, Shows>>
  BY <1>1 DEF Runs, Shows, Shown
<1>3. link \in [Node -> [Node -> LinkState]]
  BY DEF Inv, TypeOK, StreamsTypeOK
<1>4. CASE UNCHANGED link
  BY <1>1, <1>2, <1>4 DEF Maps, Client
<1>5. CASE Connect(n, m)
  <2>1. /\ n /= m /\ Runs[n] /\ Runs[m] /\ Client[n][m] = "down"
        /\ Client' = [Client EXCEPT ![n][m] = "connected"]
    BY <1>3, <1>5 DEF Connect, Runs, Client
  <2>2. M!Connects(n, m)
    BY <1>1, <1>2, <2>1 DEF M!Connects
  <2> QED  BY <2>2 DEF Maps, M!MembershipNext
<1>6. CASE OpenStream(n, m, Report(m))
  <2>1. /\ phase[m] = "up" /\ link[n][m] = "connected"
        /\ link' = [link EXCEPT ![n][m] = "open"]
    BY <1>6 DEF OpenStream
  <2>2. Runs[n] /\ Runs[m]
    BY <2>1 DEF Runs, GoneInv, Gone
  <2>3. /\ Client[n][m] = "connected"
        /\ Client' = [Client EXCEPT ![n][m] = "up"]
    BY <1>3, <2>1 DEF Client
  <2>4. M!Opens(n, m)
    BY <1>1, <1>2, <2>2, <2>3 DEF M!Opens
  <2> QED  BY <2>4 DEF Maps, M!MembershipNext
<1>7. CASE Break(n, m) \/ OpenFails(n, m)
  <2>1. /\ phase[n] /= "off"
        /\ link[n][m] \in {"connected", "open", "lost"}
        /\ link' = [link EXCEPT ![n][m] = "down"]
    BY <1>7 DEF Break, OpenFails
  <2>2. Runs[n] /\ Client[n][m] /= "down"
    BY <2>1 DEF Runs, Client
  <2>3. Client' = [Client EXCEPT ![n][m] = "down"]
    BY <1>3, <2>1 DEF Client
  <2>4. M!Breaks(n, m)
    BY <1>1, <1>2, <2>2, <2>3 DEF M!Breaks
  <2> QED  BY <2>4 DEF Maps, M!MembershipNext
<1> QED  BY <1>4, <1>5, <1>6, <1>7
            DEF Transport, Failure, LeakedForwarderTakes, DeliverRequest,
                DeliverAck, LoseRest

(* A process that ends takes its clients with it; the others' clients that *)
(* had a stream to it have not noticed, those without one have.            *)
LEMMA EndMaps ==
    ASSUME Inv, NEW n \in Node, phase[n] /= "off", Disconnect(n), Forget(n)
    PROVE  Maps
<1> DEFINE unaware == {a \in Node \ {n} : link[a][n] = "open"}
<1>1. link \in [Node -> [Node -> LinkState]] /\ phase \in [Node -> {"off", "up", "panicked"}]
      /\ link[n][n] = "down"
  BY DEF Inv, TypeOK, StreamsTypeOK
<1>2. Runs[n] /\ Runs' = [Runs EXCEPT ![n] = FALSE]
  BY <1>1 DEF Runs, Disconnect
<1>3. unaware \in SUBSET (Node \ {n})
  OBVIOUS
<1>4. Client' = M!ConnWithout(n, unaware)
  <2>1. link' = LinksWithout(n)
    BY DEF Disconnect
  <2> QED  BY <1>1, <2>1 DEF LinksWithout, Client, LinkState, M!ConnWithout
<1>5. Shows' = [Shows EXCEPT ![n] = M!DefaultView]
  <2>1. watch' = [watch EXCEPT ![n] = DefaultHealthState]
    BY DEF Forget
  <2> QED  BY <2>1, DefaultTold DEF Shows, Inv, TypeOK, HandlerTypeOK
<1>6. resets' = [resets EXCEPT ![n] = FALSE]
  BY DEF Forget
<1> HIDE DEF unaware
<1>7. M!Stops(n)
  BY <1>2, <1>3, <1>4, <1>5, <1>6 DEF M!Stops
<1> QED  BY <1>7 DEF Maps, M!MembershipNext

LEMMA ProcessMaps ==
    ASSUME Inv, NEW n \in Node, ProcessStep(n)
    PROVE  Maps
<1>1. CASE RequestShutdown(n)
  <2>1. UNCHANGED <<phase, link, watch, resets>>
    BY <1>1 DEF RequestShutdown
  <2> QED  BY <2>1 DEF Maps, Runs, Client, Shows
<1>2. CASE Restart(n)
  <2>1. /\ UNCHANGED <<link, watch, resets>> /\ phase[n] = "off"
        /\ phase' = [phase EXCEPT ![n] = "up"]
    BY <1>2 DEF Restart
  <2>2. UNCHANGED <<Client, Shows>>
    BY <2>1 DEF Client, Shows
  <2>3. ~Runs[n] /\ Runs' = [Runs EXCEPT ![n] = TRUE]
    BY <2>1 DEF Runs, Inv, TypeOK, StreamsTypeOK
  <2>4. M!Starts(n)
    BY <2>1, <2>2, <2>3 DEF M!Starts
  <2> QED  BY <2>4 DEF Maps, M!MembershipNext
<1>3. CASE HandOver(n) \/ ShutDown(n) \/ Crash(n)
  <2>1. phase[n] /= "off" /\ Disconnect(n) /\ Forget(n)
    BY <1>3 DEF HandOver, ShutDown, Crash, Receives
  <2> QED  BY <2>1, EndMaps
<1> QED  BY <1>1, <1>2, <1>3 DEF ProcessStep

LEMMA TaskMaps ==
    ASSUME Inv, NEW n \in Node, HandlerPanics(n) \/ TimerFires(n) \/ CacheReset(n)
    PROVE  Maps
<1>1. CASE HandlerPanics(n)
  <2>1. /\ phase[n] = "up" /\ phase' = [phase EXCEPT ![n] = "panicked"]
        /\ UNCHANGED <<link, watch, resets>>
    BY <1>1 DEF HandlerPanics, SwitchAckPanics, OtherPanics, Receives
  <2>2. UNCHANGED Runs
    BY <2>1 DEF Runs, Inv, TypeOK, StreamsTypeOK
  <2> QED  BY <2>1, <2>2 DEF Maps, Client, Shows
<1>2. CASE TimerFires(n)
  <2>1. UNCHANGED <<phase, link, watch, resets>>
    BY <1>2 DEF TimerFires
  <2> QED  BY <2>1 DEF Maps, Runs, Client, Shows
<1>3. CASE CacheReset(n)
  <2>1. UNCHANGED <<Runs, Client, Shows>>
    BY <1>3 DEF CacheReset, streamVars, Runs, Client, Shows
  <2>2. M!Empties(n)
    BY <1>3, <2>1 DEF CacheReset, M!Empties
  <2> QED  BY <2>2 DEF Maps, M!MembershipNext
<1> QED  BY <1>1, <1>2, <1>3

LEMMA MapsStep == RefInv /\ [Next]_vars => [M!MembershipNext]_(M!memberVars)
<1> SUFFICES ASSUME RefInv, [Next]_vars PROVE Maps
  BY DEF Maps, M!memberVars
<1>1. RefInv'
  BY RefStep
<1>2. ASSUME NEW n \in Node, HandlerStep(n) PROVE Maps
  <2>1. phase[n] = "up" /\ Announces(n)
    BY <1>2, TurnsOfTheLiving, HandlerAnnounces DEF RefInv
  <2> QED  BY <1>1, <2>1, AnnouncementMaps
<1>3. CASE UNCHANGED vars
  BY <1>3 DEF vars, streamVars, Maps, Runs, Client, Shows
<1> QED  BY <1>2, <1>3, TransportMaps, ProcessMaps, TaskMaps DEF Next, RefInv

(* In clusters of any size, whatever breaks, stops and comes late, the     *)
(* cache operations may rely on Membership: what they read from the watch  *)
(* channel can be used at any time, and no quorum is lost but in the step  *)
(* that has the caches emptied (quorum.rs, UpdateServer and tx_watch).     *)
THEOREM MembershipImplemented == Spec => ImplementsMembership
<1>1. Spec => []RefInv
  BY RefInit, RefStep, PTL DEF Spec
<1> QED
  BY <1>1, MapsInit, MapsStep, PTL
     DEF Spec, ImplementsMembership, M!MembershipSpec

=============================================================================
