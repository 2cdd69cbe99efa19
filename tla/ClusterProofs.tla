---------------------------- MODULE ClusterProofs ----------------------------
(***************************************************************************)
(* Proofs about Cluster, for every set of members, every network and every *)
(* value of the bounds.                                                    *)
(***************************************************************************)
EXTENDS Cluster, FiniteSetTheorems, SequenceTheorems, TLAPS

Timed == {"LeaderInfo", "LeaderReq", "LeaderReqAck", "LeaderAck", "LeaderSwitch",
          "LeaderSwitchDead", "LeaderSwitchPriority"}

Plain == {"Alive", "Dead", "LeaderSwitchAck"}

(* What a request carries, by its kind.                                    *)
LEMMA RequestFields ==
    ASSUME NEW n \in Node, NEW r \in Request(n)
    PROVE  /\ r.is \in Plain \cup Timed => r.addr \in Node
           /\ r.is \in Timed => r.ts \in Ts
           /\ r.is \in {"Alive", "Dead"} => r.addr /= n
BY SMT DEF Request, Message, News, Plain, Timed, CheckElectionTimeout, HostShutdown

(* The constructors build messages.                                        *)
LEMMA MessageMade ==
    ASSUME NEW a \in Node, NEW t \in Ts, NEW q \in BOOLEAN
    PROVE  /\ LeaderSwitchAck(a) \in Message
           /\ LeaderInfo(a, t, q) \in Message
           /\ LeaderReq(a, t) \in Message
           /\ LeaderReqAck(a, t) \in Message
           /\ LeaderAck(a, t) \in Message
           /\ LeaderSwitch(a, t) \in Message
           /\ LeaderSwitchDead(a, t) \in Message
           /\ LeaderSwitchPriority(a, t) \in Message
BY SMT DEF Message, LeaderSwitchAck, LeaderInfo, LeaderReq,
       LeaderReqAck, LeaderAck, LeaderSwitch, LeaderSwitchDead,
       LeaderSwitchPriority

(* Messages, news of other members, and the signals are requests.          *)
LEMMA RequestMade ==
    ASSUME NEW n \in Node
    PROVE  /\ Message \subseteq Request(n)
           /\ \A m \in Node \ {n} : {Alive(m), Dead(m)} \subseteq Request(n)
           /\ CheckElectionTimeout \in Request(n)
           /\ HostShutdown \in Request(n)
BY DEF Request, News, Alive, Dead

(* What a registered leader carries.                                       *)
LEMMA LeaderFields ==
    ASSUME NEW l \in RegisteredLeader
    PROVE  /\ l.is \in {"None", "Local", "Remote"}
           /\ l.is = "None" <=> l = NoLeader
           /\ l.is = "Remote" => l.addr \in Node
           /\ l /= NoLeader => l.ts \in Ts
           /\ l.is = "Local" => l = Local(l.ts)
           /\ l.is = "Remote" => l = Remote(l.addr, l.ts)
BY SMT DEF RegisteredLeader, NoLeader, Local, Remote

LEMMA LeaderMade ==
    ASSUME NEW a \in Node, NEW t \in Ts
    PROVE  /\ NoLeader \in RegisteredLeader
           /\ Local(t) \in RegisteredLeader
           /\ Remote(a, t) \in RegisteredLeader
           /\ Local(t) /= NoLeader /\ Remote(a, t) /= NoLeader
           /\ Local(t).is = "Local" /\ Local(t).ts = t
           /\ Remote(a, t).is = "Remote"
           /\ Remote(a, t).addr = a /\ Remote(a, t).ts = t
BY SMT DEF RegisteredLeader, NoLeader, Local, Remote

(* What a state carries.                                                   *)
LEMMA StateFields ==
    ASSUME NEW s \in QuorumState
    PROVE  /\ s.is = "LeaderTxAwait" =>
                  s.addr \in Node /\ s = LeaderTxAwait(s.addr)
           /\ s.is = "LeadershipRequested" =>
                  s.ts \in Ts /\ s = LeadershipRequested(s.ts)
           /\ s.is \in {"Leader", "LeaderDead", "LeaderSwitch", "Follower",
                        "Undefined", "Retry", "LeaderTxAwait",
                        "LeadershipRequested"}
BY SMT DEF QuorumState, Leader, LeaderDead, SwitchOver, Follower, Undefined,
       Retry, LeaderTxAwait, LeadershipRequested

LEMMA StateMade ==
    ASSUME NEW a \in Node, NEW t \in Ts
    PROVE  /\ {Leader, LeaderDead, SwitchOver, Follower, Undefined, Retry}
                  \subseteq QuorumState
           /\ LeaderTxAwait(a) \in QuorumState
           /\ LeadershipRequested(t) \in QuorumState
BY SMT DEF QuorumState, LeaderTxAwait, LeadershipRequested

LEMMA NoneLeaderMade == NoLeader \in RegisteredLeader
BY DEF RegisteredLeader

LEMMA SimpleStates ==
    {Leader, LeaderDead, SwitchOver, Follower, Undefined, Retry} \subseteq QuorumState
BY DEF QuorumState

(* Messages to everybody, to one member and to nobody.                     *)
LEMMA OutMade ==
    ASSUME NEW a \in Node, NEW r \in Message
    PROVE  /\ ToAll(<<r>>) \in [Node -> Seq(Message)]
           /\ ToOne(a, <<r>>) \in [Node -> Seq(Message)]
BY EmptySeq DEF ToAll, ToOne

LEMMA NobodyMade == ToNobody \in [Node -> Seq(Message)] /\ <<>> \in Seq(Message)
BY EmptySeq DEF ToNobody

LEMMA ThenMade ==
    ASSUME NEW o1 \in [Node -> Seq(Message)], NEW o2 \in [Node -> Seq(Message)]
    PROVE  Then(o1, o2) \in [Node -> Seq(Message)]
BY ConcatProperties DEF Then

-----------------------------------------------------------------------------
(* The parts of a handler's turn keep the types.                           *)

LEMMA SendTypes ==
    ASSUME StreamsTypeOK, NEW n \in Node, NEW out \in [Node -> Seq(Message)],
           Send(n, out)
    PROVE  wire' \in [Node -> [Node -> Seq(Message)]]
<1>1. \A m \in Node : wire[n][m] \o out[m] \in Seq(Message)
  BY ConcatProperties DEF StreamsTypeOK
<1> QED  BY <1>1 DEF Send, StreamsTypeOK

(* A mailbox that is given what its member may be given keeps its type.    *)
LEMMA MailboxTypes ==
    ASSUME StreamsTypeOK, NEW n \in Node, NEW box \in Seq(Request(n)),
           mailbox' = [mailbox EXCEPT ![n] = box]
    PROVE  MailboxTypeOK'
<1>1. Request(n) \subseteq UNION {Request(m) : m \in Node}
  OBVIOUS
<1>2. box \in Seq(UNION {Request(m) : m \in Node})
  BY <1>1, SeqMonotonic
<1> QED  BY <1>2 DEF StreamsTypeOK, MailboxTypeOK

LEMMA TakeTypes ==
    ASSUME StreamsTypeOK, NEW n \in Node, NEW own \in Seq(Message),
           mailbox[n] /= <<>>, Take(n, own)
    PROVE  MailboxTypeOK'
<1>1. Tail(mailbox[n]) \in Seq(Request(n))
  BY HeadTailProperties DEF StreamsTypeOK, MailboxTypeOK
<1>2. own \in Seq(Request(n))
  BY RequestMade, SeqMonotonic
<1>3. Tail(mailbox[n]) \o own \in Seq(Request(n))
  BY <1>1, <1>2, ConcatProperties
<1> QED  BY <1>3, MailboxTypes DEF Take

LEMMA HeadTypes ==
    ASSUME StreamsTypeOK, NEW n \in Node, mailbox[n] /= <<>>
    PROVE  Req(n) \in Request(n)
BY HeadTailProperties DEF StreamsTypeOK, MailboxTypeOK, Req

LEMMA HostsFinite ==
    ASSUME NEW h \in SUBSET Node
    PROVE  IsFiniteSet(h) /\ Cardinality(h) \in Nat
BY FS_Subset, FS_CardinalityType, NodeAssumption

LEMMA PublishTypes ==
    ASSUME HandlerTypeOK, NEW n \in Node, Publish(n),
           hosts' \in [Node -> SUBSET Node], health' \in [Node -> QuorumHealth],
           state' \in [Node -> QuorumState],
           txLeader' \in [Node -> Node \cup {None}]
    PROVE  watch' \in [Node -> QuorumHealthState]
<1>1. hosts'[n] \in SUBSET Node
  OBVIOUS
<1>2. Cardinality(hosts'[n]) \in Nat
  BY <1>1, HostsFinite
<1>3. [health |-> health'[n], state |-> state'[n], txLeader |-> txLeader'[n],
       connectedHosts |-> Cardinality(hosts'[n])] \in QuorumHealthState
  BY <1>2 DEF QuorumHealthState
<1> QED  BY <1>3 DEF Publish, HandlerTypeOK

LEMMA TurnTypes ==
    ASSUME TypeOK, NEW n \in Node, mailbox[n] /= <<>>,
           NEW own \in Seq(Message), NEW out \in [Node -> Seq(Message)],
           hosts' \in [Node -> SUBSET Node], health' \in [Node -> QuorumHealth],
           state' \in [Node -> QuorumState],
           txLeader' \in [Node -> Node \cup {None}],
           Turn(n, own, out)
    PROVE  StreamsTypeOK' /\ watch' \in [Node -> QuorumHealthState]
<1>1. wire' \in [Node -> [Node -> Seq(Message)]]
  BY SendTypes DEF TypeOK, Turn
<1>2. MailboxTypeOK'
  BY TakeTypes DEF TypeOK, Turn
<1>3. watch' \in [Node -> QuorumHealthState]
  BY PublishTypes DEF TypeOK, Turn
<1> QED  BY <1>1, <1>2, <1>3 DEF TypeOK, Turn, StreamsTypeOK, sameStreams

(* The messages of check_leadership_conflict.                              *)
LEMMA ConflictTypes ==
    ASSUME HandlerTypeOK, NEW n \in Node, NEW a \in Node, NEW t \in Ts
    PROVE  /\ ConflictOwn(n, a, t) \in Seq(Message)
           /\ ConflictOut(n, a, t) \in [Node -> Seq(Message)]
<1>1. leader[n] \in RegisteredLeader
  BY DEF HandlerTypeOK
<1>2. LeaderSwitchPriority(a, t) \in Message
  BY MessageMade
<1>3. ConflictOwn(n, a, t) \in Seq(Message)
  BY <1>2, EmptySeq DEF ConflictOwn
<1>4. Conflict(n) => LeaderAddr(n) \in Node /\ leader[n].ts \in Ts
  BY <1>1, LeaderFields DEF Conflict, LeaderAddr
<1>5. Conflict(n) => LeaderSwitchPriority(LeaderAddr(n), leader[n].ts) \in Message
  BY <1>4, MessageMade
<1>6. ConflictOut(n, a, t) \in [Node -> Seq(Message)]
  BY <1>2, <1>5, OutMade, NobodyMade DEF ConflictOut
<1> QED  BY <1>3, <1>6

LEMMA ArmTypes ==
    ASSUME NEW n \in Node, timers \in [Node -> Nat], Arm(n)
    PROVE  timers' \in [Node -> Nat]
BY DEF Arm

LEMMA DrawTypes ==
    ASSUME NEW a \in Node, NEW t \in Ts, owner \in [Ts -> Node \cup {None}],
           Draw(t, a)
    PROVE  owner' \in [Ts -> Node \cup {None}]
BY DEF Draw

LEMMA TurnKeepsTypes ==
    ASSUME TypeOK, NEW n \in Node, mailbox[n] /= <<>>,
           NEW own \in Seq(Message), NEW out \in [Node -> Seq(Message)],
           hosts' \in [Node -> SUBSET Node], health' \in [Node -> QuorumHealth],
           state' \in [Node -> QuorumState],
           leader' \in [Node -> RegisteredLeader],
           txLeader' \in [Node -> Node \cup {None}],
           ackCount' \in [Node -> Nat], timers' \in [Node -> Nat],
           resets' \in [Node -> BOOLEAN], owner' \in [Ts -> Node \cup {None}],
           Turn(n, own, out)
    PROVE  TypeOK'
BY TurnTypes DEF TypeOK, HandlerTypeOK

(* What a handler reads at the start of a turn.                            *)
LEMMA Received ==
    ASSUME TypeOK, NEW n \in Node, NEW kind, Receives(n, kind)
    PROVE  /\ mailbox[n] /= <<>>
           /\ Req(n) \in Request(n)
           /\ Req(n).is = kind
           /\ kind \in Plain \cup Timed => Req(n).addr \in Node
           /\ kind \in Timed => Req(n).ts \in Ts
           /\ kind \in {"Alive", "Dead"} => Req(n).addr /= n
           /\ leader[n] \in RegisteredLeader
           /\ state[n] \in QuorumState
<1>1. mailbox[n] /= <<>> /\ Req(n).is = kind
  BY DEF Receives, Req
<1>2. Req(n) \in Request(n)
  BY <1>1, HeadTypes DEF TypeOK
<1> QED  BY <1>1, <1>2, RequestFields DEF TypeOK, HandlerTypeOK

LEMMA HostJoinsTypes ==
    ASSUME TypeOK, NEW n \in Node, Req(n).addr \in Node, HostJoins(n)
    PROVE  /\ hosts' \in [Node -> SUBSET Node]
           /\ health' \in [Node -> QuorumHealth]
BY DEF TypeOK, HandlerTypeOK, HostJoins, SetHosts, SetHealth, HealthWith,
       QuorumHealth

-----------------------------------------------------------------------------
(* Every action of the handler keeps the types.                            *)

LEMMA AliveTypes ==
    ASSUME TypeOK, NEW n \in Node,
           \/ AliveAwaitedLeader(n) \/ AliveRetriedLeader(n)
           \/ AliveRequestLeadership(n) \/ AliveOther(n)
    PROVE  TypeOK'
<1> DEFINE m == Req(n).addr
<1>1. Receives(n, "Alive")
  BY DEF AliveAwaitedLeader, AliveRetriedLeader, AliveRequestLeadership, AliveOther
<1>2. mailbox[n] /= <<>> /\ m \in Node
  BY <1>1, Received DEF Plain
<1>3. HostJoins(n)
  BY DEF AliveAwaitedLeader, AliveRetriedLeader, AliveRequestLeadership, AliveOther
<1>4. hosts' \in [Node -> SUBSET Node] /\ health' \in [Node -> QuorumHealth]
  BY <1>2, <1>3, HostJoinsTypes
<1>5. leader[n] \in RegisteredLeader
  BY DEF TypeOK, HandlerTypeOK
<1>6. leader[n] /= NoLeader \/ leader[n].is = "Remote" =>
          /\ leader[n].ts \in Ts
          /\ Remote(m, leader[n].ts) \in RegisteredLeader
          /\ LeaderReqAck(m, leader[n].ts) \in Message
  BY <1>2, <1>5, LeaderFields, LeaderMade, MessageMade
<1>7. CASE AliveAwaitedLeader(n)
  <2>1. ToOne(m, <<LeaderReqAck(m, leader[n].ts)>>) \in [Node -> Seq(Message)]
    BY <1>2, <1>6, <1>7, OutMade DEF AliveAwaitedLeader
  <2>2. Turn(n, <<>>, ToOne(m, <<LeaderReqAck(m, leader[n].ts)>>))
    BY <1>7 DEF AliveAwaitedLeader
  <2>3. state' \in [Node -> QuorumState]
    BY <1>7, SimpleStates DEF AliveAwaitedLeader, SetState, TypeOK, HandlerTypeOK
  <2>4. leader' \in [Node -> RegisteredLeader]
    BY <1>6, <1>7 DEF AliveAwaitedLeader, SetLeader, TypeOK, HandlerTypeOK
  <2>5. txLeader' \in [Node -> Node \cup {None}]
    BY <1>2, <1>7 DEF AliveAwaitedLeader, SetTx, TypeOK, HandlerTypeOK
  <2>6. UNCHANGED <<ackCount, timers, resets, owner>>
    BY <1>7 DEF AliveAwaitedLeader
  <2> QED
    BY <1>2, <1>4, <2>1, <2>2, <2>3, <2>4, <2>5, <2>6, NobodyMade, TurnKeepsTypes
       DEF TypeOK, HandlerTypeOK
<1>8. CASE AliveRetriedLeader(n)
  <2>1. ToAll(<<LeaderReqAck(m, leader[n].ts)>>) \in [Node -> Seq(Message)]
    BY <1>2, <1>6, <1>8, OutMade DEF AliveRetriedLeader, RetriesFor
  <2>2. Turn(n, <<>>, ToAll(<<LeaderReqAck(m, leader[n].ts)>>))
    BY <1>8 DEF AliveRetriedLeader
  <2>3. state' \in [Node -> QuorumState]
    BY <1>8, SimpleStates DEF AliveRetriedLeader, SetState, TypeOK, HandlerTypeOK
  <2>4. txLeader' \in [Node -> Node \cup {None}]
    BY <1>2, <1>8 DEF AliveRetriedLeader, SetTx, TypeOK, HandlerTypeOK
  <2>5. UNCHANGED <<leader, ackCount, timers, resets, owner>>
    BY <1>8 DEF AliveRetriedLeader
  <2> QED
    BY <1>2, <1>4, <2>1, <2>2, <2>3, <2>4, <2>5, NobodyMade, TurnKeepsTypes
       DEF TypeOK, HandlerTypeOK
<1>9. CASE AliveRequestLeadership(n)
  <2>1. PICK t \in Ts :
            /\ Draw(t, n)
            /\ SetLeader(n, Local(t))
            /\ SetState(n, LeadershipRequested(t))
            /\ Turn(n, <<>>, ToAll(<<LeaderReq(n, t)>>))
    BY <1>9 DEF AliveRequestLeadership
  <2>2. ToAll(<<LeaderReq(n, t)>>) \in [Node -> Seq(Message)]
    BY MessageMade, OutMade
  <2>3. state' \in [Node -> QuorumState] /\ leader' \in [Node -> RegisteredLeader]
    BY <2>1, StateMade, LeaderMade DEF SetState, SetLeader, TypeOK, HandlerTypeOK
  <2>4. txLeader' \in [Node -> Node \cup {None}] /\ ackCount' \in [Node -> Nat]
    BY <1>9 DEF AliveRequestLeadership, SetTx, SetAckCount, TypeOK, HandlerTypeOK
  <2>5. timers' \in [Node -> Nat] /\ owner' \in [Ts -> Node \cup {None}]
    BY <1>9, <2>1, ArmTypes, DrawTypes
       DEF AliveRequestLeadership, TypeOK, HandlerTypeOK
  <2>6. UNCHANGED resets
    BY <1>9 DEF AliveRequestLeadership
  <2> QED
    BY <1>2, <1>4, <2>1, <2>2, <2>3, <2>4, <2>5, <2>6, NobodyMade, TurnKeepsTypes
       DEF TypeOK, HandlerTypeOK
<1>10. CASE AliveOther(n)
  <2>1. /\ UNCHANGED <<state, leader, txLeader, ackCount, timers, resets, owner>>
        /\ Turn(n, <<>>, ToNobody)
    BY <1>10 DEF AliveOther
  <2> QED  BY <1>2, <1>4, <2>1, NobodyMade, TurnKeepsTypes DEF TypeOK, HandlerTypeOK
<1> QED  BY <1>7, <1>8, <1>9, <1>10

LEMMA TakeOverTypes ==
    ASSUME TypeOK, NEW n \in Node, mailbox[n] /= <<>>,
           hosts' \in [Node -> SUBSET Node], health' \in [Node -> QuorumHealth],
           ackCount' \in [Node -> Nat], UNCHANGED resets,
           TakeOverFromDead(n)
    PROVE  TypeOK'
<1>1. PICK t \in Ts :
          /\ Draw(t, n)
          /\ SetLeader(n, Local(t))
          /\ SetState(n, LeadershipRequested(t))
          /\ SetTx(n, None)
          /\ Arm(n)
          /\ Turn(n, <<>>, ToAll(<<LeaderSwitchDead(n, t)>>))
  BY DEF TakeOverFromDead
<1>2. ToAll(<<LeaderSwitchDead(n, t)>>) \in [Node -> Seq(Message)]
  BY MessageMade, OutMade
<1>3. state' \in [Node -> QuorumState] /\ leader' \in [Node -> RegisteredLeader]
  BY <1>1, StateMade, LeaderMade DEF SetState, SetLeader, TypeOK, HandlerTypeOK
<1>4. txLeader' \in [Node -> Node \cup {None}]
  BY <1>1 DEF SetTx, TypeOK, HandlerTypeOK
<1>5. timers' \in [Node -> Nat] /\ owner' \in [Ts -> Node \cup {None}]
  BY <1>1, ArmTypes, DrawTypes DEF TypeOK, HandlerTypeOK
<1> QED
  BY <1>1, <1>2, <1>3, <1>4, <1>5, NobodyMade, TurnKeepsTypes
     DEF TypeOK, HandlerTypeOK

LEMMA DeadTypes ==
    ASSUME TypeOK, NEW n \in Node,
           \/ DeadLeader(n) \/ DeadLeaderAgain(n)
           \/ DeadOther(n) \/ DeadQuorumLost(n)
    PROVE  TypeOK'
<1>1. Receives(n, "Dead")
  BY DEF DeadLeader, DeadLeaderAgain, DeadOther, DeadQuorumLost
<1>2. mailbox[n] /= <<>>
  BY <1>1, Received
<1>3. hosts' \in [Node -> SUBSET Node] /\ health' \in [Node -> QuorumHealth]
  <2>1. SetHosts(n, Left(n)) /\ \E h \in QuorumHealth : SetHealth(n, h)
    BY DEF DeadLeader, DeadLeaderAgain, DeadOther, DeadQuorumLost, QuorumHealth
  <2> QED  BY <2>1 DEF SetHosts, SetHealth, Left, TypeOK, HandlerTypeOK
<1>4. CASE DeadLeader(n)
  <2>1. ackCount' \in [Node -> Nat]
    BY <1>4 DEF DeadLeader, SetAckCount, TypeOK, HandlerTypeOK
  <2> QED  BY <1>2, <1>3, <1>4, <2>1, TakeOverTypes DEF DeadLeader
<1>5. CASE DeadLeaderAgain(n)
  <2>1. ackCount' \in [Node -> Nat]
    BY <1>5 DEF DeadLeaderAgain, SetAckCount, TypeOK, HandlerTypeOK
  <2>2. MailboxTypeOK'
    BY <1>2, <1>5, TakeTypes, NobodyMade DEF DeadLeaderAgain, TypeOK
  <2> QED
    BY <1>3, <1>5, <2>1, <2>2
       DEF DeadLeaderAgain, sameStreams, TypeOK, StreamsTypeOK, HandlerTypeOK
<1>6. CASE DeadOther(n)
  <2>1. /\ UNCHANGED <<state, leader, txLeader, ackCount, timers, resets, owner>>
        /\ Turn(n, <<>>, ToNobody)
    BY <1>6 DEF DeadOther
  <2> QED
    BY <1>2, <1>3, <2>1, NobodyMade, TurnKeepsTypes DEF TypeOK, HandlerTypeOK
<1>7. CASE DeadQuorumLost(n)
  <2>1. state' \in [Node -> QuorumState] /\ leader' \in [Node -> RegisteredLeader]
    BY <1>7, SimpleStates, NoneLeaderMade
       DEF DeadQuorumLost, SetState, SetLeader, TypeOK, HandlerTypeOK
  <2>2. /\ txLeader' \in [Node -> Node \cup {None}]
        /\ ackCount' \in [Node -> Nat]
        /\ resets' \in [Node -> BOOLEAN]
        /\ UNCHANGED <<timers, owner>>
        /\ Turn(n, <<>>, ToNobody)
    BY <1>7 DEF DeadQuorumLost, EmptyCaches, SetTx, SetAckCount, TypeOK, HandlerTypeOK
  <2> QED
    BY <1>2, <1>3, <2>1, <2>2, NobodyMade, TurnKeepsTypes DEF TypeOK, HandlerTypeOK
<1> QED  BY <1>4, <1>5, <1>6, <1>7

(* A turn that leaves the handler's own variables alone.                   *)
LEMMA IdleTurnTypes ==
    ASSUME TypeOK, NEW n \in Node, mailbox[n] /= <<>>,
           NEW own \in Seq(Message), NEW out \in [Node -> Seq(Message)],
           UNCHANGED <<handlerVars, resets, owner>>, timers' \in [Node -> Nat],
           Turn(n, own, out)
    PROVE  TypeOK'
BY TurnKeepsTypes DEF handlerVars, TypeOK, HandlerTypeOK

LEMMA LeaderInfoTypes ==
    ASSUME TypeOK, NEW n \in Node,
           LeaderInfoIgnored(n) \/ LeaderInfoNoTx(n) \/ LeaderInfoFollow(n)
    PROVE  TypeOK'
<1> DEFINE a == Req(n).addr
           t == Req(n).ts
<1>1. Receives(n, "LeaderInfo")
  BY DEF LeaderInfoIgnored, LeaderInfoNoTx, LeaderInfoFollow
<1>2. mailbox[n] /= <<>> /\ a \in Node /\ t \in Ts
  BY <1>1, Received DEF Timed
<1>3. /\ ConflictOwn(n, a, t) \in Seq(Message)
      /\ ConflictOut(n, a, t) \in [Node -> Seq(Message)]
  BY <1>2, ConflictTypes DEF TypeOK
<1>4. CASE LeaderInfoIgnored(n)
  BY <1>2, <1>3, <1>4, IdleTurnTypes DEF LeaderInfoIgnored, TypeOK, HandlerTypeOK
<1>5. CASE LeaderInfoNoTx(n)
  <2>1. state' \in [Node -> QuorumState] /\ leader' \in [Node -> RegisteredLeader]
    BY <1>2, <1>5, StateMade, LeaderMade
       DEF LeaderInfoNoTx, SetState, SetLeader, TypeOK, HandlerTypeOK
  <2>2. /\ UNCHANGED <<hosts, health, txLeader, ackCount, timers, resets, owner>>
        /\ Turn(n, ConflictOwn(n, a, t), ConflictOut(n, a, t))
    BY <1>5 DEF LeaderInfoNoTx
  <2> QED
    BY <1>2, <1>3, <2>1, <2>2, TurnKeepsTypes DEF TypeOK, HandlerTypeOK
<1>6. CASE LeaderInfoFollow(n)
  <2>1. state' \in [Node -> QuorumState] /\ leader' \in [Node -> RegisteredLeader]
    BY <1>2, <1>6, SimpleStates, LeaderMade
       DEF LeaderInfoFollow, SetState, SetLeader, TypeOK, HandlerTypeOK
  <2>2. txLeader' \in [Node -> Node \cup {None}]
    BY <1>2, <1>6 DEF LeaderInfoFollow, SetTx, TypeOK, HandlerTypeOK
  <2>3. /\ UNCHANGED <<hosts, health, ackCount, timers, resets, owner>>
        /\ Turn(n, ConflictOwn(n, a, t),
                   Then(ConflictOut(n, a, t), ToOne(a, <<LeaderReqAck(a, t)>>)))
    BY <1>6 DEF LeaderInfoFollow
  <2>4. Then(ConflictOut(n, a, t), ToOne(a, <<LeaderReqAck(a, t)>>))
            \in [Node -> Seq(Message)]
    BY <1>2, <1>3, MessageMade, OutMade, ThenMade
  <2> QED
    BY <1>2, <1>3, <2>1, <2>2, <2>3, <2>4, TurnKeepsTypes DEF TypeOK, HandlerTypeOK
<1> QED  BY <1>4, <1>5, <1>6

LEMMA LeaderReqTypes ==
    ASSUME TypeOK, NEW n \in Node,
           LeaderReqConflict(n) \/ LeaderReqAccepted(n) \/ LeaderReqTooEarly(n)
    PROVE  TypeOK'
<1> DEFINE a == Req(n).addr
           t == Req(n).ts
<1>1. Receives(n, "LeaderReq")
  BY DEF LeaderReqConflict, LeaderReqAccepted, LeaderReqTooEarly
<1>2. mailbox[n] /= <<>> /\ a \in Node /\ t \in Ts
  BY <1>1, Received DEF Timed
<1>3. CASE LeaderReqConflict(n)
  <2>1. /\ ConflictOwn(n, a, t) \in Seq(Message)
        /\ ConflictOut(n, a, t) \in [Node -> Seq(Message)]
    BY <1>2, ConflictTypes DEF TypeOK
  <2> QED
    BY <1>2, <1>3, <2>1, IdleTurnTypes DEF LeaderReqConflict, TypeOK, HandlerTypeOK
<1>4. CASE LeaderReqAccepted(n)
  <2>1. leader' \in [Node -> RegisteredLeader] /\ txLeader' \in [Node -> Node \cup {None}]
    BY <1>2, <1>4, LeaderMade
       DEF LeaderReqAccepted, SetTx, SetLeader, TypeOK, HandlerTypeOK
  <2>2. Append(acks[a][n], LeaderReqAck(a, t)) \in Seq(Message)
    <3>1. acks[a][n] \in Seq(Message)
      BY <1>2 DEF TypeOK, StreamsTypeOK
    <3>2. LeaderReqAck(a, t) \in Message
      BY <1>2, MessageMade
    <3> QED  BY <3>1, <3>2, AppendProperties
  <2>3. acks' \in [Node -> [Node -> Seq(Message)]]
    BY <1>2, <1>4, <2>2 DEF LeaderReqAccepted, TypeOK, StreamsTypeOK
  <2>4. MailboxTypeOK'
    BY <1>2, <1>4, TakeTypes, NobodyMade DEF LeaderReqAccepted, TypeOK
  <2>5. timers' \in [Node -> Nat]
    BY <1>4, ArmTypes DEF LeaderReqAccepted, TypeOK, HandlerTypeOK
  <2>6. UNCHANGED <<hosts, health, state, ackCount, phase, link, leaked, wire,
                    faults, resets, owner>>
    BY <1>4 DEF LeaderReqAccepted
  <2>7. watch' \in [Node -> QuorumHealthState]
    BY <1>4, <2>1, <2>6, PublishTypes DEF LeaderReqAccepted, TypeOK, HandlerTypeOK
  <2> QED
    BY <2>1, <2>3, <2>4, <2>5, <2>6, <2>7 DEF TypeOK, StreamsTypeOK, HandlerTypeOK
<1>5. CASE LeaderReqTooEarly(n)
  <2>1. state' \in [Node -> QuorumState] /\ leader' \in [Node -> RegisteredLeader]
    BY <1>2, <1>5, SimpleStates, LeaderMade
       DEF LeaderReqTooEarly, SetState, SetLeader, TypeOK, HandlerTypeOK
  <2>2. txLeader' \in [Node -> Node \cup {None}] /\ timers' \in [Node -> Nat]
    BY <1>5, ArmTypes DEF LeaderReqTooEarly, SetTx, TypeOK, HandlerTypeOK
  <2>3. /\ UNCHANGED <<hosts, health, ackCount, resets, owner>>
        /\ Turn(n, <<>>, ToNobody)
    BY <1>5 DEF LeaderReqTooEarly
  <2> QED
    BY <1>2, <2>1, <2>2, <2>3, NobodyMade, TurnKeepsTypes DEF TypeOK, HandlerTypeOK
<1> QED  BY <1>3, <1>4, <1>5

(* Counting an ack keeps the types, whatever is sent besides.              *)
LEMMA CountAckTypes ==
    ASSUME TypeOK, NEW n \in Node, mailbox[n] /= <<>>,
           NEW tx \in Node \cup {None},
           NEW own \in Seq(Message), NEW out \in [Node -> Seq(Message)],
           leader[n].is = "Local", CountAck(n, tx, own, out)
    PROVE  TypeOK'
<1> DEFINE count == ackCount[n] + 1
           told == Then(out, ToAll(<<LeaderAck(n, leader[n].ts)>>))
<1>1. leader[n].ts \in Ts
  BY LeaderFields, NoneLeaderMade DEF TypeOK, HandlerTypeOK, NoLeader
<1>2. told \in [Node -> Seq(Message)]
  BY <1>1, MessageMade, OutMade, ThenMade
<1>3. /\ ackCount' \in [Node -> Nat]
      /\ UNCHANGED <<hosts, health, leader, timers, resets, owner>>
  BY DEF CountAck, SetAckCount, TypeOK, HandlerTypeOK
<1>4. CASE Enough(count)
  <2>1. state' \in [Node -> QuorumState] /\ txLeader' \in [Node -> Node \cup {None}]
    BY <1>4, SimpleStates DEF CountAck, SetState, SetTx, TypeOK, HandlerTypeOK
  <2>2. Turn(n, own, told)
    BY <1>4 DEF CountAck
  <2> QED
    BY <1>2, <1>3, <2>1, <2>2, TurnKeepsTypes DEF TypeOK, HandlerTypeOK
<1>5. CASE ~Enough(count)
  <2>1. UNCHANGED <<state, txLeader>> /\ Turn(n, own, out)
    BY <1>5 DEF CountAck
  <2> QED
    BY <1>3, <2>1, TurnKeepsTypes DEF TypeOK, HandlerTypeOK
<1> QED  BY <1>4, <1>5

LEMMA LeaderReqAckTypes ==
    ASSUME TypeOK, NEW n \in Node,
           LeaderReqAckNews(n) \/ LeaderReqAckCounted(n) \/ LeaderReqAckOther(n)
    PROVE  TypeOK'
<1> DEFINE a == Req(n).addr
           t == Req(n).ts
<1>1. Receives(n, "LeaderReqAck")
  BY DEF LeaderReqAckNews, LeaderReqAckCounted, LeaderReqAckOther
<1>2. mailbox[n] /= <<>> /\ a \in Node /\ t \in Ts
  BY <1>1, Received DEF Timed
<1>3. CASE LeaderReqAckNews(n)
  <2>1. state' \in [Node -> QuorumState] /\ leader' \in [Node -> RegisteredLeader]
    BY <1>2, <1>3, StateMade, LeaderMade
       DEF LeaderReqAckNews, SetState, SetLeader, TypeOK, HandlerTypeOK
  <2>2. txLeader' \in [Node -> Node \cup {None}] /\ timers' \in [Node -> Nat]
    BY <1>2, <1>3, ArmTypes DEF LeaderReqAckNews, SetTx, TxOf, TypeOK, HandlerTypeOK
  <2>3. /\ UNCHANGED <<hosts, health, ackCount, resets, owner>>
        /\ Turn(n, <<>>, ToAll(<<LeaderReqAck(a, t)>>))
    BY <1>3 DEF LeaderReqAckNews
  <2>4. ToAll(<<LeaderReqAck(a, t)>>) \in [Node -> Seq(Message)]
    BY <1>2, MessageMade, OutMade
  <2> QED
    BY <1>2, <2>1, <2>2, <2>3, <2>4, NobodyMade, TurnKeepsTypes
       DEF TypeOK, HandlerTypeOK
<1>4. CASE LeaderReqAckCounted(n)
  <2>1. /\ ConflictOwn(n, n, t) \in Seq(Message)
        /\ ConflictOut(n, n, t) \in [Node -> Seq(Message)]
    BY <1>2, ConflictTypes DEF TypeOK
  <2> QED
    BY <1>2, <1>4, <2>1, CountAckTypes DEF LeaderReqAckCounted, AckForMe
<1>5. CASE LeaderReqAckOther(n)
  <2>1. /\ ConflictOwn(n, a, t) \in Seq(Message)
        /\ ConflictOut(n, a, t) \in [Node -> Seq(Message)]
    BY <1>2, ConflictTypes DEF TypeOK
  <2> QED
    BY <1>2, <1>5, <2>1, IdleTurnTypes DEF LeaderReqAckOther, TypeOK, HandlerTypeOK
<1> QED  BY <1>3, <1>4, <1>5

(* The leader that a message names, and the client of it.                  *)
LEMMA NamedLeaderTypes ==
    ASSUME TypeOK, NEW n \in Node, NEW a \in Node
    PROVE  TxOf(n, a) \in Node \cup {None} /\ FollowOrAwait(n, a) \in QuorumState
BY SimpleStates DEF TxOf, FollowOrAwait, QuorumState, LeaderTxAwait

LEMMA LeaderAckedTypes ==
    ASSUME TypeOK, NEW n \in Node, LeaderAcked(n)
    PROVE  TypeOK'
<1> DEFINE a == Req(n).addr
           t == Req(n).ts
<1>1. mailbox[n] /= <<>> /\ a \in Node /\ t \in Ts
  BY Received DEF LeaderAcked, Timed
<1>2. leader' \in [Node -> RegisteredLeader]
  BY <1>1, LeaderMade DEF LeaderAcked, SetLeader, TypeOK, HandlerTypeOK
<1>3. state' \in [Node -> QuorumState] /\ txLeader' \in [Node -> Node \cup {None}]
  BY <1>1, NamedLeaderTypes DEF LeaderAcked, SetState, SetTx, TypeOK, HandlerTypeOK
<1>4. /\ ackCount' \in [Node -> Nat]
      /\ UNCHANGED <<hosts, health, timers, resets, owner>>
      /\ Turn(n, <<>>, ToNobody)
  BY DEF LeaderAcked, SetAckCount, TypeOK, HandlerTypeOK
<1> QED
  BY <1>1, <1>2, <1>3, <1>4, NobodyMade, TurnKeepsTypes DEF TypeOK, HandlerTypeOK

LEMMA LeaderSwitchTypes ==
    ASSUME TypeOK, NEW n \in Node, LeaderSwitched(n) \/ LeaderSwitchedDead(n)
    PROVE  TypeOK'
<1> DEFINE a == Req(n).addr
           t == Req(n).ts
<1>1. mailbox[n] /= <<>> /\ a \in Node /\ t \in Ts
  BY Received DEF LeaderSwitched, LeaderSwitchedDead, Timed
<1>2. CASE LeaderSwitched(n)
  <2>1. leader' \in [Node -> RegisteredLeader] /\ state' \in [Node -> QuorumState]
    BY <1>1, <1>2, LeaderMade, SimpleStates
       DEF LeaderSwitched, SetLeader, SetState, TypeOK, HandlerTypeOK
  <2>2. txLeader' \in [Node -> Node \cup {None}] /\ ackCount' \in [Node -> Nat]
    <3>1. CASE a = n
      <4>1. SetTx(n, None) /\ SetAckCount(n, 0)
        BY <1>2, <3>1 DEF LeaderSwitched
      <4> QED  BY <4>1 DEF SetTx, SetAckCount, TypeOK, HandlerTypeOK
    <3>2. CASE a /= n
      <4>1. SetTx(n, TxOf(n, a)) /\ UNCHANGED ackCount
        BY <1>2, <3>2 DEF LeaderSwitched
      <4> QED
        BY <1>1, <4>1, NamedLeaderTypes DEF SetTx, TypeOK, HandlerTypeOK
    <3> QED  BY <3>1, <3>2
  <2>3. /\ timers' \in [Node -> Nat]
        /\ UNCHANGED <<hosts, health, resets, owner>>
        /\ Turn(n, <<>>, ToAll(<<LeaderSwitchAck(a)>>))
    BY <1>2, ArmTypes DEF LeaderSwitched, TypeOK, HandlerTypeOK
  <2>4. ToAll(<<LeaderSwitchAck(a)>>) \in [Node -> Seq(Message)]
    BY <1>1, MessageMade, OutMade
  <2> QED
    BY <1>1, <2>1, <2>2, <2>3, <2>4, NobodyMade, TurnKeepsTypes
       DEF TypeOK, HandlerTypeOK
<1>3. CASE LeaderSwitchedDead(n)
  <2>1. leader' \in [Node -> RegisteredLeader] /\ state' \in [Node -> QuorumState]
    BY <1>1, <1>3, LeaderMade, SimpleStates
       DEF LeaderSwitchedDead, SetLeader, SetState, TypeOK, HandlerTypeOK
  <2>2. txLeader' \in [Node -> Node \cup {None}]
    BY <1>1, <1>3, NamedLeaderTypes
       DEF LeaderSwitchedDead, SetTx, TypeOK, HandlerTypeOK
  <2>3. /\ timers' \in [Node -> Nat]
        /\ UNCHANGED <<hosts, health, ackCount, resets, owner>>
        /\ Turn(n, <<>>, ToAll(<<LeaderReqAck(a, t)>>))
    BY <1>3, ArmTypes DEF LeaderSwitchedDead, TypeOK, HandlerTypeOK
  <2>4. ToAll(<<LeaderReqAck(a, t)>>) \in [Node -> Seq(Message)]
    BY <1>1, MessageMade, OutMade
  <2> QED
    BY <1>1, <2>1, <2>2, <2>3, <2>4, NobodyMade, TurnKeepsTypes
       DEF TypeOK, HandlerTypeOK
<1> QED  BY <1>2, <1>3

LEMMA LeaderSwitchAckTypes ==
    ASSUME TypeOK, NEW n \in Node,
           LeaderSwitchAckCounted(n) \/ LeaderSwitchAckOther(n)
    PROVE  TypeOK'
<1>1. mailbox[n] /= <<>>
  BY Received DEF LeaderSwitchAckCounted, LeaderSwitchAckOther
<1>2. CASE LeaderSwitchAckCounted(n)
  BY <1>1, <1>2, CountAckTypes, NobodyMade
     DEF LeaderSwitchAckCounted, AckForMe, TypeOK, HandlerTypeOK
<1>3. CASE LeaderSwitchAckOther(n)
  BY <1>1, <1>3, IdleTurnTypes, NobodyMade
     DEF LeaderSwitchAckOther, TypeOK, HandlerTypeOK
<1> QED  BY <1>2, <1>3

LEMMA PriorityTypes ==
    ASSUME TypeOK, NEW n \in Node,
           PriorityForMe(n) \/ PriorityForOther(n) \/ PriorityIgnored(n)
    PROVE  TypeOK'
<1> DEFINE a == Req(n).addr
           t == Req(n).ts
<1>1. mailbox[n] /= <<>> /\ a \in Node /\ t \in Ts
  BY Received DEF PriorityForMe, PriorityForOther, PriorityIgnored, Timed
<1>2. CASE PriorityForMe(n)
  <2>1. leader' \in [Node -> RegisteredLeader] /\ state' \in [Node -> QuorumState]
    BY <1>1, <1>2, LeaderMade, SimpleStates
       DEF PriorityForMe, SetLeader, SetState, TypeOK, HandlerTypeOK
  <2>2. /\ txLeader' \in [Node -> Node \cup {None}]
        /\ UNCHANGED <<hosts, health, ackCount, timers, resets, owner>>
        /\ Turn(n, <<>>, ToNobody)
    BY <1>2 DEF PriorityForMe, SetTx, TypeOK, HandlerTypeOK
  <2> QED
    BY <1>1, <2>1, <2>2, NobodyMade, TurnKeepsTypes DEF TypeOK, HandlerTypeOK
<1>3. CASE PriorityForOther(n)
  <2>1. leader' \in [Node -> RegisteredLeader]
    BY <1>1, <1>3, LeaderMade DEF PriorityForOther, SetLeader, TypeOK, HandlerTypeOK
  <2>2. state' \in [Node -> QuorumState] /\ txLeader' \in [Node -> Node \cup {None}]
    BY <1>1, <1>3, NamedLeaderTypes
       DEF PriorityForOther, SetState, SetTx, TypeOK, HandlerTypeOK
  <2>3. /\ UNCHANGED <<hosts, health, ackCount, timers, resets, owner>>
        /\ Turn(n, <<>>, ToAll(<<LeaderReqAck(a, t)>>))
    BY <1>3 DEF PriorityForOther
  <2>4. ToAll(<<LeaderReqAck(a, t)>>) \in [Node -> Seq(Message)]
    BY <1>1, MessageMade, OutMade
  <2> QED
    BY <1>1, <2>1, <2>2, <2>3, <2>4, NobodyMade, TurnKeepsTypes
       DEF TypeOK, HandlerTypeOK
<1>4. CASE PriorityIgnored(n)
  BY <1>1, <1>4, IdleTurnTypes, NobodyMade DEF PriorityIgnored, TypeOK, HandlerTypeOK
<1> QED  BY <1>2, <1>3, <1>4

LEMMA TimeoutTypes ==
    ASSUME TypeOK, NEW n \in Node, Timeout(n)
    PROVE  TypeOK'
<1>1. mailbox[n] /= <<>>
  BY Received DEF Timeout, TimeoutNoLeader, TimeoutRetry, TimeoutLeaderDead,
     TimeoutRequested, TimeoutSwitchOver, TimeoutGivesUp, TimeoutOther
<1>2. CASE TimeoutNoLeader(n)
  <2>1. MailboxTypeOK'
    BY <1>1, <1>2, TakeTypes, NobodyMade DEF TimeoutNoLeader, TypeOK
  <2> QED
    BY <1>2, <2>1 DEF TimeoutNoLeader, handlerVars, sameStreams, TypeOK,
       StreamsTypeOK, HandlerTypeOK
<1>3. CASE TimeoutRetry(n)
  <2> DEFINE a == leader[n].addr
             ack == LeaderReqAck(a, leader[n].ts)
  <2>1. a \in Node /\ leader[n].ts \in Ts
    BY <1>3, LeaderFields, NoneLeaderMade
       DEF TimeoutRetry, TypeOK, HandlerTypeOK, NoLeader
  <2>2. ToAll(<<ack>>) \in [Node -> Seq(Message)]
    BY <2>1, MessageMade, OutMade
  <2>3. CASE a \in hosts[n]
    <3>1. /\ SetState(n, Follower) /\ SetTx(n, a) /\ Arm(n)
          /\ UNCHANGED <<hosts, health, leader, ackCount, resets, owner>>
          /\ Turn(n, <<>>, ToAll(<<ack>>))
      BY <1>3, <2>3 DEF TimeoutRetry
    <3>2. state' \in [Node -> QuorumState] /\ txLeader' \in [Node -> Node \cup {None}]
      BY <2>1, <3>1, SimpleStates DEF SetState, SetTx, TypeOK, HandlerTypeOK
    <3> QED
      BY <1>1, <2>2, <3>1, <3>2, ArmTypes, NobodyMade, TurnKeepsTypes
         DEF TypeOK, HandlerTypeOK
  <2>4. CASE a \notin hosts[n]
    <3>1. /\ SetState(n, Undefined)
          /\ UNCHANGED <<hosts, health, leader, txLeader, ackCount, timers,
                         resets, owner>>
          /\ Turn(n, <<>>, ToNobody)
      BY <1>3, <2>4 DEF TimeoutRetry
    <3>2. state' \in [Node -> QuorumState]
      BY <3>1, SimpleStates DEF SetState, TypeOK, HandlerTypeOK
    <3> QED
      BY <1>1, <3>1, <3>2, NobodyMade, TurnKeepsTypes DEF TypeOK, HandlerTypeOK
  <2> QED  BY <2>3, <2>4
<1>4. CASE TimeoutLeaderDead(n)
  BY <1>1, <1>4, TakeOverTypes DEF TimeoutLeaderDead, TypeOK, HandlerTypeOK
<1>5. CASE TimeoutRequested(n)
  <2>1. state[n].ts \in Ts
    BY <1>5, StateFields DEF TimeoutRequested, TypeOK, HandlerTypeOK
  <2>2. ToAll(<<LeaderReq(n, state[n].ts)>>) \in [Node -> Seq(Message)]
    BY <2>1, MessageMade, OutMade
  <2> QED
    BY <1>1, <1>5, <2>2, ArmTypes, NobodyMade, IdleTurnTypes
       DEF TimeoutRequested, TypeOK, HandlerTypeOK
<1>6. CASE TimeoutSwitchOver(n)
  <2>1. PICK t \in Ts :
            /\ Draw(t, n)
            /\ SetLeader(n, Local(t))
            /\ SetTx(n, None)
            /\ UNCHANGED <<hosts, health, state, ackCount>>
            /\ Turn(n, <<>>, ToAll(<<LeaderReq(n, t)>>))
    BY <1>6 DEF TimeoutSwitchOver
  <2>2. leader' \in [Node -> RegisteredLeader] /\ txLeader' \in [Node -> Node \cup {None}]
    BY <2>1, LeaderMade DEF SetLeader, SetTx, TypeOK, HandlerTypeOK
  <2>3. /\ timers' \in [Node -> Nat]
        /\ owner' \in [Ts -> Node \cup {None}]
        /\ UNCHANGED resets
    BY <1>6, <2>1, ArmTypes, DrawTypes DEF TimeoutSwitchOver, TypeOK, HandlerTypeOK
  <2>4. ToAll(<<LeaderReq(n, t)>>) \in [Node -> Seq(Message)]
    BY MessageMade, OutMade
  <2> QED
    BY <1>1, <2>1, <2>2, <2>3, <2>4, NobodyMade, TurnKeepsTypes
       DEF TypeOK, HandlerTypeOK
<1>7. CASE TimeoutGivesUp(n)
  <2>1. /\ SetLeader(n, NoLeader)
        /\ UNCHANGED <<hosts, health, state, txLeader, ackCount, timers, resets, owner>>
        /\ Turn(n, <<>>, ToNobody)
    BY <1>7 DEF TimeoutGivesUp
  <2>2. leader' \in [Node -> RegisteredLeader]
    BY <2>1, NoneLeaderMade DEF SetLeader, TypeOK, HandlerTypeOK
  <2> QED
    BY <1>1, <2>1, <2>2, NobodyMade, TurnKeepsTypes DEF TypeOK, HandlerTypeOK
<1>8. CASE TimeoutOther(n)
  BY <1>1, <1>8, NobodyMade, IdleTurnTypes DEF TimeoutOther, TypeOK, HandlerTypeOK
<1> QED  BY <1>2, <1>3, <1>4, <1>5, <1>6, <1>7, <1>8 DEF Timeout

LEMMA HandlerStepTypes ==
    ASSUME TypeOK, NEW n \in Node, HandlerStep(n)
    PROVE  TypeOK'
<1>1. CASE UpdateServer(n)
  BY <1>1, AliveTypes, DeadTypes DEF UpdateServer
<1>2. CASE Election(n)
  BY <1>2, LeaderInfoTypes, LeaderReqTypes, LeaderReqAckTypes, LeaderAckedTypes
     DEF Election
<1>3. CASE Switching(n)
  BY <1>3, LeaderSwitchTypes, LeaderSwitchAckTypes, PriorityTypes DEF Switching
<1>4. CASE Timeout(n)
  BY <1>4, TimeoutTypes
<1> QED  BY <1>1, <1>2, <1>3, <1>4 DEF HandlerStep

-----------------------------------------------------------------------------
(* The streams and the processes keep the types.                           *)

LEMMA EnqueueTypes ==
    ASSUME StreamsTypeOK, NEW n \in Node, NEW r \in Request(n), Enqueue(n, r)
    PROVE  MailboxTypeOK'
<1>1. Append(mailbox[n], r) \in Seq(Request(n))
  BY AppendProperties DEF StreamsTypeOK, MailboxTypeOK
<1> QED  BY <1>1, MailboxTypes DEF Enqueue

LEMMA ReportTypes ==
    ASSUME TypeOK, NEW m \in Node
    PROVE  Report(m) \in Seq(Message)
<1>1. leader[m] \in RegisteredLeader
  BY DEF TypeOK, HandlerTypeOK
<1>2. leader[m] /= NoLeader => LeaderAddr(m) \in Node /\ leader[m].ts \in Ts
  BY <1>1, LeaderFields DEF LeaderAddr
<1>3. leader[m] /= NoLeader =>
          LeaderInfo(LeaderAddr(m), leader[m].ts, health[m] /= "Bad") \in Message
  BY <1>2, MessageMade
<1> QED  BY <1>3, EmptySeq DEF Report

LEMMA BreakTypes ==
    ASSUME StreamsTypeOK, NEW n \in Node, NEW m \in Node, Break(n, m)
    PROVE  StreamsTypeOK'
<1>0. n /= m
  BY DEF Break, StreamsTypeOK
<1>1. MailboxTypeOK'
  BY <1>0, EnqueueTypes, RequestMade DEF Break
<1>2. link' \in [Node -> [Node -> LinkState]] /\ \A a \in Node : link'[a][a] = "down"
  BY <1>0 DEF Break, StreamsTypeOK, LinkState
<1>3. acks' \in [Node -> [Node -> Seq(Message)]]
  BY EmptySeq DEF Break, StreamsTypeOK
<1>4. faults' \in [{"break", "open", "stop", "timeout"} -> Nat]
  <2>1. \/ faults' = faults
        \/ faults' = [faults EXCEPT !["break"] = @ + 1]
    BY DEF Break
  <2> QED  BY <2>1 DEF StreamsTypeOK
<1>5. UNCHANGED <<phase, leaked, wire>>
  BY DEF Break
<1> QED  BY <1>1, <1>2, <1>3, <1>4, <1>5 DEF StreamsTypeOK

LEMMA TransportTypes ==
    ASSUME TypeOK, NEW n \in Node, NEW m \in Node, Transport(n, m)
    PROVE  TypeOK'
<1>1. HandlerTypeOK'
  BY DEF Transport, handlerVars, TypeOK, HandlerTypeOK
<1>2. wire[n][m] \in Seq(Message) /\ acks[n][m] \in Seq(Message)
  BY DEF TypeOK, StreamsTypeOK
<1>3. CASE Connect(n, m)
  <2>1. MailboxTypeOK'
    BY <1>3, EnqueueTypes, RequestMade DEF Connect, TypeOK
  <2>2. leaked' \in [Node -> [Node -> Nat]]
    <3>1. PICK still \in 0 .. leaked[n][m] :
              leaked' = [leaked EXCEPT ![n][m] = still]
      BY <1>3 DEF Connect
    <3> QED  BY <3>1 DEF TypeOK, StreamsTypeOK
  <2>3. link' \in [Node -> [Node -> LinkState]]
    BY <1>3 DEF Connect, TypeOK, StreamsTypeOK, LinkState
  <2>4. UNCHANGED <<phase, wire, acks, faults>>
    BY <1>3 DEF Connect
  <2>5. \A a \in Node : link'[a][a] = "down"
    BY <1>3 DEF Connect, TypeOK, StreamsTypeOK
  <2> QED  BY <1>1, <2>1, <2>2, <2>3, <2>4, <2>5 DEF TypeOK, StreamsTypeOK
<1>4. CASE OpenStream(n, m, Report(m))
  BY <1>1, <1>4, ReportTypes
     DEF OpenStream, TypeOK, StreamsTypeOK, MailboxTypeOK, LinkState
<1>5. CASE LeakedForwarderTakes(n, m)
  <2>1. Len(wire[n][m]) \in Nat \ {0}
    BY <1>2, <1>5, EmptySeq, LenProperties DEF LeakedForwarderTakes
  <2>2. SubSeq(wire[n][m], 1, Len(wire[n][m]) - 1) \in Seq(Message)
    BY <1>2, <2>1, SubSeqProperties
  <2>3. leaked' \in [Node -> [Node -> Nat]]
    <3>1. leaked \in [Node -> [Node -> Nat]]
      BY DEF TypeOK, StreamsTypeOK
    <3>2. leaked[n][m] - 1 \in Nat
      BY <1>5, <3>1 DEF LeakedForwarderTakes
    <3>3. leaked' = [leaked EXCEPT ![n][m] = leaked[n][m] - 1]
      BY <1>5 DEF LeakedForwarderTakes
    <3> QED  BY <3>1, <3>2, <3>3
  <2> QED
    BY <1>1, <1>5, <2>2, <2>3 DEF LeakedForwarderTakes, TypeOK, StreamsTypeOK,
       MailboxTypeOK
<1>6. CASE Break(n, m)
  BY <1>1, <1>6, BreakTypes DEF TypeOK
<1>7. CASE DeliverRequest(n, m)
  <2>1. Head(wire[n][m]) \in Message /\ Tail(wire[n][m]) \in Seq(Message)
    BY <1>2, <1>7, HeadTailProperties DEF DeliverRequest
  <2>2. MailboxTypeOK'
    BY <1>7, <2>1, EnqueueTypes, RequestMade DEF DeliverRequest, TypeOK
  <2> QED  BY <1>1, <1>7, <2>1, <2>2 DEF DeliverRequest, TypeOK, StreamsTypeOK
<1>8. CASE DeliverAck(n, m)
  <2>1. Head(acks[n][m]) \in Message /\ Tail(acks[n][m]) \in Seq(Message)
    BY <1>2, <1>8, HeadTailProperties DEF DeliverAck
  <2>2. MailboxTypeOK'
    BY <1>8, <2>1, EnqueueTypes, RequestMade DEF DeliverAck, TypeOK
  <2> QED  BY <1>1, <1>8, <2>1, <2>2 DEF DeliverAck, TypeOK, StreamsTypeOK
<1> QED  BY <1>3, <1>4, <1>5, <1>6, <1>7, <1>8 DEF Transport

LEMMA FailureTypes ==
    ASSUME TypeOK, NEW n \in Node, NEW m \in Node, Failure(n, m)
    PROVE  TypeOK'
<1>1. HandlerTypeOK'
  BY DEF Failure, handlerVars, TypeOK, HandlerTypeOK
<1>2. CASE OpenFails(n, m)
  <2>1. link' \in [Node -> [Node -> LinkState]] /\ \A a \in Node : link'[a][a] = "down"
    BY <1>2 DEF OpenFails, TypeOK, StreamsTypeOK, LinkState
  <2>2. wire' \in [Node -> [Node -> Seq(Message)]]
    BY <1>2, EmptySeq DEF OpenFails, TypeOK, StreamsTypeOK
  <2>3. leaked' \in [Node -> [Node -> Nat]]
    <3>1. leaked \in [Node -> [Node -> Nat]]
      BY DEF TypeOK, StreamsTypeOK
    <3>2. leaked' = [leaked EXCEPT ![n][m] = leaked[n][m] + 1]
      BY <1>2 DEF OpenFails
    <3> QED  BY <3>1, <3>2
  <2>4. faults' \in [{"break", "open", "stop", "timeout"} -> Nat]
    <3>1. /\ faults \in [{"break", "open", "stop", "timeout"} -> Nat]
          /\ faults' = [faults EXCEPT !["open"] = faults["open"] + 1]
      BY <1>2 DEF OpenFails, TypeOK, StreamsTypeOK
    <3> QED  BY <3>1
  <2> QED
    BY <1>1, <1>2, <2>1, <2>2, <2>3, <2>4
       DEF OpenFails, TypeOK, StreamsTypeOK, MailboxTypeOK
<1>3. CASE Break(n, m)
  BY <1>1, <1>3, BreakTypes DEF TypeOK
<1>4. CASE LoseRest(n, m)
  BY <1>1, <1>4, EmptySeq DEF LoseRest, TypeOK, StreamsTypeOK, MailboxTypeOK
<1> QED  BY <1>2, <1>3, <1>4 DEF Failure

(* A process that ends.                                                    *)
LEMMA ForgetTypes ==
    ASSUME TypeOK, NEW n \in Node, Forget(n)
    PROVE  /\ MailboxTypeOK'
           /\ hosts' \in [Node -> SUBSET Node]
           /\ health' \in [Node -> QuorumHealth]
           /\ state' \in [Node -> QuorumState]
           /\ leader' \in [Node -> RegisteredLeader]
           /\ txLeader' \in [Node -> Node \cup {None}]
           /\ ackCount' \in [Node -> Nat]
           /\ watch' \in [Node -> QuorumHealthState]
           /\ timers' \in [Node -> Nat]
           /\ resets' \in [Node -> BOOLEAN]
<1>1. DefaultHealthState \in QuorumHealthState
  BY SimpleStates DEF DefaultHealthState, QuorumHealthState, QuorumHealth
<1>2. MailboxTypeOK'
  BY EmptySeq, MailboxTypes DEF Forget, TypeOK
<1>3. state' \in [Node -> QuorumState] /\ leader' \in [Node -> RegisteredLeader]
  BY SimpleStates, NoneLeaderMade DEF Forget, TypeOK, HandlerTypeOK
<1>4. watch' \in [Node -> QuorumHealthState]
  BY <1>1 DEF Forget, TypeOK, HandlerTypeOK
<1> QED
  BY <1>2, <1>3, <1>4 DEF Forget, TypeOK, HandlerTypeOK, QuorumHealth

LEMMA DisconnectTypes ==
    ASSUME TypeOK, NEW n \in Node, Disconnect(n)
    PROVE  /\ phase' \in [Node -> {"off", "up", "panicked"}]
           /\ link' \in [Node -> [Node -> LinkState]]
           /\ \A a \in Node : link'[a][a] = "down"
           /\ leaked' \in [Node -> [Node -> Nat]]
           /\ acks' \in [Node -> [Node -> Seq(Message)]]
<1>1. phase' \in [Node -> {"off", "up", "panicked"}]
  BY DEF Disconnect, TypeOK, StreamsTypeOK
<1>2. link' \in [Node -> [Node -> LinkState]] /\ \A a \in Node : link'[a][a] = "down"
  BY DEF Disconnect, LinksWithout, TypeOK, StreamsTypeOK, LinkState
<1>3. leaked' \in [Node -> [Node -> Nat]]
  BY DEF Disconnect, LeakedWithout, TypeOK, StreamsTypeOK
<1>4. acks' \in [Node -> [Node -> Seq(Message)]]
  BY EmptySeq DEF Disconnect, AcksWithout, TypeOK, StreamsTypeOK
<1> QED  BY <1>1, <1>2, <1>3, <1>4

LEMMA WiresWithoutTypes ==
    ASSUME TypeOK, NEW n \in Node
    PROVE  WiresWithout(n) \in [Node -> [Node -> Seq(Message)]]
BY EmptySeq DEF WiresWithout, TypeOK, StreamsTypeOK

LEMMA ShutdownOutTypes ==
    ASSUME TypeOK, NEW n \in Node, NEW out \in [Node -> Seq(Message)],
           ShutdownOut(n, out)
    PROVE  wire' \in [Node -> [Node -> Seq(Message)]]
<1> DEFINE left == WiresWithout(n)
<1>1. left \in [Node -> [Node -> Seq(Message)]]
  BY WiresWithoutTypes
<1>2. \A m \in Node : left[n][m] \o out[m] \in Seq(Message)
  BY <1>1, ConcatProperties
<1>3. wire' = [left EXCEPT ![n] =
          [m \in Node |-> IF link[n][m] = "open" THEN @[m] \o out[m] ELSE @[m]]]
  BY DEF ShutdownOut
<1> HIDE DEF left
<1> QED  BY <1>1, <1>2, <1>3

LEMMA ProcessTypes ==
    ASSUME TypeOK, NEW n \in Node, ProcessStep(n)
    PROVE  TypeOK'
<1>1. CASE RequestShutdown(n)
  <2>1. MailboxTypeOK'
    BY <1>1, EnqueueTypes, RequestMade DEF RequestShutdown, TypeOK
  <2>2. faults' \in [{"break", "open", "stop", "timeout"} -> Nat]
    BY <1>1 DEF RequestShutdown, TypeOK, StreamsTypeOK
  <2> QED
    BY <1>1, <2>1, <2>2
       DEF RequestShutdown, handlerVars, TypeOK, StreamsTypeOK, HandlerTypeOK
<1>2. CASE HandOver(n)
  <2>1. PICK a \in hosts[n], t \in Ts :
            Draw(t, a) /\ ShutdownOut(n, ToAll(<<LeaderSwitch(a, t)>>))
    BY <1>2 DEF HandOver
  <2>2. a \in Node
    BY <2>1 DEF TypeOK, HandlerTypeOK
  <2>3. ToAll(<<LeaderSwitch(a, t)>>) \in [Node -> Seq(Message)]
    BY <2>2, MessageMade, OutMade
  <2>4. wire' \in [Node -> [Node -> Seq(Message)]]
    BY <2>1, <2>3, ShutdownOutTypes
  <2>5. owner' \in [Ts -> Node \cup {None}]
    BY <2>1, <2>2, DrawTypes DEF TypeOK, HandlerTypeOK
  <2>6. Disconnect(n) /\ Forget(n) /\ UNCHANGED faults
    BY <1>2 DEF HandOver
  <2> QED
    BY <2>4, <2>5, <2>6, DisconnectTypes, ForgetTypes
       DEF TypeOK, StreamsTypeOK, HandlerTypeOK
<1>3. CASE ShutDown(n)
  <2>1. wire' \in [Node -> [Node -> Seq(Message)]]
    BY <1>3, NobodyMade, ShutdownOutTypes DEF ShutDown
  <2>2. Disconnect(n) /\ Forget(n) /\ UNCHANGED <<faults, owner>>
    BY <1>3 DEF ShutDown
  <2> QED
    BY <2>1, <2>2, DisconnectTypes, ForgetTypes
       DEF TypeOK, StreamsTypeOK, HandlerTypeOK
<1>4. CASE Crash(n)
  <2>1. wire' \in [Node -> [Node -> Seq(Message)]]
    BY <1>4, WiresWithoutTypes DEF Crash
  <2>2. faults' \in [{"break", "open", "stop", "timeout"} -> Nat]
    BY <1>4 DEF Crash, TypeOK, StreamsTypeOK
  <2>3. Disconnect(n) /\ Forget(n) /\ UNCHANGED owner
    BY <1>4 DEF Crash
  <2> QED
    BY <2>1, <2>2, <2>3, DisconnectTypes, ForgetTypes
       DEF TypeOK, StreamsTypeOK, HandlerTypeOK
<1>5. CASE Restart(n)
  BY <1>5 DEF Restart, handlerVars, TypeOK, StreamsTypeOK, MailboxTypeOK,
     HandlerTypeOK
<1> QED  BY <1>1, <1>2, <1>3, <1>4, <1>5 DEF ProcessStep

LEMMA TaskTypes ==
    ASSUME TypeOK, NEW n \in Node,
           HandlerPanics(n) \/ TimerFires(n) \/ CacheReset(n)
    PROVE  TypeOK'
<1>1. CASE HandlerPanics(n)
  <2>1. mailbox[n] /= <<>>
    BY <1>1, Received DEF HandlerPanics, SwitchAckPanics, OtherPanics
  <2>2. MailboxTypeOK'
    BY <1>1, <2>1, TakeTypes, NobodyMade DEF HandlerPanics, TypeOK
  <2> QED
    BY <1>1, <2>2
       DEF HandlerPanics, handlerVars, TypeOK, StreamsTypeOK, HandlerTypeOK
<1>2. CASE TimerFires(n)
  <2>1. MailboxTypeOK'
    BY <1>2, EnqueueTypes, RequestMade DEF TimerFires, TypeOK
  <2>2. faults' \in [{"break", "open", "stop", "timeout"} -> Nat]
    BY <1>2 DEF TimerFires, TypeOK, StreamsTypeOK
  <2>3. timers' \in [Node -> Nat]
    BY <1>2 DEF TimerFires, TypeOK, HandlerTypeOK
  <2> QED
    BY <1>2, <2>1, <2>2, <2>3
       DEF TimerFires, handlerVars, TypeOK, StreamsTypeOK, HandlerTypeOK
<1>3. CASE CacheReset(n)
  BY <1>3 DEF CacheReset, handlerVars, streamVars, TypeOK, StreamsTypeOK,
     MailboxTypeOK, HandlerTypeOK
<1> QED  BY <1>1, <1>2, <1>3

-----------------------------------------------------------------------------
LEMMA InitTypes == Init => TypeOK
<1> SUFFICES ASSUME Init PROVE TypeOK
  OBVIOUS
<1>1. StreamsTypeOK
  BY EmptySeq DEF Init, StreamsInit, StreamsTypeOK, MailboxTypeOK, LinkState
<1>2. DefaultHealthState \in QuorumHealthState
  BY SimpleStates DEF DefaultHealthState, QuorumHealthState, QuorumHealth
<1>3. HandlerTypeOK
  BY <1>2, SimpleStates, NoneLeaderMade
     DEF Init, HandlerInit, HandlerTypeOK, QuorumHealth
<1> QED  BY <1>1, <1>3 DEF TypeOK

LEMMA StutterTypes == TypeOK /\ UNCHANGED vars => TypeOK'
BY DEF vars, streamVars, handlerVars, TypeOK, StreamsTypeOK, MailboxTypeOK,
   HandlerTypeOK

LEMMA TypeStep == TypeOK /\ [Next]_vars => TypeOK'
<1> SUFFICES ASSUME TypeOK, [Next]_vars PROVE TypeOK'
  OBVIOUS
<1>1. ASSUME NEW n \in Node, NEW m \in Node, Transport(n, m) \/ Failure(n, m)
      PROVE  TypeOK'
  BY <1>1, TransportTypes, FailureTypes
<1>2. ASSUME NEW n \in Node,
             \/ HandlerStep(n) \/ HandlerPanics(n)
             \/ TimerFires(n) \/ CacheReset(n) \/ ProcessStep(n)
      PROVE  TypeOK'
  BY <1>2, HandlerStepTypes, TaskTypes, ProcessTypes
<1>3. CASE UNCHANGED vars
  BY <1>3, StutterTypes
<1> QED  BY <1>1, <1>2, <1>3 DEF Next

(* Every variable keeps its type, in clusters of any size: what a handler  *)
(* sends, registers and publishes is always made of members and of         *)
(* timestamps, and a leader is never taken from a message without one.     *)
THEOREM TypeCorrect == Spec => []TypeOK
BY InitTypes, TypeStep, PTL DEF Spec

=============================================================================
