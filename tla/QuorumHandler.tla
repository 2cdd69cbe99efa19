---------------------------- MODULE QuorumHandler ----------------------------
(***************************************************************************)
(* quorum.rs: the quorum handler of every member, one action per QuorumReq *)
(* (and per branch of it, where the branches do different things).  Each   *)
(* action takes the request at the head of its member's mailbox, changes   *)
(* the handler's local variables, sends, and publishes the new state on    *)
(* the watch channel tx_watch, as one turn of the handler's loop does.     *)
(***************************************************************************)
EXTENDS Streams

CONSTANT MaxTimers    \* bound: election timeouts pending at one member

ASSUME TimerBound == MaxTimers \in Nat \ {0}

VARIABLES
    hosts,     \* [Node -> SUBSET Node], clients reported alive; each has a tx
    health,    \* [Node -> {"Good", "Degraded", "Bad"}]
    state,     \* [Node -> QuorumState]
    leader,    \* [Node -> NoLeader, Local(ts) or Remote(addr, ts)]
    txLeader,  \* [Node -> Node or None], health_state.tx_leader: whose client
    ackCount,  \* [Node -> Nat]
    watch,     \* [Node -> ...], the last QuorumHealthState published
    timers,    \* [Node -> 0..MaxTimers], sleeping election_timeout_handlers
    resets,    \* [Node -> BOOLEAN], a CacheReq::Reset waits in the cache queues
    owner      \* [Ts -> Node or None], for whom a timestamp was drawn (history)

handlerVars == <<hosts, health, state, leader, txLeader, ackCount>>
vars == <<streamVars, handlerVars, watch, timers, resets, owner>>

-----------------------------------------------------------------------------
ClientsCount == Cardinality(Node) - 1

(* Remote hosts a member must be connected to (quorum in quorum_handler).  *)
QuorumSize == (ClientsCount + 1) \div 2

NoLeader     == [is |-> "None"]
Local(t)     == [is |-> "Local", ts |-> t]
Remote(a, t) == [is |-> "Remote", addr |-> a, ts |-> t]

Leader     == [is |-> "Leader"]
LeaderDead == [is |-> "LeaderDead"]
SwitchOver == [is |-> "LeaderSwitch"]
Follower   == [is |-> "Follower"]
Undefined  == [is |-> "Undefined"]
Retry      == [is |-> "Retry"]
LeaderTxAwait(a)       == [is |-> "LeaderTxAwait", addr |-> a]
LeadershipRequested(t) == [is |-> "LeadershipRequested", ts |-> t]

QuorumState ==
    {Leader, LeaderDead, SwitchOver, Follower, Undefined, Retry}
        \cup [is : {"LeaderTxAwait"}, addr : Node]
        \cup [is : {"LeadershipRequested"}, ts : Ts]

RegisteredLeader ==
    {NoLeader} \cup [is : {"Local"}, ts : Ts]
        \cup [is : {"Remote"}, addr : Node, ts : Ts]

QuorumHealth == {"Good", "Degraded", "Bad"}

QuorumHealthState ==
    [health : QuorumHealth, state : QuorumState,
     txLeader : Node \cup {None}, connectedHosts : Nat]

HandlerTypeOK ==
    /\ hosts \in [Node -> SUBSET Node]
    /\ health \in [Node -> QuorumHealth]
    /\ state \in [Node -> QuorumState]
    /\ leader \in [Node -> RegisteredLeader]
    /\ txLeader \in [Node -> Node \cup {None}]
    /\ ackCount \in [Node -> Nat]
    /\ watch \in [Node -> QuorumHealthState]
    /\ timers \in [Node -> Nat]
    /\ resets \in [Node -> BOOLEAN]
    /\ owner \in [Ts -> Node \cup {None}]

(* In HA mode the watch channel is given a default when it is made.        *)
DefaultHealthState ==
    [health |-> "Bad", state |-> Undefined, txLeader |-> None,
     connectedHosts |-> 0]

HandlerInit ==
    /\ hosts = [n \in Node |-> {}]
    /\ health = [n \in Node |-> "Bad"]
    /\ state = [n \in Node |-> Undefined]
    /\ leader = [n \in Node |-> NoLeader]
    /\ txLeader = [n \in Node |-> None]
    /\ ackCount = [n \in Node |-> 0]
    /\ watch = [n \in Node |-> DefaultHealthState]
    /\ timers = [n \in Node |-> 0]
    /\ resets = [n \in Node |-> FALSE]
    /\ owner = [t \in Ts |-> None]

-----------------------------------------------------------------------------
(* The handler takes a request of the given kind from its mailbox.         *)
Receives(n, kind) ==
    /\ phase[n] = "up"
    /\ mailbox[n] /= <<>>
    /\ Head(mailbox[n]).is = kind

Req(n) == Head(mailbox[n])

(* The end of a turn: tx_watch.send.                                       *)
Publish(n) ==
    watch' = [watch EXCEPT ![n] =
        [health |-> health'[n], state |-> state'[n], txLeader |-> txLeader'[n],
         connectedHosts |-> Cardinality(hosts'[n])]]

SetHosts(n, h)   == hosts' = [hosts EXCEPT ![n] = h]
SetHealth(n, h)  == health' = [health EXCEPT ![n] = h]
SetState(n, s)   == state' = [state EXCEPT ![n] = s]
SetLeader(n, l)  == leader' = [leader EXCEPT ![n] = l]
SetTx(n, a)      == txLeader' = [txLeader EXCEPT ![n] = a]
SetAckCount(n, c) == ackCount' = [ackCount EXCEPT ![n] = c]

(* election_timeout_handler: a task that sleeps, then asks for a check.    *)
Arm(n) ==
    timers' = [timers EXCEPT ![n] = IF @ < MaxTimers THEN @ + 1 ELSE @]

(* A new election timestamp for a: the wall clock in nanoseconds, which no *)
(* other member has read at the same time.  Clocks are not synchronised.   *)
Draw(t, a) == owner[t] = None /\ owner' = [owner EXCEPT ![t] = a]

(* get_leader_tx: the client of a, when it is connected.                   *)
TxOf(n, a) == IF a \in hosts[n] THEN a ELSE None

(* Slip: a leader is followed before its client has connected.             *)
FollowAnyway(n, a) == Follower

(* What becomes of a member that learns of a new leader a.                 *)
FollowOrAwait(n, a) == IF a \in hosts[n] THEN Follower ELSE LeaderTxAwait(a)

(* Slip: whoever reports a leader is taken for it.                         *)
ReporterAddr(n) == n

LeaderAddr(n) == IF leader[n].is = "Local" THEN n ELSE leader[n].addr

(* check_leadership_conflict against the leader t stands for: what the     *)
(* handler sends to itself, and what it broadcasts.                        *)
Conflict(n) == leader[n] /= NoLeader

(* Slip: the younger request is preferred.                                 *)
PreferYounger(n, a, t) ==
    IF Conflict(n) /\ t > leader[n].ts
    THEN <<LeaderSwitchPriority(a, t)>> ELSE <<>>

ConflictOwn(n, a, t) ==
    IF Conflict(n) /\ t < leader[n].ts
    THEN <<LeaderSwitchPriority(a, t)>> ELSE <<>>

ConflictOut(n, a, t) ==
    IF ~Conflict(n) THEN ToNobody
    ELSE IF t < leader[n].ts THEN ToAll(<<LeaderSwitchPriority(a, t)>>)
    ELSE ToAll(<<LeaderSwitchPriority(LeaderAddr(n), leader[n].ts)>>)

(* Every turn but those of LeaderReq and HostShutdown leaves the streams    *)
(* themselves and the answers on them alone.                               *)
sameStreams == <<phase, link, leaked, acks, faults>>

Turn(n, own, out) ==
    /\ Take(n, own)
    /\ Send(n, out)
    /\ Publish(n)
    /\ UNCHANGED sameStreams

-----------------------------------------------------------------------------
(* QuorumReq::UpdateServer, Alive: a client has connected.                 *)

(* Slip: the first host already counts as a degraded quorum.               *)
HealthWithAny(n, count) ==
    IF count = ClientsCount THEN "Good" ELSE "Degraded"

HealthWith(n, count) ==
    IF count < QuorumSize THEN health[n]
    ELSE IF count = ClientsCount THEN "Good" ELSE "Degraded"

HostJoins(n) ==
    LET joined == hosts[n] \cup {Req(n).addr}
    IN  /\ SetHosts(n, joined)
        /\ SetHealth(n, HealthWith(n, Cardinality(joined)))

(* Slip: the client of the awaited leader is not recognised.               *)
AwaitsNobody(n, m) == FALSE

AwaitsTxOf(n, m) == state[n] = LeaderTxAwait(m)

RetriesFor(n, m) ==
    state[n] = Retry /\ leader[n].is = "Remote" /\ leader[n].addr = m

(* The client of the leader this member was waiting for.                   *)
AliveAwaitedLeader(n) ==
    /\ Receives(n, "Alive")
    /\ LET m == Req(n).addr IN
       /\ AwaitsTxOf(n, m)
       /\ leader[n] /= NoLeader
       /\ SetLeader(n, Remote(m, leader[n].ts))
       /\ SetState(n, Follower)
       /\ SetTx(n, m)
       /\ HostJoins(n)
       /\ Turn(n, <<>>, ToOne(m, <<LeaderReqAck(m, leader[n].ts)>>))
    /\ UNCHANGED <<ackCount, timers, resets, owner>>

(* The client of a member whose LeaderReq came too early.                  *)
AliveRetriedLeader(n) ==
    /\ Receives(n, "Alive")
    /\ LET m == Req(n).addr IN
       /\ RetriesFor(n, m)
       /\ SetState(n, Follower)
       /\ SetTx(n, m)
       /\ HostJoins(n)
       /\ Turn(n, <<>>, ToAll(<<LeaderReqAck(m, leader[n].ts)>>))
    /\ UNCHANGED <<leader, ackCount, timers, resets, owner>>

(* The host that makes a quorum while no leader is known: ask to lead.     *)
MakesMoreThanQuorum(n) ==    \* slip: one host more than the quorum
    /\ Cardinality(hosts[n] \cup {Req(n).addr}) > QuorumSize
    /\ health[n] /= "Good"
    /\ leader[n] = NoLeader

MakesQuorum(n) ==
    /\ Cardinality(hosts[n] \cup {Req(n).addr}) >= QuorumSize
    /\ health[n] /= "Good"
    /\ leader[n] = NoLeader

AliveRequestLeadership(n) ==
    /\ Receives(n, "Alive")
    /\ ~AwaitsTxOf(n, Req(n).addr)
    /\ MakesQuorum(n)
    /\ HostJoins(n)
    /\ SetTx(n, None)
    /\ SetAckCount(n, 0)
    /\ \E t \in Ts :
           /\ Draw(t, n)
           /\ SetLeader(n, Local(t))
           /\ SetState(n, LeadershipRequested(t))
           /\ Turn(n, <<>>, ToAll(<<LeaderReq(n, t)>>))
    /\ Arm(n)
    /\ UNCHANGED resets

AliveOther(n) ==
    /\ Receives(n, "Alive")
    /\ ~AwaitsTxOf(n, Req(n).addr)
    /\ ~(state[n] = Retry /\ leader[n].is = "Local")
    /\ ~RetriesFor(n, Req(n).addr)
    /\ ~MakesQuorum(n)
    /\ HostJoins(n)
    /\ UNCHANGED <<state, leader, txLeader, ackCount, timers, resets, owner>>
    /\ Turn(n, <<>>, ToNobody)

-----------------------------------------------------------------------------
(* QuorumReq::UpdateServer, Dead: a client has lost its connection.        *)

(* Slip: the host that died stays in the list.                             *)
StaysListed(n) == hosts[n]

Left(n) == hosts[n] \ {Req(n).addr}

(* Slip: the host that died is still counted.                              *)
KeptQuorum(n) == Cardinality(hosts[n]) >= QuorumSize

KeepsQuorum(n) == Cardinality(Left(n)) >= QuorumSize

(* Slip: the death of the leader is taken for that of any host.            *)
DeathIsNews(n) == FALSE

LeaderDied(n) ==
    leader[n].is = "Remote" /\ leader[n].addr = Req(n).addr /\ KeepsQuorum(n)

(* What a member does to become leader after a death.  *)
TakeOverFromDead(n) ==
    \E t \in Ts :
        /\ Draw(t, n)
        /\ SetLeader(n, Local(t))
        /\ SetState(n, LeadershipRequested(t))
        /\ SetTx(n, None)
        /\ Arm(n)
        /\ Turn(n, <<>>, ToAll(<<LeaderSwitchDead(n, t)>>))

DeadLeader(n) ==
    /\ Receives(n, "Dead")
    /\ LeaderDied(n)
    /\ state[n] /= LeaderDead
    /\ SetHosts(n, Left(n))
    /\ SetHealth(n, "Degraded")
    /\ SetAckCount(n, 0)
    /\ TakeOverFromDead(n)
    /\ UNCHANGED resets

(* The switch to another leader was acked already: the turn ends early,    *)
(* without a publication.                                                  *)
DeadLeaderAgain(n) ==
    /\ Receives(n, "Dead")
    /\ LeaderDied(n)
    /\ state[n] = LeaderDead
    /\ SetHosts(n, Left(n))
    /\ SetHealth(n, "Degraded")
    /\ SetAckCount(n, 0)
    /\ Take(n, <<>>)
    /\ UNCHANGED <<state, leader, txLeader, watch, timers, resets, owner,
                   wire, sameStreams>>

DeadOther(n) ==
    /\ Receives(n, "Dead")
    /\ ~LeaderDied(n)
    /\ KeepsQuorum(n) \/ health[n] = "Bad"
    /\ SetHosts(n, Left(n))
    /\ SetHealth(n, IF KeepsQuorum(n) THEN "Degraded" ELSE "Bad")
    /\ UNCHANGED <<state, leader, txLeader, ackCount, timers, resets, owner>>
    /\ Turn(n, <<>>, ToNobody)

(* Slip: the leader is forgotten, the state that goes with it is not.      *)
DeadKeepsState(n) ==
    /\ Receives(n, "Dead")
    /\ ~KeepsQuorum(n)
    /\ health[n] /= "Bad"
    /\ SetHosts(n, Left(n))
    /\ SetHealth(n, "Bad")
    /\ SetLeader(n, NoLeader)
    /\ SetTx(n, None)
    /\ SetAckCount(n, 0)
    /\ resets' = [resets EXCEPT ![n] = TRUE]
    /\ UNCHANGED <<state, timers, owner>>
    /\ Turn(n, <<>>, ToNobody)

(* Slip: the caches are left as they are.                                  *)
KeepCaches(n) == UNCHANGED resets

(* A CacheReq::Reset is sent to every cache.                               *)
EmptyCaches(n) == resets' = [resets EXCEPT ![n] = TRUE]

(* The quorum is lost: forget the leader and have every cache emptied.     *)
DeadQuorumLost(n) ==
    /\ Receives(n, "Dead")
    /\ ~KeepsQuorum(n)
    /\ health[n] /= "Bad"
    /\ SetHosts(n, Left(n))
    /\ SetHealth(n, "Bad")
    /\ SetState(n, Undefined)
    /\ SetLeader(n, NoLeader)
    /\ SetTx(n, None)
    /\ SetAckCount(n, 0)
    /\ EmptyCaches(n)
    /\ Turn(n, <<>>, ToNobody)
    /\ UNCHANGED <<timers, owner>>

(* cache_recv takes the CacheReq::Reset and clears its cache.              *)
CacheReset(n) ==
    /\ resets[n]
    /\ resets' = [resets EXCEPT ![n] = FALSE]
    /\ UNCHANGED <<streamVars, handlerVars, watch, timers, owner>>

-----------------------------------------------------------------------------
(* QuorumReq::LeaderInfo: the leader a server named when the stream to it  *)
(* was opened.                                                             *)

BelievesInfo(n) ==
    \/ leader[n] = NoLeader
    \/ /\ Req(n).quorum
       /\ state[n] \in {Undefined, Retry}
       /\ Req(n).addr /= n

LeaderInfoIgnored(n) ==
    /\ Receives(n, "LeaderInfo")
    /\ ~BelievesInfo(n)
    /\ UNCHANGED <<handlerVars, timers, resets, owner>>
    /\ Turn(n, ConflictOwn(n, Req(n).addr, Req(n).ts),
               ConflictOut(n, Req(n).addr, Req(n).ts))

LeaderInfoNoTx(n) ==
    /\ Receives(n, "LeaderInfo")
    /\ BelievesInfo(n)
    /\ LET a == Req(n).addr  t == Req(n).ts IN
       /\ a \notin hosts[n]
       /\ SetLeader(n, Remote(a, t))
       /\ SetState(n, LeaderTxAwait(a))
       /\ UNCHANGED <<hosts, health, txLeader, ackCount>>
       /\ Turn(n, ConflictOwn(n, a, t), ConflictOut(n, a, t))
    /\ UNCHANGED <<timers, resets, owner>>

LeaderInfoFollow(n) ==
    /\ Receives(n, "LeaderInfo")
    /\ BelievesInfo(n)
    /\ LET a == Req(n).addr  t == Req(n).ts IN
       /\ a \in hosts[n]
       /\ SetLeader(n, Remote(a, t))
       /\ SetState(n, Follower)
       /\ SetTx(n, a)
       /\ UNCHANGED <<hosts, health, ackCount>>
       /\ Turn(n, ConflictOwn(n, a, t),
                  Then(ConflictOut(n, a, t),
                       ToOne(a, <<LeaderReqAck(a, t)>>)))
    /\ UNCHANGED <<timers, resets, owner>>

-----------------------------------------------------------------------------
(* QuorumReq::LeaderReq: another member asks to lead.  A member that has a *)
(* leader registered answers with a priority switch instead of accepting.  *)

LeaderReqConflict(n) ==
    /\ Receives(n, "LeaderReq")
    /\ Conflict(n)
    /\ UNCHANGED <<handlerVars, timers, resets, owner>>
    /\ Turn(n, ConflictOwn(n, Req(n).addr, Req(n).ts),
               ConflictOut(n, Req(n).addr, Req(n).ts))

(* Accepted: the stream task sends the LeaderReqAck back on its stream.    *)
LeaderReqAccepted(n) ==
    /\ Receives(n, "LeaderReq")
    /\ ~Conflict(n)
    /\ LET a == Req(n).addr  t == Req(n).ts IN
       /\ a \in hosts[n]
       /\ SetLeader(n, Remote(a, t))
       /\ SetTx(n, a)
       /\ acks' = [acks EXCEPT ![a][n] =
              IF link[a][n] = "open" THEN Append(@, LeaderReqAck(a, t)) ELSE @]
    /\ UNCHANGED <<hosts, health, state, ackCount>>
    /\ Arm(n)
    /\ Take(n, <<>>)
    /\ Publish(n)
    /\ UNCHANGED <<phase, link, leaked, wire, faults, resets, owner>>

LeaderReqTooEarly(n) ==
    /\ Receives(n, "LeaderReq")
    /\ ~Conflict(n)
    /\ Req(n).addr \notin hosts[n]
    /\ SetLeader(n, Remote(Req(n).addr, Req(n).ts))
    /\ SetState(n, Retry)
    /\ SetTx(n, None)
    /\ UNCHANGED <<hosts, health, ackCount>>
    /\ Arm(n)
    /\ Turn(n, <<>>, ToNobody)
    /\ UNCHANGED <<resets, owner>>

-----------------------------------------------------------------------------
(* QuorumReq::LeaderReqAck: some member accepts a leader.                  *)

LeaderReqAckNews(n) ==
    /\ Receives(n, "LeaderReqAck")
    /\ leader[n] = NoLeader
    /\ LET a == Req(n).addr  t == Req(n).ts IN
       /\ SetLeader(n, Remote(a, t))
       /\ SetState(n, LeaderTxAwait(a))
       /\ SetTx(n, TxOf(n, a))
       /\ UNCHANGED <<hosts, health, ackCount>>
       /\ Arm(n)
       /\ Turn(n, <<>>, ToAll(<<LeaderReqAck(a, t)>>))
    /\ UNCHANGED <<resets, owner>>

(* An ack for a leadership of this member is counted, whichever of its     *)
(* requests it answers.                                                    *)
AckForMe(n) == leader[n].is = "Local" /\ Req(n).addr = n

(* Slip: one ack more than the quorum is asked for.                        *)
MoreThanEnough(count) == count > QuorumSize

Enough(count) == count >= QuorumSize

(* Counts one more ack; with enough of them this member is leader, and     *)
(* tells everybody after it has sent the requests in out.                  *)
CountAck(n, tx, own, out) ==
    LET count == ackCount[n] + 1 IN
    /\ SetAckCount(n, count)
    /\ UNCHANGED <<hosts, health, leader, timers, resets, owner>>
    /\ IF Enough(count)
       THEN /\ SetState(n, Leader)
            /\ SetTx(n, tx)
            /\ Turn(n, own,
                    Then(out, ToAll(<<LeaderAck(n, leader[n].ts)>>)))
       ELSE /\ UNCHANGED <<state, txLeader>>
            /\ Turn(n, own, out)

LeaderReqAckCounted(n) ==
    /\ Receives(n, "LeaderReqAck")
    /\ AckForMe(n)
    /\ CountAck(n, None, ConflictOwn(n, n, Req(n).ts),
                         ConflictOut(n, n, Req(n).ts))

LeaderReqAckOther(n) ==
    /\ Receives(n, "LeaderReqAck")
    /\ leader[n] /= NoLeader
    /\ ~AckForMe(n)
    /\ UNCHANGED <<handlerVars, timers, resets, owner>>
    /\ Turn(n, ConflictOwn(n, Req(n).addr, Req(n).ts),
               ConflictOut(n, Req(n).addr, Req(n).ts))

(* QuorumReq::LeaderAck: a member says it is leader now.                   *)
LeaderAcked(n) ==
    /\ Receives(n, "LeaderAck")
    /\ LET a == Req(n).addr IN
       /\ SetLeader(n, Remote(a, Req(n).ts))
       /\ SetState(n, FollowOrAwait(n, a))
       /\ SetTx(n, TxOf(n, a))
    /\ SetAckCount(n, 0)
    /\ UNCHANGED <<hosts, health>>
    /\ Turn(n, <<>>, ToNobody)
    /\ UNCHANGED <<timers, resets, owner>>

-----------------------------------------------------------------------------
(* QuorumReq::LeaderSwitch: the leader shuts down and names its successor. *)

LeaderSwitched(n) ==
    /\ Receives(n, "LeaderSwitch")
    /\ LET a == Req(n).addr  t == Req(n).ts IN
       /\ IF a = n
          THEN SetLeader(n, Local(t)) /\ SetTx(n, None) /\ SetAckCount(n, 0)
          ELSE SetLeader(n, Remote(a, t)) /\ SetTx(n, TxOf(n, a))
               /\ UNCHANGED ackCount
       /\ SetState(n, SwitchOver)
       /\ UNCHANGED <<hosts, health>>
       /\ Arm(n)
       /\ Turn(n, <<>>, ToAll(<<LeaderSwitchAck(a)>>))
    /\ UNCHANGED <<resets, owner>>

(* QuorumReq::LeaderSwitchDead: a member takes over from a dead leader.    *)
LeaderSwitchedDead(n) ==
    /\ Receives(n, "LeaderSwitchDead")
    /\ LET a == Req(n).addr  t == Req(n).ts IN
       /\ SetLeader(n, Remote(a, t))
       /\ SetState(n, LeaderDead)
       /\ SetTx(n, TxOf(n, a))
       /\ UNCHANGED <<hosts, health, ackCount>>
       /\ Arm(n)
       /\ Turn(n, <<>>, ToAll(<<LeaderReqAck(a, t)>>))
    /\ UNCHANGED <<resets, owner>>

(* QuorumReq::LeaderSwitchAck; without a leader the code is unreachable!() *)
LeaderSwitchAckCounted(n) ==
    /\ Receives(n, "LeaderSwitchAck")
    /\ AckForMe(n)
    /\ CountAck(n, txLeader[n], <<>>, ToNobody)

LeaderSwitchAckOther(n) ==
    /\ Receives(n, "LeaderSwitchAck")
    /\ leader[n] /= NoLeader
    /\ ~AckForMe(n)
    /\ UNCHANGED <<handlerVars, timers, resets, owner>>
    /\ Turn(n, <<>>, ToNobody)

-----------------------------------------------------------------------------
(* QuorumReq::LeaderSwitchPriority: a leadership conflict was found.       *)

Switches(n) ==
    LET a == Req(n).addr  t == Req(n).ts IN
    \/ state[n] = Leader /\ leader[n].is = "Local" /\ t < leader[n].ts
    \/ state[n] \in {LeaderDead, SwitchOver, Undefined, Retry}
    \/ /\ state[n].is = "LeaderTxAwait" /\ state[n].addr /= a
       /\ leader[n].is = "Remote" /\ t < leader[n].ts
    \/ state[n].is = "LeadershipRequested" /\ t < state[n].ts
    \/ state[n] = Follower /\ leader[n].is = "Remote" /\ t < leader[n].ts

(* The branches of do_switch that are unreachable!() in the code.          *)
PriorityPanics(n) ==
    \/ state[n] = Leader /\ leader[n].is /= "Local"
    \/ state[n] = Follower /\ leader[n].is /= "Remote"
    \/ /\ state[n].is = "LeaderTxAwait" /\ state[n].addr /= Req(n).addr
       /\ leader[n].is /= "Remote"

(* Switching to itself makes a member leader without an ack.               *)
PriorityForMe(n) ==
    /\ Receives(n, "LeaderSwitchPriority")
    /\ Switches(n)
    /\ Req(n).addr = n
    /\ SetLeader(n, Local(Req(n).ts))
    /\ SetState(n, Leader)
    /\ SetTx(n, None)
    /\ UNCHANGED <<hosts, health, ackCount>>
    /\ Turn(n, <<>>, ToNobody)
    /\ UNCHANGED <<timers, resets, owner>>

PriorityForOther(n) ==
    /\ Receives(n, "LeaderSwitchPriority")
    /\ Switches(n)
    /\ LET a == Req(n).addr  t == Req(n).ts IN
       /\ a /= n
       /\ SetLeader(n, Remote(a, t))
       /\ SetState(n, FollowOrAwait(n, a))
       /\ SetTx(n, TxOf(n, a))
       /\ UNCHANGED <<hosts, health, ackCount>>
       /\ Turn(n, <<>>, ToAll(<<LeaderReqAck(a, t)>>))
    /\ UNCHANGED <<timers, resets, owner>>

PriorityIgnored(n) ==
    /\ Receives(n, "LeaderSwitchPriority")
    /\ ~Switches(n)
    /\ ~PriorityPanics(n)
    /\ UNCHANGED <<handlerVars, timers, resets, owner>>
    /\ Turn(n, <<>>, ToNobody)

-----------------------------------------------------------------------------
(* The sleep of an election_timeout_handler is over.                       *)
TimerFires(n) ==
    /\ phase[n] = "up"
    /\ timers[n] > 0
    /\ timers' = [timers EXCEPT ![n] = @ - 1]
    /\ faults["timeout"] < MaxTimeouts
    /\ faults' = [faults EXCEPT !["timeout"] = @ + 1]
    /\ Enqueue(n, CheckElectionTimeout)
    /\ UNCHANGED <<phase, link, leaked, wire, acks, handlerVars, watch, resets,
                   owner>>

(* QuorumReq::CheckElectionTimeout.  Without a leader the turn ends early. *)
TimeoutNoLeader(n) ==
    /\ Receives(n, "CheckElectionTimeout")
    /\ leader[n] = NoLeader
    /\ Take(n, <<>>)
    /\ UNCHANGED <<handlerVars, watch, timers, resets, owner, wire, sameStreams>>

(* A LeaderReq came before this member was connected to its sender.        *)
TimeoutRetry(n) ==
    /\ Receives(n, "CheckElectionTimeout")
    /\ state[n] = Retry
    /\ leader[n].is = "Remote"
    /\ LET a == leader[n].addr IN
       IF a \in hosts[n]
       THEN /\ SetState(n, Follower)
            /\ SetTx(n, a)
            /\ Arm(n)
            /\ UNCHANGED <<hosts, health, leader, ackCount>>
            /\ Turn(n, <<>>, ToAll(<<LeaderReqAck(a, leader[n].ts)>>))
       ELSE /\ SetState(n, Undefined)
            /\ UNCHANGED <<hosts, health, leader, txLeader, ackCount, timers>>
            /\ Turn(n, <<>>, ToNobody)
    /\ UNCHANGED <<resets, owner>>

(* The member that was to take over from the dead leader has not done so.  *)
MayTakeOver(n) ==
    leader[n].is = "Remote" /\ Cardinality(hosts[n]) >= QuorumSize

TimeoutLeaderDead(n) ==
    /\ Receives(n, "CheckElectionTimeout")
    /\ state[n] = LeaderDead
    /\ MayTakeOver(n)
    /\ UNCHANGED <<hosts, health, ackCount>>
    /\ TakeOverFromDead(n)
    /\ UNCHANGED resets

(* Slip: the member asks again, and does not check on it again.            *)
AsksOnce(n) ==
    /\ Receives(n, "CheckElectionTimeout")
    /\ leader[n] /= NoLeader
    /\ state[n].is = "LeadershipRequested"
    /\ health[n] /= "Bad"
    /\ UNCHANGED handlerVars
    /\ Turn(n, <<>>, ToAll(<<LeaderReq(n, state[n].ts)>>))
    /\ UNCHANGED <<timers, resets, owner>>

(* A leadership request or a switch-over without enough acks: with a       *)
(* quorum ask again, without one give the leadership up.                   *)
TimeoutRequested(n) ==
    /\ Receives(n, "CheckElectionTimeout")
    /\ leader[n] /= NoLeader
    /\ state[n].is = "LeadershipRequested"
    /\ health[n] /= "Bad"
    /\ UNCHANGED handlerVars
    /\ Arm(n)
    /\ Turn(n, <<>>, ToAll(<<LeaderReq(n, state[n].ts)>>))
    /\ UNCHANGED <<resets, owner>>

(* The handler's state itself stays LeaderSwitch.                          *)
TimeoutSwitchOver(n) ==
    /\ Receives(n, "CheckElectionTimeout")
    /\ leader[n] /= NoLeader
    /\ state[n] = SwitchOver
    /\ health[n] /= "Bad"
    /\ \E t \in Ts :
           /\ Draw(t, n)
           /\ SetLeader(n, Local(t))
           /\ SetTx(n, None)
           /\ UNCHANGED <<hosts, health, state, ackCount>>
           /\ Turn(n, <<>>, ToAll(<<LeaderReq(n, t)>>))
    /\ Arm(n)
    /\ UNCHANGED resets

TimeoutGivesUp(n) ==
    /\ Receives(n, "CheckElectionTimeout")
    /\ leader[n] /= NoLeader
    /\ state[n].is \in {"LeadershipRequested", "LeaderSwitch"}
    /\ health[n] = "Bad"
    /\ SetLeader(n, NoLeader)
    /\ UNCHANGED <<hosts, health, state, txLeader, ackCount>>
    /\ Turn(n, <<>>, ToNobody)
    /\ UNCHANGED <<timers, resets, owner>>

TimeoutOther(n) ==
    /\ Receives(n, "CheckElectionTimeout")
    /\ leader[n] /= NoLeader
    /\ \/ state[n].is \in {"Leader", "LeaderTxAwait", "Follower", "Undefined"}
       \/ state[n] = LeaderDead /\ ~MayTakeOver(n)
    /\ UNCHANGED handlerVars
    /\ Turn(n, <<>>, ToNobody)
    /\ UNCHANGED <<timers, resets, owner>>

-----------------------------------------------------------------------------
(* unreachable!() and unwrap() on None in the handler: each would end its  *)
(* task by a panic, and leave the rest of the member running without it.   *)
SwitchAckPanics(n) ==
    Receives(n, "LeaderSwitchAck") /\ leader[n] = NoLeader

OtherPanics(n) ==
    \/ Receives(n, "Alive") /\ leader[n] = NoLeader /\ AwaitsTxOf(n, Req(n).addr)
    \/ Receives(n, "Alive") /\ leader[n].is = "Local" /\ state[n] = Retry
    \/ Receives(n, "LeaderSwitchPriority") /\ PriorityPanics(n)
    \/ Receives(n, "CheckElectionTimeout") /\ leader[n].is = "Local"
       /\ state[n] = Retry

HandlerPanics(n) ==
    /\ SwitchAckPanics(n) \/ OtherPanics(n)
    /\ phase' = [phase EXCEPT ![n] = "panicked"]
    /\ Take(n, <<>>)
    /\ UNCHANGED <<link, leaked, wire, acks, faults, handlerVars,
                   watch, timers, resets, owner>>

-----------------------------------------------------------------------------
(* The end of a member's process: everything it held in memory is gone.    *)
Forget(n) ==
    /\ mailbox' = [mailbox EXCEPT ![n] = <<>>]
    /\ hosts' = [hosts EXCEPT ![n] = {}]
    /\ health' = [health EXCEPT ![n] = "Bad"]
    /\ state' = [state EXCEPT ![n] = Undefined]
    /\ leader' = [leader EXCEPT ![n] = NoLeader]
    /\ txLeader' = [txLeader EXCEPT ![n] = None]
    /\ ackCount' = [ackCount EXCEPT ![n] = 0]
    /\ watch' = [watch EXCEPT ![n] = DefaultHealthState]
    /\ timers' = [timers EXCEPT ![n] = 0]
    /\ resets' = [resets EXCEPT ![n] = FALSE]

Disconnect(n) ==
    /\ phase' = [phase EXCEPT ![n] = "off"]
    /\ link' = LinksWithout(n)
    /\ leaked' = LeakedWithout(n)
    /\ acks' = AcksWithout(n)

(* CacheConfig::shutdown and the exit handler ask the handler to finish.   *)
RequestShutdown(n) ==
    /\ phase[n] = "up"
    /\ faults["stop"] < MaxStops
    /\ faults' = [faults EXCEPT !["stop"] = @ + 1]
    /\ Enqueue(n, HostShutdown)
    /\ UNCHANGED <<phase, link, leaked, wire, acks, handlerVars, watch, timers,
                   resets, owner>>

(* QuorumReq::HostShutdown: a leader names one of its hosts to succeed it. *)
(* The clients send what is queued before they end.                        *)
ShutdownOut(n, out) ==
    wire' = [WiresWithout(n) EXCEPT ![n] =
        [m \in Node |-> IF link[n][m] = "open" THEN @[m] \o out[m] ELSE @[m]]]

HandOver(n) ==
    /\ Receives(n, "HostShutdown")
    /\ state[n] = Leader
    /\ \E a \in hosts[n], t \in Ts :
           /\ Draw(t, a)
           /\ ShutdownOut(n, ToAll(<<LeaderSwitch(a, t)>>))
    /\ Disconnect(n)
    /\ Forget(n)
    /\ UNCHANGED faults

ShutDown(n) ==
    /\ Receives(n, "HostShutdown")
    /\ state[n] /= Leader \/ hosts[n] = {}
    /\ ShutdownOut(n, ToNobody)
    /\ Disconnect(n)
    /\ Forget(n)
    /\ UNCHANGED <<faults, owner>>

(* The process dies without a word.                                        *)
Crash(n) ==
    /\ phase[n] /= "off"
    /\ faults["stop"] < MaxStops
    /\ faults' = [faults EXCEPT !["stop"] = @ + 1]
    /\ wire' = WiresWithout(n)
    /\ Disconnect(n)
    /\ Forget(n)
    /\ UNCHANGED owner

(* start_cluster: the member starts again, with nothing remembered.        *)
Restart(n) ==
    /\ n \in Live
    /\ phase[n] = "off"
    /\ phase' = [phase EXCEPT ![n] = "up"]
    /\ UNCHANGED <<link, leaked, wire, acks, mailbox, faults, handlerVars,
                   watch, timers, resets, owner>>

==============================================================================
