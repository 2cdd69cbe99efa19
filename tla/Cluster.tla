------------------------------- MODULE Cluster -------------------------------
(***************************************************************************)
(* A redhac cluster: every member runs a quorum handler (QuorumHandler),   *)
(* and a client and a server for every other member (Streams).             *)
(***************************************************************************)
EXTENDS QuorumHandler

Init == StreamsInit /\ HandlerInit

-----------------------------------------------------------------------------
(* Slip: a server without a leader names one all the same.                 *)
ReportAnyway(m) == <<LeaderInfo(None, 0, health[m] /= "Bad")>>

(* The server asks its own quorum handler for a report before it answers.  *)
(* A client does nothing with a LeaderInfo that names nobody.              *)
Report(m) ==
    IF leader[m] = NoLeader THEN <<>>
    ELSE <<LeaderInfo(LeaderAddr(m), leader[m].ts, health[m] /= "Bad")>>

(* The steps of a connection, its failures apart.                          *)
Transport(n, m) ==
    /\ \/ Connect(n, m)
       \/ OpenStream(n, m, Report(m))
       \/ LeakedForwarderTakes(n, m)
       \/ link[n][m] = "lost" /\ Break(n, m)
       \/ DeliverRequest(n, m)
       \/ DeliverAck(n, m)
    /\ UNCHANGED <<handlerVars, watch, timers, resets, owner>>

Failure(n, m) ==
    /\ \/ OpenFails(n, m)
       \/ link[n][m] = "open" /\ Break(n, m)
       \/ LoseRest(n, m)
    /\ UNCHANGED <<handlerVars, watch, timers, resets, owner>>

UpdateServer(n) ==
    \/ AliveAwaitedLeader(n) \/ AliveRetriedLeader(n)
    \/ AliveRequestLeadership(n) \/ AliveOther(n)
    \/ DeadLeader(n) \/ DeadLeaderAgain(n) \/ DeadOther(n) \/ DeadQuorumLost(n)

Election(n) ==
    \/ LeaderInfoIgnored(n) \/ LeaderInfoNoTx(n) \/ LeaderInfoFollow(n)
    \/ LeaderReqConflict(n) \/ LeaderReqAccepted(n) \/ LeaderReqTooEarly(n)
    \/ LeaderReqAckNews(n) \/ LeaderReqAckCounted(n) \/ LeaderReqAckOther(n)
    \/ LeaderAcked(n)

Switching(n) ==
    \/ LeaderSwitched(n) \/ LeaderSwitchedDead(n)
    \/ LeaderSwitchAckCounted(n) \/ LeaderSwitchAckOther(n)
    \/ PriorityForMe(n) \/ PriorityForOther(n) \/ PriorityIgnored(n)

Timeout(n) ==
    \/ TimeoutNoLeader(n) \/ TimeoutRetry(n) \/ TimeoutLeaderDead(n)
    \/ TimeoutRequested(n) \/ TimeoutSwitchOver(n) \/ TimeoutGivesUp(n)
    \/ TimeoutOther(n)

HandlerStep(n) ==
    UpdateServer(n) \/ Election(n) \/ Switching(n) \/ Timeout(n)

ProcessStep(n) ==
    RequestShutdown(n) \/ HandOver(n) \/ ShutDown(n) \/ Crash(n) \/ Restart(n)

Next ==
    \/ \E n, m \in Node : Transport(n, m) \/ Failure(n, m)
    \/ \E n \in Node :
           \/ HandlerStep(n) \/ HandlerPanics(n)
           \/ TimerFires(n) \/ CacheReset(n)
           \/ ProcessStep(n)

Spec == Init /\ [][Next]_vars

(* The tasks of a member keep running, a timer that was started ends, and  *)
(* run_client never gives up connecting to a member that can be reached.   *)
Fairness ==
    \A n \in Node :
        /\ WF_vars(HandlerStep(n))
        /\ WF_vars(TimerFires(n))
        /\ \A m \in Node : WF_vars(Transport(n, m))

FairSpec == Spec /\ Fairness

-----------------------------------------------------------------------------
TypeOK == StreamsTypeOK /\ HandlerTypeOK

(* A member's health says how many of its clients are connected, although  *)
(* the code changes the two in separate branches of each UpdateServer: a   *)
(* health that lags behind would keep a cache in use without a quorum, or  *)
(* keep the election from being started (quorum.rs, UpdateServer).         *)
HealthMatchesHosts ==
    \A n \in Node :
        /\ health[n] = "Bad" <=> Cardinality(hosts[n]) < QuorumSize
        /\ health[n] = "Good" <=> Cardinality(hosts[n]) = ClientsCount

(* The registered leader fits the state, as the unwrap()s and the          *)
(* unreachable!()s of the handler and of the cache operations take it to;  *)
(* the two are separate variables that twelve branches assign.             *)
LeaderMatchesState ==
    \A n \in Node :
        /\ state[n] = Leader => leader[n].is = "Local"
        /\ state[n] = Follower =>
               leader[n].is = "Remote" /\ txLeader[n] = leader[n].addr
        /\ state[n].is = "LeaderTxAwait" =>
               leader[n].is = "Remote" /\ leader[n].addr = state[n].addr
        /\ state[n].is = "LeadershipRequested" =>
               leader[n] = Local(state[n].ts)
        /\ state[n] \in {Retry, LeaderDead} => leader[n].is = "Remote"

(* No sequence of messages brings a handler to an unreachable!() or to an  *)
(* unwrap() of None, the one of LeaderSwitchAck apart.                     *)
OnlySwitchAckPanics == \A n \in Node : ~OtherPanics(n)

(* A member with a quorum has a leader registered, or has asked to lead:   *)
(* otherwise nothing would make it start an election, for that is done in  *)
(* one place only, when an Alive finds the quorum made and no leader.      *)
QuorumHasLeader ==
    \A n \in Node : leader[n] = NoLeader => health[n] = "Bad"

(* A member that waits for others to let it lead, for a switch-over to end *)
(* or for the client of a leader that asked too early will check on it: it *)
(* holds a sleeping timeout, or its handler has the check to make.  Every  *)
(* one of these states is entered with a timeout started, and every check  *)
(* that leaves a member waiting starts the next one (quorum.rs, LeaderReq, *)
(* UpdateServer, LeaderSwitch and CheckElectionTimeout).  LeaderDead is no *)
(* such state: its check is made once, and comes to nothing when there is  *)
(* no quorum at that moment (quorum.rs:1004).                              *)
Waits(n) ==
    /\ leader[n] /= NoLeader
    /\ state[n].is \in {"LeadershipRequested", "LeaderSwitch", "Retry"}

WaitsAreTimed ==
    \A n \in Node :
        phase[n] = "up" /\ Waits(n) =>
            \/ timers[n] > 0
            \/ \E i \in DOMAIN mailbox[n] :
                   mailbox[n][i] = CheckElectionTimeout

(* What the handler counts as connected is what the clients are, as soon   *)
(* as it has read what they reported: no Alive or Dead is lost, sent twice *)
(* or overtaken by another, however often a stream breaks.  The one host   *)
(* that is counted without a connection is that of a client whose stream   *)
(* failed to open, which starts over without a Dead (client.rs:690).       *)
ReportsOf(n, m) ==
    {i \in DOMAIN mailbox[n] : mailbox[n][i] \in {Alive(m), Dead(m)}}

HostsFollowClients ==
    \A n, m \in Node :
        phase[n] = "up" /\ n /= m /\ ReportsOf(n, m) = {} =>
            /\ link[n][m] /= "down" => m \in hosts[n]
            /\ m \in hosts[n] => link[n][m] /= "down" \/ leaked[n][m] > 0

(* The timestamp by which members compare two leaderships was drawn by, or *)
(* for, the member it is registered with: no message pairs the address of  *)
(* one member with the timestamp of another.                               *)
TimestampNamesLeader ==
    \A n \in Node :
        /\ leader[n].is = "Local" => owner[leader[n].ts] = n
        /\ leader[n].is = "Remote" => owner[leader[n].ts] = leader[n].addr

(* A follower is connected to the leader it sends its writes to, where one *)
(* host makes a quorum (clusters of two and three members).                *)
FollowerHasClient ==
    \A n \in Node : state[n] = Follower => leader[n].addr \in hosts[n]

(* What a cache operation reads from the watch channel, whenever it reads  *)
(* it, is one state the handler was in: a health that promises a quorum    *)
(* comes with that many hosts, and a follower with its leader's client.    *)
PublishedUsable ==
    \A n \in Node :
        /\ watch[n].health /= "Bad" => watch[n].connectedHosts >= QuorumSize
        /\ watch[n].state = Follower => watch[n].txLeader /= None

(* The refinement mapping: a process runs although its handler may have    *)
(* panicked, a client is in the same state, and a cache operation reads of *)
(* the watch channel what it asks for.                                     *)
Runs   == [n \in Node |-> phase[n] /= "off"]
Client == [n \in Node |-> [m \in Node |->
              IF link[n][m] = "open" THEN "up" ELSE link[n][m]]]

Shown(w) == [quorum |-> w.health /= "Bad", role |-> w.state.is,
             to |-> w.txLeader, hosts |-> w.connectedHosts]
Shows    == [n \in Node |-> Shown(watch[n])]

M == INSTANCE Membership WITH
         up <- Runs, conn <- Client, view <- Shows, resets <- resets

(* What the cache operations may rely on, told by Membership: a quorum     *)
(* comes with its hosts and a follower with its leader's client, nobody    *)
(* acts for a process that is gone, and a quorum is lost, as far as they   *)
(* can see, in the very step that has the caches emptied.                  *)
ImplementsMembership == M!MembershipSpec

-----------------------------------------------------------------------------
Up == {n \in Node : phase[n] = "up"}

(* No message is under way or waiting, every client that can be connected  *)
(* is, and no timeout is pending that its member would act on.             *)
Idle(n) ==
    /\ mailbox[n] = <<>>
    /\ \/ timers[n] = 0
       \/ leader[n] = NoLeader
       \/ state[n].is \in {"Leader", "Follower", "LeaderTxAwait", "Undefined"}
    /\ \A m \in Node \ {n} :
           /\ wire[m][n] = <<>>
           /\ acks[n][m] = <<>>
           /\ link[n][m] = IF m \in Up /\ <<n, m>> \in Route
                           THEN "open" ELSE "down"

Quiet ==
    /\ \A n \in Live : phase[n] /= "panicked"
    /\ Cardinality(Up) > QuorumSize
    /\ \A n \in Up : Idle(n)

(* One member leads, and all others that have a quorum have it registered, *)
(* with its timestamp; those with a client of it follow it.                *)
Elected ==
    \E l \in Up :
        /\ state[l] = Leader
        /\ \A n \in Up \ {l} :
               health[n] /= "Bad" =>
                   /\ leader[n] = Remote(l, leader[l].ts)
                   /\ l \in hosts[n] => state[n] = Follower

(* An election that has come to rest has elected one leader, known to      *)
(* every member: requests, acks and switches that cross on different       *)
(* streams leave neither two leaders nor none (README.md:181).             *)
QuietHasLeader == Quiet => Elected

(* Of all the leaderships that were asked for, the one with the earliest   *)
(* timestamp has won once the cluster is at rest (proto/cache.proto:138).  *)
PriorityWins ==
    Quiet =>
        \A n \in Up, t \in Ts :
            owner[t] /= None => leader[n] /= NoLeader /\ leader[n].ts <= t

(* With streams that do not break, a leader is elected and stays           *)
(* (README.md:181, "Once a quorum has been reached, a leader will be       *)
(* elected").                                                              *)
EventuallyElected == <>[]Elected

-----------------------------------------------------------------------------
(* What the code or its documents say, and the code does not always do.    *)

(* proto/cache.proto:142: a LeaderAck "Is sent out if quorum was           *)
(* established and 'enough' hosts have accepted the leader request".       *)
Accepts(m, n) ==
    leader[m].is = "Remote" /\ leader[m].addr = n /\ state[m] /= Retry

LeadsWithQuorum ==
    [][\A n \in Node :
        state[n] /= Leader /\ state'[n] = Leader =>
            Cardinality({m \in Node : Accepts(m, n)}) >= QuorumSize]_vars

=============================================================================
