# redhac in TLA+

redhac is an embedded, distributed key-value cache: every instance of an
application holds the caches in memory, and the instances (*members*) keep them
in step over gRPC streams.  A member uses its caches only while it has a
*quorum*, and writes that must be ordered go through an elected *leader*.  This
directory holds TLA+ models of that program, TLC configurations that check
them on small clusters, and theorems that TLAPS has checked for every cluster.

The models are written from the Rust sources (`src/quorum.rs`, `src/client.rs`,
`src/server.rs`, `src/lib.rs`).  `PROJECT.json` maps each definition to the
lines it stands for.

## Inventory

| Component | State | Operations | Modelled in |
|---|---|---|---|
| quorum handler (`quorum.rs`) | connected `hosts`, `health`, `state`, registered `leader`, `ack_count`, `health_state.tx_leader`; one task, one channel of `QuorumReq` | one branch of its loop per `QuorumReq`; publishes on a watch channel after nearly every turn; starts election timers | `QuorumHandler` |
| clients (`client.rs`) | one per other member: connection, stream, a queue of requests, a forwarder and a callback task | connect, report, open the stream, forward, read answers, report the loss, start over; a broadcaster copies every request to all of them | `Streams` (management), `Requests` (cache requests, lookups, callbacks) |
| server (`server.rs`) | one stream task per connected client | first sends a `LeaderInfo`; hands every request to the quorum handler or to a cache; waits for the answer to a `LeaderReq`, and for the acks of a write it runs as leader, before it reads on | `Streams`, `Cluster`; `Requests`, `CacheOps` |
| start and stop (`lib.rs`) | the tasks of the process | `start_cluster`, `CacheConfig::shutdown`, the exit handler; a crash; a new start | `QuorumHandler`, `Cluster` |
| cache task (`cache_recv`) | the entries | get, put, del, reset | `Requests`, `CacheOps` (one entry) |
| cache operations (`lib.rs`) | none of their own: they read the watch channel | `cache_get`, `cache_put`, `cache_insert`, `cache_remove`, `cache_del` and the leader's side of the acknowledged ones | `CacheOps`, `AckedWrite` |
| wire format, TLS, configuration | none that matters to the protocol | | not modelled |

How they interact: a client reports its host to the quorum handler
(`UpdateServer`), hands it the answers it reads, and takes requests from a
queue that the handler broadcasts to.  A server task hands what it reads to its
own quorum handler.  The handler sends to itself (`LeaderSwitchPriority`, and
`CheckElectionTimeout` through a timer).  The cache operations see the handler
only through the watch channel.

What is hard here.  In the election: the handlers of all members run at once
and talk over up to two streams per pair (each member's own client), so messages
that belong to one election overtake each other; a host's connection is
*reported* before its stream exists, and a stream that fails to open is never
reported lost, nor are the tasks ended that were started for it; a member that goes away is noticed by every other one at another
time; timers are never cancelled and fire into a later election; two variables
(`leader` and `state`) are assigned in a dozen branches and matched together
with `unreachable!()` in others.  In the caches: every call and every stream
task runs its own write; a caller waits on a channel whose senders are spread
over the queues and callback tasks of all clients, those included that a client
has left behind; answers are lost with their stream, come after their callback has expired, or go to another lookup of the
same entry; members decide by a view that is outdated while they act on it.
`PROJECT.json` lists these under `hazards`, each at its line, with the
properties aimed at it.

What makes each component correct:

- quorum handler: the hosts it counts are the clients that are connected
  (`HostsFollowClients`), the health says what they say (`HealthMatchesHosts`), the
  leader fits the state (`LeaderMatchesState`), no `unreachable!()` is reached
  (`OnlySwitchAckPanics`), a quorum implies a leader or a request to lead
  (`QuorumHasLeader`), whoever waits for others has a timeout to come
  (`WaitsAreTimed`), an address is never paired with another one's timestamp
  (`TimestampNamesLeader`);
- what it publishes: usable by an operation that reads it at any moment
  (`PublishedUsable`);
- the cluster: one leader at rest, known to all (`QuietHasLeader`), the earliest
  one that asked (`PriorityWins`), reached eventually when streams hold
  (`EventuallyElected`); followers are connected to it (`FollowerHasClient`);
- what the caches may rely on: the cluster implements `Membership`
  (`ImplementsMembership`), of which the point is that a quorum is never lost
  without the caches being emptied;
- acknowledged writes: a leader vouches for a write, and a caller is told of
  success, only when as many members as the ack level asks for have it
  (`ImplementsAckedWrite`), and an acknowledged insert outlives as many processes
  as have acknowledged it (`AckedInsertsSurvive`);
- the order of writes: followers agree (`FollowersAgree`);
- lookups: a miss has been heard from every host (`MissHeardFromAll`), and what is
  there to be found is found (`LookupsFind`);
- every operation: it returns, unless a sender that nobody will use is kept
  (`OnlyStrandedWait`).

## Modules

`Streams` holds the constants, the messages and the transport.  `link[n][m]` is
n's client for m: `down`, `connected` (reported, stream not open), `open`, or
`lost` (the other process is gone and this client has not noticed).
`wire[n][m]` holds requests n sent and m's handler has not been given,
`acks[n][m]` what m has answered on the same stream.  `mailbox[n]` is the
channel of n's handler.

`QuorumHandler` extends it with the handler: one action per `QuorumReq` and
branch, each taking the head of the mailbox, assigning what the branch assigns,
sending what it sends and publishing.  Names follow the code; `SwitchOver` is
`QuorumState::LeaderSwitch` and `HostJoins` the insertion into `hosts` with
which every `Alive` turn ends.  `owner` is a history variable: for whom a
timestamp was drawn.

`Cluster` composes both into `Next`, adds the report a server makes of its own
handler when a stream is opened, states fairness and holds the properties.

`Membership` is the abstract specification between the two halves: which
processes run, which clients have a connection (`connected`) and which a stream on
it (`up`, or `lost` when the other process is gone), what each watch channel shows,
and which reset waits in the caches.  A watch channel begins with `DefaultView`,
`QuorumHealthState::default()`: a bad health and no leader (`lib.rs:508-513`).  So
before the handler's first publication every operation fails but `cache_del`, which
does not look at the health.  `Cluster` implements it by the mapping `M`; a
cache operation of the code sees nothing else of the election.  It is relaxed
where the caches must not rely on more: any usable state may be published at any
time, and it may begin in any usable state.

`Requests` extends `Membership` with the data plane below the operations, for one
entry of one cache: `queue[n][m]` is what waits for n's client to m (`rx_remote_req`),
`stream[n][m]` what is on its way to m's stream task, `serves[n][m]` the write
that task is busy with, `answers[n][m]` what comes back, `saved[n][m]` the
callback task's `get_cache` and `ack_cache`.  Connecting and opening are two steps
(`Connect`, `OpenStream`): the forwarder and the callback task run in between, and
take requests that nobody reads yet.  `drained[n][m]` are the senders of the
requests that `Connect` throws away, which stay in the `drain` of `client.rs:263`
until that connection is over.  When the opening fails, `run_client` starts over
without ending the two tasks (`client.rs:684-690`): `behind[n][m]` has the senders
that each such pair keeps.  A pair ends when its forwarder takes a request from the
queue it shares with its successor (`LeftBehindTakes`).  A *token* is a channel: `waiting`
are the receivers in use, `got` what has been sent to them, and `HasSender` says
whether a sender is left anywhere, for that is what a `recv_async` depends on.

`CacheOps` extends it with the operations of `lib.rs`: `call[c]` is a call of an
application with the await it has reached, `run[c]` the `insert_from_leader` or
`remove_from_leader` that carries it out, at the leader's own call or in the
stream task of `server.rs`.  Each action lies between two awaits at which others
get in.  `stored` and `heard` are history variables.  Failures are actions:
`Break`, `OpeningFails`, `LateAnswer`, `Stop` (with `Start`), `PublishView`.

`AckedWrite` is the abstract specification of an acknowledged write: `AskFor`,
`CarryOut`, `Vouch` (of a write that was asked for, by a leader that holds it
with as many others as it asked), `GiveUp`, and what the caller is told.
`CacheOps` implements it by the mapping `W`.

`MCData` (two or three members, of whom n1 leads, and two calls) instantiates `CacheOps`
for TLC.  `MCCluster` (two or three members), `MCSteady` (three members, starting where an
election has come to rest) and `MCFive` (a quorum of two remote hosts) are for
TLC.

The theorems are in modules of their own.  `ClusterProofs` (types), `ClusterSafety`
(the safety invariants), `ClusterTimestamps` and `ClusterMembership` (the
refinement) extend `Cluster` one after the other, the last two side by side.
`CacheTypes`, `CacheLives` (how a call, its run and its requests go on),
`CacheWrites` (the refinement) and `CacheSteady` (what holds while failures of some
kinds do not happen, or not too often) extend `CacheOps` in that order.

Definitions whose comment begins with *Slip* are deliberate mistakes of the
kind that could be made in the code.  They are not used by the specification;
put in place of the definition after them, they show that the property named
in `PROJECT.json` would notice.

### Abstractions, and why they are safe

- A timestamp is a number from `Ts`, drawn at most once: the code uses
  nanoseconds, and two members do not read the same one.  Clocks are not
  synchronised, so any unused timestamp may be drawn, also an earlier one.
- A broadcast reaches the queues of all clients in one step.  A client without
  a connection drops what it is sent: `run_client` drains its queue when it
  connects, before anything else.
- `run_client` waits for seconds before it connects again.  The old stream's
  requests have arrived or are lost by then (`Connect`'s guard).
- The sleeps inside a turn, and the two seconds between `HostShutdown` and the
  end of the tasks, are not separate steps: nothing else changes the handler's
  variables meanwhile.
- `GetReport` is answered as a snapshot in `OpenStream`.
- Election timers are counted and not told apart, as the request they send
  carries nothing.
- `health_state.state` and `health_state.health` are written and not read by
  the handler; the watch value is built from the local variables, and from
  `health_state.tx_leader`, which is `txLeader`.
- `Print`, `Ping`, `Health` and the logging are left out.  A `Ping` may make
  forwarders that were left behind end early; `Connect` of `Streams` allows for
  that, and `LeftBehindTakesOther` in `Requests`.
- A handler that panics (`HandlerPanics`) leaves its process running without
  it, as a panic in a tokio task does.

Of the data plane:

- One entry of one cache; a value is the call that wrote it.  Requests for
  different entries differ in nothing but which of them they disturb.
- A cache task takes its requests in order, so what is sent to it counts from
  then on: `Applied` is the whole of `cache_recv` for one request, and the reset
  empties the entry in the step that publishes the loss of the quorum.
- A broadcast reaches all queues in one step; the broadcaster forwards one
  request after the other, and the clients' queues are not looked at otherwise.
- Transport buffers do not fill up.
- A callback is kept ten seconds (`TimedCache`): that an answer is late is a
  choice, bounded like the failures.
- A client takes the place of its predecessor after seconds (`Connect`).  The
  old stream's task may have read more by then or not (`LoseRest`); a write it is
  still busy with goes on, and its answer has nowhere to go.
- `cache_remove` panics where `cache_insert` returns an error, before a leader is
  known (`lib.rs:1204`); both end the call with an error in `CacheOps`.
- What the leader's own application is told of a write is left out of
  `ImplementsAckedWrite` and `AckedInsertsSurvive`: `cache_insert` and
  `cache_remove` discard the verdict of `insert_from_leader` and report success
  (`lib.rs:891`).  Its own insert may be lost with it although it "succeeded".
- `AckLevel::Quorum` needs as many acks as `Once` in clusters of two and three.

### Bounds

Of the election, all are constants, named in `Streams` and `QuorumHandler`: `MaxMailbox` and
`MaxWire` (lengths of queues; a step that would exceed them waits),
`MaxTimers` (pending timers counted per member; saturates), `MaxTimeouts`,
`MaxBreaks`, `MaxOpenFails` and `MaxStops` (how often each fault happens), and
the size of `Ts`, which bounds the leaderships that are asked for.  A system
that has used them up stops, and in the code a cluster at rest waits for
traffic, so deadlock is not checked.

In the safety runs a handler with a request takes it before anything else
happens (`HandleFirst`).  With room for one request, nothing can be put in
before it is taken, and what the other members do before the turn commutes with
it, so only orders that differ in nothing are left out.  A pending cache reset,
which no other action reads, is taken at once.  `pair_start`, which checks
liveness, has no such constraint and two places in each mailbox.

Of the data plane: two calls, each of which may be any that its `Offer` lists,
and `MaxFaults` failures of the kinds in `Faults`, anywhere between two steps.
Two calls are the fewest that can cross, overtake or replace each other.  One
failure lets one of the two other members answer and the other not.  Two
failures are needed before a write misses its last ack, or for the leader to stop
after another failure; `acked` allows any two, and offers one write only.  Its views are a quorum that is lost and a leadership that
was given up with the quorum left, so that a `Remove` also finds a member that does
not lead (`lib.rs:1257`).  That nothing changes with more failures, or more calls,
is what the theorems `AckedWriteImplemented` and `AckedInsertsLast` say.  In
`writes` the two calls have different offers, so that a pair is not tried in both
orders of its names.  `calls_return`, whose property is liveness, has two members:
both directions of one pair of clients, with a stream task at each end, a write at
the leader and one that is brought to it, and two failures of any kinds.  The exception in `LookupsFind` takes a third call (an earlier lookup whose
denials are under way, a write, and the lookup itself); the theorems `MissesHeard`
and `PresentIsFound` hold of any number of calls.  Who begins at rest and elected:
`Membership` lets a run begin in any usable state, and the elected one is where the
operations do something.

## Runs

| Run | Setting | Checks | Shows |
|---|---|---|---|
| `pair_start` | two of three members start, no faults, two timestamps, two timeouts, `FairSpec` | `EventuallyElected` | every interleaving of connections, competing requests, acks and timeouts ends with one leader for good |
| `star_start` | three members, two of which reach each other through the third only; two requests | `QuietHasLeader`, `PriorityWins` | the crossing of two requests and the conflict resolution between them |
| `steady_stop` | three connected members with a leader; one stops (with hand-over or without) and may return | `QuietHasLeader`, `LeaderMatchesState` | the takeover from a dead leader and the hand-over of one that leaves |
| `steady_cut` | three members with a leader and five of six streams; one breaks for good, one member stops for good, one timeout, three timestamps | `PublishedUsable`, `FollowerHasClient`, `TimestampNamesLeader`, `OnlySwitchAckPanics`, `WaitsAreTimed`, `ImplementsMembership` | the quorum and the leader lost, in any order, during a takeover or hand-over, and a timeout that meets any of it; the one `unreachable!()` that is reached (`quorum.rs:766`, a `LeaderSwitchAck` that meets a handler without a leader) is reached here |
| `five_start` | three of five members, one of which can get a quorum; one broken stream, one that fails to open | `TypeOK`, `HealthMatchesHosts`, `QuorumHasLeader`, `LeaderMatchesState`, `HostsFollowClients` | a quorum of two, gained, lost and gained again, with hosts left behind by failed openings |
| `writes` | two calls at once: inserts at leader and follower, remove, put, lookup; one stream may break | `TypeOK`, `FollowersAgree`, `MissHeardFromAll`, `LookupsFind` | the runs at the leader in every interleaving; lookups that take each other's answers, and lookups that race the writes |
| `acked` | one insert or remove of a follower; up to two of: broken stream, stream that does not open, late answer, stop and start of the leader, lost quorum, lost leadership | `ImplementsAckedWrite`, `AckedInsertsSurvive` | no success without the acks, no ack without the write, whatever fails; the leader may stop and the insert is still there |
| `calls_return` | two members; lookups and inserts of both, which share clients and stream tasks; up to two of: broken stream, stream that does not open, late answer, stop and start of the leader, lost quorum; `FairSpec` | `OnlyStrandedWait` | a caller waits for ever only where a client keeps a sender it will not use: otherwise an answer comes, or the last sender is dropped |

A quorum of two members in a cluster of three (the third never comes up) is the
smallest in which one ack decides; three of five is the smallest in which one
ack does not.  One fault of a kind per run suffices to put it between any two
steps of an election; the runs that need two kinds allow both.  Two timestamps
are the fewest with a conflict, three leave one for a timeout.

Four further runs check a statement of the repository that the code does not
keep; TLC's counterexample is the shortest history.

| Run | Statement | What happens |
|---|---|---|
| `v_break` | README.md:181: "Once a quorum has been reached, a leader will be elected" | A stream breaks while n's request is being acknowledged, so n loses its quorum and forgets its leadership.  The ack comes late: n takes it for another member's leadership (`quorum.rs:596`), registers *itself* as a remote leader and waits for its own client for ever.  Later quorums do not start an election because a leader is registered. |
| `v_leads` | `proto/cache.proto:142`: a `LeaderAck` is sent when "'enough' hosts have accepted" | One host's `LeaderReqAck` comes on its stream and again on its own client; both are counted (`quorum.rs:631`). |
| `v_conflict` | lib.rs:848, of `cache_insert`: "This makes Put's safe and conflict free" | The leader runs two inserts at once.  Each is sent to the clients first and stored in the leader's own cache in a later await (`lib.rs:1022-1034`); the sends go one way round and the stores the other.  All followers end with one value, the leader with the other.  (`FollowersAgree` is the half that holds.) |
| `v_stale` | README.md:40: a member that loses its connection invalidates its cache "to make 100% sure, that it would never provide possibly outdated data" | n1 leads, and n3 has an entry.  The stream of n1's client to n3 breaks and takes the next insert with it.  n3's own client, and its quorum, are untouched, so nothing is reset: after the reconnect n3 answers with the older value. |

What the runs reach besides, and no property forbids: a follower without a quorum
yet (in a cluster of five) keeps a leader that has died, and follows it without a
client when its quorum comes (`quorum.rs:371`); a host whose stream fails to open
stays in the handler's table (`client.rs:684`; `HostsFollowClients` names it as the
only exception); a member in `LeaderDead` is checked on once, and when it has no
quorum at that moment the check comes to nothing (`quorum.rs:1004`), for which
reason `WaitsAreTimed` does not speak of `LeaderDead`, nor of `LeaderTxAwait`, which
nothing but the `Alive` of its leader ends; a member publishes
`Undefined` or `Retry` with a good quorum between a `LeaderReq` and its
`LeaderAck`, where `cache_remove` says `unreachable!()` (`lib.rs:1204`); a lookup
that takes another member's denial to an earlier lookup for its own
(`client.rs:300`) misses an entry which that member has had since before it began,
and `LookupsFind` makes this its only exception.

That every caller gets an answer or an error in the end is *not* so, and no document
of the repository says it.  `OnlyStrandedWait` names what has to be kept for a
caller to wait for ever (`Stranded`):

- the sender of a request that was in the queue when the client connected again:
  the request is thrown away, and `drain` keeps its senders as long as the new
  connection holds (`client.rs:263`).  One broken stream at the right moment is
  enough;
- a sender that a forwarder took between the report and an opening that failed
  (`client.rs:690`).  It stays with the callback task left behind until its
  forwarder takes another request, which on a quiet cluster is never.

With late answers alone, and every member up, no caller is stranded.  A third way takes two members that
are both taken for the leader, for a leadership has just moved: each one's stream
task runs an insert of the other and waits for an ack (`lib.rs:1037`,
`server.rs:325`) that only the other's stream task could read the request for.
The views that `calls_return` offers have one leader, and `OnlyStrandedWait` is
stated for one; the case is listed under `hazards`.

### Fairness

`FairSpec` of `Cluster` assumes weak fairness of every handler's turns (the loop of
`quorum_handler`), of every timer (`tokio::time::sleep` ends), and of every
connection's steps that are not failures: `run_client` retries for ever, and its
forwarder and the stream tasks of `stream_values` in `server.rs` are loops that
await the next message.  Nothing is assumed of failures, stops or
restarts.  `EventuallyElected` is checked with no faults: with a break it does not
hold, as `v_break` shows.

`FairSpec` of `CacheOps` assumes weak fairness of every call and every run, of the
steps of every client and of every stream task, for the same reasons; of the
caches' resets; and of `Start`.  Nothing is assumed of `OpeningFails` (an opening
that the other side does not answer because it is gone does fail, which is
`OpeningUnanswered`), nor of `LeftBehindTakesOther`: a request of the election may
free what a forwarder has left behind, or none may come.  The last is an assumption on whoever runs the
processes, and it is needed: a client whose host never comes up keeps every request
in its queue (`client.rs:263` drains it on connecting only), the caller's sender
with it, and a caller that has missed another answer waits for as long as that.

## Theorems

About the election, for every set of members, routes, timestamps and bounds that
satisfies the assumptions on the constants (`NodeAssumption`, `TsAssumption`,
`StreamBounds`, `TimerBound`):

| Theorem | Module | States |
|---|---|---|
| `TypeCorrect` | `ClusterProofs` | `Spec => []TypeOK` |
| `HealthCorrect` | `ClusterSafety` | `Spec => []HealthMatchesHosts` |
| `LeaderCorrect` | `ClusterSafety` | `Spec => []LeaderMatchesState` |
| `QuorumLed` | `ClusterSafety` | `Spec => []QuorumHasLeader` |
| `OnePanic` | `ClusterSafety` | `Spec => []OnlySwitchAckPanics` |
| `PublishedCorrect` | `ClusterSafety` | `Spec => []PublishedUsable` |
| `FollowersConnected` | `ClusterSafety` | `Cardinality(Node) <= 3` implies `Spec => []FollowerHasClient` |
| `WaitsTimed` | `ClusterSafety` | `Spec => []WaitsAreTimed` |
| `HostsReported` | `ClusterSafety` | `Spec => []HostsFollowClients` |
| `TimestampsCorrect` | `ClusterTimestamps` | `Spec => []TimestampNamesLeader` |
| `MembershipImplemented` | `ClusterMembership` | `Spec => ImplementsMembership` |

About the caches, for every set of members and of calls, every bound, every offer
of operations and every kind of failure (`MemberAssumption`, `RequestBounds`,
`OfferAssumption`):

| Theorem | Module | States |
|---|---|---|
| `CacheTypesCorrect` | `CacheTypes` | `Spec => []TypeOK` |
| `AckedWriteImplemented` | `CacheWrites` | `Spec => ImplementsAckedWrite` |
| `MissesHeard` | `CacheSteady` | `Spec => []MissHeardFromAll` |
| `FollowersHoldTheSame` | `CacheSteady` | `Spec => []FollowersAgree` |
| `AckedInsertsLast` | `CacheSteady` | `Spec => []AckedInsertsSurvive` |
| `PresentIsFound` | `CacheSteady` | `Spec => LookupsFind` |

`OfferAssumption` says where a run of `CacheOps` begins: `Running` is more than
`Quorum` members, `Lead` one of them; what may be published is a view that an
operation can read.  A run that began with too few members would begin with a
quorum nobody has.

The argument for the election, in the order in which the parts lean on each other:

1. `TypeOK` is inductive.  It says a little more than types: a handler is never
   told of its own client (`News(n)`), and `link[n][n]` stays down.
2. `HealthInv`: `hosts[n]` holds other members only, and the health is the one
   their number calls for.  It needs 1 and facts about cardinalities: a host that
   joins adds at most one, and the count reaches `ClientsCount` only when all
   are there.  The code sets the health only when the quorum is reached, or was
   lost, which is enough because the invariant holds before the step.
3. `LeaderInv`: the leader fits the state, as in `LeaderMatchesState`.  By itself
   that is not inductive: `TimeoutGivesUp` forgets the leader in
   `LeadershipRequested` when the health is bad.  The strengthening is that a
   member with a request of its own has a quorum, because losing the quorum
   resets the state in the same turn.  So that branch is never taken from
   `LeadershipRequested`.
4. `QuorumHasLeader` is inductive on top: the leader is forgotten only with the
   quorum, or by a timeout with a bad health; and an `Alive` that makes a quorum
   without a leader asks for one in the same turn.
5. `OnlySwitchAckPanics` follows from 3 in every state; `PublishedUsable` from 2
   and 3 after the turn that publishes.  `FollowerHasClient` needs that one host
   makes a quorum: then a follower that loses its leader's client either has a
   quorum left and takes over, or has none and forgets it.  It is false for five
   members.
6. `TimestampNamesLeader` is about what is registered, and that comes out of
   messages.  `StampInv` says of every message on a stream, every answer and every
   request in a mailbox that it names the owner of its timestamp.  It survives a
   new request because a timestamp that was drawn is not drawn again.
7. `ImplementsMembership`: `RefInv` adds to 5 that the published health is bad
   exactly when the handler's is (`WatchInv`; the two turns that publish nothing
   do not change it).  Then every turn maps to `Publish`, with the reset that a
   lost quorum asks for; a connection opening or ending to `Connect` and `Break`;
   the end and the start of a process to theirs; and the rest to a stutter.
8. `WaitsAreTimed`: a turn of a handler leaves it waiting only if it starts a
   timeout, or if it waited before and the check was not what it took (`Renews`);
   a check that finds the member waiting starts the next one in each of its
   branches.  A timer that ends puts its check in the mailbox in the same step.
   It needs `GoneInv`, that a process which does not run has left nothing behind
   (no leader, host, mail or client), so that it does not begin again with a wait.
9. `HostsFollowClients` speaks of a moment at which no report is under way and is
   not inductive.  `NewsInv` says what the *last* report of a client in the mailbox
   has to say: an `Alive` that the client is connected, or has left a forwarder
   behind; a `Dead` that it is not; and no report that `hosts` is right already.
   Reports go in at the end and are taken at the front, so taking one that is not
   the last changes nothing, and taking the last makes `hosts` right.

The argument for the caches:

1. `TypeInv`: `TypeOK`, and what it takes to be inductive (with `ViewInv` of 2).  A receiver is sent
   answers of its own kind; a call with a countdown has a host left to wait for;
   who waits is at its `wait`.
2. `LifeInv`: what is published can be used (`ViewInv`, the `expect()`s of
   `lib.rs`); a call and its run fit each other (`RunInv`); a write is given to its
   leader once and its run has not begun before it is read there (`WriteInv`); no
   member is sent an update before the run has begun (`UpdateInv`).
3. `AckInv`: the ack of one member for one run is in one place at most, which is
   the queue, the sender saved by the client's callback task, or the receiver of
   the run.  The code matches acks to runs by id alone; this is why none counts
   twice although a stream that breaks leaves requests in queues, and why an ack
   that comes is of a member that has carried the write out.
4. `CountInv`: the acks a run still needs and the members it has counted (those in
   `stored` that owe no ack) make at least what the `AckLevel` asks for.
   `VouchInv`: a follower's caller is answered yes by a run that succeeded.  With
   these each step of `CacheOps` is one of `AckedWrite` or a stutter.
5. `MissInv`, while no process stops and nobody publishes anything: the answer of
   one member to one lookup is in one place at most (the request in a queue, the
   sender saved, the answer in the receiver, or heard), so the answers a lookup
   has counted are of different members, and the countdown and `heard` make up
   all other members (`Looks`).  It holds whichever lookup takes the answer, and
   through broken streams and late answers.
6. `AgreeInv`, while in addition no stream breaks: only the leader's runs send
   updates, and there is one value with which everything under way from the leader
   leaves the entry of every follower (`SameEnd`, by `Leaves`: the last update in
   queue and stream decides).  Then no client connects anew either, so nothing is
   drained and no forwarder left behind (`NothingBehind`).  `NotBegun` carries that through calls of other
   members that have not begun.  `OnlyLedWrites` may turn false later, so the
   invariant is conditional on it, as on the failures (`FailedGrows`: failures are
   never forgotten).
7. `AckedInsertsSurvive` puts two counts against each other.  `PromiseInv`: a write
   that was vouched for has more holders than acks were asked for, which is read
   off the steps of `AckedWrite` and not of `CacheOps` (each step of the code is
   one of them, by 4).  `Lossless`: of the holders of a write no more have lost the
   entry than processes have stopped, as long as nothing is deleted and no quorum
   is lost; the entry may be replaced, and counts as there.  For the second,
   whoever has a call or a run under way runs itself (`BusyUp`), for a process that
   is gone stores nothing, and no deletion is under way (`NoDelSent`).
8. `LookupsFind` is about the steps between the beginning of a lookup and its end.
   `Sees(c, m)`: m has the entry, and no denial of m is on its way to the lookup,
   in its receiver, or counted by it.  A member that has the entry keeps it while
   nothing is deleted and denies it to nobody, so `Sees` is kept by every step; and
   a lookup that misses has heard from every other member (5), so also from m.
   Which m it is was decided when the lookup began, and does not change.

Not proved, and why:

- `QuietHasLeader` and `PriorityWins` are model-checked only.  They are not
  invariants of every cluster: the run `v_break` violates the first one after one
  broken stream, and a request that is lost with its stream can win no priority.
  A proof for the clusters without faults would have to follow every request, ack
  and switch of all elections that are under way at once, and how each of them
  ends; in larger clusters a `LeaderAck` is taken without a comparison of
  timestamps, so we do not expect `PriorityWins` to hold of every one.  What
  holds is what the runs check, with the members and the faults they name.
- Liveness (`EventuallyElected`, `OnlyStrandedWait`) is outside what the prover does.
- The four statements of the `v_` runs are false.
- That `FollowerHasClient` holds of five members: it does not (5).

## Not modelled, or open

- A start of three fully connected members with faults, and liveness after the
  leader stops, exceed what TLC finishes in minutes; `star_start` and
  `steady_stop` are the parts that do.
- The election and the caches in one state space: `Membership` stands between
  them.  What it does not say, that two members do not lead each other for
  instance, the runs of `CacheOps` assume by the views they offer.
- The clocks.  `LeaderSwitchPriority` prefers the earlier timestamp whatever the
  clocks say, and so does the model.
- A transport buffer that is full: `MaxWire` is large enough in every passing run
  that raising it adds no state.
- `ready_oneshot().await?` in `run_client`, which would end a client for good.
- Generated code (`rpc/cache.rs`), TLS, authentication, configuration, the
  `CacheNotify` channel (sent to without waiting), and the examples.

## Plan

1. Done: `Streams`, `QuorumHandler`, `Cluster`, their runs and the first seven
   theorems.
2. Done: `Membership`, `Requests`, `CacheOps`, `AckedWrite` and their runs.
3. Done: that `Cluster` implements `Membership` and `CacheOps` implements
   `AckedWrite`; `TimestampNamesLeader`; types, lookups and the order of writes of
   `CacheOps`.
4. Done: that waiting members are timed and that hosts follow their clients; that
   acknowledged inserts survive and that lookups find what is there.
5. Open: `QuietHasLeader` without faults and with all routes, from an invariant on
   the requests of one election that are still under way; a theorem that names the
   part of `FollowerHasClient` that holds in clusters of any size.
