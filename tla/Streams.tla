------------------------------- MODULE Streams -------------------------------
(***************************************************************************)
(* The gRPC streams between the members of a redhac cluster: client.rs     *)
(* (run_client, cache_clients) on the sending side and server.rs           *)
(* (stream_values) on the receiving side, as far as the management          *)
(* messages of the election use them, and the channel tx_quorum that feeds *)
(* them to a member's quorum handler.                                      *)
(*                                                                         *)
(* Every member n keeps one client per other member m.  link[n][m] is the  *)
(* state of that client, wire[n][m] the requests n has sent on the stream  *)
(* that m's handler has not been given yet, and acks[n][m] what m has      *)
(* answered on the same stream that n's client has not read yet.           *)
(*                                                                         *)
(* A broadcast reaches the queues of all clients in one step.  What is     *)
(* sent to a client without a connection is dropped at once: run_client    *)
(* drains its queue when it next connects, before it does anything else.   *)
(***************************************************************************)
EXTENDS Integers, Sequences, FiniteSets

CONSTANTS
    Node,          \* the members named in HA_HOSTS
    Live,          \* the members that are started, and started again
    Route,         \* the pairs whose first can open a connection to the second
    None,          \* no member
    Ts,            \* election timestamps
    MaxMailbox,    \* bound: requests waiting in a mailbox when another is put in
    MaxWire,       \* bound: requests under way on one stream
    MaxBreaks,     \* bound: established streams that break
    MaxOpenFails,  \* bound: streams that fail to open on a new connection
    MaxStops,      \* bound: members that crash or are shut down
    MaxTimeouts    \* bound: election timeouts that are over

ASSUME NodeAssumption ==
    /\ IsFiniteSet(Node)
    /\ Cardinality(Node) >= 2
    /\ Live \subseteq Node
    /\ Route \subseteq Node \X Node
    /\ None \notin Node

ASSUME TsAssumption == Ts \subseteq Nat

ASSUME StreamBounds ==
    /\ MaxMailbox \in Nat \ {0}
    /\ MaxWire \in Nat \ {0}
    /\ MaxBreaks \in Nat
    /\ MaxOpenFails \in Nat
    /\ MaxStops \in Nat
    /\ MaxTimeouts \in Nat

VARIABLES
    phase,    \* [Node -> {"off", "up", "panicked"}], the process of a member
    link,     \* [Node -> [Node -> ...]], the client of one member for another
    leaked,   \* [Node -> [Node -> Nat]], forwarders that outlived their streams
    wire,     \* [Node -> [Node -> Seq]], requests, sender first
    acks,     \* [Node -> [Node -> Seq]], answers, the client first
    mailbox,  \* [Node -> Seq], the channel rx_quorum of a quorum handler
    faults    \* how many breaks, failed openings and stops there have been

streamVars == <<phase, link, leaked, wire, acks, mailbox, faults>>

-----------------------------------------------------------------------------
(* The requests a quorum handler receives (enum QuorumReq).  A LeaderReq is *)
(* broadcast by the member it names, so addr is also the client whose       *)
(* stream carried it, and whose stream the answer goes back on.             *)

Alive(m)            == [is |-> "Alive", addr |-> m]
Dead(m)             == [is |-> "Dead", addr |-> m]
LeaderInfo(a, t, q) == [is |-> "LeaderInfo", addr |-> a, ts |-> t, quorum |-> q]
LeaderReq(a, t)     == [is |-> "LeaderReq", addr |-> a, ts |-> t]
LeaderReqAck(a, t)  == [is |-> "LeaderReqAck", addr |-> a, ts |-> t]
LeaderAck(a, t)     == [is |-> "LeaderAck", addr |-> a, ts |-> t]
LeaderSwitch(a, t)  == [is |-> "LeaderSwitch", addr |-> a, ts |-> t]
LeaderSwitchDead(a, t) == [is |-> "LeaderSwitchDead", addr |-> a, ts |-> t]
LeaderSwitchAck(a)  == [is |-> "LeaderSwitchAck", addr |-> a]
LeaderSwitchPriority(a, t) ==
    [is |-> "LeaderSwitchPriority", addr |-> a, ts |-> t]
CheckElectionTimeout == [is |-> "CheckElectionTimeout"]
HostShutdown         == [is |-> "HostShutdown"]

(* What members send each other.                                           *)
Message ==
    [is : {"LeaderSwitchAck"}, addr : Node]
        \cup [is : {"LeaderInfo"}, addr : Node, ts : Ts, quorum : BOOLEAN]
        \cup [is : {"LeaderReq", "LeaderReqAck", "LeaderAck", "LeaderSwitch",
                    "LeaderSwitchDead", "LeaderSwitchPriority"},
              addr : Node, ts : Ts]

(* What the handler of n is given: messages, what n's own clients report   *)
(* of the other members, and what n's own tasks ask for.                   *)
News(n) == [is : {"Alive", "Dead"}, addr : Node \ {n}]

Request(n) == Message \cup News(n) \cup {CheckElectionTimeout, HostShutdown}

LinkState == {"down", "connected", "open", "lost"}

MailboxTypeOK ==
    /\ mailbox \in [Node -> Seq(UNION {Request(n) : n \in Node})]
    /\ \A n \in Node : mailbox[n] \in Seq(Request(n))

StreamsTypeOK ==
    /\ phase \in [Node -> {"off", "up", "panicked"}]
    /\ link \in [Node -> [Node -> LinkState]]
    /\ \A n \in Node : link[n][n] = "down"
    /\ leaked \in [Node -> [Node -> Nat]]
    /\ wire \in [Node -> [Node -> Seq(Message)]]
    /\ acks \in [Node -> [Node -> Seq(Message)]]
    /\ MailboxTypeOK
    /\ faults \in [{"break", "open", "stop", "timeout"} -> Nat]

StreamsInit ==
    /\ phase = [n \in Node |-> IF n \in Live THEN "up" ELSE "off"]
    /\ link = [n \in Node |-> [m \in Node |-> "down"]]
    /\ leaked = [n \in Node |-> [m \in Node |-> 0]]
    /\ wire = [n \in Node |-> [m \in Node |-> <<>>]]
    /\ acks = [n \in Node |-> [m \in Node |-> <<>>]]
    /\ mailbox = [n \in Node |-> <<>>]
    /\ faults = [f \in {"break", "open", "stop", "timeout"} |-> 0]

-----------------------------------------------------------------------------
(* What a quorum handler does to the streams.                              *)

Queued(n, m) == link[n][m] \in {"connected", "open"}

ToAll(reqs)      == [m \in Node |-> reqs]
ToOne(a, reqs)   == [m \in Node |-> IF m = a THEN reqs ELSE <<>>]
ToNobody         == [m \in Node |-> <<>>]
Then(out1, out2) == [m \in Node |-> out1[m] \o out2[m]]

(* n sends out[m] to every member m it has a connection to.                *)
Send(n, out) ==
    /\ \A m \in Node : Queued(n, m) =>
           Len(wire[n][m]) + Len(out[m]) <= MaxWire
    /\ wire' = [wire EXCEPT ![n] =
           [m \in Node |-> IF Queued(n, m) THEN @[m] \o out[m] ELSE @[m]]]

(* n's handler has taken the request at the head of its mailbox, and has   *)
(* put the requests in own at the tail (the self-sent tx_quorum).          *)
Take(n, own) == mailbox' = [mailbox EXCEPT ![n] = Tail(@) \o own]

Room(n)       == Len(mailbox[n]) < MaxMailbox
Enqueue(n, r) == Room(n) /\ mailbox' = [mailbox EXCEPT ![n] = Append(@, r)]

(* n's stream task at m has handed a LeaderReq to m's handler and waits    *)
(* for the oneshot before it reads on.                                     *)
AwaitsOneshot(n, m) ==
    \E i \in DOMAIN mailbox[m] :
        mailbox[m][i].is = "LeaderReq" /\ mailbox[m][i].addr = n

-----------------------------------------------------------------------------
(* run_client connects, and reports the host before it opens the stream.   *)
(* It waits for some seconds before it connects again, by which time the   *)
(* old stream's requests have arrived or are lost.  Forwarders that were   *)
(* left behind may have been ended by a Ping in the meantime.              *)
Connect(n, m) ==
    /\ n /= m /\ <<n, m>> \in Route
    /\ phase[n] /= "off" /\ phase[m] /= "off"
    /\ link[n][m] = "down"
    /\ wire[n][m] = <<>> /\ ~AwaitsOneshot(n, m)
    /\ link' = [link EXCEPT ![n][m] = "connected"]
    /\ \E still \in 0 .. leaked[n][m] :
           leaked' = [leaked EXCEPT ![n][m] = still]
    /\ Enqueue(n, Alive(m))
    /\ UNCHANGED <<phase, wire, acks, faults>>

(* stream_values is answered; the first thing on it is info, what the      *)
(* server's quorum handler reported.                                       *)
OpenStream(n, m, info) ==
    /\ link[n][m] = "connected"
    /\ phase[m] = "up"
    /\ link' = [link EXCEPT ![n][m] = "open"]
    /\ acks' = [acks EXCEPT ![n][m] = info]
    /\ UNCHANGED <<phase, leaked, wire, mailbox, faults>>

(* stream_values fails on the new connection: run_client starts over and   *)
(* leaves both the host it reported and its forwarder task behind.         *)
OpenFails(n, m) ==
    /\ phase[n] /= "off"
    /\ link[n][m] = "connected"
    /\ faults["open"] < MaxOpenFails
    /\ faults' = [faults EXCEPT !["open"] = @ + 1]
    /\ link' = [link EXCEPT ![n][m] = "down"]
    /\ leaked' = [leaked EXCEPT ![n][m] = @ + 1]
    /\ wire' = [wire EXCEPT ![n][m] = <<>>]
    /\ UNCHANGED <<phase, acks, mailbox>>

(* A forwarder left behind shares the queue with its successor: it takes   *)
(* one request, finds its own stream closed, drops the request and ends.   *)
LeakedForwarderTakes(n, m) ==
    /\ leaked[n][m] > 0
    /\ Queued(n, m)
    /\ wire[n][m] /= <<>>
    /\ wire' = [wire EXCEPT ![n][m] = SubSeq(@, 1, Len(@) - 1)]
    /\ leaked' = [leaked EXCEPT ![n][m] = @ - 1]
    /\ UNCHANGED <<phase, link, acks, mailbox, faults>>

(* n's client sees its stream to m end, reports the host dead and drops    *)
(* the answers it has not read.  Requests under way may still arrive.      *)
Break(n, m) ==
    /\ phase[n] /= "off"
    /\ \/ link[n][m] = "lost" /\ UNCHANGED faults
       \/ /\ link[n][m] = "open"
          /\ faults["break"] < MaxBreaks
          /\ faults' = [faults EXCEPT !["break"] = @ + 1]
    /\ link' = [link EXCEPT ![n][m] = "down"]
    /\ acks' = [acks EXCEPT ![n][m] = <<>>]
    /\ Enqueue(n, Dead(m))
    /\ UNCHANGED <<phase, leaked, wire>>

(* The rest of what was under way on a stream that broke is lost.          *)
LoseRest(n, m) ==
    /\ link[n][m] = "down"
    /\ wire[n][m] /= <<>>
    /\ wire' = [wire EXCEPT ![n][m] = <<>>]
    /\ UNCHANGED <<phase, link, leaked, acks, mailbox, faults>>

(* m's stream task for n reads a request and hands it to m's handler.      *)
DeliverRequest(n, m) ==
    /\ phase[m] /= "off"
    /\ link[n][m] \in {"open", "down"}
    /\ wire[n][m] /= <<>>
    /\ ~AwaitsOneshot(n, m)
    /\ Enqueue(m, Head(wire[n][m]))
    /\ wire' = [wire EXCEPT ![n][m] = Tail(@)]
    /\ UNCHANGED <<phase, link, leaked, acks, faults>>

(* n's client reads an answer and hands it to n's handler.                 *)
DeliverAck(n, m) ==
    /\ phase[n] /= "off"
    /\ link[n][m] \in {"open", "lost"}
    /\ acks[n][m] /= <<>>
    /\ Enqueue(n, Head(acks[n][m]))
    /\ acks' = [acks EXCEPT ![n][m] = Tail(@)]
    /\ UNCHANGED <<phase, link, leaked, wire, faults>>

-----------------------------------------------------------------------------
(* The process of n is gone: its clients with it, and what others sent to  *)
(* it.  A peer's open stream is dead until the peer notices; a connection  *)
(* without a stream yet fails to open, as in OpenFails.                    *)
LinksWithout(n) ==
    [a \in Node |-> [b \in Node |->
        IF a = n \/ (b = n /\ link[a][b] = "connected") THEN "down"
        ELSE IF b = n /\ link[a][b] = "open" THEN "lost"
        ELSE link[a][b]]]

LeakedWithout(n) ==
    [a \in Node |-> [b \in Node |->
        IF a = n THEN 0
        ELSE IF b = n /\ link[a][b] = "connected" THEN leaked[a][b] + 1
        ELSE leaked[a][b]]]

WiresWithout(n) ==
    [a \in Node |-> [b \in Node |->
        IF b = n \/ (a = n /\ link[a][b] = "connected") THEN <<>>
        ELSE wire[a][b]]]

AcksWithout(n) ==
    [a \in Node |-> [b \in Node |-> IF a = n THEN <<>> ELSE acks[a][b]]]

==============================================================================
