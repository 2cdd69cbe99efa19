------------------------------- MODULE Requests -------------------------------
(***************************************************************************)
(* The cache requests between the members: the forwarder and the callback  *)
(* task of client.rs on the asking side, stream_values of server.rs on the *)
(* answering side, and one entry of one cache.                             *)
(*                                                                         *)
(* Whoever asks keeps the receiver of a channel whose senders travel with  *)
(* the request: through the queue of a client into its callback task, where *)
(* they wait for the answer.  A receiver learns that nobody will answer    *)
(* only when no sender is left anywhere; a client that starts over drops   *)
(* some of them late, and some perhaps never.                              *)
(***************************************************************************)
EXTENDS Membership, Sequences, Functions

CONSTANTS
    Call,         \* the calls that applications make
    Faults,       \* the kinds of failure that happen
    MaxFaults     \* bound: failures

(* A stream breaks or fails to open, an answer comes too late, a process   *)
(* stops, a quorum handler publishes something else.                       *)
Failure == {"break", "open", "late", "stop", "view"}

ASSUME RequestBounds ==
    /\ None \notin Call
    /\ Faults \subseteq Failure
    /\ MaxFaults \in Nat

VARIABLES
    cache,      \* [Node -> Call or None], whose value the entry holds
    queue,      \* [Node -> [Node -> Seq]], rx_remote_req of a client
    stream,     \* [Node -> [Node -> Seq]], requests sent and not read yet
    serves,     \* [Node -> [Node -> Call or None]], what a stream task runs
    answers,    \* [Node -> [Node -> Seq]], answers the client has not read
    saved,      \* [Node -> [Node -> SUBSET Token]], get_cache and ack_cache
    drained,    \* [Node -> [Node -> SUBSET Token]], of the requests thrown away
    behind,     \* [Node -> [Node -> Seq(SUBSET Token)]], the senders saved by
                \* each pair of tasks that a failed opening left behind
    waiting,    \* SUBSET Token, the receivers that somebody waits on
    got,        \* [Token -> Seq], what has been sent to them
    failed      \* [Failure -> Nat], how often each has happened

requestVars ==
    <<cache, queue, stream, serves, answers, saved, drained, behind,
      waiting, got, failed>>

-----------------------------------------------------------------------------
(* A sender belongs to a lookup, to a write that was given to the leader,  *)
(* or to the leader's own count of acks for a write.                       *)
Token == Call \X {"get", "mod", "run"}

Get(c)    == [is |-> "Get", call |-> c, resp |-> "get"]
Put(c, r) == [is |-> "Put", call |-> c, resp |-> r]
Del(c, r) == [is |-> "Del", call |-> c, resp |-> r]
Insert(c) == [is |-> "Insert", call |-> c, resp |-> "mod"]
Remove(c) == [is |-> "Remove", call |-> c, resp |-> "mod"]

RpcRequest ==
    [is : {"Get"}, call : Call, resp : {"get"}]
        \cup [is : {"Put", "Del"}, call : Call, resp : {"run", "none"}]
        \cup [is : {"Insert", "Remove"}, call : Call, resp : {"mod"}]

TokenOf(r) == <<r.call, r.resp>>

(* A GetAck names the entry only, a PutAck or DelAck the request's id.  An *)
(* Error stands for a Status, and for the end of the stream by a panic.    *)
GetAck(v)    == [is |-> "GetAck", val |-> v]
ModAck(t, b) == [is |-> "ModAck", token |-> t, val |-> b]
Error        == [is |-> "Error"]

Ack ==
    [is : {"GetAck"}, val : Call \cup {None}]
        \cup [is : {"ModAck"}, token : Call \X {"mod", "run", "none"},
              val : BOOLEAN]
        \cup {Error}

RequestsTypeOK ==
    /\ cache \in [Node -> Call \cup {None}]
    /\ queue \in [Node -> [Node -> Seq(RpcRequest)]]
    /\ stream \in [Node -> [Node -> Seq(RpcRequest)]]
    /\ serves \in [Node -> [Node -> Call \cup {None}]]
    /\ answers \in [Node -> [Node -> Seq(Ack)]]
    /\ saved \in [Node -> [Node -> SUBSET Token]]
    /\ drained \in [Node -> [Node -> SUBSET Token]]
    /\ behind \in [Node -> [Node -> Seq(SUBSET Token)]]
    /\ waiting \in SUBSET Token
    /\ got \in [Token -> Seq([from : Node,
                              val : Call \cup {None} \cup BOOLEAN])]
    /\ failed \in [Failure -> Nat]

NoRequests == [n \in Node |-> [m \in Node |-> <<>>]]

RequestsInit ==
    /\ cache = [n \in Node |-> None]
    /\ queue = NoRequests
    /\ stream = NoRequests
    /\ serves = [n \in Node |-> [m \in Node |-> None]]
    /\ answers = NoRequests
    /\ saved = [n \in Node |-> [m \in Node |-> {}]]
    /\ drained = [n \in Node |-> [m \in Node |-> {}]]
    /\ behind = NoRequests
    /\ waiting = {}
    /\ got = [t \in Token |-> <<>>]
    /\ failed = [f \in Failure |-> 0]

Fails(f) ==
    /\ f \in Faults
    /\ SumFunction(failed) < MaxFaults
    /\ failed' = [failed EXCEPT ![f] = @ + 1]

-----------------------------------------------------------------------------
(* Slip: a request overtakes those that wait.                              *)
Overtake(s, r) == <<r>> \o s

Enqueue(s, r) == Append(s, r)

(* cache_clients copies a request, and its sender, to every client's queue. *)
Broadcast(n, r) ==
    queue' = [queue EXCEPT ![n] = [m \in Node |->
                  IF m = n THEN @[m] ELSE Enqueue(@[m], r)]]

SendTo(n, m, r) == queue' = [queue EXCEPT ![n][m] = Enqueue(@, r)]

Queued(n, m) ==
    {t \in Token : \E i \in DOMAIN queue[n][m] : TokenOf(queue[n][m][i]) = t}

(* The sender of t is held by somebody who will never use it.              *)
Kept(t) ==
    \E n, m \in Node :
        \/ t \in drained[n][m]
        \/ \E i \in DOMAIN behind[n][m] : t \in behind[n][m][i]

(* The receiver of t is not told that nobody will answer.                  *)
HasSender(t) ==
    Kept(t) \/ \E n, m \in Node : t \in saved[n][m] \cup Queued(n, m)

(* Receivers are dropped by those who waited on them.                      *)
Drop(ts) ==
    /\ waiting' = waiting \ ts
    /\ got' = [t \in Token |-> IF t \in ts THEN <<>> ELSE got[t]]

Lookups(n, m) == {t \in saved[n][m] : t[2] = "get"}

(* The callback task saves the sender: by request, or by entry, in which   *)
(* case that of an earlier lookup is replaced.                             *)
Saved(n, m, r) ==
    IF r.resp = "none" THEN saved[n][m]
    ELSE IF r.resp = "get" THEN (saved[n][m] \ Lookups(n, m)) \cup {TokenOf(r)}
    ELSE saved[n][m] \cup {TokenOf(r)}

(* The forwarder task takes the next request of its client, as soon as it  *)
(* has a connection.  On a stream whose other end is gone it is lost.      *)
Forward(n, m) ==
    /\ conn[n][m] /= "down"
    /\ queue[n][m] /= <<>>
    /\ LET r == Head(queue[n][m]) IN
       /\ saved' = [saved EXCEPT ![n][m] = Saved(n, m, r)]
       /\ stream' = [stream EXCEPT ![n][m] =
              IF conn[n][m] /= "lost" THEN Append(@, r) ELSE @]
    /\ queue' = [queue EXCEPT ![n][m] = Tail(@)]
    /\ UNCHANGED <<memberVars, cache, serves, answers, drained, behind,
                   waiting, got, failed>>

-----------------------------------------------------------------------------
(* m's stream task for n reads its next request.  There is none before the *)
(* stream is open.                                                         *)
Reads(n, m, kinds) ==
    /\ up[m]
    /\ conn[n][m] /= "connected"
    /\ stream[n][m] /= <<>>
    /\ Head(stream[n][m]).is \in kinds
    /\ serves[n][m] = None
    /\ stream' = [stream EXCEPT ![n][m] = Tail(@)]

Answered(n, m, a) ==
    [answers EXCEPT ![n][m] = IF conn[n][m] = "up" THEN Append(@, a) ELSE @]

ServeGet(n, m) ==
    /\ Reads(n, m, {"Get"})
    /\ answers' = Answered(n, m, GetAck(cache[m]))
    /\ UNCHANGED <<memberVars, cache, queue, serves, saved, drained, behind,
                   waiting, got, failed>>

(* What the entry holds once the cache task of m has carried out r.  The   *)
(* cache tasks take their requests in order, so it counts from now on.     *)
Applied(m, r) == IF r.is = "Put" THEN r.call ELSE None

ServeMod(n, m) ==
    /\ Reads(n, m, {"Put", "Del"})
    /\ LET r == Head(stream[n][m]) IN
       /\ cache' = [cache EXCEPT ![m] = Applied(m, r)]
       /\ answers' = Answered(n, m, ModAck(TokenOf(r), TRUE))
    /\ UNCHANGED <<memberVars, queue, serves, saved, drained, behind, waiting,
                   got, failed>>

-----------------------------------------------------------------------------
(* The senders an answer is meant for, as the callback task finds them.    *)
Meant(n, m, a) ==
    IF a.is = "GetAck" THEN Lookups(n, m) ELSE saved[n][m] \cap {a.token}

(* n's client takes an answer from the stream.                             *)
TakesAnswer(n, m) ==
    /\ conn[n][m] \in {"up", "lost"}
    /\ answers[n][m] /= <<>>
    /\ Head(answers[n][m]) /= Error
    /\ saved' = [saved EXCEPT ![n][m] = @ \ Meant(n, m, Head(answers[n][m]))]
    /\ answers' = [answers EXCEPT ![n][m] = Tail(@)]
    /\ UNCHANGED <<memberVars, cache, queue, stream, serves, drained, behind,
                   waiting>>

DeliverAnswer(n, m) ==
    /\ TakesAnswer(n, m)
    /\ LET a == Head(answers[n][m]) IN
       got' = [t \in Token |->
           IF t \in Meant(n, m, a) \cap waiting
           THEN Append(got[t], [from |-> m, val |-> a.val]) ELSE got[t]]
    /\ UNCHANGED failed

(* A callback is kept for ten seconds: an answer that comes later finds    *)
(* none, and its sender is dropped.                                        *)
LateAnswer(n, m) ==
    /\ TakesAnswer(n, m)
    /\ Meant(n, m, Head(answers[n][m])) /= {}
    /\ Fails("late")
    /\ UNCHANGED got

-----------------------------------------------------------------------------
(* run_client connects.  What has waited in its queue is thrown away, but  *)
(* the senders stay with the Drain until the connection is over.           *)
Connect(n, m) ==
    /\ Connects(n, m)
    /\ drained' = [drained EXCEPT ![n][m] = Queued(n, m)]
    /\ queue' = [queue EXCEPT ![n][m] = <<>>]
    /\ stream' = [stream EXCEPT ![n][m] = <<>>]
    /\ serves' = [serves EXCEPT ![n][m] = None]
    /\ UNCHANGED <<cache, answers, saved, behind, waiting, got, failed>>

(* stream_values is answered: the other side has started a stream task.    *)
OpenStream(n, m) == Opens(n, m) /\ UNCHANGED requestVars

(* stream_values fails: run_client starts over, and leaves its forwarder   *)
(* and its callback task behind with the senders saved so far.             *)
OpenFails(n, m) ==
    /\ conn[n][m] = "connected"
    /\ Breaks(n, m)
    /\ behind' = [behind EXCEPT ![n][m] = Append(@, saved[n][m])]
    /\ saved' = [saved EXCEPT ![n][m] = {}]
    /\ drained' = [drained EXCEPT ![n][m] = {}]
    /\ stream' = [stream EXCEPT ![n][m] = <<>>]
    /\ UNCHANGED <<cache, queue, serves, answers, waiting, got>>

(* A failed opening is a failure, unless there is nobody to answer.        *)
OpeningFails(n, m) == up[m] /\ Fails("open") /\ OpenFails(n, m)

OpeningUnanswered(n, m) == ~up[m] /\ OpenFails(n, m) /\ UNCHANGED failed

(* The i-th pair of tasks that was left behind ends.                       *)
LeftBehindEnds(n, m, i) ==
    behind' = [behind EXCEPT ![n][m] =
        SubSeq(@, 1, i - 1) \o SubSeq(@, i + 1, Len(@))]

(* A forwarder left behind takes a request from the queue it shares, finds *)
(* its stream closed, drops the request and ends, and with it the callback *)
(* task.                                                                   *)
LeftBehindTakes(n, m) ==
    /\ queue[n][m] /= <<>>
    /\ queue' = [queue EXCEPT ![n][m] = Tail(@)]
    /\ \E i \in DOMAIN behind[n][m] : LeftBehindEnds(n, m, i)
    /\ UNCHANGED <<memberVars, cache, stream, serves, answers, saved, drained,
                   waiting, got, failed>>

(* So it does with a request of the election.                              *)
LeftBehindTakesOther(n, m) ==
    /\ \E i \in DOMAIN behind[n][m] : LeftBehindEnds(n, m, i)
    /\ UNCHANGED <<memberVars, cache, queue, stream, serves, answers, saved,
                   drained, waiting, got, failed>>

(* Slip: the callback task outlives its stream.                            *)
KeepCallbacks(n, m) == saved

(* The callback task is aborted, and with it go the senders it has saved.  *)
AbortCallbacks(n, m) == [saved EXCEPT ![n][m] = {}]

(* The stream of n to m ends.  What n has sent on it may still be read.    *)
TearDown(n, m) ==
    /\ Breaks(n, m)
    /\ saved' = AbortCallbacks(n, m)
    /\ drained' = [drained EXCEPT ![n][m] = {}]
    /\ answers' = [answers EXCEPT ![n][m] = <<>>]
    /\ UNCHANGED <<cache, queue, stream, serves, behind, waiting, got>>

Break(n, m) ==
    /\ conn[n][m] = "up"
    /\ Fails("break")
    /\ TearDown(n, m)

(* The client notices that the other process is gone, or reads the Status  *)
(* or the end that the server's stream task has left.                      *)
Ends(n, m) ==
    /\ \/ conn[n][m] = "lost" /\ answers[n][m] = <<>>
       \/ answers[n][m] /= <<>> /\ Head(answers[n][m]) = Error
    /\ TearDown(n, m)
    /\ UNCHANGED failed

(* Requests that were under way when the stream ended are not read.        *)
LoseRest(n, m) ==
    /\ conn[n][m] = "down"
    /\ stream[n][m] /= <<>>
    /\ stream' = [stream EXCEPT ![n][m] = <<>>]
    /\ UNCHANGED <<memberVars, cache, queue, serves, answers, saved, drained,
                   behind, waiting, got, failed>>

(* What is left in the streams when n ends: nothing that n should read,    *)
(* nor what n has not sent yet.  A client that is about to open its stream *)
(* to n still has what it will send.                                       *)
StreamsWithout(n) ==
    [a \in Node |-> [b \in Node |->
        IF \/ a = n /\ conn[n][b] = "connected"
           \/ b = n /\ conn[a][n] /= "connected"
        THEN <<>> ELSE stream[a][b]]]

(* The process of n ends: its tasks, its entries and its callbacks are     *)
(* gone, and its peers have not noticed yet.  gone are the receivers of    *)
(* the calls it was busy with.                                             *)
EndProcess(n, gone) ==
    /\ Fails("stop")
    /\ Stops(n)
    /\ \A a \in Node \ {n} : conn[a][n] /= "down" => conn'[a][n] /= "down"
    /\ cache' = [cache EXCEPT ![n] = None]
    /\ queue' = [queue EXCEPT ![n] = [m \in Node |-> <<>>]]
    /\ saved' = [saved EXCEPT ![n] = [m \in Node |-> {}]]
    /\ drained' = [drained EXCEPT ![n] = [m \in Node |-> {}]]
    /\ behind' = [behind EXCEPT ![n] = [m \in Node |-> <<>>]]
    /\ answers' = [answers EXCEPT ![n] = [m \in Node |-> <<>>]]
    /\ stream' = StreamsWithout(n)
    /\ serves' = [a \in Node |-> [serves[a] EXCEPT ![n] = None]]
    /\ Drop(gone)

==============================================================================
