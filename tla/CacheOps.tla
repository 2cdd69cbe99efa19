------------------------------- MODULE CacheOps -------------------------------
(***************************************************************************)
(* The cache operations of lib.rs, called by the applications of all       *)
(* members at once on one entry: cache_get, cache_put and cache_del, and   *)
(* cache_insert and cache_remove with the leader's side of them, which the *)
(* stream tasks of server.rs run too.  Every await that lets others in is  *)
(* between two actions.                                                     *)
(***************************************************************************)
EXTENDS Requests

CONSTANTS
    Offer,      \* what each call may be: operation, member, level
    Views,      \* what the quorum handlers may publish
    Stopping,   \* the members whose process may stop, and is started again
    Lead,       \* the leader at first
    Running     \* the members that run at first

Operation == {"get", "put", "del", "insert", "remove"}
AckLevel  == {"Leader", "Once", "Quorum"}

ASSUME OfferAssumption ==
    /\ Offer \in [Call -> SUBSET [op : Operation, at : Node, level : AckLevel]]
    /\ Views \subseteq View
    /\ Lead \in Running /\ Running \subseteq Node
    /\ Cardinality(Running) > Quorum
    /\ Stopping \subseteq Running

VARIABLES
    call,     \* [Call -> ...], an operation, how far it is, what it returns
    run,      \* [Call -> ...], insert_from_leader, remove_from_leader
    stored,   \* [Call -> SUBSET Node], who has carried out the write (history)
    heard     \* [Call -> SUBSET Node], whose answers a lookup took (history)

historyVars == <<stored, heard>>

opVars == <<call, run, historyVars>>
vars   == <<memberVars, requestVars, opVars>>

-----------------------------------------------------------------------------
NoCall == [pc |-> "idle", op |-> "get", at |-> None, level |-> "Leader",
           to |-> None, left |-> 0, found |-> None]
NoRun  == [pc |-> "none", at |-> None, need |-> 0, left |-> 0,
           verdict |-> "none"]

Returned == {"ok", "error", "gone"}
Finished == {"none", "done", "gone", "panicked"}

CacheOpsTypeOK ==
    /\ call \in [Call ->
           [pc : {"idle", "look", "ask", "store", "send", "run", "push", "wait"}
                     \cup Returned,
            op : Operation, at : Node \cup {None}, level : AckLevel,
            to : Node \cup {None}, left : Nat, found : Call \cup {None}]]
    /\ run \in [Call ->
           [pc : {"send", "store", "await", "answer"} \cup Finished,
            at : Node \cup {None}, need : Nat, left : Nat,
            verdict : {"none", "true", "false"}]]
    /\ stored \in [Call -> SUBSET Node]
    /\ heard \in [Call -> SUBSET Node]

CacheOpsInit ==
    /\ call = [c \in Call |-> NoCall]
    /\ run = [c \in Call |-> NoRun]
    /\ stored = [c \in Call |-> {}]
    /\ heard = [c \in Call |-> {}]

(* A cluster whose election is over: Lead leads, and all who run are       *)
(* connected to each other.                                                *)
ElectedInit ==
    /\ up = [n \in Node |-> n \in Running]
    /\ conn = [n \in Node |-> [m \in Node |->
          IF n /= m /\ {n, m} \subseteq Running THEN "up" ELSE "down"]]
    /\ view = [n \in Node |->
          IF n \notin Running THEN DefaultView
          ELSE [quorum |-> TRUE,
                role |-> IF n = Lead THEN "Leader" ELSE "Follower",
                to |-> IF n = Lead THEN None ELSE Lead,
                hosts |-> Cardinality(Running) - 1]]
    /\ resets = [n \in Node |-> FALSE]

Init == ElectedInit /\ RequestsInit /\ CacheOpsInit

At(c) == call[c].at
Pc(c) == call[c].pc

Goes(c, pc) == call' = [call EXCEPT ![c].pc = pc]

Puts(c) == call[c].op \in {"put", "insert"}

(* The request that carries the write of c out at another member.          *)
Update(c, r) == IF Puts(c) THEN Put(c, r) ELSE Del(c, r)

(* The write of c in the cache of n.                                       *)
Carry(n, c) ==
    /\ cache' = [cache EXCEPT ![n] = Applied(n, Update(c, "none"))]
    /\ stored' = [stored EXCEPT ![c] = @ \cup {n}]

otherRequests == <<stream, serves, answers, saved, drained, behind, failed>>

-----------------------------------------------------------------------------
(* An operation begins with what the watch channel holds, and keeps it.    *)
Begin(c, o, pc, left) ==
    call' = [call EXCEPT ![c] =
        [pc |-> pc, op |-> o.op, at |-> o.at, level |-> o.level,
         to |-> view[o.at].to, left |-> left, found |-> None]]

(* Without a quorum only cache_del goes on.                                *)
GetBegins(v) == IF v.quorum THEN "look" ELSE "error"
PutBegins(v) == IF v.quorum THEN "store" ELSE "error"

(* A cache_insert or a cache_remove.  cache_remove panics where             *)
(* cache_insert returns an error.                                          *)
WriteBegins(v) ==
    IF ~v.quorum THEN "error"
    ELSE IF v.role \in {"Leader", "LeaderSwitch"} THEN "run"
    ELSE IF v.role = "Follower" THEN "push"
    ELSE "error"

BeginsWith(o, v) ==
    CASE o.op = "get" -> GetBegins(v)
      [] o.op = "put" -> PutBegins(v)
      [] o.op = "del" -> "store"
      [] OTHER        -> WriteBegins(v)

Need(level) ==
    IF level = "Leader" THEN 0 ELSE IF level = "Once" THEN 1 ELSE Quorum

StartRun(c, n, level, left) ==
    run' = [run EXCEPT ![c] =
        [pc |-> "send", at |-> n, need |-> Need(level), left |-> left,
         verdict |-> "none"]]

BeginCall(c) ==
    /\ Pc(c) = "idle"
    /\ \E o \in Offer[c] :
           /\ up[o.at]
           /\ LET v  == view[o.at]
                  pc == BeginsWith(o, v)
              IN  /\ Begin(c, o, pc, v.hosts)
                  /\ IF pc = "run"
                     THEN StartRun(c, o.at, o.level, v.hosts)
                     ELSE UNCHANGED run
    /\ UNCHANGED <<memberVars, requestVars, historyVars>>

(* cache_put and cache_del: the own cache first, then all others, which    *)
(* nobody waits for.                                                       *)
StoreHere(c) ==
    /\ Pc(c) = "store"
    /\ Carry(At(c), c)
    /\ Goes(c, "send")
    /\ UNCHANGED <<memberVars, queue, otherRequests, waiting, got, run, heard>>

SendAll(c) ==
    /\ Pc(c) = "send"
    /\ Broadcast(At(c), Update(c, "none"))
    /\ Goes(c, "ok")
    /\ UNCHANGED <<memberVars, cache, otherRequests, waiting, got,
                   run, historyVars>>

-----------------------------------------------------------------------------
(* cache_get_value: the own cache first, then all others.                  *)
Look(c) ==
    /\ Pc(c) = "look"
    /\ LET v    == cache[At(c)]
           next == IF v = None THEN "ask" ELSE "ok"
       IN  call' = [call EXCEPT ![c].found = v, ![c].pc = next]
    /\ UNCHANGED <<memberVars, requestVars, run, historyVars>>

Ask(c) ==
    /\ Pc(c) = "ask"
    /\ Broadcast(At(c), Get(c))
    /\ waiting' = waiting \cup {<<c, "get">>}
    /\ Goes(c, "wait")
    /\ UNCHANGED <<memberVars, cache, otherRequests, got, run, historyVars>>

(* Slip: the countdown ends one host early.                                *)
EndsEarly(left) == left <= 2

LastAnswer(left) == left = 1

TakeAnswer(c) ==
    LET t == <<c, "get">> IN
    /\ Pc(c) = "wait"
    /\ got[t] /= <<>>
    /\ heard' = [heard EXCEPT ![c] = @ \cup {Head(got[t]).from}]
    /\ LET v == Head(got[t]).val IN
       IF v /= None \/ LastAnswer(call[c].left)
       THEN /\ call' = [call EXCEPT ![c].pc = "ok", ![c].found = v]
            /\ Drop({t})
       ELSE /\ call' = [call EXCEPT ![c].left = @ - 1]
            /\ got' = [got EXCEPT ![t] = Tail(@)]
            /\ UNCHANGED waiting
    /\ UNCHANGED <<memberVars, cache, queue, otherRequests, run, stored>>

-----------------------------------------------------------------------------
(* cache_insert and cache_remove of a follower: the leader's client gets   *)
(* the request, past the broadcast.                                        *)
Push(c) ==
    /\ Pc(c) = "push"
    /\ SendTo(At(c), call[c].to,
              IF call[c].op = "insert" THEN Insert(c) ELSE Remove(c))
    /\ waiting' = waiting \cup {<<c, "mod">>}
    /\ Goes(c, "wait")
    /\ UNCHANGED <<memberVars, cache, otherRequests, got, run, historyVars>>

TakeVerdict(c) ==
    LET t == <<c, "mod">> IN
    /\ Pc(c) = "wait"
    /\ got[t] /= <<>>
    /\ Goes(c, IF Head(got[t]).val THEN "ok" ELSE "error")
    /\ Drop({t})
    /\ UNCHANGED <<memberVars, cache, queue, otherRequests, run, historyVars>>

(* All senders are gone: recv_async fails.                                 *)
NobodyAnswers(t) == t \in waiting /\ got[t] = <<>> /\ ~HasSender(t)

CallFails(c) ==
    \E t \in {<<c, "get">>, <<c, "mod">>} :
        /\ Pc(c) = "wait"
        /\ NobodyAnswers(t)
        /\ Goes(c, "error")
        /\ Drop({t})
        /\ UNCHANGED <<memberVars, cache, queue, otherRequests,
                       run, historyVars>>

-----------------------------------------------------------------------------
(* insert_from_leader and remove_from_leader.                              *)
Answers(c) == IF run[c].need = 0 THEN "none" ELSE "run"

RunSends(c) ==
    /\ run[c].pc = "send"
    /\ Broadcast(run[c].at, Update(c, Answers(c)))
    /\ waiting' =
           IF run[c].need = 0 THEN waiting ELSE waiting \cup {<<c, "run">>}
    /\ run' = [run EXCEPT ![c].pc = "store"]
    /\ UNCHANGED <<memberVars, cache, otherRequests, got, call, historyVars>>

RunStores(c) ==
    /\ run[c].pc = "store"
    /\ Carry(run[c].at, c)
    /\ run' = [run EXCEPT ![c].pc = "await"]
    /\ UNCHANGED <<memberVars, queue, otherRequests, waiting, got, call, heard>>

(* Slip: the acks of all hosts are awaited.                                *)
AwaitsAll(c) == run[c].pc = "await" /\ run[c].left > 0

(* Slip: the leader counts its own store as an ack.                        *)
CountsItself(c) == run[c].pc = "await" /\ run[c].need > 1 /\ run[c].left > 0

(* The loop that waits for acks ends: enough have come, or as many answers *)
(* as there were hosts when the run began.                                 *)
Awaits(c) == run[c].pc = "await" /\ run[c].need > 0 /\ run[c].left > 0

RunSucceeds(c) ==
    /\ run[c].pc = "await"
    /\ ~Awaits(c)
    /\ run' = [run EXCEPT ![c].pc = "answer", ![c].verdict = "true"]
    /\ Drop({<<c, "run">>})
    /\ UNCHANGED <<memberVars, cache, queue, otherRequests, call, historyVars>>

(* One turn of the loop, after which need hosts must still acknowledge.    *)
RunTurns(c, need) ==
    LET t == <<c, "run">> IN
    /\ IF run[c].left = 1 /\ need > 0
       THEN /\ run' = [run EXCEPT ![c].pc = "answer", ![c].need = need,
                                  ![c].verdict = "false"]
            /\ Drop({t})
       ELSE /\ run' = [run EXCEPT ![c].need = need, ![c].left = @ - 1]
            /\ got' = [got EXCEPT ![t] = IF @ = <<>> THEN @ ELSE Tail(@)]
            /\ UNCHANGED waiting
    /\ UNCHANGED <<memberVars, cache, queue, otherRequests, call, historyVars>>

RunTakesAck(c) ==
    /\ Awaits(c)
    /\ got[<<c, "run">>] /= <<>>
    /\ RunTurns(c, run[c].need - 1)

(* Slip: a failed receive counts as an ack.                                *)
MissCounts(c) ==
    /\ Awaits(c)
    /\ NobodyAnswers(<<c, "run">>)
    /\ RunTurns(c, run[c].need - 1)

RunMissesAck(c) ==
    /\ Awaits(c)
    /\ NobodyAnswers(<<c, "run">>)
    /\ RunTurns(c, run[c].need)

(* The verdict of a run that the leader's own application has asked for is *)
(* thrown away, and the operation succeeds.                                *)
OwnRunEnds(c) ==
    /\ run[c].pc = "answer"
    /\ Pc(c) = "run"
    /\ run' = [run EXCEPT ![c].pc = "done"]
    /\ Goes(c, "ok")
    /\ UNCHANGED <<memberVars, requestVars, historyVars>>

-----------------------------------------------------------------------------
(* The stream task of m for n is given a write to run as leader.  It does  *)
(* not read on before the run has ended.  A remove ends it by a panic when *)
(* m does not lead; an insert is run by whoever it is sent to.             *)
RunsHere(m, r) ==
    r.is = "Insert" \/ view[m].role \in {"Leader", "LeaderSwitch"}

ServeWrite(n, m) ==
    /\ Reads(n, m, {"Insert", "Remove"})
    /\ view[m].quorum
    /\ LET r == Head(stream[n][m]) IN
       /\ serves' = [serves EXCEPT ![n][m] = r.call]
       /\ IF RunsHere(m, r)
          THEN /\ StartRun(r.call, m, call[r.call].level, view[m].hosts)
               /\ UNCHANGED answers
          ELSE /\ run' = [run EXCEPT ![r.call].pc = "panicked"]
               /\ answers' = Answered(n, m, Error)
    /\ UNCHANGED <<memberVars, cache, queue, saved, drained, behind, waiting,
                   got, failed, call, historyVars>>

RefuseWrite(n, m) ==
    /\ Reads(n, m, {"Insert", "Remove"})
    /\ ~view[m].quorum
    /\ answers' = Answered(n, m, Error)
    /\ UNCHANGED <<memberVars, cache, queue, serves, saved, drained, behind,
                   waiting, got, failed, opVars>>

(* The run is over: its verdict is the answer, if its stream still is there. *)
ServedRunEnds(c) ==
    /\ run[c].pc = "answer"
    /\ Pc(c) /= "run"
    /\ LET here == {n \in Node : serves[n][run[c].at] = c}
           ack  == ModAck(<<c, "mod">>, run[c].verdict = "true")
       IN  /\ answers' = [n \in Node |-> [m \in Node |->
                  IF n \in here /\ m = run[c].at
                  THEN Answered(n, m, ack)[n][m] ELSE answers[n][m]]]
           /\ serves' = [n \in Node |-> [m \in Node |->
                  IF n \in here /\ m = run[c].at THEN None ELSE serves[n][m]]]
    /\ run' = [run EXCEPT ![c].pc = "done"]
    /\ UNCHANGED <<memberVars, cache, queue, stream, saved, drained, behind,
                   waiting, got, failed, call, historyVars>>

ServeUpdate(n, m) ==
    /\ ServeMod(n, m)
    /\ stored' = [stored EXCEPT ![Head(stream[n][m]).call] = @ \cup {m}]
    /\ UNCHANGED <<call, run, heard>>

-----------------------------------------------------------------------------
(* The quorum handler publishes, and has the caches emptied with a quorum  *)
(* that is lost: what is sent to them from then on finds them empty.       *)
PublishView(n) ==
    /\ Fails("view")
    /\ \E v \in Views :
           /\ v /= view[n] /\ v.to /= n
           /\ Publishes(n, v)
           /\ cache' = [cache EXCEPT ![n] =
                  IF view[n].quorum /\ ~v.quorum THEN None ELSE @]
    /\ UNCHANGED <<queue, stream, serves, answers, saved, drained, behind,
                   waiting, got, opVars>>

Empty(n) == Empties(n) /\ UNCHANGED <<requestVars, opVars>>

CallsAt(n) == {c \in Call : At(c) = n /\ Pc(c) \notin Returned}
RunsAt(n)  == {c \in Call : run[c].at = n /\ run[c].pc \notin Finished}

Stop(n) ==
    /\ n \in Stopping
    /\ EndProcess(n, (CallsAt(n) \X {"get", "mod"}) \cup (RunsAt(n) \X {"run"}))
    /\ call' = [c \in Call |->
           IF c \in CallsAt(n) THEN [call[c] EXCEPT !.pc = "gone"] ELSE call[c]]
    /\ run' = [c \in Call |->
           IF c \in RunsAt(n) THEN [run[c] EXCEPT !.pc = "gone"] ELSE run[c]]
    /\ UNCHANGED <<historyVars>>

Start(n) == n \in Stopping /\ Starts(n) /\ UNCHANGED <<requestVars, opVars>>

-----------------------------------------------------------------------------
CallStep(c) ==
    \/ StoreHere(c) \/ SendAll(c)
    \/ Look(c) \/ Ask(c) \/ TakeAnswer(c)
    \/ Push(c) \/ TakeVerdict(c) \/ CallFails(c)

RunStep(c) ==
    \/ RunSends(c) \/ RunStores(c)
    \/ RunTakesAck(c) \/ RunMissesAck(c) \/ RunSucceeds(c)
    \/ OwnRunEnds(c) \/ ServedRunEnds(c)

ClientStep(n, m) ==
    /\ \/ Forward(n, m) \/ DeliverAnswer(n, m)
       \/ Connect(n, m) \/ OpenStream(n, m) \/ OpeningUnanswered(n, m)
       \/ Ends(n, m) \/ LeftBehindTakes(n, m)
    /\ UNCHANGED opVars

ServerStep(n, m) ==
    \/ ServeGet(n, m) /\ UNCHANGED opVars
    \/ ServeUpdate(n, m) \/ ServeWrite(n, m) \/ RefuseWrite(n, m)

Fault(n, m) ==
    /\ \/ Break(n, m) \/ LateAnswer(n, m) \/ LoseRest(n, m)
       \/ OpeningFails(n, m) \/ LeftBehindTakesOther(n, m)
    /\ UNCHANGED opVars

Next ==
    \/ \E c \in Call : BeginCall(c) \/ CallStep(c) \/ RunStep(c)
    \/ \E n, m \in Node : ClientStep(n, m) \/ ServerStep(n, m) \/ Fault(n, m)
    \/ \E n \in Node : PublishView(n) \/ Empty(n) \/ Stop(n) \/ Start(n)

Spec == Init /\ [][Next]_vars

(* The tasks of a running member go on, run_client reconnects for ever,    *)
(* and whoever starts the processes starts them again.  Applications, the  *)
(* quorum handler and faults act when they like, or not at all.            *)
Fairness ==
    /\ \A c \in Call : WF_vars(CallStep(c)) /\ WF_vars(RunStep(c))
    /\ \A n, m \in Node : WF_vars(ClientStep(n, m)) /\ WF_vars(ServerStep(n, m))
    /\ \A n \in Node : WF_vars(Empty(n)) /\ WF_vars(Start(n))

FairSpec == Spec /\ Fairness

-----------------------------------------------------------------------------
TypeOK == MembershipTypeOK /\ RequestsTypeOK /\ CacheOpsTypeOK

(* The writes that a leader has been asked to run, as AckedWrite sees them. *)
(* What the leader's own application is told is left out: cache_insert and  *)
(* cache_remove throw the verdict away (lib.rs:891).                    *)
Run(c) == run[c].pc \notin {"none", "panicked"}

ToldToCaller(c) ==
    IF call[c].op \notin {"insert", "remove"} \/ run[c].at = At(c) THEN "none"
    ELSE IF Pc(c) \in {"ok", "error"} THEN Pc(c) ELSE "none"

W == INSTANCE AckedWrite WITH
    Write <- Call, Member <- Node, Level <- {0, 1, Quorum},
    asked <- [c \in Call |-> IF Run(c) THEN Need(call[c].level) ELSE -1],
    holders <- [c \in Call |-> IF Run(c) THEN stored[c] ELSE {}],
    verdict <- [c \in Call |-> run[c].verdict],
    told <- [c \in Call |-> ToldToCaller(c)]

ImplementsAckedWrite == W!AckedSpec

(* Nothing is on its way, and every client that can be connected is.       *)
Settled ==
    /\ \A c \in Call : Pc(c) \in Returned \cup {"idle"}
                      /\ run[c].pc \in Finished
    /\ \A n, m \in Node :
           /\ stream[n][m] = <<>>
           /\ n /= m /\ up[n] /\ up[m] =>
                  conn[n][m] = "up" /\ queue[n][m] = <<>>

NoneFails(fs) == \A f \in fs : failed[f] = 0

OnlyLedWrites == \A c \in Call : call[c].op \notin {"put", "del"}

(* Writes that go through one leader reach all other members in the same   *)
(* order, as long as their streams hold: followers agree on the entry,     *)
(* however the runs at the leader are interleaved (cache_clients).         *)
FollowersAgree ==
    Settled /\ NoneFails({"break", "stop", "view"}) /\ OnlyLedWrites =>
        \A n, m \in Running \ {Lead} : cache[n] = cache[m]

(* A lookup reports that nobody has the entry only when it has heard from  *)
(* as many different hosts as were connected when it began, although       *)
(* lookups of one entry replace each other's senders and take each other's *)
(* answers (cache_get_value, get_cache).                                   *)
MissHeardFromAll ==
    NoneFails({"stop", "view"}) =>
        \A c \in Call :
            Pc(c) = "ok" /\ call[c].op = "get" /\ call[c].found = None
            => heard[c] = Running \ {At(c)}

NoDeletes == \A c \in Call : call[c].op \notin {"del", "remove"}

(* A caller whose insert the leader has acknowledged: its own insert, or   *)
(* one that the leader has run for it.                                     *)
Acked(c) == Pc(c) = "ok" /\ call[c].op = "insert"

(* The write has more holders than processes have stopped: the entry is    *)
(* still there at one of them.                                             *)
Survives(c) ==
    failed["stop"] <= Need(call[c].level) =>
        \E n \in stored[c] : up[n] /\ cache[n] /= None

(* A member that has asked the leader for an insert, and is told that it   *)
(* has been acknowledged, can rely on it: as long as no more processes     *)
(* stop than members have acknowledged it, the leader not counted, one of  *)
(* those that have carried it out runs and has the entry.  This is so      *)
(* although acks are lost, late or taken for missing, streams break, and   *)
(* the leader itself may stop (insert_from_leader, client.rs).             *)
AckedInsertsSurvive ==
    failed["view"] = 0 /\ NoDeletes =>
        \A c \in Call : Acked(c) /\ run[c].at /= At(c) => Survives(c)

Misses(c) == Pc(c) = "ok" /\ call[c].op = "get" /\ call[c].found = None

(* An answer that m does not have the entry is on its way to n.            *)
DenialUnderWay(n, m) ==
    \E i \in DOMAIN answers[n][m] : answers[n][m][i] = GetAck(None)

(* A lookup that begins when a member has the entry finds it, if no denial *)
(* of that member, to an earlier lookup, is on its way still: although     *)
(* streams may break, answers may be late, and lookups of one entry take   *)
(* each other's senders and answers (cache_get_value, client.rs).          *)
Finds(c) ==
    []( Pc(c) = "look" /\ (\E m \in Node :
            cache[m] /= None /\ ~DenialUnderWay(At(c), m))
        => []( NoneFails({"stop", "view"}) /\ NoDeletes => ~Misses(c) ) )

LookupsFind == \A c \in Call : Finds(c)

(* A caller waits for an answer whose sender is kept by a client that has  *)
(* thrown the request away when it connected (client.rs:263), or by tasks  *)
(* that a failed opening has left behind (client.rs:690).                  *)
Stranded == \E t \in waiting : Kept(t)

(* Nothing else makes a caller wait for ever while one member leads,        *)
(* although answers are lost with streams and processes, come too late or  *)
(* never, and a stream task that runs a write reads nothing else: in the   *)
(* end an answer comes, or the last sender is dropped (cache_get_value,    *)
(* insert_from_leader, run_client).                                        *)
OnlyStrandedWait ==
    \A c \in Call :
        <>[]Stranded \/ (Pc(c) /= "idle" ~> Pc(c) \in Returned)

-----------------------------------------------------------------------------
(* What the documents say, and the code does not always do.                *)

(* lib.rs:848, of cache_insert: "This makes Put's safe and conflict free." *)
CachesAgree ==
    Settled /\ NoneFails({"break", "stop", "view"}) /\ OnlyLedWrites =>
        \A n, m \in Running : cache[n] = cache[m]

(* README.md:40: a member that loses its connection invalidates its cache  *)
(* "to make 100% sure, that it would never provide possibly outdated data". *)
(* Two members with a quorum that both have the entry have the same one.   *)
NothingOutdated ==
    Settled =>
        \A n, m \in Running :
            \/ ~view[n].quorum \/ ~view[m].quorum
            \/ None \in {cache[n], cache[m]}
            \/ cache[n] = cache[m]

=============================================================================
