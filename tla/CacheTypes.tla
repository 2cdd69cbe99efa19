------------------------------ MODULE CacheTypes ------------------------------
(***************************************************************************)
(* The types of CacheOps, for every set of members and of calls, every     *)
(* bound and every offer.  They are not inductive alone: that a countdown  *)
(* of hosts does not go below zero, and that a lookup is given what an     *)
(* entry can hold, follows from how far a call is when it waits.           *)
(***************************************************************************)
EXTENDS CacheOps, FiniteSetTheorems, SequenceTheorems, TLAPS

Answer(values) == [from : Node, val : values]

(* A lookup is sent what entries hold, and a write is sent yes or no.      *)
GotTypeOK ==
    \A c \in Call :
        /\ got[<<c, "get">>] \in Seq(Answer(Call \cup {None}))
        /\ got[<<c, "mod">>] \in Seq(Answer(BOOLEAN))
        /\ got[<<c, "run">>] \in Seq(Answer(BOOLEAN))

(* Nothing is sent to a receiver that was dropped.                         *)
Listens == \A t \in Token : got[t] /= <<>> => t \in waiting

ModOps == {"insert", "remove"}

(* How far a call is, and whom it waits for.                               *)
CallFits(c) ==
    /\ Pc(c) /= "idle" => At(c) \in Node
    /\ run[c].pc \in {"send", "store", "await"} => run[c].at \in Node
    /\ Pc(c) \in {"look", "ask"} => call[c].op = "get" /\ call[c].left > 0
    /\ Pc(c) = "push" => call[c].op \in ModOps
    /\ <<c, "get">> \in waiting =>
           Pc(c) = "wait" /\ call[c].op = "get" /\ call[c].left > 0
    /\ <<c, "mod">> \in waiting => Pc(c) = "wait" /\ call[c].op \in ModOps

CallInv == \A c \in Call : CallFits(c)

TypeInv == TypeOK /\ GotTypeOK /\ Listens /\ CallInv

(* The expect()s of the cache operations hold of what is published: a       *)
(* lookup, which begins with a quorum only, has hosts to ask.              *)
ViewInv == \A n \in Node : Usable(view[n]) /\ view[n].to /= n

-----------------------------------------------------------------------------
CallRecord ==
    [pc : {"idle", "look", "ask", "store", "send", "run", "push", "wait"}
              \cup Returned,
     op : Operation, at : Node \cup {None}, level : AckLevel,
     to : Node \cup {None}, left : Nat, found : Call \cup {None}]

RunRecord ==
    [pc : {"send", "store", "await", "answer"} \cup Finished,
     at : Node \cup {None}, need : Nat, left : Nat,
     verdict : {"none", "true", "false"}]

OpsTypes(ca, ru, st, he) ==
    /\ ca \in [Call -> CallRecord] /\ ru \in [Call -> RunRecord]
    /\ st \in [Call -> SUBSET Node] /\ he \in [Call -> SUBSET Node]

LEMMA OpsTyped ==
    /\ CacheOpsTypeOK <=> OpsTypes(call, run, stored, heard)
    /\ CacheOpsTypeOK' <=> OpsTypes(call', run', stored', heard')
BY DEF CacheOpsTypeOK, OpsTypes, CallRecord, RunRecord

(* A step that changes fields of one record.                               *)
LEMMA CallFields ==
    ASSUME NEW r \in CallRecord,
           NEW pc \in {"ask", "send", "wait", "ok", "error", "gone"}
    PROVE  /\ [r EXCEPT !.pc = pc] \in CallRecord
           /\ \A v \in Call \cup {None} :
                  /\ [r EXCEPT !.pc = pc, !.found = v] \in CallRecord
                  /\ [r EXCEPT !.found = v, !.pc = pc] \in CallRecord
           /\ \A k \in Nat : [r EXCEPT !.left = k] \in CallRecord
BY DEF CallRecord, Returned

LEMMA RunFields ==
    ASSUME NEW r \in RunRecord,
           NEW pc \in {"store", "await", "answer", "done", "gone", "panicked"}
    PROVE  /\ [r EXCEPT !.pc = pc] \in RunRecord
           /\ \A v \in {"none", "true", "false"} :
                  /\ [r EXCEPT !.pc = pc, !.verdict = v] \in RunRecord
                  /\ \A k \in Nat :
                         [r EXCEPT !.pc = pc, !.need = k, !.verdict = v]
                             \in RunRecord
           /\ \A k, l \in Nat : [r EXCEPT !.need = k, !.left = l] \in RunRecord
BY DEF RunRecord, Finished

(* The helpers of Requests keep the types.                                 *)
LEMMA RequestFields ==
    ASSUME NEW r \in RpcRequest
    PROVE  /\ r.call \in Call
           /\ r.resp \in {"get", "run", "none", "mod"}
           /\ r.resp /= "none" => TokenOf(r) \in Token
           /\ r.is = "Get" => r.resp = "get"
           /\ r.is \in {"Put", "Del"} =>
                  TokenOf(r) \in Call \X {"mod", "run", "none"}
BY DEF RpcRequest, TokenOf, Token

LEMMA RequestMade ==
    ASSUME NEW c \in Call, NEW r \in {"run", "none"}
    PROVE  /\ {Get(c), Put(c, r), Del(c, r), Insert(c), Remove(c)}
                  \subseteq RpcRequest
           /\ Update(c, r) \in RpcRequest
BY DEF RpcRequest, Get, Put, Del, Insert, Remove, Update

LEMMA AckMade ==
    ASSUME NEW v \in Call \cup {None}, NEW b \in BOOLEAN,
           NEW t \in Call \X {"mod", "run", "none"}
    PROVE  {GetAck(v), ModAck(t, b), Error} \subseteq Ack
BY DEF GetAck, ModAck, Error, Ack

LEMMA QuorumPositive == Quorum \in Nat /\ Quorum >= 1
<1>1. Cardinality(Node) \in Nat /\ Cardinality(Node) >= 2
  BY MemberAssumption, FS_CardinalityType
<1> QED  BY <1>1 DEF Quorum

(* A GetAck has the value of an entry, a ModAck names a token.             *)
LEMMA AckFields ==
    ASSUME NEW a \in Ack, a /= Error
    PROVE  /\ a.is \in {"GetAck", "ModAck"}
           /\ a.is = "GetAck" => a.val \in Call \cup {None}
           /\ a.is = "ModAck" => a.val \in BOOLEAN
           /\ a.is = "ModAck" => a.token \in Call \X {"mod", "run", "none"}
BY DEF Ack, Error

LEMMA AppliedType ==
    ASSUME NEW m \in Node, NEW r \in RpcRequest
    PROVE  Applied(m, r) \in Call \cup {None}
BY RequestFields DEF Applied

(* Queues, streams and answers that one request or answer is added to.     *)
Table(S) == [Node -> [Node -> Seq(S)]]

LEMMA TableAppend ==
    ASSUME NEW S, NEW x \in Table(S), NEW n \in Node, NEW m \in Node, NEW r \in S
    PROVE  [x EXCEPT ![n][m] = Append(@, r)] \in Table(S)
<1>1. Append(x[n][m], r) \in Seq(S)
  BY AppendProperties DEF Table
<1> QED  BY <1>1 DEF Table

LEMMA TableTail ==
    ASSUME NEW S, NEW x \in Table(S), NEW n \in Node, NEW m \in Node,
           x[n][m] /= <<>>
    PROVE  /\ Head(x[n][m]) \in S
           /\ [x EXCEPT ![n][m] = Tail(@)] \in Table(S)
<1>1. Head(x[n][m]) \in S /\ Tail(x[n][m]) \in Seq(S)
  BY HeadTailProperties DEF Table
<1> QED  BY <1>1 DEF Table

LEMMA TableEmpty ==
    ASSUME NEW S, NEW x \in Table(S), NEW n \in Node, NEW m \in Node
    PROVE  /\ [x EXCEPT ![n][m] = <<>>] \in Table(S)
           /\ [x EXCEPT ![n] = [b \in Node |-> <<>>]] \in Table(S)
           /\ [a \in Node |-> [x[a] EXCEPT ![n] = <<>>]] \in Table(S)
           /\ NoRequests \in Table(S)
BY EmptySeq DEF Table, NoRequests

(* What is left of a sequence without its i-th element.                    *)
LEMMA OneLess ==
    ASSUME NEW S, NEW s \in Seq(S), NEW i \in DOMAIN s
    PROVE  SubSeq(s, 1, i - 1) \o SubSeq(s, i + 1, Len(s)) \in Seq(S)
<1>1. Len(s) \in Nat /\ i \in 1 .. Len(s)
  BY LenProperties
<1>2. /\ i - 1 \in Nat /\ i + 1 \in Nat
      /\ \A j \in 1 .. i - 1 : s[j] \in S
      /\ \A j \in i + 1 .. Len(s) : s[j] \in S
  BY <1>1, ElementOfSeq
<1>3. /\ SubSeq(s, 1, i - 1) \in Seq(S)
      /\ SubSeq(s, i + 1, Len(s)) \in Seq(S)
  BY <1>1, <1>2, SubSeqProperties
<1> QED  BY <1>3, ConcatProperties

LEMMA BroadcastType ==
    ASSUME queue \in Table(RpcRequest), NEW n \in Node, NEW r \in RpcRequest,
           Broadcast(n, r)
    PROVE  queue' \in Table(RpcRequest)
<1>1. \A m \in Node : Append(queue[n][m], r) \in Seq(RpcRequest)
  BY AppendProperties DEF Table
<1> QED  BY <1>1 DEF Broadcast, Enqueue, Table

LEMMA SendToType ==
    ASSUME queue \in Table(RpcRequest), NEW n \in Node, NEW m, NEW r \in RpcRequest,
           SendTo(n, m, r)
    PROVE  queue' \in Table(RpcRequest)
<1>1. CASE m \in Node
  BY <1>1, TableAppend DEF SendTo, Enqueue
<1>2. CASE m \notin Node
  BY <1>2 DEF SendTo, Enqueue, Table
<1> QED  BY <1>1, <1>2

LEMMA AnsweredType ==
    ASSUME answers \in Table(Ack), NEW n \in Node, NEW m \in Node, NEW a \in Ack
    PROVE  Answered(n, m, a) \in Table(Ack)
<1>1. Append(answers[n][m], a) \in Seq(Ack)
  BY AppendProperties DEF Table
<1> QED  BY <1>1 DEF Answered, Table

LEMMA FailsType ==
    ASSUME NEW f, failed \in [Failure -> Nat], Fails(f)
    PROVE  failed' \in [Failure -> Nat]
<1>1. failed' = [failed EXCEPT ![f] = failed[f] + 1] /\ f \in Failure
  BY RequestBounds DEF Fails
<1>2. failed[f] + 1 \in Nat
  BY <1>1
<1> QED  BY <1>1, <1>2

(* What the receivers have been sent, and who still listens.               *)
GotInv == got \in [Token -> Seq(Answer(Call \cup {None} \cup BOOLEAN))]
          /\ GotTypeOK /\ Listens /\ waiting \in SUBSET Token

LEMMA DropKeeps ==
    ASSUME GotInv, NEW ts, Drop(ts)
    PROVE  GotInv' /\ waiting' \subseteq waiting /\ waiting' \cap ts = {}
<1>1. \A t \in Token : got'[t] = IF t \in ts THEN <<>> ELSE got[t]
  BY DEF Drop
<1>2. got' \in [Token -> Seq(Answer(Call \cup {None} \cup BOOLEAN))]
  BY EmptySeq DEF Drop, GotInv
<1>3. GotTypeOK'
  BY <1>1, EmptySeq DEF GotTypeOK, GotInv, Token
<1>4. Listens'
  BY <1>1 DEF Listens, GotInv, Drop
<1> QED  BY <1>2, <1>3, <1>4 DEF GotInv, Drop

LEMMA TakeKeeps ==
    ASSUME GotInv, NEW t \in Token, UNCHANGED waiting,
           got' = [got EXCEPT ![t] = IF @ = <<>> THEN @ ELSE Tail(@)]
    PROVE  GotInv'
<1>1. \A s \in Token : got'[s] =
          IF s = t /\ got[t] /= <<>> THEN Tail(got[t]) ELSE got[s]
  BY DEF GotInv
<1>2. ASSUME NEW S, got[t] \in Seq(S), got[t] /= <<>>
      PROVE  Tail(got[t]) \in Seq(S)
  BY <1>2, HeadTailProperties
<1>3. got' \in [Token -> Seq(Answer(Call \cup {None} \cup BOOLEAN))]
  BY <1>2 DEF GotInv
<1>4. GotTypeOK'
  BY <1>1, <1>2 DEF GotTypeOK, GotInv, Token
<1>5. Listens'
  BY <1>1 DEF Listens, GotInv
<1> QED  BY <1>3, <1>4, <1>5 DEF GotInv

LEMMA ListenKeeps ==
    ASSUME GotInv, NEW t \in Token, UNCHANGED got, waiting' = waiting \cup {t}
    PROVE  GotInv'
BY DEF GotInv, GotTypeOK, Listens

(* An answer goes to those it is meant for, and is what they can be sent.  *)
LEMMA DeliverKeeps ==
    ASSUME GotInv, saved \in [Node -> [Node -> SUBSET Token]],
           NEW n \in Node, NEW m \in Node, NEW a \in Ack, a /= Error,
           UNCHANGED waiting,
           got' = [t \in Token |->
               IF t \in Meant(n, m, a) \cap waiting
               THEN Append(got[t], [from |-> m, val |-> a.val]) ELSE got[t]]
    PROVE  GotInv'
<1> DEFINE e == [from |-> m, val |-> a.val]
<1>1. \A t \in Token : got'[t] =
          IF t \in Meant(n, m, a) \cap waiting THEN Append(got[t], e) ELSE got[t]
  OBVIOUS
<1>2. ASSUME NEW S, NEW s \in Seq(S), e \in S
      PROVE  Append(s, e) \in Seq(S) /\ Append(s, e) /= <<>>
  BY <1>2, AppendProperties
<1>3. /\ a.is = "GetAck" => e \in Answer(Call \cup {None})
      /\ a.is = "ModAck" => e \in Answer(BOOLEAN)
      /\ e \in Answer(Call \cup {None} \cup BOOLEAN)
  BY AckFields DEF Answer
<1>4. \A c \in Call :
          /\ <<c, "get">> \in Meant(n, m, a) => a.is = "GetAck"
          /\ <<c, "mod">> \in Meant(n, m, a) => a.is = "ModAck"
          /\ <<c, "run">> \in Meant(n, m, a) => a.is = "ModAck"
  <2>1. CASE a.is = "GetAck"
    BY <2>1 DEF Meant, Lookups
  <2>2. CASE a.is = "ModAck"
    BY <2>2, AckFields DEF Meant, Token
  <2> QED  BY <2>1, <2>2, AckFields
<1> HIDE DEF e
<1>5. got' \in [Token -> Seq(Answer(Call \cup {None} \cup BOOLEAN))]
  <2>1. ASSUME NEW t \in Token
        PROVE  got'[t] \in Seq(Answer(Call \cup {None} \cup BOOLEAN))
    BY <1>1, <1>2, <1>3 DEF GotInv
  <2> QED  BY <2>1
<1>6. GotTypeOK'
  <2>1. ASSUME NEW c \in Call
        PROVE  /\ <<c, "get">> \in Token
               /\ <<c, "mod">> \in Token
               /\ <<c, "run">> \in Token
    BY DEF Token
  <2>2. ASSUME NEW c \in Call
        PROVE  got'[<<c, "get">>] \in Seq(Answer(Call \cup {None}))
    BY <1>1, <1>2, <1>3, <1>4, <2>1 DEF GotInv, GotTypeOK
  <2>3. ASSUME NEW c \in Call
        PROVE  got'[<<c, "mod">>] \in Seq(Answer(BOOLEAN))
    BY <1>1, <1>2, <1>3, <1>4, <2>1 DEF GotInv, GotTypeOK
  <2>4. ASSUME NEW c \in Call
        PROVE  got'[<<c, "run">>] \in Seq(Answer(BOOLEAN))
    BY <1>1, <1>2, <1>3, <1>4, <2>1 DEF GotInv, GotTypeOK
  <2> QED  BY <2>2, <2>3, <2>4 DEF GotTypeOK
<1>7. Listens'
  BY <1>1 DEF Listens, GotInv
<1> QED  BY <1>5, <1>6, <1>7 DEF GotInv

(* What the members hold and the streams.                                  *)
LEMMA MembershipTypes ==
    ASSUME MembershipTypeOK, NEW n \in Node,
           \/ \E m \in Node : Connects(n, m) \/ Opens(n, m) \/ Breaks(n, m)
           \/ \E v \in View : Publishes(n, v)
           \/ Empties(n) \/ Stops(n) \/ Starts(n)
           \/ UNCHANGED memberVars
    PROVE  MembershipTypeOK'
<1> USE DEF MembershipTypeOK
<1>1. ASSUME NEW m \in Node, Connects(n, m) \/ Opens(n, m) \/ Breaks(n, m)
      PROVE  MembershipTypeOK'
  <2>1. PICK k \in {"connected", "up", "down"} : conn' = [conn EXCEPT ![n][m] = k]
    BY <1>1 DEF Connects, Opens, Breaks
  <2>2. UNCHANGED <<up, view, resets>>
    BY <1>1 DEF Connects, Opens, Breaks
  <2> QED  BY <2>1, <2>2 DEF Client
<1>2. ASSUME NEW v \in View, Publishes(n, v)
      PROVE  MembershipTypeOK'
  BY <1>2 DEF Publishes
<1>3. CASE Empties(n)
  BY <1>3 DEF Empties
<1>4. CASE Stops(n)
  <2>1. PICK unaware \in SUBSET (Node \ {n}) : conn' = ConnWithout(n, unaware)
    BY <1>4 DEF Stops
  <2>2. conn' \in [Node -> [Node -> Client]]
    BY <2>1 DEF ConnWithout, Client
  <2>3. DefaultView \in View
    BY DEF View, DefaultView, Role
  <2> QED  BY <1>4, <2>2, <2>3 DEF Stops
<1>5. CASE Starts(n)
  BY <1>5 DEF Starts
<1>6. CASE UNCHANGED memberVars
  BY <1>6 DEF memberVars
<1> QED  BY <1>1, <1>2, <1>3, <1>4, <1>5, <1>6

-----------------------------------------------------------------------------
(* The invariant in parts that the steps keep one by one.                  *)
Wires ==
    /\ cache \in [Node -> Call \cup {None}]
    /\ queue \in Table(RpcRequest)
    /\ stream \in Table(RpcRequest)
    /\ serves \in [Node -> [Node -> Call \cup {None}]]
    /\ answers \in Table(Ack)
    /\ saved \in [Node -> [Node -> SUBSET Token]]
    /\ drained \in [Node -> [Node -> SUBSET Token]]
    /\ behind \in Table(SUBSET Token)
    /\ failed \in [Failure -> Nat]

LEMMA TypeParts ==
    /\ TypeInv <=>
           MembershipTypeOK /\ Wires /\ GotInv /\ CacheOpsTypeOK /\ CallInv
    /\ TypeInv' <=>
           MembershipTypeOK' /\ Wires' /\ GotInv' /\ CacheOpsTypeOK' /\ CallInv'
BY DEF TypeInv, TypeOK, RequestsTypeOK, Wires, GotInv, Table, Answer

LEMMA TypesStay ==
    ASSUME TypeInv, UNCHANGED vars
    PROVE  TypeInv'
BY DEF TypeInv, TypeOK, MembershipTypeOK, RequestsTypeOK, CacheOpsTypeOK,
       GotTypeOK, Listens, CallInv, CallFits, At, Pc, vars, memberVars,
       requestVars, opVars, historyVars

-----------------------------------------------------------------------------
(* The steps of a call.                                                    *)
LEMMA BeginTypes ==
    ASSUME TypeInv, ViewInv, NEW c \in Call, BeginCall(c)
    PROVE  TypeInv'
<1>0. MembershipTypeOK /\ Wires /\ GotInv /\ CacheOpsTypeOK /\ CallInv
  BY TypeParts
<1>1. MembershipTypeOK' /\ Wires' /\ GotInv'
  BY <1>0 DEF BeginCall, memberVars, requestVars, MembershipTypeOK, Wires, GotInv,
     GotTypeOK, Listens
<1>2. PICK o \in Offer[c] : LET v  == view[o.at]
                                pc == BeginsWith(o, v)
                            IN  /\ Begin(c, o, pc, v.hosts)
                                /\ IF pc = "run"
                                   THEN StartRun(c, o.at, o.level, v.hosts)
                                   ELSE UNCHANGED run
  BY DEF BeginCall
<1>3. o \in [op : Operation, at : Node, level : AckLevel]
  BY OfferAssumption
<1>4. view[o.at].hosts \in Nat /\ view[o.at].to \in Node \cup {None}
      /\ (view[o.at].quorum => view[o.at].hosts > 0)
  <2>1. view[o.at] \in View /\ Usable(view[o.at])
    BY <1>0, <1>3 DEF MembershipTypeOK, ViewInv
  <2> QED  BY <2>1, QuorumPositive DEF View, Usable
<1>5. BeginsWith(o, view[o.at]) \in {"look", "store", "error", "run", "push"}
  BY <1>3 DEF BeginsWith, GetBegins, PutBegins, WriteBegins, Operation
<1>6. /\ BeginsWith(o, view[o.at]) = "look" => o.op = "get" /\ view[o.at].quorum
      /\ BeginsWith(o, view[o.at]) = "push" => o.op \in ModOps
  BY <1>3 DEF BeginsWith, GetBegins, PutBegins, WriteBegins, Operation, ModOps
<1>7. Need(o.level) \in Nat
  BY <1>3, QuorumPositive DEF Need
<1>8. /\ call' = [call EXCEPT ![c] =
             [pc |-> BeginsWith(o, view[o.at]), op |-> o.op, at |-> o.at,
              level |-> o.level, to |-> view[o.at].to,
              left |-> view[o.at].hosts, found |-> None]]
      /\ IF BeginsWith(o, view[o.at]) = "run"
         THEN run' = [run EXCEPT ![c] =
             [pc |-> "send", at |-> o.at, need |-> Need(o.level),
              left |-> view[o.at].hosts, verdict |-> "none"]]
         ELSE UNCHANGED run
      /\ UNCHANGED <<stored, heard, waiting>> /\ Pc(c) = "idle"
  BY <1>2 DEF Begin, StartRun, BeginCall, requestVars, historyVars
<1> DEFINE pc == BeginsWith(o, view[o.at])
           k  == view[o.at].hosts
           cr == [pc |-> pc, op |-> o.op, at |-> o.at, level |-> o.level,
                  to |-> view[o.at].to, left |-> k, found |-> None]
           rr == [pc |-> "send", at |-> o.at, need |-> Need(o.level),
                  left |-> k, verdict |-> "none"]
<1>10. /\ cr \in CallRecord /\ rr \in RunRecord
       /\ cr.pc = pc /\ cr.op = o.op /\ cr.at = o.at /\ rr.at = o.at
       /\ cr.left = k /\ o.at \in Node
  BY <1>3, <1>4, <1>5, <1>7 DEF CallRecord, RunRecord, Returned
<1>11. /\ call' = [call EXCEPT ![c] = cr]
       /\ run' = [run EXCEPT ![c] = rr] \/ UNCHANGED run
  BY <1>8
<1>12. /\ pc \in {"look", "store", "error", "run", "push"}
       /\ pc = "look" => o.op = "get" /\ k > 0
       /\ pc = "push" => o.op \in ModOps
  BY <1>4, <1>5, <1>6
<1> HIDE DEF cr, rr, pc, k
<1>13. call \in [Call -> CallRecord] /\ run \in [Call -> RunRecord]
  BY <1>0, OpsTyped DEF OpsTypes
<1>14. OpsTypes(call', run', stored', heard')
  BY <1>0, <1>8, <1>10, <1>11, OpsTyped DEF OpsTypes
<1>9. CallInv'
  <2>1. ASSUME NEW d \in Call, d /= c
        PROVE  CallFits(d)'
    BY <1>0, <1>8, <1>11, <1>13, <2>1 DEF CallInv, CallFits, Pc, At
  <2>2. call'[c] = cr /\ (run'[c] = rr \/ run'[c] = run[c])
    BY <1>11, <1>13
  <2>3. CallFits(c)'
    BY <1>0, <1>8, <1>10, <1>12, <2>2 DEF CallInv, CallFits, Pc, At
  <2> QED  BY <2>1, <2>3 DEF CallInv
<1> QED  BY <1>1, <1>9, <1>14, OpsTyped, TypeParts

(* A step that changes one call, and what it waits for.                    *)
LEMMA CallChanges ==
    ASSUME CacheOpsTypeOK, CallInv, NEW c \in Call, NEW r \in CallRecord,
           call' = [call EXCEPT ![c] = r], UNCHANGED run,
           stored' \in [Call -> SUBSET Node], heard' \in [Call -> SUBSET Node],
           waiting' \subseteq waiting \cup {<<c, "get">>, <<c, "mod">>},
           r.at \in Node,
           r.pc \in {"look", "ask"} => r.op = "get" /\ r.left > 0,
           r.pc = "push" => r.op \in ModOps,
           <<c, "get">> \in waiting' =>
               r.pc = "wait" /\ r.op = "get" /\ r.left > 0,
           <<c, "mod">> \in waiting' => r.pc = "wait" /\ r.op \in ModOps
    PROVE  CacheOpsTypeOK' /\ CallInv'
<1>1. call \in [Call -> CallRecord] /\ run \in [Call -> RunRecord]
  BY OpsTyped DEF OpsTypes
<1>2. call' \in [Call -> CallRecord]
      /\ \A d \in Call : call'[d] = IF d = c THEN r ELSE call[d]
  BY <1>1
<1>3. CacheOpsTypeOK'
  BY <1>1, <1>2, OpsTyped DEF OpsTypes
<1>4. ASSUME NEW d \in Call, d /= c
      PROVE  CallFits(d)'
  BY <1>2, <1>4 DEF CallInv, CallFits, Pc, At
<1>5. CallFits(c)'
  BY <1>2 DEF CallInv, CallFits, Pc, At
<1> QED  BY <1>3, <1>4, <1>5 DEF CallInv

(* A step that changes one run.                                            *)
LEMMA RunChanges ==
    ASSUME CacheOpsTypeOK, CallInv, NEW c \in Call, NEW r \in RunRecord,
           run' = [run EXCEPT ![c] = r], UNCHANGED call,
           stored' \in [Call -> SUBSET Node], heard' \in [Call -> SUBSET Node],
           waiting' \subseteq waiting \cup {<<c, "run">>},
           r.pc \in {"send", "store", "await"} => r.at \in Node
    PROVE  CacheOpsTypeOK' /\ CallInv'
<1>1. call \in [Call -> CallRecord] /\ run \in [Call -> RunRecord]
  BY OpsTyped DEF OpsTypes
<1>2. run' \in [Call -> RunRecord]
      /\ \A d \in Call : run'[d] = IF d = c THEN r ELSE run[d]
  BY <1>1
<1>3. CacheOpsTypeOK'
  BY <1>1, <1>2, OpsTyped DEF OpsTypes
<1>4. CallInv'
  BY <1>2 DEF CallInv, CallFits, Pc, At
<1> QED  BY <1>3, <1>4

(* Only the place of a call changes.                                       *)
LEMMA GoesTypes ==
    ASSUME CacheOpsTypeOK, CallInv, NEW c \in Call, UNCHANGED <<run, heard>>,
           stored' \in [Call -> SUBSET Node],
           Pc(c) /= "idle",
           NEW pc \in {"send", "wait", "ok", "error"}, Goes(c, pc),
           waiting' \subseteq waiting \cup {<<c, "get">>, <<c, "mod">>},
           <<c, "get">> \in waiting' =>
               pc = "wait" /\ call[c].op = "get" /\ call[c].left > 0,
           <<c, "mod">> \in waiting' => pc = "wait" /\ call[c].op \in ModOps
    PROVE  CacheOpsTypeOK' /\ CallInv'
<1> DEFINE r == [call[c] EXCEPT !.pc = pc]
<1>1. call \in [Call -> CallRecord] /\ heard \in [Call -> SUBSET Node]
  BY OpsTyped DEF OpsTypes
<1>2. r \in CallRecord /\ r.pc = pc /\ r.op = call[c].op
      /\ r.left = call[c].left /\ r.at = At(c)
  <2>1. call[c] \in CallRecord
    BY <1>1
  <2>2. r \in CallRecord
    BY <2>1, CallFields
  <2> QED  BY <2>1, <2>2 DEF CallRecord, At
<1>3. call' = [call EXCEPT ![c] = r]
  BY <1>1 DEF Goes
<1>4. At(c) \in Node
  BY DEF CallInv, CallFits
<1> HIDE DEF r
<1> QED  BY <1>1, <1>2, <1>3, <1>4, CallChanges

LEMMA CarryTypes ==
    ASSUME Wires, CacheOpsTypeOK, NEW c \in Call, NEW n \in Node, Carry(n, c)
    PROVE  /\ cache' \in [Node -> Call \cup {None}]
           /\ stored' \in [Call -> SUBSET Node]
<1>1. Applied(n, Update(c, "none")) \in Call \cup {None}
  BY RequestMade, AppliedType
<1> QED  BY <1>1 DEF Wires, CacheOpsTypeOK, Carry

LEMMA StoreHereTypes ==
    ASSUME TypeInv, NEW c \in Call, StoreHere(c)
    PROVE  TypeInv'
<1>0. MembershipTypeOK /\ Wires /\ GotInv /\ CacheOpsTypeOK /\ CallInv
  BY TypeParts
<1>1. At(c) \in Node
  BY <1>0 DEF StoreHere, CallInv, CallFits
<1>2. /\ cache' \in [Node -> Call \cup {None}]
      /\ stored' \in [Call -> SUBSET Node]
  BY <1>0, <1>1, CarryTypes DEF StoreHere
<1>3. MembershipTypeOK' /\ Wires' /\ GotInv'
  BY <1>0, <1>2 DEF StoreHere, otherRequests, memberVars, MembershipTypeOK, Wires,
     GotInv, GotTypeOK, Listens
<1>4. Goes(c, "send")
  BY DEF StoreHere
<1>5. UNCHANGED <<waiting, run, heard>> /\ Pc(c) = "store"
  BY DEF StoreHere
<1>6. <<c, "get">> \notin waiting /\ <<c, "mod">> \notin waiting
  BY <1>0, <1>5 DEF CallInv, CallFits
<1>7. CacheOpsTypeOK' /\ CallInv'
  BY <1>0, <1>2, <1>4, <1>5, <1>6, GoesTypes
<1> QED  BY <1>3, <1>7, TypeParts

LEMMA SendAllTypes ==
    ASSUME TypeInv, NEW c \in Call, SendAll(c)
    PROVE  TypeInv'
<1>0. MembershipTypeOK /\ Wires /\ GotInv /\ CacheOpsTypeOK /\ CallInv
  BY TypeParts
<1>1. At(c) \in Node
  BY <1>0 DEF SendAll, CallInv, CallFits
<1>2. queue' \in Table(RpcRequest)
  BY <1>0, <1>1, RequestMade, BroadcastType DEF SendAll, Wires
<1>3. MembershipTypeOK' /\ Wires' /\ GotInv'
  BY <1>0, <1>2 DEF SendAll, otherRequests, memberVars, MembershipTypeOK, Wires,
     GotInv, GotTypeOK, Listens
<1>4. /\ CacheOpsTypeOK /\ CallInv /\ UNCHANGED <<run, stored, heard, waiting>>
      /\ Pc(c) = "send" /\ Goes(c, "ok")
  BY <1>0 DEF SendAll, historyVars
<1>5. stored' \in [Call -> SUBSET Node]
  BY <1>4 DEF CacheOpsTypeOK
<1>6. <<c, "get">> \notin waiting /\ <<c, "mod">> \notin waiting
  BY <1>4 DEF CallInv, CallFits
<1>7. CacheOpsTypeOK' /\ CallInv'
  BY <1>4, <1>5, <1>6, GoesTypes
<1> QED  BY <1>3, <1>7, TypeParts

LEMMA LookTypes ==
    ASSUME TypeInv, NEW c \in Call, Look(c)
    PROVE  TypeInv'
<1>0. MembershipTypeOK /\ Wires /\ GotInv /\ CacheOpsTypeOK /\ CallInv
  BY TypeParts
<1>1. UNCHANGED <<memberVars, requestVars>> /\ UNCHANGED <<run, stored, heard>>
      /\ Pc(c) = "look"
  BY DEF Look, historyVars
<1>2. MembershipTypeOK' /\ Wires' /\ GotInv' /\ UNCHANGED waiting
  BY <1>0, <1>1 DEF memberVars, requestVars, MembershipTypeOK, Wires,
     GotInv, GotTypeOK, Listens
<1>3. At(c) \in Node
  BY <1>0, <1>1 DEF CallInv, CallFits
<1>4. PICK v \in Call \cup {None}, pc \in {"ask", "ok"} :
          call' = [call EXCEPT ![c].found = v, ![c].pc = pc]
  BY <1>0, <1>3 DEF Look, Wires
<1> DEFINE r == [call[c] EXCEPT !.found = v, !.pc = pc]
<1>5. call \in [Call -> CallRecord]
      /\ stored \in [Call -> SUBSET Node] /\ heard \in [Call -> SUBSET Node]
  BY <1>0, OpsTyped DEF OpsTypes
<1>6. r \in CallRecord /\ r.pc = pc /\ r.op = call[c].op
      /\ r.left = call[c].left /\ r.at = At(c)
  <2>1. call[c] \in CallRecord
    BY <1>5
  <2>2. r \in CallRecord
    BY <2>1, CallFields
  <2> QED  BY <2>1, <2>2 DEF CallRecord, At
<1>7. call' = [call EXCEPT ![c] = r]
  BY <1>4, <1>5
<1> HIDE DEF r
<1>8. call[c].op = "get" /\ call[c].left > 0
      /\ <<c, "get">> \notin waiting /\ <<c, "mod">> \notin waiting
  BY <1>0, <1>1 DEF CallInv, CallFits
<1>9. /\ UNCHANGED run
      /\ stored' \in [Call -> SUBSET Node] /\ heard' \in [Call -> SUBSET Node]
      /\ r.pc \in {"ask", "ok"} /\ r.at \in Node
      /\ r.op = "get" /\ r.left > 0
      /\ waiting' \subseteq waiting \cup {<<c, "get">>, <<c, "mod">>}
      /\ <<c, "get">> \notin waiting' /\ <<c, "mod">> \notin waiting'
  BY <1>1, <1>2, <1>3, <1>4, <1>5, <1>6, <1>8
<1>10. CacheOpsTypeOK' /\ CallInv'
  BY <1>0, <1>6, <1>7, <1>9, CallChanges
<1> QED  BY <1>2, <1>10, TypeParts

(* Who asks others waits for their answers with one receiver.              *)
LEMMA AskTypes ==
    ASSUME TypeInv, NEW c \in Call, Ask(c) \/ Push(c)
    PROVE  TypeInv'
<1>0. MembershipTypeOK /\ Wires /\ GotInv /\ CacheOpsTypeOK /\ CallInv
  BY TypeParts
<1>1. At(c) \in Node
  BY <1>0 DEF Ask, Push, CallInv, CallFits
<1>2. queue' \in Table(RpcRequest)
  <2>1. CASE Ask(c)
    BY <1>0, <1>1, <2>1, RequestMade, BroadcastType DEF Ask, Wires
  <2>2. CASE Push(c)
    BY <1>0, <1>1, <2>2, RequestMade, SendToType DEF Push, Wires
  <2> QED  BY <2>1, <2>2
<1>3. /\ UNCHANGED <<memberVars, cache, otherRequests, got>>
      /\ UNCHANGED <<run, stored, heard>> /\ Pc(c) /= "idle" /\ Goes(c, "wait")
  BY DEF Ask, Push, historyVars
<1>4. MembershipTypeOK' /\ Wires'
  BY <1>0, <1>2, <1>3 DEF otherRequests, memberVars, MembershipTypeOK, Wires
<1>5. /\ Ask(c) => /\ waiting' = waiting \cup {<<c, "get">>}
                   /\ call[c].op = "get" /\ call[c].left > 0
      /\ Push(c) => waiting' = waiting \cup {<<c, "mod">>} /\ call[c].op \in ModOps
  BY <1>0 DEF Ask, Push, CallInv, CallFits
<1>6. GotInv'
  BY <1>0, <1>3, <1>5, ListenKeeps DEF Token
<1>7. <<c, "get">> \notin waiting /\ <<c, "mod">> \notin waiting
  BY <1>0 DEF CallInv, CallFits, Ask, Push
<1>8. /\ waiting' \subseteq waiting \cup {<<c, "get">>, <<c, "mod">>}
      /\ <<c, "get">> \in waiting' => call[c].op = "get" /\ call[c].left > 0
      /\ <<c, "mod">> \in waiting' => call[c].op \in ModOps
  BY <1>5, <1>7
<1>9. stored' \in [Call -> SUBSET Node]
  BY <1>0, <1>3 DEF CacheOpsTypeOK
<1>10. CacheOpsTypeOK' /\ CallInv'
  BY <1>0, <1>3, <1>8, <1>9, GoesTypes
<1> QED  BY <1>4, <1>6, <1>10, TypeParts

(* The token of a receiver that has something is one that still waits.     *)
LEMMA TakeAnswerTypes ==
    ASSUME TypeInv, NEW c \in Call, TakeAnswer(c)
    PROVE  TypeInv'
<1> DEFINE t == <<c, "get">>
<1>0. MembershipTypeOK /\ Wires /\ GotInv /\ CacheOpsTypeOK /\ CallInv
  BY TypeParts
<1>1. /\ UNCHANGED <<memberVars, cache, queue, otherRequests, run, stored>>
      /\ heard' = [heard EXCEPT ![c] = @ \cup {Head(got[t]).from}]
      /\ got[t] /= <<>> /\ Pc(c) = "wait" /\ t \in Token
  BY DEF TakeAnswer, Token
<1>2. MembershipTypeOK' /\ Wires'
  BY <1>0, <1>1 DEF otherRequests, memberVars, MembershipTypeOK, Wires
<1>3. Head(got[t]) \in Answer(Call \cup {None})
  BY <1>0, <1>1, HeadTailProperties DEF GotInv, GotTypeOK
<1>4. call \in [Call -> CallRecord] /\ heard \in [Call -> SUBSET Node]
      /\ stored \in [Call -> SUBSET Node]
  BY <1>0, OpsTyped DEF OpsTypes
<1>5. heard' \in [Call -> SUBSET Node] /\ stored' \in [Call -> SUBSET Node]
  BY <1>1, <1>3, <1>4 DEF Answer
<1>6. t \in waiting /\ call[c].op = "get" /\ call[c].left > 0
      /\ <<c, "mod">> \notin waiting /\ At(c) \in Node /\ call[c].left \in Nat
  BY <1>0, <1>1, <1>4 DEF CallInv, CallFits, GotInv, Listens, CallRecord, ModOps
<1>7. ASSUME NEW r \in CallRecord, call' = [call EXCEPT ![c] = r],
             r.at = At(c), r.op = "get",
             \/ r.pc = "ok" /\ waiting' = waiting \ {t}
             \/ r.pc = "wait" /\ waiting' = waiting /\ r.left > 0
      PROVE  CacheOpsTypeOK' /\ CallInv'
  <2>1. /\ UNCHANGED run /\ r.at \in Node /\ r.pc \in {"ok", "wait"}
        /\ waiting' \subseteq waiting \cup {t, <<c, "mod">>}
        /\ <<c, "mod">> \notin waiting'
        /\ t \in waiting' => r.pc = "wait" /\ r.left > 0
    BY <1>1, <1>6, <1>7
  <2> QED  BY <1>0, <1>5, <1>7, <2>1, CallChanges
<1>8. PICK v \in Call \cup {None} :
          \/ /\ call' = [call EXCEPT ![c].pc = "ok", ![c].found = v]
             /\ Drop({t})
          \/ /\ call' = [call EXCEPT ![c].left = @ - 1] /\ call[c].left /= 1
             /\ got' = [got EXCEPT ![t] = Tail(@)]
             /\ UNCHANGED waiting
  BY <1>3 DEF TakeAnswer, Answer, LastAnswer
<1>9. CASE /\ call' = [call EXCEPT ![c].pc = "ok", ![c].found = v]
           /\ Drop({t})
  <2> DEFINE r == [call[c] EXCEPT !.pc = "ok", !.found = v]
  <2>1. GotInv' /\ waiting' = waiting \ {t}
    BY <1>0, <1>9, DropKeeps DEF Drop
  <2>2. r \in CallRecord
    BY <1>4, CallFields
  <2>3. r.at = At(c) /\ r.op = "get" /\ r.pc = "ok"
    BY <1>4, <1>6 DEF CallRecord, At
  <2>4. call' = [call EXCEPT ![c] = r]
    BY <1>4, <1>9
  <2> HIDE DEF r
  <2>5. CacheOpsTypeOK' /\ CallInv'
    BY <1>7, <2>1, <2>2, <2>3, <2>4
  <2> QED  BY <1>2, <2>1, <2>5, TypeParts
<1>10. CASE /\ call' = [call EXCEPT ![c].left = @ - 1] /\ call[c].left /= 1
            /\ got' = [got EXCEPT ![t] = Tail(@)]
            /\ UNCHANGED waiting
  <2> DEFINE r == [call[c] EXCEPT !.left = call[c].left - 1]
  <2>1. got' = [got EXCEPT ![t] = IF @ = <<>> THEN @ ELSE Tail(@)]
    BY <1>1, <1>10
  <2>2. GotInv'
    BY <1>0, <1>1, <1>10, <2>1, TakeKeeps
  <2>3. call[c].left - 1 \in Nat /\ call[c].left - 1 > 0
    BY <1>6, <1>10
  <2>4. r \in CallRecord
    BY <1>4, <2>3, CallFields
  <2>5. r.at = At(c) /\ r.op = "get" /\ r.pc = "wait" /\ r.left > 0
    BY <1>1, <1>4, <1>6, <2>3 DEF CallRecord, At, Pc
  <2>6. call' = [call EXCEPT ![c] = r]
    BY <1>4, <1>10
  <2> HIDE DEF r
  <2>7. CacheOpsTypeOK' /\ CallInv'
    BY <1>7, <1>10, <2>4, <2>5, <2>6
  <2> QED  BY <1>2, <2>2, <2>7, TypeParts
<1> QED  BY <1>8, <1>9, <1>10

LEMMA VerdictTypes ==
    ASSUME TypeInv, NEW c \in Call, TakeVerdict(c) \/ CallFails(c)
    PROVE  TypeInv'
<1>0. MembershipTypeOK /\ Wires /\ GotInv /\ CacheOpsTypeOK /\ CallInv
  BY TypeParts
<1>1. PICK t \in {<<c, "get">>, <<c, "mod">>}, pc \in {"ok", "error"} :
          t \in waiting /\ Drop({t}) /\ Goes(c, pc)
  <2>1. CASE TakeVerdict(c)
    <3>1. <<c, "mod">> \in Token /\ got[<<c, "mod">>] /= <<>>
      BY <2>1 DEF TakeVerdict, Token
    <3>2. <<c, "mod">> \in waiting
      BY <1>0, <3>1 DEF GotInv, Listens
    <3> QED  BY <2>1, <3>2 DEF TakeVerdict
  <2>2. CASE CallFails(c)
    BY <2>2 DEF CallFails, NobodyAnswers
  <2> QED  BY <2>1, <2>2
<1>2. /\ UNCHANGED <<memberVars, cache, queue, otherRequests>>
      /\ UNCHANGED <<run, stored, heard>> /\ Pc(c) = "wait"
  BY DEF TakeVerdict, CallFails, historyVars
<1>3. MembershipTypeOK' /\ Wires'
  BY <1>0, <1>2 DEF otherRequests, memberVars, MembershipTypeOK, Wires
<1>4. GotInv' /\ waiting' = waiting \ {t}
  BY <1>0, <1>1, DropKeeps DEF Drop
<1>5. ~(<<c, "get">> \in waiting /\ <<c, "mod">> \in waiting)
  BY <1>0 DEF CallInv, CallFits, ModOps
<1>6. <<c, "get">> \notin waiting' /\ <<c, "mod">> \notin waiting'
      /\ waiting' \subseteq waiting
  BY <1>1, <1>4, <1>5
<1>7. stored' \in [Call -> SUBSET Node]
  BY <1>0, <1>2 DEF CacheOpsTypeOK
<1>8. CacheOpsTypeOK' /\ CallInv'
  BY <1>0, <1>1, <1>2, <1>6, <1>7, GoesTypes
<1> QED  BY <1>3, <1>4, <1>8, TypeParts

-----------------------------------------------------------------------------
(* The steps of a run.                                                     *)
LEMMA RunSendsTypes ==
    ASSUME TypeInv, NEW c \in Call, RunSends(c)
    PROVE  TypeInv'
<1>0. MembershipTypeOK /\ Wires /\ GotInv /\ CacheOpsTypeOK /\ CallInv
  BY TypeParts
<1>1. /\ UNCHANGED <<memberVars, cache, otherRequests, got>>
      /\ UNCHANGED <<call, stored, heard>> /\ run[c].pc = "send"
      /\ run' = [run EXCEPT ![c].pc = "store"]
      /\ waiting' = waiting \/ waiting' = waiting \cup {<<c, "run">>}
  BY DEF RunSends, historyVars
<1>2. run[c].at \in Node
  BY <1>0, <1>1 DEF CallInv, CallFits
<1>3. Answers(c) \in {"run", "none"}
  BY DEF Answers
<1>4. queue' \in Table(RpcRequest)
  BY <1>0, <1>2, <1>3, RequestMade, BroadcastType DEF RunSends, Wires
<1>5. MembershipTypeOK' /\ Wires'
  BY <1>0, <1>1, <1>4 DEF otherRequests, memberVars, MembershipTypeOK, Wires
<1>6. GotInv'
  <2>1. CASE waiting' = waiting
    BY <1>0, <1>1, <2>1 DEF GotInv, GotTypeOK, Listens
  <2>2. CASE waiting' = waiting \cup {<<c, "run">>}
    BY <1>0, <1>1, <2>2, ListenKeeps DEF Token
  <2> QED  BY <1>1, <2>1, <2>2
<1> DEFINE r == [run[c] EXCEPT !.pc = "store"]
<1>7. run \in [Call -> RunRecord]
      /\ stored' \in [Call -> SUBSET Node] /\ heard' \in [Call -> SUBSET Node]
  BY <1>0, <1>1, OpsTyped DEF OpsTypes
<1>8. r \in RunRecord
  BY <1>7, RunFields
<1>9. r.at \in Node
  BY <1>2, <1>7 DEF RunRecord
<1>10. run' = [run EXCEPT ![c] = r] /\ UNCHANGED call
       /\ waiting' \subseteq waiting \cup {<<c, "run">>}
  BY <1>1, <1>7
<1> HIDE DEF r
<1>11. CacheOpsTypeOK' /\ CallInv'
  BY <1>0, <1>7, <1>8, <1>9, <1>10, RunChanges
<1> QED  BY <1>5, <1>6, <1>11, TypeParts

LEMMA RunStoresTypes ==
    ASSUME TypeInv, NEW c \in Call, RunStores(c)
    PROVE  TypeInv'
<1>0. MembershipTypeOK /\ Wires /\ GotInv /\ CacheOpsTypeOK /\ CallInv
  BY TypeParts
<1>1. /\ UNCHANGED <<memberVars, queue, otherRequests, waiting, got, call, heard>>
      /\ run[c].pc = "store" /\ run' = [run EXCEPT ![c].pc = "await"]
  BY DEF RunStores
<1>2. run[c].at \in Node
  BY <1>0, <1>1 DEF CallInv, CallFits
<1>3. /\ cache' \in [Node -> Call \cup {None}]
      /\ stored' \in [Call -> SUBSET Node]
  BY <1>0, <1>2, CarryTypes DEF RunStores
<1>4. MembershipTypeOK' /\ Wires' /\ GotInv'
  BY <1>0, <1>1, <1>3 DEF otherRequests, memberVars, MembershipTypeOK, Wires,
     GotInv, GotTypeOK, Listens
<1> DEFINE r == [run[c] EXCEPT !.pc = "await"]
<1>5. run \in [Call -> RunRecord] /\ heard' \in [Call -> SUBSET Node]
  BY <1>0, <1>1, OpsTyped DEF OpsTypes
<1>6. r \in RunRecord
  BY <1>5, RunFields
<1>7. r.at \in Node
  BY <1>2, <1>5 DEF RunRecord
<1>8. run' = [run EXCEPT ![c] = r] /\ UNCHANGED call
      /\ waiting' \subseteq waiting \cup {<<c, "run">>}
  BY <1>1, <1>5
<1> HIDE DEF r
<1>9. CacheOpsTypeOK' /\ CallInv'
  BY <1>0, <1>3, <1>5, <1>6, <1>7, <1>8, RunChanges
<1> QED  BY <1>4, <1>9, TypeParts

LEMMA RunSucceedsTypes ==
    ASSUME TypeInv, NEW c \in Call, RunSucceeds(c)
    PROVE  TypeInv'
<1>0. MembershipTypeOK /\ Wires /\ GotInv /\ CacheOpsTypeOK /\ CallInv
  BY TypeParts
<1>1. /\ UNCHANGED <<memberVars, cache, queue, otherRequests>>
      /\ UNCHANGED <<call, stored, heard>> /\ Drop({<<c, "run">>})
      /\ run' = [run EXCEPT ![c].pc = "answer", ![c].verdict = "true"]
  BY DEF RunSucceeds, historyVars
<1>2. MembershipTypeOK' /\ Wires'
  BY <1>0, <1>1 DEF otherRequests, memberVars, MembershipTypeOK, Wires
<1>3. GotInv' /\ waiting' \subseteq waiting
  BY <1>0, <1>1, DropKeeps
<1> DEFINE r == [run[c] EXCEPT !.pc = "answer", !.verdict = "true"]
<1>4. run \in [Call -> RunRecord]
      /\ stored' \in [Call -> SUBSET Node] /\ heard' \in [Call -> SUBSET Node]
  BY <1>0, <1>1, OpsTyped DEF OpsTypes
<1>5. r \in RunRecord
  BY <1>4, RunFields
<1>6. r.pc = "answer"
  BY <1>4 DEF RunRecord
<1>7. run' = [run EXCEPT ![c] = r] /\ UNCHANGED call
      /\ waiting' \subseteq waiting \cup {<<c, "run">>}
  BY <1>1, <1>3, <1>4
<1> HIDE DEF r
<1>8. CacheOpsTypeOK' /\ CallInv'
  BY <1>0, <1>4, <1>5, <1>6, <1>7, RunChanges
<1> QED  BY <1>2, <1>3, <1>8, TypeParts

(* A turn of the loop is taken only while hosts are left to count.         *)
LEMMA RunTurnsTypes ==
    ASSUME TypeInv, NEW c \in Call, NEW k \in Nat, Awaits(c), RunTurns(c, k)
    PROVE  TypeInv'
<1> DEFINE t == <<c, "run">>
<1>0. MembershipTypeOK /\ Wires /\ GotInv /\ CacheOpsTypeOK /\ CallInv
  BY TypeParts
<1>1. /\ UNCHANGED <<memberVars, cache, queue, otherRequests>>
      /\ UNCHANGED <<call, stored, heard>> /\ t \in Token
  BY DEF RunTurns, historyVars, Token
<1>2. MembershipTypeOK' /\ Wires'
  BY <1>0, <1>1 DEF otherRequests, memberVars, MembershipTypeOK, Wires
<1>3. run \in [Call -> RunRecord]
      /\ stored' \in [Call -> SUBSET Node] /\ heard' \in [Call -> SUBSET Node]
  BY <1>0, <1>1, OpsTyped DEF OpsTypes
<1>4. run[c].left - 1 \in Nat /\ run[c].at \in Node
  <2>1. run[c] \in RunRecord /\ run[c].pc = "await" /\ run[c].left > 0
    BY <1>3 DEF Awaits
  <2>2. run[c].left - 1 \in Nat
    BY <2>1 DEF RunRecord
  <2> QED  BY <1>0, <2>1, <2>2 DEF CallInv, CallFits
<1>5. \/ /\ run' = [run EXCEPT ![c].pc = "answer", ![c].need = k,
                                ![c].verdict = "false"]
         /\ Drop({t})
      \/ /\ run' = [run EXCEPT ![c].need = k, ![c].left = @ - 1]
         /\ got' = [got EXCEPT ![t] = IF @ = <<>> THEN @ ELSE Tail(@)]
         /\ UNCHANGED waiting
  BY DEF RunTurns
<1>6. GotInv' /\ waiting' \subseteq waiting
  BY <1>0, <1>1, <1>5, DropKeeps, TakeKeeps
<1>7. ASSUME NEW r \in RunRecord, run' = [run EXCEPT ![c] = r],
             r.pc = "answer" \/ r.at \in Node
      PROVE  CacheOpsTypeOK' /\ CallInv'
  <2>1. UNCHANGED call /\ waiting' \subseteq waiting \cup {<<c, "run">>}
        /\ (r.pc \in {"send", "store", "await"} => r.at \in Node)
    BY <1>1, <1>6, <1>7
  <2> QED  BY <1>0, <1>3, <1>7, <2>1, RunChanges
<1> DEFINE q == [run[c] EXCEPT !.pc = "answer", !.need = k, !.verdict = "false"]
           r == [run[c] EXCEPT !.need = k, !.left = run[c].left - 1]
<1>8. q \in RunRecord /\ r \in RunRecord
  BY <1>3, <1>4, RunFields
<1>9. q.pc = "answer" /\ r.at \in Node
  BY <1>3, <1>4 DEF RunRecord
<1>10. run' = [run EXCEPT ![c] = q] \/ run' = [run EXCEPT ![c] = r]
  BY <1>3, <1>5
<1> HIDE DEF q, r
<1>11. CacheOpsTypeOK' /\ CallInv'
  BY <1>7, <1>8, <1>9, <1>10
<1> QED  BY <1>2, <1>6, <1>11, TypeParts

LEMMA RunTakesTypes ==
    ASSUME TypeInv, NEW c \in Call, RunTakesAck(c) \/ RunMissesAck(c)
    PROVE  TypeInv'
<1>1. run[c] \in RunRecord
  BY TypeParts, OpsTyped DEF OpsTypes
<1>2. run[c].need \in Nat /\ (Awaits(c) => run[c].need - 1 \in Nat)
  BY <1>1 DEF RunRecord, Awaits
<1> QED  BY <1>2, RunTurnsTypes DEF RunTakesAck, RunMissesAck

LEMMA OwnRunEndsTypes ==
    ASSUME TypeInv, NEW c \in Call, OwnRunEnds(c)
    PROVE  TypeInv'
<1>0. MembershipTypeOK /\ Wires /\ GotInv /\ CacheOpsTypeOK /\ CallInv
  BY TypeParts
<1>1. /\ UNCHANGED <<memberVars, requestVars>> /\ UNCHANGED <<stored, heard>>
      /\ Pc(c) = "run"
      /\ call' = [call EXCEPT ![c].pc = "ok"]
      /\ run' = [run EXCEPT ![c].pc = "done"]
  BY DEF OwnRunEnds, historyVars, Goes
<1>2. MembershipTypeOK' /\ Wires' /\ GotInv' /\ UNCHANGED waiting
  BY <1>0, <1>1 DEF memberVars, requestVars, MembershipTypeOK, Wires,
     GotInv, GotTypeOK, Listens
<1>3. call \in [Call -> CallRecord] /\ run \in [Call -> RunRecord]
      /\ stored \in [Call -> SUBSET Node] /\ heard \in [Call -> SUBSET Node]
  BY <1>0, OpsTyped DEF OpsTypes
<1>4. /\ [call[c] EXCEPT !.pc = "ok"] \in CallRecord
      /\ [run[c] EXCEPT !.pc = "done"] \in RunRecord
  BY <1>3, CallFields, RunFields
<1>5. call' \in [Call -> CallRecord] /\ run' \in [Call -> RunRecord]
  BY <1>1, <1>3, <1>4
<1>6. CacheOpsTypeOK'
  BY <1>1, <1>3, <1>5, OpsTyped DEF OpsTypes
<1>7. ASSUME NEW d \in Call, d /= c
      PROVE  CallFits(d)'
  <2>1. call'[d] = call[d] /\ run'[d] = run[d]
    BY <1>1, <1>3, <1>7
  <2> QED  BY <1>0, <1>2, <2>1 DEF CallInv, CallFits, Pc, At
<1>8. CallFits(c)'
  <2>1. call'[c].pc = "ok" /\ run'[c].pc = "done" /\ call'[c].at = call[c].at
    BY <1>1, <1>3 DEF CallRecord, RunRecord
  <2> QED  BY <1>0, <1>1, <1>2, <2>1 DEF CallInv, CallFits, Pc, At
<1> QED  BY <1>2, <1>6, <1>7, <1>8, TypeParts DEF CallInv

(* The stream task of a member is done with a request that it has read.    *)
LEMMA ReadsTypes ==
    ASSUME Wires, NEW n \in Node, NEW m \in Node, NEW kinds, Reads(n, m, kinds)
    PROVE  /\ Head(stream[n][m]) \in RpcRequest
           /\ stream' \in Table(RpcRequest)
           /\ Head(stream[n][m]).is \in kinds
BY TableTail DEF Wires, Reads

LEMMA ServeWriteTypes ==
    ASSUME TypeInv, NEW n \in Node, NEW m \in Node, ServeWrite(n, m)
    PROVE  TypeInv'
<1> DEFINE c == Head(stream[n][m]).call
<1>0. MembershipTypeOK /\ Wires /\ GotInv /\ CacheOpsTypeOK /\ CallInv
  BY TypeParts
<1>1. /\ UNCHANGED <<memberVars, cache, queue, saved, drained, behind, waiting,
                      got, failed>>
      /\ UNCHANGED <<call, stored, heard>>
      /\ serves' = [serves EXCEPT ![n][m] = c]
      /\ Reads(n, m, {"Insert", "Remove"})
      /\ \/ StartRun(c, m, call[c].level, view[m].hosts) /\ UNCHANGED answers
         \/ /\ run' = [run EXCEPT ![c].pc = "panicked"]
            /\ answers' = Answered(n, m, Error)
  BY DEF ServeWrite, historyVars
<1>2. stream' \in Table(RpcRequest) /\ c \in Call
  BY <1>0, <1>1, ReadsTypes, RequestFields
<1>3. answers' \in Table(Ack)
  <2>1. Error \in Ack
    BY DEF Ack
  <2>2. Answered(n, m, Error) \in Table(Ack)
    BY <1>0, <2>1, AnsweredType DEF Wires
  <2> QED  BY <1>0, <1>1, <2>2 DEF Wires
<1>4. serves' \in [Node -> [Node -> Call \cup {None}]]
  <2> HIDE DEF c
  <2> QED  BY <1>0, <1>1, <1>2 DEF Wires
<1>5. MembershipTypeOK' /\ Wires' /\ GotInv'
  BY <1>0, <1>1, <1>2, <1>3, <1>4
     DEF memberVars, MembershipTypeOK, Wires, GotInv, GotTypeOK, Listens
<1>6. run \in [Call -> RunRecord] /\ call \in [Call -> CallRecord]
      /\ stored' \in [Call -> SUBSET Node] /\ heard' \in [Call -> SUBSET Node]
  BY <1>0, <1>1, OpsTyped DEF OpsTypes
<1> HIDE DEF c
<1>7. ASSUME NEW r \in RunRecord, run' = [run EXCEPT ![c] = r],
             r.pc = "panicked" \/ r.at = m
      PROVE  CacheOpsTypeOK' /\ CallInv'
  <2>1. UNCHANGED call /\ waiting' \subseteq waiting \cup {<<c, "run">>}
        /\ (r.pc \in {"send", "store", "await"} => r.at \in Node)
    BY <1>1, <1>7
  <2> QED  BY <1>0, <1>2, <1>6, <1>7, <2>1, RunChanges
<1>8. CASE StartRun(c, m, call[c].level, view[m].hosts)
  <2> DEFINE r == [pc |-> "send", at |-> m, need |-> Need(call[c].level),
                   left |-> view[m].hosts, verdict |-> "none"]
  <2>1. call[c].level \in AckLevel
    BY <1>2, <1>6 DEF CallRecord
  <2>2. Need(call[c].level) \in Nat
    BY <2>1, QuorumPositive DEF Need
  <2>3. view[m].hosts \in Nat
    BY <1>0 DEF MembershipTypeOK, View
  <2>4. r \in RunRecord /\ r.at = m
    BY <2>2, <2>3 DEF RunRecord
  <2>5. run' = [run EXCEPT ![c] = r]
    BY <1>8 DEF StartRun
  <2> HIDE DEF r
  <2> QED  BY <1>5, <1>7, <2>4, <2>5, TypeParts
<1>9. CASE run' = [run EXCEPT ![c].pc = "panicked"]
  <2> DEFINE r == [run[c] EXCEPT !.pc = "panicked"]
  <2>1. r \in RunRecord /\ run' = [run EXCEPT ![c] = r]
    BY <1>2, <1>6, <1>9, RunFields
  <2>2. r.pc = "panicked"
    BY <1>2, <1>6 DEF RunRecord
  <2> HIDE DEF r
  <2> QED  BY <1>5, <1>7, <2>1, <2>2, TypeParts
<1> QED  BY <1>1, <1>8, <1>9

(* Steps after which only the streams and what they carry is different.    *)
LEMMA WireTypes ==
    ASSUME TypeInv, UNCHANGED <<memberVars, waiting, got, call, run, heard>>,
           stored' \in [Call -> SUBSET Node], Wires'
    PROVE  TypeInv'
<1>0. MembershipTypeOK /\ Wires /\ GotInv /\ CacheOpsTypeOK /\ CallInv
  BY TypeParts
<1>1. MembershipTypeOK' /\ GotInv' /\ CallInv'
  BY <1>0 DEF memberVars, MembershipTypeOK, GotInv, GotTypeOK, Listens, CallInv,
     CallFits, Pc, At
<1>2. CacheOpsTypeOK'
  BY <1>0, OpsTyped DEF OpsTypes
<1> QED  BY <1>1, <1>2, TypeParts

LEMMA RefuseTypes ==
    ASSUME TypeInv, NEW n \in Node, NEW m \in Node,
           RefuseWrite(n, m) \/ (ServeGet(n, m) /\ UNCHANGED opVars)
    PROVE  TypeInv'
<1>0. Wires /\ CacheOpsTypeOK
  BY TypeParts
<1>1. PICK kinds \in {{"Get"}, {"Insert", "Remove"}}, a \in Ack :
          Reads(n, m, kinds) /\ answers' = Answered(n, m, a)
  <2>1. CASE RefuseWrite(n, m)
    BY <2>1 DEF RefuseWrite, Ack
  <2>2. CASE ServeGet(n, m)
    <3>1. GetAck(cache[m]) \in Ack
      BY <1>0 DEF Wires, GetAck, Ack
    <3> QED  BY <2>2, <3>1 DEF ServeGet
  <2> QED  BY <2>1, <2>2
<1>2. /\ UNCHANGED <<memberVars, waiting, got, call, run, heard>>
      /\ UNCHANGED <<cache, queue, serves, saved, drained, behind, failed, stored>>
  BY DEF RefuseWrite, ServeGet, opVars, historyVars
<1>3. stream' \in Table(RpcRequest) /\ answers' \in Table(Ack)
  BY <1>0, <1>1, ReadsTypes, AnsweredType DEF Wires
<1>4. Wires' /\ stored' \in [Call -> SUBSET Node]
  BY <1>0, <1>2, <1>3 DEF Wires, CacheOpsTypeOK
<1> QED  BY <1>2, <1>4, WireTypes

LEMMA ServeUpdateTypes ==
    ASSUME TypeInv, NEW n \in Node, NEW m \in Node, ServeUpdate(n, m)
    PROVE  TypeInv'
<1> DEFINE r == Head(stream[n][m])
<1>0. Wires /\ CacheOpsTypeOK
  BY TypeParts
<1>1. /\ UNCHANGED <<memberVars, waiting, got, call, run, heard>>
      /\ UNCHANGED <<queue, serves, saved, drained, behind, failed>>
      /\ Reads(n, m, {"Put", "Del"})
      /\ cache' = [cache EXCEPT ![m] = Applied(m, r)]
      /\ answers' = Answered(n, m, ModAck(TokenOf(r), TRUE))
      /\ stored' = [stored EXCEPT ![r.call] = @ \cup {m}]
  BY DEF ServeUpdate, ServeMod
<1>2. stream' \in Table(RpcRequest) /\ r \in RpcRequest /\ r.is \in {"Put", "Del"}
  BY <1>0, <1>1, ReadsTypes
<1> HIDE DEF r
<1>3. /\ r.call \in Call /\ Applied(m, r) \in Call \cup {None}
      /\ TokenOf(r) \in Call \X {"mod", "run", "none"}
  BY <1>2, RequestFields, AppliedType
<1>4. ModAck(TokenOf(r), TRUE) \in Ack
  BY <1>3, AckMade
<1>5. answers' \in Table(Ack)
  BY <1>0, <1>1, <1>4, AnsweredType DEF Wires
<1>6. cache' \in [Node -> Call \cup {None}] /\ stored' \in [Call -> SUBSET Node]
  BY <1>0, <1>1, <1>3 DEF Wires, CacheOpsTypeOK
<1>7. Wires'
  BY <1>0, <1>1, <1>2, <1>5, <1>6 DEF Wires
<1> QED  BY <1>1, <1>6, <1>7, WireTypes

LEMMA ServedRunEndsTypes ==
    ASSUME TypeInv, NEW c \in Call, ServedRunEnds(c)
    PROVE  TypeInv'
<1> DEFINE ack  == ModAck(<<c, "mod">>, run[c].verdict = "true")
           here == {n \in Node : serves[n][run[c].at] = c}
           r    == [run[c] EXCEPT !.pc = "done"]
<1>0. MembershipTypeOK /\ Wires /\ GotInv /\ CacheOpsTypeOK /\ CallInv
  BY TypeParts
<1>1. /\ answers' = [n \in Node |-> [m \in Node |->
             IF n \in here /\ m = run[c].at
             THEN Answered(n, m, ack)[n][m] ELSE answers[n][m]]]
      /\ serves' = [n \in Node |-> [m \in Node |->
             IF n \in here /\ m = run[c].at THEN None ELSE serves[n][m]]]
      /\ run' = [run EXCEPT ![c].pc = "done"]
      /\ UNCHANGED <<memberVars, cache, queue, stream, saved, drained, behind,
                      waiting, got, failed>>
      /\ UNCHANGED <<call, stored, heard>>
  BY DEF ServedRunEnds, historyVars
<1>2. ack \in Ack
  BY DEF ModAck, Ack
<1> HIDE DEF ack, here
<1>3. answers' \in Table(Ack)
  <2>1. ASSUME NEW n \in Node, NEW m \in Node
        PROVE  Answered(n, m, ack)[n][m] \in Seq(Ack) /\ answers[n][m] \in Seq(Ack)
    BY <1>0, <1>2, AnsweredType DEF Wires, Table
  <2> QED  BY <1>1, <2>1 DEF Table
<1>4. serves' \in [Node -> [Node -> Call \cup {None}]]
  BY <1>0, <1>1 DEF Wires
<1>5. MembershipTypeOK' /\ Wires' /\ GotInv'
  BY <1>0, <1>1, <1>3, <1>4
     DEF memberVars, MembershipTypeOK, Wires, GotInv, GotTypeOK, Listens
<1>6. run \in [Call -> RunRecord]
      /\ stored' \in [Call -> SUBSET Node] /\ heard' \in [Call -> SUBSET Node]
  BY <1>0, <1>1, OpsTyped DEF OpsTypes
<1>7. r \in RunRecord
  BY <1>6, RunFields
<1>8. r.pc = "done"
  BY <1>6 DEF RunRecord
<1>9. run' = [run EXCEPT ![c] = r] /\ UNCHANGED call
      /\ waiting' \subseteq waiting \cup {<<c, "run">>}
  BY <1>1, <1>6
<1> HIDE DEF r
<1>10. CacheOpsTypeOK' /\ CallInv'
  BY <1>0, <1>6, <1>7, <1>8, <1>9, RunChanges
<1> QED  BY <1>5, <1>10, TypeParts

-----------------------------------------------------------------------------
(* The steps of the clients, and the faults.                               *)
LEMMA StreamTypes ==
    ASSUME TypeInv, NEW n \in Node, NEW m \in Node,
           \/ Connect(n, m) \/ Break(n, m) \/ Ends(n, m) \/ LoseRest(n, m)
           \/ Forward(n, m),
           UNCHANGED opVars
    PROVE  TypeInv'
<1>0. MembershipTypeOK /\ Wires /\ GotInv /\ CacheOpsTypeOK /\ CallInv
  BY TypeParts
<1>1. /\ UNCHANGED <<waiting, got, call, run, stored, heard, cache>>
      /\ Connects(n, m) \/ Breaks(n, m) \/ UNCHANGED memberVars
  BY DEF Connect, Break, Ends, TearDown, LoseRest, Forward, opVars, historyVars
<1>2. MembershipTypeOK'
  BY <1>0, <1>1, MembershipTypes
<1>3. GotInv' /\ CallInv' /\ CacheOpsTypeOK'
  <2>1. GotInv' /\ CallInv'
    BY <1>0, <1>1 DEF GotInv, GotTypeOK, Listens, CallInv, CallFits, Pc, At
  <2>2. CacheOpsTypeOK'
    BY <1>0, <1>1, OpsTyped DEF OpsTypes
  <2> QED  BY <2>1, <2>2
<1>4. failed' \in [Failure -> Nat]
  <2>1. Fails("break") => failed' \in [Failure -> Nat]
    BY <1>0, FailsType DEF Wires
  <2> QED  BY <1>0, <2>1 DEF Wires, Connect, Break, Ends, LoseRest, Forward
<1>5. Wires'
  <2>1. CASE Connect(n, m)
    <3>1. Queued(n, m) \in SUBSET Token
      BY DEF Queued
    <3>2. drained' \in [Node -> [Node -> SUBSET Token]]
          /\ serves' \in [Node -> [Node -> Call \cup {None}]]
      BY <1>0, <2>1, <3>1 DEF Connect, Wires
    <3> QED  BY <1>0, <1>1, <1>4, <2>1, <3>2, TableEmpty DEF Wires, Connect
  <2>2. CASE Break(n, m) \/ Ends(n, m)
    <3>1. TearDown(n, m)
      BY <2>2 DEF Break, Ends
    <3>2. /\ saved' \in [Node -> [Node -> SUBSET Token]]
          /\ drained' \in [Node -> [Node -> SUBSET Token]]
      BY <1>0, <3>1 DEF TearDown, AbortCallbacks, Wires
    <3> QED  BY <1>0, <1>1, <1>4, <3>1, <3>2, TableEmpty DEF Wires, TearDown
  <2>3. CASE LoseRest(n, m)
    BY <1>0, <1>1, <1>4, <2>3, TableEmpty DEF Wires, LoseRest
  <2>4. CASE Forward(n, m)
    <3> DEFINE r == Head(queue[n][m])
    <3>1. r \in RpcRequest /\ queue' \in Table(RpcRequest)
      BY <1>0, <2>4, TableTail DEF Forward, Wires
    <3>2. /\ saved' = [saved EXCEPT ![n][m] = Saved(n, m, r)]
          /\ stream' = [stream EXCEPT ![n][m] =
                 IF conn[n][m] /= "lost" THEN Append(@, r) ELSE @]
          /\ UNCHANGED <<serves, answers, drained, behind>>
      BY <2>4 DEF Forward
    <3> HIDE DEF r
    <3>3. Saved(n, m, r) \in SUBSET Token
      BY <1>0, <3>1, RequestFields DEF Saved, Lookups, Wires
    <3>4. saved' \in [Node -> [Node -> SUBSET Token]]
      BY <1>0, <3>2, <3>3 DEF Wires
    <3>5. stream' \in Table(RpcRequest)
      <4>1. CASE conn[n][m] /= "lost"
        BY <1>0, <3>1, <3>2, <4>1, TableAppend DEF Wires
      <4>2. CASE conn[n][m] = "lost"
        BY <1>0, <3>2, <4>2 DEF Wires, Table
      <4> QED  BY <4>1, <4>2
    <3> QED  BY <1>0, <1>1, <1>4, <3>1, <3>2, <3>4, <3>5 DEF Wires
  <2> QED  BY <2>1, <2>2, <2>3, <2>4
<1> QED  BY <1>2, <1>3, <1>5, TypeParts

LEMMA OpeningTypes ==
    ASSUME TypeInv, NEW n \in Node, NEW m \in Node,
           \/ OpenStream(n, m) \/ OpeningFails(n, m) \/ OpeningUnanswered(n, m)
           \/ LeftBehindTakes(n, m) \/ LeftBehindTakesOther(n, m),
           UNCHANGED opVars
    PROVE  TypeInv'
<1>0. MembershipTypeOK /\ Wires /\ GotInv /\ CacheOpsTypeOK /\ CallInv
  BY TypeParts
<1>1. /\ UNCHANGED <<waiting, got, call, run, stored, heard>>
      /\ UNCHANGED <<cache, serves, answers>>
      /\ Opens(n, m) \/ Breaks(n, m) \/ UNCHANGED memberVars
  BY DEF OpenStream, OpeningFails, OpeningUnanswered, OpenFails, LeftBehindTakes,
     LeftBehindTakesOther, requestVars, opVars, historyVars
<1>2. MembershipTypeOK'
  BY <1>0, <1>1, MembershipTypes
<1>3. GotInv' /\ CallInv' /\ CacheOpsTypeOK'
  <2>1. GotInv' /\ CallInv'
    BY <1>0, <1>1 DEF GotInv, GotTypeOK, Listens, CallInv, CallFits, Pc, At
  <2>2. CacheOpsTypeOK'
    BY <1>0, <1>1, OpsTyped DEF OpsTypes
  <2> QED  BY <2>1, <2>2
<1>4. failed' \in [Failure -> Nat]
  <2>1. Fails("open") => failed' \in [Failure -> Nat]
    BY <1>0, FailsType DEF Wires
  <2> QED
    BY <1>0, <2>1 DEF Wires, OpenStream, OpeningFails, OpeningUnanswered,
       LeftBehindTakes, LeftBehindTakesOther, requestVars
<1>5. Wires'
  <2>1. CASE OpenStream(n, m)
    BY <1>0, <2>1 DEF Wires, OpenStream, requestVars
  <2>2. CASE OpenFails(n, m)
    <3>1. behind' \in Table(SUBSET Token)
      <4>1. behind \in Table(SUBSET Token) /\ saved[n][m] \in SUBSET Token
            /\ behind' = [behind EXCEPT ![n][m] = Append(@, saved[n][m])]
        BY <1>0, <2>2 DEF OpenFails, Wires
      <4> QED  BY <4>1, TableAppend
    <3>2. /\ saved' \in [Node -> [Node -> SUBSET Token]]
          /\ drained' \in [Node -> [Node -> SUBSET Token]]
      BY <1>0, <2>2 DEF OpenFails, Wires
    <3>3. stream' \in Table(RpcRequest)
      BY <1>0, <2>2, TableEmpty DEF OpenFails, Wires
    <3> QED  BY <1>0, <1>1, <1>4, <2>2, <3>1, <3>2, <3>3 DEF OpenFails, Wires
  <2>3. CASE LeftBehindTakes(n, m) \/ LeftBehindTakesOther(n, m)
    <3>1. PICK i \in DOMAIN behind[n][m] : LeftBehindEnds(n, m, i)
      BY <2>3 DEF LeftBehindTakes, LeftBehindTakesOther
    <3>2. behind' \in Table(SUBSET Token)
      <4> DEFINE q == SubSeq(behind[n][m], 1, i - 1)
                         \o SubSeq(behind[n][m], i + 1, Len(behind[n][m]))
      <4>1. q \in Seq(SUBSET Token)
        <5>1. behind[n][m] \in Seq(SUBSET Token)
          BY <1>0 DEF Wires, Table
        <5> QED  BY <5>1, OneLess
      <4>2. behind' = [behind EXCEPT ![n][m] = q]
        BY <3>1 DEF LeftBehindEnds
      <4> HIDE DEF q
      <4> QED  BY <1>0, <4>1, <4>2 DEF Wires, Table
    <3>3. queue' \in Table(RpcRequest)
      <4>1. /\ queue \in Table(RpcRequest)
            /\ \/ UNCHANGED queue
               \/ /\ queue[n][m] /= <<>>
                  /\ queue' = [queue EXCEPT ![n][m] = Tail(@)]
        BY <1>0, <2>3 DEF LeftBehindTakes, LeftBehindTakesOther, Wires
      <4>2. CASE UNCHANGED queue
        BY <4>1, <4>2
      <4>3. CASE /\ queue[n][m] /= <<>>
                 /\ queue' = [queue EXCEPT ![n][m] = Tail(@)]
        BY <4>1, <4>3, TableTail
      <4> QED  BY <4>1, <4>2, <4>3
    <3>4. UNCHANGED <<stream, saved, drained>>
      BY <2>3 DEF LeftBehindTakes, LeftBehindTakesOther
    <3> QED  BY <1>0, <1>1, <1>4, <3>2, <3>3, <3>4 DEF Wires
  <2> QED  BY <2>1, <2>2, <2>3 DEF OpeningFails, OpeningUnanswered
<1> QED  BY <1>2, <1>3, <1>5, TypeParts

LEMMA AnswerTypes ==
    ASSUME TypeInv, NEW n \in Node, NEW m \in Node,
           DeliverAnswer(n, m) \/ LateAnswer(n, m), UNCHANGED opVars
    PROVE  TypeInv'
<1> DEFINE a == Head(answers[n][m])
<1>0. MembershipTypeOK /\ Wires /\ GotInv /\ CacheOpsTypeOK /\ CallInv
  BY TypeParts
<1>1. /\ UNCHANGED <<call, run, stored, heard>>
      /\ UNCHANGED <<memberVars, cache, queue, stream, serves, drained, behind,
                      waiting>>
      /\ saved' = [saved EXCEPT ![n][m] = @ \ Meant(n, m, a)]
      /\ answers' = [answers EXCEPT ![n][m] = Tail(@)]
      /\ answers[n][m] /= <<>> /\ a /= Error
  BY DEF DeliverAnswer, LateAnswer, TakesAnswer, opVars, historyVars
<1>2. a \in Ack /\ answers' \in Table(Ack)
  BY <1>0, <1>1, TableTail DEF Wires
<1>3. failed' \in [Failure -> Nat]
  <2>1. Fails("late") => failed' \in [Failure -> Nat]
    BY <1>0, FailsType DEF Wires
  <2> QED  BY <1>0, <2>1 DEF Wires, DeliverAnswer, LateAnswer
<1>4. GotInv'
  <2>1. CASE DeliverAnswer(n, m)
    BY <1>0, <1>1, <1>2, <2>1, DeliverKeeps DEF DeliverAnswer, Wires
  <2>2. CASE LateAnswer(n, m)
    BY <1>0, <1>1, <2>2 DEF LateAnswer, GotInv, GotTypeOK, Listens
  <2> QED  BY <2>1, <2>2
<1> HIDE DEF a
<1>5. Wires' /\ MembershipTypeOK'
  BY <1>0, <1>1, <1>2, <1>3 DEF Wires, memberVars, MembershipTypeOK
<1>6. CallInv' /\ CacheOpsTypeOK'
  <2>1. CallInv'
    BY <1>0, <1>1 DEF CallInv, CallFits, Pc, At
  <2>2. CacheOpsTypeOK'
    BY <1>0, <1>1, OpsTyped DEF OpsTypes
  <2> QED  BY <2>1, <2>2
<1> QED  BY <1>4, <1>5, <1>6, TypeParts

-----------------------------------------------------------------------------
(* What the quorum handlers and the processes do.                          *)
LEMMA ViewTypes ==
    ASSUME TypeInv, NEW n \in Node, PublishView(n) \/ Empty(n) \/ Start(n)
    PROVE  TypeInv'
<1>0. MembershipTypeOK /\ Wires /\ CacheOpsTypeOK
  BY TypeParts
<1>1. UNCHANGED <<waiting, got, call, run, stored, heard>>
      /\ UNCHANGED <<queue, stream, serves, answers, saved, drained, behind>>
  BY DEF PublishView, Empty, Start, requestVars, opVars, historyVars
<1>2. cache' \in [Node -> Call \cup {None}]
  BY <1>0 DEF PublishView, Empty, Start, requestVars, Wires
<1>3. failed' \in [Failure -> Nat]
  <2>1. Fails("view") => failed' \in [Failure -> Nat]
    BY <1>0, FailsType DEF Wires
  <2> QED  BY <1>0, <2>1 DEF PublishView, Empty, Start, requestVars, Wires
<1>4. MembershipTypeOK'
  <2>1. (\E v \in View : Publishes(n, v)) \/ Empties(n) \/ Starts(n)
    BY OfferAssumption DEF PublishView, Empty, Start
  <2> QED  BY <1>0, <2>1, MembershipTypes
<1>5. Wires'
  BY <1>0, <1>1, <1>2, <1>3 DEF Wires
<1>6. GotInv' /\ CallInv'
  BY <1>1, TypeParts DEF GotInv, GotTypeOK, Listens, CallInv, CallFits, Pc, At
<1>7. CacheOpsTypeOK'
  BY <1>0, <1>1, OpsTyped DEF OpsTypes
<1> QED  BY <1>4, <1>5, <1>6, <1>7, TypeParts

(* With a process go the receivers that its calls and runs have waited on. *)
LEMMA StopTypes ==
    ASSUME TypeInv, NEW n \in Node, Stop(n)
    PROVE  TypeInv'
<1> DEFINE lost == (CallsAt(n) \X {"get", "mod"}) \cup (RunsAt(n) \X {"run"})
<1>0. MembershipTypeOK /\ Wires /\ GotInv /\ CacheOpsTypeOK /\ CallInv
  BY TypeParts
<1>1. /\ EndProcess(n, lost) /\ UNCHANGED <<stored, heard>>
      /\ call' = [c \in Call |-> IF c \in CallsAt(n)
                       THEN [call[c] EXCEPT !.pc = "gone"] ELSE call[c]]
      /\ run' = [c \in Call |-> IF c \in RunsAt(n)
                      THEN [run[c] EXCEPT !.pc = "gone"] ELSE run[c]]
  BY DEF Stop, historyVars
<1>2. MembershipTypeOK'
  BY <1>0, <1>1, MembershipTypes DEF EndProcess
<1>3. Wires'
  <2>1. failed' \in [Failure -> Nat]
    BY <1>0, <1>1, FailsType DEF Wires, EndProcess
  <2>2. /\ queue' \in Table(RpcRequest) /\ answers' \in Table(Ack)
        /\ behind' \in Table(SUBSET Token)
    BY <1>0, <1>1, TableEmpty DEF Wires, EndProcess
  <2>3. stream' \in Table(RpcRequest)
    BY <1>0, <1>1, EmptySeq DEF Wires, EndProcess, StreamsWithout, Table
  <2>4. /\ cache' \in [Node -> Call \cup {None}]
        /\ saved' \in [Node -> [Node -> SUBSET Token]]
        /\ drained' \in [Node -> [Node -> SUBSET Token]]
        /\ serves' \in [Node -> [Node -> Call \cup {None}]]
    BY <1>0, <1>1 DEF Wires, EndProcess
  <2> QED  BY <2>1, <2>2, <2>3, <2>4 DEF Wires
<1> HIDE DEF lost
<1>4. GotInv' /\ waiting' \subseteq waiting /\ waiting' \cap lost = {}
  BY <1>0, <1>1, DropKeeps DEF EndProcess
<1> USE DEF lost
<1>5. call \in [Call -> CallRecord] /\ run \in [Call -> RunRecord]
  BY <1>0, OpsTyped DEF OpsTypes
<1>6. ASSUME NEW c \in Call
      PROVE  /\ call'[c] \in CallRecord /\ run'[c] \in RunRecord
             /\ call'[c].op = call[c].op /\ call'[c].at = At(c)
             /\ call'[c].left = call[c].left
             /\ Pc(c)' = IF c \in CallsAt(n) THEN "gone" ELSE Pc(c)
             /\ run'[c].at = run[c].at
             /\ run'[c].pc \in {"gone", run[c].pc}
  <2>1. call[c] \in CallRecord /\ run[c] \in RunRecord
    BY <1>5
  <2>2. /\ [call[c] EXCEPT !.pc = "gone"] \in CallRecord
        /\ [run[c] EXCEPT !.pc = "gone"] \in RunRecord
    BY <2>1, CallFields, RunFields
  <2> QED  BY <1>1, <2>1, <2>2 DEF CallRecord, RunRecord, At, Pc
<1>7. CacheOpsTypeOK'
  <2>1. call' \in [Call -> CallRecord] /\ run' \in [Call -> RunRecord]
    BY <1>1, <1>6
  <2> QED  BY <1>0, <1>1, <2>1, OpsTyped DEF OpsTypes
<1>8. CallInv'
  <2> SUFFICES ASSUME NEW c \in Call
               PROVE  CallFits(c)'
    BY DEF CallInv
  <2>1. CallFits(c)
    BY <1>0 DEF CallInv
  <2>2. CASE c \in CallsAt(n)
    <3>1. <<c, "get">> \notin waiting' /\ <<c, "mod">> \notin waiting'
      BY <1>4, <2>2
    <3>2. At(c) = n /\ Pc(c)' = "gone"
      BY <1>6, <2>2 DEF CallsAt
    <3> QED  BY <1>6, <2>1, <3>1, <3>2 DEF CallFits, At, Pc
  <2>3. CASE c \notin CallsAt(n)
    BY <1>4, <1>6, <2>1, <2>3 DEF CallFits, At, Pc
  <2> QED  BY <2>2, <2>3
<1> QED  BY <1>2, <1>3, <1>4, <1>7, <1>8, TypeParts

-----------------------------------------------------------------------------
LEMMA RunningFinite ==
    Cardinality(Running) \in Nat /\ Cardinality(Running) - 1 \in Nat
<1>1. IsFiniteSet(Running)
  BY OfferAssumption, MemberAssumption, FS_Subset
<1>2. Cardinality(Running) \in Nat /\ Cardinality(Running) /= 0
  BY <1>1, OfferAssumption, FS_CardinalityType, FS_EmptySet
<1> QED  BY <1>2

LEMMA TypesInit == Init => TypeInv
<1> SUFFICES ASSUME Init PROVE TypeInv
  OBVIOUS
<1>1. MembershipTypeOK
  <2>1. view \in [Node -> View]
    BY RunningFinite, OfferAssumption DEF Init, ElectedInit, View, DefaultView, Role
  <2> QED  BY <2>1 DEF Init, ElectedInit, MembershipTypeOK, Client
<1>2. Wires
  BY TableEmpty, EmptySeq
     DEF Init, RequestsInit, NoRequests, Table, Wires
<1>3. GotInv
  BY EmptySeq DEF Init, RequestsInit, GotInv, GotTypeOK, Listens, Token
<1>4. CacheOpsTypeOK
  BY DEF Init, CacheOpsInit, CacheOpsTypeOK, NoCall, NoRun, Operation, AckLevel,
     Returned, Finished
<1>5. CallInv
  BY DEF Init, RequestsInit, CacheOpsInit, CallInv, CallFits, NoCall, NoRun, Pc, At
<1> QED  BY <1>1, <1>2, <1>3, <1>4, <1>5, TypeParts

LEMMA TypesStep == TypeInv /\ ViewInv /\ [Next]_vars => TypeInv'
<1> SUFFICES ASSUME TypeInv, ViewInv, [Next]_vars PROVE TypeInv'
  OBVIOUS
<1>1. ASSUME NEW c \in Call, BeginCall(c) \/ CallStep(c) \/ RunStep(c)
      PROVE  TypeInv'
  BY <1>1, BeginTypes, StoreHereTypes, SendAllTypes, LookTypes, AskTypes,
     TakeAnswerTypes, VerdictTypes, RunSendsTypes, RunStoresTypes,
     RunTakesTypes, RunSucceedsTypes, OwnRunEndsTypes, ServedRunEndsTypes
     DEF CallStep, RunStep
<1>2. ASSUME NEW n \in Node, NEW m \in Node, ClientStep(n, m) \/ Fault(n, m)
      PROVE  TypeInv'
  BY <1>2, StreamTypes, OpeningTypes, AnswerTypes DEF ClientStep, Fault
<1>3. ASSUME NEW n \in Node, NEW m \in Node, ServerStep(n, m)
      PROVE  TypeInv'
  <2>1. CASE RefuseWrite(n, m) \/ (ServeGet(n, m) /\ UNCHANGED opVars)
    BY <2>1, RefuseTypes
  <2>2. CASE ServeUpdate(n, m)
    BY <2>2, ServeUpdateTypes
  <2>3. CASE ServeWrite(n, m)
    BY <2>3, ServeWriteTypes
  <2> QED  BY <1>3, <2>1, <2>2, <2>3 DEF ServerStep
<1>4. ASSUME NEW n \in Node, PublishView(n) \/ Empty(n) \/ Stop(n) \/ Start(n)
      PROVE  TypeInv'
  BY <1>4, ViewTypes, StopTypes
<1>5. CASE UNCHANGED vars
  BY <1>5, TypesStay
<1> QED  BY <1>1, <1>2, <1>3, <1>4, <1>5 DEF Next

(* Only the quorum handler, and the end of a process, change a view.       *)
LEMMA ViewsUsable ==
    ASSUME TypeInv, ViewInv, [Next]_vars
    PROVE  ViewInv'
<1>1. \A n \in Node : view'[n] = view[n] \/ view'[n] = DefaultView
                     \/ (Usable(view'[n]) /\ view'[n].to /= n)
  <2>1. CASE UNCHANGED view
    BY <2>1
  <2>2. ASSUME NEW n \in Node, NEW v, view' = [view EXCEPT ![n] = v],
               v = DefaultView \/ (Usable(v) /\ v.to /= n)
        PROVE  \A m \in Node : view'[m] = view[m] \/ view'[m] = DefaultView
                     \/ (Usable(view'[m]) /\ view'[m].to /= m)
    BY <2>2, TypeParts DEF MembershipTypeOK
  <2>3. ASSUME NEW n \in Node, PublishView(n)
        PROVE  \E v : view' = [view EXCEPT ![n] = v] /\ Usable(v) /\ v.to /= n
    BY <2>3 DEF PublishView, Publishes
  <2>4. ASSUME NEW n \in Node, Stop(n)
        PROVE  view' = [view EXCEPT ![n] = DefaultView]
    BY <2>4 DEF Stop, EndProcess, Stops
  <2>5. ASSUME NEW n \in Node, Empty(n) \/ Start(n)
        PROVE  UNCHANGED view
    BY <2>5 DEF Empty, Empties, Start, Starts
  <2>6. ASSUME NEW n \in Node, NEW m \in Node,
               ClientStep(n, m) \/ ServerStep(n, m) \/ Fault(n, m)
        PROVE  UNCHANGED view
    BY <2>6 DEF ClientStep, ServerStep, Fault, Forward, DeliverAnswer, LateAnswer,
       TakesAnswer, Connect, Connects, OpenStream, Opens, OpeningFails,
       OpeningUnanswered, OpenFails, LeftBehindTakes, LeftBehindTakesOther, Ends,
       TearDown, Breaks, Break, LoseRest, ServeGet, ServeUpdate, ServeMod,
       ServeWrite, RefuseWrite, memberVars
  <2>7. ASSUME NEW c \in Call, BeginCall(c) \/ CallStep(c) \/ RunStep(c)
        PROVE  UNCHANGED view
    BY <2>7 DEF BeginCall, CallStep, RunStep, StoreHere, SendAll, Look, Ask,
       TakeAnswer, Push, TakeVerdict, CallFails, RunSends, RunStores, RunTakesAck,
       RunMissesAck, RunTurns, RunSucceeds, OwnRunEnds, ServedRunEnds, memberVars
  <2>8. CASE UNCHANGED vars
    BY <2>8 DEF vars, memberVars
  <2>9. CASE \E n \in Node : PublishView(n) \/ Empty(n) \/ Stop(n) \/ Start(n)
    BY <2>1, <2>2, <2>3, <2>4, <2>5, <2>9
  <2> QED  BY <2>1, <2>6, <2>7, <2>8, <2>9 DEF Next
<1>2. Usable(DefaultView) /\ \A n \in Node : DefaultView.to /= n
  BY MemberAssumption DEF Usable, DefaultView
<1> QED  BY <1>1, <1>2 DEF ViewInv

(* All who run have a quorum at first: Lead and the others of Running.     *)
LEMMA ViewsInit == Init => ViewInv
<1> SUFFICES ASSUME Init PROVE ViewInv
  OBVIOUS
<1>1. /\ Cardinality(Running) - 1 >= Quorum /\ Lead \in Node
      /\ \A n \in Node : n /= None
  BY RunningFinite, OfferAssumption, MemberAssumption, QuorumPositive
<1> QED  BY <1>1 DEF Init, ElectedInit, ViewInv, Usable, DefaultView

LEMMA TypesHold == Spec => []TypeInv
<1>1. Init => TypeInv /\ ViewInv
  BY TypesInit, ViewsInit
<1>2. TypeInv /\ ViewInv /\ [Next]_vars => TypeInv' /\ ViewInv'
  BY TypesStep, ViewsUsable
<1> QED  BY <1>1, <1>2, PTL DEF Spec

(* Whatever the applications call, wherever streams break and processes    *)
(* stop: the countdowns of hosts of cache_get_value and of the loops for   *)
(* acks in insert_from_leader and remove_from_leader stay natural numbers, *)
(* and nobody reads an answer of a kind it has not asked for.              *)
THEOREM CacheTypesCorrect == Spec => []TypeOK
<1>1. TypeInv => TypeOK
  BY DEF TypeInv
<1> QED  BY <1>1, TypesHold, PTL

=============================================================================
