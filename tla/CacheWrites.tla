------------------------------ MODULE CacheWrites ------------------------------
(***************************************************************************)
(* CacheOps implements AckedWrite, for every set of members and of calls,  *)
(* every bound and every offer: a write that its leader vouches for is     *)
(* held by the leader and by as many others as its AckLevel asks for,      *)
(* although acks are matched to runs by their id alone, streams break,     *)
(* answers come late and processes stop.                                   *)
(*                                                                         *)
(* The argument follows one ack of one other member: a request with the    *)
(* sender of a run is in the queue of the leader's client, or its sender   *)
(* is saved there, or its ack is in the receiver, or none of these, and    *)
(* never two of them.  So every ack that the run takes is of another       *)
(* member, which has carried the write out.                                *)
(***************************************************************************)
EXTENDS CacheLives

-----------------------------------------------------------------------------
(* Where the ack of one member for one run is: it is asked for in a queue, *)
(* its sender is saved, or it has come and is not counted yet.             *)
RunToken(c) == <<c, "run">>
AckFor(c)   == {ModAck(RunToken(c), b) : b \in BOOLEAN}
From(m)     == [from : {m}, val : BOOLEAN]

InQueue(c, m) == \E a \in Node : Holds(queue[a][m], CountedUpdate(c))
IsSaved(c, m) == \E a \in Node : RunToken(c) \in saved[a][m]
InGot(c, m)   == Holds(got[RunToken(c)], From(m))
Owed(c, m)    == InQueue(c, m) \/ IsSaved(c, m) \/ InGot(c, m)

(* It is in one place at most, of the run's own member, and an answer that *)
(* is an ack for the run is of a member that has carried the write out.    *)
AckAt(c, m) ==
    /\ \A a \in Node :
           /\ Holds(queue[a][m], CountedUpdate(c)) \/ RunToken(c) \in saved[a][m] =>
                 a = run[c].at /\ a /= m /\ run[c].pc \notin Early
           /\ Once(queue[a][m], CountedUpdate(c))
           /\ Holds(answers[a][m], AckFor(c)) => m \in stored[c]
    /\ InGot(c, m) => m \in stored[c] /\ m /= run[c].at /\ run[c].pc \notin Early
    /\ Once(got[RunToken(c)], From(m))
    /\ ~(InQueue(c, m) /\ IsSaved(c, m))
    /\ ~(InQueue(c, m) /\ InGot(c, m))
    /\ ~(IsSaved(c, m) /\ InGot(c, m))

AckInv == \A c \in Call, m \in Node : AckAt(c, m)

(* The members whose acks the run has counted, and those that have carried *)
(* the write out without being asked for an ack any more.                  *)
Counted(c) == {m \in stored[c] \ {run[c].at} : ~Owed(c, m)}

CountFits(c) ==
    run[c].pc \in {"send", "store", "await"} =>
        Cardinality(Counted(c)) + run[c].need >= Need(call[c].level)

CountInv == \A c \in Call : CountFits(c)

(* A caller is answered yes only by a run that has succeeded.              *)
Yes        == [from : Node, val : {TRUE}]
Vouched(c) == {ModAck(<<c, "mod">>, TRUE)}

VouchFits(c) ==
    /\ \A a, m \in Node :
           Holds(answers[a][m], Vouched(c)) => run[c].verdict = "true"
    /\ Holds(got[<<c, "mod">>], Yes) => run[c].verdict = "true"

VouchInv == \A c \in Call : VouchFits(c)

-----------------------------------------------------------------------------
SavedShrinks  == \A a, m \in Node : saved'[a][m] \subseteq saved[a][m]
GotShrinks    == \A t \in Token : Changes(got[t], got'[t], {})
AnswersShrink == \A a, m \in Node : Changes(answers[a][m], answers'[a][m], {})

(* What is added to the answers is true.                                   *)
AnswersStay(c) ==
    \A a, m \in Node :
        /\ Holds(answers'[a][m], AckFor(c)) =>
               Holds(answers[a][m], AckFor(c)) \/ m \in stored'[c]
        /\ Holds(answers'[a][m], Vouched(c)) =>
               Holds(answers[a][m], Vouched(c)) \/ run'[c].verdict = "true"

GotStays(c) ==
    /\ \A m \in Node : Quieter(got[RunToken(c)], got'[RunToken(c)], From(m))
    /\ Holds(got'[<<c, "mod">>], Yes) => Holds(got[<<c, "mod">>], Yes)

Stays(c) == /\ Fate(c) /\ AnswersStay(c) /\ GotStays(c) /\ SavedShrinks
            /\ Quiet(CountedUpdate(c))

OwedStays(c) == \A m \in Node : Owed(c, m)' => Owed(c, m)

(* The sets above do not depend on the state.                              *)
LEMMA Constant ==
    ASSUME NEW c \in Call, NEW m \in Node
    PROVE  /\ CountedUpdate(c)' = CountedUpdate(c) /\ RunToken(c)' = RunToken(c)
           /\ AckFor(c)' = AckFor(c) /\ From(m)' = From(m)
           /\ Vouched(c)' = Vouched(c) /\ Yes' = Yes
BY DEF CountedUpdate, Put, Del, RunToken, AckFor, ModAck, From, Vouched, Yes

LEMMA OwedParts ==
    ASSUME NEW c \in Call, NEW m \in Node
    PROVE  /\ InQueue(c, m)' <=> \E a \in Node : Holds(queue'[a][m], CountedUpdate(c))
           /\ IsSaved(c, m)' <=> \E a \in Node : RunToken(c) \in saved'[a][m]
           /\ InGot(c, m)' <=> Holds(got'[RunToken(c)], From(m))
BY Constant DEF InQueue, IsSaved, InGot

(* Nothing happens to the ack of m for c, but that it is lost or counted.  *)
StaysAt(c, m) ==
    /\ Fate(c)
    /\ \A a \in Node :
           /\ Quieter(queue[a][m], queue'[a][m], CountedUpdate(c))
           /\ RunToken(c) \in saved'[a][m] => RunToken(c) \in saved[a][m]
           /\ Holds(answers'[a][m], AckFor(c)) =>
                  Holds(answers[a][m], AckFor(c)) \/ m \in stored'[c]
    /\ Quieter(got[RunToken(c)], got'[RunToken(c)], From(m))

LEMMA AckStaysAt ==
    ASSUME NEW c \in Call, NEW m \in Node, AckAt(c, m), StaysAt(c, m)
    PROVE  AckAt(c, m)' /\ (Owed(c, m)' => Owed(c, m))
<1>1. ASSUME NEW a \in Node
      PROVE  /\ Holds(queue'[a][m], CountedUpdate(c)) =>
                    Holds(queue[a][m], CountedUpdate(c))
             /\ Once(queue'[a][m], CountedUpdate(c))
             /\ RunToken(c) \in saved'[a][m] => RunToken(c) \in saved[a][m]
             /\ Holds(answers'[a][m], AckFor(c)) => m \in stored'[c]
  BY DEF StaysAt, Quieter, AckAt, Fate, Follows
<1>2. /\ Holds(got'[RunToken(c)], From(m)) => Holds(got[RunToken(c)], From(m))
      /\ Once(got'[RunToken(c)], From(m))
  BY DEF StaysAt, Quieter, AckAt
<1>3. /\ InQueue(c, m)' => InQueue(c, m)
      /\ IsSaved(c, m)' => IsSaved(c, m)
      /\ InGot(c, m)' => InGot(c, m)
  BY <1>1, <1>2, OwedParts DEF InQueue, IsSaved, InGot
<1>4. /\ run[c].pc \notin Early => run'[c].pc \notin Early /\ run'[c].at = run[c].at
      /\ stored[c] \subseteq stored'[c]
  BY DEF StaysAt, Fate, Follows, Early, Idle
<1>5. AckAt(c, m)'
  BY <1>1, <1>2, <1>3, <1>4, Constant, OwedParts DEF AckAt, InGot
<1> QED  BY <1>3, <1>5 DEF Owed

LEMMA AckStays ==
    ASSUME AckInv, NEW c \in Call, Stays(c), NEW m \in Node
    PROVE  AckAt(c, m)' /\ (Owed(c, m)' => Owed(c, m))
<1>1. StaysAt(c, m)
  BY DEF Stays, StaysAt, Quiet, SavedShrinks, AnswersStay, GotStays
<1> QED  BY <1>1, AckStaysAt DEF AckInv

LEMMA VouchStays ==
    ASSUME VouchInv, NEW c \in Call, Fate(c), AnswersStay(c),
           Holds(got'[<<c, "mod">>], Yes) =>
               Holds(got[<<c, "mod">>], Yes) \/ run'[c].verdict = "true"
    PROVE  VouchFits(c)'
<1>1. VouchFits(c) /\ (run[c].verdict = "true" => run'[c].verdict = "true")
  BY DEF VouchInv, Fate, Follows
<1>2. Vouched(c)' = Vouched(c) /\ Yes' = Yes
  BY DEF Vouched, ModAck, Yes
<1> QED  BY <1>1, <1>2 DEF VouchFits, AnswersStay

-----------------------------------------------------------------------------
(* What the steps do to the receivers.                                     *)
LEMMA GotQuiet ==
    ASSUME TypeInv, GotShrinks, NEW c \in Call
    PROVE  GotStays(c)
<1> DEFINE S == Answer(Call \cup {None} \cup BOOLEAN)
<1>1. got \in [Token -> Seq(S)]
  BY TypeParts DEF GotInv
<1>2. RunToken(c) \in Token /\ <<c, "mod">> \in Token
  BY DEF RunToken, Token
<1> HIDE DEF S
<1>3. ASSUME NEW t \in Token, NEW rs
      PROVE  Quieter(got[t], got'[t], rs)
  <2>1. {} \cap rs = {} /\ {} \in SUBSET S
    OBVIOUS
  <2> QED  BY <1>1, <2>1, ChangesQuiet DEF GotShrinks
<1> QED  BY <1>2, <1>3 DEF GotStays, Quieter

LEMMA DropShrinks ==
    ASSUME NEW ts, Drop(ts)
    PROVE  GotShrinks
BY DEF Drop, GotShrinks, Changes

LEMMA TakeShrinks ==
    ASSUME TypeInv, NEW t \in Token,
           got' = [got EXCEPT ![t] = IF @ = <<>> THEN @ ELSE Tail(@)]
    PROVE  GotShrinks
<1>1. \A s \in Token : got'[s] = IF s = t /\ got[t] /= <<>>
                                 THEN Tail(got[t]) ELSE got[s]
  BY TypeParts DEF GotInv
<1> QED  BY <1>1 DEF GotShrinks, Changes

LEMMA SameGot == UNCHANGED got => GotShrinks
BY DEF GotShrinks, Changes

(* All but the delivery of an answer.                                      *)
LEMMA CallGot ==
    ASSUME TypeInv, NEW c \in Call, BeginCall(c) \/ CallStep(c) \/ RunStep(c)
    PROVE  GotShrinks
<1>1. CASE UNCHANGED got
  BY <1>1, SameGot
<1>2. CASE \E ts : Drop(ts)
  BY <1>2, DropShrinks
<1>3. CASE \E t \in Token :
              got' = [got EXCEPT ![t] = IF @ = <<>> THEN @ ELSE Tail(@)]
  BY <1>3, TakeShrinks
<1>4. CASE TakeAnswer(c)
  <2>1. <<c, "get">> \in Token
    BY DEF Token
  <2>2. CASE \E ts : Drop(ts)
    BY <1>2, <2>2
  <2>3. CASE got' = [got EXCEPT ![<<c, "get">>] = Tail(@)]
    <3>1. got[<<c, "get">>] /= <<>>
      BY <1>4 DEF TakeAnswer
    <3>2. got' = [got EXCEPT ![<<c, "get">>] = IF @ = <<>> THEN @ ELSE Tail(@)]
      BY <2>3, <3>1
    <3> QED  BY <1>3, <2>1, <3>2
  <2> QED  BY <1>4, <2>2, <2>3 DEF TakeAnswer
<1>5. CASE RunTakesAck(c) \/ RunMissesAck(c)
  <2>1. <<c, "run">> \in Token
    BY DEF Token
  <2> QED  BY <1>2, <1>3, <1>5, <2>1 DEF RunTakesAck, RunMissesAck, RunTurns
<1>6. CASE TakeVerdict(c) \/ CallFails(c) \/ RunSucceeds(c)
  BY <1>2, <1>6 DEF TakeVerdict, CallFails, RunSucceeds
<1>7. CASE BeginCall(c) \/ StoreHere(c) \/ SendAll(c) \/ Look(c) \/ Ask(c) \/ Push(c)
  BY <1>1, <1>7 DEF BeginCall, StoreHere, SendAll, Look, Ask, Push, requestVars
<1>8. CASE RunSends(c) \/ RunStores(c) \/ OwnRunEnds(c) \/ ServedRunEnds(c)
  BY <1>1, <1>8 DEF RunSends, RunStores, OwnRunEnds, ServedRunEnds, requestVars
<1> QED  BY <1>4, <1>5, <1>6, <1>7, <1>8 DEF CallStep, RunStep

LEMMA OtherGot ==
    ASSUME NEW n \in Node, NEW m \in Node
    PROVE  /\ ServerStep(n, m) => GotShrinks
           /\ ClientStep(n, m) \/ Fault(n, m) => GotShrinks \/ DeliverAnswer(n, m)
           /\ PublishView(n) \/ Empty(n) \/ Stop(n) \/ Start(n) => GotShrinks
<1>1. ServerStep(n, m) => UNCHANGED got
  BY DEF ServerStep, ServeGet, ServeUpdate, ServeMod, ServeWrite, RefuseWrite
<1>2. ClientStep(n, m) \/ Fault(n, m) => UNCHANGED got \/ DeliverAnswer(n, m)
  BY DEF ClientStep, Fault, Forward, Connect, Ends, TearDown, Break, LateAnswer,
     LoseRest, OpenStream, OpeningFails, OpeningUnanswered, OpenFails,
     LeftBehindTakes, LeftBehindTakesOther, requestVars
<1>3. PublishView(n) \/ Empty(n) \/ Start(n) => UNCHANGED got
  BY DEF PublishView, Empty, Start, requestVars
<1>4. Stop(n) => \E ts : Drop(ts)
  BY DEF Stop, EndProcess
<1> QED  BY <1>1, <1>2, <1>3, <1>4, SameGot, DropShrinks

(* All but a forwarder.                                                    *)
LEMMA SavedLess ==
    ASSUME Wires
    PROVE  /\ \A c \in Call : BeginCall(c) \/ CallStep(c) \/ RunStep(c) => SavedShrinks
           /\ \A n, m \in Node :
                  /\ ServerStep(n, m) => SavedShrinks
                  /\ ClientStep(n, m) \/ Fault(n, m) => SavedShrinks \/ Forward(n, m)
           /\ \A n \in Node :
                  PublishView(n) \/ Empty(n) \/ Stop(n) \/ Start(n) => SavedShrinks
<1>1. UNCHANGED saved => SavedShrinks
  BY DEF SavedShrinks
<1>2. ASSUME NEW c \in Call, BeginCall(c) \/ CallStep(c) \/ RunStep(c)
      PROVE  UNCHANGED saved
  BY <1>2 DEF BeginCall, CallStep, RunStep, StoreHere, SendAll, Look, Ask,
     TakeAnswer, Push, TakeVerdict, CallFails, RunSends, RunStores, RunTakesAck,
     RunMissesAck, RunTurns, RunSucceeds, OwnRunEnds, ServedRunEnds,
     requestVars, otherRequests
<1>3. ASSUME NEW n \in Node, NEW m \in Node, ServerStep(n, m)
      PROVE  UNCHANGED saved
  BY <1>3 DEF ServerStep, ServeGet, ServeUpdate, ServeMod, ServeWrite, RefuseWrite
<1>4. saved \in [Node -> [Node -> SUBSET Token]]
  BY DEF Wires
<1>5. ASSUME NEW n \in Node, NEW m \in Node, NEW S,
             \/ saved' = [saved EXCEPT ![n][m] = @ \ S]
             \/ saved' = [saved EXCEPT ![n][m] = {}]
      PROVE  SavedShrinks
  BY <1>4, <1>5 DEF SavedShrinks
<1>6. ASSUME NEW n \in Node, NEW m \in Node, ClientStep(n, m) \/ Fault(n, m),
             ~Forward(n, m)
      PROVE  SavedShrinks
  <2>1. CASE UNCHANGED saved
    BY <1>1, <2>1
  <2>2. CASE DeliverAnswer(n, m) \/ LateAnswer(n, m)
    BY <1>5, <2>2 DEF DeliverAnswer, LateAnswer, TakesAnswer
  <2>3. CASE Ends(n, m) \/ Break(n, m)
    BY <1>5, <2>3 DEF Ends, Break, TearDown, AbortCallbacks
  <2>4. CASE \/ Connect(n, m) \/ LoseRest(n, m) \/ OpenStream(n, m)
             \/ LeftBehindTakes(n, m) \/ LeftBehindTakesOther(n, m)
    BY <2>1, <2>4 DEF Connect, LoseRest, OpenStream, LeftBehindTakes,
       LeftBehindTakesOther, requestVars
  <2>5. CASE OpeningFails(n, m) \/ OpeningUnanswered(n, m)
    BY <1>5, <2>5 DEF OpeningFails, OpeningUnanswered, OpenFails
  <2> QED  BY <1>6, <2>2, <2>3, <2>4, <2>5 DEF ClientStep, Fault
<1>7. ASSUME NEW n \in Node, PublishView(n) \/ Empty(n) \/ Stop(n) \/ Start(n)
      PROVE  SavedShrinks
  <2>1. CASE Stop(n)
    BY <1>4, <2>1 DEF Stop, EndProcess, SavedShrinks
  <2>2. CASE PublishView(n) \/ Empty(n) \/ Start(n)
    BY <1>1, <2>2 DEF PublishView, Empty, Start, requestVars
  <2> QED  BY <1>7, <2>1, <2>2
<1> QED  BY <1>1, <1>2, <1>3, <1>6, <1>7

-----------------------------------------------------------------------------
(* What the steps do to the answers.                                       *)
LEMMA AnswersQuiet ==
    ASSUME Wires, AnswersShrink, NEW c \in Call
    PROVE  AnswersStay(c)
<1>1. ASSUME NEW a \in Node, NEW m \in Node, NEW rs
      PROVE  Quieter(answers[a][m], answers'[a][m], rs)
  <2>1. answers[a][m] \in Seq(Ack) /\ {} \cap rs = {} /\ {} \in SUBSET Ack
    BY DEF Wires, Table
  <2> QED  BY <2>1, ChangesQuiet DEF AnswersShrink
<1> QED  BY <1>1 DEF AnswersStay, Quieter

LEMMA AnswersAdd ==
    ASSUME Wires, NEW c \in Call, NEW k \in Node, NEW e \in Ack,
           \A a, m \in Node : \/ answers'[a][m] = answers[a][m]
                              \/ m = k /\ answers'[a][m] = Append(answers[a][m], e),
           e \in AckFor(c) => k \in stored'[c],
           e \in Vouched(c) => run'[c].verdict = "true"
    PROVE  AnswersStay(c)
<1>1. ASSUME NEW a \in Node, NEW m \in Node, NEW rs,
             Holds(answers'[a][m], rs), ~Holds(answers[a][m], rs)
      PROVE  m = k /\ e \in rs
  <2>1. answers[a][m] \in Seq(Ack)
    BY DEF Wires, Table
  <2> QED  BY <1>1, <2>1, HoldsAppend
<1> QED  BY <1>1 DEF AnswersStay

LEMMA AnsweredAdds ==
    ASSUME Wires, NEW n \in Node, NEW k \in Node, NEW e,
           answers' = Answered(n, k, e)
    PROVE  \A a, m \in Node : \/ answers'[a][m] = answers[a][m]
                              \/ m = k /\ answers'[a][m] = Append(answers[a][m], e)
BY DEF Wires, Table, Answered

LEMMA SameAnswers == UNCHANGED answers => AnswersShrink
BY DEF AnswersShrink, Changes

(* An answer of yes is the verdict of a run that succeeded.                *)
LEMMA ServedRunAnswers ==
    ASSUME TypeInv, NEW c \in Call, ServedRunEnds(c), NEW d \in Call, Fate(d)
    PROVE  AnswersStay(d)
<1> DEFINE e == ModAck(<<c, "mod">>, run[c].verdict = "true")
<1>1. Wires /\ run \in [Call -> RunRecord]
  BY TypeParts, OpsTyped DEF OpsTypes
<1>2. \A a, m \in Node :
          \/ answers'[a][m] = answers[a][m]
          \/ m = run[c].at /\ answers'[a][m] = Append(answers[a][m], e)
  BY <1>1 DEF ServedRunEnds, Answered, Wires, Table
<1>3. e \in Ack
  BY AckMade
<1>4. e \notin AckFor(d)
  BY DEF AckFor, ModAck, RunToken
<1>5. e \in Vouched(d) => run'[d].verdict = "true"
  BY DEF Vouched, ModAck, Fate, Follows
<1> HIDE DEF e
<1>6. CASE run[c].at \in Node
  BY <1>1, <1>2, <1>3, <1>4, <1>5, <1>6, AnswersAdd
<1>7. CASE run[c].at \notin Node
  <2>1. AnswersShrink
    BY <1>2, <1>7 DEF AnswersShrink, Changes
  <2> QED  BY <1>1, <2>1, AnswersQuiet
<1> QED  BY <1>6, <1>7

LEMMA CallAnswers ==
    ASSUME TypeInv, NEW c \in Call, BeginCall(c) \/ CallStep(c) \/ RunStep(c),
           NEW d \in Call, Fate(d)
    PROVE  AnswersStay(d)
<1>1. ~ServedRunEnds(c) => UNCHANGED answers
  BY DEF BeginCall, CallStep, RunStep, StoreHere, SendAll, Look, Ask,
     TakeAnswer, Push, TakeVerdict, CallFails, RunSends, RunStores, RunTakesAck,
     RunMissesAck, RunTurns, RunSucceeds, OwnRunEnds, requestVars, otherRequests
<1> QED  BY <1>1, ServedRunAnswers, SameAnswers, AnswersQuiet, TypeParts

(* An ack for a run is of a member that has carried the write out.         *)
LEMMA ServerAnswers ==
    ASSUME TypeInv, NEW n \in Node, NEW m \in Node, ServerStep(n, m),
           NEW d \in Call, Fate(d)
    PROVE  AnswersStay(d)
<1>1. Wires /\ CacheOpsTypeOK
  BY TypeParts
<1>2. ASSUME NEW e \in Ack, answers' = Answered(n, m, e),
             e \in AckFor(d) => m \in stored'[d],
             e \notin Vouched(d)
      PROVE  AnswersStay(d)
  BY <1>1, <1>2, AnsweredAdds, AnswersAdd
<1>3. Error \notin AckFor(d) /\ Error \notin Vouched(d) /\ Error \in Ack
  BY DEF Error, AckFor, Vouched, ModAck, Ack
<1>4. CASE ServeGet(n, m)
  <2>1. GetAck(cache[m]) \in Ack
    <3>1. cache[m] \in Call \cup {None}
      BY <1>1 DEF Wires
    <3> QED  BY <3>1 DEF Ack, GetAck
  <2>2. GetAck(cache[m]) \notin AckFor(d) /\ GetAck(cache[m]) \notin Vouched(d)
    BY DEF GetAck, AckFor, Vouched, ModAck
  <2> QED  BY <1>2, <1>4, <2>1, <2>2 DEF ServeGet
<1>5. CASE ServeUpdate(n, m)
  <2>1. PICK r \in RpcRequest : /\ r = Head(stream[n][m]) /\ r.is \in {"Put", "Del"}
                                /\ answers' = Answered(n, m, ModAck(TokenOf(r), TRUE))
                                /\ stored' = [stored EXCEPT ![r.call] = @ \cup {m}]
    BY <1>1, <1>5, ReadsTypes DEF ServeUpdate, ServeMod
  <2>2. TokenOf(r) \in Call \X {"mod", "run", "none"} /\ r.resp /= "mod"
        /\ r.call \in Call
    BY <2>1 DEF RpcRequest, TokenOf
  <2>3. ModAck(TokenOf(r), TRUE) \in Ack
    BY <2>2, AckMade
  <2>4. ModAck(TokenOf(r), TRUE) \in AckFor(d) => r.call = d
    BY DEF AckFor, ModAck, TokenOf, RunToken
  <2>5. ModAck(TokenOf(r), TRUE) \notin Vouched(d)
    BY <2>2 DEF Vouched, ModAck, TokenOf
  <2>6. r.call = d => m \in stored'[d]
    BY <1>1, <2>1, <2>2, OpsTyped DEF OpsTypes
  <2> QED  BY <1>2, <2>1, <2>3, <2>4, <2>5, <2>6
<1>6. CASE ServeWrite(n, m) \/ RefuseWrite(n, m)
  <2>1. UNCHANGED answers \/ answers' = Answered(n, m, Error)
    BY <1>6 DEF ServeWrite, RefuseWrite
  <2> QED  BY <1>1, <1>2, <1>3, <2>1, SameAnswers, AnswersQuiet
<1> QED  BY <1>4, <1>5, <1>6 DEF ServerStep

LEMMA DeliverShrinks ==
    ASSUME Wires, NEW n \in Node, NEW m \in Node,
           DeliverAnswer(n, m) \/ LateAnswer(n, m)
    PROVE  AnswersShrink
<1>1. /\ answers' = [answers EXCEPT ![n][m] = Tail(@)]
      /\ answers[n][m] /= <<>>
  BY DEF DeliverAnswer, LateAnswer, TakesAnswer
<1>2. \A a, b \in Node : answers'[a][b] = IF a = n /\ b = m
                             THEN Tail(answers[a][b]) ELSE answers[a][b]
  BY <1>1 DEF Wires, Table
<1> QED  BY <1>1, <1>2 DEF AnswersShrink, Changes

LEMMA OtherAnswers ==
    ASSUME Wires, NEW n \in Node, NEW m \in Node
    PROVE  /\ ClientStep(n, m) \/ Fault(n, m) => AnswersShrink
           /\ PublishView(n) \/ Empty(n) \/ Stop(n) \/ Start(n) => AnswersShrink
<1>1. answers \in [Node -> [Node -> Seq(Ack)]]
  BY DEF Wires, Table
<1>2. UNCHANGED answers => AnswersShrink
  BY SameAnswers
<1>3. ASSUME ClientStep(n, m) \/ Fault(n, m)
      PROVE  AnswersShrink
  <2>1. CASE DeliverAnswer(n, m) \/ LateAnswer(n, m)
    BY <2>1, DeliverShrinks
  <2>2. CASE Ends(n, m) \/ Break(n, m)
    <3>1. answers' = [answers EXCEPT ![n][m] = <<>>]
      BY <2>2 DEF Ends, Break, TearDown
    <3>2. \A a, b \in Node : answers'[a][b] = answers[a][b] \/ answers'[a][b] = <<>>
      BY <1>1, <3>1
    <3> QED  BY <3>2 DEF AnswersShrink, Changes
  <2>3. CASE \/ Forward(n, m) \/ Connect(n, m) \/ LoseRest(n, m)
             \/ OpenStream(n, m) \/ OpeningFails(n, m) \/ OpeningUnanswered(n, m)
             \/ LeftBehindTakes(n, m) \/ LeftBehindTakesOther(n, m)
    BY <1>2, <2>3 DEF Forward, Connect, LoseRest, OpenStream, OpeningFails,
       OpeningUnanswered, OpenFails, LeftBehindTakes, LeftBehindTakesOther,
       requestVars
  <2> QED  BY <1>3, <2>1, <2>2, <2>3 DEF ClientStep, Fault
<1>4. Stop(n) => AnswersShrink
  BY <1>1 DEF Stop, EndProcess, AnswersShrink, Changes
<1>5. PublishView(n) \/ Empty(n) \/ Start(n) => AnswersShrink
  BY <1>2 DEF PublishView, Empty, Start, requestVars
<1> QED  BY <1>3, <1>4, <1>5

-----------------------------------------------------------------------------
(* No request for an ack of d is made, but by the run of d.                *)
LEMMA NotCounted ==
    ASSUME NEW c \in Call, NEW d \in Call
    PROVE  /\ {Update(c, "none")} \cap CountedUpdate(d) = {}
           /\ {Get(c)} \cap CountedUpdate(d) = {}
           /\ {Insert(c), Remove(c)} \cap CountedUpdate(d) = {}
           /\ c /= d \/ run[c].need = 0 => {Update(c, Answers(c))} \cap CountedUpdate(d) = {}
BY DEF CountedUpdate, Update, Answers, Put, Del, Get, Insert, Remove

LEMMA CallQuiet ==
    ASSUME TypeInv, NEW c \in Call, BeginCall(c) \/ CallStep(c) \/ RunStep(c),
           NEW d \in Call, ~(RunSends(c) /\ c = d)
    PROVE  Quiet(CountedUpdate(d))
<1>0. Wires /\ CallInv
  BY TypeParts
<1>1. CASE Silent(c)
  BY <1>0, <1>1, SilentWires, WiresQuiet
<1>2. CASE SendAll(c) \/ Ask(c) \/ Push(c) \/ RunSends(c)
  <2>1. PICK es \in SUBSET RpcRequest :
            WiresChange(es) /\ es \cap CountedUpdate(d) = {}
    <3>1. Answers(c) \in {"run", "none"}
      BY DEF Answers
    <3>2. /\ {Update(c, "none")} \subseteq RpcRequest /\ {Get(c)} \subseteq RpcRequest
          /\ {Insert(c), Remove(c)} \subseteq RpcRequest
          /\ {Update(c, Answers(c))} \subseteq RpcRequest
      BY <3>1, RequestMade
    <3> QED  BY <1>0, <1>2, <3>2, SendWires, NotCounted
  <2> QED  BY <1>0, <2>1, WiresQuiet
<1> QED  BY <1>1, <1>2 DEF Silent, CallStep, RunStep

LEMMA OtherQuiet ==
    ASSUME Wires, NEW n \in Node, NEW m \in Node, NEW d \in Call,
           \/ ServerStep(n, m)
           \/ (ClientStep(n, m) \/ Fault(n, m)) /\ ~Forward(n, m)
           \/ PublishView(n) \/ Empty(n) \/ Stop(n) \/ Start(n)
    PROVE  Quiet(CountedUpdate(d))
<1>1. WiresChange({})
  BY ServerWires, AroundWires, ProcessWires DEF ClientStep, Fault, Around
<1> QED  BY <1>1, WiresQuiet

(* Steps that do not move an ack of d from one place to the next.          *)
LEMMA CallStays ==
    ASSUME TypeInv, NEW c \in Call, BeginCall(c) \/ CallStep(c) \/ RunStep(c),
           NEW d \in Call, Fate(d), ~(RunSends(c) /\ c = d)
    PROVE  Stays(d)
BY CallAnswers, CallGot, GotQuiet, SavedLess, CallQuiet, TypeParts DEF Stays

LEMMA ServerStays ==
    ASSUME TypeInv, NEW n \in Node, NEW m \in Node, ServerStep(n, m),
           NEW d \in Call, Fate(d)
    PROVE  Stays(d)
BY ServerAnswers, OtherGot, GotQuiet, SavedLess, OtherQuiet, TypeParts DEF Stays

LEMMA ClientStays ==
    ASSUME TypeInv, NEW n \in Node, NEW m \in Node,
           ClientStep(n, m) \/ Fault(n, m), ~Forward(n, m), ~DeliverAnswer(n, m),
           NEW d \in Call, Fate(d)
    PROVE  Stays(d)
BY OtherAnswers, AnswersQuiet, OtherGot, GotQuiet, SavedLess, OtherQuiet, TypeParts
   DEF Stays

LEMMA ProcessStays ==
    ASSUME TypeInv, NEW n \in Node,
           PublishView(n) \/ Empty(n) \/ Stop(n) \/ Start(n),
           NEW d \in Call, Fate(d)
    PROVE  Stays(d)
BY OtherAnswers, AnswersQuiet, OtherGot, GotQuiet, SavedLess, OtherQuiet, TypeParts
   DEF Stays

(* A run asks every other member for an ack, and has asked none before.    *)
LEMMA RunSendsAcks ==
    ASSUME TypeInv, AckInv, NEW c \in Call, RunSends(c), Fate(c), NEW m \in Node
    PROVE  AckAt(c, m)'
<1>0. Wires /\ CallInv /\ run \in [Call -> RunRecord]
  BY TypeParts, OpsTyped DEF OpsTypes
<1>1. AckAt(c, m) /\ run[c].pc = "send" /\ run'[c].pc = "store"
      /\ run'[c].at = run[c].at /\ run[c].at \in Node
      /\ UNCHANGED <<got, saved, answers, stored>>
  BY <1>0 DEF AckInv, RunSends, otherRequests, historyVars, CallInv, CallFits, RunRecord
<1>2. ~InQueue(c, m) /\ ~IsSaved(c, m) /\ ~InGot(c, m)
  BY <1>1 DEF AckAt, InQueue, IsSaved, InGot, Early
<1>3. ~IsSaved(c, m)' /\ ~InGot(c, m)'
  BY <1>1, <1>2, OwedParts DEF IsSaved, InGot
<1>4. ASSUME NEW a \in Node
      PROVE  /\ Holds(queue'[a][m], CountedUpdate(c)) => a = run[c].at /\ a /= m
             /\ Once(queue'[a][m], CountedUpdate(c))
  <2>1. Update(c, Answers(c)) \in RpcRequest /\ queue[a][m] \in Seq(RpcRequest)
    BY <1>0, RequestMade DEF Answers, Wires, Table
  <2>2. queue'[a][m] = IF a = run[c].at /\ m /= run[c].at
                       THEN Append(queue[a][m], Update(c, Answers(c)))
                       ELSE queue[a][m]
    BY <1>0, <1>1, BroadcastChanges DEF RunSends
  <2>3. ~Holds(queue[a][m], CountedUpdate(c)) /\ Once(queue[a][m], CountedUpdate(c))
    BY <1>1, <1>2 DEF InQueue, AckAt
  <2> QED  BY <2>1, <2>2, <2>3, HoldsAppend
<1>5. ~Holds(got'[RunToken(c)], From(m)) /\ Once(got'[RunToken(c)], From(m))
  BY <1>1, <1>2 DEF InGot, AckAt
<1>6. \A a \in Node : RunToken(c) \notin saved'[a][m]
  BY <1>1, <1>2 DEF IsSaved
<1>7. \A a \in Node : Holds(answers'[a][m], AckFor(c)) => m \in stored'[c]
  BY <1>1 DEF AckAt
<1> QED  BY <1>1, <1>3, <1>4, <1>5, <1>6, <1>7, Constant, OwedParts
         DEF AckAt, Early, InGot

(* A forwarder moves a request for an ack, whose sender is saved with that. *)
LEMMA ForwardAcks ==
    ASSUME TypeInv, AckInv, NEW n \in Node, NEW m \in Node, Forward(n, m),
           NEW c \in Call, Fate(c), UNCHANGED <<run, stored>>, NEW k \in Node
    PROVE  AckAt(c, k)' /\ (Owed(c, k)' => Owed(c, k))
<1> DEFINE r == Head(queue[n][m])
<1>0. Wires
  BY TypeParts
<1>1. /\ queue[n][m] \in Seq(RpcRequest) /\ queue[n][m] /= <<>> /\ r \in RpcRequest
      /\ \A a, b \in Node : queue'[a][b] = IF a = n /\ b = m THEN Tail(queue[a][b])
                                           ELSE queue[a][b]
      /\ \A a, b \in Node : saved'[a][b] = IF a = n /\ b = m THEN Saved(n, m, r)
                                           ELSE saved[a][b]
  BY <1>0, ForwardMoves
<1>2. UNCHANGED <<answers, got>>
  BY DEF Forward
<1>3. AckAt(c, k)
  BY DEF AckInv
<1> HIDE DEF r
<1>4. CASE k = m /\ r \in CountedUpdate(c)
  <2>1. /\ Holds(queue[n][m], CountedUpdate(c))
        /\ Once(queue[n][m], CountedUpdate(c)) =>
               ~Holds(Tail(queue[n][m]), CountedUpdate(c))
    BY <1>1, <1>4, HoldsTail DEF r
  <2>2. n = run[c].at /\ n /= m /\ run[c].pc \notin Early
        /\ ~Holds(Tail(queue[n][m]), CountedUpdate(c))
    BY <1>3, <1>4, <2>1 DEF AckAt
  <2>3. InQueue(c, m) /\ ~IsSaved(c, m) /\ ~InGot(c, m)
    BY <1>3, <1>4, <2>1 DEF AckAt, InQueue
  <2>4. \A a \in Node : a /= n => ~Holds(queue[a][m], CountedUpdate(c))
    BY <1>3, <1>4, <2>2 DEF AckAt
  <2>5. \A a \in Node : ~Holds(queue'[a][m], CountedUpdate(c))
    BY <1>1, <2>2, <2>4
  <2>6. \A a \in Node : Once(queue'[a][m], CountedUpdate(c))
    BY <2>5 DEF Once, Holds
  <2>7. \A a \in Node : RunToken(c) \in saved'[a][m] => a = n
    BY <1>1, <2>3 DEF IsSaved
  <2>8. ~InQueue(c, m)' /\ ~InGot(c, m)'
    BY <1>2, <2>3, <2>5, OwedParts DEF InGot
  <2>9. /\ ~Holds(got'[RunToken(c)], From(m)) /\ Once(got'[RunToken(c)], From(m))
        /\ \A a \in Node : Holds(answers'[a][m], AckFor(c)) => m \in stored'[c]
    BY <1>2, <1>3, <1>4, <2>3 DEF AckAt, InGot
  <2>10. AckAt(c, m)'
    BY <2>2, <2>5, <2>6, <2>7, <2>8, <2>9, Constant, OwedParts DEF AckAt, InGot
  <2> QED  BY <1>4, <2>3, <2>10 DEF Owed
<1>5. CASE ~(k = m /\ r \in CountedUpdate(c))
  <2>1. ASSUME NEW a \in Node
        PROVE  /\ Quieter(queue[a][k], queue'[a][k], CountedUpdate(c))
               /\ RunToken(c) \in saved'[a][k] => RunToken(c) \in saved[a][k]
    <3>1. queue[a][k] \in Seq(RpcRequest)
      BY <1>0 DEF Wires, Table
    <3>2. Quieter(queue[a][k], queue'[a][k], CountedUpdate(c))
      BY <1>1, <3>1, QuietSteps
    <3>3. k = m => TokenOf(r) /= RunToken(c)
      BY <1>1, <1>5, RequestKinds DEF RunToken
    <3>4. RunToken(c) \in saved'[a][k] => RunToken(c) \in saved[a][k]
      BY <1>1, <3>3 DEF Saved
    <3> QED  BY <3>2, <3>4
  <2>2. Quieter(got[RunToken(c)], got'[RunToken(c)], From(k))
    BY <1>2 DEF Quieter
  <2>3. StaysAt(c, k)
    BY <1>2, <2>1, <2>2 DEF StaysAt
  <2> QED  BY <1>3, <2>3, AckStaysAt
<1> QED  BY <1>4, <1>5

(* What an answer is found to be meant for by the callback task.           *)
LEMMA MeantFor ==
    ASSUME NEW n \in Node, NEW m \in Node, NEW a \in Ack, a /= Error,
           NEW c \in Call
    PROVE  /\ RunToken(c) \in Meant(n, m, a) =>
                  a \in AckFor(c) /\ RunToken(c) \in saved[n][m]
           /\ <<c, "mod">> \in Meant(n, m, a) =>
                  a.val \in BOOLEAN /\ (a.val = TRUE => a \in Vouched(c))
<1>1. a.is \in {"GetAck", "ModAck"}
  BY AckFields
<1>2. CASE a.is = "GetAck"
  BY <1>2 DEF Meant, Lookups, RunToken
<1>3. CASE a.is = "ModAck"
  <2>1. a = ModAck(a.token, a.val) /\ a.val \in BOOLEAN
    BY <1>3 DEF Ack, ModAck, Error
  <2>2. \A t : t \in Meant(n, m, a) => t = a.token /\ t \in saved[n][m]
    BY <1>3 DEF Meant
  <2> QED  BY <2>1, <2>2 DEF AckFor, Vouched
<1> QED  BY <1>1, <1>2, <1>3

LEMMA Delivers ==
    ASSUME TypeInv, NEW n \in Node, NEW m \in Node, DeliverAnswer(n, m)
    PROVE  \E a \in Ack, e \in Answer(Call \cup {None} \cup BOOLEAN) :
               /\ a = Head(answers[n][m]) /\ a /= Error /\ answers[n][m] /= <<>>
               /\ e = [from |-> m, val |-> a.val]
               /\ \A t \in Token :
                      got'[t] = IF t \in Meant(n, m, a) \cap waiting
                                THEN Append(got[t], e) ELSE got[t]
               /\ \A x, y \in Node : saved'[x][y] = IF x = n /\ y = m
                      THEN saved[n][m] \ Meant(n, m, a) ELSE saved[x][y]
<1> DEFINE a == Head(answers[n][m])
           e == [from |-> m, val |-> a.val]
<1>1. Wires
  BY TypeParts
<1>2. /\ answers[n][m] /= <<>> /\ a /= Error
      /\ saved' = [saved EXCEPT ![n][m] = @ \ Meant(n, m, a)]
      /\ got' = [t \in Token |-> IF t \in Meant(n, m, a) \cap waiting
                                 THEN Append(got[t], e) ELSE got[t]]
  BY DEF DeliverAnswer, TakesAnswer
<1>3. a \in Ack
  BY <1>1, <1>2, TableTail DEF Wires
<1>4. e \in Answer(Call \cup {None} \cup BOOLEAN)
  BY <1>2, <1>3, AckFields DEF Answer
<1> HIDE DEF a, e
<1>5. \A x, y \in Node : saved'[x][y] = IF x = n /\ y = m
          THEN saved[n][m] \ Meant(n, m, a) ELSE saved[x][y]
  BY <1>1, <1>2 DEF Wires
<1>6. \A t \in Token : got'[t] = IF t \in Meant(n, m, a) \cap waiting
                                 THEN Append(got[t], e) ELSE got[t]
  BY <1>2
<1> QED  BY <1>2, <1>3, <1>4, <1>5, <1>6 DEF a, e

(* An ack that is delivered was saved for, and is the only one of m for c. *)
LEMMA DeliverAcks ==
    ASSUME TypeInv, AckInv, NEW n \in Node, NEW m \in Node, DeliverAnswer(n, m),
           NEW c \in Call, Fate(c), UNCHANGED <<run, stored>>, NEW k \in Node
    PROVE  AckAt(c, k)' /\ (Owed(c, k)' => Owed(c, k))
<1> DEFINE S == Answer(Call \cup {None} \cup BOOLEAN)
<1>1. PICK a \in Ack, e \in S :
               /\ a = Head(answers[n][m]) /\ a /= Error /\ answers[n][m] /= <<>>
               /\ e = [from |-> m, val |-> a.val]
               /\ \A t \in Token :
                      got'[t] = IF t \in Meant(n, m, a) \cap waiting
                                THEN Append(got[t], e) ELSE got[t]
               /\ \A x, y \in Node : saved'[x][y] = IF x = n /\ y = m
                      THEN saved[n][m] \ Meant(n, m, a) ELSE saved[x][y]
  BY Delivers
<1>2. UNCHANGED queue /\ AnswersShrink
  BY TypeParts, DeliverShrinks DEF DeliverAnswer, TakesAnswer
<1>3. AnswersStay(c)
  BY <1>2, AnswersQuiet, TypeParts
<1>4. AckAt(c, k) /\ RunToken(c) \in Token
  BY DEF AckInv, RunToken, Token
<1>5. got[RunToken(c)] \in Seq(S) /\ answers[n][m] \in Seq(Ack)
  <2>1. got \in [Token -> Seq(S)] /\ answers \in Table(Ack)
    BY TypeParts DEF GotInv, Wires
  <2> HIDE DEF S
  <2> QED  BY <1>4, <2>1 DEF Table
<1> HIDE DEF S
<1>6. CASE k = m /\ RunToken(c) \in Meant(n, m, a)
  <2>1. a \in AckFor(c) /\ RunToken(c) \in saved[n][m]
    BY <1>1, <1>6, MeantFor
  <2>2. Holds(answers[n][m], AckFor(c))
    BY <1>1, <1>5, <2>1, HeadHeld
  <2>3. /\ m \in stored[c] /\ n = run[c].at /\ n /= m /\ run[c].pc \notin Early
        /\ IsSaved(c, m) /\ ~InQueue(c, m) /\ ~InGot(c, m)
    BY <1>4, <1>6, <2>1, <2>2 DEF AckAt, IsSaved
  <2>4. \A x \in Node : RunToken(c) \notin saved'[x][m]
    BY <1>1, <1>4, <1>6, <2>3 DEF AckAt
  <2>5. Once(got'[RunToken(c)], From(m))
    <3>1. Once(got[RunToken(c)], From(m)) /\ ~Holds(got[RunToken(c)], From(m))
      BY <1>4, <1>6, <2>3 DEF AckAt, InGot
    <3> QED  BY <1>1, <1>4, <1>5, <3>1, HoldsAppend
  <2>6. \A x \in Node : Holds(answers'[x][m], AckFor(c)) => m \in stored'[c]
    BY <2>3
  <2>7. ~InQueue(c, m)' /\ ~IsSaved(c, m)'
    BY <1>2, <2>3, <2>4, OwedParts DEF InQueue
  <2>8. \A x \in Node : /\ Once(queue'[x][m], CountedUpdate(c))
                        /\ ~Holds(queue'[x][m], CountedUpdate(c))
    BY <1>2, <1>4, <1>6, <2>3 DEF AckAt, InQueue
  <2>9. m \in stored'[c] /\ m /= run'[c].at /\ run'[c].pc \notin Early
    BY <2>3
  <2>10. AckAt(c, m)'
    BY <2>4, <2>5, <2>6, <2>7, <2>8, <2>9, Constant, OwedParts DEF AckAt
  <2> QED  BY <1>6, <2>3, <2>10 DEF Owed
<1>7. CASE ~(k = m /\ RunToken(c) \in Meant(n, m, a))
  <2>1. Quieter(got[RunToken(c)], got'[RunToken(c)], From(k))
    <3>1. CASE got'[RunToken(c)] = got[RunToken(c)]
      BY <3>1 DEF Quieter
    <3>2. CASE got'[RunToken(c)] = Append(got[RunToken(c)], e) /\ k /= m
      <4>1. e \notin From(k)
        BY <1>1, <3>2 DEF From
      <4> QED  BY <1>5, <3>2, <4>1, QuietSteps
    <3> QED  BY <1>1, <1>4, <1>7, <3>1, <3>2
  <2>2. \A x \in Node : RunToken(c) \in saved'[x][k] => RunToken(c) \in saved[x][k]
    BY <1>1
  <2>3. \A x \in Node : Quieter(queue[x][k], queue'[x][k], CountedUpdate(c))
    BY <1>2 DEF Quieter
  <2>4. StaysAt(c, k)
    BY <1>3, <2>1, <2>2, <2>3 DEF StaysAt, AnswersStay
  <2> QED  BY <1>4, <2>4, AckStaysAt
<1> QED  BY <1>6, <1>7

(* A yes that is delivered is one that was answered.                       *)
LEMMA DeliverVouch ==
    ASSUME TypeInv, VouchInv, NEW n \in Node, NEW m \in Node, DeliverAnswer(n, m),
           NEW c \in Call, Fate(c), UNCHANGED run
    PROVE  VouchFits(c)'
<1> DEFINE S == Answer(Call \cup {None} \cup BOOLEAN)
           t == <<c, "mod">>
<1>1. PICK a \in Ack, e \in S :
               /\ a = Head(answers[n][m]) /\ a /= Error /\ answers[n][m] /= <<>>
               /\ e = [from |-> m, val |-> a.val]
               /\ \A s \in Token :
                      got'[s] = IF s \in Meant(n, m, a) \cap waiting
                                THEN Append(got[s], e) ELSE got[s]
               /\ \A x, y \in Node : saved'[x][y] = IF x = n /\ y = m
                      THEN saved[n][m] \ Meant(n, m, a) ELSE saved[x][y]
  BY Delivers
<1>2. AnswersStay(c)
  BY DeliverShrinks, AnswersQuiet, TypeParts
<1>3. t \in Token
  BY DEF Token
<1>4. got[t] \in Seq(S) /\ answers[n][m] \in Seq(Ack)
  <2>1. got \in [Token -> Seq(S)] /\ answers \in Table(Ack)
    BY TypeParts DEF GotInv, Wires
  <2> HIDE DEF S
  <2> QED  BY <1>3, <2>1 DEF Table
<1> HIDE DEF S
<1>5. Holds(got'[t], Yes) => Holds(got[t], Yes) \/ run'[c].verdict = "true"
  <2>1. CASE got'[t] = got[t]
    BY <2>1
  <2>2. CASE t \in Meant(n, m, a) /\ got'[t] = Append(got[t], e)
    <3>1. Holds(got'[t], Yes) => Holds(got[t], Yes) \/ e \in Yes
      BY <1>4, <2>2, HoldsAppend
    <3>2. e \in Yes => a \in Vouched(c)
      BY <1>1, <2>2, MeantFor DEF Yes
    <3>3. a \in Vouched(c) => run[c].verdict = "true"
      BY <1>1, <1>4, HeadHeld DEF VouchInv, VouchFits
    <3> QED  BY <3>1, <3>2, <3>3
  <2> QED  BY <1>1, <1>3, <2>1, <2>2
<1> QED  BY <1>2, <1>5, VouchStays

-----------------------------------------------------------------------------
LEMMA StutterStays ==
    ASSUME TypeInv, UNCHANGED vars, NEW c \in Call, Fate(c)
    PROVE  Stays(c)
<1>1. UNCHANGED <<queue, stream, answers, saved, got>>
  BY DEF vars, requestVars
<1>2. Quiet(CountedUpdate(c)) /\ SavedShrinks
  BY <1>1 DEF Quiet, Quieter, SavedShrinks
<1> QED  BY <1>1, <1>2, SameGot, GotQuiet, SameAnswers, AnswersQuiet, TypeParts
         DEF Stays

(* Every ack stays where it is, moves on, or comes to its end.             *)
LEMMA AcksStep ==
    ASSUME TypeInv, LifeInv, AckInv, VouchInv, [Next]_vars, NEW c \in Call
    PROVE  /\ \A m \in Node : AckAt(c, m)'
           /\ VouchFits(c)'
           /\ RunSends(c) \/ OwedStays(c)
<1>0. Fate(c)
  BY LifeStep
<1>1. ASSUME Stays(c)
      PROVE  /\ \A m \in Node : AckAt(c, m)'
             /\ VouchFits(c)' /\ OwedStays(c)
  BY <1>1, AckStays, VouchStays DEF OwedStays, Stays, GotStays
<1>2. CASE RunSends(c)
  <2>1. \A m \in Node : AckAt(c, m)'
    BY <1>0, <1>2, RunSendsAcks
  <2>2. AnswersStay(c) /\ UNCHANGED got
    BY <1>0, <1>2, CallAnswers DEF RunStep, RunSends
  <2> QED  BY <1>0, <1>2, <2>1, <2>2, VouchStays
<1>3. ASSUME NEW d \in Call, BeginCall(d) \/ CallStep(d) \/ RunStep(d), ~RunSends(c)
      PROVE  Stays(c)
  BY <1>0, <1>3, CallStays
<1>4. ASSUME NEW n \in Node, NEW m \in Node, ClientStep(n, m) \/ Fault(n, m)
      PROVE  UNCHANGED <<run, stored>>
  BY <1>4 DEF ClientStep, Fault, opVars, historyVars
<1>5. ASSUME NEW n \in Node, NEW m \in Node, Forward(n, m),
             ClientStep(n, m) \/ Fault(n, m)
      PROVE  /\ \A k \in Node : AckAt(c, k)'
             /\ VouchFits(c)' /\ OwedStays(c)
  <2>1. \A k \in Node : AckAt(c, k)' /\ (Owed(c, k)' => Owed(c, k))
    BY <1>0, <1>4, <1>5, ForwardAcks
  <2>2. AnswersStay(c) /\ UNCHANGED got
    BY <1>5, OtherAnswers, AnswersQuiet, TypeParts DEF Forward
  <2> QED  BY <1>0, <2>1, <2>2, VouchStays DEF OwedStays
<1>6. ASSUME NEW n \in Node, NEW m \in Node, DeliverAnswer(n, m),
             ClientStep(n, m) \/ Fault(n, m)
      PROVE  /\ \A k \in Node : AckAt(c, k)'
             /\ VouchFits(c)' /\ OwedStays(c)
  BY <1>0, <1>4, <1>6, DeliverAcks, DeliverVouch DEF OwedStays
<1>7. ASSUME NEW n \in Node, NEW m \in Node,
             ClientStep(n, m) \/ Fault(n, m), ~Forward(n, m), ~DeliverAnswer(n, m)
      PROVE  Stays(c)
  BY <1>0, <1>7, ClientStays
<1>8. ASSUME NEW n \in Node, NEW m \in Node, ServerStep(n, m)
      PROVE  Stays(c)
  BY <1>0, <1>8, ServerStays
<1>9. ASSUME NEW n \in Node, PublishView(n) \/ Empty(n) \/ Stop(n) \/ Start(n)
      PROVE  Stays(c)
  BY <1>0, <1>9, ProcessStays
<1>10. CASE UNCHANGED vars
  BY <1>0, <1>1, <1>10, StutterStays
<1>11. CASE \E n, m \in Node : ClientStep(n, m) \/ ServerStep(n, m) \/ Fault(n, m)
  BY <1>1, <1>5, <1>6, <1>7, <1>8, <1>11
<1>12. CASE \E n \in Node : PublishView(n) \/ Empty(n) \/ Stop(n) \/ Start(n)
  BY <1>1, <1>9, <1>12
<1>13. CASE \E d \in Call : BeginCall(d) \/ CallStep(d) \/ RunStep(d)
  BY <1>1, <1>2, <1>3, <1>13
<1> QED  BY <1>10, <1>11, <1>12, <1>13 DEF Next

-----------------------------------------------------------------------------
(* A run that awaits acks has begun to before, or has just carried out the *)
(* write itself, and needs fewer only when it has taken an ack.            *)
GoesOnAwaiting(c) ==
    run'[c].pc = "await" =>
        run[c].pc \in {"store", "await"} /\ run'[c].need = run[c].need

LEMMA AwaitGoesOn ==
    ASSUME TypeInv, [Next]_vars, NEW c \in Call, ~RunTakesAck(c)
    PROVE  GoesOnAwaiting(c)
<1>1. run \in [Call -> RunRecord]
  BY TypeParts, OpsTyped DEF OpsTypes
<1>2. CASE run'[c] = run[c]
  BY <1>2 DEF GoesOnAwaiting
<1>3. CASE run'[c].pc /= "await"
  BY <1>3 DEF GoesOnAwaiting
<1>4. ASSUME NEW n \in Node, NEW m \in Node, ServerStep(n, m)
      PROVE  run'[c] = run[c] \/ run'[c].pc /= "await"
  <2>1. CASE ServeWrite(n, m)
    <3> DEFINE d == Head(stream[n][m]).call
    <3>1. \/ run' = [run EXCEPT ![d].pc = "panicked"]
          \/ StartRun(d, m, call[d].level, view[m].hosts)
      BY <2>1 DEF ServeWrite
    <3> HIDE DEF d
    <3>2. CASE run' = [run EXCEPT ![d].pc = "panicked"]
      BY <1>1, <3>2 DEF RunRecord
    <3>3. CASE StartRun(d, m, call[d].level, view[m].hosts)
      BY <1>1, <3>3 DEF StartRun
    <3> QED  BY <3>1, <3>2, <3>3
  <2>2. CASE ~ServeWrite(n, m)
    BY <1>4, <2>2 DEF ServerStep, ServeUpdate, RefuseWrite, opVars
  <2> QED  BY <2>1, <2>2
<1>5. ASSUME NEW n \in Node, Stop(n)
      PROVE  run'[c] = run[c] \/ run'[c].pc /= "await"
  BY <1>1, <1>5 DEF Stop, RunRecord
<1>6. ASSUME NEW d \in Call, BeginCall(d) \/ CallStep(d)
      PROVE  run'[c] = run[c] \/ run'[c].pc /= "await"
  <2>1. CASE UNCHANGED run
    BY <2>1
  <2>2. CASE BeginCall(d)
    BY <1>1, <2>1, <2>2 DEF BeginCall, StartRun
  <2>3. CASE CallStep(d)
    BY <2>1, <2>3 DEF CallStep, StoreHere, SendAll, Look, Ask, TakeAnswer, Push,
       TakeVerdict, CallFails
  <2> QED  BY <1>6, <2>2, <2>3
<1>7. ASSUME NEW d \in Call, RunStep(d)
      PROVE  GoesOnAwaiting(c)
  <2>1. CASE RunSends(d) \/ RunSucceeds(d) \/ OwnRunEnds(d) \/ ServedRunEnds(d)
    <3>1. run'[c] = run[c] \/ run'[c].pc /= "await"
      BY <1>1, <2>1 DEF RunSends, RunSucceeds, OwnRunEnds, ServedRunEnds, RunRecord
    <3> QED  BY <1>2, <1>3, <3>1
  <2>2. CASE RunStores(d)
    BY <1>1, <2>2 DEF RunStores, RunRecord, GoesOnAwaiting
  <2>3. CASE RunMissesAck(d) \/ RunTakesAck(d)
    <3>1. CASE d /= c
      <4>1. run'[c] = run[c]
        BY <1>1, <2>3, <3>1 DEF RunMissesAck, RunTakesAck, RunTurns
      <4> QED  BY <1>2, <4>1
    <3>2. CASE d = c
      <4>1. RunMissesAck(c) /\ run[c].pc = "await"
        BY <2>3, <3>2 DEF RunMissesAck, RunTakesAck, Awaits
      <4>2. run'[c].need = run[c].need
        BY <1>1, <4>1 DEF RunMissesAck, RunTurns, RunRecord
      <4> QED  BY <4>1, <4>2 DEF GoesOnAwaiting
    <3> QED  BY <3>1, <3>2
  <2> QED  BY <1>7, <2>1, <2>2, <2>3 DEF RunStep
<1>8. ASSUME \/ UNCHANGED vars
             \/ \E n, m \in Node : ClientStep(n, m) \/ Fault(n, m)
             \/ \E n \in Node : PublishView(n) \/ Empty(n) \/ Start(n)
      PROVE  UNCHANGED run
  BY <1>8 DEF vars, opVars, ClientStep, Fault, PublishView, Empty, Start
<1> QED  BY <1>2, <1>3, <1>4, <1>5, <1>6, <1>7, <1>8 DEF Next

(* Who was counted still is.                                               *)
LEMMA CountedStays ==
    ASSUME CacheOpsTypeOK, NEW c \in Call, Fate(c), OwedStays(c), run[c].pc \notin Idle
    PROVE  Counted(c) \subseteq Counted(c)'
<1>1. Counted(c)' = {m \in stored'[c] \ {run'[c].at} : ~Owed(c, m)'}
  BY DEF Counted
<1>2. stored[c] \subseteq stored'[c] /\ run'[c].at = run[c].at
  BY DEF Fate, Follows
<1>3. ASSUME NEW m \in Counted(c)
      PROVE  ~Owed(c, m)'
  BY OpsTyped DEF OpsTypes, Counted, OwedStays
<1> QED  BY <1>1, <1>2, <1>3 DEF Counted

(* An ack that is taken is of a member that was not counted before.        *)
LEMMA TakenCounts ==
    ASSUME TypeInv, AckInv, NEW c \in Call, RunTakesAck(c), Fate(c), OwedStays(c),
           run'[c].pc = "await"
    PROVE  /\ Cardinality(Counted(c)') >= Cardinality(Counted(c)) + 1
           /\ run'[c].need = run[c].need - 1 /\ run[c].pc = "await"
<1> DEFINE t == RunToken(c)
           S == Answer(BOOLEAN)
<1>0. CacheOpsTypeOK /\ GotInv
  BY TypeParts
<1>1. run \in [Call -> RunRecord] /\ t \in Token /\ got[t] \in Seq(S)
      /\ DOMAIN got = Token /\ run[c].pc = "await"
  BY <1>0, OpsTyped DEF OpsTypes, GotInv, GotTypeOK, RunToken, Token, RunTakesAck,
     Awaits
<1>2. got[t] /= <<>>
  BY DEF RunTakesAck, RunToken
<1>3. run' = [run EXCEPT ![c].need = run[c].need - 1, ![c].left = @ - 1]
      /\ got' = [got EXCEPT ![t] = IF @ = <<>> THEN @ ELSE Tail(@)]
      /\ UNCHANGED <<queue, saved, stored>>
  <2>1. CASE run[c].left = 1 /\ run[c].need - 1 > 0
    BY <1>1, <2>1 DEF RunTakesAck, RunTurns, RunRecord
  <2>2. CASE ~(run[c].left = 1 /\ run[c].need - 1 > 0)
    BY <2>2 DEF RunTakesAck, RunTurns, RunToken, otherRequests, historyVars
  <2> QED  BY <2>1, <2>2
<1>4. run'[c].need = run[c].need - 1 /\ run'[c].at = run[c].at
      /\ got'[t] = Tail(got[t])
  BY <1>1, <1>2, <1>3 DEF RunRecord
<1> HIDE DEF S
<1>5. Head(got[t]) \in S
  BY <1>1, <1>2, HeadTailProperties
<1>6. PICK m \in Node : Head(got[t]) \in From(m)
  BY <1>5 DEF S, Answer, From
<1>7. /\ Holds(got[t], From(m))
      /\ Once(got[t], From(m)) => ~Holds(Tail(got[t]), From(m))
  BY <1>1, <1>2, <1>6, HoldsTail
<1>8. AckAt(c, m)
  BY DEF AckInv
<1>9. m \in stored[c] \ {run[c].at} /\ InGot(c, m) /\ ~InQueue(c, m) /\ ~IsSaved(c, m)
      /\ ~Holds(Tail(got[t]), From(m))
  BY <1>7, <1>8 DEF AckAt, InGot
<1>10. ~InQueue(c, m)' /\ ~IsSaved(c, m)' /\ ~InGot(c, m)'
  BY <1>3, <1>4, <1>6, <1>9, OwedParts DEF InQueue, IsSaved
<1>11. m \in Counted(c)' /\ m \notin Counted(c)
  BY <1>3, <1>4, <1>9, <1>10 DEF Counted, Owed
<1>12. Counted(c) \subseteq Counted(c)'
  BY <1>0, <1>1, CountedStays DEF Idle
<1>13. IsFiniteSet(Counted(c)) /\ IsFiniteSet(Counted(c)')
  <2>1. Counted(c)' \subseteq Node /\ Counted(c) \subseteq Node
    BY <1>0, <1>3, OpsTyped DEF OpsTypes, Counted
  <2> QED  BY <2>1, MemberAssumption, FS_Subset
<1>14. Cardinality(Counted(c) \cup {m}) = Cardinality(Counted(c)) + 1
  BY <1>11, <1>13, FS_AddElement
<1>15. Cardinality(Counted(c) \cup {m}) <= Cardinality(Counted(c)')
  <2>1. Counted(c) \cup {m} \subseteq Counted(c)'
    BY <1>11, <1>12
  <2> QED  BY <1>13, <2>1, FS_Subset
<1>16. Cardinality(Counted(c)) \in Nat /\ Cardinality(Counted(c)') \in Nat
  BY <1>13, FS_CardinalityType
<1> QED  BY <1>1, <1>4, <1>14, <1>15, <1>16

LEMMA CountStep ==
    ASSUME TypeInv, TypeInv', LifeInv, RunInv', AckInv, VouchInv, CountInv,
           [Next]_vars, NEW c \in Call
    PROVE  CountFits(c)'
<1>0. CacheOpsTypeOK /\ CacheOpsTypeOK' /\ run \in [Call -> RunRecord]
      /\ run' \in [Call -> RunRecord]
  BY TypeParts, OpsTyped DEF OpsTypes
<1>1. Fate(c) /\ (RunSends(c) \/ OwedStays(c))
  BY LifeStep, AcksStep
<1>2. Counted(c) \subseteq Node /\ Counted(c)' \subseteq Node
  BY <1>0, OpsTyped DEF OpsTypes, Counted
<1>3. /\ IsFiniteSet(Counted(c)) /\ Cardinality(Counted(c)) \in Nat
      /\ IsFiniteSet(Counted(c)') /\ Cardinality(Counted(c)') \in Nat
  BY <1>2, MemberAssumption, FS_Subset, FS_CardinalityType
<1>4. CountFits(c)' <=>
          (run'[c].pc \in {"send", "store", "await"} =>
              Cardinality(Counted(c)') + run'[c].need >= Need(call'[c].level))
  BY DEF CountFits, Need
<1>5. \A l : Need(l) \in Nat
  BY NeedNat
<1>6. CASE run'[c].pc \in {"send", "store"}
  <2>1. run'[c].need = Need(call'[c].level)
    BY <1>6 DEF RunInv, RunFits, Fits, Need
  <2> QED  BY <1>3, <1>4, <1>5, <2>1
<1>7. CASE run'[c].pc = "await"
  <2>1. run[c].pc \in {"store", "await"}
    BY <1>1, <1>7, AwaitGoesOn, TakenCounts DEF GoesOnAwaiting, RunTakesAck, Awaits
  <2>2. OwedStays(c) /\ call'[c].level = call[c].level
    <3>1. ~RunSends(c)
      BY <2>1 DEF RunSends
    <3>2. call[c].pc /= "idle"
      BY <2>1 DEF LifeInv, RunInv, RunFits, Fits, NoRun
    <3> QED  BY <1>1, <3>1, <3>2 DEF Fate, Follows
  <2>3. Cardinality(Counted(c)) + run[c].need >= Need(call[c].level)
    BY <2>1 DEF CountInv, CountFits
  <2>4. run[c].need \in Nat /\ run'[c].need \in Nat
    BY <1>0 DEF RunRecord
  <2>5. CASE RunTakesAck(c)
    <3>1. /\ Cardinality(Counted(c)') >= Cardinality(Counted(c)) + 1
          /\ run'[c].need = run[c].need - 1
      BY <1>1, <1>7, <2>2, <2>5, TakenCounts
    <3> QED  BY <1>3, <1>4, <1>5, <2>2, <2>3, <2>4, <3>1
  <2>6. CASE ~RunTakesAck(c)
    <3>1. run'[c].need = run[c].need
      BY <1>7, <2>6, AwaitGoesOn DEF GoesOnAwaiting
    <3>2. Cardinality(Counted(c)) <= Cardinality(Counted(c)')
      BY <1>0, <1>1, <1>3, <2>1, <2>2, CountedStays, FS_Subset DEF Idle
    <3> QED  BY <1>3, <1>4, <1>5, <2>2, <2>3, <2>4, <3>1, <3>2
  <2> QED  BY <2>5, <2>6
<1>8. CASE run'[c].pc \notin {"send", "store", "await"}
  BY <1>4, <1>8
<1> QED  BY <1>6, <1>7, <1>8

-----------------------------------------------------------------------------
AllInv == TypeInv /\ LifeInv /\ AckInv /\ CountInv /\ VouchInv

LEMMA AllInit == Init => AllInv
<1> SUFFICES ASSUME Init PROVE AllInv
  OBVIOUS
<1>1. TypeInv /\ LifeInv
  BY TypesInit, LifeInit
<1>2. /\ \A a, m \in Node : queue[a][m] = <<>> /\ answers[a][m] = <<>>
                            /\ saved[a][m] = {}
      /\ \A t \in Token : got[t] = <<>>
  BY DEF Init, RequestsInit, NoRequests
<1>3. \A c \in Call : RunToken(c) \in Token /\ <<c, "mod">> \in Token
  BY DEF RunToken, Token
<1>4. AckInv
  <2> SUFFICES ASSUME NEW c \in Call, NEW m \in Node PROVE AckAt(c, m)
    BY DEF AckInv
  <2>1. ~InQueue(c, m) /\ ~IsSaved(c, m) /\ ~InGot(c, m)
    BY <1>2, <1>3, HoldsEmpty DEF InQueue, IsSaved, InGot
  <2> QED  BY <1>2, <1>3, <2>1, HoldsEmpty DEF AckAt
<1>5. VouchInv
  BY <1>2, <1>3, HoldsEmpty DEF VouchInv, VouchFits
<1>6. CountInv
  BY DEF Init, CacheOpsInit, CountInv, CountFits, NoRun
<1> QED  BY <1>1, <1>4, <1>5, <1>6 DEF AllInv

LEMMA AllStep == AllInv /\ [Next]_vars => AllInv'
<1> SUFFICES ASSUME AllInv, [Next]_vars PROVE AllInv'
  OBVIOUS
<1>1. TypeInv /\ LifeInv /\ AckInv /\ CountInv /\ VouchInv
  BY DEF AllInv
<1>2. TypeInv' /\ LifeInv' /\ RunInv'
  BY <1>1, TypesStep, LifeStep DEF LifeInv
<1>3. AckInv' /\ VouchInv'
  BY <1>1, AcksStep DEF AckInv, VouchInv
<1>4. CountInv'
  BY <1>1, <1>2, CountStep DEF CountInv
<1> QED  BY <1>2, <1>3, <1>4 DEF AllInv

-----------------------------------------------------------------------------
(* What AckedWrite sees of the write of c.                                 *)
Asked(c)  == IF Run(c) THEN Need(call[c].level) ELSE -1
Holder(c) == IF Run(c) THEN stored[c] ELSE {}

Same(d) ==
    /\ Asked(d)' = Asked(d)
    /\ Holder(d)' = Holder(d)
    /\ run'[d].verdict = run[d].verdict
    /\ ToldToCaller(d)' = ToldToCaller(d)

LEMMA SameLife ==
    ASSUME NEW d \in Call, call'[d] = call[d], run'[d] = run[d], stored'[d] = stored[d]
    PROVE  Same(d)
BY DEF Same, Asked, Holder, Run, ToldToCaller, Need, Pc, At

LEMMA SeesNothing ==
    ASSUME \A d \in Call : Same(d)
    PROVE  UNCHANGED W!ackedVars
BY DEF Same, Asked, Holder, W!ackedVars

LEMMA SeesAsking ==
    ASSUME NEW c \in Call, \A d \in Call \ {c} : Same(d),
           Asked(c) = -1, Asked(c)' \in {0, 1, Quorum}, Holder(c)' = Holder(c),
           run'[c].verdict = run[c].verdict, ToldToCaller(c)' = ToldToCaller(c)
    PROVE  W!AckedNext
<1>1. W!AskFor(c)
  BY DEF W!AskFor, Same, Asked, Holder
<1> QED  BY <1>1 DEF W!AckedNext

LEMMA SeesCarrying ==
    ASSUME NEW c \in Call, \A d \in Call \ {c} : Same(d), NEW n \in Node,
           Asked(c) >= 0, Holder(c)' = Holder(c) \cup {n}, Asked(c)' = Asked(c),
           run'[c].verdict = run[c].verdict, ToldToCaller(c)' = ToldToCaller(c)
    PROVE  W!AckedNext
<1>1. W!CarryOut(c, n)
  BY DEF W!CarryOut, Same, Asked, Holder
<1> QED  BY <1>1 DEF W!AckedNext

LEMMA SameCardinality ==
    ASSUME NEW S
    PROVE  W!Cardinality(S) = Cardinality(S)
BY DEF W!Cardinality, Cardinality

LEMMA SeesVerdict ==
    ASSUME NEW c \in Call, \A d \in Call \ {c} : Same(d),
           Asked(c)' = Asked(c), Holder(c)' = Holder(c),
           ToldToCaller(c)' = ToldToCaller(c), run[c].verdict = "none",
           \/ /\ Asked(c) >= 0 /\ Cardinality(Holder(c)) > Asked(c)
              /\ run'[c].verdict = "true"
           \/ Asked(c) > 0 /\ run'[c].verdict = "false"
    PROVE  W!AckedNext
<1>1. CASE /\ Asked(c) >= 0 /\ Cardinality(Holder(c)) > Asked(c)
           /\ run'[c].verdict = "true"
  <2>1. W!Vouch(c)
    BY <1>1, SameCardinality DEF W!Vouch, Same, Asked, Holder
  <2> QED  BY <2>1 DEF W!AckedNext
<1>2. CASE Asked(c) > 0 /\ run'[c].verdict = "false"
  <2>1. W!GiveUp(c)
    BY <1>2 DEF W!GiveUp, Same, Asked, Holder
  <2> QED  BY <2>1 DEF W!AckedNext
<1> QED  BY <1>1, <1>2

LEMMA SeesTelling ==
    ASSUME NEW c \in Call, \A d \in Call \ {c} : Same(d),
           Asked(c)' = Asked(c), Holder(c)' = Holder(c),
           run'[c].verdict = run[c].verdict, ToldToCaller(c) = "none",
           \/ run[c].verdict = "true" /\ ToldToCaller(c)' = "ok"
           \/ ToldToCaller(c)' = "error"
    PROVE  W!AckedNext
<1>1. W!Succeed(c) \/ W!Fail(c)
  BY DEF W!Succeed, W!Fail, Same, Asked, Holder
<1> QED  BY <1>1 DEF W!AckedNext

-----------------------------------------------------------------------------
(* What AckedWrite sees of each step.                                      *)
AbstractStep == W!AckedNext \/ UNCHANGED W!ackedVars

LEMMA OneSees ==
    ASSUME NEW c \in Call, \A d \in Call \ {c} : Same(d), Same(c)
    PROVE  AbstractStep
<1>1. \A d \in Call : Same(d)
  OBVIOUS
<1> QED  BY <1>1, SeesNothing DEF AbstractStep

(* A step of one call and its run leaves the others as they are.           *)
LEMMA OthersSame ==
    ASSUME CacheOpsTypeOK, NEW c \in Call,
           \/ BeginCall(c) \/ CallStep(c) \/ RunStep(c)
           \/ \E n, m \in Node : /\ c = Head(stream[n][m]).call
                                 /\ ServeWrite(n, m) \/ ServeUpdate(n, m)
    PROVE  \A d \in Call \ {c} : Same(d)
<1>1. /\ call \in [Call -> CallRecord] /\ run \in [Call -> RunRecord]
      /\ stored \in [Call -> SUBSET Node]
  BY OpsTyped DEF OpsTypes
<1>2. ASSUME UNCHANGED call \/ (\E x : call' = [call EXCEPT ![c] = x]),
             UNCHANGED run \/ (\E x : run' = [run EXCEPT ![c] = x]),
             UNCHANGED stored \/ (\E x : stored' = [stored EXCEPT ![c] = x])
      PROVE  \A d \in Call \ {c} : Same(d)
  <2>1. \A d \in Call \ {c} : /\ call'[d] = call[d] /\ run'[d] = run[d]
                              /\ stored'[d] = stored[d]
    BY <1>1, <1>2
  <2> QED  BY <2>1, SameLife
<1>3. \A pc : Goes(c, pc) => \E x : call' = [call EXCEPT ![c] = x]
  BY <1>1 DEF Goes
<1>4. \A n : Carry(n, c) => \E x : stored' = [stored EXCEPT ![c] = x]
  BY <1>1 DEF Carry
<1>5. CASE BeginCall(c)
  BY <1>2, <1>5 DEF BeginCall, Begin, StartRun, historyVars
<1>6. CASE Look(c)
  <2>1. \E x : call' = [call EXCEPT ![c] = x]
    BY <1>1, <1>6 DEF Look
  <2> QED  BY <1>2, <1>6, <2>1 DEF Look, historyVars
<1>7. CASE TakeAnswer(c)
  <2>1. \E x : call' = [call EXCEPT ![c] = x]
    BY <1>1, <1>7 DEF TakeAnswer
  <2> QED  BY <1>2, <1>7, <2>1 DEF TakeAnswer
<1>8. CASE StoreHere(c)
  BY <1>2, <1>3, <1>4, <1>8 DEF StoreHere
<1>9. CASE SendAll(c) \/ Ask(c) \/ Push(c) \/ TakeVerdict(c) \/ CallFails(c)
  BY <1>2, <1>3, <1>9 DEF SendAll, Ask, Push, TakeVerdict, CallFails, historyVars
<1>10. CASE RunStores(c)
  <2>1. \E x : run' = [run EXCEPT ![c] = x]
    BY <1>1, <1>10 DEF RunStores
  <2> QED  BY <1>2, <1>4, <1>10, <2>1 DEF RunStores
<1>11. CASE RunTakesAck(c) \/ RunMissesAck(c)
  <2>1. PICK k : RunTurns(c, k)
    BY <1>11 DEF RunTakesAck, RunMissesAck
  <2>2. \E x : run' = [run EXCEPT ![c] = x]
    BY <1>1, <2>1 DEF RunTurns
  <2> QED  BY <1>2, <2>1, <2>2 DEF RunTurns, historyVars
<1>12. CASE RunSends(c) \/ RunSucceeds(c) \/ OwnRunEnds(c) \/ ServedRunEnds(c)
  <2>1. \E x : run' = [run EXCEPT ![c] = x]
    BY <1>1, <1>12 DEF RunSends, RunSucceeds, OwnRunEnds, ServedRunEnds
  <2> QED  BY <1>2, <1>3, <1>12, <2>1
           DEF RunSends, RunSucceeds, OwnRunEnds, ServedRunEnds, historyVars
<1>13. ASSUME NEW n \in Node, NEW m \in Node, c = Head(stream[n][m]).call,
              ServeWrite(n, m)
       PROVE  \A d \in Call \ {c} : Same(d)
  <2>1. \/ StartRun(c, m, call[c].level, view[m].hosts)
        \/ run' = [run EXCEPT ![c].pc = "panicked"]
    BY <1>13 DEF ServeWrite
  <2>2. \E x : run' = [run EXCEPT ![c] = x]
    BY <1>1, <2>1 DEF StartRun
  <2> QED  BY <1>2, <1>13, <2>2 DEF ServeWrite, historyVars
<1>14. ASSUME NEW n \in Node, NEW m \in Node, c = Head(stream[n][m]).call,
              ServeUpdate(n, m)
       PROVE  \A d \in Call \ {c} : Same(d)
  <2>1. \E x : stored' = [stored EXCEPT ![c] = x]
    BY <1>1, <1>14 DEF ServeUpdate
  <2> QED  BY <1>2, <1>14, <2>1 DEF ServeUpdate
<1> QED  BY <1>5, <1>6, <1>7, <1>8, <1>9, <1>10, <1>11, <1>12, <1>13, <1>14
         DEF CallStep, RunStep

(* A call that begins at a leader asks it, and one that is refused is told. *)
LEMMA BeginSees ==
    ASSUME TypeInv, LifeInv, NEW c \in Call, BeginCall(c)
    PROVE  AbstractStep
<1>0. MembershipTypeOK /\ CacheOpsTypeOK
  BY TypeParts
<1>1. \A d \in Call \ {c} : Same(d)
  BY <1>0, OthersSame
<1>2. call \in [Call -> CallRecord] /\ run \in [Call -> RunRecord]
      /\ call[c].pc = "idle" /\ UNCHANGED stored
  BY <1>0, OpsTyped DEF OpsTypes, BeginCall, Pc, historyVars
<1>3. run[c] = NoRun /\ stored[c] = {}
  BY <1>2 DEF LifeInv, RunInv, RunFits, Fits
<1>4. Asked(c) = -1 /\ Holder(c) = {} /\ ToldToCaller(c) = "none"
      /\ run[c].verdict = "none" /\ run[c].at = None
  BY <1>2, <1>3 DEF Asked, Holder, ToldToCaller, Run, NoRun, Pc
<1>5. PICK o \in Offer[c] : LET v  == view[o.at]
                                pc == BeginsWith(o, v)
                            IN  /\ Begin(c, o, pc, v.hosts)
                                /\ IF pc = "run"
                                   THEN StartRun(c, o.at, o.level, v.hosts)
                                   ELSE UNCHANGED run
  BY DEF BeginCall
<1> DEFINE v == view[o.at]
           pc == BeginsWith(o, v)
<1>6. o \in [op : Operation, at : Node, level : AckLevel]
  BY OfferAssumption
<1>7. call'[c].pc = pc /\ call'[c].at = o.at /\ call'[c].level = o.level
      /\ call'[c].op = o.op
  BY <1>2, <1>5 DEF Begin
<1>8. pc \in {"look", "store", "error", "run", "push"}
  BY <1>6 DEF BeginsWith, GetBegins, PutBegins, WriteBegins, Operation
<1>9. CASE pc = "run"
  <2>1. run'[c] = [pc |-> "send", at |-> o.at, need |-> Need(o.level),
                   left |-> v.hosts, verdict |-> "none"]
    BY <1>2, <1>5, <1>9 DEF StartRun
  <2> HIDE DEF pc, v
  <2>2. Asked(c)' = Need(o.level)
    BY <1>7, <2>1 DEF Asked, Run, Need
  <2>3. Holder(c)' = {} /\ ToldToCaller(c)' = "none" /\ run'[c].verdict = "none"
    BY <1>2, <1>3, <1>7, <1>9, <2>1 DEF Holder, ToldToCaller, At, Pc
  <2> QED  BY <1>1, <1>4, <2>2, <2>3, NeedNat, SeesAsking DEF AbstractStep
<1>10. CASE pc /= "run"
  <2>1. run'[c] = NoRun
    BY <1>3, <1>5, <1>10
  <2> HIDE DEF pc, v
  <2>2. Asked(c)' = -1 /\ Holder(c)' = {} /\ run'[c].verdict = "none"
    BY <2>1 DEF Asked, Holder, Run, NoRun
  <2>3. ToldToCaller(c)' \in {"none", "error"}
    BY <1>7, <1>8 DEF ToldToCaller, Pc
  <2>4. CASE ToldToCaller(c)' = "none"
    BY <1>1, <1>4, <2>2, <2>4, OneSees DEF Same
  <2>5. CASE ToldToCaller(c)' = "error"
    BY <1>1, <1>4, <2>2, <2>5, SeesTelling DEF AbstractStep
  <2> QED  BY <2>3, <2>4, <2>5
<1> QED  BY <1>9, <1>10

(* An operation that asks no leader, and one that still waits.             *)
LEMMA CallSeesNothing ==
    ASSUME TypeInv, LifeInv, NEW c \in Call,
           \/ StoreHere(c) \/ SendAll(c) \/ Look(c) \/ Ask(c) \/ TakeAnswer(c)
           \/ Push(c)
    PROVE  AbstractStep
<1>0. CacheOpsTypeOK /\ CallInv /\ GotInv
  BY TypeParts
<1>1. \A d \in Call \ {c} : Same(d)
  BY <1>0, OthersSame DEF CallStep
<1>2. call \in [Call -> CallRecord] /\ UNCHANGED run
  BY <1>0, OpsTyped DEF OpsTypes, StoreHere, SendAll, Look, Ask, TakeAnswer, Push
<1>3. Fits(call[c], run[c], stored[c])
  BY DEF LifeInv, RunInv, RunFits
<1>4. /\ call'[c].op = call[c].op /\ call'[c].at = call[c].at
      /\ call'[c].level = call[c].level /\ (Push(c) => call'[c].pc = "wait")
  BY <1>2 DEF StoreHere, SendAll, Look, Ask, TakeAnswer, Push, Goes, CallRecord
<1>5. call[c].op \in {"put", "del", "get"} \/ Push(c)
  <2>1. CASE TakeAnswer(c)
    <3>1. <<c, "get">> \in Token
      BY DEF Token
    <3>2. <<c, "get">> \in waiting
      BY <1>0, <2>1, <3>1 DEF TakeAnswer, GotInv, Listens
    <3> QED  BY <1>0, <3>2 DEF CallInv, CallFits
  <2> QED  BY <1>0, <1>3, <2>1
           DEF StoreHere, SendAll, Look, Ask, Pc, Fits, CallInv, CallFits
<1>6. ToldToCaller(c)' = ToldToCaller(c)
  <2>1. CASE Push(c)
    BY <1>4, <2>1 DEF ToldToCaller, Push, Pc
  <2>2. CASE call[c].op \in {"put", "del", "get"}
    BY <1>4, <2>2 DEF ToldToCaller
  <2> QED  BY <1>5, <2>1, <2>2
<1>7. Asked(c)' = Asked(c)
  BY <1>2, <1>4 DEF Asked, Run, Need
<1>8. Holder(c)' = Holder(c)
  <2>1. CASE Run(c)
    <3>1. ~StoreHere(c)
      BY <1>3, <2>1 DEF Run, Fits, StoreHere, Pc, ModOps
    <3> QED  BY <1>2, <3>1
             DEF Holder, Run, SendAll, Look, Ask, TakeAnswer, Push, historyVars
  <2>2. CASE ~Run(c)
    BY <1>2, <2>2 DEF Holder, Run
  <2> QED  BY <2>1, <2>2
<1> QED  BY <1>1, <1>2, <1>6, <1>7, <1>8, OneSees DEF Same

(* A caller is told yes only when the leader has vouched for the write.    *)
LEMMA CallSeesVerdict ==
    ASSUME TypeInv, LifeInv, VouchInv, NEW c \in Call, TakeVerdict(c) \/ CallFails(c)
    PROVE  AbstractStep
<1>0. CacheOpsTypeOK /\ GotInv
  BY TypeParts
<1>1. \A d \in Call \ {c} : Same(d)
  BY <1>0, OthersSame DEF CallStep
<1>2. call \in [Call -> CallRecord] /\ UNCHANGED <<run, stored>>
  BY <1>0, OpsTyped DEF OpsTypes, TakeVerdict, CallFails, historyVars
<1>3. PICK pc \in {"ok", "error"} :
          Goes(c, pc) /\ Pc(c) = "wait" /\ (pc = "ok" => run[c].verdict = "true")
  <2>1. CASE CallFails(c)
    BY <2>1 DEF CallFails
  <2>2. CASE TakeVerdict(c)
    <3> DEFINE t == <<c, "mod">>
               S == Answer(BOOLEAN)
    <3>1. got[t] \in Seq(S) /\ got[t] /= <<>>
      BY <1>0, <2>2 DEF GotInv, GotTypeOK, TakeVerdict
    <3> HIDE DEF S
    <3>2. Head(got[t]) \in S
      BY <3>1, HeadTailProperties
    <3>3. Head(got[t]).val => Head(got[t]) \in Yes
      BY <3>2 DEF S, Answer, Yes
    <3>4. Head(got[t]).val => run[c].verdict = "true"
      BY <3>1, <3>3, HeadHeld DEF VouchInv, VouchFits
    <3> QED  BY <2>2, <3>4 DEF TakeVerdict
  <2> QED  BY <2>1, <2>2
<1>4. /\ call'[c].op = call[c].op /\ call'[c].at = call[c].at
      /\ call'[c].level = call[c].level /\ call'[c].pc = pc
  BY <1>2, <1>3 DEF Goes, CallRecord
<1>5. Asked(c)' = Asked(c) /\ Holder(c)' = Holder(c)
  BY <1>2, <1>4 DEF Asked, Holder, Run, Need
<1>6. ToldToCaller(c) = "none" /\ ToldToCaller(c)' \in {"none", pc}
  BY <1>2, <1>3, <1>4 DEF ToldToCaller, At, Pc
<1>7. CASE ToldToCaller(c)' = "none"
  BY <1>1, <1>2, <1>5, <1>6, <1>7, OneSees DEF Same
<1>8. CASE ToldToCaller(c)' = pc
  BY <1>1, <1>2, <1>3, <1>5, <1>6, <1>8, SeesTelling DEF AbstractStep
<1> QED  BY <1>6, <1>7, <1>8

(* A run that goes on, or ends as it was decided.                          *)
LEMMA RunSeesNothing ==
    ASSUME TypeInv, LifeInv, NEW c \in Call,
           RunSends(c) \/ OwnRunEnds(c) \/ ServedRunEnds(c)
    PROVE  AbstractStep
<1>0. CacheOpsTypeOK
  BY TypeParts
<1>1. \A d \in Call \ {c} : Same(d)
  BY <1>0, OthersSame DEF RunStep
<1>2. call \in [Call -> CallRecord] /\ run \in [Call -> RunRecord] /\ UNCHANGED stored
  BY <1>0, OpsTyped
     DEF OpsTypes, RunSends, OwnRunEnds, ServedRunEnds, historyVars
<1>3. /\ run'[c].at = run[c].at /\ run'[c].verdict = run[c].verdict
      /\ Run(c) /\ Run(c)'
  BY <1>2 DEF RunSends, OwnRunEnds, ServedRunEnds, Run, RunRecord
<1>4. /\ call'[c].op = call[c].op /\ call'[c].at = call[c].at
      /\ call'[c].level = call[c].level
      /\ call'[c].pc = call[c].pc \/ (OwnRunEnds(c) /\ call[c].pc = "run")
  BY <1>2 DEF RunSends, OwnRunEnds, ServedRunEnds, Goes, CallRecord, Pc
<1>5. Asked(c)' = Asked(c) /\ Holder(c)' = Holder(c)
  BY <1>2, <1>3, <1>4 DEF Asked, Holder, Need
<1>6. ToldToCaller(c)' = ToldToCaller(c)
  <2>1. CASE call'[c].pc = call[c].pc
    BY <1>3, <1>4, <2>1 DEF ToldToCaller, Pc, At
  <2>2. CASE call[c].pc = "run"
    <3>1. run[c].at = call[c].at
      BY <2>2 DEF LifeInv, RunInv, RunFits, Fits
    <3> QED  BY <1>3, <1>4, <3>1 DEF ToldToCaller, At
  <2> QED  BY <1>4, <2>1, <2>2
<1> QED  BY <1>1, <1>3, <1>5, <1>6, OneSees DEF Same

LEMMA RunStoresSees ==
    ASSUME TypeInv, LifeInv, NEW c \in Call, RunStores(c)
    PROVE  AbstractStep
<1>0. CacheOpsTypeOK /\ CallInv
  BY TypeParts
<1>1. \A d \in Call \ {c} : Same(d)
  BY <1>0, OthersSame DEF RunStep
<1>2. /\ call \in [Call -> CallRecord] /\ run \in [Call -> RunRecord]
      /\ stored \in [Call -> SUBSET Node] /\ UNCHANGED call
  BY <1>0, OpsTyped DEF OpsTypes, RunStores
<1>3. /\ run'[c].at = run[c].at /\ run'[c].verdict = run[c].verdict
      /\ Run(c) /\ Run(c)' /\ run[c].at \in Node
      /\ stored'[c] = stored[c] \cup {run[c].at}
  BY <1>0, <1>2 DEF RunStores, Run, RunRecord, Carry, CallInv, CallFits
<1>4. /\ Asked(c)' = Asked(c) /\ Asked(c) >= 0
      /\ Holder(c)' = Holder(c) \cup {run[c].at}
      /\ ToldToCaller(c)' = ToldToCaller(c)
  BY <1>2, <1>3, NeedNat DEF Asked, Holder, Need, ToldToCaller, Pc, At
<1> QED  BY <1>1, <1>3, <1>4, SeesCarrying DEF AbstractStep

(* A run that ends well has been acknowledged by as many others as it must *)
(* be, and has carried the write out itself.                               *)
LEMMA RunSucceedsSees ==
    ASSUME TypeInv, LifeInv, CountInv, NEW c \in Call, RunSucceeds(c)
    PROVE  AbstractStep
<1>0. CacheOpsTypeOK
  BY TypeParts
<1>1. \A d \in Call \ {c} : Same(d)
  BY <1>0, OthersSame DEF RunStep
<1>2. /\ call \in [Call -> CallRecord] /\ run \in [Call -> RunRecord]
      /\ stored \in [Call -> SUBSET Node] /\ UNCHANGED <<call, stored>>
  BY <1>0, OpsTyped DEF OpsTypes, RunSucceeds, historyVars
<1>3. /\ run'[c].at = run[c].at /\ run'[c].verdict = "true"
      /\ Run(c) /\ Run(c)' /\ run[c].pc = "await" /\ ~Awaits(c)
  BY <1>2 DEF RunSucceeds, Run, RunRecord
<1>4. Fits(call[c], run[c], stored[c])
  BY DEF LifeInv, RunInv, RunFits
<1>5. run[c].verdict = "none" /\ run[c].need = 0 /\ run[c].at \in stored[c]
  <2>1. run[c].need \in Nat /\ run[c].left \in Nat
    BY <1>2 DEF RunRecord
  <2> QED  BY <1>3, <1>4, <2>1 DEF Fits, Awaits
<1>6. Cardinality(stored[c]) > Need(call[c].level)
  <2>1. /\ IsFiniteSet(stored[c]) /\ IsFiniteSet(Counted(c))
        /\ run[c].at \notin Counted(c) /\ Counted(c) \cup {run[c].at} \subseteq stored[c]
    <3>1. stored[c] \subseteq Node
      BY <1>2
    <3> QED  BY <1>5, <3>1, MemberAssumption, FS_Subset DEF Counted
  <2>2. /\ Cardinality(Counted(c) \cup {run[c].at}) = Cardinality(Counted(c)) + 1
        /\ Cardinality(Counted(c) \cup {run[c].at}) <= Cardinality(stored[c])
    BY <2>1, FS_AddElement, FS_Subset
  <2>3. Cardinality(Counted(c)) + run[c].need >= Need(call[c].level)
    BY <1>3 DEF CountInv, CountFits
  <2>4. Cardinality(Counted(c)) \in Nat /\ Cardinality(stored[c]) \in Nat
    BY <2>1, FS_CardinalityType
  <2> QED  BY <1>5, <2>2, <2>3, <2>4, NeedNat
<1>7. Asked(c)' = Asked(c) /\ Holder(c)' = Holder(c) /\ Holder(c) = stored[c]
      /\ Asked(c) = Need(call[c].level) /\ ToldToCaller(c)' = ToldToCaller(c)
  BY <1>2, <1>3 DEF Asked, Holder, Need, ToldToCaller, Pc, At
<1>8. Asked(c) >= 0
  BY <1>2, <1>7, NeedNat DEF CallRecord
<1> QED  BY <1>1, <1>3, <1>5, <1>6, <1>7, <1>8, SeesVerdict DEF AbstractStep

(* A run gives up only what others must acknowledge.                       *)
LEMMA RunTurnsSees ==
    ASSUME TypeInv, LifeInv, NEW c \in Call, RunTakesAck(c) \/ RunMissesAck(c)
    PROVE  AbstractStep
<1>0. CacheOpsTypeOK
  BY TypeParts
<1>1. \A d \in Call \ {c} : Same(d)
  BY <1>0, OthersSame DEF RunStep
<1>2. PICK k : RunTurns(c, k) /\ Awaits(c)
  BY DEF RunTakesAck, RunMissesAck
<1>3. /\ call \in [Call -> CallRecord] /\ run \in [Call -> RunRecord]
      /\ UNCHANGED <<call, stored>>
  BY <1>0, <1>2, OpsTyped DEF OpsTypes, RunTurns, historyVars
<1>4. Fits(call[c], run[c], stored[c])
  BY DEF LifeInv, RunInv, RunFits
<1>5. run[c].pc = "await" /\ run[c].verdict = "none" /\ Need(call[c].level) > 0
  <2>1. run[c].need \in Nat
    BY <1>3 DEF RunRecord
  <2> QED  BY <1>2, <1>4, <2>1, NeedNat DEF Awaits, Fits
<1>6. /\ run'[c].at = run[c].at /\ run'[c].pc \in {"await", "answer"}
      /\ run'[c].verdict \in {"none", "false"}
  BY <1>2, <1>3, <1>5 DEF RunTurns, RunRecord
<1>7. /\ Asked(c)' = Asked(c) /\ Holder(c)' = Holder(c) /\ Asked(c) > 0
      /\ ToldToCaller(c)' = ToldToCaller(c)
  BY <1>3, <1>5, <1>6 DEF Asked, Holder, Run, Need, ToldToCaller, Pc, At
<1>8. CASE run'[c].verdict = "none"
  BY <1>1, <1>5, <1>7, <1>8, OneSees DEF Same
<1>9. CASE run'[c].verdict = "false"
  BY <1>1, <1>5, <1>7, <1>9, SeesVerdict DEF AbstractStep
<1> QED  BY <1>6, <1>8, <1>9

(* The leader is asked for a write of another member, and nobody has       *)
(* carried it out yet.                                                     *)
LEMMA ServeWriteSees ==
    ASSUME TypeInv, LifeInv, NEW n \in Node, NEW m \in Node, ServeWrite(n, m)
    PROVE  AbstractStep
<1>0. CacheOpsTypeOK /\ Wires
  BY TypeParts
<1>1. PICK r \in RpcRequest : /\ r = Head(stream[n][m]) /\ stream[n][m] /= <<>>
                              /\ r.is \in {"Insert", "Remove"}
  BY <1>0, ReadsTypes DEF ServeWrite, Reads
<1>2. PICK c \in Call : c = r.call /\ r \in WriteOf(c)
  BY <1>1, RequestFields, RequestKinds
<1>3. Holds(stream[n][m], WriteOf(c)) /\ c = Head(stream[n][m]).call
  BY <1>0, <1>1, <1>2, HeadHeld DEF Wires, Table
<1>4. \A d \in Call \ {c} : Same(d)
  BY <1>0, <1>3, OthersSame
<1>5. /\ call \in [Call -> CallRecord] /\ run \in [Call -> RunRecord]
      /\ UNCHANGED <<call, stored>>
  BY <1>0, OpsTyped DEF OpsTypes, ServeWrite, historyVars
<1>6. /\ run[c].pc = "none" /\ call[c].op \in ModOps /\ Pc(c) \in Late
      /\ m /= At(c) /\ Fits(call[c], run[c], stored[c])
  BY <1>3 DEF LifeInv, RunInv, RunFits, WriteInv, WriteFits
<1>7. run[c] = NoRun /\ stored[c] = {} /\ At(c) \in Node
  BY <1>6, TypeParts DEF Fits, Idle, CallInv, CallFits, Late, Returned
<1>8. Asked(c) = -1 /\ Holder(c) = {} /\ run[c].verdict = "none" /\ At(c) /= None
      /\ run[c].at = None
  BY <1>7, MemberAssumption DEF Asked, Holder, Run, NoRun
<1>9. \/ StartRun(c, m, call[c].level, view[m].hosts)
      \/ run' = [run EXCEPT ![c].pc = "panicked"]
  BY <1>3 DEF ServeWrite
<1>10. CASE StartRun(c, m, call[c].level, view[m].hosts)
  <2>1. run'[c].pc = "send" /\ run'[c].at = m /\ run'[c].verdict = "none"
    BY <1>5, <1>10 DEF StartRun
  <2>2. Asked(c)' = Need(call[c].level) /\ Holder(c)' = {}
    BY <1>5, <1>7, <2>1 DEF Asked, Holder, Run, Need
  <2>3. ToldToCaller(c)' = ToldToCaller(c)
    BY <1>5, <1>6, <1>8, <2>1 DEF ToldToCaller, Pc, At
  <2> QED  BY <1>4, <1>8, <2>1, <2>2, <2>3, NeedNat, SeesAsking DEF AbstractStep
<1>11. CASE run' = [run EXCEPT ![c].pc = "panicked"]
  <2>1. run'[c].pc = "panicked" /\ run'[c].at = None /\ run'[c].verdict = "none"
    BY <1>5, <1>7, <1>11 DEF RunRecord, NoRun
  <2>2. Asked(c)' = -1 /\ Holder(c)' = {}
    BY <2>1 DEF Asked, Holder, Run
  <2>3. ToldToCaller(c)' = ToldToCaller(c)
    BY <1>5, <1>8, <2>1 DEF ToldToCaller, Pc, At
  <2> QED  BY <1>4, <1>8, <2>1, <2>2, <2>3, OneSees DEF Same
<1> QED  BY <1>9, <1>10, <1>11

LEMMA ServeUpdateSees ==
    ASSUME TypeInv, NEW n \in Node, NEW m \in Node, ServeUpdate(n, m)
    PROVE  AbstractStep
<1>0. CacheOpsTypeOK /\ Wires
  BY TypeParts
<1>1. PICK c \in Call : c = Head(stream[n][m]).call
  BY <1>0, ReadsTypes, RequestFields DEF ServeUpdate, ServeMod
<1>2. \A d \in Call \ {c} : Same(d)
  BY <1>0, <1>1, OthersSame
<1>3. UNCHANGED <<call, run>> /\ stored'[c] = stored[c] \cup {m}
  BY <1>0, <1>1, OpsTyped DEF OpsTypes, ServeUpdate
<1>4. /\ Asked(c)' = Asked(c) /\ ToldToCaller(c)' = ToldToCaller(c)
      /\ run'[c].verdict = run[c].verdict /\ (Run(c)' <=> Run(c))
  BY <1>3 DEF Asked, Run, Need, ToldToCaller, Pc, At
<1>5. CASE Run(c)
  <2>1. Asked(c) >= 0 /\ Holder(c)' = Holder(c) \cup {m}
    BY <1>3, <1>4, <1>5, NeedNat DEF Asked, Holder
  <2> QED  BY <1>2, <1>4, <2>1, SeesCarrying DEF AbstractStep
<1>6. CASE ~Run(c)
  BY <1>2, <1>4, <1>6, OneSees DEF Same, Holder
<1> QED  BY <1>5, <1>6

(* Nobody is told by a process that ends.                                  *)
LEMMA StopSees ==
    ASSUME TypeInv, NEW n \in Node, Stop(n)
    PROVE  AbstractStep
<1>1. /\ call' = [c \in Call |-> IF c \in CallsAt(n)
                       THEN [call[c] EXCEPT !.pc = "gone"] ELSE call[c]]
      /\ run' = [c \in Call |-> IF c \in RunsAt(n)
                      THEN [run[c] EXCEPT !.pc = "gone"] ELSE run[c]]
      /\ UNCHANGED stored
  BY DEF Stop, historyVars
<1>2. call \in [Call -> CallRecord] /\ run \in [Call -> RunRecord]
  BY TypeParts, OpsTyped DEF OpsTypes
<1>3. ASSUME NEW d \in Call
      PROVE  Same(d)
  <2>1. /\ call'[d].op = call[d].op /\ call'[d].at = call[d].at
        /\ call'[d].level = call[d].level
        /\ \/ call'[d].pc = call[d].pc
           \/ call'[d].pc = "gone" /\ call[d].pc \notin Returned
    BY <1>1, <1>2 DEF CallRecord, CallsAt, Pc
  <2>2. /\ run'[d].at = run[d].at /\ run'[d].verdict = run[d].verdict
        /\ \/ run'[d].pc = run[d].pc
           \/ run'[d].pc = "gone" /\ run[d].pc \notin Finished
    BY <1>1, <1>2 DEF RunRecord, RunsAt
  <2>3. (Run(d)' <=> Run(d)) /\ Need(call[d].level)' = Need(call[d].level)
    BY <2>1, <2>2 DEF Run, Finished, Need
  <2>4. Asked(d)' = Asked(d) /\ Holder(d)' = Holder(d)
    BY <1>1, <2>3 DEF Asked, Holder
  <2>5. ToldToCaller(d)' = ToldToCaller(d)
    BY <2>1, <2>2 DEF ToldToCaller, Pc, At, Returned
  <2> QED  BY <2>2, <2>4, <2>5 DEF Same
<1> QED  BY <1>3, SeesNothing DEF AbstractStep

LEMMA EveryStepSees ==
    ASSUME AllInv, [Next]_vars
    PROVE  AbstractStep
<1>1. TypeInv /\ LifeInv /\ CountInv /\ VouchInv
  BY DEF AllInv
<1>2. ASSUME UNCHANGED <<call, run, stored>>
      PROVE  AbstractStep
  BY <1>2, SameLife, SeesNothing DEF AbstractStep
<1>3. ASSUME NEW c \in Call, BeginCall(c) \/ CallStep(c) \/ RunStep(c)
      PROVE  AbstractStep
  BY <1>1, <1>3, BeginSees, CallSeesNothing, CallSeesVerdict, RunSeesNothing,
     RunStoresSees, RunSucceedsSees, RunTurnsSees DEF CallStep, RunStep
<1>4. ASSUME NEW n \in Node, NEW m \in Node, ServerStep(n, m)
      PROVE  AbstractStep
  BY <1>1, <1>2, <1>4, ServeWriteSees, ServeUpdateSees
     DEF ServerStep, RefuseWrite, opVars, historyVars
<1>5. ASSUME NEW n \in Node, NEW m \in Node, ClientStep(n, m) \/ Fault(n, m)
      PROVE  AbstractStep
  BY <1>2, <1>5 DEF ClientStep, Fault, opVars, historyVars
<1>6. ASSUME NEW n \in Node, PublishView(n) \/ Empty(n) \/ Stop(n) \/ Start(n)
      PROVE  AbstractStep
  BY <1>1, <1>2, <1>6, StopSees DEF PublishView, Empty, Start, opVars, historyVars
<1>7. CASE UNCHANGED vars
  BY <1>2, <1>7 DEF vars, opVars, historyVars
<1> QED  BY <1>3, <1>4, <1>5, <1>6, <1>7 DEF Next

(* cache_insert and cache_remove keep what AckedWrite promises: the leader *)
(* vouches for a write only when it and as many other members as the       *)
(* AckLevel asks for have carried it out, and a caller that has asked the  *)
(* leader is told of success only then (insert_from_leader,                *)
(* remove_from_leader, and the acks that client.rs matches by their ids),  *)
(* for every cluster, all offered calls and every number of failures.      *)
THEOREM AckedWriteImplemented == Spec => ImplementsAckedWrite
<1>1. Init => W!AckedInit
  BY DEF Init, CacheOpsInit, W!AckedInit, Run, NoRun, NoCall, ToldToCaller
<1>2. Init => AllInv
  BY AllInit
<1>3. AllInv /\ [Next]_vars => AllInv'
  BY AllStep
<1>4. AllInv /\ [Next]_vars => [W!AckedNext]_W!ackedVars
  BY EveryStepSees DEF AbstractStep
<1> QED  BY <1>1, <1>2, <1>3, <1>4, PTL DEF Spec, ImplementsAckedWrite, W!AckedSpec

=============================================================================
