------------------------------ MODULE CacheSteady ------------------------------
(***************************************************************************)
(* What holds of CacheOps while failures of some kinds do not happen, for  *)
(* every set of members and of calls, every bound and every offer:         *)
(*                                                                         *)
(*   - a lookup that finds nothing has heard from all other members;       *)
(*   - followers agree on the entry once nothing is under way;             *)
(*   - an insert of a follower that was acknowledged survives as many      *)
(*     stops as it was acknowledged by other members;                      *)
(*   - a lookup finds what a member has had since it began.                *)
(*                                                                         *)
(* The first follows one answer of one member, as CacheWrites follows one  *)
(* ack.  The second looks at what is under way from the leader to each     *)
(* follower, and at what the entry will hold when all of it has come.  The *)
(* third counts the holders of a write that have lost it again, and the    *)
(* last follows one member that does not lose the entry.                   *)
(***************************************************************************)
EXTENDS CacheWrites

Undisturbed == NoneFails({"stop", "view"})

(* Failures are counted, and none is forgotten.                            *)
LEMMA FailedGrows ==
    ASSUME TypeInv, [Next]_vars
    PROVE  /\ \A f \in Failure : failed[f] \in Nat /\ failed'[f] >= failed[f]
           /\ \A n \in Node : Stop(n) => failed'["stop"] /= 0
           /\ \A n \in Node : PublishView(n) => failed'["view"] /= 0
           /\ \A n, m \in Node : Break(n, m) => failed'["break"] /= 0
<1>1. failed \in [Failure -> Nat]
  BY TypeParts DEF Wires
<1>2. ASSUME NEW f \in Failure, Fails(f)
      PROVE  (\A g \in Failure : failed'[g] >= failed[g]) /\ failed'[f] /= 0
  <2>1. failed' = [failed EXCEPT ![f] = failed[f] + 1]
    BY <1>2 DEF Fails
  <2> QED  BY <1>1, <2>1
<1>3. {"break", "open", "late", "stop", "view"} = Failure
  BY DEF Failure
<1>4. UNCHANGED failed => \A g \in Failure : failed'[g] >= failed[g]
  BY <1>1
<1>5. ASSUME NEW n \in Node
      PROVE  /\ Stop(n) => Fails("stop")
             /\ PublishView(n) => Fails("view")
             /\ Empty(n) \/ Start(n) => UNCHANGED failed
  BY DEF Stop, EndProcess, PublishView, Empty, Start, requestVars
<1>6. ASSUME NEW n \in Node, NEW m \in Node
      PROVE  /\ Break(n, m) => Fails("break")
             /\ LateAnswer(n, m) => Fails("late")
             /\ OpeningFails(n, m) => Fails("open")
             /\ LoseRest(n, m) \/ LeftBehindTakesOther(n, m) => UNCHANGED failed
             /\ ClientStep(n, m) \/ ServerStep(n, m) => UNCHANGED failed
  BY DEF Break, LateAnswer, OpeningFails, LoseRest, LeftBehindTakesOther, ClientStep,
     ServerStep, Forward, DeliverAnswer, Connect, OpenStream, OpeningUnanswered, Ends,
     LeftBehindTakes, ServeGet, ServeUpdate, ServeMod, ServeWrite, RefuseWrite,
     requestVars
<1>7. ASSUME NEW c \in Call, BeginCall(c) \/ CallStep(c) \/ RunStep(c)
      PROVE  UNCHANGED failed
  BY <1>7 DEF BeginCall, CallStep, RunStep, StoreHere, SendAll, Look, Ask,
     TakeAnswer, Push, TakeVerdict, CallFails, RunSends, RunStores, RunTakesAck,
     RunMissesAck, RunTurns, RunSucceeds, OwnRunEnds, ServedRunEnds,
     requestVars, otherRequests
<1>8. UNCHANGED vars => UNCHANGED failed
  BY DEF vars, requestVars
<1>9. \A f \in Failure : Fails(f) \/ UNCHANGED failed =>
          \A g \in Failure : failed'[g] >= failed[g]
  BY <1>2, <1>4
<1>10. UNCHANGED failed \/ \E f \in Failure : Fails(f)
  <2>1. CASE \E n \in Node : PublishView(n) \/ Empty(n) \/ Stop(n) \/ Start(n)
    BY <1>3, <1>5, <2>1
  <2>2. CASE \E n, m \in Node : ClientStep(n, m) \/ ServerStep(n, m) \/ Fault(n, m)
    BY <1>3, <1>6, <2>2 DEF Fault
  <2> QED  BY <1>7, <1>8, <2>1, <2>2 DEF Next
<1>11. \A f \in Failure : failed[f] \in Nat /\ failed'[f] >= failed[f]
  BY <1>1, <1>4, <1>9, <1>10
<1> QED  BY <1>2, <1>3, <1>5, <1>6, <1>11

LEMMA NoneFailedBefore ==
    ASSUME TypeInv, [Next]_vars, NEW fs \in SUBSET Failure, NoneFails(fs)'
    PROVE  /\ NoneFails(fs)
           /\ "stop" \in fs => \A n \in Node : ~Stop(n)
           /\ "view" \in fs => \A n \in Node : ~PublishView(n)
           /\ "break" \in fs => \A n, m \in Node : ~Break(n, m)
<1>1. \A f \in fs : failed'[f] = 0
  BY DEF NoneFails
<1>2. \A f \in fs : failed[f] = 0
  <2> SUFFICES ASSUME NEW f \in fs PROVE failed[f] = 0
    OBVIOUS
  <2>1. failed[f] \in Nat /\ failed'[f] >= failed[f] /\ failed'[f] = 0
    BY <1>1, FailedGrows
  <2> QED  BY <2>1
<1> QED  BY <1>1, <1>2, FailedGrows DEF NoneFails

-----------------------------------------------------------------------------
(* The members that run and what they have published stay as they were.    *)
FirstView(n) ==
    IF n \notin Running THEN DefaultView
    ELSE [quorum |-> TRUE,
          role |-> IF n = Lead THEN "Leader" ELSE "Follower",
          to |-> IF n = Lead THEN None ELSE Lead,
          hosts |-> Cardinality(Running) - 1]

Steady ==
    /\ \A n \in Node : up[n] <=> n \in Running
    /\ \A n \in Node : view[n] = FirstView(n)
    /\ \A n, m \in Node : conn[n][m] /= "down" => {n, m} \subseteq Running /\ n /= m

LEMMA SteadyInit == Init => Steady
<1> SUFFICES ASSUME Init PROVE Steady
  OBVIOUS
<1>1. ASSUME NEW n \in Node
      PROVE  (up[n] <=> n \in Running) /\ view[n] = FirstView(n)
  <2>1. up[n] = (n \in Running)
    BY DEF Init, ElectedInit
  <2>2. view[n] = FirstView(n)
    BY DEF Init, ElectedInit, FirstView
  <2> QED  BY <2>1, <2>2
<1>2. ASSUME NEW n \in Node, NEW m \in Node, conn[n][m] /= "down"
      PROVE  {n, m} \subseteq Running /\ n /= m
  BY <1>2 DEF Init, ElectedInit
<1> QED  BY <1>1, <1>2 DEF Steady

LEMMA SteadyStep ==
    ASSUME TypeInv, [Next]_vars, Undisturbed', Steady
    PROVE  Steady'
<1>1. \A n \in Node : ~Stop(n) /\ ~PublishView(n)
  BY NoneFailedBefore DEF Undisturbed, Failure
<1>2. \A n \in Node : ~Start(n)
  BY OfferAssumption DEF Start, Starts, Steady
<1>3. conn \in [Node -> [Node -> Client]]
  BY TypeParts DEF MembershipTypeOK
<1>4. \A n \in Node : FirstView(n)' = FirstView(n)
  BY DEF FirstView, DefaultView
<1>5. CASE UNCHANGED <<up, view>> /\ UNCHANGED conn
  BY <1>4, <1>5 DEF Steady
<1>6. ASSUME NEW n \in Node, NEW m \in Node,
             Connects(n, m) \/ Opens(n, m) \/ Breaks(n, m)
      PROVE  Steady'
  <2>1. \A a, b \in Node : \/ conn'[a][b] = conn[a][b] \/ conn'[a][b] = "down"
                           \/ conn[a][b] /= "down"
                           \/ a = n /\ b = m /\ n /= m /\ up[n] /\ up[m]
    BY <1>3, <1>6 DEF Connects, Opens, Breaks
  <2>2. UNCHANGED <<up, view>>
    BY <1>6 DEF Connects, Opens, Breaks
  <2> QED  BY <1>4, <2>1, <2>2 DEF Steady
<1>7. ASSUME NEW n \in Node, NEW m \in Node, ClientStep(n, m) \/ Fault(n, m)
      PROVE  Connects(n, m) \/ Opens(n, m) \/ Breaks(n, m) \/ UNCHANGED memberVars
  BY <1>7 DEF ClientStep, Fault, Forward, DeliverAnswer, LateAnswer, TakesAnswer,
     Connect, OpenStream, OpeningUnanswered, OpeningFails, OpenFails, Ends, Break,
     TearDown, LoseRest, LeftBehindTakes, LeftBehindTakesOther
<1>8. ASSUME NEW n \in Node, NEW m \in Node, ServerStep(n, m)
      PROVE  UNCHANGED memberVars
  BY <1>8 DEF ServerStep, ServeGet, ServeUpdate, ServeMod, ServeWrite, RefuseWrite
<1>9. ASSUME NEW c \in Call, BeginCall(c) \/ CallStep(c) \/ RunStep(c)
      PROVE  UNCHANGED memberVars
  BY <1>9 DEF BeginCall, CallStep, RunStep, StoreHere, SendAll, Look, Ask,
     TakeAnswer, Push, TakeVerdict, CallFails, RunSends, RunStores, RunTakesAck,
     RunMissesAck, RunTurns, RunSucceeds, OwnRunEnds, ServedRunEnds
<1>10. \A n \in Node : Empty(n) => UNCHANGED <<up, view, conn>>
  BY DEF Empty, Empties
<1>11. UNCHANGED vars => UNCHANGED memberVars
  BY DEF vars
<1>12. UNCHANGED memberVars => UNCHANGED <<up, view, conn>>
  BY DEF memberVars
<1> QED  BY <1>1, <1>2, <1>5, <1>6, <1>7, <1>8, <1>9, <1>10, <1>11, <1>12 DEF Next

-----------------------------------------------------------------------------
(* Where the answer of one member to one lookup is: the request is in a    *)
(* queue, its sender is saved, its answer has come, or the lookup has      *)
(* taken it.                                                               *)
GetToken(c) == <<c, "get">>
Lookup(c)   == {Get(c)}
Of(m)       == [from : {m}, val : Call \cup {None} \cup BOOLEAN]

Requested(c, m) == \E a \in Node : Holds(queue[a][m], Lookup(c))
Expected(c, m)  == \E a \in Node : GetToken(c) \in saved[a][m]
Came(c, m)      == Holds(got[GetToken(c)], Of(m))

(* In one place at most, and of another member that runs.                  *)
AnswerAt(c, m) ==
    /\ \A a \in Node :
           /\ Holds(queue[a][m], Lookup(c)) \/ GetToken(c) \in saved[a][m] =>
                 a = At(c) /\ a /= m /\ Pc(c) \in Late
           /\ Once(queue[a][m], Lookup(c))
    /\ Came(c, m) \/ m \in heard[c] =>
           m \in Running /\ m /= At(c) /\ Pc(c) \in Late
    /\ Once(got[GetToken(c)], Of(m))
    /\ ~(Requested(c, m) /\ Expected(c, m))
    /\ Came(c, m) => ~Requested(c, m) /\ ~Expected(c, m)
    /\ m \in heard[c] => ~Requested(c, m) /\ ~Expected(c, m) /\ ~Came(c, m)

(* What a lookup has heard, and how many answers it still waits for.       *)
Looks(cl, he) ==
    /\ cl.pc \notin Late => he = {}
    /\ cl.op = "get" /\ cl.pc \in {"look", "ask", "wait"} =>
           /\ cl.at \in Running /\ cl.left > 0
           /\ Cardinality(he) + cl.left = Cardinality(Running) - 1
    /\ cl.op = "get" /\ cl.pc = "ok" /\ cl.found = None =>
           he = Running \ {cl.at}

AnswersInv == \A c \in Call, m \in Node : AnswerAt(c, m)
LooksInv   == \A c \in Call : Looks(call[c], heard[c])

MissInv == Undisturbed => Steady /\ AnswersInv /\ LooksInv

LEMMA MissInvSuffices == MissInv => MissHeardFromAll
BY DEF MissInv, MissHeardFromAll, Undisturbed, LooksInv, Looks, Pc, At

LEMMA MissInit == Init => MissInv
<1> SUFFICES ASSUME Init PROVE MissInv
  OBVIOUS
<1>1. AnswersInv
  <2> SUFFICES ASSUME NEW c \in Call, NEW m \in Node PROVE AnswerAt(c, m)
    BY DEF AnswersInv
  <2>1. GetToken(c) \in Token
    BY DEF GetToken, Token
  <2>2. \A a \in Node : queue[a][m] = <<>> /\ saved[a][m] = {}
    BY DEF Init, RequestsInit, NoRequests
  <2>3. got[GetToken(c)] = <<>> /\ heard[c] = {}
    BY <2>1 DEF Init, RequestsInit, CacheOpsInit
  <2> QED  BY <2>2, <2>3, HoldsEmpty DEF AnswerAt, Requested, Expected, Came
<1>2. LooksInv
  BY DEF Init, CacheOpsInit, NoCall, LooksInv, Looks, Late, Returned
<1> QED  BY <1>1, <1>2, SteadyInit DEF MissInv

(* The sets above do not depend on the state.                              *)
LEMMA AnswerParts ==
    ASSUME NEW c \in Call, NEW m \in Node
    PROVE  /\ GetToken(c)' = GetToken(c) /\ Lookup(c)' = Lookup(c) /\ Of(m)' = Of(m)
           /\ Requested(c, m)' <=> \E a \in Node : Holds(queue'[a][m], Lookup(c))
           /\ Expected(c, m)' <=> \E a \in Node : GetToken(c) \in saved'[a][m]
           /\ Came(c, m)' <=> Holds(got'[GetToken(c)], Of(m))
BY DEF GetToken, Lookup, Get, Of, Requested, Expected, Came

(* Nothing happens to the answer of m for c, but that it is lost.          *)
AnswerStays(c, m) ==
    /\ Fate(c) /\ (m \in heard'[c] => m \in heard[c])
    /\ \A a \in Node :
           /\ Quieter(queue[a][m], queue'[a][m], Lookup(c))
           /\ GetToken(c) \in saved'[a][m] => GetToken(c) \in saved[a][m]
    /\ Quieter(got[GetToken(c)], got'[GetToken(c)], Of(m))

LEMMA AnswerStaysAt ==
    ASSUME NEW c \in Call, NEW m \in Node, AnswerAt(c, m), AnswerStays(c, m)
    PROVE  AnswerAt(c, m)'
<1>1. ASSUME NEW a \in Node
      PROVE  /\ Holds(queue'[a][m], Lookup(c)) => Holds(queue[a][m], Lookup(c))
             /\ Once(queue'[a][m], Lookup(c))
             /\ GetToken(c) \in saved'[a][m] => GetToken(c) \in saved[a][m]
  BY DEF AnswerStays, Quieter, AnswerAt
<1>2. /\ Holds(got'[GetToken(c)], Of(m)) => Holds(got[GetToken(c)], Of(m))
      /\ Once(got'[GetToken(c)], Of(m))
      /\ m \in heard'[c] => m \in heard[c]
  BY DEF AnswerStays, Quieter, AnswerAt
<1>3. /\ Requested(c, m)' => Requested(c, m)
      /\ Expected(c, m)' => Expected(c, m)
      /\ Came(c, m)' => Came(c, m)
  BY <1>1, <1>2, AnswerParts DEF Requested, Expected, Came
<1>4. Pc(c) \in Late => Pc(c)' \in Late /\ At(c)' = At(c)
  BY DEF AnswerStays, Fate, Follows, Late, Returned, Pc, At
<1> QED  BY <1>1, <1>2, <1>3, <1>4, AnswerParts DEF AnswerAt

-----------------------------------------------------------------------------
(* Steps that do not move an answer to c from one place to the next.       *)
Forwards(n, m)  == Forward(n, m) /\ UNCHANGED opVars
HandsOver(n, m) == DeliverAnswer(n, m) /\ UNCHANGED opVars

LEMMA NotLookedUp ==
    ASSUME NEW c \in Call, NEW d \in Call
    PROVE  /\ {Update(c, "none")} \cap Lookup(d) = {}
           /\ {Insert(c), Remove(c)} \cap Lookup(d) = {}
           /\ {Update(c, Answers(c))} \cap Lookup(d) = {}
           /\ c /= d => {Get(c)} \cap Lookup(d) = {}
BY DEF Lookup, Update, Put, Del, Get, Insert, Remove

LEMMA LookupQuiet ==
    ASSUME TypeInv, [Next]_vars, NEW d \in Call, ~Ask(d),
           \A n, m \in Node : ~Forwards(n, m)
    PROVE  Quiet(Lookup(d))
<1>0. Wires /\ CallInv
  BY TypeParts
<1>1. CASE WiresChange({})
  BY <1>0, <1>1, WiresQuiet
<1>2. ASSUME NEW c \in Call, SendAll(c) \/ Ask(c) \/ Push(c) \/ RunSends(c)
      PROVE  Quiet(Lookup(d))
  <2>1. PICK es \in SUBSET RpcRequest : WiresChange(es) /\ es \cap Lookup(d) = {}
    <3>1. Answers(c) \in {"run", "none"}
      BY DEF Answers
    <3>2. /\ {Update(c, "none")} \subseteq RpcRequest /\ {Get(c)} \subseteq RpcRequest
          /\ {Insert(c), Remove(c)} \subseteq RpcRequest
          /\ {Update(c, Answers(c))} \subseteq RpcRequest
      BY <3>1, RequestMade
    <3> QED  BY <1>0, <1>2, <3>2, SendWires, NotLookedUp
  <2> QED  BY <1>0, <2>1, WiresQuiet
<1>3. ASSUME NEW c \in Call, BeginCall(c) \/ CallStep(c) \/ RunStep(c)
      PROVE  Quiet(Lookup(d))
  <2>1. CASE Silent(c)
    BY <1>1, <2>1, SilentWires
  <2> QED  BY <1>2, <1>3, <2>1 DEF Silent, CallStep, RunStep
<1>4. CASE \E n, m \in Node : ClientStep(n, m) \/ ServerStep(n, m) \/ Fault(n, m)
  BY <1>0, <1>1, <1>4, ServerWires, AroundWires
     DEF ClientStep, Fault, Around, Forwards
<1>5. CASE \E n \in Node : PublishView(n) \/ Empty(n) \/ Stop(n) \/ Start(n)
  BY <1>0, <1>1, <1>5, ProcessWires
<1>6. CASE UNCHANGED vars
  <2>1. UNCHANGED <<queue, stream>>
    BY <1>6 DEF vars, requestVars
  <2> QED  BY <2>1 DEF Quiet, Quieter
<1> QED  BY <1>3, <1>4, <1>5, <1>6 DEF Next

LEMMA GotLess ==
    ASSUME TypeInv, [Next]_vars, \A n, m \in Node : ~HandsOver(n, m)
    PROVE  GotShrinks
<1>1. CASE \E n, m \in Node : ClientStep(n, m) \/ ServerStep(n, m) \/ Fault(n, m)
  BY <1>1, OtherGot DEF HandsOver, ClientStep, Fault
<1>2. CASE \E n \in Node : PublishView(n) \/ Empty(n) \/ Stop(n) \/ Start(n)
  BY <1>2, OtherGot
<1>3. CASE UNCHANGED vars
  BY <1>3, SameGot DEF vars, requestVars
<1> QED  BY <1>1, <1>2, <1>3, CallGot DEF Next

LEMMA SenderLess ==
    ASSUME TypeInv, [Next]_vars, \A n, m \in Node : ~Forwards(n, m)
    PROVE  SavedShrinks
<1>1. CASE UNCHANGED vars
  BY <1>1 DEF vars, requestVars, SavedShrinks
<1>2. \A n, m \in Node : (ClientStep(n, m) \/ Fault(n, m)) /\ Forward(n, m) =>
                              Forwards(n, m)
  BY DEF ClientStep, Fault, Forwards
<1> QED  BY <1>1, <1>2, SavedLess, TypeParts DEF Next

LEMMA HeardSame ==
    ASSUME TypeInv, [Next]_vars, NEW d \in Call, ~TakeAnswer(d)
    PROVE  heard'[d] = heard[d]
<1>1. heard \in [Call -> SUBSET Node]
  BY TypeParts, OpsTyped DEF OpsTypes
<1>2. CASE UNCHANGED heard
  BY <1>2
<1>3. ASSUME NEW c \in Call, BeginCall(c) \/ CallStep(c) \/ RunStep(c)
      PROVE  UNCHANGED heard \/ TakeAnswer(c)
  BY <1>3 DEF BeginCall, CallStep, RunStep, StoreHere, SendAll, Look, Ask,
     Push, TakeVerdict, CallFails, RunSends, RunStores, RunTakesAck,
     RunMissesAck, RunTurns, RunSucceeds, OwnRunEnds, ServedRunEnds, historyVars
<1>4. ASSUME NEW c \in Call, TakeAnswer(c)
      PROVE  heard'[d] = heard[d]
  BY <1>1, <1>4 DEF TakeAnswer
<1>5. ASSUME NEW n \in Node, NEW m \in Node,
             ClientStep(n, m) \/ ServerStep(n, m) \/ Fault(n, m)
      PROVE  UNCHANGED heard
  BY <1>5 DEF ClientStep, ServerStep, Fault, ServeUpdate, ServeWrite, RefuseWrite,
     opVars, historyVars
<1>6. ASSUME NEW n \in Node, PublishView(n) \/ Empty(n) \/ Stop(n) \/ Start(n)
      PROVE  UNCHANGED heard
  BY <1>6 DEF PublishView, Empty, Stop, Start, opVars, historyVars
<1>7. UNCHANGED vars => UNCHANGED heard
  BY DEF vars, opVars, historyVars
<1> QED  BY <1>2, <1>3, <1>4, <1>5, <1>6, <1>7 DEF Next

LEMMA GotQuieter ==
    ASSUME TypeInv, GotShrinks, NEW t \in Token, NEW rs
    PROVE  Quieter(got[t], got'[t], rs)
<1> DEFINE S == Answer(Call \cup {None} \cup BOOLEAN)
<1>1. got \in [Token -> Seq(S)]
  BY TypeParts DEF GotInv
<1> HIDE DEF S
<1>2. {} \cap rs = {} /\ {} \in SUBSET S
  OBVIOUS
<1> QED  BY <1>1, <1>2, ChangesQuiet DEF GotShrinks

LEMMA AnswersStayPut ==
    ASSUME TypeInv, LifeInv, AnswersInv, [Next]_vars, NEW c \in Call, NEW m \in Node,
           ~Ask(c), ~TakeAnswer(c),
           \A a, b \in Node : ~Forwards(a, b) /\ ~HandsOver(a, b)
    PROVE  AnswerAt(c, m)'
<1>1. GetToken(c) \in Token
  BY DEF GetToken, Token
<1>2. Quiet(Lookup(c)) /\ SavedShrinks /\ GotShrinks /\ heard'[c] = heard[c]
  BY LookupQuiet, SenderLess, GotLess, HeardSame
<1>3. AnswerStays(c, m)
  BY <1>1, <1>2, LifeStep, GotQuieter DEF AnswerStays, Quiet, SavedShrinks
<1> QED  BY <1>3, AnswerStaysAt DEF AnswersInv

(* A lookup asks every other member, and has asked none before.            *)
LEMMA AskAnswers ==
    ASSUME TypeInv, LifeInv, AnswersInv, LooksInv, NEW c \in Call, Ask(c),
           NEW m \in Node
    PROVE  AnswerAt(c, m)'
<1>0. Wires /\ CallInv /\ call \in [Call -> CallRecord]
  BY TypeParts, OpsTyped DEF OpsTypes
<1>1. /\ AnswerAt(c, m) /\ Pc(c) = "ask" /\ At(c) \in Node
      /\ UNCHANGED <<got, saved, heard>> /\ Broadcast(At(c), Get(c))
  BY <1>0 DEF AnswersInv, Ask, otherRequests, historyVars, CallInv, CallFits
<1>2. Pc(c)' = "wait" /\ At(c)' = At(c)
  BY <1>0 DEF Ask, Goes, Pc, At, CallRecord
<1>3. Pc(c) \notin Late /\ Pc(c)' \in Late
  BY <1>1, <1>2 DEF Late, Returned
<1>4. /\ ~Requested(c, m) /\ ~Expected(c, m) /\ ~Came(c, m) /\ m \notin heard'[c]
      /\ \A a \in Node : ~Holds(queue[a][m], Lookup(c))
                         /\ GetToken(c) \notin saved'[a][m]
  BY <1>1, <1>3 DEF AnswerAt, Requested, Expected, Came
<1>5. ASSUME NEW a \in Node
      PROVE  /\ Holds(queue'[a][m], Lookup(c)) => a = At(c) /\ a /= m
             /\ Once(queue'[a][m], Lookup(c))
  <2>1. Get(c) \in RpcRequest /\ queue[a][m] \in Seq(RpcRequest)
    BY <1>0, RequestMade DEF Wires, Table
  <2>2. queue'[a][m] = IF a = At(c) /\ m /= At(c)
                       THEN Append(queue[a][m], Get(c)) ELSE queue[a][m]
    BY <1>0, <1>1, BroadcastChanges
  <2>3. ~Holds(queue[a][m], Lookup(c)) /\ Once(queue[a][m], Lookup(c))
    BY <1>1, <1>4 DEF AnswerAt
  <2> QED  BY <2>1, <2>2, <2>3, HoldsAppend
<1>6. /\ ~Holds(got'[GetToken(c)], Of(m)) /\ Once(got'[GetToken(c)], Of(m))
      /\ ~Expected(c, m)'
  BY <1>1, <1>4, AnswerParts DEF Came, AnswerAt
<1> QED  BY <1>2, <1>3, <1>4, <1>5, <1>6, AnswerParts DEF AnswerAt

(* A forwarder moves a request, whose sender is saved with that.           *)
LEMMA ForwardAnswers ==
    ASSUME TypeInv, LifeInv, AnswersInv, [Next]_vars, NEW n \in Node, NEW m \in Node,
           Forward(n, m), UNCHANGED <<call, heard>>, NEW c \in Call, NEW k \in Node
    PROVE  AnswerAt(c, k)'
<1> DEFINE r == Head(queue[n][m])
<1>0. Wires /\ Fate(c)
  BY TypeParts, LifeStep
<1>1. /\ queue[n][m] \in Seq(RpcRequest) /\ queue[n][m] /= <<>> /\ r \in RpcRequest
      /\ \A a, b \in Node : queue'[a][b] = IF a = n /\ b = m THEN Tail(queue[a][b])
                                           ELSE queue[a][b]
      /\ \A a, b \in Node : saved'[a][b] = IF a = n /\ b = m THEN Saved(n, m, r)
                                           ELSE saved[a][b]
  BY <1>0, ForwardMoves
<1>2. UNCHANGED got
  BY DEF Forward
<1>3. AnswerAt(c, k)
  BY DEF AnswersInv
<1> HIDE DEF r
<1>4. CASE k = m /\ r \in Lookup(c)
  <2>1. /\ Holds(queue[n][m], Lookup(c))
        /\ Once(queue[n][m], Lookup(c)) => ~Holds(Tail(queue[n][m]), Lookup(c))
    BY <1>1, <1>4, HoldsTail DEF r
  <2>2. n = At(c) /\ n /= m /\ Pc(c) \in Late /\ ~Holds(Tail(queue[n][m]), Lookup(c))
    BY <1>3, <1>4, <2>1 DEF AnswerAt
  <2>3. Requested(c, m) /\ ~Expected(c, m) /\ ~Came(c, m) /\ m \notin heard[c]
    BY <1>3, <1>4, <2>1 DEF AnswerAt, Requested
  <2>4. \A a \in Node : a /= n => ~Holds(queue[a][m], Lookup(c))
    BY <1>3, <1>4, <2>2 DEF AnswerAt
  <2>5. \A a \in Node : ~Holds(queue'[a][m], Lookup(c))
    BY <1>1, <2>2, <2>4
  <2>6. \A a \in Node : Once(queue'[a][m], Lookup(c))
    BY <2>5 DEF Once, Holds
  <2>7. \A a \in Node : GetToken(c) \in saved'[a][m] => a = n
    BY <1>1, <2>3 DEF Expected
  <2>8. ~Requested(c, m)' /\ ~Came(c, m)' /\ m \notin heard'[c]
    BY <1>2, <2>3, <2>5, AnswerParts DEF Came
  <2>9. ~Holds(got'[GetToken(c)], Of(m)) /\ Once(got'[GetToken(c)], Of(m))
    BY <1>2, <1>3, <1>4, <2>3 DEF AnswerAt, Came
  <2>10. At(c)' = At(c) /\ Pc(c)' = Pc(c)
    BY DEF At, Pc
  <2> QED  BY <1>4, <2>2, <2>5, <2>6, <2>7, <2>8, <2>9, <2>10, AnswerParts DEF AnswerAt
<1>5. CASE ~(k = m /\ r \in Lookup(c))
  <2>1. ASSUME NEW a \in Node
        PROVE  /\ Quieter(queue[a][k], queue'[a][k], Lookup(c))
               /\ GetToken(c) \in saved'[a][k] => GetToken(c) \in saved[a][k]
    <3>1. queue[a][k] \in Seq(RpcRequest)
      BY <1>0 DEF Wires, Table
    <3>2. Quieter(queue[a][k], queue'[a][k], Lookup(c))
      BY <1>1, <3>1, QuietSteps
    <3>3. k = m => TokenOf(r) /= GetToken(c)
      BY <1>1, <1>5 DEF RpcRequest, TokenOf, GetToken, Lookup, Get
    <3>4. GetToken(c) \in saved'[a][k] => GetToken(c) \in saved[a][k]
      BY <1>1, <3>3 DEF Saved
    <3> QED  BY <3>2, <3>4
  <2>2. Quieter(got[GetToken(c)], got'[GetToken(c)], Of(k))
    BY <1>2 DEF Quieter
  <2>3. AnswerStays(c, k)
    BY <1>0, <2>1, <2>2 DEF AnswerStays
  <2> QED  BY <1>3, <2>3, AnswerStaysAt
<1> QED  BY <1>4, <1>5

(* An answer that is delivered was expected, and is of a member that runs. *)
LEMMA DeliverAnswers ==
    ASSUME TypeInv, LifeInv, Steady, AnswersInv, [Next]_vars,
           NEW n \in Node, NEW m \in Node, DeliverAnswer(n, m),
           UNCHANGED <<call, heard>>, NEW c \in Call, NEW k \in Node
    PROVE  AnswerAt(c, k)'
<1> DEFINE S == Answer(Call \cup {None} \cup BOOLEAN)
<1>1. PICK a \in Ack, e \in S :
               /\ a = Head(answers[n][m]) /\ a /= Error /\ answers[n][m] /= <<>>
               /\ e = [from |-> m, val |-> a.val]
               /\ \A t \in Token :
                      got'[t] = IF t \in Meant(n, m, a) \cap waiting
                                THEN Append(got[t], e) ELSE got[t]
               /\ \A x, y \in Node : saved'[x][y] = IF x = n /\ y = m
                      THEN saved[n][m] \ Meant(n, m, a) ELSE saved[x][y]
  BY Delivers
<1>2. UNCHANGED queue /\ m \in Running
  BY DEF DeliverAnswer, TakesAnswer, Steady
<1>3. AnswerAt(c, k) /\ GetToken(c) \in Token /\ Fate(c)
  BY LifeStep DEF AnswersInv, GetToken, Token
<1>4. got[GetToken(c)] \in Seq(S)
  <2>1. got \in [Token -> Seq(S)]
    BY TypeParts DEF GotInv
  <2> HIDE DEF S
  <2> QED  BY <1>3, <2>1
<1> HIDE DEF S
<1>5. CASE k = m /\ GetToken(c) \in Meant(n, m, a)
  <2>1. GetToken(c) \in saved[n][m]
    BY <1>5 DEF Meant, Lookups
  <2>2. /\ n = At(c) /\ n /= m /\ Pc(c) \in Late /\ Expected(c, m)
        /\ ~Requested(c, m) /\ ~Came(c, m) /\ m \notin heard[c]
    BY <1>3, <1>5, <2>1 DEF AnswerAt, Expected
  <2>3. \A x \in Node : GetToken(c) \notin saved'[x][m]
    BY <1>1, <1>3, <1>5, <2>2 DEF AnswerAt
  <2>4. Once(got'[GetToken(c)], Of(m))
    <3>1. Once(got[GetToken(c)], Of(m)) /\ ~Holds(got[GetToken(c)], Of(m))
      BY <1>3, <1>5, <2>2 DEF AnswerAt, Came
    <3> QED  BY <1>1, <1>3, <1>4, <3>1, HoldsAppend
  <2>5. ~Requested(c, m)' /\ ~Expected(c, m)' /\ m \notin heard'[c]
    BY <1>2, <2>2, <2>3, AnswerParts DEF Requested
  <2>6. \A x \in Node : Once(queue'[x][m], Lookup(c)) /\ ~Holds(queue'[x][m], Lookup(c))
    BY <1>2, <1>3, <1>5, <2>2 DEF AnswerAt, Requested
  <2>7. At(c)' = At(c) /\ Pc(c)' = Pc(c)
    BY DEF At, Pc
  <2> QED  BY <1>2, <1>5, <2>2, <2>3, <2>4, <2>5, <2>6, <2>7, AnswerParts DEF AnswerAt
<1>6. CASE ~(k = m /\ GetToken(c) \in Meant(n, m, a))
  <2>1. Quieter(got[GetToken(c)], got'[GetToken(c)], Of(k))
    <3>1. CASE got'[GetToken(c)] = got[GetToken(c)]
      BY <3>1 DEF Quieter
    <3>2. CASE got'[GetToken(c)] = Append(got[GetToken(c)], e) /\ k /= m
      <4>1. e \notin Of(k)
        BY <1>1, <3>2 DEF Of
      <4> QED  BY <1>4, <3>2, <4>1, QuietSteps
    <3> QED  BY <1>1, <1>3, <1>6, <3>1, <3>2
  <2>2. \A x \in Node : GetToken(c) \in saved'[x][k] => GetToken(c) \in saved[x][k]
    BY <1>1
  <2>3. \A x \in Node : Quieter(queue[x][k], queue'[x][k], Lookup(c))
    BY <1>2 DEF Quieter
  <2>4. AnswerStays(c, k)
    BY <1>3, <2>1, <2>2, <2>3 DEF AnswerStays
  <2> QED  BY <1>3, <2>4, AnswerStaysAt
<1> QED  BY <1>5, <1>6

(* A lookup takes an answer of a member it has not heard from yet.         *)
LEMMA TakenAnswer ==
    ASSUME TypeInv, AnswersInv, NEW c \in Call, TakeAnswer(c)
    PROVE  \E m \in Node :
               /\ heard'[c] = heard[c] \cup {m} /\ m \notin heard[c]
               /\ Came(c, m) /\ ~Holds(got'[GetToken(c)], Of(m))
<1> DEFINE t == GetToken(c)
           S == Answer(Call \cup {None})
           m == Head(got[t]).from
<1>1. t \in Token /\ got[t] \in Seq(S) /\ got[t] /= <<>> /\ DOMAIN got = Token
  BY TypeParts DEF GotInv, GotTypeOK, GetToken, Token, TakeAnswer
<1>2. heard' = [heard EXCEPT ![c] = @ \cup {m}]
  BY DEF TakeAnswer, GetToken
<1>3. got'[t] = <<>> \/ got'[t] = Tail(got[t])
  <2>1. CASE Drop({t})
    BY <1>1, <2>1 DEF Drop
  <2>2. CASE got' = [got EXCEPT ![t] = Tail(@)]
    BY <1>1, <2>2
  <2> QED  BY <2>1, <2>2 DEF TakeAnswer, GetToken
<1>4. heard \in [Call -> SUBSET Node]
  BY TypeParts, OpsTyped DEF OpsTypes
<1> HIDE DEF S
<1>5. Head(got[t]) \in S
  BY <1>1, HeadTailProperties
<1>6. m \in Node /\ Head(got[t]) \in Of(m)
  BY <1>5 DEF S, Answer, Of
<1> HIDE DEF t, m
<1>7. AnswerAt(c, m)
  BY <1>6 DEF AnswersInv
<1>8. Came(c, m) /\ m \notin heard[c] /\ ~Holds(Tail(got[t]), Of(m))
  <2>1. /\ Holds(got[t], Of(m))
        /\ Once(got[t], Of(m)) => ~Holds(Tail(got[t]), Of(m))
    BY <1>1, <1>6, HoldsTail
  <2> QED  BY <1>7, <2>1 DEF AnswerAt, Came, t
<1> QED  BY <1>2, <1>3, <1>4, <1>6, <1>8, HoldsEmpty DEF t

LEMMA TakeAnswerAnswers ==
    ASSUME TypeInv, LifeInv, AnswersInv, [Next]_vars, NEW c \in Call, TakeAnswer(c),
           NEW k \in Node
    PROVE  AnswerAt(c, k)'
<1>1. PICK m \in Node :
               /\ heard'[c] = heard[c] \cup {m} /\ m \notin heard[c]
               /\ Came(c, m) /\ ~Holds(got'[GetToken(c)], Of(m))
  BY TakenAnswer
<1>2. UNCHANGED <<queue, saved>> /\ Fate(c) /\ AnswerAt(c, k)
  BY LifeStep DEF TakeAnswer, otherRequests, AnswersInv
<1>3. GetToken(c) \in Token /\ GotShrinks
  BY CallGot DEF CallStep, GetToken, Token
<1>4. Quieter(got[GetToken(c)], got'[GetToken(c)], Of(k))
  BY <1>3, GotQuieter
<1>5. CASE k /= m
  <2>1. AnswerStays(c, k)
    BY <1>1, <1>2, <1>4, <1>5 DEF AnswerStays, Quieter
  <2> QED  BY <1>2, <2>1, AnswerStaysAt
<1>6. CASE k = m
  <2>1. /\ m \in Running /\ m /= At(c) /\ Pc(c) \in Late
        /\ ~Requested(c, m) /\ ~Expected(c, m)
    BY <1>1, <1>2, <1>6 DEF AnswerAt
  <2>2. Pc(c)' \in Late /\ At(c)' = At(c)
    BY <1>2, <2>1 DEF Fate, Follows, Late, Returned, Pc, At
  <2>3. ~Requested(c, m)' /\ ~Expected(c, m)' /\ ~Came(c, m)'
    BY <1>1, <1>2, <2>1, AnswerParts DEF Requested, Expected
  <2>4. \A a \in Node : /\ ~Holds(queue'[a][m], Lookup(c))
                        /\ GetToken(c) \notin saved'[a][m]
                        /\ Once(queue'[a][m], Lookup(c))
    BY <1>2, <1>6, <2>1 DEF AnswerAt, Requested, Expected
  <2>5. Once(got'[GetToken(c)], Of(m))
    BY <1>2, <1>4, <1>6 DEF AnswerAt, Quieter
  <2> QED  BY <1>6, <2>1, <2>2, <2>3, <2>4, <2>5, AnswerParts DEF AnswerAt
<1> QED  BY <1>5, <1>6

LEMMA AnswersStep ==
    ASSUME TypeInv, LifeInv, Steady, AnswersInv, LooksInv, [Next]_vars
    PROVE  AnswersInv'
<1> SUFFICES ASSUME NEW c \in Call, NEW k \in Node PROVE AnswerAt(c, k)'
  BY DEF AnswersInv
<1>1. ASSUME NEW n \in Node, NEW m \in Node, Forwards(n, m) \/ HandsOver(n, m)
      PROVE  AnswerAt(c, k)'
  <2>1. UNCHANGED <<call, heard>>
    BY <1>1 DEF Forwards, HandsOver, opVars, historyVars
  <2> QED  BY <1>1, <2>1, ForwardAnswers, DeliverAnswers DEF Forwards, HandsOver
<1>2. CASE Ask(c) \/ TakeAnswer(c)
  BY <1>2, AskAnswers, TakeAnswerAnswers
<1> QED  BY <1>1, <1>2, AnswersStayPut

-----------------------------------------------------------------------------
(* How far a lookup is, and what it has heard.                             *)
LEMMA OthersCalls ==
    ASSUME TypeInv, [Next]_vars, \A n \in Node : ~Stop(n), NEW c \in Call,
           ~BeginCall(c), ~CallStep(c), ~OwnRunEnds(c)
    PROVE  call'[c] = call[c]
<1>1. call \in [Call -> CallRecord]
  BY TypeParts, OpsTyped DEF OpsTypes
<1>2. ASSUME NEW d \in Call, BeginCall(d) \/ CallStep(d) \/ OwnRunEnds(d)
      PROVE  call'[c] = call[c]
  <2>1. c /= d
    BY <1>2
  <2>2. PICK cl : call' = [call EXCEPT ![d] = cl]
    <3>1. CASE \E pc : Goes(d, pc)
      BY <3>1 DEF Goes
    <3>2. CASE BeginCall(d)
      BY <3>2 DEF BeginCall, Begin
    <3>3. CASE Look(d)
      <4>1. PICK v, pc : call' = [call EXCEPT ![d].found = v, ![d].pc = pc]
        BY <3>3 DEF Look
      <4>2. call' = [call EXCEPT ![d] = [@ EXCEPT !.found = v, !.pc = pc]]
        BY <1>1, <4>1
      <4> QED  BY <4>2
    <3>4. CASE TakeAnswer(d)
      <4>1. PICK v : \/ call' = [call EXCEPT ![d].pc = "ok", ![d].found = v]
                     \/ call' = [call EXCEPT ![d].left = @ - 1]
        BY <3>4 DEF TakeAnswer
      <4>2. CASE call' = [call EXCEPT ![d].pc = "ok", ![d].found = v]
        <5>1. call' = [call EXCEPT ![d] = [@ EXCEPT !.pc = "ok", !.found = v]]
          BY <1>1, <4>2
        <5> QED  BY <5>1
      <4>3. CASE call' = [call EXCEPT ![d].left = @ - 1]
        BY <4>3
      <4> QED  BY <4>1, <4>2, <4>3
    <3>5. CASE StoreHere(d) \/ SendAll(d) \/ Ask(d) \/ Push(d) \/ TakeVerdict(d)
               \/ CallFails(d) \/ OwnRunEnds(d)
      BY <3>1, <3>5 DEF StoreHere, SendAll, Ask, Push, TakeVerdict, CallFails,
         OwnRunEnds
    <3> QED  BY <1>2, <3>2, <3>3, <3>4, <3>5 DEF CallStep
  <2> QED  BY <1>1, <2>1, <2>2
<1>3. ASSUME NEW d \in Call, RunStep(d), ~OwnRunEnds(d)
      PROVE  UNCHANGED call
  BY <1>3 DEF RunStep, RunSends, RunStores, RunTakesAck, RunMissesAck, RunTurns,
     RunSucceeds, ServedRunEnds
<1>4. ASSUME NEW n \in Node, NEW m \in Node,
             ClientStep(n, m) \/ ServerStep(n, m) \/ Fault(n, m)
      PROVE  UNCHANGED call
  BY <1>4 DEF ClientStep, ServerStep, Fault, ServeUpdate, ServeWrite, RefuseWrite,
     opVars
<1>5. ASSUME NEW n \in Node, PublishView(n) \/ Empty(n) \/ Start(n)
      PROVE  UNCHANGED call
  BY <1>5 DEF PublishView, Empty, Start, opVars
<1>6. UNCHANGED vars => UNCHANGED call
  BY DEF vars, opVars
<1> QED  BY <1>2, <1>3, <1>4, <1>5, <1>6 DEF Next

(* A lookup begins with what the steady view says of the other members.    *)
LEMMA BeginLooks ==
    ASSUME TypeInv, LifeInv, Steady, LooksInv, NEW c \in Call, BeginCall(c)
    PROVE  Looks(call'[c], heard'[c])
<1>1. call \in [Call -> CallRecord] /\ UNCHANGED heard /\ Pc(c) = "idle"
  BY TypeParts, OpsTyped DEF OpsTypes, BeginCall, historyVars
<1>2. PICK o \in Offer[c] : up[o.at] /\ Begin(c, o, BeginsWith(o, view[o.at]),
                                              view[o.at].hosts)
  BY DEF BeginCall
<1>3. o \in [op : Operation, at : Node, level : AckLevel]
  BY OfferAssumption
<1>4. o.at \in Running /\ view[o.at] = FirstView(o.at)
  BY <1>2, <1>3 DEF Steady
<1>5. view[o.at].hosts = Cardinality(Running) - 1 /\ view[o.at].quorum
  BY <1>4 DEF FirstView
<1>6. Cardinality(Running) - 1 > 0 /\ Cardinality(Running) \in Nat
  BY OfferAssumption, RunningFinite, QuorumPositive
<1>7. heard'[c] = {} /\ Cardinality({}) = 0
  BY <1>1, FS_EmptySet DEF LooksInv, Looks, Late, Returned, Pc
<1> DEFINE pc == BeginsWith(o, view[o.at])
<1>8. pc \in {"look", "store", "error", "run", "push"}
  BY <1>3 DEF BeginsWith, GetBegins, PutBegins, WriteBegins, Operation
<1> HIDE DEF pc
<1>9. /\ call'[c].pc = pc /\ call'[c].op = o.op /\ call'[c].at = o.at
      /\ call'[c].left = view[o.at].hosts
  BY <1>1, <1>2 DEF Begin, pc
<1> QED  BY <1>4, <1>5, <1>6, <1>7, <1>8, <1>9 DEF Looks

LEMMA TakenLooks ==
    ASSUME TypeInv, LifeInv, AnswersInv, LooksInv, NEW c \in Call, TakeAnswer(c)
    PROVE  Looks(call'[c], heard'[c])
<1> DEFINE t == GetToken(c)
           v == Head(got[t]).val
<1>1. PICK m \in Node :
               /\ heard'[c] = heard[c] \cup {m} /\ m \notin heard[c]
               /\ Came(c, m) /\ ~Holds(got'[GetToken(c)], Of(m))
  BY TakenAnswer
<1>2. /\ call \in [Call -> CallRecord] /\ Pc(c) = "wait" /\ call[c].left \in Nat
      /\ call[c].op = "get"
  <2>1. GetToken(c) \in waiting
    BY TypeParts DEF GotInv, Listens, TakeAnswer, GetToken, Token
  <2> QED  BY <2>1, TypeParts, OpsTyped DEF OpsTypes, TakeAnswer, CallRecord,
           CallInv, CallFits, GetToken
<1>3. /\ call[c].at \in Running /\ call[c].left > 0
      /\ Cardinality(heard[c]) + call[c].left = Cardinality(Running) - 1
  BY <1>2 DEF LooksInv, Looks, Pc
<1>4. heard'[c] \subseteq Running \ {call[c].at}
  <2>1. \A k \in Node : AnswerAt(c, k)
    BY DEF AnswersInv
  <2>2. heard[c] \subseteq Node
    BY TypeParts, OpsTyped DEF OpsTypes
  <2> QED  BY <1>1, <2>1, <2>2 DEF AnswerAt, At
<1>5. IsFiniteSet(Running) /\ IsFiniteSet(heard[c]) /\ IsFiniteSet(Running \ {call[c].at})
  <2>1. IsFiniteSet(Running)
    BY OfferAssumption, MemberAssumption, FS_Subset
  <2>2. heard[c] \subseteq Running
    BY <1>1, <1>4
  <2> QED  BY <2>1, <2>2, FS_Subset
<1>6. Cardinality(heard'[c]) = Cardinality(heard[c]) + 1
  BY <1>1, <1>5, FS_AddElement
<1>7. Cardinality(Running \ {call[c].at}) = Cardinality(Running) - 1
  BY <1>3, <1>5, FS_RemoveElement
<1>8. /\ Cardinality(heard[c]) \in Nat /\ Cardinality(heard'[c]) \in Nat
      /\ Cardinality(Running) \in Nat
  BY <1>1, <1>5, <1>6, FS_CardinalityType
<1>9. CASE v /= None \/ call[c].left = 1
  <2>1. call' = [call EXCEPT ![c].pc = "ok", ![c].found = v]
    BY <1>9 DEF TakeAnswer, LastAnswer, GetToken
  <2> HIDE DEF v
  <2>2. call'[c].pc = "ok" /\ call'[c].found = v /\ call'[c].at = call[c].at
    BY <1>2, <2>1 DEF CallRecord
  <2>3. v = None => heard'[c] = Running \ {call[c].at}
    <3>1. v = None => Cardinality(heard'[c]) = Cardinality(Running \ {call[c].at})
      BY <1>3, <1>6, <1>7, <1>8, <1>9
    <3> QED  BY <1>4, <1>5, <3>1, FS_Subset
  <2> QED  BY <2>2, <2>3 DEF Looks, Late, Returned
<1>10. CASE ~(v /= None \/ call[c].left = 1)
  <2>1. call' = [call EXCEPT ![c].left = @ - 1]
    BY <1>10 DEF TakeAnswer, LastAnswer, GetToken
  <2>2. /\ call'[c].pc = "wait" /\ call'[c].left = call[c].left - 1
        /\ call'[c].at = call[c].at
    BY <1>2, <2>1 DEF CallRecord, Pc
  <2> QED  BY <1>2, <1>3, <1>6, <1>8, <1>10, <2>2 DEF Looks, Late, Returned
<1> QED  BY <1>9, <1>10

LEMMA LooksStep ==
    ASSUME TypeInv, LifeInv, Steady, AnswersInv, LooksInv, [Next]_vars,
           \A n \in Node : ~Stop(n)
    PROVE  LooksInv'
<1> SUFFICES ASSUME NEW c \in Call PROVE Looks(call'[c], heard'[c])
  BY DEF LooksInv
<1>1. /\ call \in [Call -> CallRecord] /\ call[c] \in CallRecord
      /\ Looks(call[c], heard[c]) /\ Fits(call[c], run[c], stored[c]) /\ CallFits(c)
  BY TypeParts, OpsTyped
     DEF OpsTypes, LooksInv, LifeInv, RunInv, RunFits, CallInv
<1>2. CASE BeginCall(c)
  BY <1>2, BeginLooks
<1>3. CASE TakeAnswer(c)
  BY <1>3, TakenLooks
<1>4. CASE ~TakeAnswer(c) /\ ~BeginCall(c)
  <2>1. heard'[c] = heard[c]
    BY <1>4, HeardSame
  <2>2. CASE call'[c] = call[c]
    BY <1>1, <2>1, <2>2
  <2>3. ASSUME NEW pc \in {"send", "wait", "ok", "error"}, Goes(c, pc),
               call[c].op /= "get" \/ pc = "error", pc \in Late \/ Pc(c) \notin Late
        PROVE  Looks(call'[c], heard'[c])
    <3>1. /\ call'[c].pc = pc /\ call'[c].op = call[c].op
      BY <1>1, <2>3 DEF Goes, CallRecord
    <3> QED  BY <1>1, <2>1, <2>3, <3>1 DEF Looks, Pc
  <2>4. CASE StoreHere(c) \/ SendAll(c) \/ Push(c) \/ OwnRunEnds(c)
    <3>1. call[c].op /= "get" /\ Pc(c) \notin Late
      BY <1>1, <2>4 DEF StoreHere, SendAll, Push, OwnRunEnds, Fits, CallFits, ModOps,
         Late, Returned, Pc
    <3> QED  BY <2>3, <2>4, <3>1 DEF StoreHere, SendAll, Push, OwnRunEnds
  <2>5. CASE TakeVerdict(c)
    <3>1. call[c].op /= "get"
      <4>1. <<c, "mod">> \in waiting
        BY <2>5, TypeParts DEF GotInv, Listens, TakeVerdict, Token
      <4> QED  BY <1>1, <4>1 DEF CallFits, ModOps
    <3> QED  BY <2>3, <2>5, <3>1 DEF TakeVerdict, Late, Returned
  <2>6. CASE CallFails(c)
    BY <2>3, <2>6 DEF CallFails, Late, Returned
  <2>7. CASE Ask(c)
    <3>1. /\ call'[c].pc = "wait" /\ call'[c].op = "get" /\ call'[c].at = call[c].at
          /\ call'[c].left = call[c].left /\ call[c].pc = "ask" /\ call[c].op = "get"
      BY <1>1, <2>7 DEF Ask, Goes, CallRecord, CallFits, Pc
    <3> QED  BY <1>1, <2>1, <3>1 DEF Looks, Late, Returned
  <2>8. CASE Look(c)
    <3> DEFINE v == cache[At(c)]
    <3>1. Pc(c) = "look" /\ call[c].op = "get" /\ call[c].left > 0
      BY <1>1, <2>8 DEF Look, CallFits, Looks, Pc
    <3>2. PICK pc : /\ pc = IF v = None THEN "ask" ELSE "ok"
                    /\ call' = [call EXCEPT ![c].found = v, ![c].pc = pc]
      BY <2>8, <3>1 DEF Look
    <3> HIDE DEF v
    <3>3. /\ call'[c].pc = pc /\ call'[c].op = "get" /\ call'[c].at = call[c].at
          /\ call'[c].left = call[c].left /\ call'[c].found = v
      BY <1>1, <3>1, <3>2 DEF CallRecord
    <3> QED  BY <1>1, <2>1, <3>1, <3>2, <3>3 DEF Looks, Late, Returned, Pc
  <2>9. CASE ~CallStep(c) /\ ~OwnRunEnds(c)
    BY <1>4, <2>2, <2>9, OthersCalls
  <2> QED  BY <1>4, <2>4, <2>5, <2>6, <2>7, <2>8, <2>9 DEF CallStep
<1> QED  BY <1>2, <1>3, <1>4

LEMMA MissStep ==
    ASSUME TypeInv, LifeInv, MissInv, [Next]_vars
    PROVE  MissInv'
<1> SUFFICES ASSUME Undisturbed'
             PROVE  Steady' /\ AnswersInv' /\ LooksInv'
  BY DEF MissInv
<1>1. Undisturbed /\ \A n \in Node : ~Stop(n)
  BY NoneFailedBefore DEF Undisturbed, Failure
<1>2. Steady /\ AnswersInv /\ LooksInv
  BY <1>1 DEF MissInv
<1> QED  BY <1>1, <1>2, SteadyStep, AnswersStep, LooksStep

(* A lookup reports that nobody has the entry only when it has heard from  *)
(* all other members, as long as no process stops and no quorum handler    *)
(* publishes anything: although streams break and answers come late, and   *)
(* lookups of one entry take each other's senders and answers              *)
(* (cache_get_value, get_cache).                                           *)
THEOREM MissesHeard == Spec => []MissHeardFromAll
<1>1. Init => TypeInv /\ LifeInv /\ MissInv
  BY TypesInit, LifeInit, MissInit
<1>2. TypeInv /\ LifeInv /\ MissInv /\ [Next]_vars => (TypeInv /\ LifeInv /\ MissInv)'
  BY TypesStep, LifeStep, MissStep DEF LifeInv
<1>3. MissInv => MissHeardFromAll
  BY MissInvSuffices
<1> QED  BY <1>1, <1>2, <1>3, PTL DEF Spec

-----------------------------------------------------------------------------
(* What an entry that holds v will hold when all updates of s have been    *)
(* carried out.                                                            *)
IsUpdate(r) == r.is \in {"Put", "Del"}
Updates     == {r \in RpcRequest : IsUpdate(r)}
After(r, v) == IF IsUpdate(r) THEN IF r.is = "Put" THEN r.call ELSE None ELSE v

Leaves(s, v, w) ==
    \/ w = v /\ \A i \in DOMAIN s : ~IsUpdate(s[i])
    \/ \E i \in DOMAIN s : /\ IsUpdate(s[i]) /\ w = After(s[i], v)
                           /\ \A j \in DOMAIN s : j > i => ~IsUpdate(s[j])

LEMMA LeavesEmpty ==
    ASSUME NEW v, NEW w
    PROVE  Leaves(<<>>, v, w) <=> w = v
BY DEF Leaves

LEMMA LeavesAppend ==
    ASSUME NEW s \in Seq(RpcRequest), NEW e \in RpcRequest, NEW v, NEW w,
           Leaves(s, v, w)
    PROVE  Leaves(Append(s, e), v, After(e, w))
<1> DEFINE t == Append(s, e)
<1>1. /\ DOMAIN s = 1 .. Len(s) /\ DOMAIN t = 1 .. Len(s) + 1 /\ Len(s) \in Nat
      /\ t[Len(s) + 1] = e
      /\ \A i \in 1 .. Len(s) : t[i] = s[i]
  BY AppendProperties, LenProperties
<1> HIDE DEF t
<1>2. CASE IsUpdate(e)
  <2>1. After(e, w) = After(e, v)
    BY <1>2 DEF After
  <2>2. Len(s) + 1 \in DOMAIN t /\ \A j \in DOMAIN t : ~(j > Len(s) + 1)
    BY <1>1
  <2> QED  BY <1>1, <1>2, <2>1, <2>2 DEF Leaves, t
<1>3. CASE ~IsUpdate(e)
  <2>1. After(e, w) = w
    BY <1>3 DEF After
  <2>2. CASE w = v /\ \A i \in DOMAIN s : ~IsUpdate(s[i])
    <3>1. \A i \in DOMAIN t : ~IsUpdate(t[i])
      BY <1>1, <1>3, <2>2
    <3> QED  BY <2>1, <2>2, <3>1 DEF Leaves, t
  <2>3. CASE \E i \in DOMAIN s : /\ IsUpdate(s[i]) /\ w = After(s[i], v)
                                 /\ \A j \in DOMAIN s : j > i => ~IsUpdate(s[j])
    <3>1. PICK i \in DOMAIN s : /\ IsUpdate(s[i]) /\ w = After(s[i], v)
                                /\ \A j \in DOMAIN s : j > i => ~IsUpdate(s[j])
      BY <2>3
    <3>2. /\ i \in DOMAIN t /\ t[i] = s[i]
          /\ \A j \in DOMAIN t : j > i => ~IsUpdate(t[j])
      BY <1>1, <1>3, <3>1
    <3> QED  BY <2>1, <3>1, <3>2 DEF Leaves, t
  <2> QED  BY <2>2, <2>3 DEF Leaves
<1> QED  BY <1>2, <1>3

LEMMA LeavesTail ==
    ASSUME NEW s \in Seq(RpcRequest), s /= <<>>, NEW v, NEW w, Leaves(s, v, w)
    PROVE  Leaves(Tail(s), After(Head(s), v), w)
<1> DEFINE t == Tail(s)
<1>1. /\ Len(t) = Len(s) - 1 /\ Head(s) = s[1] /\ Len(s) \in Nat /\ Len(s) > 0
      /\ \A i \in 1 .. Len(t) : t[i] = s[i + 1]
  BY HeadTailProperties, LenProperties, EmptySeq
<1>2. DOMAIN s = 1 .. Len(s) /\ DOMAIN t = 1 .. Len(s) - 1
  BY <1>1, HeadTailProperties, LenProperties
<1> HIDE DEF t
<1>3. CASE w = v /\ \A i \in DOMAIN s : ~IsUpdate(s[i])
  <2>1. After(Head(s), v) = v
    BY <1>1, <1>2, <1>3 DEF After
  <2>2. \A i \in DOMAIN t : ~IsUpdate(t[i])
    BY <1>1, <1>2, <1>3
  <2> QED  BY <1>3, <2>1, <2>2 DEF Leaves, t
<1>4. ASSUME NEW i \in DOMAIN s, IsUpdate(s[i]), w = After(s[i], v),
             \A j \in DOMAIN s : j > i => ~IsUpdate(s[j])
      PROVE  Leaves(Tail(s), After(Head(s), v), w)
  <2>1. CASE i = 1
    <3>1. w = After(Head(s), v)
      BY <1>1, <1>4, <2>1
    <3>2. ASSUME NEW j \in DOMAIN t
          PROVE  ~IsUpdate(t[j])
      <4>1. j + 1 \in DOMAIN s /\ j + 1 > i /\ t[j] = s[j + 1]
        BY <1>1, <1>2, <2>1
      <4> QED  BY <1>4, <4>1
    <3> QED  BY <3>1, <3>2 DEF Leaves, t
  <2>2. CASE i /= 1
    <3>1. i - 1 \in DOMAIN t /\ t[i - 1] = s[i]
      BY <1>1, <1>2, <2>2
    <3>2. ASSUME NEW j \in DOMAIN t, j > i - 1
          PROVE  ~IsUpdate(t[j])
      <4>1. j + 1 \in DOMAIN s /\ j + 1 > i /\ t[j] = s[j + 1]
        BY <1>1, <1>2, <3>2
      <4> QED  BY <1>4, <4>1
    <3>3. w = After(t[i - 1], After(Head(s), v)) /\ IsUpdate(t[i - 1])
      BY <1>4, <3>1 DEF After
    <3> QED  BY <3>1, <3>2, <3>3 DEF Leaves, t
  <2> QED  BY <2>1, <2>2
<1> QED  BY <1>3, <1>4 DEF Leaves

-----------------------------------------------------------------------------
(* As long as no stream breaks either, and all writes go through a leader, *)
(* nothing but the leader's runs updates another member.                   *)
Calm == NoneFails({"break", "stop", "view"})

Linked ==
    \A n, m \in Node : conn[n][m] =
        IF n /= m /\ {n, m} \subseteq Running THEN "up" ELSE "down"

(* So no tasks are left behind that could take a request.                  *)
NothingBehind == \A n, m \in Node : behind[n][m] = <<>>

NoErrors == \A n, m \in Node : ~Holds(answers[n][m], {Error})

LedCalls ==
    \A c \in Call : /\ Pc(c) /= "idle" => call[c].to \in {Lead, None}
                    /\ run[c].pc /= "none" => run[c].at = Lead

LedUpdates ==
    \A a, m \in Node : a /= Lead => ~Holds(queue[a][m], Updates)
                                    /\ ~Holds(stream[a][m], Updates)

(* What has gone from the leader to m, and is not carried out yet, leaves  *)
(* m's entry with w.                                                       *)
Reaches(m, w) ==
    \E u : Leaves(stream[Lead][m], cache[m], u) /\ Leaves(queue[Lead][m], u, w)

SameEnd == \E w : \A m \in Running \ {Lead} : Reaches(m, w)

Led == Linked /\ NothingBehind /\ NoErrors /\ LedCalls /\ LedUpdates /\ SameEnd

NotBegun == \A c \in Call : Pc(c) = "idle" => call[c].op = "get"

AgreeInv == Calm => Steady /\ NotBegun /\ (OnlyLedWrites => Led)

LEMMA AgreeInvSuffices == TypeInv /\ AgreeInv => FollowersAgree
<1> SUFFICES ASSUME TypeInv, AgreeInv, Settled, Calm, OnlyLedWrites,
                    NEW n \in Running \ {Lead}, NEW m \in Running \ {Lead}
             PROVE  cache[n] = cache[m]
  BY DEF FollowersAgree, Calm
<1>1. Steady /\ SameEnd /\ Running \subseteq Node /\ Lead \in Running
  BY OfferAssumption DEF AgreeInv, Led
<1>2. PICK w : \A k \in Running \ {Lead} : Reaches(k, w)
  BY <1>1 DEF SameEnd
<1>3. ASSUME NEW k \in Running \ {Lead}
      PROVE  cache[k] = w
  <2>1. stream[Lead][k] = <<>> /\ queue[Lead][k] = <<>>
    BY <1>1 DEF Settled, Steady
  <2> QED  BY <1>2, <2>1, LeavesEmpty DEF Reaches
<1> QED  BY <1>3

LEMMA AgreeInit == Init => AgreeInv
<1> SUFFICES ASSUME Init PROVE AgreeInv
  OBVIOUS
<1>1. \A a, m \in Node : queue[a][m] = <<>> /\ stream[a][m] = <<>> /\ answers[a][m] = <<>>
  BY DEF Init, RequestsInit, NoRequests
<1>2. NoErrors /\ LedUpdates
  BY <1>1, HoldsEmpty DEF NoErrors, LedUpdates
<1>3. Linked /\ NothingBehind
  BY DEF Init, ElectedInit, Linked, RequestsInit, NoRequests, NothingBehind
<1>4. LedCalls /\ NotBegun
  BY DEF Init, CacheOpsInit, NoCall, NoRun, LedCalls, NotBegun, Pc
<1>5. \A m \in Running \ {Lead} : Reaches(m, None)
  <2>1. \A m \in Node : cache[m] = None
    BY DEF Init, RequestsInit
  <2> QED  BY <1>1, <2>1, LeavesEmpty, OfferAssumption DEF Reaches
<1> QED  BY <1>2, <1>3, <1>4, <1>5, SteadyInit DEF AgreeInv, Led, SameEnd

-----------------------------------------------------------------------------
(* No connection is lost, no stream is opened, and none ends with an error. *)
LEMMA NothingEnds ==
    ASSUME Wires, Linked, NoErrors, NEW n \in Node, NEW m \in Node
    PROVE  ~Ends(n, m)
<1> SUFFICES ASSUME Ends(n, m) PROVE FALSE
  OBVIOUS
<1>1. answers[n][m] /= <<>> /\ Head(answers[n][m]) = Error
  BY DEF Ends, Linked
<1>2. answers[n][m] \in Seq(Ack)
  BY DEF Wires, Table
<1>3. Holds(answers[n][m], {Error})
  BY <1>1, <1>2, HeadHeld
<1> QED  BY <1>3 DEF NoErrors

Opening(n, m) ==
    OpenStream(n, m) \/ OpeningFails(n, m) \/ OpeningUnanswered(n, m)

LEMMA NothingConnects ==
    ASSUME Steady, Linked, NEW n \in Node, NEW m \in Node
    PROVE  ~Connect(n, m) /\ ~Opening(n, m)
<1>1. conn[n][m] /= "connected"
  BY DEF Linked
<1>2. ~Opening(n, m)
  BY <1>1 DEF Opening, OpenStream, OpeningFails, OpeningUnanswered, OpenFails, Opens
<1> QED  BY <1>2 DEF Connect, Connects, Linked, Steady

LEMMA LinkedStep ==
    ASSUME TypeInv, [Next]_vars, Steady, Linked, NoErrors,
           \A n \in Node : ~Stop(n), \A n, m \in Node : ~Break(n, m)
    PROVE  Linked'
<1>1. UNCHANGED conn => Linked'
  BY DEF Linked
<1>2. ASSUME NEW n \in Node, NEW m \in Node, ClientStep(n, m) \/ Fault(n, m)
      PROVE  UNCHANGED conn
  <2>1. ~Ends(n, m) /\ ~Connect(n, m) /\ ~Opening(n, m)
    BY NothingEnds, NothingConnects, TypeParts
  <2>2. UNCHANGED memberVars => UNCHANGED conn
    BY DEF memberVars
  <2> QED  BY <1>2, <2>1, <2>2 DEF ClientStep, Fault, Forward, DeliverAnswer,
           LateAnswer, TakesAnswer, LoseRest, Opening, LeftBehindTakes,
           LeftBehindTakesOther
<1>3. ASSUME NEW n \in Node, NEW m \in Node, ServerStep(n, m)
      PROVE  UNCHANGED conn
  BY <1>3 DEF ServerStep, ServeGet, ServeUpdate, ServeMod, ServeWrite, RefuseWrite,
     memberVars
<1>4. ASSUME NEW c \in Call, BeginCall(c) \/ CallStep(c) \/ RunStep(c)
      PROVE  UNCHANGED conn
  BY <1>4 DEF BeginCall, CallStep, RunStep, StoreHere, SendAll, Look, Ask,
     TakeAnswer, Push, TakeVerdict, CallFails, RunSends, RunStores, RunTakesAck,
     RunMissesAck, RunTurns, RunSucceeds, OwnRunEnds, ServedRunEnds, memberVars
<1>5. ASSUME NEW n \in Node, PublishView(n) \/ Empty(n) \/ Start(n)
      PROVE  UNCHANGED conn
  BY <1>5 DEF PublishView, Publishes, Empty, Empties, Start, Starts
<1>6. UNCHANGED vars => UNCHANGED conn
  BY DEF vars, memberVars
<1> QED  BY <1>1, <1>2, <1>3, <1>4, <1>5, <1>6 DEF Next

LEMMA NobodyBehind ==
    ASSUME NothingBehind, NEW n \in Node, NEW m \in Node
    PROVE  ~LeftBehindTakes(n, m) /\ ~LeftBehindTakesOther(n, m)
<1>1. behind[n][m] = <<>>
  BY DEF NothingBehind
<1>2. DOMAIN behind[n][m] = {}
  BY <1>1
<1> QED  BY <1>2 DEF LeftBehindTakes, LeftBehindTakesOther

LEMMA BehindStep ==
    ASSUME TypeInv, [Next]_vars, Steady, Linked, NothingBehind,
           \A n \in Node : ~Stop(n)
    PROVE  NothingBehind'
<1>1. UNCHANGED behind => NothingBehind'
  BY DEF NothingBehind
<1>2. ASSUME NEW n \in Node, NEW m \in Node, ClientStep(n, m) \/ Fault(n, m)
      PROVE  UNCHANGED behind
  <2>1. /\ ~LeftBehindTakes(n, m) /\ ~LeftBehindTakesOther(n, m)
        /\ ~Opening(n, m)
    BY NobodyBehind, NothingConnects
  <2> QED  BY <1>2, <2>1 DEF ClientStep, Fault, Forward, DeliverAnswer, LateAnswer,
           TakesAnswer, Connect, Ends, Break, TearDown, LoseRest, Opening
<1>3. ASSUME NEW n \in Node, NEW m \in Node, ServerStep(n, m)
      PROVE  UNCHANGED behind
  BY <1>3 DEF ServerStep, ServeGet, ServeUpdate, ServeMod, ServeWrite, RefuseWrite
<1>4. ASSUME NEW c \in Call, BeginCall(c) \/ CallStep(c) \/ RunStep(c)
      PROVE  UNCHANGED behind
  BY <1>4 DEF BeginCall, CallStep, RunStep, StoreHere, SendAll, Look, Ask,
     TakeAnswer, Push, TakeVerdict, CallFails, RunSends, RunStores, RunTakesAck,
     RunMissesAck, RunTurns, RunSucceeds, OwnRunEnds, ServedRunEnds, requestVars,
     otherRequests
<1>5. ASSUME NEW n \in Node, PublishView(n) \/ Empty(n) \/ Start(n)
      PROVE  UNCHANGED behind
  BY <1>5 DEF PublishView, Empty, Start, requestVars
<1>6. UNCHANGED vars => UNCHANGED behind
  BY DEF vars, requestVars
<1> QED  BY <1>1, <1>2, <1>3, <1>4, <1>5, <1>6 DEF Next

(* Writes are given to the leader only, which has a quorum.                *)
LEMMA LeaderServes ==
    ASSUME TypeInv, LifeInv, Steady, LedCalls, NEW n \in Node, NEW m \in Node,
           Reads(n, m, {"Insert", "Remove"})
    PROVE  m = Lead /\ view[m].quorum /\ view[m].role = "Leader"
<1> DEFINE r == Head(stream[n][m])
<1>1. stream[n][m] \in Seq(RpcRequest) /\ stream[n][m] /= <<>>
      /\ r.is \in {"Insert", "Remove"}
  BY TypeParts DEF Wires, Table, Reads
<1>2. r \in RpcRequest
  BY <1>1, HeadTailProperties
<1> HIDE DEF r
<1>3. r.call \in Call /\ r \in WriteOf(r.call)
  BY <1>1, <1>2, RequestFields, RequestKinds
<1>4. Holds(stream[n][m], WriteOf(r.call))
  BY <1>1, <1>3, HeadHeld DEF r
<1>5. m = call[r.call].to /\ Pc(r.call) \in Late
  BY <1>3, <1>4 DEF LifeInv, WriteInv, WriteFits
<1>6. m = Lead
  BY <1>3, <1>5, MemberAssumption DEF LedCalls, Late, Returned
<1>7. view[m] = FirstView(m) /\ m \in Running
  BY <1>6, OfferAssumption DEF Steady
<1> QED  BY <1>6, <1>7 DEF FirstView

LEMMA NoErrorsStep ==
    ASSUME TypeInv, LifeInv, [Next]_vars, Steady, NoErrors, LedCalls
    PROVE  NoErrors'
<1>0. Wires
  BY TypeParts
<1>1. ASSUME AnswersShrink
      PROVE  NoErrors'
  <2> SUFFICES ASSUME NEW n \in Node, NEW m \in Node
               PROVE  ~Holds(answers'[n][m], {Error})
    BY DEF NoErrors
  <2>1. answers[n][m] \in Seq(Ack) /\ {} \cap {Error} = {} /\ {} \in SUBSET Ack
    BY <1>0 DEF Wires, Table
  <2>2. Quieter(answers[n][m], answers'[n][m], {Error})
    BY <1>1, <2>1, ChangesQuiet DEF AnswersShrink
  <2> QED  BY <2>2 DEF Quieter, NoErrors
<1>2. ASSUME NEW e \in Ack, e /= Error,
             \A a, b \in Node : answers'[a][b] = answers[a][b]
                                \/ answers'[a][b] = Append(answers[a][b], e)
      PROVE  NoErrors'
  <2> SUFFICES ASSUME NEW n \in Node, NEW m \in Node
               PROVE  ~Holds(answers'[n][m], {Error})
    BY DEF NoErrors
  <2>1. answers[n][m] \in Seq(Ack) /\ ~Holds(answers[n][m], {Error})
    BY <1>0 DEF Wires, Table, NoErrors
  <2>2. ~Holds(Append(answers[n][m], e), {Error})
    BY <1>2, <2>1, HoldsAppend
  <2> QED  BY <1>2, <2>1, <2>2
<1>3. ASSUME NEW c \in Call, ServedRunEnds(c)
      PROVE  NoErrors'
  <2> DEFINE e == ModAck(<<c, "mod">>, run[c].verdict = "true")
  <2>1. \A a, b \in Node : answers'[a][b] = answers[a][b]
                           \/ answers'[a][b] = Append(answers[a][b], e)
    BY <1>0, <1>3 DEF ServedRunEnds, Answered, Wires, Table
  <2>2. e \in Ack /\ e /= Error
    BY AckMade DEF ModAck, Error
  <2> HIDE DEF e
  <2> QED  BY <1>2, <2>1, <2>2
<1>4. ASSUME NEW c \in Call, BeginCall(c) \/ CallStep(c) \/ RunStep(c)
      PROVE  NoErrors'
  <2>1. ~ServedRunEnds(c) => UNCHANGED answers
    BY <1>4 DEF BeginCall, CallStep, RunStep, StoreHere, SendAll, Look, Ask,
       TakeAnswer, Push, TakeVerdict, CallFails, RunSends, RunStores, RunTakesAck,
       RunMissesAck, RunTurns, RunSucceeds, OwnRunEnds, requestVars, otherRequests
  <2> QED  BY <1>1, <1>3, <2>1, SameAnswers
<1>5. ASSUME NEW n \in Node, NEW m \in Node, ServerStep(n, m)
      PROVE  NoErrors'
  <2>1. CASE UNCHANGED answers
    BY <1>1, <2>1, SameAnswers
  <2>2. ASSUME NEW e \in Ack, e /= Error, answers' = Answered(n, m, e)
        PROVE  NoErrors'
    BY <1>0, <1>2, <2>2, AnsweredAdds
  <2>3. CASE ServeGet(n, m)
    <3>1. cache[m] \in Call \cup {None}
      BY <1>0 DEF Wires
    <3>2. GetAck(cache[m]) \in Ack /\ GetAck(cache[m]) /= Error
      BY <3>1 DEF Ack, GetAck, Error
    <3> QED  BY <2>2, <2>3, <3>2 DEF ServeGet
  <2>4. CASE ServeUpdate(n, m)
    <3> DEFINE r == Head(stream[n][m])
    <3>1. r \in RpcRequest /\ r.is \in {"Put", "Del"}
          /\ answers' = Answered(n, m, ModAck(TokenOf(r), TRUE))
      BY <1>0, <2>4, ReadsTypes DEF ServeUpdate, ServeMod, Reads
    <3> HIDE DEF r
    <3>2. TokenOf(r) \in Call \X {"mod", "run", "none"}
      BY <3>1, RequestFields
    <3>3. ModAck(TokenOf(r), TRUE) \in Ack /\ ModAck(TokenOf(r), TRUE) /= Error
      BY <3>2, AckMade DEF ModAck, Error
    <3> QED  BY <2>2, <3>1, <3>3
  <2>5. CASE ServeWrite(n, m) \/ RefuseWrite(n, m)
    <3>1. view[m].quorum /\ view[m].role = "Leader"
      BY <2>5, LeaderServes DEF ServeWrite, RefuseWrite
    <3>2. UNCHANGED answers
      BY <2>5, <3>1 DEF ServeWrite, RefuseWrite, RunsHere
    <3> QED  BY <2>1, <3>2
  <2> QED  BY <1>5, <2>3, <2>4, <2>5 DEF ServerStep
<1>6. CASE UNCHANGED vars
  BY <1>1, <1>6, SameAnswers DEF vars, requestVars
<1> QED  BY <1>0, <1>1, <1>4, <1>5, <1>6, OtherAnswers DEF Next

(* A run is changed by its own steps, and by what has it begin.            *)
LEMMA OthersRuns ==
    ASSUME TypeInv, [Next]_vars, \A n \in Node : ~Stop(n), NEW c \in Call,
           ~BeginCall(c), ~RunStep(c),
           \A n, m \in Node : ~(ServeWrite(n, m) /\ c = Head(stream[n][m]).call)
    PROVE  run'[c] = run[c]
<1>1. run \in [Call -> RunRecord]
  BY TypeParts, OpsTyped DEF OpsTypes
<1>2. ASSUME NEW d \in Call, BeginCall(d)
      PROVE  run'[c] = run[c]
  BY <1>1, <1>2 DEF BeginCall, StartRun
<1>3. ASSUME NEW d \in Call, CallStep(d)
      PROVE  run'[c] = run[c]
  BY <1>3 DEF CallStep, StoreHere, SendAll, Look, Ask, TakeAnswer, Push,
     TakeVerdict, CallFails
<1>4. ASSUME NEW d \in Call, RunStep(d)
      PROVE  run'[c] = run[c]
  <2>1. d /= c
    BY <1>4
  <2> QED  BY <1>1, <1>4, <2>1 DEF RunStep, RunSends, RunStores, RunTakesAck,
           RunMissesAck, RunTurns, RunSucceeds, OwnRunEnds, ServedRunEnds
<1>5. ASSUME NEW n \in Node, NEW m \in Node, ServerStep(n, m)
      PROVE  run'[c] = run[c]
  BY <1>1, <1>5 DEF ServerStep, ServeUpdate, RefuseWrite, ServeWrite, StartRun, opVars
<1>6. ASSUME \/ UNCHANGED vars
             \/ \E n, m \in Node : ClientStep(n, m) \/ Fault(n, m)
             \/ \E n \in Node : PublishView(n) \/ Empty(n) \/ Start(n)
      PROVE  run'[c] = run[c]
  BY <1>6 DEF vars, opVars, ClientStep, Fault, PublishView, Empty, Start
<1> QED  BY <1>2, <1>3, <1>4, <1>5, <1>6 DEF Next

(* A run begins with its call, or when the leader reads its write.         *)
LEMMA RunBegins ==
    ASSUME TypeInv, [Next]_vars, \A n \in Node : ~Stop(n), NEW c \in Call,
           run[c].pc = "none", run'[c].pc /= "none"
    PROVE  BeginCall(c) \/ \E n, m \in Node : ServeWrite(n, m)
                                              /\ c = Head(stream[n][m]).call
<1>1. ~RunStep(c)
  BY DEF RunStep, RunSends, RunStores, RunTakesAck, RunMissesAck, Awaits,
     RunSucceeds, OwnRunEnds, ServedRunEnds
<1>2. run'[c] /= run[c]
  OBVIOUS
<1> QED  BY <1>1, <1>2, OthersRuns

LEMMA IdleStays ==
    ASSUME TypeInv, [Next]_vars, \A n \in Node : ~Stop(n), NEW c \in Call,
           Pc(c) = "idle", ~BeginCall(c)
    PROVE  call'[c] = call[c]
<1>1. ~CallStep(c) /\ ~OwnRunEnds(c)
  BY DEF CallStep, StoreHere, SendAll, Look, Ask, TakeAnswer, Push, TakeVerdict,
     CallFails, OwnRunEnds
<1> QED  BY <1>1, OthersCalls

(* What a call that begins under the first views is, and its run.          *)
LEMMA CallBegins ==
    ASSUME TypeInv, Steady, NEW c \in Call, BeginCall(c)
    PROVE  /\ Pc(c)' /= "idle" /\ call'[c].to \in {Lead, None}
           /\ run'[c] = run[c] \/ run'[c].at = Lead
<1>1. call \in [Call -> CallRecord] /\ run \in [Call -> RunRecord]
  BY TypeParts, OpsTyped DEF OpsTypes
<1>2. PICK o \in Offer[c] : LET v  == view[o.at]
                                pc == BeginsWith(o, v)
                            IN  /\ up[o.at]
                                /\ Begin(c, o, pc, v.hosts)
                                /\ IF pc = "run"
                                   THEN StartRun(c, o.at, o.level, v.hosts)
                                   ELSE UNCHANGED run
  BY DEF BeginCall
<1>3. o \in [op : Operation, at : Node, level : AckLevel]
  BY OfferAssumption
<1>4. o.at \in Running /\ view[o.at] = FirstView(o.at)
  BY <1>2, <1>3 DEF Steady
<1>5. view[o.at].to \in {Lead, None} /\ (view[o.at].role /= "Follower" => o.at = Lead)
  BY <1>4 DEF FirstView
<1> DEFINE pc == BeginsWith(o, view[o.at])
<1>6. /\ pc \in {"look", "store", "error", "run", "push"}
      /\ pc = "run" => view[o.at].role /= "Follower"
  BY <1>3 DEF BeginsWith, GetBegins, PutBegins, WriteBegins, Operation
<1>7. call'[c].pc = pc /\ call'[c].to = view[o.at].to
  BY <1>1, <1>2 DEF Begin
<1>8. run'[c] = run[c] \/ (pc = "run" /\ run'[c].at = o.at)
  BY <1>1, <1>2 DEF StartRun
<1> HIDE DEF pc
<1> QED  BY <1>5, <1>6, <1>7, <1>8 DEF Pc

LEMMA LedCallsStep ==
    ASSUME TypeInv, LifeInv, [Next]_vars, Steady, LedCalls, \A n \in Node : ~Stop(n)
    PROVE  LedCalls'
<1> SUFFICES ASSUME NEW c \in Call
             PROVE  /\ Pc(c)' /= "idle" => call'[c].to \in {Lead, None}
                    /\ run'[c].pc /= "none" => run'[c].at = Lead
  BY DEF LedCalls, Pc
<1>1. Fate(c) /\ Fits(call[c], run[c], stored[c])
  BY LifeStep DEF LifeInv, RunInv, RunFits
<1>2. Pc(c)' /= "idle" => call'[c].to \in {Lead, None}
  <2>1. CASE Pc(c) /= "idle"
    BY <1>1, <2>1 DEF Fate, Follows, LedCalls, Pc
  <2>2. CASE BeginCall(c)
    BY <2>2, CallBegins
  <2>3. CASE Pc(c) = "idle" /\ ~BeginCall(c)
    BY <2>3, IdleStays DEF Pc
  <2> QED  BY <2>1, <2>2, <2>3
<1>3. ASSUME run'[c].pc /= "none"
      PROVE  run'[c].at = Lead
  <2>1. CASE run[c].pc /= "none"
    <3>1. run[c].at = Lead /\ Lead /= None
      BY <2>1, OfferAssumption, MemberAssumption DEF LedCalls
    <3>2. run[c].pc \notin Idle
      BY <1>1, <2>1, <3>1 DEF Fits, Idle
    <3> QED  BY <1>1, <3>1, <3>2 DEF Fate, Follows
  <2>2. CASE run[c].pc = "none"
    <3>1. CASE BeginCall(c)
      BY <1>3, <2>2, <3>1, CallBegins
    <3>2. ASSUME NEW n \in Node, NEW m \in Node, ServeWrite(n, m),
                 c = Head(stream[n][m]).call
          PROVE  run'[c].at = Lead
      <4>1. m = Lead /\ view[m].role = "Leader"
        BY <3>2, LeaderServes DEF ServeWrite
      <4>2. StartRun(c, m, call[c].level, view[m].hosts)
        BY <3>2, <4>1 DEF ServeWrite, RunsHere
      <4>3. run \in [Call -> RunRecord]
        BY TypeParts, OpsTyped DEF OpsTypes
      <4> QED  BY <4>1, <4>2, <4>3 DEF StartRun
    <3> QED  BY <1>3, <2>2, <3>1, <3>2, RunBegins
  <2> QED  BY <2>1, <2>2
<1> QED  BY <1>2, <1>3

LEMMA NotBegunStep ==
    ASSUME TypeInv, LifeInv, [Next]_vars, Steady, NotBegun, \A n \in Node : ~Stop(n)
    PROVE  /\ NotBegun'
           /\ OnlyLedWrites' => OnlyLedWrites
<1>1. ASSUME NEW c \in Call
      PROVE  /\ Pc(c)' = "idle" => call'[c].op = "get"
             /\ call'[c].op \notin {"put", "del"} => call[c].op \notin {"put", "del"}
  <2>1. Fate(c) /\ (Pc(c) = "idle" => call[c].op = "get")
    BY LifeStep DEF NotBegun
  <2>2. CASE Pc(c) /= "idle"
    BY <2>1, <2>2 DEF Fate, Follows, Pc
  <2>3. CASE BeginCall(c)
    BY <2>1, <2>3, CallBegins DEF BeginCall
  <2>4. CASE Pc(c) = "idle" /\ ~BeginCall(c)
    BY <2>1, <2>4, IdleStays
  <2> QED  BY <2>2, <2>3, <2>4
<1> QED  BY <1>1 DEF NotBegun, OnlyLedWrites, Pc

LEMMA NoneStoresAlone ==
    ASSUME LifeInv, OnlyLedWrites, NEW c \in Call
    PROVE  ~StoreHere(c) /\ ~SendAll(c)
BY DEF LifeInv, RunInv, RunFits, Fits, OnlyLedWrites, StoreHere, SendAll, Pc

LEMMA UpdatesQuiet ==
    ASSUME TypeInv, LifeInv, OnlyLedWrites, [Next]_vars,
           \A n, m \in Node : ~Forwards(n, m), \A c \in Call : ~RunSends(c)
    PROVE  Quiet(Updates)
<1>0. Wires /\ CallInv
  BY TypeParts
<1>1. CASE WiresChange({})
  BY <1>0, <1>1, WiresQuiet
<1>2. ASSUME NEW c \in Call, Ask(c) \/ Push(c)
      PROVE  Quiet(Updates)
  <2>1. PICK es \in SUBSET RpcRequest : WiresChange(es) /\ es \cap Updates = {}
    <3>1. /\ {Get(c)} \subseteq RpcRequest /\ {Insert(c), Remove(c)} \subseteq RpcRequest
      BY RequestMade
    <3>2. {Get(c)} \cap Updates = {} /\ {Insert(c), Remove(c)} \cap Updates = {}
      BY DEF Get, Insert, Remove, Updates, IsUpdate
    <3> QED  BY <1>0, <1>2, <3>1, <3>2, SendWires
  <2> QED  BY <1>0, <2>1, WiresQuiet
<1>3. ASSUME NEW c \in Call, BeginCall(c) \/ CallStep(c) \/ RunStep(c)
      PROVE  Quiet(Updates)
  <2>1. CASE Silent(c)
    BY <1>1, <2>1, SilentWires
  <2> QED  BY <1>2, <1>3, <2>1, NoneStoresAlone DEF Silent, CallStep, RunStep
<1>4. CASE \E n, m \in Node : ClientStep(n, m) \/ ServerStep(n, m) \/ Fault(n, m)
  BY <1>0, <1>1, <1>4, ServerWires, AroundWires
     DEF ClientStep, Fault, Around, Forwards
<1>5. CASE \E n \in Node : PublishView(n) \/ Empty(n) \/ Stop(n) \/ Start(n)
  BY <1>0, <1>1, <1>5, ProcessWires
<1>6. CASE UNCHANGED vars
  <2>1. UNCHANGED <<queue, stream>>
    BY <1>6 DEF vars, requestVars
  <2> QED  BY <2>1 DEF Quiet, Quieter
<1> QED  BY <1>3, <1>4, <1>5, <1>6 DEF Next

(* The broadcast of a run, as the leader's clients get it.                 *)
LEMMA LeaderSends ==
    ASSUME TypeInv, LedCalls, NEW c \in Call, RunSends(c)
    PROVE  /\ Update(c, Answers(c)) \in Updates
           /\ UNCHANGED <<cache, stream>>
           /\ \A a, m \in Node :
                  queue'[a][m] = IF a = Lead /\ m /= Lead
                                 THEN Append(queue[a][m], Update(c, Answers(c)))
                                 ELSE queue[a][m]
<1>1. run[c].at = Lead /\ Lead \in Node
  BY OfferAssumption DEF LedCalls, RunSends
<1>2. Update(c, Answers(c)) \in RpcRequest
  BY RequestMade DEF Answers
<1>3. IsUpdate(Update(c, Answers(c)))
  BY DEF IsUpdate, Update, Put, Del
<1>4. Broadcast(Lead, Update(c, Answers(c)))
  BY <1>1 DEF RunSends
<1>5. \A a, m \in Node :
          queue'[a][m] = IF a = Lead /\ m /= Lead
                         THEN Append(queue[a][m], Update(c, Answers(c)))
                         ELSE queue[a][m]
  BY <1>1, <1>4, TypeParts, BroadcastChanges
<1> QED  BY <1>2, <1>3, <1>5 DEF Updates, RunSends, otherRequests

(* A forwarder sends nothing that its queue does not hold.                 *)
LEMMA ForwardsNone ==
    ASSUME Wires, NEW n \in Node, NEW k \in Node, Forward(n, k), NEW rs,
           NEW a \in Node, NEW m \in Node,
           ~Holds(queue[a][m], rs), ~Holds(stream[a][m], rs)
    PROVE  ~Holds(queue'[a][m], rs) /\ ~Holds(stream'[a][m], rs)
<1>1. queue[a][m] \in Seq(RpcRequest) /\ stream[a][m] \in Seq(RpcRequest)
  BY DEF Wires, Table
<1>2. /\ queue'[a][m] = IF a = n /\ m = k THEN Tail(queue[a][m]) ELSE queue[a][m]
      /\ \/ stream'[a][m] = stream[a][m]
         \/ /\ a = n /\ m = k
            /\ stream'[a][m] = Append(stream[a][m], Head(queue[a][m]))
      /\ a = n /\ m = k => queue[a][m] /= <<>> /\ Head(queue[a][m]) \in RpcRequest
  BY ForwardMoves
<1>3. a = n /\ m = k => /\ ~Holds(Tail(queue[a][m]), rs)
                        /\ Head(queue[a][m]) \notin rs
  BY <1>1, <1>2, HoldsTail
<1>4. ASSUME NEW r \in RpcRequest, r \notin rs
      PROVE  ~Holds(Append(stream[a][m], r), rs)
  BY <1>1, <1>4, HoldsAppend
<1>5. ~Holds(stream'[a][m], rs)
  BY <1>2, <1>3, <1>4
<1> QED  BY <1>2, <1>3, <1>5

LEMMA LedUpdatesStep ==
    ASSUME TypeInv, LifeInv, OnlyLedWrites, [Next]_vars, LedCalls, LedUpdates
    PROVE  LedUpdates'
<1> SUFFICES ASSUME NEW a \in Node, NEW m \in Node, a /= Lead
             PROVE  ~Holds(queue'[a][m], Updates) /\ ~Holds(stream'[a][m], Updates)
  <2>1. Updates' = Updates
    BY DEF Updates, IsUpdate
  <2> QED  BY <2>1 DEF LedUpdates
<1>0. Wires
  BY TypeParts
<1>1. ~Holds(queue[a][m], Updates) /\ ~Holds(stream[a][m], Updates)
  BY DEF LedUpdates
<1>2. CASE Quiet(Updates)
  BY <1>1, <1>2 DEF Quiet, Quieter
<1>3. ASSUME NEW c \in Call, RunSends(c)
      PROVE  ~Holds(queue'[a][m], Updates) /\ ~Holds(stream'[a][m], Updates)
  BY <1>1, <1>3, LeaderSends
<1>4. ASSUME NEW n \in Node, NEW k \in Node, Forwards(n, k)
      PROVE  ~Holds(queue'[a][m], Updates) /\ ~Holds(stream'[a][m], Updates)
  BY <1>0, <1>1, <1>4, ForwardsNone DEF Forwards
<1> QED  BY <1>2, <1>3, <1>4, UpdatesQuiet

-----------------------------------------------------------------------------
(* What leaves m's entry with w does so after a step, too.                 *)
SameReach(m) == \A w : Reaches(m, w) => Reaches(m, w)'

LEMMA ReachParts ==
    ASSUME NEW m \in Node, NEW w
    PROVE  Reaches(m, w)' <=> \E u : /\ Leaves(stream'[Lead][m], cache'[m], u)
                                     /\ Leaves(queue'[Lead][m], u, w)
BY DEF Reaches, Leaves, IsUpdate, After

(* Nothing happens on the way, but that a request that is no update is     *)
(* added.                                                                  *)
LEMMA UntouchedReach ==
    ASSUME Wires, NEW m \in Node,
           cache'[m] = cache[m], stream'[Lead][m] = stream[Lead][m],
           \/ queue'[Lead][m] = queue[Lead][m]
           \/ \E e \in RpcRequest : /\ ~IsUpdate(e)
                                    /\ queue'[Lead][m] = Append(queue[Lead][m], e)
    PROVE  SameReach(m)
<1> SUFFICES ASSUME NEW w, Reaches(m, w)
             PROVE  Reaches(m, w)'
  BY DEF SameReach
<1>1. PICK u : Leaves(stream[Lead][m], cache[m], u) /\ Leaves(queue[Lead][m], u, w)
  BY DEF Reaches
<1>2. Leaves(queue'[Lead][m], u, w)
  <2>1. CASE queue'[Lead][m] = queue[Lead][m]
    BY <1>1, <2>1
  <2>2. ASSUME NEW e \in RpcRequest, ~IsUpdate(e),
               queue'[Lead][m] = Append(queue[Lead][m], e)
        PROVE  Leaves(queue'[Lead][m], u, w)
    <3>1. queue[Lead][m] \in Seq(RpcRequest)
      BY OfferAssumption DEF Wires, Table
    <3>2. Leaves(Append(queue[Lead][m], e), u, After(e, w))
      BY <1>1, <3>1, LeavesAppend
    <3>3. After(e, w) = w
      BY <2>2 DEF After
    <3> QED  BY <2>2, <3>2, <3>3
  <2> QED  BY <2>1, <2>2
<1> QED  BY <1>1, <1>2, ReachParts

(* A forwarder takes a request from the one sequence to the next.          *)
LEMMA ForwardReach ==
    ASSUME TypeInv, Linked, NEW n \in Node, NEW k \in Node, Forward(n, k),
           NEW m \in Running \ {Lead}
    PROVE  SameReach(m)
<1>0. Wires /\ m \in Node /\ Lead \in Node /\ UNCHANGED cache
  BY TypeParts, OfferAssumption DEF Forward
<1>1. CASE ~(n = Lead /\ k = m)
  <2>1. queue'[Lead][m] = queue[Lead][m] /\ stream'[Lead][m] = stream[Lead][m]
    BY <1>0, <1>1, ForwardMoves
  <2> QED  BY <1>0, <2>1, UntouchedReach
<1>2. CASE n = Lead /\ k = m
  <2> DEFINE r == Head(queue[Lead][m])
  <2>1. /\ queue[Lead][m] \in Seq(RpcRequest) /\ queue[Lead][m] /= <<>>
        /\ r \in RpcRequest /\ queue'[Lead][m] = Tail(queue[Lead][m])
    BY <1>0, <1>2, ForwardMoves
  <2>2. conn[Lead][m] = "up"
    BY <1>0, OfferAssumption DEF Linked
  <2>3. stream[Lead][m] \in Seq(RpcRequest)
        /\ stream'[Lead][m] = Append(stream[Lead][m], r)
    BY <1>0, <1>2, <2>2 DEF Forward, Wires, Table
  <2> SUFFICES ASSUME NEW w, Reaches(m, w)
               PROVE  Reaches(m, w)'
    BY DEF SameReach
  <2>4. PICK u : Leaves(stream[Lead][m], cache[m], u) /\ Leaves(queue[Lead][m], u, w)
    BY DEF Reaches
  <2>5. Leaves(stream'[Lead][m], cache'[m], After(r, u))
    BY <1>0, <2>1, <2>3, <2>4, LeavesAppend
  <2>6. Leaves(queue'[Lead][m], After(r, u), w)
    BY <2>1, <2>4, LeavesTail
  <2> QED  BY <1>0, <2>5, <2>6, ReachParts
<1> QED  BY <1>1, <1>2

(* A stream task carries the next update out, and no other changes m.      *)
LEMMA ServerReach ==
    ASSUME TypeInv, LedUpdates, NEW n \in Node, NEW k \in Node, ServerStep(n, k),
           NEW m \in Running \ {Lead}
    PROVE  SameReach(m)
<1>0. Wires /\ m \in Node /\ Lead \in Node
  BY TypeParts, OfferAssumption
<1> DEFINE r == Head(stream[n][k])
<1>1. /\ stream[n][k] \in Seq(RpcRequest) /\ stream[n][k] /= <<>>
      /\ \A a, b \in Node : stream'[a][b] = IF a = n /\ b = k THEN Tail(stream[a][b])
                                            ELSE stream[a][b]
      /\ UNCHANGED queue
  <2>1. /\ UNCHANGED queue /\ stream[n][k] /= <<>>
        /\ stream' = [stream EXCEPT ![n][k] = Tail(@)]
    BY DEF ServerStep, ServeGet, ServeUpdate, ServeMod, ServeWrite, RefuseWrite, Reads
  <2>2. stream \in [Node -> [Node -> Seq(RpcRequest)]]
    BY <1>0 DEF Wires, Table
  <2>3. \A a, b \in Node : stream'[a][b] = IF a = n /\ b = k THEN Tail(stream[a][b])
                                           ELSE stream[a][b]
    BY <2>1, <2>2
  <2> QED  BY <2>1, <2>2, <2>3
<1>2. r \in RpcRequest
  BY <1>1, HeadTailProperties
<1>3. \A b \in Node : cache'[b] = IF b = k THEN After(r, cache[b]) ELSE cache[b]
  <2>1. CASE ServeUpdate(n, k)
    <3>1. cache' = [cache EXCEPT ![k] = Applied(k, r)] /\ IsUpdate(r)
      BY <2>1 DEF ServeUpdate, ServeMod, Reads, IsUpdate
    <3> QED  BY <1>0, <3>1 DEF After, Applied, Wires
  <2>2. CASE ServeGet(n, k) \/ ServeWrite(n, k) \/ RefuseWrite(n, k)
    <3>1. UNCHANGED cache /\ ~IsUpdate(r)
      BY <2>2 DEF ServeGet, ServeWrite, RefuseWrite, Reads, IsUpdate
    <3> QED  BY <3>1 DEF After
  <2> QED  BY <2>1, <2>2 DEF ServerStep
<1>4. n /= Lead => ~IsUpdate(r)
  <2>1. r \in Updates => Holds(stream[n][k], Updates)
    BY <1>1, HeadHeld
  <2> QED  BY <1>2, <2>1 DEF LedUpdates, Updates
<1> HIDE DEF r
<1>5. CASE ~(n = Lead /\ k = m)
  <2>1. cache'[m] = cache[m]
    BY <1>0, <1>3, <1>4, <1>5 DEF After
  <2>2. stream'[Lead][m] = stream[Lead][m] /\ queue'[Lead][m] = queue[Lead][m]
    BY <1>0, <1>1, <1>5
  <2> QED  BY <1>0, <2>1, <2>2, UntouchedReach
<1>6. CASE n = Lead /\ k = m
  <2> SUFFICES ASSUME NEW w, Reaches(m, w)
               PROVE  Reaches(m, w)'
    BY DEF SameReach
  <2>1. PICK u : Leaves(stream[Lead][m], cache[m], u) /\ Leaves(queue[Lead][m], u, w)
    BY DEF Reaches
  <2>2. Leaves(Tail(stream[Lead][m]), After(r, cache[m]), u)
    BY <1>1, <1>6, <2>1, LeavesTail DEF r
  <2>3. cache'[m] = After(r, cache[m]) /\ stream'[Lead][m] = Tail(stream[Lead][m])
    BY <1>0, <1>1, <1>3, <1>6
  <2> QED  BY <1>0, <1>1, <2>1, <2>2, <2>3, ReachParts
<1> QED  BY <1>5, <1>6

(* What is left: nothing that leads from the leader to m is disturbed.     *)
LEMMA CallReach ==
    ASSUME TypeInv, LifeInv, OnlyLedWrites, LedCalls, NEW c \in Call,
           BeginCall(c) \/ CallStep(c) \/ RunStep(c), ~RunSends(c),
           NEW m \in Running \ {Lead}
    PROVE  SameReach(m)
<1>0. Wires /\ CallInv /\ m \in Node /\ Lead \in Node /\ m /= Lead
  BY TypeParts, OfferAssumption
<1>1. ~StoreHere(c) /\ ~SendAll(c)
  BY NoneStoresAlone
<1>2. CASE UNCHANGED <<cache, queue, stream>>
  BY <1>0, <1>2, UntouchedReach
<1>3. CASE Ask(c)
  <2>1. At(c) \in Node /\ Broadcast(At(c), Get(c)) /\ UNCHANGED <<cache, stream>>
    BY <1>0, <1>3 DEF Ask, CallInv, CallFits, otherRequests
  <2>2. Get(c) \in RpcRequest /\ ~IsUpdate(Get(c))
    BY RequestMade DEF Get, IsUpdate
  <2>3. PICK e : e = Get(c)
    OBVIOUS
  <2>4. \A a, b \in Node :
            queue'[a][b] = IF a = At(c) /\ b /= At(c) THEN Append(queue[a][b], e)
                           ELSE queue[a][b]
    BY <1>0, <2>1, <2>3, BroadcastChanges
  <2>5. queue'[Lead][m] = queue[Lead][m]
        \/ queue'[Lead][m] = Append(queue[Lead][m], e)
    BY <1>0, <2>4
  <2> QED  BY <1>0, <2>1, <2>2, <2>3, <2>5, UntouchedReach
<1>4. CASE Push(c)
  <2>1. PICK r \in {Insert(c), Remove(c)} : SendTo(At(c), call[c].to, r)
    BY <1>4 DEF Push
  <2>2. r \in RpcRequest /\ ~IsUpdate(r)
    <3>1. "none" \in {"run", "none"}
      OBVIOUS
    <3>2. {Insert(c), Remove(c)} \subseteq RpcRequest
      BY <3>1, RequestMade
    <3>3. ~IsUpdate(Insert(c)) /\ ~IsUpdate(Remove(c))
      BY DEF Insert, Remove, IsUpdate
    <3> QED  BY <2>1, <3>2, <3>3
  <2>3. At(c) \in Node /\ UNCHANGED <<cache, stream>>
    BY <1>0, <1>4 DEF Push, CallInv, CallFits, otherRequests
  <2>4. \A a, b \in Node :
            queue'[a][b] = IF a = At(c) /\ b = call[c].to THEN Append(queue[a][b], r)
                           ELSE queue[a][b]
    BY <1>0, <2>1, <2>3, SendToChanges
  <2>5. queue'[Lead][m] = queue[Lead][m]
        \/ queue'[Lead][m] = Append(queue[Lead][m], r)
    BY <1>0, <2>4
  <2> QED  BY <1>0, <2>2, <2>3, <2>5, UntouchedReach
<1>5. CASE RunStores(c)
  <2>1. run[c].at = Lead
    BY <1>5 DEF LedCalls, RunStores
  <2>2. /\ cache' = [cache EXCEPT ![Lead] = Applied(Lead, Update(c, "none"))]
        /\ UNCHANGED <<queue, stream>>
    BY <1>5, <2>1 DEF RunStores, Carry, otherRequests
  <2>3. cache'[m] = cache[m]
    BY <1>0, <2>2 DEF Wires
  <2> QED  BY <1>0, <2>2, <2>3, UntouchedReach
<1>6. CASE BeginCall(c) \/ Look(c) \/ TakeAnswer(c) \/ TakeVerdict(c) \/ CallFails(c)
  BY <1>2, <1>6 DEF BeginCall, Look, TakeAnswer, TakeVerdict, CallFails, requestVars,
     otherRequests
<1>7. CASE RunTakesAck(c) \/ RunMissesAck(c) \/ RunSucceeds(c) \/ OwnRunEnds(c)
           \/ ServedRunEnds(c)
  BY <1>2, <1>7 DEF RunTakesAck, RunMissesAck, RunTurns, RunSucceeds, OwnRunEnds,
     ServedRunEnds, requestVars, otherRequests
<1> QED  BY <1>1, <1>3, <1>4, <1>5, <1>6, <1>7 DEF CallStep, RunStep

LEMMA OtherReach ==
    ASSUME TypeInv, Steady, Linked, NothingBehind, NoErrors,
           NEW m \in Running \ {Lead},
           \/ \E n, k \in Node : /\ ClientStep(n, k) \/ Fault(n, k)
                                 /\ ~Forward(n, k) /\ ~Break(n, k)
           \/ \E n \in Node : Empty(n) \/ Start(n)
           \/ UNCHANGED vars
    PROVE  SameReach(m)
<1>0. Wires /\ m \in Node /\ Lead \in Node /\ m /= Lead
  BY TypeParts, OfferAssumption
<1>1. ASSUME UNCHANGED <<cache, queue>>, stream'[Lead][m] = stream[Lead][m]
      PROVE  SameReach(m)
  BY <1>0, <1>1, UntouchedReach
<1>2. ASSUME NEW n \in Node, NEW k \in Node, ClientStep(n, k) \/ Fault(n, k),
             ~Forward(n, k), ~Break(n, k)
      PROVE  SameReach(m)
  <2>1. DeliverAnswer(n, k) \/ LateAnswer(n, k) \/ LoseRest(n, k)
    BY <1>0, <1>2, NothingEnds, NothingConnects, NobodyBehind
       DEF ClientStep, Fault, Opening
  <2>2. CASE LoseRest(n, k)
    <3>1. ~(n = Lead /\ k = m)
      BY <1>0, <2>2, OfferAssumption DEF LoseRest, Linked
    <3>2. stream' = [stream EXCEPT ![n][k] = <<>>] /\ UNCHANGED <<cache, queue>>
      BY <2>2 DEF LoseRest
    <3>3. stream'[Lead][m] = stream[Lead][m]
      BY <1>0, <3>1, <3>2 DEF Wires, Table
    <3> QED  BY <1>1, <3>2, <3>3
  <2>3. CASE DeliverAnswer(n, k) \/ LateAnswer(n, k)
    BY <1>1, <2>3 DEF DeliverAnswer, LateAnswer, TakesAnswer
  <2> QED  BY <2>1, <2>2, <2>3
<1>3. ASSUME NEW n \in Node, Empty(n) \/ Start(n)
      PROVE  SameReach(m)
  BY <1>1, <1>3 DEF Empty, Start, requestVars
<1>4. CASE UNCHANGED vars
  BY <1>1, <1>4 DEF vars, requestVars
<1> QED  BY <1>2, <1>3, <1>4

LEMMA SameEndStep ==
    ASSUME TypeInv, LifeInv, OnlyLedWrites, [Next]_vars, Steady, Led,
           \A n \in Node : ~Stop(n) /\ ~PublishView(n),
           \A n, m \in Node : ~Break(n, m)
    PROVE  SameEnd'
<1>0. Linked /\ NothingBehind /\ NoErrors /\ LedCalls /\ LedUpdates
  BY DEF Led
<1>1. PICK w : \A m \in Running \ {Lead} : Reaches(m, w)
  BY DEF Led, SameEnd
<1>2. ASSUME \A m \in Running \ {Lead} : SameReach(m)
      PROVE  SameEnd'
  <2>1. \A m \in Running \ {Lead} : Reaches(m, w)'
    BY <1>1, <1>2 DEF SameReach
  <2> QED  BY <2>1 DEF SameEnd
<1>3. ASSUME NEW c \in Call, RunSends(c)
      PROVE  SameEnd'
  <2>1. PICK r \in RpcRequest :
            /\ IsUpdate(r) /\ UNCHANGED <<cache, stream>>
            /\ \A a, m \in Node : queue'[a][m] = IF a = Lead /\ m /= Lead
                                                 THEN Append(queue[a][m], r)
                                                 ELSE queue[a][m]
    BY <1>0, <1>3, LeaderSends DEF Updates
  <2>2. PICK x : x = After(r, w)
    OBVIOUS
  <2>3. ASSUME NEW m \in Running \ {Lead}
        PROVE  Reaches(m, x)'
    <3>1. m \in Node /\ Lead \in Node /\ queue[Lead][m] \in Seq(RpcRequest)
      BY TypeParts, OfferAssumption DEF Wires, Table
    <3>2. PICK u : Leaves(stream[Lead][m], cache[m], u) /\ Leaves(queue[Lead][m], u, w)
      BY <1>1 DEF Reaches
    <3>3. queue'[Lead][m] = Append(queue[Lead][m], r)
      BY <2>1, <3>1
    <3>4. Leaves(queue'[Lead][m], u, x)
      BY <2>2, <3>1, <3>2, <3>3, LeavesAppend
    <3> QED  BY <2>1, <3>1, <3>2, <3>4, ReachParts
  <2> QED  BY <2>3 DEF SameEnd
<1>4. ASSUME NEW m \in Running \ {Lead}, \A c \in Call : ~RunSends(c)
      PROVE  SameReach(m)
  <2>1. ASSUME NEW n \in Node, NEW k \in Node, Forward(n, k)
        PROVE  SameReach(m)
    BY <1>0, <2>1, ForwardReach
  <2>2. ASSUME NEW n \in Node, NEW k \in Node, ServerStep(n, k)
        PROVE  SameReach(m)
    BY <1>0, <2>2, ServerReach
  <2>3. ASSUME NEW c \in Call, BeginCall(c) \/ CallStep(c) \/ RunStep(c)
        PROVE  SameReach(m)
    BY <1>0, <1>4, <2>3, CallReach
  <2> QED  BY <1>0, <2>1, <2>2, <2>3, OtherReach DEF Next
<1> QED  BY <1>2, <1>3, <1>4

LEMMA AgreeStep ==
    ASSUME TypeInv, LifeInv, AgreeInv, [Next]_vars
    PROVE  AgreeInv'
<1> SUFFICES ASSUME Calm'
             PROVE  Steady' /\ NotBegun' /\ (OnlyLedWrites' => Led')
  BY DEF AgreeInv
<1>1. /\ Calm /\ \A n \in Node : ~Stop(n) /\ ~PublishView(n)
      /\ \A n, m \in Node : ~Break(n, m)
  BY NoneFailedBefore DEF Calm, Failure
<1>2. Undisturbed'
  BY DEF Calm, Undisturbed, NoneFails
<1>3. Steady /\ NotBegun /\ (OnlyLedWrites => Led)
  BY <1>1 DEF AgreeInv
<1>4. Steady' /\ NotBegun' /\ (OnlyLedWrites' => OnlyLedWrites)
  BY <1>1, <1>2, <1>3, SteadyStep, NotBegunStep
<1>5. ASSUME OnlyLedWrites
      PROVE  Led'
  <2>1. /\ Led /\ Linked /\ NothingBehind /\ NoErrors /\ LedCalls
        /\ LedUpdates
    BY <1>3, <1>5 DEF Led
  <2> QED  BY <1>1, <1>3, <1>5, <2>1, LinkedStep, BehindStep, NoErrorsStep,
           LedCallsStep, LedUpdatesStep, SameEndStep DEF Led
<1> QED  BY <1>4, <1>5

(* Followers agree on the entry once nothing is under way, as long as no   *)
(* stream breaks, no process stops and no quorum handler publishes         *)
(* anything, and all writes are given to a leader: however the leader's    *)
(* runs are interleaved, all others are sent the updates in one order      *)
(* (insert_from_leader, cache_clients).                                    *)
THEOREM FollowersHoldTheSame == Spec => []FollowersAgree
<1>1. Init => TypeInv /\ LifeInv /\ AgreeInv
  BY TypesInit, LifeInit, AgreeInit
<1>2. TypeInv /\ LifeInv /\ AgreeInv /\ [Next]_vars => (TypeInv /\ LifeInv /\ AgreeInv)'
  BY TypesStep, LifeStep, AgreeStep DEF LifeInv
<1>3. TypeInv /\ AgreeInv => FollowersAgree
  BY AgreeInvSuffices
<1> QED  BY <1>1, <1>2, <1>3, PTL DEF Spec

-----------------------------------------------------------------------------
(* What AckedWrite promises, of the calls themselves.                      *)
Promised(c) ==
    /\ run[c].verdict = "true" =>
           Asked(c) >= 0 /\ Cardinality(Holder(c)) > Asked(c)
    /\ ToldToCaller(c) = "ok" => run[c].verdict = "true"

PromiseInv == \A c \in Call : Promised(c)

(* What a step may do to one write.                                        *)
Moves(c) ==
    /\ \/ Asked(c)' = Asked(c) \/ Asked(c) = -1
    /\ Holder(c) \subseteq Holder(c)'
    /\ \/ run'[c].verdict /= "true" \/ run[c].verdict = "true"
       \/ /\ Asked(c)' >= 0 /\ Cardinality(Holder(c)') > Asked(c)'
    /\ \/ ToldToCaller(c)' /= "ok" \/ ToldToCaller(c) = "ok"
       \/ run'[c].verdict = "true"
    /\ run[c].verdict = "true" => run'[c].verdict = "true"

LEMMA StepMoves ==
    ASSUME AbstractStep, NEW c \in Call
    PROVE  Moves(c)
<1>1. CASE UNCHANGED W!ackedVars
  BY <1>1 DEF Moves, W!ackedVars, Asked, Holder
<1>2. ASSUME NEW w \in Call, W!AskFor(w)
      PROVE  Moves(c)
  BY <1>2 DEF Moves, W!AskFor, Asked, Holder
<1>3. ASSUME NEW w \in Call, NEW n \in Node, W!CarryOut(w, n)
      PROVE  Moves(c)
  BY <1>3 DEF Moves, W!CarryOut, Asked, Holder
<1>4. ASSUME NEW w \in Call, W!Vouch(w)
      PROVE  Moves(c)
  BY <1>4, SameCardinality DEF Moves, W!Vouch, Asked, Holder
<1>5. ASSUME NEW w \in Call, W!GiveUp(w) \/ W!Succeed(w) \/ W!Fail(w)
      PROVE  Moves(c)
  BY <1>5 DEF Moves, W!GiveUp, W!Succeed, W!Fail, Asked, Holder
<1> QED  BY <1>1, <1>2, <1>3, <1>4, <1>5 DEF AbstractStep, W!AckedNext

LEMMA PromiseInit == Init => PromiseInv
BY DEF Init, CacheOpsInit, PromiseInv, Promised, NoRun, NoCall, ToldToCaller, ModOps

LEMMA PromiseStep ==
    ASSUME AllInv, [Next]_vars, PromiseInv
    PROVE  PromiseInv'
<1> SUFFICES ASSUME NEW c \in Call PROVE Promised(c)'
  BY DEF PromiseInv
<1>1. Promised(c) /\ Moves(c)
  BY EveryStepSees, StepMoves DEF PromiseInv
<1>2. TypeInv /\ TypeInv'
  BY TypesStep DEF AllInv, LifeInv
<1>3. IsFiniteSet(Holder(c)')
  <2>1. Holder(c)' \subseteq Node
    BY <1>2, TypeParts, OpsTyped DEF OpsTypes, Holder
  <2> QED  BY <2>1, MemberAssumption, FS_Subset
<1>4. /\ Cardinality(Holder(c)) <= Cardinality(Holder(c)')
      /\ Cardinality(Holder(c)) \in Nat /\ Cardinality(Holder(c)') \in Nat
  <2>1. Holder(c) \subseteq Holder(c)'
    BY <1>1 DEF Moves
  <2> QED  BY <1>3, <2>1, FS_Subset, FS_CardinalityType
<1>5. Asked(c) \in Int /\ Asked(c)' \in Int
  BY NeedNat, <1>2 DEF Asked, Need
<1>6. PICK a, b, x, y : a = Asked(c) /\ b = Asked(c)' /\ x = Cardinality(Holder(c))
                        /\ y = Cardinality(Holder(c)')
  OBVIOUS
<1>7. Cardinality(Holder(c))' = y
  BY <1>6
<1> QED  BY <1>1, <1>4, <1>5, <1>6, <1>7 DEF Promised, Moves

-----------------------------------------------------------------------------
(* Who has a call or a run under way runs.                                 *)
BusyCall(c) == Pc(c) \notin Returned \cup {"idle"}
BusyRun(c)  == run[c].pc \notin Finished
BusyUp      == \A c \in Call : /\ BusyCall(c) => up[At(c)]
                               /\ BusyRun(c) => run[c].at \in Node /\ up[run[c].at]

LEMMA BusyInit == Init => BusyUp
BY DEF Init, CacheOpsInit, BusyUp, BusyCall, BusyRun, NoCall, NoRun, Finished, Pc

LEMMA BusyStop ==
    ASSUME TypeInv, LifeInv, BusyUp, NEW n \in Node, Stop(n)
    PROVE  BusyUp'
<1>1. /\ call' = [c \in Call |-> IF c \in CallsAt(n)
                       THEN [call[c] EXCEPT !.pc = "gone"] ELSE call[c]]
      /\ run' = [c \in Call |-> IF c \in RunsAt(n)
                      THEN [run[c] EXCEPT !.pc = "gone"] ELSE run[c]]
      /\ up' = [up EXCEPT ![n] = FALSE]
  BY DEF Stop, EndProcess, Stops
<1>2. /\ call \in [Call -> CallRecord] /\ run \in [Call -> RunRecord]
      /\ up \in [Node -> BOOLEAN]
  BY TypeParts, OpsTyped DEF OpsTypes, MembershipTypeOK
<1> SUFFICES ASSUME NEW c \in Call
             PROVE  /\ BusyCall(c)' => up'[call'[c].at]
                    /\ BusyRun(c)' => run'[c].at \in Node /\ up'[run'[c].at]
  BY DEF BusyUp, At
<1>3. \A m : m /= n => up'[m] = up[m]
  BY <1>1, <1>2
<1>4. BusyCall(c)' => up'[call'[c].at]
  <2>1. CASE c \in CallsAt(n)
    <3>1. call'[c].pc = "gone"
      BY <1>1, <1>2, <2>1 DEF CallRecord
    <3> QED  BY <3>1 DEF BusyCall, Returned, Pc
  <2>2. CASE c \notin CallsAt(n)
    <3>1. call'[c] = call[c]
      BY <1>1, <2>2
    <3> QED  BY <1>3, <2>2, <3>1 DEF BusyUp, BusyCall, CallsAt, Pc, At
  <2> QED  BY <2>1, <2>2
<1>5. BusyRun(c)' => run'[c].at \in Node /\ up'[run'[c].at]
  <2>1. CASE c \in RunsAt(n)
    <3>1. run'[c].pc = "gone"
      BY <1>1, <1>2, <2>1 DEF RunRecord
    <3> QED  BY <3>1 DEF BusyRun, Finished
  <2>2. CASE c \notin RunsAt(n)
    <3>1. run'[c] = run[c]
      BY <1>1, <2>2
    <3> QED  BY <1>3, <2>2, <3>1 DEF BusyUp, BusyRun, RunsAt
  <2> QED  BY <2>1, <2>2
<1> QED  BY <1>4, <1>5

LEMMA UpStays ==
    ASSUME TypeInv, [Next]_vars, \A n \in Node : ~Stop(n)
    PROVE  \A n \in Node : up[n] => up'[n]
<1>1. up \in [Node -> BOOLEAN]
  BY TypeParts DEF MembershipTypeOK
<1>2. CASE UNCHANGED up
  BY <1>2
<1>3. ASSUME NEW n \in Node, Start(n)
      PROVE  \A m \in Node : up[m] => up'[m]
  BY <1>1, <1>3 DEF Start, Starts
<1>4. ASSUME NEW n \in Node, NEW m \in Node,
             ClientStep(n, m) \/ ServerStep(n, m) \/ Fault(n, m)
      PROVE  UNCHANGED up
  BY <1>4 DEF ClientStep, Fault, Forward, DeliverAnswer, LateAnswer, TakesAnswer,
     Connect, Connects, OpenStream, Opens, OpeningFails, OpeningUnanswered, OpenFails,
     Ends, Break, TearDown, Breaks, LoseRest, LeftBehindTakes, LeftBehindTakesOther,
     ServerStep, ServeGet, ServeUpdate, ServeMod, ServeWrite, RefuseWrite, memberVars
<1>5. ASSUME NEW c \in Call, BeginCall(c) \/ CallStep(c) \/ RunStep(c)
      PROVE  UNCHANGED up
  BY <1>5 DEF BeginCall, CallStep, RunStep, StoreHere, SendAll, Look, Ask,
     TakeAnswer, Push, TakeVerdict, CallFails, RunSends, RunStores, RunTakesAck,
     RunMissesAck, RunTurns, RunSucceeds, OwnRunEnds, ServedRunEnds, memberVars
<1>6. ASSUME NEW n \in Node, PublishView(n) \/ Empty(n)
      PROVE  UNCHANGED up
  BY <1>6 DEF PublishView, Publishes, Empty, Empties
<1>7. UNCHANGED vars => UNCHANGED up
  BY DEF vars, memberVars
<1> QED  BY <1>2, <1>3, <1>4, <1>5, <1>6, <1>7 DEF Next

(* No step but Stop ends a process, and who begins a call or a run runs.   *)
LEMMA BusyStep ==
    ASSUME TypeInv, LifeInv, BusyUp, [Next]_vars
    PROVE  BusyUp'
<1>1. CASE \E n \in Node : Stop(n)
  BY <1>1, BusyStop
<1>2. CASE \A n \in Node : ~Stop(n)
  <2> SUFFICES ASSUME NEW c \in Call
               PROVE  /\ BusyCall(c)' => up'[call'[c].at]
                      /\ BusyRun(c)' => run'[c].at \in Node /\ up'[run'[c].at]
    BY DEF BusyUp, At
  <2>1. \A n \in Node : up[n] => up'[n]
    BY <1>2, UpStays
  <2>2. /\ call \in [Call -> CallRecord] /\ run \in [Call -> RunRecord]
        /\ CallFits(c) /\ Fate(c) /\ RunFits(c)
    BY TypeParts, OpsTyped, LifeStep DEF OpsTypes, CallInv, LifeInv, RunInv
  <2>3. ASSUME BeginCall(c)
        PROVE  /\ up'[call'[c].at] /\ Pc(c)' /= "idle"
               /\ run'[c] = run[c] \/ (run'[c].at \in Node /\ up'[run'[c].at])
    <3>1. PICK o \in Offer[c] : LET v  == view[o.at]
                                    pc == BeginsWith(o, v)
                                IN  /\ up[o.at]
                                    /\ Begin(c, o, pc, v.hosts)
                                    /\ IF pc = "run"
                                       THEN StartRun(c, o.at, o.level, v.hosts)
                                       ELSE UNCHANGED run
      BY <2>3 DEF BeginCall
    <3>2. o.at \in Node
      BY OfferAssumption
    <3> DEFINE pc == BeginsWith(o, view[o.at])
    <3>3. pc /= "idle"
      BY DEF BeginsWith, GetBegins, PutBegins, WriteBegins
    <3> HIDE DEF pc
    <3>4. call'[c].at = o.at /\ call'[c].pc = pc
      BY <2>2, <3>1 DEF Begin, pc
    <3>5. run'[c] = run[c] \/ run'[c].at = o.at
      BY <2>2, <3>1 DEF StartRun
    <3> QED  BY <2>1, <3>1, <3>2, <3>3, <3>4, <3>5 DEF Pc
  <2>4. BusyCall(c)' => up'[call'[c].at]
    <3>1. CASE BeginCall(c)
      BY <2>3, <3>1
    <3>2. CASE CallStep(c) \/ OwnRunEnds(c)
      <4>1. BusyCall(c)
        BY <3>2 DEF CallStep, StoreHere, SendAll, Look, Ask, TakeAnswer, Push,
           TakeVerdict, CallFails, OwnRunEnds, BusyCall, Returned
      <4>2. call'[c].at = call[c].at /\ At(c) \in Node
        BY <2>2, <4>1 DEF Fate, Follows, BusyCall, CallFits, Pc
      <4> QED  BY <2>1, <4>1, <4>2 DEF BusyUp, At
    <3>3. CASE ~BeginCall(c) /\ ~CallStep(c) /\ ~OwnRunEnds(c)
      <4>1. call'[c] = call[c]
        BY <1>2, <3>3, OthersCalls
      <4>2. BusyCall(c) => At(c) \in Node
        BY <2>2 DEF BusyCall, CallFits
      <4> QED  BY <2>1, <4>1, <4>2 DEF BusyUp, BusyCall, Pc, At
    <3> QED  BY <3>1, <3>2, <3>3
  <2>5. BusyRun(c) => run[c].at \in Node
    BY DEF BusyUp
  <2>6. BusyRun(c)' => run'[c].at \in Node /\ up'[run'[c].at]
    <3>1. CASE run'[c] = run[c]
      BY <2>1, <2>5, <3>1 DEF BusyUp, BusyRun
    <3>2. CASE BeginCall(c)
      BY <2>3, <3>1, <3>2
    <3>3. CASE RunStep(c)
      <4>1. BusyRun(c) /\ run[c].pc \notin Idle
        BY <3>3 DEF RunStep, RunSends, RunStores, RunTakesAck, RunMissesAck, Awaits,
           RunSucceeds, OwnRunEnds, ServedRunEnds, BusyRun, Finished, Idle
      <4>2. run'[c].at = run[c].at
        BY <2>2, <4>1 DEF Fate, Follows
      <4> QED  BY <2>1, <2>5, <4>1, <4>2 DEF BusyUp
    <3>4. ASSUME NEW n \in Node, NEW m \in Node, ServeWrite(n, m),
                 c = Head(stream[n][m]).call
          PROVE  BusyRun(c)' => run'[c].at \in Node /\ up'[run'[c].at]
      <4>1. up[m]
        BY <3>4 DEF ServeWrite, Reads
      <4>2. \/ run' = [run EXCEPT ![c].pc = "panicked"]
            \/ StartRun(c, m, call[c].level, view[m].hosts)
        BY <3>4 DEF ServeWrite
      <4>3. run'[c].pc = "panicked" \/ run'[c].at = m
        BY <2>2, <4>2 DEF StartRun, RunRecord
      <4> QED  BY <2>1, <4>1, <4>3 DEF BusyRun, Finished
    <3> QED  BY <1>2, <3>1, <3>2, <3>3, <3>4, OthersRuns
  <2> QED  BY <2>4, <2>6
<1> QED  BY <1>1, <1>2

-----------------------------------------------------------------------------
(* Without deletes only updates that put something are sent, and a holder  *)
(* of a write loses the entry only when its process stops.                 *)
LEMMA BegunBefore ==
    ASSUME TypeInv, LifeInv, [Next]_vars, NotBegun
    PROVE  NotBegun' /\ (NoDeletes' => NoDeletes)
<1>1. /\ call \in [Call -> CallRecord]
      /\ \A c \in Call : Fate(c) /\ (Pc(c) = "idle" => call[c].op = "get")
  BY TypeParts, OpsTyped, LifeStep DEF OpsTypes, NotBegun
<1>2. ASSUME NEW c \in Call, Pc(c) = "idle"
      PROVE  call'[c] = call[c] \/ Pc(c)' /= "idle"
  <2>1. CASE \E n \in Node : Stop(n)
    BY <1>1, <2>1 DEF Stop, Pc, CallRecord
  <2>2. CASE BeginCall(c)
    <3>1. PICK o \in Offer[c] : Begin(c, o, BeginsWith(o, view[o.at]),
                                             view[o.at].hosts)
      BY <2>2 DEF BeginCall
    <3> DEFINE pc == BeginsWith(o, view[o.at])
    <3>2. pc /= "idle"
      BY DEF BeginsWith, GetBegins, PutBegins, WriteBegins
    <3> HIDE DEF pc
    <3>3. call'[c].pc = pc
      BY <1>1, <3>1 DEF Begin, pc
    <3> QED  BY <3>2, <3>3 DEF Pc
  <2>3. CASE ~BeginCall(c) /\ \A n \in Node : ~Stop(n)
    BY <1>2, <2>3, IdleStays
  <2> QED  BY <2>1, <2>2, <2>3
<1>3. ASSUME NEW c \in Call
      PROVE  /\ Pc(c)' = "idle" => call'[c].op = "get"
             /\ call'[c].op \notin {"del", "remove"} => call[c].op \notin {"del", "remove"}
  BY <1>1, <1>2 DEF Fate, Follows, Pc
<1> QED  BY <1>3 DEF NotBegun, NoDeletes, Pc

Deletes == {r \in RpcRequest : r.is = "Del"}

NoDelSent ==
    \A a, m \in Node : ~Holds(queue[a][m], Deletes) /\ ~Holds(stream[a][m], Deletes)

LEMMA PutsOnly ==
    ASSUME LifeInv, NoDeletes, NEW c \in Call,
           StoreHere(c) \/ SendAll(c) \/ RunSends(c) \/ RunStores(c)
    PROVE  \A r : Update(c, r) = Put(c, r)
<1>1. Fits(call[c], run[c], stored[c])
  BY DEF LifeInv, RunInv, RunFits
<1>2. call[c].op \in {"put", "del"} \cup ModOps
  BY <1>1 DEF Fits, StoreHere, SendAll, RunSends, RunStores, Pc, ModOps
<1> QED  BY <1>2 DEF NoDeletes, Update, Puts, ModOps

LEMMA DeletesQuiet ==
    ASSUME TypeInv, LifeInv, NoDeletes, [Next]_vars,
           \A n, m \in Node : ~Forwards(n, m)
    PROVE  Quiet(Deletes)
<1>0. Wires /\ CallInv
  BY TypeParts
<1>1. CASE WiresChange({})
  BY <1>0, <1>1, WiresQuiet
<1>2. ASSUME NEW c \in Call, Ask(c) \/ Push(c) \/ SendAll(c) \/ RunSends(c)
      PROVE  Quiet(Deletes)
  <2>1. PICK es \in SUBSET RpcRequest : WiresChange(es) /\ es \cap Deletes = {}
    <3>1. /\ {Get(c)} \subseteq RpcRequest /\ {Insert(c), Remove(c)} \subseteq RpcRequest
          /\ {Put(c, "none")} \subseteq RpcRequest /\ {Put(c, "run")} \subseteq RpcRequest
      BY DEF RpcRequest, Get, Insert, Remove, Put
    <3>2. /\ {Get(c)} \cap Deletes = {} /\ {Insert(c), Remove(c)} \cap Deletes = {}
          /\ {Put(c, "none")} \cap Deletes = {} /\ {Put(c, "run")} \cap Deletes = {}
      BY DEF Get, Insert, Remove, Put, Deletes
    <3>3. CASE Ask(c) \/ Push(c)
      BY <1>0, <3>1, <3>2, <3>3, SendWires
    <3>4. CASE SendAll(c)
      <4>1. Update(c, "none") = Put(c, "none")
        BY <3>4, PutsOnly
      <4> QED  BY <1>0, <3>1, <3>2, <3>4, <4>1, SendWires
    <3>5. CASE RunSends(c)
      <4>1. Update(c, Answers(c)) \in {Put(c, "none"), Put(c, "run")}
        BY <3>5, PutsOnly DEF Answers
      <4> QED  BY <1>0, <3>1, <3>2, <3>5, <4>1, SendWires
    <3> QED  BY <1>2, <3>3, <3>4, <3>5
  <2> QED  BY <1>0, <2>1, WiresQuiet
<1>3. ASSUME NEW c \in Call, BeginCall(c) \/ CallStep(c) \/ RunStep(c)
      PROVE  Quiet(Deletes)
  <2>1. CASE Silent(c)
    BY <1>1, <2>1, SilentWires
  <2> QED  BY <1>2, <1>3, <2>1 DEF Silent, CallStep, RunStep
<1>4. CASE \E n, m \in Node : ClientStep(n, m) \/ ServerStep(n, m) \/ Fault(n, m)
  BY <1>0, <1>1, <1>4, ServerWires, AroundWires
     DEF ClientStep, Fault, Around, Forwards
<1>5. CASE \E n \in Node : PublishView(n) \/ Empty(n) \/ Stop(n) \/ Start(n)
  BY <1>0, <1>1, <1>5, ProcessWires
<1>6. CASE UNCHANGED vars
  <2>1. UNCHANGED <<queue, stream>>
    BY <1>6 DEF vars, requestVars
  <2> QED  BY <2>1 DEF Quiet, Quieter
<1> QED  BY <1>3, <1>4, <1>5, <1>6 DEF Next

LEMMA NoDelSentStep ==
    ASSUME TypeInv, LifeInv, NoDeletes, [Next]_vars, NoDelSent
    PROVE  NoDelSent'
<1> SUFFICES ASSUME NEW a \in Node, NEW m \in Node
             PROVE  ~Holds(queue'[a][m], Deletes) /\ ~Holds(stream'[a][m], Deletes)
  <2>1. Deletes' = Deletes
    BY DEF Deletes
  <2> QED  BY <2>1 DEF NoDelSent
<1>1. ~Holds(queue[a][m], Deletes) /\ ~Holds(stream[a][m], Deletes)
  BY DEF NoDelSent
<1>2. CASE Quiet(Deletes)
  BY <1>1, <1>2 DEF Quiet, Quieter
<1>3. ASSUME NEW n \in Node, NEW k \in Node, Forwards(n, k)
      PROVE  ~Holds(queue'[a][m], Deletes) /\ ~Holds(stream'[a][m], Deletes)
  BY <1>1, <1>3, ForwardsNone, TypeParts DEF Forwards
<1> QED  BY <1>2, <1>3, DeletesQuiet

(* What the caches hold after a step in which no process stops.            *)
Keeps ==
    /\ \A n \in Node : /\ cache[n] /= None => cache'[n] /= None
                       /\ cache'[n] /= None => cache[n] /= None \/ up'[n]
    /\ \A c \in Call : \A n \in stored'[c] : n \in stored[c] \/ cache'[n] /= None

LEMMA CarryKeeps ==
    ASSUME TypeInv, NEW c \in Call, NEW m \in Node, up'[m],
           cache' = [cache EXCEPT ![m] = c],
           stored' = [stored EXCEPT ![c] = @ \cup {m}]
    PROVE  Keeps
<1>1. /\ cache \in [Node -> Call \cup {None}] /\ stored \in [Call -> SUBSET Node]
      /\ c /= None
  BY TypeParts, OpsTyped, RequestBounds DEF Wires, OpsTypes
<1> QED  BY <1>1 DEF Keeps

LEMMA CachesKeep ==
    ASSUME TypeInv, LifeInv, BusyUp, NoDelSent, NoDeletes, [Next]_vars,
           \A n \in Node : ~Stop(n) /\ ~PublishView(n)
    PROVE  Keeps
<1>0. Wires /\ CallInv
  BY TypeParts
<1>1. CASE UNCHANGED <<cache, stored>>
  BY <1>1 DEF Keeps
<1>2. \A n \in Node : up[n] => up'[n]
  BY UpStays
<1>3. ASSUME NEW c \in Call, StoreHere(c) \/ RunStores(c)
      PROVE  Keeps
  <2>1. PICK m \in Node : up[m] /\ Carry(m, c)
    <3>1. CASE StoreHere(c)
      <4>1. BusyCall(c) /\ At(c) \in Node
        BY <1>0, <3>1 DEF StoreHere, BusyCall, Returned, CallInv, CallFits
      <4> QED  BY <3>1, <4>1 DEF StoreHere, BusyUp
    <3>2. CASE RunStores(c)
      <4>1. BusyRun(c)
        BY <3>2 DEF RunStores, BusyRun, Finished
      <4> QED  BY <3>2, <4>1 DEF RunStores, BusyUp
    <3> QED  BY <1>3, <3>1, <3>2
  <2>2. Applied(m, Update(c, "none")) = c
    BY <1>3, PutsOnly DEF Applied, Put
  <2> QED  BY <1>2, <2>1, <2>2, CarryKeeps DEF Carry
<1>4. ASSUME NEW n \in Node, NEW m \in Node, ServeUpdate(n, m)
      PROVE  Keeps
  <2> DEFINE r == Head(stream[n][m])
  <2>1. /\ stream[n][m] \in Seq(RpcRequest) /\ stream[n][m] /= <<>> /\ up[m]
        /\ r.is \in {"Put", "Del"} /\ cache' = [cache EXCEPT ![m] = Applied(m, r)]
        /\ stored' = [stored EXCEPT ![r.call] = @ \cup {m}]
    BY <1>0, <1>4 DEF ServeUpdate, ServeMod, Reads, Wires, Table
  <2>2. r \in RpcRequest
    BY <2>1, HeadTailProperties
  <2>3. r \notin Deletes
    BY <2>1, HeadHeld DEF NoDelSent
  <2> HIDE DEF r
  <2>4. Applied(m, r) = r.call /\ r.call \in Call
    BY <2>1, <2>2, <2>3, RequestFields DEF Deletes, Applied
  <2> QED  BY <1>2, <2>1, <2>4, CarryKeeps
<1>5. ASSUME NEW c \in Call, BeginCall(c) \/ CallStep(c) \/ RunStep(c),
             ~StoreHere(c), ~RunStores(c)
      PROVE  UNCHANGED <<cache, stored>>
  BY <1>5 DEF BeginCall, CallStep, RunStep, SendAll, Look, Ask, TakeAnswer, Push,
     TakeVerdict, CallFails, RunSends, RunTakesAck, RunMissesAck, RunTurns,
     RunSucceeds, OwnRunEnds, ServedRunEnds, requestVars, otherRequests, historyVars
<1>6. ASSUME NEW n \in Node, NEW m \in Node,
             ClientStep(n, m) \/ ServerStep(n, m) \/ Fault(n, m), ~ServeUpdate(n, m)
      PROVE  UNCHANGED <<cache, stored>>
  BY <1>6 DEF ClientStep, Fault, Forward, DeliverAnswer, LateAnswer, TakesAnswer,
     Connect, OpenStream, OpeningFails, OpeningUnanswered, OpenFails, Ends, Break,
     TearDown, LoseRest, LeftBehindTakes, LeftBehindTakesOther, ServerStep, ServeGet,
     ServeWrite, RefuseWrite, requestVars, opVars, historyVars
<1>7. ASSUME NEW n \in Node, Empty(n) \/ Start(n)
      PROVE  UNCHANGED <<cache, stored>>
  BY <1>7 DEF Empty, Start, requestVars, opVars, historyVars
<1>8. UNCHANGED vars => UNCHANGED <<cache, stored>>
  BY DEF vars, requestVars, opVars, historyVars
<1> QED  BY <1>1, <1>3, <1>4, <1>5, <1>6, <1>7, <1>8 DEF Next

-----------------------------------------------------------------------------
(* The holders of a write that have lost it are no more than the processes *)
(* that have stopped.                                                      *)
Emptied(c) == {n \in stored[c] : cache[n] = None}

Lossless ==
    /\ NoDelSent
    /\ \A n \in Node : cache[n] /= None => up[n]
    /\ \A c \in Call : Cardinality(Emptied(c)) <= failed["stop"]

SurviveInv ==
    NotBegun /\ BusyUp /\ (failed["view"] = 0 /\ NoDeletes => Lossless)

LEMMA EmptiedFinite ==
    ASSUME TypeInv, NEW c \in Call
    PROVE  /\ stored[c] \subseteq Node /\ IsFiniteSet(stored[c])
           /\ IsFiniteSet(Emptied(c)) /\ Emptied(c) \subseteq stored[c]
           /\ Cardinality(Emptied(c)) \in Nat /\ Cardinality(stored[c]) \in Nat
<1>1. stored[c] \subseteq Node
  BY TypeParts, OpsTyped DEF OpsTypes
<1>2. IsFiniteSet(stored[c])
  BY <1>1, MemberAssumption, FS_Subset
<1>3. Emptied(c) \subseteq stored[c]
  BY DEF Emptied
<1> QED  BY <1>1, <1>2, <1>3, FS_Subset, FS_CardinalityType

LEMMA SurviveSuffices ==
    TypeInv /\ PromiseInv /\ SurviveInv => AckedInsertsSurvive
<1> SUFFICES ASSUME TypeInv, PromiseInv, SurviveInv, failed["view"] = 0, NoDeletes,
                    NEW c \in Call, Acked(c), run[c].at /= At(c),
                    failed["stop"] <= Need(call[c].level)
             PROVE  \E n \in stored[c] : up[n] /\ cache[n] /= None
  BY DEF AckedInsertsSurvive, Survives
<1>1. Lossless
  BY DEF SurviveInv
<1>2. ToldToCaller(c) = "ok"
  BY DEF ToldToCaller, Acked
<1>3. Asked(c) >= 0 /\ Cardinality(Holder(c)) > Asked(c)
  BY <1>2 DEF PromiseInv, Promised
<1>4. Run(c)
  <2>1. ~(-1 >= 0)
    OBVIOUS
  <2> QED  BY <1>3, <2>1 DEF Asked
<1>5. Cardinality(stored[c]) > Need(call[c].level)
  BY <1>3, <1>4 DEF Asked, Holder
<1>6. Cardinality(Emptied(c)) <= failed["stop"] /\ failed["stop"] \in Nat
  BY <1>1, TypeParts DEF Lossless, Wires, Failure
<1>7. Emptied(c) /= stored[c]
  <2>1. Cardinality(stored[c]) \in Nat /\ Need(call[c].level) \in Nat
    BY EmptiedFinite, NeedNat
  <2> QED  BY <1>5, <1>6, <2>1
<1>8. PICK n \in stored[c] : cache[n] /= None
  BY <1>7 DEF Emptied
<1>9. n \in Node
  BY EmptiedFinite
<1> QED  BY <1>1, <1>8, <1>9 DEF Lossless

LEMMA SurviveInit == Init => SurviveInv
<1> SUFFICES ASSUME Init PROVE SurviveInv
  OBVIOUS
<1>1. NotBegun /\ BusyUp
  BY BusyInit DEF Init, CacheOpsInit, NoCall, NotBegun, Pc
<1>2. NoDelSent
  <2>1. \A a, m \in Node : queue[a][m] = <<>> /\ stream[a][m] = <<>>
    BY DEF Init, RequestsInit, NoRequests
  <2> QED  BY <2>1, HoldsEmpty DEF NoDelSent
<1>3. \A n \in Node : cache[n] = None
  BY DEF Init, RequestsInit
<1>4. ASSUME NEW c \in Call
      PROVE  Cardinality(Emptied(c)) <= failed["stop"]
  <2>1. Emptied(c) = {} /\ failed["stop"] = 0
    BY DEF Init, CacheOpsInit, RequestsInit, Emptied, Failure
  <2> QED  BY <2>1, FS_EmptySet
<1> QED  BY <1>1, <1>2, <1>3, <1>4 DEF SurviveInv, Lossless

LEMMA LosslessStep ==
    ASSUME TypeInv, LifeInv, BusyUp, Lossless, NoDeletes, [Next]_vars,
           \A n \in Node : ~PublishView(n)
    PROVE  Lossless'
<1>1. NoDelSent'
  BY NoDelSentStep DEF Lossless
<1>2. TypeInv'
  BY TypesStep DEF LifeInv
<1>3. \A c \in Call : /\ Cardinality(Emptied(c)) <= failed["stop"]
                      /\ failed["stop"] \in Nat /\ failed'["stop"] \in Nat
                      /\ failed'["stop"] >= failed["stop"]
  BY <1>2, TypeParts, FailedGrows DEF Lossless, Failure, Wires
<1>4. CASE \A n \in Node : ~Stop(n)
  <2>1. Keeps /\ \A n \in Node : up[n] => up'[n]
    BY <1>4, CachesKeep, UpStays DEF Lossless
  <2>2. \A n \in Node : cache'[n] /= None => up'[n]
    BY <2>1 DEF Keeps, Lossless
  <2>3. ASSUME NEW c \in Call
        PROVE  Cardinality(Emptied(c))' <= failed'["stop"]
    <3>1. Emptied(c)' \subseteq Emptied(c)
      <4> SUFFICES ASSUME NEW n \in stored'[c], cache'[n] = None
                   PROVE  n \in stored[c] /\ cache[n] = None
        BY DEF Emptied
      <4>1. n \in Node
        BY <1>2, TypeParts, OpsTyped DEF OpsTypes
      <4> QED  BY <2>1, <4>1 DEF Keeps
    <3>2. Cardinality(Emptied(c)') <= Cardinality(Emptied(c))
      BY <3>1, EmptiedFinite, FS_Subset
    <3>3. Cardinality(Emptied(c)') \in Nat /\ Cardinality(Emptied(c)) \in Nat
      BY <3>1, EmptiedFinite, FS_Subset, FS_CardinalityType
    <3> QED  BY <1>3, <3>2, <3>3
  <2> QED  BY <1>1, <2>2, <2>3 DEF Lossless
<1>5. ASSUME NEW k \in Node, Stop(k)
      PROVE  Lossless'
  <2>1. /\ cache' = [cache EXCEPT ![k] = None] /\ up' = [up EXCEPT ![k] = FALSE]
        /\ failed' = [failed EXCEPT !["stop"] = @ + 1] /\ UNCHANGED stored
    BY <1>5 DEF Stop, EndProcess, Stops, Fails, historyVars
  <2>2. /\ cache \in [Node -> Call \cup {None}] /\ up \in [Node -> BOOLEAN]
        /\ failed \in [Failure -> Nat] /\ "stop" \in Failure
    BY TypeParts DEF Wires, MembershipTypeOK, Failure
  <2>3. \A n \in Node : n /= k => cache'[n] = cache[n] /\ up'[n] = up[n]
    BY <2>1, <2>2
  <2>4. cache'[k] = None /\ failed'["stop"] = failed["stop"] + 1
    BY <2>1, <2>2
  <2>5. \A n \in Node : cache'[n] /= None => up'[n]
    BY <2>3, <2>4 DEF Lossless
  <2>6. ASSUME NEW c \in Call
        PROVE  Cardinality(Emptied(c))' <= failed'["stop"]
    <3>1. Emptied(c)' \subseteq Emptied(c) \cup {k}
      <4>1. stored[c] \subseteq Node /\ stored'[c] = stored[c]
        BY <2>1, EmptiedFinite
      <4> QED  BY <2>3, <4>1 DEF Emptied
    <3>2. IsFiniteSet(Emptied(c)) /\ IsFiniteSet(Emptied(c) \cup {k})
      BY EmptiedFinite, FS_AddElement
    <3>3. Cardinality(Emptied(c)') <= Cardinality(Emptied(c) \cup {k})
      BY <3>1, <3>2, FS_Subset
    <3>4. Cardinality(Emptied(c) \cup {k}) <= Cardinality(Emptied(c)) + 1
      <4>1. Cardinality(Emptied(c)) \in Nat
        BY <3>2, FS_CardinalityType
      <4>2. Cardinality(Emptied(c) \cup {k}) = IF k \in Emptied(c)
                THEN Cardinality(Emptied(c)) ELSE Cardinality(Emptied(c)) + 1
        BY <3>2, FS_AddElement
      <4> QED  BY <4>1, <4>2
    <3>5. /\ Cardinality(Emptied(c)') \in Nat /\ Cardinality(Emptied(c)) \in Nat
          /\ Cardinality(Emptied(c) \cup {k}) \in Nat
      BY <3>1, <3>2, FS_Subset, FS_CardinalityType
    <3> QED  BY <1>3, <2>4, <3>3, <3>4, <3>5
  <2> QED  BY <1>1, <2>5, <2>6 DEF Lossless
<1> QED  BY <1>4, <1>5

LEMMA SurviveStep ==
    ASSUME TypeInv, LifeInv, SurviveInv, [Next]_vars
    PROVE  SurviveInv'
<1>1. NotBegun' /\ BusyUp' /\ (NoDeletes' => NoDeletes)
  BY BegunBefore, BusyStep DEF SurviveInv
<1>2. ASSUME failed'["view"] = 0
      PROVE  failed["view"] = 0 /\ \A n \in Node : ~PublishView(n)
  <2>1. NoneFails({"view"})' => NoneFails({"view"}) /\ \A n \in Node : ~PublishView(n)
    BY NoneFailedBefore DEF Failure
  <2> QED  BY <1>2, <2>1 DEF NoneFails
<1>3. ASSUME failed'["view"] = 0, NoDeletes'
      PROVE  Lossless'
  BY <1>1, <1>2, <1>3, LosslessStep DEF SurviveInv
<1> QED  BY <1>1, <1>3 DEF SurviveInv

(* An insert of a follower that is told to be acknowledged is still there, *)
(* at a member that runs, as long as no more processes stop than members   *)
(* other than the leader were to acknowledge it, nothing is deleted, and   *)
(* no quorum is lost: although acks are lost or late, streams break, and   *)
(* the leader itself may stop (insert_from_leader, ack_cache).             *)
THEOREM AckedInsertsLast == Spec => []AckedInsertsSurvive
<1>1. Init => AllInv /\ PromiseInv /\ SurviveInv
  BY AllInit, PromiseInit, SurviveInit
<1>2. AllInv /\ PromiseInv /\ SurviveInv /\ [Next]_vars =>
          (AllInv /\ PromiseInv /\ SurviveInv)'
  BY AllStep, PromiseStep, SurviveStep DEF AllInv
<1>3. AllInv /\ PromiseInv /\ SurviveInv => AckedInsertsSurvive
  BY SurviveSuffices DEF AllInv
<1> QED  BY <1>1, <1>2, <1>3, PTL DEF Spec

-----------------------------------------------------------------------------
(* What keeps a lookup from a miss: a member m that has had the entry ever *)
(* since the lookup began.  It denies the entry to nobody, so that a       *)
(* lookup that has heard from m has found the entry.                       *)
Untouched  == Undisturbed /\ NoDeletes
Denial     == {GetAck(None)}
Denials(m) == {[from |-> m, val |-> None]}
Found(c)   == Pc(c) = "ok" /\ call[c].found /= None

Sees(c, m) ==
    /\ Pc(c) /= "idle" /\ cache[m] /= None
    /\ m = At(c) => Pc(c) = "look" \/ Found(c)
    /\ m /= At(c) => /\ ~Holds(answers[At(c)][m], Denial)
                     /\ ~Holds(got[GetToken(c)], Denials(m))
                     /\ m \in heard[c] => Found(c)

FindInv(c) == Untouched => \E m \in Node : Sees(c, m)

(* When a lookup begins, and what it must not come to.                     *)
Findable(c) ==
    Pc(c) = "look" /\ \E m \in Node : cache[m] /= None /\ ~DenialUnderWay(At(c), m)
FoundYet(c) == NoneFails({"stop", "view"}) /\ NoDeletes => ~Misses(c)

LEMMA FindBegins ==
    ASSUME TypeInv, MissInv, NEW c \in Call, Findable(c)
    PROVE  FindInv(c)
<1> SUFFICES ASSUME Untouched PROVE \E m \in Node : Sees(c, m)
  BY DEF FindInv
<1>1. PICK m \in Node : cache[m] /= None /\ ~DenialUnderWay(At(c), m)
  BY DEF Findable
<1>2. ~Holds(answers[At(c)][m], Denial)
  BY <1>1 DEF DenialUnderWay, Holds, Denial
<1>3. got[GetToken(c)] = <<>>
  <2>1. GetToken(c) \in Token /\ GetToken(c) \notin waiting
    BY TypeParts DEF Findable, CallInv, CallFits, GetToken, Token
  <2> QED  BY <2>1 DEF TypeInv, Listens
<1>4. heard[c] = {}
  BY DEF Untouched, MissInv, LooksInv, Looks, Findable, Pc, Late, Returned
<1>5. Sees(c, m)
  BY <1>1, <1>2, <1>3, <1>4, HoldsEmpty DEF Sees, Findable
<1> QED  BY <1>5

LEMMA FindSuffices ==
    ASSUME TypeInv, MissInv, SurviveInv, NEW c \in Call, FindInv(c)
    PROVE  FoundYet(c)
<1> SUFFICES ASSUME Untouched, Misses(c) PROVE FALSE
  BY DEF FoundYet, Untouched, Undisturbed
<1>1. PICK m \in Node : Sees(c, m)
  BY DEF FindInv
<1>2. Lossless /\ Steady /\ LooksInv
  BY DEF SurviveInv, MissInv, Untouched, Undisturbed, NoneFails
<1>3. m \in Running
  BY <1>1, <1>2 DEF Lossless, Steady, Sees
<1>4. heard[c] = Running \ {At(c)}
  BY <1>2 DEF LooksInv, Looks, Misses, Pc, At
<1>5. ~Found(c) /\ Pc(c) /= "look"
  BY DEF Found, Misses
<1> QED  BY <1>1, <1>3, <1>4, <1>5 DEF Sees

(* A member that has the entry denies it to nobody.                        *)
LEMMA NoDenialAdded ==
    ASSUME TypeInv, [Next]_vars, NEW n \in Node, NEW m \in Node, cache[m] /= None,
           ~Holds(answers[n][m], Denial)
    PROVE  ~Holds(answers'[n][m], Denial)
<1>0. Wires /\ answers[n][m] \in Seq(Ack)
  BY TypeParts DEF Wires, Table
<1>1. ASSUME AnswersShrink
      PROVE  ~Holds(answers'[n][m], Denial)
  <2>1. {} \cap Denial = {} /\ {} \in SUBSET Ack
    OBVIOUS
  <2>2. Quieter(answers[n][m], answers'[n][m], Denial)
    BY <1>0, <1>1, <2>1, ChangesQuiet DEF AnswersShrink
  <2> QED  BY <2>2 DEF Quieter
<1>2. ASSUME NEW e \in Ack, e \notin Denial,
             \/ answers'[n][m] = answers[n][m]
             \/ answers'[n][m] = Append(answers[n][m], e)
      PROVE  ~Holds(answers'[n][m], Denial)
  BY <1>0, <1>2, HoldsAppend
<1>3. ASSUME NEW c \in Call, ServedRunEnds(c)
      PROVE  ~Holds(answers'[n][m], Denial)
  <2> DEFINE e == ModAck(<<c, "mod">>, run[c].verdict = "true")
  <2>1. answers'[n][m] = answers[n][m] \/ answers'[n][m] = Append(answers[n][m], e)
    BY <1>0, <1>3 DEF ServedRunEnds, Answered, Wires, Table
  <2>2. e \in Ack /\ e \notin Denial
    BY AckMade DEF ModAck, Denial, GetAck
  <2> HIDE DEF e
  <2> QED  BY <1>2, <2>1, <2>2
<1>4. ASSUME NEW c \in Call, BeginCall(c) \/ CallStep(c) \/ RunStep(c)
      PROVE  ~Holds(answers'[n][m], Denial)
  <2>1. ~ServedRunEnds(c) => UNCHANGED answers
    BY <1>4 DEF BeginCall, CallStep, RunStep, StoreHere, SendAll, Look, Ask,
       TakeAnswer, Push, TakeVerdict, CallFails, RunSends, RunStores, RunTakesAck,
       RunMissesAck, RunTurns, RunSucceeds, OwnRunEnds, requestVars, otherRequests
  <2> QED  BY <1>1, <1>3, <2>1, SameAnswers
<1>5. ASSUME NEW a \in Node, NEW k \in Node, ServerStep(a, k)
      PROVE  ~Holds(answers'[n][m], Denial)
  <2>1. CASE UNCHANGED answers
    BY <1>1, <2>1, SameAnswers
  <2>2. ASSUME NEW e \in Ack, e \notin Denial, answers' = Answered(a, k, e)
        PROVE  ~Holds(answers'[n][m], Denial)
    BY <1>0, <1>2, <2>2, AnsweredAdds
  <2>3. CASE ServeGet(a, k)
    <3>1. answers' = Answered(a, k, GetAck(cache[k]))
      BY <2>3 DEF ServeGet
    <3>2. CASE k = m
      <4>1. cache[m] \in Call \cup {None}
        BY <1>0 DEF Wires
      <4>2. GetAck(cache[m]) \in Ack /\ GetAck(cache[m]) \notin Denial
        BY <4>1 DEF Ack, GetAck, Denial
      <4> QED  BY <2>2, <3>1, <3>2, <4>2
    <3>3. CASE k /= m
      <4>1. answers'[n][m] = answers[n][m]
        BY <1>0, <3>1, <3>3, AnsweredAdds
      <4> QED  BY <4>1
    <3> QED  BY <3>2, <3>3
  <2>4. CASE ServeUpdate(a, k)
    <3> DEFINE r == Head(stream[a][k])
    <3>1. r \in RpcRequest /\ r.is \in {"Put", "Del"}
          /\ answers' = Answered(a, k, ModAck(TokenOf(r), TRUE))
      BY <1>0, <2>4, ReadsTypes DEF ServeUpdate, ServeMod, Reads
    <3> HIDE DEF r
    <3>2. TokenOf(r) \in Call \X {"mod", "run", "none"}
      BY <3>1, RequestFields
    <3>3. ModAck(TokenOf(r), TRUE) \in Ack /\ ModAck(TokenOf(r), TRUE) \notin Denial
      BY <3>2, AckMade DEF ModAck, GetAck, Denial
    <3> QED  BY <2>2, <3>1, <3>3
  <2>5. CASE ServeWrite(a, k) \/ RefuseWrite(a, k)
    <3>1. UNCHANGED answers \/ answers' = Answered(a, k, Error)
      BY <2>5 DEF ServeWrite, RefuseWrite
    <3>2. Error \in Ack /\ Error \notin Denial
      BY DEF Ack, Error, GetAck, Denial
    <3> QED  BY <2>1, <2>2, <3>1, <3>2
  <2> QED  BY <1>5, <2>3, <2>4, <2>5 DEF ServerStep
<1>6. CASE UNCHANGED vars
  BY <1>1, <1>6, SameAnswers DEF vars, requestVars
<1> QED  BY <1>0, <1>1, <1>4, <1>5, <1>6, OtherAnswers DEF Next

(* A lookup is handed no denial of m but one that was on its way to it.    *)
LEMMA DeliversNoDenial ==
    ASSUME TypeInv, NEW n \in Node, NEW k \in Node, DeliverAnswer(n, k),
           AnswersInv, NEW c \in Call, NEW m \in Node,
           ~Holds(answers[At(c)][m], Denial), ~Holds(got[GetToken(c)], Denials(m))
    PROVE  ~Holds(got'[GetToken(c)], Denials(m))
<1> DEFINE S == Answer(Call \cup {None} \cup BOOLEAN)
<1>1. PICK a \in Ack, e \in S :
               /\ a = Head(answers[n][k]) /\ a /= Error /\ answers[n][k] /= <<>>
               /\ e = [from |-> k, val |-> a.val]
               /\ \A t \in Token :
                      got'[t] = IF t \in Meant(n, k, a) \cap waiting
                                THEN Append(got[t], e) ELSE got[t]
               /\ \A x, y \in Node : saved'[x][y] = IF x = n /\ y = k
                      THEN saved[n][k] \ Meant(n, k, a) ELSE saved[x][y]
  BY Delivers
<1>2. GetToken(c) \in Token /\ got \in [Token -> Seq(S)]
  BY TypeParts DEF GetToken, Token, GotInv
<1> HIDE DEF S
<1>3. ASSUME GetToken(c) \in Meant(n, k, a)
      PROVE  e \notin Denials(m)
  <2> SUFFICES ASSUME e \in Denials(m) PROVE FALSE
    OBVIOUS
  <2>1. k = m /\ a.val = None
    BY <1>1 DEF Denials
  <2>2. a.is = "GetAck"
    <3>1. a.is \in {"GetAck", "ModAck"}
      BY <1>1, AckFields
    <3>2. a.is = "ModAck" => a.token \in Call \X {"mod", "run", "none"}
      BY DEF Ack, Error
    <3> QED  BY <1>3, <3>1, <3>2 DEF Meant, GetToken
  <2>3. a \in Denial
    BY <2>1, <2>2 DEF Ack, Error, GetAck, Denial
  <2>4. GetToken(c) \in saved[n][m]
    BY <1>3, <2>1 DEF Meant, Lookups
  <2>5. n = At(c)
    BY <2>4 DEF AnswersInv, AnswerAt
  <2>6. answers[n][m] \in Seq(Ack)
    BY TypeParts DEF Wires, Table
  <2> QED  BY <1>1, <2>1, <2>3, <2>5, <2>6, HeadHeld
<1>4. CASE GetToken(c) \in Meant(n, k, a) \cap waiting
  BY <1>1, <1>2, <1>3, <1>4, HoldsAppend
<1>5. CASE GetToken(c) \notin Meant(n, k, a) \cap waiting
  BY <1>1, <1>2, <1>5
<1> QED  BY <1>4, <1>5

LEMMA NoDenialComes ==
    ASSUME TypeInv, AnswersInv, [Next]_vars, NEW c \in Call, NEW m \in Node,
           ~Holds(answers[At(c)][m], Denial), ~Holds(got[GetToken(c)], Denials(m))
    PROVE  ~Holds(got'[GetToken(c)], Denials(m))
<1>1. CASE \A n, k \in Node : ~HandsOver(n, k)
  <2>1. GetToken(c) \in Token
    BY DEF GetToken, Token
  <2> QED  BY <1>1, <2>1, GotLess, GotQuieter DEF Quieter
<1>2. CASE \E n, k \in Node : HandsOver(n, k)
  BY <1>2, DeliversNoDenial DEF HandsOver
<1> QED  BY <1>1, <1>2

LEMMA ResultStays ==
    ASSUME TypeInv, [Next]_vars, \A n \in Node : ~Stop(n), NEW c \in Call,
           Pc(c) = "ok" \/ (Pc(c) = "look" /\ ~Look(c))
    PROVE  call'[c] = call[c]
<1>1. ~BeginCall(c) /\ ~CallStep(c) /\ ~OwnRunEnds(c)
  BY DEF BeginCall, CallStep, StoreHere, SendAll, Look, Ask, TakeAnswer, Push,
     TakeVerdict, CallFails, OwnRunEnds
<1> QED  BY <1>1, OthersCalls

LEMMA SeesStep ==
    ASSUME TypeInv, LifeInv, AnswersInv, BusyUp, NoDelSent, NoDeletes, [Next]_vars,
           \A n \in Node : ~Stop(n) /\ ~PublishView(n),
           NEW c \in Call, NEW m \in Node, Sees(c, m)
    PROVE  Sees(c, m)'
<1>0. /\ call \in [Call -> CallRecord] /\ heard \in [Call -> SUBSET Node]
      /\ Pc(c) /= "idle" /\ cache[m] /= None
  BY TypeParts, OpsTyped DEF OpsTypes, Sees
<1>1. cache'[m] /= None
  BY <1>0, CachesKeep DEF Keeps
<1>2. Pc(c)' /= "idle" /\ At(c)' = At(c)
  BY <1>0, LifeStep DEF Fate, Follows, Pc, At
<1>3. ASSUME Found(c)
      PROVE  Found(c)'
  BY <1>3, ResultStays DEF Found, Pc
<1>4. ASSUME m = At(c)
      PROVE  Pc(c)' = "look" \/ Found(c)'
  <2>1. CASE Look(c)
    <3> DEFINE v == cache[At(c)]
    <3>1. call' = [call EXCEPT ![c].found = v, ![c].pc = "ok"]
      BY <1>0, <1>4, <2>1 DEF Look
    <3> HIDE DEF v
    <3>2. call'[c].found = v /\ call'[c].pc = "ok"
      BY <1>0, <3>1 DEF CallRecord
    <3> QED  BY <1>0, <1>4, <3>2 DEF Found, Pc, v
  <2>2. CASE Pc(c) = "look" /\ ~Look(c)
    BY <2>2, ResultStays DEF Pc
  <2> QED  BY <1>3, <1>4, <2>1, <2>2 DEF Sees
<1>5. ASSUME m /= At(c)
      PROVE  /\ ~Holds(answers'[At(c)][m], Denial)
             /\ ~Holds(got'[GetToken(c)], Denials(m))
             /\ m \in heard'[c] => Found(c)'
  <2>1. /\ ~Holds(answers[At(c)][m], Denial) /\ ~Holds(got[GetToken(c)], Denials(m))
        /\ m \in heard[c] => Found(c)
    BY <1>5 DEF Sees
  <2>2. At(c) \in Node
    BY <1>0, TypeParts DEF CallInv, CallFits
  <2>3. ~Holds(answers'[At(c)][m], Denial) /\ ~Holds(got'[GetToken(c)], Denials(m))
    BY <1>0, <2>1, <2>2, NoDenialAdded, NoDenialComes
  <2>4. ASSUME m \in heard'[c]
        PROVE  Found(c)'
    <3>1. CASE m \in heard[c]
      BY <1>3, <2>1, <3>1
    <3>2. CASE m \notin heard[c]
      <4> DEFINE t == GetToken(c)
                 e == Head(got[t])
                 S == Answer(Call \cup {None})
      <4>1. TakeAnswer(c)
        BY <2>4, <3>2, HeardSame
      <4>2. got[t] \in Seq(S) /\ got[t] /= <<>>
        <5>1. got[t] \in Seq(S)
          BY DEF TypeInv, GotTypeOK, GetToken
        <5> QED  BY <4>1, <5>1 DEF TakeAnswer, GetToken
      <4>3. e.from = m
        BY <1>0, <2>4, <3>2, <4>1 DEF TakeAnswer, GetToken
      <4>4. e \notin Denials(m)
        BY <2>1, <4>2, HeadHeld
      <4>5. e \in S
        BY <4>2, HeadTailProperties
      <4>6. e.val /= None
        BY <4>3, <4>4, <4>5 DEF Answer, Denials
      <4>7. call' = [call EXCEPT ![c].pc = "ok", ![c].found = e.val]
        BY <4>1, <4>6 DEF TakeAnswer, GetToken
      <4> HIDE DEF e
      <4>8. call'[c].pc = "ok" /\ call'[c].found = e.val
        BY <1>0, <4>7 DEF CallRecord
      <4> QED  BY <4>6, <4>8 DEF Found, Pc
    <3> QED  BY <3>1, <3>2
  <2> QED  BY <2>3, <2>4
<1>6. /\ Denial' = Denial /\ Denials(m)' = Denials(m) /\ GetToken(c)' = GetToken(c)
      /\ At(c) = call[c].at
  BY DEF Denial, GetAck, Denials, GetToken, At
<1> QED  BY <1>1, <1>2, <1>4, <1>5, <1>6 DEF Sees

LEMMA FindStep ==
    ASSUME TypeInv, LifeInv, MissInv, SurviveInv, [Next]_vars,
           NEW c \in Call, FindInv(c)
    PROVE  FindInv(c)'
<1> SUFFICES ASSUME Untouched' PROVE \E m \in Node : Sees(c, m)'
  BY DEF FindInv
<1>1. Undisturbed /\ \A n \in Node : ~Stop(n) /\ ~PublishView(n)
  BY NoneFailedBefore DEF Untouched, Undisturbed, Failure
<1>2. NoDeletes
  BY BegunBefore DEF Untouched, SurviveInv
<1>3. AnswersInv /\ BusyUp /\ NoDelSent
  BY <1>1, <1>2 DEF MissInv, SurviveInv, Lossless, Undisturbed, NoneFails
<1>4. PICK m \in Node : Sees(c, m)
  BY <1>1, <1>2 DEF FindInv, Untouched
<1> QED  BY <1>1, <1>2, <1>3, <1>4, SeesStep

(* A lookup that begins when a member has the entry finds it, if no denial *)
(* of that member, to an earlier lookup, is on its way still, and nothing  *)
(* is deleted, no process stops and no quorum handler publishes anything:  *)
(* although streams break, answers come late, and lookups of one entry     *)
(* take each other's senders and answers (cache_get_value, get_cache).     *)
THEOREM PresentIsFound == Spec => LookupsFind
<1> DEFINE Inv == AllInv /\ MissInv /\ SurviveInv
<1>1. Spec => []Inv
  <2>1. Init => Inv
    BY AllInit, MissInit, SurviveInit
  <2>2. Inv /\ [Next]_vars => Inv'
    BY AllStep, MissStep, SurviveStep DEF AllInv
  <2> QED  BY <2>1, <2>2, PTL DEF Spec
<1>2. ASSUME NEW c \in Call
      PROVE  Spec => Finds(c)
  <2>1. Inv /\ Findable(c) => FindInv(c)
    BY FindBegins DEF AllInv
  <2>2. Inv /\ FindInv(c) /\ [Next]_vars => FindInv(c)'
    BY FindStep DEF AllInv
  <2>3. Inv /\ FindInv(c) => FoundYet(c)
    BY FindSuffices DEF AllInv
  <2>4. Spec => [](Findable(c) => []FoundYet(c))
    BY <1>1, <2>1, <2>2, <2>3, PTL DEF Spec
  <2> QED  BY <2>4 DEF Finds, Findable, FoundYet
<1> QED  BY <1>2 DEF LookupsFind

=============================================================================
