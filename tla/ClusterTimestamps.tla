-------------------------- MODULE ClusterTimestamps --------------------------
(***************************************************************************)
(* Every timestamp a member compares was drawn for the member it comes     *)
(* with, for every set of members and every value of the bounds: what is   *)
(* registered is taken from messages, so every message on a stream and in  *)
(* a mailbox names the owner of its timestamp.                             *)
(***************************************************************************)
EXTENDS ClusterSafety

(* What names a member and a timestamp names the owner of the timestamp,   *)
(* where o says for whom each was drawn.                                   *)
NamesOwner(o, r) == r.is \in Timed => o[r.ts] = r.addr

Own(o)         == {r \in Message : NamesOwner(o, r)}
OwnRequest(o, n) == {r \in Request(n) : NamesOwner(o, r)}

LeaderOwns(o, n, l) ==
    /\ l.is = "Local" => o[l.ts] = n
    /\ l.is = "Remote" => o[l.ts] = l.addr

WiresOwn     == wire \in [Node -> [Node -> Seq(Own(owner))]]
AcksOwn      == acks \in [Node -> [Node -> Seq(Own(owner))]]
MailboxesOwn == \A n \in Node : mailbox[n] \in Seq(OwnRequest(owner, n))
LeadersOwn   == \A n \in Node : LeaderOwns(owner, n, leader[n])

StampInv == WiresOwn /\ AcksOwn /\ MailboxesOwn /\ LeadersOwn

-----------------------------------------------------------------------------
(* A timestamp that was drawn for a member is not drawn again.             *)
OwnersStay == \A t \in Ts : owner[t] \in Node => owner'[t] = owner[t]

LEMMA OwnersKept ==
    ASSUME TypeOK,
           UNCHANGED owner \/ \E t \in Ts, a \in Node : Draw(t, a)
    PROVE  OwnersStay
BY NodeAssumption DEF OwnersStay, Draw, TypeOK, HandlerTypeOK

LEMMA Drawn ==
    ASSUME TypeOK, NEW t \in Ts, NEW a \in Node, Draw(t, a)
    PROVE  OwnersStay /\ owner'[t] = a
BY OwnersKept DEF Draw, TypeOK, HandlerTypeOK

LEMMA StillOwn ==
    ASSUME OwnersStay
    PROVE  /\ Seq(Own(owner)) \subseteq Seq(Own(owner'))
           /\ \A n \in Node : Seq(OwnRequest(owner, n)) \subseteq Seq(OwnRequest(owner', n))
<1>1. ASSUME NEW n \in Node, NEW r \in OwnRequest(owner, n)
      PROVE  r \in OwnRequest(owner', n)
  <2>1. r \in Request(n) /\ NamesOwner(owner, r)
    BY <1>1 DEF OwnRequest
  <2>2. r.is \in Timed => r.addr \in Node /\ r.ts \in Ts
    BY <2>1, RequestFields
  <2> QED  BY <2>1, <2>2 DEF OwnersStay, NamesOwner, OwnRequest
<1>2. ASSUME NEW r \in Own(owner)
      PROVE  r \in Own(owner')
  <2>1. PICK n \in Node : r \in Request(n)
    BY <1>2, RequestMade, NodeAssumption, FS_EmptySet DEF Own
  <2>2. r \in OwnRequest(owner, n)
    BY <1>2, <2>1 DEF Own, OwnRequest
  <2> QED  BY <1>1, <1>2, <2>2 DEF Own, OwnRequest
<1> QED  BY <1>1, <1>2, SeqMonotonic

LEMMA StillNamed ==
    ASSUME OwnersStay, TypeOK, NEW n \in Node, LeaderOwns(owner, n, leader[n])
    PROVE  LeaderOwns(owner', n, leader[n])
<1>1. leader[n] \in RegisteredLeader
  BY DEF TypeOK, HandlerTypeOK
<1>2. /\ leader[n].is \in {"Local", "Remote"} => leader[n].ts \in Ts
      /\ leader[n].is = "Remote" => leader[n].addr \in Node
  BY <1>1, LeaderFields
<1> QED  BY <1>2 DEF LeaderOwns, OwnersStay

(* Messages that name the owner of their timestamp.                        *)
LEMMA OwnMade ==
    ASSUME NEW o, NEW a \in Node, NEW t \in Ts, NEW q \in BOOLEAN, o[t] = a
    PROVE  /\ LeaderInfo(a, t, q) \in Own(o)
           /\ LeaderReq(a, t) \in Own(o)
           /\ LeaderReqAck(a, t) \in Own(o)
           /\ LeaderAck(a, t) \in Own(o)
           /\ LeaderSwitch(a, t) \in Own(o)
           /\ LeaderSwitchDead(a, t) \in Own(o)
           /\ LeaderSwitchPriority(a, t) \in Own(o)
           /\ LeaderOwns(o, a, Local(t))
           /\ \A n \in Node : LeaderOwns(o, n, Remote(a, t))
<1>1. /\ LeaderInfo(a, t, q).ts = t /\ LeaderInfo(a, t, q).addr = a
      /\ LeaderReq(a, t).ts = t /\ LeaderReq(a, t).addr = a
      /\ LeaderReqAck(a, t).ts = t /\ LeaderReqAck(a, t).addr = a
      /\ LeaderAck(a, t).ts = t /\ LeaderAck(a, t).addr = a
      /\ LeaderSwitch(a, t).ts = t /\ LeaderSwitch(a, t).addr = a
      /\ LeaderSwitchDead(a, t).ts = t /\ LeaderSwitchDead(a, t).addr = a
      /\ LeaderSwitchPriority(a, t).ts = t /\ LeaderSwitchPriority(a, t).addr = a
  BY DEF LeaderInfo, LeaderReq, LeaderReqAck, LeaderAck, LeaderSwitch,
     LeaderSwitchDead, LeaderSwitchPriority
<1>2. LeaderOwns(o, a, Local(t)) /\ \A n \in Node : LeaderOwns(o, n, Remote(a, t))
  BY DEF LeaderOwns, Local, Remote
<1> QED  BY <1>1, <1>2, MessageMade DEF Own, NamesOwner

LEMMA SwitchAckOwn ==
    ASSUME NEW o, NEW a \in Node
    PROVE  LeaderSwitchAck(a) \in Own(o)
<1>1. LeaderSwitchAck(a) \in Message
  BY DEF LeaderSwitchAck, Message
<1> QED  BY <1>1 DEF LeaderSwitchAck, Own, NamesOwner, Timed

LEMMA OwnOut ==
    ASSUME NEW o, NEW r \in Own(o), NEW a \in Node
    PROVE  /\ ToAll(<<r>>) \in [Node -> Seq(Own(o))]
           /\ ToOne(a, <<r>>) \in [Node -> Seq(Own(o))]
BY EmptySeq DEF ToAll, ToOne

LEMMA OwnNothing ==
    ASSUME NEW o
    PROVE  ToNobody \in [Node -> Seq(Own(o))] /\ <<>> \in Seq(Own(o))
BY EmptySeq DEF ToNobody

LEMMA OwnThen ==
    ASSUME NEW o, NEW o1 \in [Node -> Seq(Own(o))], NEW o2 \in [Node -> Seq(Own(o))]
    PROVE  Then(o1, o2) \in [Node -> Seq(Own(o))]
BY ConcatProperties DEF Then

(* What a handler knows of its leader may be sent as it is.                *)
LEMMA OwnLeader ==
    ASSUME TypeOK, NEW n \in Node, LeaderOwns(owner, n, leader[n]),
           leader[n] /= NoLeader
    PROVE  /\ LeaderAddr(n) \in Node /\ leader[n].ts \in Ts
           /\ owner[leader[n].ts] = LeaderAddr(n)
<1>1. leader[n] \in RegisteredLeader
  BY DEF TypeOK, HandlerTypeOK
<1> QED  BY <1>1, LeaderFields DEF LeaderOwns, LeaderAddr

LEMMA OwnConflict ==
    ASSUME TypeOK, NEW n \in Node, LeaderOwns(owner, n, leader[n]),
           NEW a \in Node, NEW t \in Ts, owner[t] = a
    PROVE  /\ ConflictOwn(n, a, t) \in Seq(Own(owner))
           /\ ConflictOut(n, a, t) \in [Node -> Seq(Own(owner))]
<1>1. LeaderSwitchPriority(a, t) \in Own(owner)
  BY OwnMade
<1>2. Conflict(n) => LeaderSwitchPriority(LeaderAddr(n), leader[n].ts) \in Own(owner)
  BY OwnLeader, OwnMade DEF Conflict
<1>3. ConflictOwn(n, a, t) \in Seq(Own(owner))
  BY <1>1, EmptySeq DEF ConflictOwn
<1>4. ConflictOut(n, a, t) \in [Node -> Seq(Own(owner))]
  BY <1>1, <1>2, OwnOut, OwnNothing DEF ConflictOut
<1> QED  BY <1>3, <1>4

(* What a handler receives names the owner of its timestamp.               *)
LEMMA ReceivedOwn ==
    ASSUME TypeOK, StampInv, NEW n \in Node, NEW kind \in Timed, Receives(n, kind)
    PROVE  /\ mailbox[n] /= <<>>
           /\ Req(n).addr \in Node /\ Req(n).ts \in Ts
           /\ owner[Req(n).ts] = Req(n).addr
<1>1. mailbox[n] /= <<>> /\ Req(n).is = kind
      /\ Req(n).addr \in Node /\ Req(n).ts \in Ts
  BY Received
<1>2. Req(n) \in OwnRequest(owner, n)
  BY <1>1, HeadTailProperties DEF StampInv, MailboxesOwn, Req
<1> QED  BY <1>1, <1>2 DEF OwnRequest, NamesOwner

-----------------------------------------------------------------------------
(* What is put into a mailbox or on a stream keeps the invariant.          *)
LEMMA OwnMailbox ==
    ASSUME TypeOK, MailboxesOwn, OwnersStay, NEW n \in Node,
           NEW box \in Seq(OwnRequest(owner', n)),
           mailbox' = [mailbox EXCEPT ![n] = box]
    PROVE  MailboxesOwn'
<1>1. \A m \in Node \ {n} : mailbox'[m] = mailbox[m]
  BY DEF TypeOK, StreamsTypeOK, MailboxTypeOK
<1>2. mailbox'[n] = box
  BY DEF TypeOK, StreamsTypeOK, MailboxTypeOK
<1> QED  BY <1>1, <1>2, StillOwn DEF MailboxesOwn

LEMMA OwnIsRequest ==
    ASSUME NEW n \in Node, NEW o
    PROVE  /\ Own(o) \subseteq OwnRequest(o, n)
           /\ Seq(Own(o)) \subseteq Seq(OwnRequest(o, n))
<1>1. Own(o) \subseteq OwnRequest(o, n)
  BY RequestMade DEF Own, OwnRequest
<1> QED  BY <1>1, SeqMonotonic

LEMMA OwnTake ==
    ASSUME TypeOK, MailboxesOwn, OwnersStay, NEW n \in Node, mailbox[n] /= <<>>,
           NEW own \in Seq(Own(owner')), Take(n, own)
    PROVE  MailboxesOwn'
<1>1. Tail(mailbox[n]) \in Seq(OwnRequest(owner', n))
  BY HeadTailProperties, StillOwn DEF MailboxesOwn
<1>2. own \in Seq(OwnRequest(owner', n))
  BY OwnIsRequest
<1>3. Tail(mailbox[n]) \o own \in Seq(OwnRequest(owner', n))
  BY <1>1, <1>2, ConcatProperties
<1> QED  BY <1>3, OwnMailbox DEF Take

LEMMA OwnEnqueue ==
    ASSUME TypeOK, MailboxesOwn, UNCHANGED owner, NEW n \in Node,
           NEW r \in OwnRequest(owner, n), Enqueue(n, r)
    PROVE  MailboxesOwn'
<1>1. Append(mailbox[n], r) \in Seq(OwnRequest(owner', n))
  BY AppendProperties DEF MailboxesOwn
<1>2. OwnersStay
  BY DEF OwnersStay
<1> QED  BY <1>1, <1>2, OwnMailbox DEF Enqueue

LEMMA OwnSend ==
    ASSUME WiresOwn, OwnersStay, NEW n \in Node,
           NEW out \in [Node -> Seq(Own(owner'))], Send(n, out)
    PROVE  WiresOwn'
<1>1. wire \in [Node -> [Node -> Seq(Own(owner'))]]
  BY StillOwn DEF WiresOwn
<1>2. \A m \in Node : wire[n][m] \o out[m] \in Seq(Own(owner'))
  BY <1>1, ConcatProperties
<1> QED  BY <1>1, <1>2 DEF Send, WiresOwn

LEMMA OwnStreams ==
    ASSUME OwnersStay
    PROVE  /\ WiresOwn /\ UNCHANGED wire => WiresOwn'
           /\ AcksOwn /\ UNCHANGED acks => AcksOwn'
BY StillOwn DEF WiresOwn, AcksOwn

LEMMA OwnAnswer ==
    ASSUME AcksOwn, UNCHANGED owner, NEW a \in Node, NEW n \in Node,
           NEW sent \in Seq(Own(owner)), acks' = [acks EXCEPT ![a][n] = sent]
    PROVE  AcksOwn'
BY DEF AcksOwn

LEMMA OwnRegistered ==
    ASSUME TypeOK, LeadersOwn, OwnersStay, NEW n \in Node, NEW l,
           SetLeader(n, l), LeaderOwns(owner', n, l)
    PROVE  LeadersOwn'
<1>1. /\ \A m \in Node \ {n} : leader'[m] = leader[m]
      /\ leader'[n] = l
  BY DEF SetLeader, TypeOK, HandlerTypeOK
<1>2. \A m \in Node : LeaderOwns(owner', m, leader[m])
  BY StillNamed DEF LeadersOwn
<1> QED  BY <1>1, <1>2 DEF LeadersOwn

(* A turn of n after which l is its leader.                                *)
LEMMA OwnTurn ==
    ASSUME TypeOK, StampInv, OwnersStay, NEW n \in Node, mailbox[n] /= <<>>,
           NEW own \in Seq(Own(owner')), NEW out \in [Node -> Seq(Own(owner'))],
           Turn(n, own, out),
           NEW l, SetLeader(n, l), LeaderOwns(owner', n, l)
    PROVE  StampInv'
<1>1. WiresOwn' /\ MailboxesOwn'
  BY OwnSend, OwnTake DEF Turn, StampInv
<1>2. AcksOwn'
  BY OwnStreams DEF Turn, sameStreams, StampInv
<1>3. LeadersOwn'
  BY OwnRegistered DEF StampInv
<1> QED  BY <1>1, <1>2, <1>3 DEF StampInv

-----------------------------------------------------------------------------
(* One lemma for each kind of request: what the turn sends and registers.  *)
LEMMA KeptLeader ==
    ASSUME TypeOK, NEW n \in Node, UNCHANGED leader
    PROVE  SetLeader(n, leader[n])
BY DEF SetLeader, TypeOK, HandlerTypeOK

(* A turn that registers nothing and draws nothing.                        *)
LEMMA OwnIdleTurn ==
    ASSUME TypeOK, StampInv, NEW n \in Node, mailbox[n] /= <<>>,
           UNCHANGED <<leader, owner>>,
           NEW own \in Seq(Own(owner)), NEW out \in [Node -> Seq(Own(owner))],
           Turn(n, own, out)
    PROVE  StampInv'
<1>1. OwnersStay /\ SetLeader(n, leader[n])
  BY KeptLeader DEF OwnersStay
<1>2. LeaderOwns(owner', n, leader[n])
  BY DEF StampInv, LeadersOwn
<1> QED  BY <1>1, <1>2, OwnTurn

(* A turn that registers whom the request names, and draws nothing.        *)
LEMMA OwnNamedTurn ==
    ASSUME TypeOK, StampInv, NEW n \in Node, mailbox[n] /= <<>>,
           UNCHANGED owner, NEW l, SetLeader(n, l), LeaderOwns(owner, n, l),
           NEW own \in Seq(Own(owner)), NEW out \in [Node -> Seq(Own(owner))],
           Turn(n, own, out)
    PROVE  StampInv'
<1>1. OwnersStay /\ LeaderOwns(owner', n, l)
  BY DEF OwnersStay
<1> QED  BY <1>1, OwnTurn

(* A turn that draws a timestamp and asks to lead with it.                 *)
LEMMA OwnDrawnTurn ==
    ASSUME TypeOK, StampInv, NEW n \in Node, mailbox[n] /= <<>>,
           NEW t \in Ts, Draw(t, n), SetLeader(n, Local(t)),
           NEW r \in {LeaderReq(n, t), LeaderSwitchDead(n, t)},
           Turn(n, <<>>, ToAll(<<r>>))
    PROVE  StampInv'
<1>1. OwnersStay /\ owner'[t] = n
  BY Drawn
<1>2. r \in Own(owner') /\ LeaderOwns(owner', n, Local(t))
  BY <1>1, OwnMade
<1>3. ToAll(<<r>>) \in [Node -> Seq(Own(owner'))] /\ <<>> \in Seq(Own(owner'))
  BY <1>2, OwnOut, OwnNothing
<1> QED  BY <1>1, <1>2, <1>3, OwnTurn

LEMMA AliveOwn ==
    ASSUME Inv, StampInv, NEW n \in Node,
           \/ AliveAwaitedLeader(n) \/ AliveRetriedLeader(n)
           \/ AliveRequestLeadership(n) \/ AliveOther(n)
    PROVE  StampInv'
<1> DEFINE m == Req(n).addr
           t == leader[n].ts
<1>1. mailbox[n] /= <<>> /\ m \in Node
  <2>1. Receives(n, "Alive")
    BY DEF AliveAwaitedLeader, AliveRetriedLeader, AliveRequestLeadership,
       AliveOther
  <2> QED  BY <2>1, Received DEF Inv, Plain
<1>2. TypeOK /\ LeaderOwns(owner, n, leader[n])
  BY DEF Inv, StampInv, LeadersOwn
<1>3. CASE AliveAwaitedLeader(n)
  <2>1. leader[n].is = "Remote" /\ leader[n].addr = m /\ leader[n] /= NoLeader
    <3>1. state[n] = LeaderTxAwait(m) /\ leader[n] /= NoLeader
      BY <1>3 DEF AliveAwaitedLeader, AwaitsTxOf
    <3>2. LeaderFits(LeaderTxAwait(m), leader[n], txLeader[n], health[n])
      BY <3>1 DEF Inv, LeaderInv
    <3> QED  BY <3>1, <3>2 DEF LeaderFits, LeaderTxAwait
  <2>2. t \in Ts /\ owner[t] = m
    BY <1>2, <2>1, OwnLeader DEF LeaderAddr
  <2>3. ToOne(m, <<LeaderReqAck(m, t)>>) \in [Node -> Seq(Own(owner))]
    BY <1>1, <2>2, OwnMade, OwnOut
  <2>4. /\ SetLeader(n, Remote(m, t)) /\ UNCHANGED owner
        /\ Turn(n, <<>>, ToOne(m, <<LeaderReqAck(m, t)>>))
    BY <1>3 DEF AliveAwaitedLeader
  <2>5. <<>> \in Seq(Own(owner)) /\ LeaderOwns(owner, n, Remote(m, t))
    BY <1>1, <2>2, OwnNothing, OwnMade
  <2> QED  BY <1>1, <1>2, <2>2, <2>3, <2>4, <2>5, OwnNamedTurn
<1>4. CASE AliveRetriedLeader(n)
  <2>1. leader[n].is = "Remote" /\ leader[n].addr = m /\ leader[n] /= NoLeader
    BY <1>4 DEF AliveRetriedLeader, RetriesFor, NoLeader
  <2>2. t \in Ts /\ owner[t] = m
    BY <1>2, <2>1, OwnLeader DEF LeaderAddr
  <2>3. ToAll(<<LeaderReqAck(m, t)>>) \in [Node -> Seq(Own(owner))]
    BY <1>1, <2>2, OwnMade, OwnOut
  <2>4. UNCHANGED <<leader, owner>> /\ Turn(n, <<>>, ToAll(<<LeaderReqAck(m, t)>>))
    BY <1>4 DEF AliveRetriedLeader
  <2> QED  BY <1>1, <1>2, <2>3, <2>4, OwnNothing, OwnIdleTurn
<1>5. CASE AliveRequestLeadership(n)
  <2>1. PICK s \in Ts :
            /\ Draw(s, n) /\ SetLeader(n, Local(s))
            /\ Turn(n, <<>>, ToAll(<<LeaderReq(n, s)>>))
    BY <1>5 DEF AliveRequestLeadership
  <2> QED  BY <1>1, <1>2, <2>1, OwnDrawnTurn
<1>6. CASE AliveOther(n)
  BY <1>1, <1>2, <1>6, OwnNothing, OwnIdleTurn DEF AliveOther
<1> QED  BY <1>3, <1>4, <1>5, <1>6

LEMMA DeadOwn ==
    ASSUME Inv, StampInv, NEW n \in Node,
           \/ DeadLeader(n) \/ DeadLeaderAgain(n)
           \/ DeadOther(n) \/ DeadQuorumLost(n)
    PROVE  StampInv'
<1>1. mailbox[n] /= <<>>
  <2>1. Receives(n, "Dead")
    BY DEF DeadLeader, DeadLeaderAgain, DeadOther, DeadQuorumLost
  <2> QED  BY <2>1, Received DEF Inv
<1>2. TypeOK
  BY DEF Inv
<1>3. CASE DeadLeader(n)
  <2>1. PICK t \in Ts :
            /\ Draw(t, n) /\ SetLeader(n, Local(t))
            /\ Turn(n, <<>>, ToAll(<<LeaderSwitchDead(n, t)>>))
    BY <1>3 DEF DeadLeader, TakeOverFromDead
  <2> QED  BY <1>1, <1>2, <2>1, OwnDrawnTurn
<1>4. CASE DeadLeaderAgain(n)
  <2>1. UNCHANGED <<leader, owner, wire, acks>> /\ Take(n, <<>>)
    BY <1>4 DEF DeadLeaderAgain, sameStreams
  <2>2. OwnersStay
    BY <2>1 DEF OwnersStay
  <2>3. MailboxesOwn'
    BY <1>1, <1>2, <2>1, <2>2, OwnNothing, OwnTake DEF StampInv
  <2> QED  BY <2>1, <2>2, <2>3, OwnStreams DEF StampInv, LeadersOwn
<1>5. CASE DeadOther(n)
  BY <1>1, <1>2, <1>5, OwnNothing, OwnIdleTurn DEF DeadOther
<1>6. CASE DeadQuorumLost(n)
  <2>1. SetLeader(n, NoLeader) /\ Turn(n, <<>>, ToNobody) /\ UNCHANGED owner
    BY <1>6 DEF DeadQuorumLost
  <2>2. OwnersStay /\ LeaderOwns(owner', n, NoLeader)
    BY <2>1 DEF OwnersStay, LeaderOwns, NoLeader
  <2> QED  BY <1>1, <1>2, <2>1, <2>2, OwnNothing, OwnTurn
<1> QED  BY <1>3, <1>4, <1>5, <1>6

(* An ack is counted by the member whose leadership it is for.             *)
LEMMA CountAckOwn ==
    ASSUME TypeOK, StampInv, NEW n \in Node, mailbox[n] /= <<>>,
           leader[n].is = "Local", NEW tx,
           NEW own \in Seq(Own(owner)), NEW out \in [Node -> Seq(Own(owner))],
           CountAck(n, tx, own, out)
    PROVE  StampInv'
<1>1. UNCHANGED <<leader, owner>>
  BY DEF CountAck
<1>2. LeaderOwns(owner, n, leader[n]) /\ leader[n] /= NoLeader
  BY DEF StampInv, LeadersOwn, NoLeader
<1>3. leader[n].ts \in Ts /\ owner[leader[n].ts] = n
  BY <1>2, OwnLeader DEF LeaderAddr
<1>4. ToAll(<<LeaderAck(n, leader[n].ts)>>) \in [Node -> Seq(Own(owner))]
  BY <1>3, OwnMade, OwnOut
<1>5. Then(out, ToAll(<<LeaderAck(n, leader[n].ts)>>)) \in [Node -> Seq(Own(owner))]
  BY <1>4, OwnThen
<1>6. \/ Turn(n, own, out)
      \/ Turn(n, own, Then(out, ToAll(<<LeaderAck(n, leader[n].ts)>>)))
  BY DEF CountAck
<1> QED  BY <1>1, <1>5, <1>6, OwnIdleTurn

LEMMA ElectionOwn ==
    ASSUME Inv, StampInv, NEW n \in Node, Election(n)
    PROVE  StampInv'
<1> DEFINE a == Req(n).addr
           t == Req(n).ts
<1>1. \E kind \in Timed : Receives(n, kind)
  BY DEF Election, LeaderInfoIgnored, LeaderInfoNoTx, LeaderInfoFollow,
     LeaderReqConflict, LeaderReqAccepted, LeaderReqTooEarly, LeaderReqAckNews,
     LeaderReqAckCounted, LeaderReqAckOther, LeaderAcked, Timed
<1>2. mailbox[n] /= <<>> /\ a \in Node /\ t \in Ts /\ owner[t] = a
  BY <1>1, ReceivedOwn DEF Inv
<1>3. TypeOK /\ LeaderOwns(owner, n, leader[n])
  BY DEF Inv, StampInv, LeadersOwn
<1>4. /\ ConflictOwn(n, a, t) \in Seq(Own(owner))
      /\ ConflictOut(n, a, t) \in [Node -> Seq(Own(owner))]
  BY <1>2, <1>3, OwnConflict
<1>5. /\ LeaderOwns(owner, n, Remote(a, t))
      /\ LeaderReqAck(a, t) \in Own(owner)
      /\ <<>> \in Seq(Own(owner)) /\ ToNobody \in [Node -> Seq(Own(owner))]
  BY <1>2, OwnMade, OwnNothing
<1>6. /\ ToAll(<<LeaderReqAck(a, t)>>) \in [Node -> Seq(Own(owner))]
      /\ ToOne(a, <<LeaderReqAck(a, t)>>) \in [Node -> Seq(Own(owner))]
  BY <1>2, <1>5, OwnOut
<1>7. Then(ConflictOut(n, a, t), ToOne(a, <<LeaderReqAck(a, t)>>))
          \in [Node -> Seq(Own(owner))]
  BY <1>4, <1>6, OwnThen
<1>8. CASE LeaderInfoIgnored(n) \/ LeaderReqConflict(n) \/ LeaderReqAckOther(n)
  <2>1. /\ UNCHANGED <<leader, owner>>
        /\ Turn(n, ConflictOwn(n, a, t), ConflictOut(n, a, t))
    BY <1>8 DEF LeaderInfoIgnored, LeaderReqConflict, LeaderReqAckOther, handlerVars
  <2> QED  BY <1>2, <1>3, <1>4, <2>1, OwnIdleTurn
<1>9. CASE LeaderInfoNoTx(n)
  <2>1. /\ UNCHANGED owner /\ SetLeader(n, Remote(a, t))
        /\ Turn(n, ConflictOwn(n, a, t), ConflictOut(n, a, t))
    BY <1>9 DEF LeaderInfoNoTx
  <2> QED  BY <1>2, <1>3, <1>4, <1>5, <2>1, OwnNamedTurn
<1>10. CASE LeaderInfoFollow(n)
  <2>1. /\ UNCHANGED owner /\ SetLeader(n, Remote(a, t))
        /\ Turn(n, ConflictOwn(n, a, t),
                   Then(ConflictOut(n, a, t), ToOne(a, <<LeaderReqAck(a, t)>>)))
    BY <1>10 DEF LeaderInfoFollow
  <2> QED  BY <1>2, <1>3, <1>4, <1>5, <1>7, <2>1, OwnNamedTurn
<1>11. CASE LeaderReqAccepted(n)
  <2>1. /\ UNCHANGED <<wire, owner>> /\ SetLeader(n, Remote(a, t))
        /\ Take(n, <<>>)
        /\ \/ UNCHANGED acks
           \/ acks' = [acks EXCEPT ![a][n] = Append(@, LeaderReqAck(a, t))]
    BY <1>3, <1>11 DEF LeaderReqAccepted, TypeOK, StreamsTypeOK
  <2>2. OwnersStay /\ LeaderOwns(owner', n, Remote(a, t))
    BY <1>5, <2>1 DEF OwnersStay
  <2>3. MailboxesOwn'
    BY <1>2, <1>3, <1>5, <2>1, <2>2, OwnTake DEF StampInv
  <2>4. WiresOwn' /\ LeadersOwn'
    BY <1>3, <2>1, <2>2, OwnStreams, OwnRegistered DEF StampInv
  <2>5. acks \in [Node -> [Node -> Seq(Own(owner))]]
    BY DEF StampInv, AcksOwn
  <2>6. Append(acks[a][n], LeaderReqAck(a, t)) \in Seq(Own(owner))
    BY <1>2, <1>5, <2>5, AppendProperties
  <2>7. \/ acks' = acks
        \/ acks' = [acks EXCEPT ![a][n] = Append(acks[a][n], LeaderReqAck(a, t))]
    BY <2>1
  <2>8. AcksOwn'
    BY <1>2, <2>1, <2>2, <2>6, <2>7, OwnAnswer, OwnStreams DEF StampInv
  <2> QED  BY <2>3, <2>4, <2>8 DEF StampInv
<1>12. CASE LeaderReqTooEarly(n)
  <2>1. /\ UNCHANGED owner /\ SetLeader(n, Remote(a, t))
        /\ Turn(n, <<>>, ToNobody)
    BY <1>12 DEF LeaderReqTooEarly
  <2> QED  BY <1>2, <1>3, <1>5, <2>1, OwnNamedTurn
<1>13. CASE LeaderReqAckNews(n)
  <2>1. /\ UNCHANGED owner /\ SetLeader(n, Remote(a, t))
        /\ Turn(n, <<>>, ToAll(<<LeaderReqAck(a, t)>>))
    BY <1>13 DEF LeaderReqAckNews
  <2> QED  BY <1>2, <1>3, <1>5, <1>6, <2>1, OwnNamedTurn
<1>14. CASE LeaderReqAckCounted(n)
  <2>1. /\ leader[n].is = "Local" /\ a = n
        /\ CountAck(n, None, ConflictOwn(n, n, t), ConflictOut(n, n, t))
    BY <1>14 DEF LeaderReqAckCounted, AckForMe
  <2>2. /\ ConflictOwn(n, n, t) \in Seq(Own(owner))
        /\ ConflictOut(n, n, t) \in [Node -> Seq(Own(owner))]
    BY <1>4, <2>1
  <2> QED  BY <1>2, <1>3, <2>1, <2>2, CountAckOwn
<1>15. CASE LeaderAcked(n)
  <2>1. /\ UNCHANGED owner /\ SetLeader(n, Remote(a, t))
        /\ Turn(n, <<>>, ToNobody)
    BY <1>15 DEF LeaderAcked
  <2> QED  BY <1>2, <1>3, <1>5, <2>1, OwnNamedTurn
<1> QED
  BY <1>8, <1>9, <1>10, <1>11, <1>12, <1>13, <1>14, <1>15 DEF Election

LEMMA SwitchingOwn ==
    ASSUME Inv, StampInv, NEW n \in Node, Switching(n)
    PROVE  StampInv'
<1> DEFINE a == Req(n).addr
           t == Req(n).ts
<1>1. TypeOK /\ <<>> \in Seq(Own(owner)) /\ ToNobody \in [Node -> Seq(Own(owner))]
  BY OwnNothing DEF Inv
<1>2. CASE LeaderSwitchAckCounted(n)
  <2>1. mailbox[n] /= <<>>
    BY <1>1, <1>2, Received DEF LeaderSwitchAckCounted
  <2>2. /\ leader[n].is = "Local"
        /\ CountAck(n, txLeader[n], <<>>, ToNobody)
    BY <1>2 DEF LeaderSwitchAckCounted, AckForMe
  <2> QED  BY <1>1, <2>1, <2>2, CountAckOwn
<1>3. CASE LeaderSwitchAckOther(n) \/ PriorityIgnored(n)
  <2>1. mailbox[n] /= <<>>
    BY <1>1, <1>3, Received DEF LeaderSwitchAckOther, PriorityIgnored
  <2>2. UNCHANGED <<leader, owner>> /\ Turn(n, <<>>, ToNobody)
    BY <1>3 DEF LeaderSwitchAckOther, PriorityIgnored, handlerVars
  <2> QED  BY <1>1, <2>1, <2>2, OwnIdleTurn
<1>4. CASE \/ LeaderSwitched(n) \/ LeaderSwitchedDead(n)
           \/ PriorityForMe(n) \/ PriorityForOther(n)
  <2>1. mailbox[n] /= <<>> /\ a \in Node /\ t \in Ts /\ owner[t] = a
    <3>1. \E kind \in Timed : Receives(n, kind)
      BY <1>4 DEF LeaderSwitched, LeaderSwitchedDead, PriorityForMe,
         PriorityForOther, Timed
    <3> QED  BY <1>1, <3>1, ReceivedOwn
  <2>2. /\ LeaderOwns(owner, n, Remote(a, t))
        /\ a = n => LeaderOwns(owner, n, Local(t))
        /\ LeaderReqAck(a, t) \in Own(owner) /\ LeaderSwitchAck(a) \in Own(owner)
    BY <2>1, OwnMade, SwitchAckOwn
  <2>3. /\ ToAll(<<LeaderReqAck(a, t)>>) \in [Node -> Seq(Own(owner))]
        /\ ToAll(<<LeaderSwitchAck(a)>>) \in [Node -> Seq(Own(owner))]
    BY <2>1, <2>2, OwnOut
  <2>4. CASE LeaderSwitched(n)
    <3>1. UNCHANGED owner /\ Turn(n, <<>>, ToAll(<<LeaderSwitchAck(a)>>))
      BY <2>4 DEF LeaderSwitched
    <3>2. IF a = n THEN SetLeader(n, Local(t)) ELSE SetLeader(n, Remote(a, t))
      BY <2>4 DEF LeaderSwitched
    <3>3. CASE a = n
      BY <1>1, <2>1, <2>2, <2>3, <3>1, <3>2, <3>3, OwnNamedTurn
    <3>4. CASE a /= n
      BY <1>1, <2>1, <2>2, <2>3, <3>1, <3>2, <3>4, OwnNamedTurn
    <3> QED  BY <3>3, <3>4
  <2>5. CASE LeaderSwitchedDead(n) \/ PriorityForOther(n)
    <3>1. /\ UNCHANGED owner /\ SetLeader(n, Remote(a, t))
          /\ Turn(n, <<>>, ToAll(<<LeaderReqAck(a, t)>>))
      BY <2>5 DEF LeaderSwitchedDead, PriorityForOther
    <3> QED  BY <1>1, <2>1, <2>2, <2>3, <3>1, OwnNamedTurn
  <2>6. CASE PriorityForMe(n)
    <3>1. /\ UNCHANGED owner /\ a = n /\ SetLeader(n, Local(t))
          /\ Turn(n, <<>>, ToNobody)
      BY <2>6 DEF PriorityForMe
    <3> QED  BY <1>1, <2>1, <2>2, <3>1, OwnNamedTurn
  <2> QED  BY <1>4, <2>4, <2>5, <2>6
<1> QED  BY <1>2, <1>3, <1>4 DEF Switching

LEMMA TimeoutOwn ==
    ASSUME Inv, StampInv, NEW n \in Node, Timeout(n)
    PROVE  StampInv'
<1>1. mailbox[n] /= <<>>
  BY Received DEF Inv, Timeout, TimeoutNoLeader, TimeoutRetry, TimeoutLeaderDead,
     TimeoutRequested, TimeoutSwitchOver, TimeoutGivesUp, TimeoutOther
<1>2. /\ TypeOK /\ LeaderOwns(owner, n, leader[n])
      /\ <<>> \in Seq(Own(owner)) /\ ToNobody \in [Node -> Seq(Own(owner))]
  BY OwnNothing DEF Inv, StampInv, LeadersOwn
<1>3. CASE TimeoutNoLeader(n)
  <2>1. UNCHANGED <<leader, owner, wire, acks>> /\ Take(n, <<>>)
    BY <1>3 DEF TimeoutNoLeader, handlerVars, sameStreams
  <2>2. OwnersStay
    BY <2>1 DEF OwnersStay
  <2>3. MailboxesOwn'
    BY <1>1, <1>2, <2>1, <2>2, OwnTake DEF StampInv
  <2> QED  BY <2>1, <2>2, <2>3, OwnStreams DEF StampInv, LeadersOwn
<1>4. CASE TimeoutRetry(n)
  <2> DEFINE a == leader[n].addr
             t == leader[n].ts
  <2>1. leader[n].is = "Remote" /\ leader[n] /= NoLeader
    BY <1>4 DEF TimeoutRetry, NoLeader
  <2>2. a \in Node /\ t \in Ts /\ owner[t] = a
    BY <1>2, <2>1, OwnLeader DEF LeaderAddr
  <2>3. ToAll(<<LeaderReqAck(a, t)>>) \in [Node -> Seq(Own(owner))]
    BY <2>2, OwnMade, OwnOut
  <2>4. CASE a \in hosts[n]
    <3>1. /\ UNCHANGED <<leader, owner>>
          /\ Turn(n, <<>>, ToAll(<<LeaderReqAck(a, t)>>))
      BY <1>4, <2>4 DEF TimeoutRetry
    <3> QED  BY <1>1, <1>2, <2>3, <3>1, OwnIdleTurn
  <2>5. CASE a \notin hosts[n]
    <3>1. UNCHANGED <<leader, owner>> /\ Turn(n, <<>>, ToNobody)
      BY <1>4, <2>5 DEF TimeoutRetry
    <3> QED  BY <1>1, <1>2, <3>1, OwnIdleTurn
  <2> QED  BY <2>4, <2>5
<1>5. CASE TimeoutLeaderDead(n)
  <2>1. PICK t \in Ts :
            /\ Draw(t, n) /\ SetLeader(n, Local(t))
            /\ Turn(n, <<>>, ToAll(<<LeaderSwitchDead(n, t)>>))
    BY <1>5 DEF TimeoutLeaderDead, TakeOverFromDead
  <2> QED  BY <1>1, <1>2, <2>1, OwnDrawnTurn
<1>6. CASE TimeoutRequested(n)
  <2> DEFINE t == state[n].ts
  <2>1. leader[n] = Local(t)
    BY <1>6 DEF TimeoutRequested, Inv, LeaderInv, LeaderFits
  <2>2. leader[n] /= NoLeader /\ leader[n].is = "Local" /\ leader[n].ts = t
    BY <2>1 DEF Local, NoLeader
  <2>3. t \in Ts /\ owner[t] = n
    BY <1>2, <2>2, OwnLeader DEF LeaderAddr
  <2>4. ToAll(<<LeaderReq(n, t)>>) \in [Node -> Seq(Own(owner))]
    BY <2>3, OwnMade, OwnOut
  <2>5. UNCHANGED <<leader, owner>> /\ Turn(n, <<>>, ToAll(<<LeaderReq(n, t)>>))
    BY <1>6 DEF TimeoutRequested, handlerVars
  <2> QED  BY <1>1, <1>2, <2>4, <2>5, OwnIdleTurn
<1>7. CASE TimeoutSwitchOver(n)
  <2>1. PICK t \in Ts :
            /\ Draw(t, n) /\ SetLeader(n, Local(t))
            /\ Turn(n, <<>>, ToAll(<<LeaderReq(n, t)>>))
    BY <1>7 DEF TimeoutSwitchOver
  <2> QED  BY <1>1, <1>2, <2>1, OwnDrawnTurn
<1>8. CASE TimeoutGivesUp(n)
  <2>1. SetLeader(n, NoLeader) /\ UNCHANGED owner /\ Turn(n, <<>>, ToNobody)
    BY <1>8 DEF TimeoutGivesUp
  <2>2. LeaderOwns(owner, n, NoLeader)
    BY DEF LeaderOwns, NoLeader
  <2> QED  BY <1>1, <1>2, <2>1, <2>2, OwnNamedTurn
<1>9. CASE TimeoutOther(n)
  <2>1. UNCHANGED <<leader, owner>> /\ Turn(n, <<>>, ToNobody)
    BY <1>9 DEF TimeoutOther, handlerVars
  <2> QED  BY <1>1, <1>2, <2>1, OwnIdleTurn
<1> QED  BY <1>3, <1>4, <1>5, <1>6, <1>7, <1>8, <1>9 DEF Timeout

LEMMA HandlerStepOwn ==
    ASSUME Inv, StampInv, NEW n \in Node, HandlerStep(n)
    PROVE  StampInv'
<1>1. CASE UpdateServer(n)
  BY <1>1, AliveOwn, DeadOwn DEF UpdateServer
<1> QED  BY <1>1, ElectionOwn, SwitchingOwn, TimeoutOwn DEF HandlerStep

-----------------------------------------------------------------------------
(* The streams carry what handlers sent, and lose some of it.              *)
LEMMA ReportOwn ==
    ASSUME TypeOK, StampInv, NEW m \in Node
    PROVE  Report(m) \in Seq(Own(owner))
<1>1. LeaderOwns(owner, m, leader[m])
  BY DEF StampInv, LeadersOwn
<1>2. leader[m] /= NoLeader =>
          LeaderInfo(LeaderAddr(m), leader[m].ts, health[m] /= "Bad") \in Own(owner)
  BY <1>1, OwnLeader, OwnMade
<1> QED  BY <1>2, EmptySeq DEF Report

LEMMA NewsOwn ==
    ASSUME NEW n \in Node, NEW o
    PROVE  /\ \A m \in Node \ {n} : {Alive(m), Dead(m)} \subseteq OwnRequest(o, n)
           /\ {CheckElectionTimeout, HostShutdown} \subseteq OwnRequest(o, n)
BY RequestMade DEF OwnRequest, NamesOwner, Alive, Dead, CheckElectionTimeout,
   HostShutdown, Timed

LEMMA TransportOwn ==
    ASSUME Inv, StampInv, NEW n \in Node, NEW m \in Node,
           Transport(n, m) \/ Failure(n, m)
    PROVE  StampInv'
<1>1. TypeOK /\ UNCHANGED <<leader, owner>>
  BY DEF Inv, Transport, Failure, handlerVars
<1>2. OwnersStay /\ LeadersOwn'
  BY <1>1 DEF OwnersStay, StampInv, LeadersOwn
<1>3. /\ wire \in [Node -> [Node -> Seq(Own(owner))]]
      /\ acks \in [Node -> [Node -> Seq(Own(owner))]]
      /\ MailboxesOwn /\ \A a \in Node : link[a][a] = "down"
  BY DEF StampInv, WiresOwn, AcksOwn, Inv, TypeOK, StreamsTypeOK
<1>4. UNCHANGED mailbox => MailboxesOwn'
  BY <1>1, <1>3 DEF MailboxesOwn
<1>5. wire' \in [Node -> [Node -> Seq(Own(owner))]] => WiresOwn'
  BY <1>1 DEF WiresOwn
<1>6. acks' \in [Node -> [Node -> Seq(Own(owner))]] => AcksOwn'
  BY <1>1 DEF AcksOwn
<1>7. CASE Connect(n, m)
  <2>1. UNCHANGED <<wire, acks>> /\ n /= m /\ Enqueue(n, Alive(m))
    BY <1>7 DEF Connect
  <2>2. Alive(m) \in OwnRequest(owner, n)
    BY <2>1, NewsOwn
  <2>3. MailboxesOwn'
    BY <1>1, <1>3, <2>1, <2>2, OwnEnqueue
  <2> QED  BY <1>2, <1>3, <1>5, <1>6, <2>1, <2>3 DEF StampInv
<1>8. CASE OpenStream(n, m, Report(m))
  <2>1. /\ UNCHANGED <<wire, mailbox>>
        /\ acks' = [acks EXCEPT ![n][m] = Report(m)]
    BY <1>8 DEF OpenStream
  <2>2. Report(m) \in Seq(Own(owner))
    BY <1>1, ReportOwn
  <2> QED  BY <1>2, <1>3, <1>4, <1>5, <1>6, <2>1, <2>2 DEF StampInv
<1>9. CASE OpenFails(n, m) \/ LoseRest(n, m)
  <2>1. UNCHANGED <<acks, mailbox>> /\ wire' = [wire EXCEPT ![n][m] = <<>>]
    BY <1>9 DEF OpenFails, LoseRest
  <2> QED
    BY <1>2, <1>3, <1>4, <1>5, <1>6, <2>1, EmptySeq DEF StampInv
<1>10. CASE LeakedForwarderTakes(n, m)
  <2> DEFINE left == SubSeq(wire[n][m], 1, Len(wire[n][m]) - 1)
  <2>1. UNCHANGED <<acks, mailbox>> /\ wire[n][m] /= <<>>
        /\ wire' = [wire EXCEPT ![n][m] = left]
    BY <1>10 DEF LeakedForwarderTakes
  <2>2. wire[n][m] \in Seq(Own(owner))
    BY <1>3
  <2>3. Len(wire[n][m]) \in Nat \ {0}
    BY <2>1, <2>2, EmptySeq
  <2>4. left \in Seq(Own(owner))
    BY <2>2, <2>3, SubSeqProperties
  <2> HIDE DEF left
  <2> QED  BY <1>2, <1>3, <1>4, <1>5, <1>6, <2>1, <2>4 DEF StampInv
<1>11. CASE Break(n, m)
  <2>1. /\ UNCHANGED wire /\ acks' = [acks EXCEPT ![n][m] = <<>>]
        /\ n /= m /\ Enqueue(n, Dead(m))
    BY <1>3, <1>11 DEF Break
  <2>2. Dead(m) \in OwnRequest(owner, n)
    BY <2>1, NewsOwn
  <2>3. MailboxesOwn'
    BY <1>1, <1>3, <2>1, <2>2, OwnEnqueue
  <2> QED  BY <1>2, <1>3, <1>5, <1>6, <2>1, <2>3, EmptySeq DEF StampInv
<1>12. CASE DeliverRequest(n, m)
  <2>1. /\ UNCHANGED acks /\ wire[n][m] /= <<>>
        /\ wire' = [wire EXCEPT ![n][m] = Tail(@)]
        /\ Enqueue(m, Head(wire[n][m]))
    BY <1>12 DEF DeliverRequest
  <2>2. /\ Head(wire[n][m]) \in Own(owner)
        /\ Tail(wire[n][m]) \in Seq(Own(owner))
    BY <1>3, <2>1, HeadTailProperties
  <2>3. MailboxesOwn'
    BY <1>1, <1>3, <2>1, <2>2, OwnIsRequest, OwnEnqueue
  <2> QED  BY <1>2, <1>3, <1>5, <1>6, <2>1, <2>2, <2>3 DEF StampInv
<1>13. CASE DeliverAck(n, m)
  <2>1. /\ UNCHANGED wire /\ acks[n][m] /= <<>>
        /\ acks' = [acks EXCEPT ![n][m] = Tail(@)]
        /\ Enqueue(n, Head(acks[n][m]))
    BY <1>13 DEF DeliverAck
  <2>2. /\ Head(acks[n][m]) \in Own(owner)
        /\ Tail(acks[n][m]) \in Seq(Own(owner))
    BY <1>3, <2>1, HeadTailProperties
  <2>3. MailboxesOwn'
    BY <1>1, <1>3, <2>1, <2>2, OwnIsRequest, OwnEnqueue
  <2> QED  BY <1>2, <1>3, <1>5, <1>6, <2>1, <2>2, <2>3 DEF StampInv
<1> QED
  BY <1>7, <1>8, <1>9, <1>10, <1>11, <1>12, <1>13 DEF Transport, Failure

(* A process that ends has no leader, and of what it sent some is lost.    *)
LEMMA ForgetOwn ==
    ASSUME TypeOK, StampInv, OwnersStay, NEW n \in Node, Forget(n), Disconnect(n)
    PROVE  AcksOwn' /\ MailboxesOwn' /\ LeadersOwn'
<1>1. acks \in [Node -> [Node -> Seq(Own(owner'))]]
  BY StillOwn DEF StampInv, AcksOwn
<1>2. AcksOwn'
  BY <1>1, EmptySeq DEF Disconnect, AcksWithout, AcksOwn
<1>3. MailboxesOwn'
  BY EmptySeq, OwnMailbox DEF Forget, StampInv
<1>4. SetLeader(n, NoLeader) /\ LeaderOwns(owner', n, NoLeader)
  BY DEF Forget, SetLeader, LeaderOwns, NoLeader
<1>5. LeadersOwn'
  BY <1>4, OwnRegistered DEF StampInv
<1> QED  BY <1>2, <1>3, <1>5

LEMMA WiresWithoutOwn ==
    ASSUME WiresOwn, OwnersStay, NEW n \in Node
    PROVE  WiresWithout(n) \in [Node -> [Node -> Seq(Own(owner'))]]
<1>1. wire \in [Node -> [Node -> Seq(Own(owner'))]]
  BY StillOwn DEF WiresOwn
<1> QED  BY <1>1, EmptySeq DEF WiresWithout

LEMMA ShutdownOutOwn ==
    ASSUME WiresOwn, OwnersStay, NEW n \in Node,
           NEW out \in [Node -> Seq(Own(owner'))], ShutdownOut(n, out)
    PROVE  WiresOwn'
<1> DEFINE left == WiresWithout(n)
<1>1. left \in [Node -> [Node -> Seq(Own(owner'))]]
  BY WiresWithoutOwn
<1>2. \A m \in Node : left[n][m] \o out[m] \in Seq(Own(owner'))
  BY <1>1, ConcatProperties
<1>3. wire' = [left EXCEPT ![n] =
          [m \in Node |-> IF link[n][m] = "open" THEN @[m] \o out[m] ELSE @[m]]]
  BY DEF ShutdownOut
<1> HIDE DEF left
<1> QED  BY <1>1, <1>2, <1>3 DEF WiresOwn

(* A leader that hands over draws a timestamp for its successor.           *)
LEMMA ProcessOwn ==
    ASSUME Inv, StampInv, NEW n \in Node, ProcessStep(n)
    PROVE  StampInv'
<1>1. TypeOK
  BY DEF Inv
<1>2. CASE RequestShutdown(n)
  <2>1. /\ UNCHANGED <<wire, acks, leader, owner>>
        /\ Enqueue(n, HostShutdown)
    BY <1>2 DEF RequestShutdown, handlerVars
  <2>2. HostShutdown \in OwnRequest(owner, n)
    BY NewsOwn
  <2>3. MailboxesOwn' /\ OwnersStay
    BY <1>1, <2>1, <2>2, OwnEnqueue DEF StampInv, OwnersStay
  <2> QED  BY <2>1, <2>3, OwnStreams DEF StampInv, LeadersOwn
<1>3. CASE HandOver(n)
  <2>1. PICK a \in hosts[n], t \in Ts :
            Draw(t, a) /\ ShutdownOut(n, ToAll(<<LeaderSwitch(a, t)>>))
    BY <1>3 DEF HandOver
  <2>2. a \in Node
    BY <1>1, <2>1 DEF TypeOK, HandlerTypeOK
  <2>3. OwnersStay /\ owner'[t] = a
    BY <1>1, <2>1, <2>2, Drawn
  <2>4. ToAll(<<LeaderSwitch(a, t)>>) \in [Node -> Seq(Own(owner'))]
    BY <2>2, <2>3, OwnMade, OwnOut
  <2>5. WiresOwn'
    BY <2>1, <2>3, <2>4, ShutdownOutOwn DEF StampInv
  <2> QED  BY <1>1, <1>3, <2>3, <2>5, ForgetOwn DEF HandOver, StampInv
<1>4. CASE ShutDown(n)
  <2>1. OwnersStay /\ ShutdownOut(n, ToNobody)
    BY <1>4 DEF ShutDown, OwnersStay
  <2>2. WiresOwn'
    BY <2>1, OwnNothing, ShutdownOutOwn DEF StampInv
  <2> QED  BY <1>1, <1>4, <2>1, <2>2, ForgetOwn DEF ShutDown, StampInv
<1>5. CASE Crash(n)
  <2>1. OwnersStay /\ wire' = WiresWithout(n)
    BY <1>5 DEF Crash, OwnersStay
  <2>2. WiresOwn'
    BY <2>1, WiresWithoutOwn DEF StampInv, WiresOwn
  <2> QED  BY <1>1, <1>5, <2>1, <2>2, ForgetOwn DEF Crash, StampInv
<1>6. CASE Restart(n)
  <2>1. UNCHANGED <<wire, acks, mailbox, leader, owner>>
    BY <1>6 DEF Restart, handlerVars
  <2> QED
    BY <2>1 DEF StampInv, WiresOwn, AcksOwn, MailboxesOwn, LeadersOwn
<1> QED  BY <1>2, <1>3, <1>4, <1>5, <1>6 DEF ProcessStep

LEMMA TaskOwn ==
    ASSUME Inv, StampInv, NEW n \in Node,
           HandlerPanics(n) \/ TimerFires(n) \/ CacheReset(n)
    PROVE  StampInv'
<1>1. TypeOK /\ UNCHANGED <<wire, acks, leader, owner>>
  BY DEF Inv, HandlerPanics, TimerFires, CacheReset, handlerVars, streamVars
<1>2. OwnersStay /\ WiresOwn' /\ AcksOwn' /\ LeadersOwn'
  BY <1>1 DEF OwnersStay, StampInv, WiresOwn, AcksOwn, LeadersOwn
<1>3. CASE HandlerPanics(n)
  <2>1. mailbox[n] /= <<>> /\ Take(n, <<>>)
    BY <1>1, <1>3, Received DEF HandlerPanics, SwitchAckPanics, OtherPanics
  <2>2. MailboxesOwn'
    BY <1>1, <1>2, <2>1, OwnNothing, OwnTake DEF StampInv
  <2> QED  BY <1>2, <2>2 DEF StampInv
<1>4. CASE TimerFires(n)
  <2>1. Enqueue(n, CheckElectionTimeout)
    BY <1>4 DEF TimerFires
  <2>2. MailboxesOwn'
    BY <1>1, <2>1, NewsOwn, OwnEnqueue DEF StampInv
  <2> QED  BY <1>2, <2>2 DEF StampInv
<1>5. CASE CacheReset(n)
  <2>1. MailboxesOwn'
    BY <1>1, <1>5 DEF CacheReset, streamVars, StampInv, MailboxesOwn
  <2> QED  BY <1>2, <2>1 DEF StampInv
<1> QED  BY <1>3, <1>4, <1>5

-----------------------------------------------------------------------------
LEMMA StampInit == Init => StampInv
<1> SUFFICES ASSUME Init PROVE StampInv
  OBVIOUS
<1>1. WiresOwn /\ AcksOwn /\ MailboxesOwn
  BY EmptySeq DEF Init, StreamsInit, WiresOwn, AcksOwn, MailboxesOwn
<1>2. LeadersOwn
  BY DEF Init, HandlerInit, LeadersOwn, LeaderOwns, NoLeader
<1> QED  BY <1>1, <1>2 DEF StampInv

LEMMA StampStep == Inv /\ StampInv /\ [Next]_vars => StampInv'
<1> SUFFICES ASSUME Inv, StampInv, [Next]_vars PROVE StampInv'
  OBVIOUS
<1>1. ASSUME NEW n \in Node, NEW m \in Node, Transport(n, m) \/ Failure(n, m)
      PROVE  StampInv'
  BY <1>1, TransportOwn
<1>2. ASSUME NEW n \in Node,
             \/ HandlerStep(n) \/ HandlerPanics(n)
             \/ TimerFires(n) \/ CacheReset(n) \/ ProcessStep(n)
      PROVE  StampInv'
  BY <1>2, HandlerStepOwn, TaskOwn, ProcessOwn
<1>3. ASSUME UNCHANGED vars
      PROVE  StampInv'
  BY <1>3 DEF vars, streamVars, handlerVars, StampInv, WiresOwn, AcksOwn,
     MailboxesOwn, LeadersOwn
<1> QED  BY <1>1, <1>2, <1>3 DEF Next

(* Whatever breaks, stops and comes late, no message pairs the address of  *)
(* one member with the timestamp of another: the timestamp a member has    *)
(* registered was drawn by, or for, the leader it has registered.          *)
THEOREM TimestampsCorrect == Spec => []TimestampNamesLeader
<1>1. StampInv => TimestampNamesLeader
  BY DEF StampInv, LeadersOwn, LeaderOwns, TimestampNamesLeader
<1> QED  BY <1>1, StampInit, StampStep, InvHolds, PTL DEF Spec

=============================================================================
