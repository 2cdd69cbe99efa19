------------------------------- MODULE CacheLives -------------------------------
(***************************************************************************)
(* How a call of CacheOps, its run and its requests go on from their       *)
(* beginning to their end, for every set of members and of calls, every    *)
(* bound and every offer: a write is given to its leader once, its run     *)
(* begins with that and is never begun again, nobody carries it out        *)
(* before, and what has been published lets every run await an ack.        *)
(***************************************************************************)
EXTENDS CacheTypes

(* What a queue, a stream or a receiver has, and that it has it once.      *)
Holds(s, rs) == \E i \in DOMAIN s : s[i] \in rs
Once(s, rs)  == \A i, j \in DOMAIN s : s[i] \in rs /\ s[j] \in rs => i = j

(* What becomes of a sequence that is given nothing of rs.                 *)
Quieter(s, t, rs) ==
    /\ Holds(t, rs) => Holds(s, rs)
    /\ Once(s, rs) => Once(t, rs)

LEMMA HoldsEmpty ==
    ASSUME NEW rs
    PROVE  ~Holds(<<>>, rs) /\ Once(<<>>, rs)
BY DEF Holds, Once

LEMMA HoldsAppend ==
    ASSUME NEW S, NEW s \in Seq(S), NEW e \in S, NEW rs
    PROVE  /\ Holds(Append(s, e), rs) <=> Holds(s, rs) \/ e \in rs
           /\ Once(s, rs) /\ ~(Holds(s, rs) /\ e \in rs) => Once(Append(s, e), rs)
<1> DEFINE t == Append(s, e)
<1>1. /\ Len(t) = Len(s) + 1 /\ t[Len(s) + 1] = e
      /\ \A i \in 1 .. Len(s) : t[i] = s[i]
  BY AppendProperties
<1>2. DOMAIN s = 1 .. Len(s) /\ DOMAIN t = 1 .. Len(s) + 1 /\ Len(s) \in Nat
  BY AppendProperties, LenProperties
<1> HIDE DEF t
<1>3. Holds(t, rs) <=> Holds(s, rs) \/ e \in rs
  BY <1>1, <1>2 DEF Holds
<1>4. ASSUME Once(s, rs), ~(Holds(s, rs) /\ e \in rs)
      PROVE  Once(t, rs)
  BY <1>1, <1>2, <1>4 DEF Holds, Once
<1> QED  BY <1>3, <1>4 DEF t

LEMMA HoldsTail ==
    ASSUME NEW S, NEW s \in Seq(S), s /= <<>>, NEW rs
    PROVE  /\ Quieter(s, Tail(s), rs)
           /\ Holds(s, rs) <=> Head(s) \in rs \/ Holds(Tail(s), rs)
           /\ Once(s, rs) /\ Head(s) \in rs => ~Holds(Tail(s), rs)
<1> DEFINE t == Tail(s)
<1>1. /\ Len(t) = Len(s) - 1 /\ Head(s) = s[1] /\ Len(s) \in Nat /\ Len(s) > 0
      /\ \A i \in 1 .. Len(t) : t[i] = s[i + 1]
  BY HeadTailProperties, LenProperties, EmptySeq
<1>2. DOMAIN s = 1 .. Len(s) /\ DOMAIN t = 1 .. Len(s) - 1
  BY <1>1, HeadTailProperties, LenProperties
<1> HIDE DEF t
<1>3. /\ \A i \in DOMAIN t : i + 1 \in DOMAIN s /\ t[i] = s[i + 1]
      /\ \A i \in DOMAIN s : i = 1 \/ (i - 1 \in DOMAIN t /\ s[i] = t[i - 1])
      /\ 1 \in DOMAIN s /\ DOMAIN t \subseteq Int
  BY <1>1, <1>2
<1>4. Holds(s, rs) <=> Head(s) \in rs \/ Holds(t, rs)
  BY <1>1, <1>3 DEF Holds
<1>5. Once(s, rs) => Once(t, rs)
  BY <1>3 DEF Once
<1>6. Once(s, rs) /\ Head(s) \in rs => ~Holds(t, rs)
  BY <1>1, <1>2, <1>3 DEF Once, Holds
<1> QED  BY <1>4, <1>5, <1>6 DEF t, Quieter

LEMMA QuietSteps ==
    ASSUME NEW S, NEW s \in Seq(S), NEW rs
    PROVE  /\ Quieter(s, s, rs) /\ Quieter(s, <<>>, rs)
           /\ s /= <<>> => Quieter(s, Tail(s), rs)
           /\ \A e \in S : e \notin rs => Quieter(s, Append(s, e), rs)
BY HoldsEmpty, HoldsAppend, HoldsTail DEF Quieter

-----------------------------------------------------------------------------
(* One call, its run, and who has carried its write out.                   *)
Early == {"none", "send", "panicked"}
Idle  == {"none", "panicked"}
Late  == {"wait"} \cup Returned

Fits(cl, ru, st) ==
    /\ cl.pc = "idle" => cl.at = None /\ st = {} /\ ru = NoRun
    /\ cl.pc \in {"store", "send"} => cl.op \in {"put", "del"}
    /\ cl.pc = "run" => ru.at = cl.at
    /\ cl.pc = "push" => ru.pc = "none" /\ cl.to \in Node \ {cl.at}
    /\ ru.pc = "none" => ru = NoRun
    /\ ru.pc = "panicked" => ru.at = None /\ ru.verdict = "none"
    /\ ru.pc /= "none" => cl.op \in ModOps
    /\ ru.pc \in {"send", "store", "await"} =>
          /\ ru.verdict = "none"
          /\ ru.need > 0 => ru.left > 0
          /\ ru.need <= Need(cl.level)
    /\ ru.pc \in {"send", "store"} => ru.need = Need(cl.level)
    /\ ru.pc = "await" => ru.at \in st
    /\ cl.op \in ModOps /\ ru.pc \in Idle => st = {}

(* What no step takes back.                                                *)
Follows(cl, ru, st, cl2, ru2, st2) ==
    /\ st \subseteq st2
    /\ cl.pc /= "idle" => /\ cl2.pc /= "idle"
                          /\ cl2.op = cl.op /\ cl2.at = cl.at
                          /\ cl2.to = cl.to /\ cl2.level = cl.level
    /\ cl.pc \in Late => cl2.pc \in Late
    /\ ru.pc \notin Idle => ru2.pc \notin Idle /\ ru2.at = ru.at
    /\ ru.pc \notin Early => ru2.pc \notin Early
    /\ ru.verdict = "true" => ru2.verdict = "true"

RunFits(c) == Fits(call[c], run[c], stored[c])
RunInv     == \A c \in Call : RunFits(c)
Fate(c)    == Follows(call[c], run[c], stored[c], call'[c], run'[c], stored'[c])

(* A step of one call and its run leaves all others alone.                 *)
LEMMA OneLife ==
    ASSUME CacheOpsTypeOK, RunInv, NEW c \in Call, NEW cl, NEW ru, NEW st,
           call' = [call EXCEPT ![c] = cl],
           run' = [run EXCEPT ![c] = ru],
           stored' = [stored EXCEPT ![c] = st],
           Fits(cl, ru, st),
           Follows(call[c], run[c], stored[c], cl, ru, st)
    PROVE  /\ RunInv'
           /\ \A d \in Call : Fate(d)
<1>1. \A d \in Call : /\ call'[d] = IF d = c THEN cl ELSE call[d]
                      /\ run'[d] = IF d = c THEN ru ELSE run[d]
                      /\ stored'[d] = IF d = c THEN st ELSE stored[d]
  BY OpsTyped DEF OpsTypes
<1>2. ASSUME NEW d \in Call, d /= c
      PROVE  RunFits(d)' /\ Fate(d)
  BY <1>1, <1>2 DEF RunInv, RunFits, Fate, Follows
<1>3. RunFits(c)' /\ Fate(c)
  BY <1>1 DEF RunFits, Fate
<1> QED  BY <1>2, <1>3 DEF RunInv

LEMMA SameLives ==
    ASSUME RunInv, UNCHANGED <<call, run, stored>>
    PROVE  RunInv' /\ \A d \in Call : Fate(d)
BY DEF RunInv, RunFits, Fate, Follows

LEMMA NeedNat ==
    ASSUME NEW level
    PROVE  Need(level) \in Nat /\ Need(level) \in {0, 1, Quorum}
BY QuorumPositive DEF Need

-----------------------------------------------------------------------------
(* Steps that only a call takes.                                           *)
CallGoesOn(cl, cl2) ==
    /\ cl.pc /= "idle"
    /\ cl2.op = cl.op /\ cl2.at = cl.at /\ cl2.to = cl.to /\ cl2.level = cl.level
    /\ cl2.pc \in {"ask", "send", "gone"} \cup Late
    /\ cl2.pc = "send" => cl.op \in {"put", "del"}
    /\ cl.pc \in Late => cl2.pc \in Late

LEMMA GoesOnFits ==
    ASSUME NEW cl, NEW cl2, NEW ru, NEW st, Fits(cl, ru, st), CallGoesOn(cl, cl2)
    PROVE  Fits(cl2, ru, st) /\ Follows(cl, ru, st, cl2, ru, st)
BY DEF Fits, Follows, CallGoesOn, Late, Returned

LEMMA CallLives ==
    ASSUME CacheOpsTypeOK, RunInv, NEW c \in Call, NEW cl \in CallRecord,
           call' = [call EXCEPT ![c] = cl], UNCHANGED <<run, stored>>,
           CallGoesOn(call[c], cl)
    PROVE  RunInv' /\ \A d \in Call : Fate(d)
<1>1. /\ run' = [run EXCEPT ![c] = run[c]]
      /\ stored' = [stored EXCEPT ![c] = stored[c]]
  BY OpsTyped DEF OpsTypes
<1>2. Fits(cl, run[c], stored[c])
      /\ Follows(call[c], run[c], stored[c], cl, run[c], stored[c])
  BY GoesOnFits DEF RunInv, RunFits
<1> QED  BY <1>1, <1>2, OneLife

LEMMA GoesLives ==
    ASSUME CacheOpsTypeOK, RunInv, NEW c \in Call, UNCHANGED <<run, stored>>,
           NEW pc \in {"send", "wait", "ok", "error"}, Goes(c, pc),
           Pc(c) /= "idle",
           pc = "send" => call[c].op \in {"put", "del"},
           Pc(c) \in Late => pc \in Late
    PROVE  RunInv' /\ \A d \in Call : Fate(d)
<1> DEFINE cl == [call[c] EXCEPT !.pc = pc]
<1>1. call[c] \in CallRecord
  BY OpsTyped DEF OpsTypes
<1>2. cl \in CallRecord
  BY <1>1, CallFields
<1>3. CallGoesOn(call[c], cl)
  BY <1>1 DEF CallGoesOn, CallRecord, Pc, Late, Returned
<1>4. call' = [call EXCEPT ![c] = cl]
  BY OpsTyped DEF OpsTypes, Goes
<1> HIDE DEF cl
<1> QED  BY <1>2, <1>3, <1>4, CallLives

LEMMA LookLives ==
    ASSUME TypeInv, RunInv, NEW c \in Call, Look(c) \/ TakeAnswer(c)
    PROVE  RunInv' /\ \A d \in Call : Fate(d)
<1>1. CacheOpsTypeOK /\ call \in [Call -> CallRecord] /\ UNCHANGED <<run, stored>>
  BY TypeParts, OpsTyped DEF OpsTypes, Look, TakeAnswer, historyVars
<1>2. PICK cl : /\ call' = [call EXCEPT ![c] = cl]
                /\ CallGoesOn(call[c], cl)
  <2>1. call[c] \in CallRecord
    BY <1>1
  <2>2. CASE Look(c)
    <3> DEFINE v == cache[At(c)]
    <3>1. PICK pc \in {"ask", "ok"} :
              call' = [call EXCEPT ![c].found = v, ![c].pc = pc]
      BY <2>2 DEF Look
    <3> DEFINE cl == [call[c] EXCEPT !.found = v, !.pc = pc]
    <3>2. CallGoesOn(call[c], cl)
      BY <2>1, <2>2 DEF CallGoesOn, CallRecord, Look, Pc, Late, Returned
    <3>3. call' = [call EXCEPT ![c] = cl]
      BY <1>1, <3>1
    <3> QED  BY <3>2, <3>3
  <2>3. CASE TakeAnswer(c)
    <3>1. PICK v : \/ call' = [call EXCEPT ![c].pc = "ok", ![c].found = v]
                   \/ call' = [call EXCEPT ![c].left = @ - 1]
      BY <2>3 DEF TakeAnswer
    <3> DEFINE cl == [call[c] EXCEPT !.pc = "ok", !.found = v]
               ca == [call[c] EXCEPT !.left = call[c].left - 1]
    <3>2. CallGoesOn(call[c], cl) /\ CallGoesOn(call[c], ca)
      BY <2>1, <2>3 DEF CallGoesOn, CallRecord, TakeAnswer, Pc, Late, Returned
    <3>3. call' = [call EXCEPT ![c] = cl] \/ call' = [call EXCEPT ![c] = ca]
      BY <1>1, <3>1
    <3> QED  BY <3>2, <3>3
  <2> QED  BY <2>2, <2>3
<1>3. cl \in CallRecord
  <2>1. call' \in [Call -> CallRecord]
    BY TypeParts, LookTypes, TakeAnswerTypes, OpsTyped DEF OpsTypes
  <2> QED  BY <1>1, <1>2, <2>1
<1> QED  BY <1>1, <1>2, <1>3, CallLives

LEMMA WaitLives ==
    ASSUME TypeInv, RunInv, NEW c \in Call,
           \/ SendAll(c) \/ Ask(c) \/ Push(c) \/ TakeVerdict(c) \/ CallFails(c)
    PROVE  RunInv' /\ \A d \in Call : Fate(d)
<1>1. CacheOpsTypeOK /\ UNCHANGED <<run, stored>>
  BY TypeParts DEF SendAll, Ask, Push, TakeVerdict, CallFails, historyVars
<1>2. PICK pc \in {"wait", "ok", "error"} : Goes(c, pc) /\ Pc(c) /= "idle"
  BY DEF SendAll, Ask, Push, TakeVerdict, CallFails
<1>3. pc /= "send" /\ pc \in Late
  BY <1>2 DEF Late, Returned
<1> QED  BY <1>1, <1>2, <1>3, GoesLives

(* cache_put and cache_del keep no run, and whom they store it at is not   *)
(* counted for one.                                                        *)
LEMMA StoreHereLives ==
    ASSUME TypeInv, RunInv, NEW c \in Call, StoreHere(c)
    PROVE  RunInv' /\ \A d \in Call : Fate(d)
<1>0. CacheOpsTypeOK
  BY TypeParts
<1>1. call \in [Call -> CallRecord] /\ run \in [Call -> RunRecord]
      /\ stored \in [Call -> SUBSET Node]
  BY <1>0, OpsTyped DEF OpsTypes
<1>2. PICK pc \in {"ok", "send"} : Goes(c, pc)
  BY DEF StoreHere
<1> DEFINE cl == [call[c] EXCEPT !.pc = pc]
           st == stored[c] \cup {At(c)}
<1>3. /\ call' = [call EXCEPT ![c] = cl]
      /\ run' = [run EXCEPT ![c] = run[c]]
      /\ stored' = [stored EXCEPT ![c] = st]
  BY <1>1, <1>2 DEF StoreHere, Carry, Goes
<1>4. /\ cl.pc = pc /\ cl.op = call[c].op /\ cl.at = call[c].at
      /\ cl.to = call[c].to /\ cl.level = call[c].level /\ call[c].pc = "store"
  BY <1>1 DEF CallRecord, StoreHere, Pc
<1>5. Fits(call[c], run[c], stored[c])
  BY DEF RunInv, RunFits
<1> HIDE DEF cl
<1>6. Fits(cl, run[c], st)
  BY <1>4, <1>5 DEF Fits, ModOps
<1>7. Follows(call[c], run[c], stored[c], cl, run[c], st)
  BY <1>4 DEF Follows, Late, Returned
<1> QED  BY <1>0, <1>3, <1>6, <1>7, OneLife

LEMMA BeginLives ==
    ASSUME TypeInv, ViewInv, RunInv, NEW c \in Call, BeginCall(c)
    PROVE  RunInv' /\ \A d \in Call : Fate(d)
<1>0. MembershipTypeOK /\ CacheOpsTypeOK
  BY TypeParts
<1>1. call \in [Call -> CallRecord] /\ run \in [Call -> RunRecord]
      /\ stored \in [Call -> SUBSET Node] /\ call[c].pc = "idle"
  BY <1>0, OpsTyped DEF OpsTypes, BeginCall, Pc
<1>2. PICK o \in Offer[c] : LET v  == view[o.at]
                                pc == BeginsWith(o, v)
                            IN  /\ Begin(c, o, pc, v.hosts)
                                /\ IF pc = "run"
                                   THEN StartRun(c, o.at, o.level, v.hosts)
                                   ELSE UNCHANGED run
  BY DEF BeginCall
<1> DEFINE v  == view[o.at]
           pc == BeginsWith(o, v)
           cl == [pc |-> pc, op |-> o.op, at |-> o.at, level |-> o.level,
                  to |-> v.to, left |-> v.hosts, found |-> None]
           rr == [pc |-> "send", at |-> o.at, need |-> Need(o.level),
                  left |-> v.hosts, verdict |-> "none"]
           ru == IF pc = "run" THEN rr ELSE run[c]
<1>3. o \in [op : Operation, at : Node, level : AckLevel]
  BY OfferAssumption
<1>4. /\ call' = [call EXCEPT ![c] = cl]
      /\ run' = [run EXCEPT ![c] = ru]
      /\ stored' = [stored EXCEPT ![c] = stored[c]]
  <2>1. call' = [call EXCEPT ![c] = cl]
    BY <1>2 DEF Begin
  <2>2. run' = [run EXCEPT ![c] = ru]
    BY <1>1, <1>2 DEF StartRun
  <2> QED  BY <1>1, <2>1, <2>2 DEF BeginCall, historyVars
<1>5. v \in View /\ Usable(v) /\ v.to /= o.at
  BY <1>0, <1>3 DEF MembershipTypeOK, ViewInv
<1>6. /\ pc \in {"look", "store", "error", "run", "push"}
      /\ pc = "store" => o.op \in {"put", "del"}
      /\ pc \in {"run", "push"} => o.op \in ModOps /\ v.quorum
      /\ pc = "push" => v.role = "Follower"
  BY <1>3 DEF BeginsWith, GetBegins, PutBegins, WriteBegins, Operation, ModOps
<1>7. pc = "push" => v.to \in Node \ {o.at}
  BY <1>5, <1>6 DEF Usable, View
<1>8. pc = "run" => rr.left > 0
  BY <1>5, <1>6, QuorumPositive DEF Usable, View
<1>9. run[c] = NoRun /\ stored[c] = {}
  BY <1>1 DEF RunInv, RunFits, Fits
<1> HIDE DEF v, pc
<1>10. Fits(cl, ru, stored[c])
  <2>1. CASE pc = "run"
    BY <1>6, <1>8, <1>9, <2>1, NeedNat DEF Fits, Idle
  <2>2. CASE pc /= "run"
    BY <1>6, <1>7, <1>9, <2>2 DEF Fits, NoRun, Idle
  <2> QED  BY <2>1, <2>2
<1>11. Follows(call[c], run[c], stored[c], cl, ru, stored[c])
  BY <1>1, <1>9 DEF Follows, NoRun, Idle, Early, Late, Returned
<1> HIDE DEF cl, ru
<1> QED  BY <1>0, <1>4, <1>10, <1>11, OneLife

-----------------------------------------------------------------------------
(* Steps that a run takes.                                                 *)
LEMMA RunLives ==
    ASSUME CacheOpsTypeOK, RunInv, NEW c \in Call, NEW ru, UNCHANGED <<call, stored>>,
           run' = [run EXCEPT ![c] = ru],
           Fits(call[c], ru, stored[c]),
           Follows(call[c], run[c], stored[c], call[c], ru, stored[c])
    PROVE  RunInv' /\ \A d \in Call : Fate(d)
<1>1. /\ call' = [call EXCEPT ![c] = call[c]]
      /\ stored' = [stored EXCEPT ![c] = stored[c]]
  BY OpsTyped DEF OpsTypes
<1> QED  BY <1>1, OneLife

(* What goes on in the loop, and how it ends.                              *)
RunGoesOn(ru, r2) ==
    /\ ru.pc \notin Idle
    /\ r2.at = ru.at
    /\ r2.pc \in {"answer", "done", "gone"} \/
          /\ r2.pc = ru.pc /\ ru.pc = "await" /\ r2.verdict = ru.verdict
          /\ r2.need \in Nat /\ r2.need <= ru.need
          /\ r2.need > 0 => r2.left > 0
    /\ ru.verdict = "true" => r2.verdict = "true"

LEMMA RunGoesOnFits ==
    ASSUME NEW cl, cl.level \in AckLevel, NEW ru \in RunRecord, NEW r2, NEW st,
           Fits(cl, ru, st), RunGoesOn(ru, r2)
    PROVE  Fits(cl, r2, st) /\ Follows(cl, ru, st, cl, r2, st)
<1>1. ru.need \in Nat /\ Need(cl.level) \in Nat
  BY NeedNat DEF RunRecord
<1>2. cl.pc /= "idle" /\ cl.pc /= "push" /\ r2.pc \notin Early /\ cl.op \in ModOps
  BY DEF Fits, NoRun, RunGoesOn, Idle, Early
<1>3. r2.pc = "await" => r2.need <= Need(cl.level) /\ ru.pc = "await"
  BY <1>1 DEF Fits, RunGoesOn
<1>4. Fits(cl, r2, st)
  BY <1>2, <1>3 DEF Fits, RunGoesOn, Early, Idle
<1>5. Follows(cl, ru, st, cl, r2, st)
  BY <1>2 DEF Follows, RunGoesOn, Early, Idle
<1> QED  BY <1>4, <1>5

LEMMA RunSendsLives ==
    ASSUME TypeInv, RunInv, NEW c \in Call, RunSends(c)
    PROVE  RunInv' /\ \A d \in Call : Fate(d)
<1>0. CacheOpsTypeOK
  BY TypeParts
<1>1. run \in [Call -> RunRecord] /\ UNCHANGED <<call, stored>>
  BY <1>0, OpsTyped DEF OpsTypes, RunSends, historyVars
<1> DEFINE ru == [run[c] EXCEPT !.pc = "store"]
<1>2. run' = [run EXCEPT ![c] = ru]
  BY <1>1 DEF RunSends
<1>3. /\ ru.pc = "store" /\ ru.at = run[c].at /\ ru.need = run[c].need
      /\ ru.left = run[c].left /\ ru.verdict = run[c].verdict
      /\ run[c].pc = "send" /\ Fits(call[c], run[c], stored[c])
  BY <1>1 DEF RunSends, RunRecord, RunInv, RunFits
<1> HIDE DEF ru
<1>4. Fits(call[c], ru, stored[c])
  BY <1>3 DEF Fits, NoRun, Idle
<1>5. Follows(call[c], run[c], stored[c], call[c], ru, stored[c])
  BY <1>3 DEF Follows, Idle, Early
<1> QED  BY <1>0, <1>1, <1>2, <1>4, <1>5, RunLives

LEMMA RunStoresLives ==
    ASSUME TypeInv, RunInv, NEW c \in Call, RunStores(c)
    PROVE  RunInv' /\ \A d \in Call : Fate(d)
<1>0. CacheOpsTypeOK
  BY TypeParts
<1>1. run \in [Call -> RunRecord] /\ call \in [Call -> CallRecord]
      /\ stored \in [Call -> SUBSET Node]
  BY <1>0, OpsTyped DEF OpsTypes
<1> DEFINE ru == [run[c] EXCEPT !.pc = "await"]
           st == stored[c] \cup {run[c].at}
<1>2. /\ run' = [run EXCEPT ![c] = ru]
      /\ call' = [call EXCEPT ![c] = call[c]]
      /\ stored' = [stored EXCEPT ![c] = st]
  BY <1>1 DEF RunStores, Carry
<1>3. /\ ru.pc = "await" /\ ru.at = run[c].at /\ ru.need = run[c].need
      /\ ru.left = run[c].left /\ ru.verdict = run[c].verdict
      /\ run[c].pc = "store" /\ Fits(call[c], run[c], stored[c])
  BY <1>1 DEF RunStores, RunRecord, RunInv, RunFits
<1> HIDE DEF ru
<1>4. Fits(call[c], ru, st)
  BY <1>3 DEF Fits, NoRun, Idle
<1>5. Follows(call[c], run[c], stored[c], call[c], ru, st)
  BY <1>3 DEF Follows, Idle, Early
<1> QED  BY <1>0, <1>2, <1>4, <1>5, OneLife

LEMMA LoopLives ==
    ASSUME TypeInv, RunInv, NEW c \in Call,
           RunTakesAck(c) \/ RunMissesAck(c) \/ RunSucceeds(c) \/ ServedRunEnds(c)
    PROVE  RunInv' /\ \A d \in Call : Fate(d)
<1>0. CacheOpsTypeOK
  BY TypeParts
<1>1. run \in [Call -> RunRecord] /\ call[c] \in CallRecord
      /\ UNCHANGED <<call, stored>>
  BY <1>0, OpsTyped DEF OpsTypes, RunTakesAck, RunMissesAck, RunSucceeds,
     RunTurns, ServedRunEnds, historyVars
<1>2. Fits(call[c], run[c], stored[c]) /\ run[c] \in RunRecord
  BY <1>1 DEF RunInv, RunFits
<1>3. ASSUME NEW ru, run' = [run EXCEPT ![c] = ru], RunGoesOn(run[c], ru)
      PROVE  RunInv' /\ \A d \in Call : Fate(d)
  <2>1. call[c].level \in AckLevel
    BY <1>1 DEF CallRecord
  <2>2. /\ Fits(call[c], ru, stored[c])
        /\ Follows(call[c], run[c], stored[c], call[c], ru, stored[c])
    BY <1>2, <1>3, <2>1, RunGoesOnFits
  <2> QED  BY <1>0, <1>1, <1>3, <2>2, RunLives
<1>4. CASE RunSucceeds(c)
  <2> DEFINE ru == [run[c] EXCEPT !.pc = "answer", !.verdict = "true"]
  <2>1. run' = [run EXCEPT ![c] = ru]
    BY <1>1, <1>4 DEF RunSucceeds
  <2>2. RunGoesOn(run[c], ru)
    BY <1>2, <1>4 DEF RunGoesOn, RunSucceeds, RunRecord, Idle
  <2> QED  BY <1>3, <2>1, <2>2
<1>5. CASE ServedRunEnds(c)
  <2> DEFINE ru == [run[c] EXCEPT !.pc = "done"]
  <2>1. run' = [run EXCEPT ![c] = ru]
    BY <1>1, <1>5 DEF ServedRunEnds
  <2>2. RunGoesOn(run[c], ru)
    BY <1>2, <1>5 DEF RunGoesOn, ServedRunEnds, RunRecord, Idle
  <2> QED  BY <1>3, <2>1, <2>2
<1>6. CASE RunTakesAck(c) \/ RunMissesAck(c)
  <2>1. run[c].need \in Nat /\ run[c].left \in Nat /\ Awaits(c)
    BY <1>2, <1>6 DEF RunRecord, RunTakesAck, RunMissesAck
  <2>2. PICK k \in Nat : k <= run[c].need /\ RunTurns(c, k)
    BY <1>6, <2>1 DEF RunTakesAck, RunMissesAck, Awaits
  <2>3. CASE run[c].left = 1 /\ k > 0
    <3> DEFINE ru == [run[c] EXCEPT !.pc = "answer", !.need = k, !.verdict = "false"]
    <3>1. run' = [run EXCEPT ![c] = ru]
      BY <1>1, <2>2, <2>3 DEF RunTurns
    <3>2. RunGoesOn(run[c], ru)
      BY <1>2, <2>1 DEF RunGoesOn, RunRecord, Idle, Awaits, Fits
    <3> QED  BY <1>3, <3>1, <3>2
  <2>4. CASE ~(run[c].left = 1 /\ k > 0)
    <3> DEFINE ru == [run[c] EXCEPT !.need = k, !.left = run[c].left - 1]
    <3>1. run' = [run EXCEPT ![c] = ru]
      BY <1>1, <2>2, <2>4 DEF RunTurns
    <3>2. /\ ru.pc = run[c].pc /\ ru.at = run[c].at /\ ru.need = k
          /\ ru.left = run[c].left - 1 /\ ru.verdict = run[c].verdict
          /\ run[c].pc = "await" /\ run[c].left > 0
      BY <1>2, <2>1 DEF RunRecord, Awaits
    <3>3. k > 0 => ru.left > 0
      BY <2>1, <2>4, <3>2
    <3> HIDE DEF ru
    <3>4. RunGoesOn(run[c], ru)
      BY <2>2, <3>2, <3>3 DEF RunGoesOn, Idle
    <3> QED  BY <1>3, <3>1, <3>4
  <2> QED  BY <2>3, <2>4
<1> QED  BY <1>4, <1>5, <1>6

LEMMA OwnRunEndsLives ==
    ASSUME TypeInv, RunInv, NEW c \in Call, OwnRunEnds(c)
    PROVE  RunInv' /\ \A d \in Call : Fate(d)
<1>0. CacheOpsTypeOK
  BY TypeParts
<1>1. run \in [Call -> RunRecord] /\ call \in [Call -> CallRecord]
      /\ UNCHANGED stored
  BY <1>0, OpsTyped DEF OpsTypes, OwnRunEnds, historyVars
<1> DEFINE cl == [call[c] EXCEPT !.pc = "ok"]
           ru == [run[c] EXCEPT !.pc = "done"]
<1>2. /\ run' = [run EXCEPT ![c] = ru]
      /\ call' = [call EXCEPT ![c] = cl]
      /\ stored' = [stored EXCEPT ![c] = stored[c]]
  BY <1>1, OpsTyped, <1>0 DEF OwnRunEnds, Goes, OpsTypes
<1>3. CallGoesOn(call[c], cl)
  BY <1>1 DEF CallGoesOn, CallRecord, OwnRunEnds, Pc, Late, Returned
<1>4. RunGoesOn(run[c], ru) /\ run[c] \in RunRecord /\ cl.level \in AckLevel
  BY <1>1 DEF RunGoesOn, RunRecord, OwnRunEnds, Idle, CallRecord
<1> HIDE DEF cl, ru
<1>5. Fits(cl, run[c], stored[c])
      /\ Follows(call[c], run[c], stored[c], cl, run[c], stored[c])
  BY <1>3, GoesOnFits DEF RunInv, RunFits
<1>6. Fits(cl, ru, stored[c]) /\ Follows(cl, run[c], stored[c], cl, ru, stored[c])
  BY <1>4, <1>5, RunGoesOnFits
<1>7. Follows(call[c], run[c], stored[c], cl, ru, stored[c])
  BY <1>5, <1>6 DEF Follows
<1> QED  BY <1>0, <1>2, <1>6, <1>7, OneLife

-----------------------------------------------------------------------------
(* The requests of a call, and what may be under way of them.              *)
WriteOf(c)       == {Insert(c), Remove(c)}
CountedUpdate(c) == {Put(c, "run"), Del(c, "run")}
UpdateOf(c)      == {Put(c, "none"), Del(c, "none")} \cup CountedUpdate(c)

(* A write is given to the leader once, and its run begins with that.      *)
WriteFits(c) ==
    \A a, m \in Node :
        /\ Holds(queue[a][m], WriteOf(c)) \/ Holds(stream[a][m], WriteOf(c)) =>
              /\ a = At(c) /\ m = call[c].to /\ m /= a
              /\ run[c].pc = "none" /\ call[c].op \in ModOps
              /\ Pc(c) \in Late
        /\ Once(queue[a][m], WriteOf(c)) /\ Once(stream[a][m], WriteOf(c))
        /\ ~(Holds(queue[a][m], WriteOf(c)) /\ Holds(stream[a][m], WriteOf(c)))

(* A write is carried out elsewhere only when its run has begun, or its    *)
(* cache_put or cache_del.                                                 *)
UpdateFits(c) ==
    \A a, m \in Node :
        Holds(queue[a][m], UpdateOf(c)) \/ Holds(stream[a][m], UpdateOf(c)) =>
            Run(c) \/ (Pc(c) /= "idle" /\ call[c].op \in {"put", "del"})

WriteInv  == \A c \in Call : WriteFits(c)
UpdateInv == \A c \in Call : UpdateFits(c)

LEMMA RequestKinds ==
    ASSUME NEW r \in RpcRequest
    PROVE  /\ r.is \in {"Insert", "Remove"} => r \in WriteOf(r.call)
           /\ r.is \in {"Put", "Del"} => r \in UpdateOf(r.call)
           /\ \A c \in Call : /\ TokenOf(r) = <<c, "run">> <=> r \in CountedUpdate(c)
                              /\ r \in WriteOf(c) \cup UpdateOf(c) => r.call = c
BY DEF RpcRequest, WriteOf, CountedUpdate, UpdateOf, TokenOf,
       Insert, Remove, Put, Del

LEMMA HeadHeld ==
    ASSUME NEW S, NEW s \in Seq(S), s /= <<>>, NEW rs, Head(s) \in rs
    PROVE  Holds(s, rs)
BY HoldsTail

LEMMA ServeWriteLives ==
    ASSUME TypeInv, ViewInv, RunInv, WriteInv, NEW n \in Node, NEW m \in Node,
           ServeWrite(n, m)
    PROVE  RunInv' /\ \A d \in Call : Fate(d)
<1> DEFINE c == Head(stream[n][m]).call
<1>0. MembershipTypeOK /\ Wires /\ CacheOpsTypeOK
  BY TypeParts
<1>1. /\ Head(stream[n][m]) \in RpcRequest
      /\ Head(stream[n][m]).is \in {"Insert", "Remove"}
      /\ stream[n][m] /= <<>>
  BY <1>0, ReadsTypes DEF ServeWrite, Reads
<1>2. c \in Call /\ Holds(stream[n][m], WriteOf(c))
  BY <1>0, <1>1, RequestFields, RequestKinds, HeadHeld DEF Wires, Table
<1>3. /\ UNCHANGED <<call, stored>> /\ view[m].quorum
      /\ \/ StartRun(c, m, call[c].level, view[m].hosts)
         \/ run' = [run EXCEPT ![c].pc = "panicked"]
  BY DEF ServeWrite, historyVars
<1> HIDE DEF c
<1>4. run[c].pc = "none" /\ call[c].op \in ModOps /\ call[c].pc \in Late
  BY <1>2 DEF WriteInv, WriteFits, Pc
<1>5. run \in [Call -> RunRecord] /\ Fits(call[c], run[c], stored[c])
  BY <1>0, <1>2, OpsTyped DEF OpsTypes, RunInv, RunFits
<1>6. run[c] = NoRun /\ stored[c] = {}
  BY <1>4, <1>5 DEF Fits, Idle
<1>7. ASSUME NEW ru, run' = [run EXCEPT ![c] = ru], Fits(call[c], ru, stored[c])
      PROVE  RunInv' /\ \A d \in Call : Fate(d)
  <2>1. Follows(call[c], run[c], stored[c], call[c], ru, stored[c])
    BY <1>6 DEF Follows, NoRun, Idle, Early
  <2> QED  BY <1>0, <1>2, <1>3, <1>7, <2>1, RunLives
<1>8. CASE StartRun(c, m, call[c].level, view[m].hosts)
  <2> DEFINE ru == [pc |-> "send", at |-> m, need |-> Need(call[c].level),
                    left |-> view[m].hosts, verdict |-> "none"]
  <2>1. view[m].hosts > 0
    BY <1>0, <1>3, QuorumPositive
       DEF ViewInv, Usable, MembershipTypeOK, View
  <2>2. Fits(call[c], ru, stored[c])
    BY <1>4, <1>6, <2>1, NeedNat DEF Fits, Late, Returned, Idle
  <2>3. run' = [run EXCEPT ![c] = ru]
    BY <1>8 DEF StartRun
  <2> HIDE DEF ru
  <2> QED  BY <1>7, <2>2, <2>3
<1>9. CASE run' = [run EXCEPT ![c].pc = "panicked"]
  <2> DEFINE ru == [NoRun EXCEPT !.pc = "panicked"]
  <2>1. Fits(call[c], ru, stored[c])
    BY <1>4, <1>6 DEF Fits, Late, Returned, Idle, NoRun
  <2>2. run' = [run EXCEPT ![c] = ru]
    BY <1>2, <1>5, <1>6, <1>9
  <2> HIDE DEF ru
  <2> QED  BY <1>7, <2>1, <2>2
<1> QED  BY <1>3, <1>8, <1>9

LEMMA ServeUpdateLives ==
    ASSUME TypeInv, RunInv, UpdateInv, NEW n \in Node, NEW m \in Node,
           ServeUpdate(n, m)
    PROVE  RunInv' /\ \A d \in Call : Fate(d)
<1> DEFINE c == Head(stream[n][m]).call
           st == stored[c] \cup {m}
<1>0. Wires /\ CacheOpsTypeOK
  BY TypeParts
<1>1. /\ Head(stream[n][m]) \in RpcRequest
      /\ Head(stream[n][m]).is \in {"Put", "Del"}
      /\ stream[n][m] /= <<>>
  BY <1>0, ReadsTypes DEF ServeUpdate, ServeMod, Reads
<1>2. c \in Call /\ Holds(stream[n][m], UpdateOf(c))
  BY <1>0, <1>1, RequestFields, RequestKinds, HeadHeld DEF Wires, Table
<1>3. UNCHANGED <<call, run>> /\ stored' = [stored EXCEPT ![c] = st]
  <2>1. stored' = [stored EXCEPT ![c] = @ \cup {m}]
    BY DEF ServeUpdate
  <2> QED  BY <2>1 DEF ServeUpdate
<1> HIDE DEF c
<1>4. Fits(call[c], run[c], stored[c])
  BY <1>2 DEF RunInv, RunFits
<1>5. Run(c) \/ (call[c].pc /= "idle" /\ call[c].op \in {"put", "del"})
  BY <1>2 DEF UpdateInv, UpdateFits, Pc
<1>6. Fits(call[c], run[c], st)
  BY <1>4, <1>5 DEF Fits, Run, Idle, ModOps, NoRun
<1>7. Follows(call[c], run[c], stored[c], call[c], run[c], st)
  BY DEF Follows
<1>8. call' = [call EXCEPT ![c] = call[c]] /\ run' = [run EXCEPT ![c] = run[c]]
  BY <1>0, <1>2, <1>3, OpsTyped DEF OpsTypes
<1> HIDE DEF st
<1> QED  BY <1>0, <1>2, <1>3, <1>6, <1>7, <1>8, OneLife

(* A process that ends takes its calls and runs with it.                   *)
LEMMA StopLives ==
    ASSUME TypeInv, RunInv, NEW n \in Node, Stop(n)
    PROVE  RunInv' /\ \A d \in Call : Fate(d)
<1>1. /\ call' = [c \in Call |-> IF c \in CallsAt(n)
                       THEN [call[c] EXCEPT !.pc = "gone"] ELSE call[c]]
      /\ run' = [c \in Call |-> IF c \in RunsAt(n)
                      THEN [run[c] EXCEPT !.pc = "gone"] ELSE run[c]]
      /\ UNCHANGED stored
  BY DEF Stop, historyVars
<1>2. call \in [Call -> CallRecord] /\ run \in [Call -> RunRecord]
  BY TypeParts, OpsTyped DEF OpsTypes
<1> SUFFICES ASSUME NEW d \in Call
             PROVE  RunFits(d)' /\ Fate(d)
  BY DEF RunInv
<1>3. Fits(call[d], run[d], stored[d]) /\ call[d] \in CallRecord
      /\ run[d] \in RunRecord
  BY <1>2 DEF RunInv, RunFits
<1>4. \/ CallGoesOn(call[d], call'[d])
      \/ call'[d] = call[d]
  <2>1. CASE d \in CallsAt(n) /\ call[d].pc /= "idle"
    BY <1>1, <1>3, <2>1 DEF CallGoesOn, CallsAt, CallRecord, Late, Returned
  <2>2. CASE d \notin CallsAt(n)
    BY <1>1, <2>2
  <2>3. CASE d \in CallsAt(n) /\ call[d].pc = "idle"
    BY <1>3, <2>3, MemberAssumption DEF Fits, CallsAt, At
  <2> QED  BY <2>1, <2>2, <2>3
<1>5. RunGoesOn(run[d], run'[d]) \/ run'[d] = run[d]
  <2>1. CASE d \in RunsAt(n)
    BY <1>1, <1>3, <2>1 DEF RunGoesOn, RunsAt, RunRecord, Finished, Idle
  <2>2. CASE d \notin RunsAt(n)
    BY <1>1, <2>2
  <2> QED  BY <2>1, <2>2
<1>6. Fits(call'[d], run[d], stored[d])
      /\ Follows(call[d], run[d], stored[d], call'[d], run[d], stored[d])
  <2>1. CASE CallGoesOn(call[d], call'[d])
    BY <1>3, <2>1, GoesOnFits
  <2>2. CASE call'[d] = call[d]
    BY <1>3, <2>2 DEF Follows
  <2> QED  BY <1>4, <2>1, <2>2
<1>7. call'[d].level \in AckLevel
  BY <1>1, <1>3 DEF CallRecord
<1>8. Fits(call'[d], run'[d], stored[d])
      /\ Follows(call'[d], run[d], stored[d], call'[d], run'[d], stored[d])
  <2>1. CASE RunGoesOn(run[d], run'[d])
    BY <1>3, <1>6, <1>7, <2>1, RunGoesOnFits
  <2>2. CASE run'[d] = run[d]
    BY <1>6, <2>2 DEF Follows
  <2> QED  BY <1>5, <2>1, <2>2
<1> QED  BY <1>1, <1>6, <1>8 DEF RunFits, Fate, Follows

-----------------------------------------------------------------------------
(* What a step other than that of a forwarder does to a queue or a stream: *)
(* it takes from it, empties it, or adds one of es.                        *)
Changes(s, t, es) ==
    \/ t = s \/ t = <<>>
    \/ s /= <<>> /\ t = Tail(s)
    \/ \E e \in es : t = Append(s, e)

WiresChange(es) ==
    \A a, m \in Node : /\ Changes(queue[a][m], queue'[a][m], es)
                       /\ Changes(stream[a][m], stream'[a][m], {})

Quiet(rs) ==
    \A a, m \in Node : /\ Quieter(queue[a][m], queue'[a][m], rs)
                       /\ Quieter(stream[a][m], stream'[a][m], rs)

LEMMA ChangesQuiet ==
    ASSUME NEW S, NEW s \in Seq(S), NEW t, NEW es \in SUBSET S, NEW rs,
           Changes(s, t, es), es \cap rs = {}
    PROVE  Quieter(s, t, rs)
BY QuietSteps DEF Changes

LEMMA WiresQuiet ==
    ASSUME Wires, NEW es \in SUBSET RpcRequest, WiresChange(es), NEW rs,
           es \cap rs = {}
    PROVE  Quiet(rs)
<1> SUFFICES ASSUME NEW a \in Node, NEW m \in Node
             PROVE  /\ Quieter(queue[a][m], queue'[a][m], rs)
                    /\ Quieter(stream[a][m], stream'[a][m], rs)
  BY DEF Quiet
<1>1. queue[a][m] \in Seq(RpcRequest) /\ stream[a][m] \in Seq(RpcRequest)
  BY DEF Wires, Table
<1>2. Quieter(queue[a][m], queue'[a][m], rs)
  BY <1>1, ChangesQuiet DEF WiresChange
<1>3. Quieter(stream[a][m], stream'[a][m], rs)
  <2>1. {} \cap rs = {} /\ {} \in SUBSET RpcRequest
    OBVIOUS
  <2> QED  BY <1>1, <2>1, ChangesQuiet DEF WiresChange
<1> QED  BY <1>2, <1>3

LEMMA BroadcastChanges ==
    ASSUME Wires, NEW n \in Node, NEW r, Broadcast(n, r)
    PROVE  \A a, m \in Node :
               queue'[a][m] = IF a = n /\ m /= n THEN Append(queue[a][m], r)
                              ELSE queue[a][m]
BY DEF Wires, Table, Broadcast, Enqueue

LEMMA SendToChanges ==
    ASSUME Wires, NEW n \in Node, NEW k, NEW r, SendTo(n, k, r)
    PROVE  \A a, m \in Node :
               queue'[a][m] = IF a = n /\ m = k THEN Append(queue[a][m], r)
                              ELSE queue[a][m]
BY DEF Wires, Table, SendTo, Enqueue

Silent(c) ==
    \/ BeginCall(c) \/ StoreHere(c) \/ Look(c) \/ TakeAnswer(c)
    \/ TakeVerdict(c) \/ CallFails(c)
    \/ RunStores(c) \/ RunTakesAck(c) \/ RunMissesAck(c) \/ RunSucceeds(c)
    \/ OwnRunEnds(c) \/ ServedRunEnds(c)

Around(n, m) ==
    \/ Connect(n, m) \/ Ends(n, m) \/ Break(n, m) \/ LoseRest(n, m)
    \/ DeliverAnswer(n, m) \/ LateAnswer(n, m)
    \/ OpenStream(n, m) \/ OpeningFails(n, m) \/ OpeningUnanswered(n, m)
    \/ LeftBehindTakes(n, m) \/ LeftBehindTakesOther(n, m)

LEMMA SilentWires ==
    ASSUME NEW c \in Call, Silent(c)
    PROVE  WiresChange({})
<1>1. UNCHANGED <<queue, stream>>
  BY DEF Silent, BeginCall, StoreHere, Look, TakeAnswer, TakeVerdict, CallFails,
     RunStores, RunTakesAck, RunMissesAck, RunTurns, RunSucceeds, OwnRunEnds,
     ServedRunEnds, requestVars, otherRequests
<1> QED  BY <1>1 DEF WiresChange, Changes

LEMMA SendWires ==
    ASSUME Wires, CallInv, NEW c \in Call
    PROVE  /\ SendAll(c) => WiresChange({Update(c, "none")})
           /\ Ask(c) => WiresChange({Get(c)})
           /\ Push(c) => WiresChange({Insert(c), Remove(c)})
           /\ RunSends(c) => WiresChange({Update(c, Answers(c))})
<1>1. /\ SendAll(c) \/ Ask(c) \/ Push(c) => At(c) \in Node
      /\ RunSends(c) => run[c].at \in Node
  BY DEF CallInv, CallFits, SendAll, Ask, Push, RunSends
<1>2. SendAll(c) \/ Ask(c) \/ Push(c) \/ RunSends(c) => UNCHANGED stream
  BY DEF SendAll, Ask, Push, RunSends, otherRequests
<1>3. ASSUME NEW n \in Node, NEW r, Broadcast(n, r), UNCHANGED stream
      PROVE  WiresChange({r})
  <2>1. \A a, m \in Node :
            queue'[a][m] = queue[a][m] \/ queue'[a][m] = Append(queue[a][m], r)
    BY <1>3 DEF Wires, Table, Broadcast, Enqueue
  <2> QED  BY <1>3, <2>1 DEF WiresChange, Changes
<1>4. ASSUME NEW n \in Node, NEW k, NEW r, SendTo(n, k, r), UNCHANGED stream,
             NEW es, r \in es
      PROVE  WiresChange(es)
  <2>1. \A a, m \in Node :
            queue'[a][m] = queue[a][m] \/ queue'[a][m] = Append(queue[a][m], r)
    BY <1>4 DEF Wires, Table, SendTo, Enqueue
  <2> QED  BY <1>4, <2>1 DEF WiresChange, Changes
<1>5. SendAll(c) => WiresChange({Update(c, "none")})
  BY <1>1, <1>2, <1>3 DEF SendAll
<1>6. Ask(c) => WiresChange({Get(c)})
  BY <1>1, <1>2, <1>3 DEF Ask
<1>7. RunSends(c) => WiresChange({Update(c, Answers(c))})
  BY <1>1, <1>2, <1>3 DEF RunSends
<1>8. ASSUME Push(c)
      PROVE  WiresChange({Insert(c), Remove(c)})
  <2>1. PICK r \in {Insert(c), Remove(c)} : SendTo(At(c), call[c].to, r)
    BY <1>8 DEF Push
  <2> QED  BY <1>1, <1>2, <1>4, <1>8, <2>1
<1> QED  BY <1>5, <1>6, <1>7, <1>8

LEMMA ServerWires ==
    ASSUME Wires, NEW n \in Node, NEW m \in Node, ServerStep(n, m)
    PROVE  WiresChange({})
<1>1. /\ UNCHANGED queue /\ stream[n][m] /= <<>>
      /\ stream' = [stream EXCEPT ![n][m] = Tail(@)]
  BY DEF ServerStep, ServeGet, ServeUpdate, ServeMod, ServeWrite, RefuseWrite, Reads
<1>2. \A a, b \in Node : stream'[a][b] = IF a = n /\ b = m THEN Tail(stream[a][b])
                                        ELSE stream[a][b]
  BY <1>1 DEF Wires, Table
<1> QED  BY <1>1, <1>2 DEF WiresChange, Changes

LEMMA AroundWires ==
    ASSUME Wires, NEW n \in Node, NEW m \in Node, Around(n, m)
    PROVE  WiresChange({})
<1>1. \/ UNCHANGED queue
      \/ queue' = [queue EXCEPT ![n][m] = <<>>]
      \/ queue[n][m] /= <<>> /\ queue' = [queue EXCEPT ![n][m] = Tail(@)]
  BY DEF Around, Connect, Ends, TearDown, Break, LoseRest, DeliverAnswer,
     LateAnswer, TakesAnswer, OpenStream, OpeningFails, OpeningUnanswered, OpenFails,
     LeftBehindTakes, LeftBehindTakesOther, requestVars
<1>2. \/ UNCHANGED stream
      \/ stream' = [stream EXCEPT ![n][m] = <<>>]
  BY DEF Around, Connect, Ends, TearDown, Break, LoseRest, DeliverAnswer,
     LateAnswer, TakesAnswer, OpenStream, OpeningFails, OpeningUnanswered, OpenFails,
     LeftBehindTakes, LeftBehindTakesOther, requestVars
<1>3. ASSUME NEW x \in Table(RpcRequest), NEW y,
             \/ y = x \/ y = [x EXCEPT ![n][m] = <<>>]
             \/ x[n][m] /= <<>> /\ y = [x EXCEPT ![n][m] = Tail(@)]
      PROVE  \A a, b \in Node : Changes(x[a][b], y[a][b], {})
  BY <1>3 DEF Table, Changes
<1>4. \A a, b \in Node : Changes(queue[a][b], queue'[a][b], {})
  BY <1>1, <1>3 DEF Wires
<1>5. \A a, b \in Node : Changes(stream[a][b], stream'[a][b], {})
  BY <1>2, <1>3 DEF Wires
<1> QED  BY <1>4, <1>5 DEF WiresChange

LEMMA ProcessWires ==
    ASSUME Wires, NEW n \in Node,
           PublishView(n) \/ Empty(n) \/ Stop(n) \/ Start(n)
    PROVE  WiresChange({})
<1>1. CASE Stop(n)
  <2>1. /\ queue' = [queue EXCEPT ![n] = [m \in Node |-> <<>>]]
        /\ stream' = StreamsWithout(n)
    BY <1>1 DEF Stop, EndProcess
  <2>2. \A a, b \in Node : /\ queue'[a][b] = queue[a][b] \/ queue'[a][b] = <<>>
                           /\ stream'[a][b] = stream[a][b] \/ stream'[a][b] = <<>>
    BY <2>1 DEF Wires, Table, StreamsWithout
  <2> QED  BY <2>2 DEF WiresChange, Changes
<1>2. CASE PublishView(n) \/ Empty(n) \/ Start(n)
  <2>1. UNCHANGED <<queue, stream>>
    BY <1>2 DEF PublishView, Empty, Start, requestVars
  <2> QED  BY <2>1 DEF WiresChange, Changes
<1> QED  BY <1>1, <1>2

(* A forwarder moves the head of its queue to the stream, or loses it.     *)
LEMMA ForwardMoves ==
    ASSUME Wires, NEW n \in Node, NEW m \in Node, Forward(n, m)
    PROVE  /\ queue[n][m] \in Seq(RpcRequest) /\ queue[n][m] /= <<>>
           /\ Head(queue[n][m]) \in RpcRequest
           /\ \A a, b \in Node :
                  /\ queue'[a][b] = IF a = n /\ b = m THEN Tail(queue[a][b])
                                    ELSE queue[a][b]
                  /\ \/ stream'[a][b] = stream[a][b]
                     \/ /\ a = n /\ b = m
                        /\ stream'[a][b] = Append(stream[a][b], Head(queue[a][b]))
           /\ \A a, b \in Node :
                  saved'[a][b] = IF a = n /\ b = m
                                 THEN Saved(n, m, Head(queue[n][m])) ELSE saved[a][b]
<1>1. queue[n][m] \in Seq(RpcRequest) /\ queue[n][m] /= <<>>
  BY DEF Wires, Table, Forward
<1>2. Head(queue[n][m]) \in RpcRequest
  BY <1>1, HeadTailProperties
<1> QED  BY <1>1, <1>2 DEF Forward, Wires, Table

(* Only a call that begins, and a write that is read, have a run begin.    *)
NoNewRun(d) == run[d].pc = "none" /\ Pc(d) /= "idle" => run'[d].pc = "none"

LEMMA RunsBegin ==
    ASSUME CacheOpsTypeOK
    PROVE  /\ \A c \in Call : BeginCall(c) \/ CallStep(c) \/ RunStep(c) =>
                  \A d \in Call : NoNewRun(d)
           /\ \A n \in Node :
                  Stop(n) => \A d \in Call : NoNewRun(d)
           /\ \A n, m \in Node : ServeWrite(n, m) =>
                  \A d \in Call \ {Head(stream[n][m]).call} : NoNewRun(d)
<1>1. run \in [Call -> RunRecord]
  BY OpsTyped DEF OpsTypes
<1>2. ASSUME NEW c \in Call, BeginCall(c) \/ CallStep(c) \/ RunStep(c),
             NEW d \in Call
      PROVE  NoNewRun(d)
  <2>1. CASE UNCHANGED run
    BY <2>1 DEF NoNewRun
  <2>2. ASSUME NEW ru, run' = [run EXCEPT ![c] = ru],
               Pc(c) = "idle" \/ run[c].pc /= "none"
        PROVE  NoNewRun(d)
    BY <1>1, <2>2 DEF NoNewRun
  <2>3. CASE BeginCall(c)
    BY <2>1, <2>2, <2>3 DEF BeginCall, StartRun
  <2>4. CASE CallStep(c)
    BY <2>1, <2>4 DEF CallStep, StoreHere, SendAll, Look, Ask, TakeAnswer, Push,
       TakeVerdict, CallFails
  <2>5. CASE RunStep(c)
    <3>1. \E ru : run' = [run EXCEPT ![c] = ru]
      <4>1. CASE RunSends(c)
        BY <1>1, <4>1 DEF RunSends
      <4>2. CASE RunStores(c)
        BY <1>1, <4>2 DEF RunStores
      <4>3. ASSUME NEW k, RunTurns(c, k)
            PROVE  \E ru : run' = [run EXCEPT ![c] = ru]
        BY <1>1, <4>3 DEF RunTurns
      <4>4. CASE RunTakesAck(c) \/ RunMissesAck(c)
        BY <4>3, <4>4 DEF RunTakesAck, RunMissesAck
      <4>5. CASE RunSucceeds(c)
        BY <1>1, <4>5 DEF RunSucceeds
      <4>6. CASE OwnRunEnds(c)
        BY <1>1, <4>6 DEF OwnRunEnds
      <4>7. CASE ServedRunEnds(c)
        BY <1>1, <4>7 DEF ServedRunEnds
      <4> QED  BY <2>5, <4>1, <4>2, <4>4, <4>5, <4>6, <4>7 DEF RunStep
    <3>2. run[c].pc /= "none"
      BY <2>5 DEF RunStep, RunSends, RunStores, RunTakesAck, RunMissesAck, Awaits,
         RunSucceeds, OwnRunEnds, ServedRunEnds
    <3> QED  BY <2>2, <3>1, <3>2
  <2> QED  BY <1>2, <2>3, <2>4, <2>5
<1>3. ASSUME NEW n \in Node, Stop(n), NEW d \in Call
      PROVE  NoNewRun(d)
  BY <1>3 DEF Stop, RunsAt, Finished, NoNewRun
<1>4. ASSUME NEW n \in Node, NEW m \in Node, ServeWrite(n, m),
             NEW d \in Call \ {Head(stream[n][m]).call}
      PROVE  NoNewRun(d)
  <2> DEFINE c == Head(stream[n][m]).call
  <2>1. \/ run' = [run EXCEPT ![c].pc = "panicked"]
        \/ StartRun(c, m, call[c].level, view[m].hosts)
    BY <1>4 DEF ServeWrite
  <2> HIDE DEF c
  <2>2. run'[d] = run[d]
    BY <1>1, <2>1, <1>4 DEF StartRun, c
  <2> QED  BY <2>2 DEF NoNewRun
<1> QED  BY <1>2, <1>3, <1>4

-----------------------------------------------------------------------------
(* Nothing of a write is under way that was not before.                    *)
LEMMA WriteQuiet ==
    ASSUME NEW d \in Call, WriteFits(d), Fate(d), Quiet(WriteOf(d)), NoNewRun(d)
    PROVE  WriteFits(d)'
<1> SUFFICES ASSUME NEW a \in Node, NEW m \in Node
             PROVE  /\ Holds(queue'[a][m], WriteOf(d)) \/ Holds(stream'[a][m], WriteOf(d)) =>
                          /\ a = At(d)' /\ m = call'[d].to /\ m /= a
                          /\ run'[d].pc = "none" /\ call'[d].op \in ModOps
                          /\ Pc(d)' \in Late
                    /\ Once(queue'[a][m], WriteOf(d)) /\ Once(stream'[a][m], WriteOf(d))
                    /\ ~(Holds(queue'[a][m], WriteOf(d))
                         /\ Holds(stream'[a][m], WriteOf(d)))
  BY DEF WriteFits, WriteOf, Insert, Remove
<1>1. /\ Quieter(queue[a][m], queue'[a][m], WriteOf(d))
      /\ Quieter(stream[a][m], stream'[a][m], WriteOf(d))
  BY DEF Quiet
<1>2. Pc(d) \in Late => Pc(d) /= "idle"
  BY DEF Late, Returned
<1> HIDE DEF WriteOf
<1> QED  BY <1>1, <1>2 DEF Quieter, WriteFits, Fate, Follows, NoNewRun, Pc, At

LEMMA UpdateQuiet ==
    ASSUME NEW d \in Call, UpdateFits(d), Fate(d), Quiet(UpdateOf(d))
    PROVE  UpdateFits(d)'
<1> SUFFICES ASSUME NEW a \in Node, NEW m \in Node
             PROVE  Holds(queue'[a][m], UpdateOf(d)) \/ Holds(stream'[a][m], UpdateOf(d))
                    => Run(d)' \/ (Pc(d)' /= "idle" /\ call'[d].op \in {"put", "del"})
  BY DEF UpdateFits, UpdateOf, CountedUpdate, Put, Del
<1>1. /\ Quieter(queue[a][m], queue'[a][m], UpdateOf(d))
      /\ Quieter(stream[a][m], stream'[a][m], UpdateOf(d))
  BY DEF Quiet
<1>2. /\ Run(d) => Run(d)'
      /\ Pc(d) /= "idle" => Pc(d)' /= "idle" /\ call'[d].op = call[d].op
  BY DEF Fate, Follows, Run, Idle, Pc
<1> QED  BY <1>1, <1>2 DEF Quieter, UpdateFits

(* Requests of one call are not those of another, nor lookups writes.      *)
LEMMA Disjoint ==
    ASSUME NEW c \in Call, NEW d \in Call, NEW r \in {"run", "none"}
    PROVE  /\ d /= c => Insert(c) \notin WriteOf(d) /\ Remove(c) \notin WriteOf(d)
           /\ Insert(c) \notin UpdateOf(d) /\ Remove(c) \notin UpdateOf(d)
           /\ d /= c => Update(c, r) \notin UpdateOf(d)
           /\ Update(c, r) \notin WriteOf(d)
           /\ Get(c) \notin WriteOf(d) /\ Get(c) \notin UpdateOf(d)
BY DEF WriteOf, UpdateOf, CountedUpdate, Insert, Remove, Put, Del, Get, Update

LEMMA QuietRequests ==
    ASSUME Wires, NEW es \in SUBSET RpcRequest, WiresChange(es)
    PROVE  /\ \A d \in Call : es \cap WriteOf(d) = {} => Quiet(WriteOf(d))
           /\ \A d \in Call : es \cap UpdateOf(d) = {} => Quiet(UpdateOf(d))
           /\ \A d \in Call : es \cap CountedUpdate(d) = {} => Quiet(CountedUpdate(d))
BY WiresQuiet

LEMMA FitsFor ==
    ASSUME WriteInv, UpdateInv, NEW d \in Call
    PROVE  WriteFits(d) /\ UpdateFits(d)
BY DEF WriteInv, UpdateInv

(* Steps that add no request to a queue.                                   *)
LEMMA QuietKeeps ==
    ASSUME Wires, WriteInv, UpdateInv, WiresChange({}), NEW ds \in SUBSET Call,
           \A d \in Call : Fate(d), \A d \in ds : NoNewRun(d)
    PROVE  UpdateInv' /\ \A d \in ds : WriteFits(d)'
<1>1. \A d \in Call : Quiet(WriteOf(d)) /\ Quiet(UpdateOf(d))
  BY WiresQuiet
<1>2. ASSUME NEW d \in Call
      PROVE  UpdateFits(d)'
  BY <1>1, FitsFor, UpdateQuiet
<1>3. ASSUME NEW d \in ds
      PROVE  WriteFits(d)'
  BY <1>1, FitsFor, WriteQuiet
<1> QED  BY <1>2, <1>3 DEF UpdateInv

LEMMA SendKeeps ==
    ASSUME TypeInv, RunInv, WriteInv, UpdateInv, NEW c \in Call,
           SendAll(c) \/ Ask(c) \/ RunSends(c),
           \A d \in Call : Fate(d), \A d \in Call : NoNewRun(d)
    PROVE  WriteInv' /\ UpdateInv'
<1>0. Wires /\ CallInv
  BY TypeParts
<1>1. PICK r \in {Get(c)} \cup {Update(c, k) : k \in {"run", "none"}} :
          WiresChange({r}) /\ (r = Get(c) \/ SendAll(c) \/ RunSends(c))
  <2>1. Answers(c) \in {"run", "none"}
    BY DEF Answers
  <2> QED  BY <1>0, <2>1, SendWires
<1>2. {r} \in SUBSET RpcRequest
  BY RequestMade
<1>3. \A d \in Call : Quiet(WriteOf(d)) /\ (d /= c => Quiet(UpdateOf(d)))
                      /\ (r = Get(c) => Quiet(UpdateOf(d)))
  <2>1. \A d \in Call : {r} \cap WriteOf(d) = {} /\ (d /= c => {r} \cap UpdateOf(d) = {})
                        /\ (r = Get(c) => {r} \cap UpdateOf(d) = {})
    BY <1>1, Disjoint
  <2> QED  BY <1>0, <1>1, <1>2, <2>1, QuietRequests
<1>4. WriteInv'
  <2>1. ASSUME NEW d \in Call
        PROVE  WriteFits(d)'
    BY <1>3, FitsFor, WriteQuiet
  <2> QED  BY <2>1 DEF WriteInv
<1>5. UpdateFits(c)'
  <2>1. CASE r = Get(c)
    BY <1>3, <2>1, FitsFor, UpdateQuiet
  <2>2. CASE SendAll(c) \/ RunSends(c)
    <3>1. Fits(call[c], run[c], stored[c]) /\ Fate(c)
      BY DEF RunInv, RunFits
    <3>2. Run(c) \/ (Pc(c) /= "idle" /\ call[c].op \in {"put", "del"})
      BY <2>2, <3>1 DEF SendAll, RunSends, Run, Fits, Pc
    <3>3. Run(c)' \/ (Pc(c)' /= "idle" /\ call'[c].op \in {"put", "del"})
      BY <3>1, <3>2 DEF Fate, Follows, Run, Idle, Pc
    <3> QED  BY <3>3 DEF UpdateFits
  <2> QED  BY <1>1, <2>1, <2>2
<1>6. UpdateInv'
  <2>1. ASSUME NEW d \in Call, d /= c
        PROVE  UpdateFits(d)'
    BY <1>3, <2>1, FitsFor, UpdateQuiet
  <2> QED  BY <1>5, <2>1 DEF UpdateInv
<1> QED  BY <1>4, <1>6

(* A write that is given to the leader is under way once.                  *)
LEMMA PushKeeps ==
    ASSUME TypeInv, RunInv, WriteInv, UpdateInv, NEW c \in Call, Push(c),
           \A d \in Call : Fate(d), \A d \in Call : NoNewRun(d)
    PROVE  WriteInv' /\ UpdateInv'
<1>0. Wires /\ CallInv /\ CacheOpsTypeOK
  BY TypeParts
<1>1. WiresChange({Insert(c), Remove(c)}) /\ {Insert(c), Remove(c)} \subseteq RpcRequest
  BY <1>0, SendWires, RequestMade
<1>2. \A d \in Call : Quiet(UpdateOf(d)) /\ (d /= c => Quiet(WriteOf(d)))
  <2>1. \A d \in Call : /\ {Insert(c), Remove(c)} \cap UpdateOf(d) = {}
                        /\ d /= c => {Insert(c), Remove(c)} \cap WriteOf(d) = {}
    BY Disjoint
  <2> QED  BY <1>0, <1>1, <2>1, QuietRequests
<1>3. UpdateInv'
  <2>1. ASSUME NEW d \in Call
        PROVE  UpdateFits(d)'
    BY <1>2, FitsFor, UpdateQuiet
  <2> QED  BY <2>1 DEF UpdateInv
<1>4. ASSUME NEW d \in Call, d /= c
      PROVE  WriteFits(d)'
  BY <1>2, <1>4, FitsFor, WriteQuiet
<1>5. WriteFits(c)'
  <2>1. PICK r \in {Insert(c), Remove(c)} : SendTo(At(c), call[c].to, r)
    BY DEF Push
  <2>2. /\ Pc(c) = "push" /\ call[c].op \in ModOps /\ call[c].to \in Node \ {At(c)}
        /\ run[c].pc = "none" /\ call' = [call EXCEPT ![c].pc = "wait"]
        /\ UNCHANGED <<run, stream>> /\ At(c) \in Node
    BY <1>0 DEF Push, CallInv, CallFits, RunInv, RunFits, Fits, Pc, At, Goes,
       otherRequests
  <2>3. call \in [Call -> CallRecord]
    BY <1>0, OpsTyped DEF OpsTypes
  <2>4. /\ At(c)' = At(c) /\ call'[c].to = call[c].to /\ call'[c].op = call[c].op
        /\ Pc(c)' = "wait"
    BY <2>2, <2>3 DEF CallRecord, At, Pc
  <2>5. \A a, m \in Node : ~Holds(queue[a][m], WriteOf(c))
                           /\ ~Holds(stream[a][m], WriteOf(c))
    BY <2>2 DEF WriteInv, WriteFits, Late, Returned
  <2>6. ASSUME NEW a \in Node, NEW m \in Node
        PROVE  /\ Holds(queue'[a][m], WriteOf(c)) => a = At(c) /\ m = call[c].to
               /\ Once(queue'[a][m], WriteOf(c)) /\ Once(stream'[a][m], WriteOf(c))
               /\ ~Holds(stream'[a][m], WriteOf(c))
    <3>1. queue[a][m] \in Seq(RpcRequest) /\ r \in RpcRequest
      BY <1>0, <1>1 DEF Wires, Table
    <3>2. CASE queue'[a][m] = queue[a][m]
      BY <2>2, <2>5, <3>2 DEF WriteInv, WriteFits
    <3>3. CASE queue'[a][m] = Append(queue[a][m], r) /\ a = At(c) /\ m = call[c].to
      BY <2>2, <2>5, <3>1, <3>3, HoldsAppend DEF WriteInv, WriteFits
    <3>4. queue'[a][m] = queue[a][m]
          \/ (queue'[a][m] = Append(queue[a][m], r) /\ a = At(c) /\ m = call[c].to)
      BY <1>0, <2>1, <2>2 DEF Wires, Table, SendTo, Enqueue
    <3> QED  BY <3>2, <3>3, <3>4
  <2>7. WriteOf(c)' = WriteOf(c)
    BY DEF WriteOf, Insert, Remove
  <2>8. "wait" \in Late /\ run'[c].pc = "none" /\ call[c].to /= At(c)
    BY <2>2 DEF Late
  <2> HIDE DEF WriteOf
  <2> QED  BY <2>2, <2>4, <2>6, <2>7, <2>8 DEF WriteFits
<1> QED  BY <1>3, <1>4, <1>5 DEF WriteInv

(* A forwarder keeps the number of requests, or loses one.                 *)
LEMMA ForwardKeeps ==
    ASSUME TypeInv, WriteInv, UpdateInv, NEW n \in Node, NEW m \in Node,
           Forward(n, m), UNCHANGED <<call, run>>
    PROVE  WriteInv' /\ UpdateInv'
<1>0. Wires
  BY TypeParts
<1> DEFINE r == Head(queue[n][m])
<1>1. /\ queue[n][m] \in Seq(RpcRequest) /\ queue[n][m] /= <<>> /\ r \in RpcRequest
      /\ \A a, b \in Node : queue'[a][b] = IF a = n /\ b = m THEN Tail(queue[a][b])
                                           ELSE queue[a][b]
      /\ \A a, b \in Node : \/ stream'[a][b] = stream[a][b]
                            \/ /\ a = n /\ b = m
                               /\ stream'[a][b] = Append(stream[a][b], r)
  BY <1>0, ForwardMoves
<1> HIDE DEF r
<1>2. ASSUME NEW rs, NEW a \in Node, NEW b \in Node
      PROVE  /\ Quieter(queue[a][b], queue'[a][b], rs)
             /\ Holds(stream'[a][b], rs) =>
                    Holds(stream[a][b], rs) \/ (Holds(queue[a][b], rs) /\ r \in rs
                                                /\ a = n /\ b = m)
             /\ Once(stream[a][b], rs) =>
                    \/ Once(stream'[a][b], rs)
                    \/ Holds(stream[a][b], rs) /\ Holds(queue[a][b], rs)
             /\ r \in rs /\ a = n /\ b = m /\ Once(queue[a][b], rs) =>
                    ~Holds(queue'[a][b], rs)
  <2>1. stream[a][b] \in Seq(RpcRequest) /\ queue[a][b] \in Seq(RpcRequest)
    BY <1>0 DEF Wires, Table
  <2>2. Quieter(queue[a][b], queue'[a][b], rs)
    BY <1>1, <2>1, QuietSteps
  <2>3. a = n /\ b = m =>
            /\ r \in rs => Holds(queue[a][b], rs)
            /\ r \in rs /\ Once(queue[a][b], rs) => ~Holds(queue'[a][b], rs)
    BY <1>1, HoldsTail DEF r
  <2>4. CASE stream'[a][b] = stream[a][b]
    BY <2>2, <2>3, <2>4
  <2>5. CASE a = n /\ b = m /\ stream'[a][b] = Append(stream[a][b], r)
    <3>1. /\ Holds(stream'[a][b], rs) <=> Holds(stream[a][b], rs) \/ r \in rs
          /\ Once(stream[a][b], rs) /\ ~(Holds(stream[a][b], rs) /\ r \in rs) =>
                 Once(stream'[a][b], rs)
      BY <1>1, <2>1, <2>5, HoldsAppend
    <3> QED  BY <2>2, <2>3, <2>5, <3>1
  <2> QED  BY <1>1, <2>4, <2>5
<1>3. ASSUME NEW d \in Call, NEW a \in Node, NEW b \in Node
      PROVE  /\ Holds(queue'[a][b], WriteOf(d)) \/ Holds(stream'[a][b], WriteOf(d)) =>
                   Holds(queue[a][b], WriteOf(d)) \/ Holds(stream[a][b], WriteOf(d))
             /\ Once(queue'[a][b], WriteOf(d)) /\ Once(stream'[a][b], WriteOf(d))
             /\ ~(Holds(queue'[a][b], WriteOf(d)) /\ Holds(stream'[a][b], WriteOf(d)))
  <2>1. /\ Once(queue[a][b], WriteOf(d)) /\ Once(stream[a][b], WriteOf(d))
        /\ ~(Holds(queue[a][b], WriteOf(d)) /\ Holds(stream[a][b], WriteOf(d)))
    BY DEF WriteInv, WriteFits
  <2> QED  BY <1>2, <2>1 DEF Quieter
<1>4. ASSUME NEW d \in Call
      PROVE  WriteFits(d)'
  <2>1. WriteFits(d)
    BY DEF WriteInv
  <2>2. At(d)' = At(d) /\ Pc(d)' = Pc(d)
    BY DEF At, Pc
  <2>3. WriteOf(d)' = WriteOf(d)
    BY DEF WriteOf, Insert, Remove
  <2> HIDE DEF WriteOf
  <2> QED  BY <1>3, <2>1, <2>2, <2>3 DEF WriteFits
<1>5. ASSUME NEW d \in Call
      PROVE  UpdateFits(d)'
  <2>1. UpdateFits(d)
    BY DEF UpdateInv
  <2>2. Pc(d)' = Pc(d) /\ Run(d)' = Run(d)
    BY DEF Run, Pc
  <2>3. UpdateOf(d)' = UpdateOf(d)
    BY DEF UpdateOf, CountedUpdate, Put, Del
  <2> QED  BY <1>2, <2>1, <2>2, <2>3 DEF UpdateFits, Quieter
<1> QED  BY <1>4, <1>5 DEF WriteInv, UpdateInv

(* A write that is read was under way once, and is not any more.           *)
LEMMA ServeWriteKeeps ==
    ASSUME TypeInv, WriteInv, UpdateInv, NEW n \in Node, NEW m \in Node,
           ServeWrite(n, m), \A d \in Call : Fate(d)
    PROVE  WriteInv' /\ UpdateInv'
<1> DEFINE r == Head(stream[n][m])
<1>0. Wires /\ CacheOpsTypeOK
  BY TypeParts
<1>1. /\ r \in RpcRequest /\ r.is \in {"Insert", "Remove"}
      /\ stream[n][m] /= <<>> /\ stream[n][m] \in Seq(RpcRequest)
      /\ stream' = [stream EXCEPT ![n][m] = Tail(@)] /\ UNCHANGED queue
  BY <1>0, ReadsTypes DEF ServeWrite, Reads, Wires, Table
<1>2. PICK c \in Call : c = r.call /\ r \in WriteOf(c)
  BY <1>1, RequestFields, RequestKinds
<1>3. WiresChange({})
  BY <1>0, ServerWires DEF ServerStep
<1>4. \A d \in Call \ {c} : NoNewRun(d)
  BY <1>0, <1>2, RunsBegin
<1> HIDE DEF r
<1>5. UpdateInv' /\ \A d \in Call \ {c} : WriteFits(d)'
  <2>1. Call \ {c} \in SUBSET Call
    OBVIOUS
  <2> QED  BY <1>0, <1>3, <1>4, <2>1, QuietKeeps
<1>6. WriteFits(c)'
  <2>1. Holds(stream[n][m], WriteOf(c))
        /\ (Once(stream[n][m], WriteOf(c)) => ~Holds(Tail(stream[n][m]), WriteOf(c)))
    BY <1>1, <1>2, HoldsTail DEF r
  <2>2. WriteFits(c)
    BY <1>2 DEF WriteInv
  <2>3. Quiet(WriteOf(c))
    BY <1>0, <1>2, <1>3, QuietRequests
  <2>4. n = At(c) /\ m = call[c].to /\ ~Holds(queue[n][m], WriteOf(c))
        /\ ~Holds(Tail(stream[n][m]), WriteOf(c))
    BY <2>1, <2>2 DEF WriteFits
  <2>5. \A a, b \in Node : stream'[a][b] =
            IF a = n /\ b = m THEN Tail(stream[a][b]) ELSE stream[a][b]
    BY <1>0, <1>1 DEF Wires, Table
  <2>6. ASSUME NEW a \in Node, NEW b \in Node
        PROVE  /\ ~Holds(queue'[a][b], WriteOf(c)) /\ ~Holds(stream'[a][b], WriteOf(c))
               /\ Once(queue'[a][b], WriteOf(c)) /\ Once(stream'[a][b], WriteOf(c))
    <3>1. Once(queue'[a][b], WriteOf(c)) /\ Once(stream'[a][b], WriteOf(c))
      BY <2>2, <2>3 DEF Quiet, Quieter, WriteFits
    <3>2. Holds(queue[a][b], WriteOf(c)) \/ Holds(stream[a][b], WriteOf(c))
              => a = n /\ b = m
      BY <2>2, <2>4 DEF WriteFits
    <3> QED  BY <1>1, <2>4, <2>5, <3>1, <3>2
  <2>7. WriteOf(c)' = WriteOf(c)
    BY DEF WriteOf, Insert, Remove
  <2> HIDE DEF WriteOf
  <2> QED  BY <2>6, <2>7 DEF WriteFits
<1> QED  BY <1>5, <1>6 DEF WriteInv

-----------------------------------------------------------------------------
LifeInv == ViewInv /\ RunInv /\ WriteInv /\ UpdateInv

LEMMA ClientLives ==
    ASSUME TypeInv, LifeInv, NEW n \in Node, NEW m \in Node,
           ClientStep(n, m) \/ Fault(n, m)
    PROVE  RunInv' /\ WriteInv' /\ UpdateInv' /\ \A d \in Call : Fate(d)
<1>0. Wires /\ RunInv /\ WriteInv /\ UpdateInv
  BY TypeParts DEF LifeInv
<1>1. UNCHANGED <<call, run, stored>>
  BY DEF ClientStep, Fault, opVars, historyVars
<1>2. RunInv' /\ \A d \in Call : Fate(d)
  BY <1>0, <1>1, SameLives
<1>3. CASE Forward(n, m)
  BY <1>0, <1>1, <1>2, <1>3, ForwardKeeps
<1>4. CASE Around(n, m)
  <2>1. WiresChange({})
    BY <1>0, <1>4, AroundWires
  <2>2. \A d \in Call : NoNewRun(d)
    BY <1>1 DEF NoNewRun
  <2> QED  BY <1>0, <1>2, <2>1, <2>2, QuietKeeps DEF WriteInv
<1> QED  BY <1>3, <1>4 DEF ClientStep, Fault, Around

LEMMA ServerLives ==
    ASSUME TypeInv, LifeInv, NEW n \in Node, NEW m \in Node, ServerStep(n, m)
    PROVE  RunInv' /\ WriteInv' /\ UpdateInv' /\ \A d \in Call : Fate(d)
<1>0. Wires /\ ViewInv /\ RunInv /\ WriteInv /\ UpdateInv
  BY TypeParts DEF LifeInv
<1>1. CASE ServeWrite(n, m)
  BY <1>0, <1>1, ServeWriteLives, ServeWriteKeeps
<1>2. CASE ~ServeWrite(n, m)
  <2>1. UNCHANGED <<call, run>>
    BY <1>2 DEF ServerStep, ServeUpdate, RefuseWrite, opVars
  <2>2. RunInv' /\ \A d \in Call : Fate(d)
    <3>1. CASE ServeUpdate(n, m)
      BY <1>0, <3>1, ServeUpdateLives
    <3>2. CASE ~ServeUpdate(n, m)
      <4>1. UNCHANGED <<call, run, stored>>
        BY <1>2, <3>2 DEF ServerStep, RefuseWrite, opVars, historyVars
      <4> QED  BY <1>0, <4>1, SameLives
    <3> QED  BY <3>1, <3>2
  <2>3. WiresChange({})
    BY <1>0, ServerWires
  <2>4. \A d \in Call : NoNewRun(d)
    BY <2>1 DEF NoNewRun
  <2> QED  BY <1>0, <2>2, <2>3, <2>4, QuietKeeps DEF WriteInv
<1> QED  BY <1>1, <1>2

LEMMA ProcessLives ==
    ASSUME TypeInv, LifeInv, NEW n \in Node,
           PublishView(n) \/ Empty(n) \/ Stop(n) \/ Start(n)
    PROVE  RunInv' /\ WriteInv' /\ UpdateInv' /\ \A d \in Call : Fate(d)
<1>0. Wires /\ CacheOpsTypeOK /\ RunInv /\ WriteInv /\ UpdateInv
  BY TypeParts DEF LifeInv
<1>1. WiresChange({})
  BY <1>0, ProcessWires
<1>2. RunInv' /\ (\A d \in Call : Fate(d)) /\ (\A d \in Call : NoNewRun(d))
  <2>1. CASE Stop(n)
    BY <1>0, <2>1, StopLives, RunsBegin
  <2>2. CASE PublishView(n) \/ Empty(n) \/ Start(n)
    <3>1. UNCHANGED <<call, run, stored>>
      BY <2>2 DEF PublishView, Empty, Start, opVars, historyVars
    <3> QED  BY <1>0, <3>1, SameLives DEF NoNewRun
  <2> QED  BY <2>1, <2>2
<1> QED  BY <1>0, <1>1, <1>2, QuietKeeps DEF WriteInv

LEMMA CallOrRunLives ==
    ASSUME TypeInv, LifeInv, NEW c \in Call,
           BeginCall(c) \/ CallStep(c) \/ RunStep(c)
    PROVE  RunInv' /\ WriteInv' /\ UpdateInv' /\ \A d \in Call : Fate(d)
<1>0. Wires /\ CacheOpsTypeOK /\ ViewInv /\ RunInv /\ WriteInv /\ UpdateInv
  BY TypeParts DEF LifeInv
<1>1. \A d \in Call : NoNewRun(d)
  BY <1>0, RunsBegin
<1>2. RunInv' /\ \A d \in Call : Fate(d)
  <2>1. CASE BeginCall(c)
    BY <1>0, <2>1, BeginLives
  <2>2. CASE CallStep(c)
    BY <1>0, <2>2, StoreHereLives, LookLives, WaitLives DEF CallStep
  <2>3. CASE RunStep(c)
    BY <1>0, <2>3, RunSendsLives, RunStoresLives, LoopLives, OwnRunEndsLives
       DEF RunStep
  <2> QED  BY <2>1, <2>2, <2>3
<1>3. CASE Silent(c)
  <2>1. WiresChange({})
    BY <1>3, SilentWires
  <2> QED  BY <1>0, <1>1, <1>2, <2>1, QuietKeeps DEF WriteInv
<1>4. CASE SendAll(c) \/ Ask(c) \/ RunSends(c)
  BY <1>0, <1>1, <1>2, <1>4, SendKeeps
<1>5. CASE Push(c)
  BY <1>0, <1>1, <1>2, <1>5, PushKeeps
<1> QED  BY <1>3, <1>4, <1>5 DEF Silent, CallStep, RunStep

LEMMA LifeStep ==
    ASSUME TypeInv, LifeInv, [Next]_vars
    PROVE  LifeInv' /\ \A d \in Call : Fate(d)
<1>0. RunInv /\ WriteInv /\ UpdateInv /\ ViewInv
  BY DEF LifeInv
<1>1. ViewInv'
  BY <1>0, ViewsUsable
<1>2. ASSUME UNCHANGED vars
      PROVE  RunInv' /\ WriteInv' /\ UpdateInv' /\ \A d \in Call : Fate(d)
  <2>1. UNCHANGED <<call, run, stored, queue, stream>>
    BY <1>2 DEF vars, requestVars, opVars, historyVars
  <2>2. RunInv' /\ \A d \in Call : Fate(d)
    BY <1>0, <2>1, SameLives
  <2>3. (\A d \in Call : NoNewRun(d)) /\ WiresChange({})
    BY <2>1 DEF NoNewRun, WiresChange, Changes
  <2> QED  BY <1>0, <2>2, <2>3, QuietKeeps, TypeParts DEF WriteInv
<1> QED  BY <1>1, <1>2, ClientLives, ServerLives, ProcessLives, CallOrRunLives
         DEF Next, LifeInv

LEMMA LifeInit == Init => LifeInv
<1> SUFFICES ASSUME Init PROVE LifeInv
  OBVIOUS
<1>1. ViewInv
  BY ViewsInit
<1>2. RunInv
  BY DEF Init, CacheOpsInit, RunInv, RunFits, Fits, NoCall, NoRun, ModOps, Idle
<1>3. \A a, m \in Node : queue[a][m] = <<>> /\ stream[a][m] = <<>>
  BY DEF Init, RequestsInit, NoRequests
<1>4. WriteInv /\ UpdateInv
  BY <1>3, HoldsEmpty DEF WriteInv, WriteFits, UpdateInv, UpdateFits
<1> QED  BY <1>1, <1>2, <1>4 DEF LifeInv

(* What lets the views, the calls, their runs and their requests fit each  *)
(* other holds throughout.                                                 *)
LEMMA LivesHold == Spec => [](TypeInv /\ LifeInv)
<1>1. Init => TypeInv /\ LifeInv
  BY TypesInit, LifeInit
<1>2. TypeInv /\ LifeInv /\ [Next]_vars => TypeInv' /\ LifeInv'
  BY TypesStep, LifeStep DEF LifeInv
<1> QED  BY <1>1, <1>2, PTL DEF Spec

=============================================================================
