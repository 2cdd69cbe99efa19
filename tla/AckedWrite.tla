------------------------------ MODULE AckedWrite ------------------------------
(***************************************************************************)
(* What an acknowledged write of redhac promises: the leader vouches for a *)
(* write only when it and as many other members as the AckLevel asks for   *)
(* have carried it out, and a caller that has asked the leader is told of  *)
(* success only when the leader has vouched for it.  How requests, answers *)
(* and failures travel is left to CacheOps, which implements this.         *)
(***************************************************************************)
EXTENDS Integers, FiniteSets

CONSTANTS Write, Member, Level

VARIABLES
    asked,      \* [Write -> Nat or -1], the members that must acknowledge it
    holders,    \* [Write -> SUBSET Member], who has carried it out
    verdict,    \* [Write -> {"none", "true", "false"}], what the leader says
    told        \* [Write -> {"none", "ok", "error"}], what the caller is told

ackedVars == <<asked, holders, verdict, told>>

AckedInit ==
    /\ asked = [w \in Write |-> -1]
    /\ holders = [w \in Write |-> {}]
    /\ verdict = [w \in Write |-> "none"]
    /\ told = [w \in Write |-> "none"]

AskFor(w) ==
    /\ asked[w] = -1
    /\ \E k \in Level : asked' = [asked EXCEPT ![w] = k]
    /\ UNCHANGED <<holders, verdict, told>>

CarryOut(w, n) ==
    /\ asked[w] >= 0
    /\ holders' = [holders EXCEPT ![w] = @ \cup {n}]
    /\ UNCHANGED <<asked, verdict, told>>

(* The leader is one of the holders, the acks are from the others.         *)
Vouch(w) ==
    /\ asked[w] >= 0
    /\ verdict[w] = "none"
    /\ Cardinality(holders[w]) > asked[w]
    /\ verdict' = [verdict EXCEPT ![w] = "true"]
    /\ UNCHANGED <<asked, holders, told>>

GiveUp(w) ==
    /\ asked[w] > 0
    /\ verdict[w] = "none"
    /\ verdict' = [verdict EXCEPT ![w] = "false"]
    /\ UNCHANGED <<asked, holders, told>>

Succeed(w) ==
    /\ told[w] = "none"
    /\ verdict[w] = "true"
    /\ told' = [told EXCEPT ![w] = "ok"]
    /\ UNCHANGED <<asked, holders, verdict>>

(* The answer may be lost: a caller is told of failure at any time.        *)
Fail(w) ==
    /\ told[w] = "none"
    /\ told' = [told EXCEPT ![w] = "error"]
    /\ UNCHANGED <<asked, holders, verdict>>

AckedNext ==
    \E w \in Write :
        \/ AskFor(w) \/ Vouch(w) \/ GiveUp(w) \/ Succeed(w) \/ Fail(w)
        \/ \E n \in Member : CarryOut(w, n)

AckedSpec == AckedInit /\ [][AckedNext]_ackedVars

==============================================================================
