-------------------------------- MODULE MCData --------------------------------
(***************************************************************************)
(* CacheOps for TLC: two or three members, of whom n1 leads at first.      *)
(***************************************************************************)
EXTENDS CacheOps, TLC

CONSTANTS n1, n2, n3, c1, c2

Members == {n1, n2, n3}
Pair    == {n1, n2}
Two     == {c1, c2}
Nobody  == {}
JustLead == {n1}

SwapCalls == Permutations(Two)

Ops(ops, ns)     == [op : ops, at : ns, level : {"Once"}]
Unacked(ops, ns) == [op : ops, at : ns, level : {"Leader"}]

(* Both ways of a write to the leader, lookups, and a write past it.       *)
AnyCalls == [c \in Call |->
    IF c = c1 THEN Ops({"insert", "get"}, {n2})
    ELSE Ops({"insert"}, {n1}) \cup Ops({"get"}, {n2})
        \cup Unacked({"remove", "put"}, {n3})]

(* One write at a time, through the leader.                                *)
OneWrite == [c \in Call |->
    IF c = c1 THEN Ops({"insert", "remove"}, {n2}) \cup Unacked({"insert"}, {n2})
    ELSE {}]

(* Lookups, and writes that share clients and streams with them.           *)
LookAndWrite == [c \in Call |->
    IF c = c1 THEN Ops({"get"}, {n1, n2})
    ELSE Ops({"get"}, {n2}) \cup Ops({"insert"}, {n1, n2})]

(* One after the other: the leader runs what one stream brings in order.   *)
InTurn  == [c \in Call |-> Ops({"insert"}, {n2})]
Inserts == [c \in Call |-> Ops({"insert"}, {n1, n2})]

AnyFault == {"break", "open", "late", "stop", "view"}
JustBreak == {"break"}
NoFault  == {}

NoViews   == {}
QuorumLost ==
    {[quorum |-> FALSE, role |-> "Undefined", to |-> None, hosts |-> 0]}

(* A member that has let another lead has a quorum and does not lead.      *)
LeadLost ==
    QuorumLost \cup
    {[quorum |-> TRUE, role |-> "Undefined", to |-> None, hosts |-> 2]}

=============================================================================
