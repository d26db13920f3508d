----------------------------- MODULE DurableLog -----------------------------
(***************************************************************************)
(* What store_c0 promises of its log, with no handles, caches or files: a  *)
(* log that grows one frame at a time, a prefix of it acknowledged, and    *)
(* failures that cut only what was never acknowledged.                     *)
(***************************************************************************)
EXTENDS Naturals, Sequences

CONSTANT Frame

VARIABLES
    log,      \* the frames the next open would replay
    durable   \* the frames some commit has answered for

Prefix(s, t) == Len(s) <= Len(t) /\ \A i \in DOMAIN s : t[i] = s[i]

Init == log = <<>> /\ durable = <<>>

Write == \E f \in Frame : log' = Append(log, f) /\ UNCHANGED durable

Acknowledge == durable' = log /\ UNCHANGED log

Fail ==
    /\ \E n \in Len(durable)..Len(log) : log' = SubSeq(log, 1, n)
    /\ UNCHANGED durable

Next == Write \/ Acknowledge \/ Fail

Spec == Init /\ [][Next]_<<log, durable>>
=============================================================================
