---------------------------- MODULE BarDelivery ----------------------------
(***************************************************************************)
(* What a runtime epoch promises about bars, without queues, processes or  *)
(* failures: each bar of a symbol is enqueued once its predecessor was,    *)
(* accepted by the stream once its predecessor was, then completed by the  *)
(* consumer; it never moves back and never skips a stage.                  *)
(***************************************************************************)
EXTENDS Integers

CONSTANTS Symbols, MaxMinute

Bars == Symbols \X (1..MaxMinute)

VARIABLE stage  \* bar -> how far its delivery has come

Stages == {"absent", "enqueued", "accepted", "completed"}

\* The stage of a bar's predecessor is in S, or it is the first of its symbol.
PredecessorIn(b, S) == b[2] > 1 => stage[<<b[1], b[2] - 1>>] \in S

Init == stage = [b \in Bars |-> "absent"]

Enqueue(b) == /\ stage[b] = "absent"
              /\ PredecessorIn(b, Stages \ {"absent"})
              /\ stage' = [stage EXCEPT ![b] = "enqueued"]

Accept(b) == /\ stage[b] = "enqueued"
             /\ PredecessorIn(b, {"accepted", "completed"})
             /\ stage' = [stage EXCEPT ![b] = "accepted"]

Complete(b) == /\ stage[b] = "accepted"
               /\ stage' = [stage EXCEPT ![b] = "completed"]

Next == \E b \in Bars : Enqueue(b) \/ Accept(b) \/ Complete(b)

Spec == Init /\ [][Next]_stage
=============================================================================
