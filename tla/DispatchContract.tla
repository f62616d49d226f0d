-------------------------- MODULE DispatchContract --------------------------
(***************************************************************************)
(* What the callers of a dispatch endpoint are promised, whatever the      *)
(* channels behind it do: a call is refused at once or becomes live; a     *)
(* live call is answered once, for a reason that agrees with how far it    *)
(* got; calls live at the same time are for different operations, and are  *)
(* never more than Limit.                                                  *)
(***************************************************************************)
EXTENDS Naturals, FiniteSets

CONSTANTS Calls, NoOp, Limit

VARIABLES
  status,   \* of each call
  op        \* the operation of each call that has been live

vars == <<status, op>>

Live == {c \in Calls : status[c] \in {"sent", "accepted"}}

(* How the status of one call may change in a step.                        *)
Moves ==
  ({"idle"} \X {"sent", "EXECUTOR_OFFLINE", "BACKPRESSURE", "INVALID_FRAME", "DISCONNECTED"})
  \cup ({"sent"} \X {"accepted", "RESULT", "DISCONNECTED", "EXECUTOR_ACCEPT_TIMEOUT",
                     "DEADLINE_EXCEEDED", "LOST"})
  \cup ({"accepted"} \X {"RESULT", "RESULT_ROUTE_LOST", "DEADLINE_EXCEEDED", "LOST"})

Move(c) == <<status[c], status'[c]>> \in Moves

Exclusive == \A c, d \in Live : op[c] = op[d] => c = d

Init == status = [c \in Calls |-> "idle"] /\ op = [c \in Calls |-> NoOp]

Next ==
  /\ \A c \in Calls : status'[c] = status[c] \/ Move(c)
  /\ \A c \in Live : op'[c] = op[c]
  /\ Exclusive'
  /\ Cardinality(Live') <= Limit

Spec == Init /\ [][Next]_vars
============================================================================
