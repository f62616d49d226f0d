------------------------------ MODULE Ownership ------------------------------
(***************************************************************************)
(* What the claim service promises of each machine: it is free, then owned *)
(* by one account, then revoked for good; its credential works exactly     *)
(* while it is owned; and an account that is told it owns a machine, or    *)
(* has revoked it, does.                                                   *)
(***************************************************************************)
CONSTANTS Machines, Users, Requests, Nobody

VARIABLES
  status,   \* of each machine
  owner,    \* the account that owns or owned it
  told      \* what each request was answered: a record, or nothing yet

vars == <<status, owner, told>>

Untold == [what |-> "nothing", machine |-> Nobody, user |-> Nobody]

Answers == {Untold} \cup
  [what: {"accepted", "revoked", "other"}, machine: Machines, user: Users \cup {Nobody}]

Init ==
  /\ status = [m \in Machines |-> "free"]
  /\ owner = [m \in Machines |-> Nobody]
  /\ told = [q \in Requests |-> Untold]

(* A machine that nobody owns is claimed by u, or its owner revokes it.    *)
Take(m, u) ==
  /\ status[m] = "free"
  /\ status' = [status EXCEPT ![m] = "owned"]
  /\ owner' = [owner EXCEPT ![m] = u]

Revoke(m) ==
  /\ status[m] = "owned"
  /\ status' = [status EXCEPT ![m] = "revoked"]
  /\ UNCHANGED owner

(* An answer says what is true when it is given.                           *)
Truthful(a) ==
  /\ a.what = "accepted" => owner'[a.machine] = a.user
  /\ a.what = "revoked" => owner'[a.machine] = a.user /\ status'[a.machine] = "revoked"

Tell(q) ==
  /\ told[q] = Untold
  /\ \E a \in Answers \ {Untold} : Truthful(a) /\ told' = [told EXCEPT ![q] = a]

Next ==
  /\ \/ \E m \in Machines : Revoke(m) \/ \E u \in Users : Take(m, u)
     \/ UNCHANGED <<status, owner>>
  /\ UNCHANGED told \/ \E q \in Requests : Tell(q)

Spec == Init /\ [][Next]_vars
=============================================================================
