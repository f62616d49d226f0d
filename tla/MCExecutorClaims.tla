-------------------------- MODULE MCExecutorClaims --------------------------
(* Small instances of ExecutorClaims: every choice of three requests among *)
(* those of an executor and of a desktop, and some of four.                *)
EXTENDS ExecutorClaims, Sequences, TLC

CONSTANTS e1, d1, u1, u2, c1, c2, c3, t1, t2, t3, k1, w1, w2

Creating(m, c, t) ==
  [op |-> "create", machine |-> m, id |-> c, token |-> t,
   user |-> Nobody, key |-> NoKey, isolate |-> w1]

Decision(op, m, c, u, w) ==
  [op |-> op, machine |-> m, id |-> c, token |-> NoToken, user |-> u, key |-> k1, isolate |-> w]

Owning(op, m, u) ==
  [op |-> op, machine |-> m, id |-> NoClaim, token |-> NoToken,
   user |-> u, key |-> NoKey, isolate |-> w1]

(* The first claim of the executor, the claim that replaces it, decisions  *)
(* of two accounts in two processes; a desktop and its only claim.         *)
Asked ==
  <<Creating(e1, c1, t1), Decision("accept", e1, c1, u1, w1), Decision("accept", e1, c1, u2, w2),
    Creating(e1, c2, t2), Decision("deny", e1, c1, u1, w2), Owning("revoke", e1, u1),
    Owning("rename", e1, u1),
    Creating(d1, c3, t3), Decision("accept", d1, c3, u1, w1), Decision("accept", d1, c3, u1, w2),
    Owning("revoke", d1, u1)>>

Load(s) == [q \in Requests |-> IF q \in DOMAIN s THEN s[q] ELSE NoCall]

(* Requests may overlap in any order, so a choice of them is written once. *)
Small ==
  {Load(<<Asked[i], Asked[j], Asked[k]>>) :
     <<i, j, k>> \in {x \in (DOMAIN Asked) \X (DOMAIN Asked) \X (DOMAIN Asked) :
                        x[1] <= x[2] /\ x[2] <= x[3]}}

Large ==
  {Load(<<Asked[1], Asked[2], Asked[i], Asked[j]>>) :
     <<i, j>> \in {<<3, 4>>, <<3, 6>>, <<4, 6>>, <<2, 6>>, <<6, 6>>, <<6, 7>>, <<8, 9>>, <<8, 10>>}}

Every == Small \cup Large
=============================================================================
