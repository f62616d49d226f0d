-------------------------- MODULE MCSwarmLifecycle --------------------------
(* Small instances of SwarmLifecycle.                                      *)
EXTENDS SwarmLifecycle, Sequences

CONSTANTS u1, u2, s1, k1

Ask(op, u, k, s) == [op |-> op, owner |-> u, key |-> k, swarm |-> s]
Load(s) == [q \in Requests |-> IF q \in DOMAIN s THEN s[q] ELSE NoCall]

Created == Ask("create", u1, k1, s1)
Launch == Ask("launch", u1, NoKey, s1)
StopAll == Ask("stop", u1, NoKey, s1)
StopSome == Ask("stop-machine", u1, NoKey, s1)

(* A create that is repeated, one with another body, one without a chosen  *)
(* id, one of another account that takes the id; two machines; two stops.  *)
Mixed ==
  {Load(<<Created, Created, Created, Ask("create", u2, k1, s1)>>),
   Load(<<Created, Created, Ask("create", u1, k1, Generated), Ask("create", u1, k1, Generated)>>),
   Load(<<Created, Ask("create", u1, NoKey, s1), Launch>>),
   Load(<<Created, Launch, StopAll, StopAll>>),
   Load(<<Created, Launch, StopAll, StopSome>>),
   Load(<<Created, Launch, Launch, StopAll>>)}
=============================================================================
