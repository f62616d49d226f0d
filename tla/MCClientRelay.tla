--------------------------- MODULE MCClientRelay ---------------------------
(* Small instances of ClientRelay.                                         *)
EXTENDS ClientRelay, TLC

CONSTANTS d1, d2, e1, e2, m1, m2, k1, k2, y1, y2

Posted(n, d, row, e, m, k, y) ==
  [n |-> n, device |-> d, authority |-> row, target |-> e,
   command |-> m, correlation |-> k, key |-> y]

Once  == Posted(1, d1, d1, e1, m1, k1, y1)
Again == Posted(2, d1, d1, e1, m1, k1, y1)
Other == Posted(3, d1, d1, e1, m2, k2, y2)

(* A command and its retry; two commands.                                  *)
Posts == {Once, Again, Other}
RetryOrOther == {{Once, Again}, {Once, Other}}

Retry == {Once, Again}
RetryOnly == {Retry}
============================================================================
