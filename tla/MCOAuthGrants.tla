---------------------------- MODULE MCOAuthGrants ----------------------------
(* Small instances of OAuthGrants.                                         *)
EXTENDS OAuthGrants, Sequences

CONSTANTS c1, c2, c3, app

Ask(op, c) == [op |-> op, on |-> c]
Load(s) == [q \in Requests |-> IF q \in DOMAIN s THEN s[q] ELSE NoCall]

(* The client of c3 has no name.                                           *)
OneApp == [c \in Connections |-> IF c = c3 THEN Unnamed ELSE app]

(* One consent: its code presented twice, its token refreshed twice, and a *)
(* revocation. Two consents of one app: the tokens of the first in use.    *)
Both == {Load(<<Ask("approve", c1), Ask("approve", c2)>>)}

Mixed ==
  {Load(<<Ask("approve", c1), Ask("exchange", c1), Ask("exchange", c1),
          Ask("refresh", c1), Ask("refresh", c1), Ask("revoke", c1)>>),
   Load(<<Ask("approve", c1), Ask("exchange", c1), Ask("refresh", c1),
          Ask("approve", c2), Ask("exchange", c2), Ask("revoke", c1)>>),
   Load(<<Ask("approve", c1), Ask("approve", c2), Ask("approve", c3), Ask("exchange", c3)>>)}
=============================================================================
