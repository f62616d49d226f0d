----------------------------- MODULE MCSessions -----------------------------
(* Small instances of Sessions, and so of Accounts.                        *)
EXTENDS Sessions, Sequences

CONSTANTS ann, bob

Signup(n) == [op |-> "signup", name |-> n]
Login(n, p) == [op |-> "login", name |-> n, password |-> p]
Google == [op |-> "google"]
On(op, p) == [op |-> op, by |-> p]
Asked(s) == [q \in Requests |-> IF q \in DOMAIN s THEN s[q] ELSE NoCall]

(* Signups with one name and with two, before and after Google, and a      *)
(* login with the password of the one that came second or alone.           *)
SignIns ==
  {Asked(<<Google, Signup(ann), Google>>),
   Asked(<<Google, Signup(ann), Signup(bob), Login(bob, 3)>>),
   Asked(<<Google, Signup(ann), Signup(ann), Login(ann, 3)>>),
   Asked(<<Signup(ann), Google, Login(ByEmail, 1)>>)}

(* Uses of a browser session around a logout and around its expiry; a      *)
(* hand-off that is presented twice; an agent session in use.              *)
Uses ==
  {Asked(<<Google, On("check", 1), On("logout", 1), On("handoff", 1)>>),
   Asked(<<Google, On("check", 1), On("check", 1), On("check", 1)>>),
   Asked(<<Google, On("handoff", 1), On("consume", 2), On("consume", 2)>>),
   Asked(<<Google, On("handoff", 1), On("consume", 2), On("use", 3), On("use", 3), On("use", 3)>>)}

Mixed == SignIns \cup Uses
=============================================================================
