------------------------------ MODULE Accounts ------------------------------
(***************************************************************************)
(* Signing up and signing in (connect_auth_service.ts and the statements   *)
(* of repo/connect_account_repo), for the accounts of one address that     *)
(* the policy allows: they may share it, and it is the username that is    *)
(* unique. There are no transactions: other requests run between two       *)
(* statements, and one that is reported to have failed may have been       *)
(* carried out.                                                            *)
(*                                                                         *)
(* The rows of identities are only written and are left out. Sessions      *)
(* extends this module with the sessions that a sign-in creates.           *)
(***************************************************************************)
EXTENDS Naturals, FiniteSets

CONSTANTS
  Usernames,
  MaxRequests, \* how many requests there may be
  Loads,       \* what they may ask for, all together
  ByEmail,     \* what a login gives instead of a username
  UserId,      \* the username of an account that Google made: its own id
  NoCall

Requests == 1..MaxRequests
NoRequest == 0

(* A password is known by the signup that chose it. The requests that use  *)
(* a session or a hand-off name the request that was given it.             *)
CallRecords ==
  [op: {"signup"}, name: Usernames] \cup
  [op: {"login"}, name: Usernames \cup {ByEmail}, password: Requests] \cup
  [op: {"google"}] \cup
  [op: {"check", "logout", "handoff", "consume", "use"}, by: Requests]

ASSUME AccountsAssumption ==
  /\ MaxRequests \in Nat
  /\ ByEmail \notin Usernames /\ UserId \notin Usernames /\ ByEmail # UserId
  /\ NoCall \notin CallRecords
  /\ Loads \subseteq [Requests -> CallRecords \cup {NoCall}]

VARIABLES
  accounts, \* the account whose id each request made up, once it is stored
  clock,    \* how often the clock was read
  call,     \* what each request asks for
  pc,       \* the statement it is at
  at,       \* its reading of the clock
  found,    \* the account it has read
  answer,   \* what its caller is told
  earlier   \* the requests that were over when it came

accountVars == <<accounts, clock, call, pc, at, found, answer, earlier>>

NoAccount == [name |-> ByEmail, password |-> NoRequest, born |-> 0]
Pending == [what |-> "none", user |-> NoRequest]

Op(q) == IF call[q] = NoCall THEN "none" ELSE call[q].op

Goto(q, label) == pc' = [pc EXCEPT ![q] = label] /\ UNCHANGED answer
Settle(q, outcome, user) ==
  /\ pc' = [pc EXCEPT ![q] = "done"]
  /\ answer' = [answer EXCEPT ![q] = [what |-> outcome, user |-> user]]
Failed(q) == Settle(q, "failed", NoRequest)
Told(q, outcome) == answer[q].what = outcome

ReadClock(q) == clock' = clock + 1 /\ at' = [at EXCEPT ![q] = clock + 1]
NoClock == UNCHANGED <<clock, at>>

Stored == {u \in Requests : accounts[u] # NoAccount}
Taken(name) == \E u \in Stored : accounts[u].name = name

(* findByEmail, findPasswordlessByEmail: the oldest that is asked for.     *)
Oldest(users) == {u \in users : \A v \in users : accounts[u].born <= accounts[v].born}

(* Slip: a password is no reason to leave an account out.                  *)
WithOrWithoutPassword == Stored

Passwordless == {u \in Stored : accounts[u].password = NoRequest}
-----------------------------------------------------------------------------
AccountsInit ==
  /\ accounts = [u \in Requests |-> NoAccount]
  /\ clock = 0
  /\ call \in Loads
  /\ pc = [q \in Requests |-> "idle"]
  /\ at = [q \in Requests |-> 0]
  /\ found = [q \in Requests |-> NoRequest]
  /\ answer = [q \in Requests |-> Pending]
  /\ earlier = [q \in Requests |-> {}]

Came(q) == earlier' = [earlier EXCEPT ![q] = {p \in Requests : pc[p] = "done"}]

SignInRequest(q) ==
  /\ pc[q] = "idle" /\ Op(q) \in {"signup", "google", "login"}
  /\ CASE Op(q) = "signup" -> Goto(q, "find-passwordless") /\ ReadClock(q)
       [] Op(q) = "google" -> Goto(q, "find") /\ NoClock
       [] OTHER -> Goto(q, "look-up") /\ NoClock
  /\ Came(q)
  /\ UNCHANGED <<accounts, call, found>>

(* signup()                                                                *)
FindPasswordless(q) ==
  /\ pc[q] = "find-passwordless"
  /\ IF Passwordless = {}
     THEN Goto(q, "create") /\ UNCHANGED found
     ELSE Goto(q, "link") /\ \E u \in Oldest(Passwordless) : found' = [found EXCEPT ![q] = u]
  /\ UNCHANGED <<accounts, clock, call, at, earlier>>

(* Slip: the password is not asked for in the statement.                   *)
OverwritePassword(q) ==
  /\ pc[q] = "link"
  /\ accounts' = [accounts EXCEPT ![found[q]].name = call[q].name, ![found[q]].password = q]
  /\ Settle(q, "created", found[q])
  /\ UNCHANGED <<clock, call, at, found, earlier>>

(* setPassword: it is not asked whether a row was changed.                 *)
LinkPassword(q) ==
  LET u == found[q]
      open == accounts[u].password = NoRequest
      write == accounts' = IF open THEN [accounts EXCEPT ![u].name = call[q].name, ![u].password = q]
                           ELSE accounts IN
  /\ pc[q] = "link"
  /\ \/ open /\ Taken(call[q].name) /\ UNCHANGED accounts /\ Settle(q, "duplicate", NoRequest)
     \/ (open => ~Taken(call[q].name)) /\ write /\ (Settle(q, "created", u) \/ Failed(q))
  /\ UNCHANGED <<clock, call, at, found, earlier>>

Insert(q, name, password) ==
  accounts' = [accounts EXCEPT ![q] = [name |-> name, password |-> password, born |-> at[q]]]

CreateAccount(q) ==
  /\ pc[q] = "create" /\ Op(q) = "signup"
  /\ \/ Taken(call[q].name) /\ UNCHANGED accounts /\ Settle(q, "duplicate", NoRequest)
     \/ /\ ~Taken(call[q].name) /\ Insert(q, call[q].name, q)
        /\ Settle(q, "created", q) \/ Failed(q)
  /\ UNCHANGED <<clock, call, at, found, earlier>>
-----------------------------------------------------------------------------
(* Slip: as signup() does, only an account without a password is sought.   *)
FindAmongPasswordless(q) ==
  /\ pc[q] = "find"
  /\ IF Passwordless = {}
     THEN Goto(q, "create") /\ ReadClock(q) /\ UNCHANGED found
     ELSE /\ \E u \in Oldest(Passwordless) : found' = [found EXCEPT ![q] = u]
          /\ Goto(q, "session") /\ NoClock
  /\ UNCHANGED <<accounts, call, earlier>>

(* google()                                                                *)
Find(q) ==
  /\ pc[q] = "find"
  /\ IF Stored = {}
     THEN Goto(q, "create") /\ ReadClock(q) /\ UNCHANGED found
     ELSE /\ \E u \in Oldest(Stored) : found' = [found EXCEPT ![q] = u]
          /\ Goto(q, "session") /\ NoClock
  /\ UNCHANGED <<accounts, call, earlier>>

CreateGoogle(q) ==
  /\ pc[q] = "create" /\ Op(q) = "google"
  /\ Insert(q, UserId, NoRequest)
  /\ Goto(q, "find-again") \/ Failed(q)
  /\ UNCHANGED <<clock, call, at, found, earlier>>

FindAgain(q) ==
  /\ pc[q] = "find-again"
  /\ \E u \in Oldest(Stored) : found' = [found EXCEPT ![q] = u]
  /\ Goto(q, "session")
  /\ UNCHANGED <<accounts, clock, call, at, earlier>>

(* login(): the password is compared with the row that was read.           *)
LookUp(q) ==
  LET candidates == IF call[q].name = ByEmail THEN Oldest(Stored)
                    ELSE {u \in Stored : accounts[u].name = call[q].name} IN
  /\ pc[q] = "look-up"
  /\ \/ /\ \E u \in candidates : /\ accounts[u].password = call[q].password
                                 /\ found' = [found EXCEPT ![q] = u]
        /\ Goto(q, "session")
     \/ /\ \A u \in candidates : accounts[u].password # call[q].password
        /\ Settle(q, "invalid-credentials", NoRequest) /\ UNCHANGED found
  /\ UNCHANGED <<accounts, clock, call, at, earlier>>

(* A statement fails, or the process is lost.                              *)
Fails(q) ==
  /\ pc[q] \notin {"idle", "done"}
  /\ Failed(q)
  /\ UNCHANGED <<accounts, clock, call, at, found, earlier>>

AccountStep(q) ==
  \/ SignInRequest(q) \/ Fails(q)
  \/ FindPasswordless(q) \/ LinkPassword(q) \/ CreateAccount(q)
  \/ Find(q) \/ CreateGoogle(q) \/ FindAgain(q)
  \/ LookUp(q)
-----------------------------------------------------------------------------
(* The two ran at the same time for a while.                               *)
Overlap(p, q) ==
  p # q /\ "idle" \notin {pc[p], pc[q]} /\ p \notin earlier[q] /\ q \notin earlier[p]

(* Who was told that an account was created can sign in to it afterwards   *)
(* (signup(), login()), with one exception: another signup that ran at the *)
(* same time set the password of the same passwordless account first, and  *)
(* setPassword changed nothing for this one.                               *)
SignupIsGood ==
  \A p, q \in Requests :
    /\ Op(p) = "signup" /\ Told(p, "created") /\ p \in earlier[q]
    /\ call[q] = [op |-> "login", name |-> call[p].name, password |-> p]
    /\ pc[q] = "done"
    => \/ Told(q, "failed")
       \/ Told(q, "session") /\ answer[q].user = answer[p].user
       \/ \E r \in Requests : Overlap(r, p) /\ accounts[answer[p].user].password = r

(* Who signs in with Google again comes to the same account, whatever      *)
(* signups there were in between (google(), findByEmail), unless another   *)
(* account was being created when he came first: its row may be older than *)
(* the one he was given, and be stored later.                              *)
SameAccountAgain ==
  \A p, q \in Requests :
    /\ {Op(p), Op(q)} = {"google"} /\ Told(p, "session") /\ Told(q, "session")
    /\ p \in earlier[q]
    => \/ answer[p].user = answer[q].user
       \/ \E r \in Stored : Overlap(r, p)

(* Once an account has a password, no request changes the password or the  *)
(* username, those that read it without a password included (setPassword). *)
PasswordIsKept ==
  [][\A u \in Requests : accounts[u].password # NoRequest => accounts'[u] = accounts[u]]_accountVars
=============================================================================
