--------------------------- MODULE Sessions_proofs ---------------------------
(* Theorems about Accounts and Sessions, for every value of their          *)
(* constants.                                                              *)
EXTENDS Sessions, FiniteSetTheorems, TLAPS

Browser == {"check", "logout", "handoff"}

(* A request is at a statement of what it asks for.                        *)
Located ==
  \A q \in Requests :
    /\ pc[q] \in {"find-passwordless", "link"} => Op(q) = "signup"
    /\ pc[q] \in {"find", "find-again"} => Op(q) = "google"
    /\ pc[q] = "create" => Op(q) \in {"signup", "google"}
    /\ pc[q] = "look-up" => Op(q) = "login"
    /\ pc[q] = "session" => Op(q) \in {"google", "login"}
    /\ pc[q] \in {"load", "judge"} => OnSession(q)
    /\ pc[q] \in {"account", "expire"} => Op(q) \in Browser
    /\ pc[q] = "touch" => Op(q) \in {"check", "handoff", "use"}
    /\ pc[q] = "end" => Op(q) = "logout"
    /\ pc[q] \in {"presence", "hand-over"} => Op(q) = "handoff"
    /\ pc[q] \in {"consume", "admit"} => Op(q) = "consume"

(* It is told what belongs to it, in the end; and it came after those that *)
(* were over.                                                              *)
Answered ==
  \A q \in Requests :
    /\ ~Told(q, "none") => pc[q] = "done"
    /\ Told(q, "created") => Op(q) = "signup"
    /\ Told(q, "session") => Op(q) \in {"google", "login"}
    /\ Told(q, "ended") => Op(q) = "logout"
    /\ Told(q, "expired") => OnSession(q)
    /\ Admits(q) => Op(q) \in {"check", "handoff", "use"}
    /\ Told(q, "admitted") => Op(q) = "consume"
    /\ Told(q, "handed") => Op(q) = "handoff"
    /\ \A p \in earlier[q] : pc[p] = "done"
    /\ pc[q] = "idle" => earlier[q] = {}

(* It uses a session or a hand-off that has been given.                    *)
Given ==
  \A q \in Requests : pc[q] # "idle" =>
    /\ Op(q) \in Browser => Told(Subject(q), "session")
    /\ Op(q) = "use" => Told(Subject(q), "admitted")
    /\ Op(q) = "consume" => Told(Subject(q), "handed")

(* No two requests read the clock alike.                                   *)
Clocked == {q \in Requests : at[q] # 0}

ClockInv ==
  /\ clock = Cardinality(Clocked)
  /\ \A q \in Requests : at[q] <= clock
  /\ \A p, q \in Requests : at[p] # 0 /\ at[p] = at[q] => p = q
  /\ \A q \in Requests : pc[q] \in {"idle", "find"} => at[q] = 0
  /\ \A q \in Requests : pc[q] \in {"find-passwordless", "create"} => at[q] # 0

(* An account was stored by the request it is known by, and its password   *)
(* was set by a signup that is over; usernames are unique.                 *)
StockInv ==
  /\ \A u \in Stored :
       /\ accounts[u].born = at[u] /\ at[u] # 0 /\ accounts[u].name # ByEmail
       /\ pc[u] \in {"find-again", "session", "done"}
       /\ accounts[u].password # NoRequest => pc[accounts[u].password] = "done"
  /\ \A u, v \in Stored : accounts[u].name \in Usernames /\ accounts[u].name = accounts[v].name => u = v
  /\ \A q \in Requests : pc[q] \in {"link", "session"} => found[q] \in Stored
  /\ \A q \in Requests : Told(q, "session") => answer[q].user \in Stored

Shape == TypeOK /\ Located /\ Answered /\ Given /\ ClockInv /\ StockInv
-----------------------------------------------------------------------------
(* Another signup set the password of the account first.                   *)
Preceded(p) ==
  \E r \in Requests : Overlap(r, p) /\ accounts[answer[p].user].password = r

SignupInv ==
  /\ \A p \in Requests :
       pc[p] = "link" /\ accounts[found[p]].password # NoRequest =>
         accounts[found[p]].password \notin earlier[p]
  /\ \A p \in Requests :
       Told(p, "created") =>
         /\ answer[p].user \in Stored
         /\ \/ accounts[answer[p].user].password = p /\ accounts[answer[p].user].name = call[p].name
            \/ Preceded(p)
  /\ \A p, q \in Requests :
       /\ Told(p, "created") /\ p \in earlier[q]
       /\ call[q] = [op |-> "login", name |-> call[p].name, password |-> p]
       => \/ pc[q] = "look-up" \/ Told(q, "failed") \/ Preceded(p)
          \/ (pc[q] = "session" /\ found[q] = answer[p].user)
          \/ (Told(q, "session") /\ answer[q].user = answer[p].user)

(* Who has come to an account by Google, and to which.                     *)
CameTo(p, u) ==
  /\ Op(p) = "google"
  /\ \/ pc[p] = "session" /\ found[p] = u
     \/ Told(p, "session") /\ answer[p].user = u

GoogleInv ==
  /\ \A p, u \in Requests : CameTo(p, u) =>
       /\ u \in Stored
       /\ \A v \in Requests : v \in Stored \/ pc[v] \in {"find-passwordless", "create"} =>
            at[v] >= accounts[u].born \/ Overlap(v, p)
  /\ \A p, q, u, v \in Requests :
       CameTo(p, u) /\ CameTo(q, v) /\ p \in earlier[q] =>
         \/ u = v
         \/ \E r \in Stored : Overlap(r, p)
-----------------------------------------------------------------------------
Closed(s) == session[s].status # "active"
Ended(p) == Told(p, "ended") \/ (Told(p, "expired") /\ Op(p) # "use")

EndInv ==
  /\ \A p \in Requests : Ended(p) => Closed(Subject(p))
  /\ \A p, q \in Requests : Ended(p) /\ p \in earlier[q] /\ SameSession(p, q) =>
       \/ Op(q) = "logout" \/ pc[q] = "load"
       \/ pc[q] = "judge" /\ seen[q].status # "active"
       \/ pc[q] = "done" /\ ~Admits(q)

Raced(p) ==
  \E r \in Requests :
    Overlap(r, p) /\ SameSession(r, p) /\ answer[r].what \in {"authenticated", "failed"}

AgentInv ==
  \A p \in Requests : Op(p) = "use" =>
    /\ pc[p] = "judge" => seen[p] = session[Subject(p)] \/ Raced(p)
    /\ Told(p, "expired") =>
         /\ Expired(session[Subject(p)]) \/ Raced(p)
         /\ \A q \in Requests : p \in earlier[q] /\ SameSession(p, q) =>
              \/ Raced(p) \/ pc[q] = "load"
              \/ pc[q] = "judge" /\ Expired(seen[q])
              \/ pc[q] = "done" /\ ~Admits(q)

(* Who has taken a hand-off.                                               *)
Redeems(q) == Op(q) = "consume" /\ (pc[q] = "admit" \/ session[q] # NoSession)

HandoffInv ==
  /\ \A h \in Requests : handoff[h] # NoHandoff => pc[h] = "done"
  /\ \A q \in Requests : session[q] # NoSession => pc[q] = "done"
  /\ \A q \in Requests : Redeems(q) => handoff[Subject(q)].status = "consumed"
  /\ \A p, q \in Requests : Redeems(p) /\ Redeems(q) /\ Subject(p) = Subject(q) => p = q

IInv == Shape /\ SignupInv /\ GoogleInv /\ EndInv /\ AgentInv /\ HandoffInv
-----------------------------------------------------------------------------
LEMMA RequestFacts ==
  /\ MaxRequests \in Nat /\ Requests \subseteq Nat \ {0} /\ NoRequest \notin Requests
  /\ IsFiniteSet(Requests) /\ Cardinality(Requests) = MaxRequests
  /\ {IdleTime, AbsoluteTime, HandoffTime, MaxTime} \subseteq Nat
  /\ ByEmail \notin Usernames /\ UserId \notin Usernames /\ ByEmail # UserId
<1>1. MaxRequests \in Nat /\ Requests \subseteq Nat \ {0} /\ NoRequest \notin Requests
  BY AccountsAssumption DEF AccountsAssumption, Requests, NoRequest
<1>2. IsFiniteSet(Requests) /\ Cardinality(Requests) = MaxRequests
  BY <1>1, FS_Interval DEF Requests
<1>3. QED
  BY <1>1, <1>2, AccountsAssumption, SessionsAssumption DEF AccountsAssumption, SessionsAssumption

(* What a request of each kind names.                                      *)
LEMMA CallType ==
  ASSUME TypeOK, NEW q \in Requests
  PROVE  /\ Op(q) = "signup" => call[q].name \in Usernames
         /\ Op(q) = "login" => call[q].password \in Requests
         /\ OnSession(q) \/ Op(q) = "consume" => Subject(q) \in Requests
<1>1. call[q] \in CallRecords \cup {NoCall}
  BY AccountsAssumption DEF AccountsAssumption, TypeOK
<1>2. CASE call[q] = NoCall
  BY <1>2 DEF Op, OnSession
<1>3. CASE call[q] \in CallRecords
  BY <1>3, AccountsAssumption DEF AccountsAssumption, CallRecords, Op, OnSession, Subject
<1>4. QED
  BY <1>1, <1>2, <1>3

(* The clock can be read once more by a request that has not read it.      *)
LEMMA ClockBound ==
  ASSUME TypeOK, ClockInv, NEW q \in Requests, at[q] = 0
  PROVE  /\ clock + 1 \in 0..MaxRequests
         /\ Cardinality(Clocked \cup {q}) = clock + 1
<1> USE RequestFacts
<1>1. Clocked \cup {q} \in SUBSET Requests /\ q \notin Clocked /\ IsFiniteSet(Clocked)
  BY FS_Subset DEF Clocked
<1>2. Cardinality(Clocked \cup {q}) = clock + 1
  BY <1>1, FS_AddElement DEF ClockInv
<1>3. Cardinality(Clocked \cup {q}) <= MaxRequests
  BY <1>1, FS_Subset
<1>4. QED
  BY <1>2, <1>3 DEF TypeOK
-----------------------------------------------------------------------------
(* Who changes what: the other actions leave it alone.                     *)
LEMMA Frames ==
  ASSUME [Next]_vars
  PROVE  /\ call' = call /\ (time' = time \/ Tick)
         /\ \/ UNCHANGED accounts
            \/ \E q \in Requests : LinkPassword(q) \/ CreateAccount(q) \/ CreateGoogle(q)
         /\ \/ UNCHANGED <<clock, at>>
            \/ \E q \in Requests : (SignInRequest(q) \/ Find(q)) /\ ReadClock(q)
         /\ \/ UNCHANGED found
            \/ \E q \in Requests : FindPasswordless(q) \/ Find(q) \/ FindAgain(q) \/ LookUp(q)
         /\ \/ UNCHANGED session
            \/ \E q \in Requests : \/ SignIn(q) \/ Expire(q) \/ End(q) \/ Touch(q)
                                   \/ CreateAgentSession(q)
         /\ UNCHANGED handoff \/ \E q \in Requests : CreateHandoff(q) \/ Consume(q)
         /\ UNCHANGED seen \/ \E q \in Requests : Load(q)
<1>1. ASSUME NEW q \in Requests, AccountStep(q), UNCHANGED sessionVars
      PROVE  /\ UNCHANGED <<call, time, session, handoff, seen>>
             /\ UNCHANGED accounts \/ LinkPassword(q) \/ CreateAccount(q) \/ CreateGoogle(q)
             /\ UNCHANGED <<clock, at>> \/ ((SignInRequest(q) \/ Find(q)) /\ ReadClock(q))
             /\ UNCHANGED found \/ FindPasswordless(q) \/ Find(q) \/ FindAgain(q) \/ LookUp(q)
  BY <1>1 DEF AccountStep, sessionVars, NoClock, SignInRequest, Fails, FindPasswordless, LinkPassword,
              CreateAccount, Find, CreateGoogle, FindAgain, LookUp
<1>2. ASSUME NEW q \in Requests, SessionStep(q)
      PROVE  /\ UNCHANGED <<call, time, accounts, clock, at, found>>
             /\ UNCHANGED session \/ SignIn(q) \/ Expire(q) \/ End(q) \/ Touch(q) \/ CreateAgentSession(q)
             /\ UNCHANGED handoff \/ CreateHandoff(q) \/ Consume(q)
             /\ UNCHANGED seen \/ Load(q)
  BY <1>2 DEF SessionStep, sameAccounts, SignIn, SessionRequest, Load, Judge, JudgeAgent, Account,
              Expire, End, Touch, Presence, CreateHandoff, Consume, CreateAgentSession
<1>3. Tick \/ UNCHANGED vars => UNCHANGED <<call, accounts, clock, at, found, session, handoff, seen>>
                               /\ (time' = time \/ Tick)
  BY DEF Tick, vars, accountVars, sessionVars
<1>4. QED
  BY <1>1, <1>2, <1>3 DEF Next

(* What a step may do to a request p: it comes once, it comes to a         *)
(* statement from the one before, and it is told something once, by the    *)
(* last.                                                                   *)
Arrives(p) ==
  /\ pc[p] # "idle" => pc'[p] # "idle" /\ earlier'[p] = earlier[p]
  /\ pc[p] = "idle" /\ pc'[p] = "idle" => earlier'[p] = earlier[p]
  /\ pc[p] = "idle" /\ pc'[p] # "idle" =>
       Came(p) /\ (SignInRequest(p) \/ SessionRequest(p)) /\ answer'[p] = answer[p]

Comes(p) ==
  /\ pc'[p] \in {"find-passwordless", "find", "look-up"} => pc[p] = pc'[p] \/ SignInRequest(p)
  /\ pc'[p] = "link" => pc[p] = "link" \/ FindPasswordless(p)
  /\ pc'[p] = "create" => pc[p] = "create" \/ FindPasswordless(p) \/ Find(p)
  /\ pc'[p] = "find-again" => pc[p] = "find-again" \/ CreateGoogle(p)
  /\ pc[p] \in {"find-again", "session"} => pc'[p] \in {"find-again", "session", "done"}
  /\ pc'[p] = "session" => pc[p] = "session" \/ Find(p) \/ FindAgain(p) \/ LookUp(p)
  /\ pc'[p] = "load" => pc[p] = "load" \/ SessionRequest(p)
  /\ pc'[p] = "judge" => pc[p] = "judge" \/ Load(p)
  /\ pc'[p] \in {"account", "expire"} => pc'[p] = pc[p] \/ Judge(p)
  /\ pc'[p] = "touch" => pc[p] = "touch" \/ JudgeAgent(p) \/ Account(p)
  /\ pc'[p] \in {"end", "presence", "hand-over"} =>
       pc'[p] = pc[p] \/ Account(p) \/ Touch(p) \/ Presence(p)
  /\ pc'[p] = "admit" => pc[p] = "admit" \/ Consume(p)

Settles(p) ==
  /\ pc[p] = "done" => pc'[p] = "done" /\ answer'[p] = answer[p]
  /\ answer'[p] # answer[p] =>
       /\ pc'[p] = "done" /\ pc[p] # "idle"
       /\ Told(p, "created")' => LinkPassword(p) \/ CreateAccount(p)
       /\ Told(p, "session")' => SignIn(p)
       /\ Told(p, "expired")' => JudgeAgent(p) \/ Expire(p)
       /\ Told(p, "ended")' => End(p)
       /\ Told(p, "authenticated")' => Touch(p) /\ Op(p) # "handoff"
       /\ Told(p, "offline")' => Presence(p)
       /\ Told(p, "handed")' => CreateHandoff(p)
       /\ Told(p, "admitted")' => CreateAgentSession(p)

Moves(p) == Arrives(p) /\ Comes(p) /\ Settles(p)

LEMMA MovesStep ==
  ASSUME Shape, [Next]_vars, NEW p \in Requests
  PROVE  Moves(p)
<1> USE DEF Shape, TypeOK, Moves, Arrives, Comes, Settles, Told, accountVars, Goto, Settle, Failed, Ends, Came
<1>1. CASE UNCHANGED vars
  BY <1>1 DEF vars, accountVars, sessionVars
<1>2. CASE Tick
  BY <1>2 DEF Tick, accountVars
<1>3. ASSUME NEW q \in Requests, SignInRequest(q), UNCHANGED sessionVars
      PROVE  Moves(p)
  BY <1>3 DEF SignInRequest, sessionVars
<1>4. ASSUME NEW q \in Requests, Fails(q), UNCHANGED sessionVars
      PROVE  Moves(p)
  BY <1>4 DEF Fails, sessionVars, Failed
<1>5. ASSUME NEW q \in Requests, FindPasswordless(q), UNCHANGED sessionVars
      PROVE  Moves(p)
  BY <1>5 DEF FindPasswordless, sessionVars, Oldest, Passwordless, Stored
<1>6. ASSUME NEW q \in Requests, LinkPassword(q), UNCHANGED sessionVars
      PROVE  Moves(p)
  <2>1. /\ pc'[q] = "done" /\ answer'[q].what \in {"duplicate", "created", "failed"}
        /\ earlier' = earlier /\ pc[q] = "link"
    BY <1>6 DEF LinkPassword
  <2>2. p # q => pc'[p] = pc[p] /\ answer'[p] = answer[p]
    BY <1>6 DEF LinkPassword
  <2>3. QED
    BY <1>6, <2>1, <2>2
<1>7. ASSUME NEW q \in Requests, CreateAccount(q), UNCHANGED sessionVars
      PROVE  Moves(p)
  BY <1>7 DEF CreateAccount, sessionVars, Insert, Failed
<1>8. ASSUME NEW q \in Requests, Find(q), UNCHANGED sessionVars
      PROVE  Moves(p)
  BY <1>8 DEF Find, sessionVars, Oldest, Stored
<1>9. ASSUME NEW q \in Requests, CreateGoogle(q), UNCHANGED sessionVars
      PROVE  Moves(p)
  <2>1. /\ \/ pc'[q] = "find-again" /\ answer'[q] = answer[q]
           \/ pc'[q] = "done" /\ answer'[q].what = "failed"
        /\ earlier' = earlier /\ pc[q] = "create"
    BY <1>9 DEF CreateGoogle
  <2>2. p # q => pc'[p] = pc[p] /\ answer'[p] = answer[p]
    BY <1>9 DEF CreateGoogle
  <2>3. QED
    BY <1>9, <2>1, <2>2
<1>10. ASSUME NEW q \in Requests, FindAgain(q), UNCHANGED sessionVars
      PROVE  Moves(p)
  BY <1>10 DEF FindAgain, sessionVars, Oldest, Stored
<1>11. ASSUME NEW q \in Requests, LookUp(q), UNCHANGED sessionVars
      PROVE  Moves(p)
  BY <1>11 DEF LookUp, sessionVars, Oldest, Stored
<1>12. ASSUME NEW q \in Requests, SignIn(q)
      PROVE  Moves(p)
  BY <1>12 DEF SignIn, sameAccounts
<1>13. ASSUME NEW q \in Requests, SessionRequest(q)
      PROVE  Moves(p)
  BY <1>13 DEF SessionRequest, sameAccounts
<1>14. ASSUME NEW q \in Requests, Load(q)
      PROVE  Moves(p)
  BY <1>14 DEF Load, sameAccounts
<1>15. ASSUME NEW q \in Requests, Judge(q)
      PROVE  Moves(p)
  BY <1>15 DEF Judge, sameAccounts
<1>16. ASSUME NEW q \in Requests, JudgeAgent(q)
      PROVE  Moves(p)
  BY <1>16 DEF JudgeAgent, sameAccounts
<1>17. ASSUME NEW q \in Requests, Account(q)
      PROVE  Moves(p)
  BY <1>17 DEF Account, sameAccounts
<1>18. ASSUME NEW q \in Requests, Expire(q)
      PROVE  Moves(p)
  <2>1. /\ pc'[q] = "done" /\ answer'[q].what \in {"expired", "failed"}
        /\ earlier' = earlier /\ pc[q] = "expire"
    BY <1>18 DEF Expire, sameAccounts
  <2>2. p # q => pc'[p] = pc[p] /\ answer'[p] = answer[p]
    BY <1>18 DEF Expire, sameAccounts
  <2>3. QED
    BY <1>18, <2>1, <2>2
<1>19. ASSUME NEW q \in Requests, End(q)
      PROVE  Moves(p)
  <2>1. /\ pc'[q] = "done" /\ answer'[q].what \in {"ended", "failed"}
        /\ earlier' = earlier /\ pc[q] = "end"
    BY <1>19 DEF End, sameAccounts
  <2>2. p # q => pc'[p] = pc[p] /\ answer'[p] = answer[p]
    BY <1>19 DEF End, sameAccounts
  <2>3. QED
    BY <1>19, <2>1, <2>2
<1>20. ASSUME NEW q \in Requests, Touch(q)
      PROVE  Moves(p)
  <2>1. /\ \/ pc'[q] = "presence" /\ answer'[q] = answer[q]
           \/ pc'[q] = "done" /\ answer'[q].what = "failed"
           \/ pc'[q] = "done" /\ answer'[q].what = "authenticated" /\ Op(q) # "handoff"
        /\ earlier' = earlier /\ pc[q] = "touch"
    BY <1>20 DEF Touch, sameAccounts
  <2>2. p # q => pc'[p] = pc[p] /\ answer'[p] = answer[p]
    BY <1>20 DEF Touch, sameAccounts
  <2>3. QED
    BY <1>20, <2>1, <2>2
<1>21. ASSUME NEW q \in Requests, Presence(q)
      PROVE  Moves(p)
  BY <1>21 DEF Presence, sameAccounts
<1>22. ASSUME NEW q \in Requests, CreateHandoff(q)
      PROVE  Moves(p)
  <2>1. /\ pc'[q] = "done" /\ answer'[q].what \in {"handed", "failed"}
        /\ earlier' = earlier /\ pc[q] = "hand-over"
    BY <1>22 DEF CreateHandoff, sameAccounts
  <2>2. p # q => pc'[p] = pc[p] /\ answer'[p] = answer[p]
    BY <1>22 DEF CreateHandoff, sameAccounts
  <2>3. QED
    BY <1>22, <2>1, <2>2
<1>23. ASSUME NEW q \in Requests, Consume(q)
      PROVE  Moves(p)
  <2>1. /\ \/ pc'[q] = "admit" /\ answer'[q] = answer[q]
           \/ pc'[q] = "done" /\ answer'[q].what \in {"failed", "unauthorized"}
        /\ earlier' = earlier /\ pc[q] = "consume"
    BY <1>23 DEF Consume, sameAccounts
  <2>2. p # q => pc'[p] = pc[p] /\ answer'[p] = answer[p]
    BY <1>23 DEF Consume, sameAccounts
  <2>3. QED
    BY <1>23, <2>1, <2>2
<1>24. ASSUME NEW q \in Requests, CreateAgentSession(q)
      PROVE  Moves(p)
  BY <1>24 DEF CreateAgentSession, sameAccounts
<1>25. QED
  BY <1>1, <1>2, <1>3, <1>4, <1>5, <1>6, <1>7, <1>8, <1>9, <1>10, <1>11, <1>12, <1>13, <1>14, <1>15, <1>16, <1>17, <1>18, <1>19, <1>20, <1>21, <1>22, <1>23, <1>24 DEF Next, AccountStep, SessionStep

LEMMA AnsweredStep ==
  ASSUME Shape, [Next]_vars
  PROVE  Answered'
<1>1. call' = call /\ \A q \in Requests : Moves(q)
  BY MovesStep, Frames
<1>2. \A q \in Requests : Op(q)' = Op(q) /\ OnSession(q)' = OnSession(q)
  BY <1>1 DEF Op, OnSession
<1>3. ASSUME NEW q \in Requests
      PROVE  /\ ~Told(q, "none")' => pc'[q] = "done"
             /\ \A p \in earlier'[q] : pc'[p] = "done"
             /\ pc'[q] = "idle" => earlier'[q] = {}
  <2>1. ~Told(q, "none")' => pc'[q] = "done"
    BY <1>1 DEF Shape, Answered, Told, Moves, Settles
  <2>2. earlier'[q] = earlier[q] \/ earlier'[q] = {p \in Requests : pc[p] = "done"}
    BY <1>1 DEF Moves, Arrives, Came, Shape, TypeOK
  <2>3. \A p \in Requests : pc[p] = "done" => pc'[p] = "done"
    BY <1>1 DEF Moves, Settles
  <2>4. earlier[q] \in SUBSET Requests
    BY DEF Shape, TypeOK
  <2>5. \A p \in earlier'[q] : pc'[p] = "done"
    BY <2>2, <2>3, <2>4 DEF Shape, Answered
  <2>6. pc'[q] = "idle" => earlier'[q] = {}
    BY <1>1 DEF Shape, Answered, Moves, Arrives
  <2>7. QED
    BY <2>1, <2>5, <2>6
<1>4. ASSUME NEW q \in Requests
      PROVE  /\ Told(q, "created")' => Op(q) = "signup"
             /\ Told(q, "session")' => Op(q) \in {"google", "login"}
             /\ Told(q, "ended")' => Op(q) = "logout"
             /\ Told(q, "expired")' => OnSession(q)
             /\ Admits(q)' => Op(q) \in {"check", "handoff", "use"}
             /\ Told(q, "admitted")' => Op(q) = "consume"
             /\ Told(q, "handed")' => Op(q) = "handoff"
  <2>1. CASE answer'[q] = answer[q]
    BY <2>1 DEF Shape, Answered, Told, Admits
  <2>2. CASE answer'[q] # answer[q]
    <3>1. /\ Told(q, "created")' => pc[q] \in {"link", "create"}  /\ Op(q) = "signup"
          /\ Told(q, "session")' => pc[q] = "session"
          /\ Told(q, "expired")' => pc[q] \in {"judge", "expire"}
          /\ Told(q, "ended")' => pc[q] = "end"
          /\ Told(q, "authenticated")' => pc[q] = "touch"
          /\ Told(q, "offline")' => pc[q] = "presence"
          /\ Told(q, "handed")' => pc[q] = "hand-over"
          /\ Told(q, "admitted")' => pc[q] = "admit"
      <4>1. LinkPassword(q) \/ CreateAccount(q) => pc[q] \in {"link", "create"} /\ Op(q) = "signup"
        BY DEF LinkPassword, CreateAccount, Shape, Located
      <4>2. SignIn(q) => pc[q] = "session"
        BY DEF SignIn
      <4>3. JudgeAgent(q) \/ Expire(q) => pc[q] \in {"judge", "expire"}
        BY DEF JudgeAgent, Expire
      <4>4. (End(q) => pc[q] = "end") /\ (Touch(q) => pc[q] = "touch")
        BY DEF End, Touch
      <4>5. /\ Presence(q) => pc[q] = "presence"
            /\ CreateHandoff(q) => pc[q] = "hand-over"
            /\ CreateAgentSession(q) => pc[q] = "admit"
        BY DEF Presence, CreateHandoff, CreateAgentSession
      <4>6. QED
        BY <1>1, <2>2, <4>1, <4>2, <4>3, <4>4, <4>5 DEF Moves, Settles
    <3>2. Admits(q)' => Told(q, "authenticated")' \/ Told(q, "offline")' \/ Told(q, "handed")'
      BY DEF Admits, Told
    <3>3. QED
      BY <3>1, <3>2 DEF Shape, Located, OnSession, Browser
  <2>3. QED
    BY <2>1, <2>2
<1>5. QED
  BY <1>2, <1>3, <1>4 DEF Answered

LEMMA LocatedStep ==
  ASSUME Shape, [Next]_vars
  PROVE  Located'
<1> USE DEF Shape, TypeOK, Located, Op, OnSession, Browser, accountVars, Goto, Settle, Failed, Ends
<1>1. CASE UNCHANGED vars
  BY <1>1 DEF vars, accountVars, sessionVars
<1>2. CASE Tick
  BY <1>2 DEF Tick, accountVars
<1>3. ASSUME NEW q \in Requests, SignInRequest(q), UNCHANGED sessionVars
      PROVE  Located'
  BY <1>3 DEF SignInRequest, sessionVars
<1>4. ASSUME NEW q \in Requests, Fails(q), UNCHANGED sessionVars
      PROVE  Located'
  BY <1>4 DEF Fails, sessionVars, Failed
<1>5. ASSUME NEW q \in Requests, FindPasswordless(q), UNCHANGED sessionVars
      PROVE  Located'
  BY <1>5 DEF FindPasswordless, sessionVars, Oldest, Passwordless, Stored
<1>6. ASSUME NEW q \in Requests, LinkPassword(q), UNCHANGED sessionVars
      PROVE  Located'
  BY <1>6 DEF LinkPassword, sessionVars, Failed
<1>7. ASSUME NEW q \in Requests, CreateAccount(q), UNCHANGED sessionVars
      PROVE  Located'
  BY <1>7 DEF CreateAccount, sessionVars, Insert, Failed
<1>8. ASSUME NEW q \in Requests, Find(q), UNCHANGED sessionVars
      PROVE  Located'
  BY <1>8 DEF Find, sessionVars, Oldest, Stored
<1>9. ASSUME NEW q \in Requests, CreateGoogle(q), UNCHANGED sessionVars
      PROVE  Located'
  BY <1>9 DEF CreateGoogle, sessionVars, Insert, Failed
<1>10. ASSUME NEW q \in Requests, FindAgain(q), UNCHANGED sessionVars
      PROVE  Located'
  BY <1>10 DEF FindAgain, sessionVars, Oldest, Stored
<1>11. ASSUME NEW q \in Requests, LookUp(q), UNCHANGED sessionVars
      PROVE  Located'
  BY <1>11 DEF LookUp, sessionVars, Oldest, Stored
<1>12. ASSUME NEW q \in Requests, SignIn(q)
      PROVE  Located'
  BY <1>12 DEF SignIn, sameAccounts
<1>13. ASSUME NEW q \in Requests, SessionRequest(q)
      PROVE  Located'
  BY <1>13 DEF SessionRequest, sameAccounts
<1>14. ASSUME NEW q \in Requests, Load(q)
      PROVE  Located'
  BY <1>14 DEF Load, sameAccounts
<1>15. ASSUME NEW q \in Requests, Judge(q)
      PROVE  Located'
  BY <1>15 DEF Judge, sameAccounts
<1>16. ASSUME NEW q \in Requests, JudgeAgent(q)
      PROVE  Located'
  BY <1>16 DEF JudgeAgent, sameAccounts
<1>17. ASSUME NEW q \in Requests, Account(q)
      PROVE  Located'
  BY <1>17 DEF Account, sameAccounts
<1>18. ASSUME NEW q \in Requests, Expire(q)
      PROVE  Located'
  BY <1>18 DEF Expire, sameAccounts
<1>19. ASSUME NEW q \in Requests, End(q)
      PROVE  Located'
  BY <1>19 DEF End, sameAccounts
<1>20. ASSUME NEW q \in Requests, Touch(q)
      PROVE  Located'
  BY <1>20 DEF Touch, sameAccounts
<1>21. ASSUME NEW q \in Requests, Presence(q)
      PROVE  Located'
  BY <1>21 DEF Presence, sameAccounts
<1>22. ASSUME NEW q \in Requests, CreateHandoff(q)
      PROVE  Located'
  BY <1>22 DEF CreateHandoff, sameAccounts
<1>23. ASSUME NEW q \in Requests, Consume(q)
      PROVE  Located'
  BY <1>23 DEF Consume, sameAccounts
<1>24. ASSUME NEW q \in Requests, CreateAgentSession(q)
      PROVE  Located'
  BY <1>24 DEF CreateAgentSession, sameAccounts
<1>25. QED
  BY <1>1, <1>2, <1>3, <1>4, <1>5, <1>6, <1>7, <1>8, <1>9, <1>10, <1>11, <1>12, <1>13, <1>14, <1>15, <1>16, <1>17, <1>18, <1>19, <1>20, <1>21, <1>22, <1>23, <1>24 DEF Next, AccountStep, SessionStep

(* setPassword writes the name and the password of an account that has no  *)
(* password, or nothing.                                                   *)
AccountRows == [name: Names, password: Requests \cup {NoRequest}, born: 0..MaxRequests]

LEMMA LinkEffect ==
  ASSUME Shape, NEW q \in Requests, LinkPassword(q)
  PROVE  /\ found[q] \in Requests /\ found[q] \in Stored /\ Op(q) = "signup"
         /\ accounts' \in [Requests -> AccountRows]
         /\ \/ /\ accounts' = accounts
               /\ accounts[found[q]].password # NoRequest \/ Settle(q, "duplicate", NoRequest)
            \/ /\ accounts[found[q]].password = NoRequest /\ ~Taken(call[q].name)
               /\ \A v \in Requests \ {found[q]} : accounts'[v] = accounts[v]
               /\ accounts'[found[q]].name = call[q].name /\ accounts'[found[q]].password = q
               /\ accounts'[found[q]].born = accounts[found[q]].born
<1> DEFINE u == found[q]
<1>1. u \in Requests /\ u \in Stored /\ Op(q) = "signup"
  BY DEF LinkPassword, Shape, StockInv, Stored, Located
<1>2. accounts \in [Requests -> AccountRows] /\ call[q].name \in Names
  BY <1>1, CallType DEF Shape, TypeOK, AccountRows, Names
<1>3. \/ /\ accounts' = accounts
         /\ accounts[found[q]].password # NoRequest \/ Settle(q, "duplicate", NoRequest)
      \/ /\ accounts[u].password = NoRequest /\ ~Taken(call[q].name)
         /\ accounts' = [accounts EXCEPT ![u].name = call[q].name, ![u].password = q]
  BY DEF LinkPassword
<1>4. QED
  BY <1>1, <1>2, <1>3 DEF AccountRows

(* The writes to a session keep the time it was created for.               *)
LEMMA RowEffects ==
  /\ \A row \in Rows : /\ Revoked(row) \in Rows /\ Revoked(row).status # "active"
                       /\ Revoked(row).idle = row.idle /\ Revoked(row).expires = row.expires
                       /\ row.status # "active" => Revoked(row) = row
  /\ \A row \in Rows, t \in Nat : [row EXCEPT !.idle = t] \in Rows
  /\ \A t \in Nat, e \in Nat : NewIdle(t, e) \in Nat
BY RequestFacts DEF Rows, Revoked, NewIdle, Least

HandoffRows == [status: {"none", "open", "consumed"}, expires: Nat]

LEMMA HandoffEffects ==
  \A f \in [Requests -> HandoffRows], h \in Requests :
    [f EXCEPT ![h].status = "consumed"] \in [Requests -> HandoffRows]
<1>1. \A row \in HandoffRows : [row EXCEPT !.status = "consumed"] \in HandoffRows
  BY DEF HandoffRows
<1>2. QED
  BY <1>1

(* A request goes on, or is told something.                                *)
LEMMA MoveType ==
  ASSUME TypeOK, NEW q \in Requests, NEW label \in Statements, NEW what \in Outcomes,
         NEW user \in Requests \cup {NoRequest}, Goto(q, label) \/ Settle(q, what, user)
  PROVE  /\ pc' \in [Requests -> Statements]
         /\ answer' \in [Requests -> [what: Outcomes, user: Requests \cup {NoRequest}]]
<1>1. pc \in [Requests -> Statements] /\ "done" \in Statements
      /\ answer \in [Requests -> [what: Outcomes, user: Requests \cup {NoRequest}]]
  BY DEF TypeOK, Statements
<1>2. QED
  BY <1>1 DEF Goto, Settle

LEMMA MoveTypes ==
  ASSUME Shape, NEW q \in Requests, Touch(q) \/ Presence(q) \/ Consume(q) \/ CreateAgentSession(q)
  PROVE  /\ pc' \in [Requests -> Statements]
         /\ answer' \in [Requests -> [what: Outcomes, user: Requests \cup {NoRequest}]]
<1>1. \/ \E label \in {"presence", "hand-over", "admit"} : Goto(q, label)
      \/ \E what \in {"authenticated", "offline", "unauthorized", "admitted", "failed"} : Settle(q, what, NoRequest)
  BY DEF Touch, Presence, Consume, CreateAgentSession, Ends
<1>2. /\ {"presence", "hand-over", "admit"} \subseteq Statements
      /\ {"authenticated", "offline", "unauthorized", "admitted", "failed"} \subseteq Outcomes
  BY DEF Statements, Outcomes
<1>3. QED
  BY <1>1, <1>2, MoveType DEF Shape

LEMMA TouchType ==
  ASSUME Shape, NEW q \in Requests, Touch(q)
  PROVE  session' \in [Requests -> Rows]
<1> DEFINE s == Subject(q)
           t == NewIdle(now[q], seen[q].expires)
<1>1. s \in Requests
  BY CallType DEF Shape, Touch, Located, OnSession
<1>2. t \in Nat
  BY RowEffects, RequestFacts DEF Shape, TypeOK, Rows
<1>3. session \in [Requests -> Rows]
  BY DEF Shape, TypeOK
<1>4. [session[s] EXCEPT !.idle = t] \in Rows
  BY <1>1, <1>2, <1>3, RowEffects
<1>5. session' = session \/ session' = [session EXCEPT ![s] = [session[s] EXCEPT !.idle = t]]
  BY <1>1, <1>3 DEF Touch
<1>6. QED
  BY <1>1, <1>3, <1>4, <1>5

LEMMA HandoffType ==
  ASSUME Shape, NEW q \in Requests, CreateHandoff(q) \/ Consume(q)
  PROVE  handoff' \in [Requests -> HandoffRows]
<1>1. handoff \in [Requests -> HandoffRows]
  BY DEF Shape, TypeOK, HandoffRows
<1>2. ASSUME CreateHandoff(q)
      PROVE  handoff' \in [Requests -> HandoffRows]
  <2>1. now[q] + HandoffTime \in Nat
    BY RequestFacts DEF Shape, TypeOK
  <2>2. QED
    BY <1>1, <1>2, <2>1 DEF CreateHandoff, HandoffRows
<1>3. ASSUME Consume(q)
      PROVE  handoff' \in [Requests -> HandoffRows]
  <2>1. call[q].by \in Requests
    BY <1>3, CallType DEF Consume, Shape, Located, Subject
  <2>2. handoff' = handoff \/ handoff' = [handoff EXCEPT ![call[q].by].status = "consumed"]
    BY <1>3 DEF Consume
  <2>3. QED
    BY <1>1, <2>1, <2>2, HandoffEffects
<1>4. QED
  BY <1>2, <1>3

LEMMA TypeStep ==
  ASSUME Shape, [Next]_vars
  PROVE  TypeOK'
<1> USE RequestFacts DEF Shape, TypeOK, Statements, Outcomes, Names, Rows, accountVars, Goto, Settle, Failed, Ends, Told, Came, NoClock, ReadClock, Reads
<1>1. CASE UNCHANGED vars
  BY <1>1 DEF vars, accountVars, sessionVars
<1>2. CASE Tick
  BY <1>2 DEF Tick, accountVars
<1>3. ASSUME NEW q \in Requests, SignInRequest(q), UNCHANGED sessionVars
      PROVE  TypeOK'
  <2>1. at[q] = 0
    BY <1>3 DEF SignInRequest, ClockInv
  <2>2. clock + 1 \in 0..MaxRequests
    BY <2>1, ClockBound
  <2>3. clock' \in 0..MaxRequests /\ at' \in [Requests -> 0..MaxRequests]
    BY <1>3, <2>2 DEF SignInRequest
  <2>4. pc' \in [Requests -> Statements] /\ earlier' \in [Requests -> SUBSET Requests]
        /\ UNCHANGED <<accounts, call, found, answer, sessionVars>>
    BY <1>3 DEF SignInRequest
  <2>5. QED
    BY <2>3, <2>4 DEF sessionVars
<1>4. ASSUME NEW q \in Requests, Fails(q), UNCHANGED sessionVars
      PROVE  TypeOK'
  BY <1>4 DEF Fails, sessionVars, Failed
<1>5. ASSUME NEW q \in Requests, FindPasswordless(q), UNCHANGED sessionVars
      PROVE  TypeOK'
  BY <1>5 DEF FindPasswordless, sessionVars, Oldest, Passwordless, Stored
<1>6. ASSUME NEW q \in Requests, LinkPassword(q), UNCHANGED sessionVars
      PROVE  TypeOK'
  <2>1. found[q] \in Requests /\ call[q].name \in Names
    BY <1>6, LinkEffect, CallType
  <2>2. accounts' \in [Requests -> [name: Names, password: Requests \cup {NoRequest}, born: 0..MaxRequests]]
    BY <1>6, LinkEffect DEF AccountRows
  <2>3. /\ pc' \in [Requests -> Statements]
        /\ answer' \in [Requests -> [what: Outcomes, user: Requests \cup {NoRequest}]]
    <3>1. \/ Settle(q, "duplicate", NoRequest) \/ Settle(q, "created", found[q]) \/ Failed(q)
      BY <1>6 DEF LinkPassword
    <3>2. QED
      BY <2>1, <3>1
  <2>4. QED
    BY <1>6, <2>2, <2>3 DEF LinkPassword, sessionVars
<1>7. ASSUME NEW q \in Requests, CreateAccount(q), UNCHANGED sessionVars
      PROVE  TypeOK'
  <2>1. call[q].name \in Names
    BY <1>7, CallType DEF CreateAccount
  <2>2. accounts' \in [Requests -> [name: Names, password: Requests \cup {NoRequest}, born: 0..MaxRequests]]
    BY <1>7, <2>1 DEF CreateAccount, Insert
  <2>3. pc' \in [Requests -> Statements] /\ answer' \in [Requests -> [what: Outcomes, user: Requests \cup {NoRequest}]]
    BY <1>7 DEF CreateAccount
  <2>4. QED
    BY <1>7, <2>2, <2>3 DEF CreateAccount, sessionVars
<1>8. ASSUME NEW q \in Requests, Find(q), UNCHANGED sessionVars
      PROVE  TypeOK'
  <2>1. at[q] = 0
    BY <1>8 DEF Find, ClockInv
  <2>2. clock + 1 \in 0..MaxRequests
    BY <2>1, ClockBound
  <2>3. clock' \in 0..MaxRequests /\ at' \in [Requests -> 0..MaxRequests]
    <3>1. ReadClock(q) \/ NoClock
      BY <1>8 DEF Find
    <3>2. QED
      BY <2>2, <3>1
  <2>4. pc' \in [Requests -> Statements] /\ found' \in [Requests -> Requests \cup {NoRequest}]
        /\ UNCHANGED <<accounts, call, earlier, answer, sessionVars>>
    BY <1>8 DEF Find, Oldest, Stored
  <2>5. QED
    BY <2>3, <2>4 DEF sessionVars
<1>9. ASSUME NEW q \in Requests, CreateGoogle(q), UNCHANGED sessionVars
      PROVE  TypeOK'
  BY <1>9 DEF CreateGoogle, sessionVars, Insert, Failed
<1>10. ASSUME NEW q \in Requests, FindAgain(q), UNCHANGED sessionVars
      PROVE  TypeOK'
  BY <1>10 DEF FindAgain, sessionVars, Oldest, Stored
<1>11. ASSUME NEW q \in Requests, LookUp(q), UNCHANGED sessionVars
      PROVE  TypeOK'
  BY <1>11 DEF LookUp, sessionVars, Oldest, Stored
<1>12. ASSUME NEW q \in Requests, SignIn(q)
      PROVE  TypeOK'
  <2>1. session' \in [Requests -> Rows]
    BY <1>12 DEF SignIn, NewSession
  <2>2. QED
    BY <1>12, <2>1 DEF SignIn, sameAccounts
<1>13. ASSUME NEW q \in Requests, SessionRequest(q)
      PROVE  TypeOK'
  BY <1>13 DEF SessionRequest, sameAccounts
<1>14. ASSUME NEW q \in Requests, Load(q)
      PROVE  TypeOK'
  <2>1. OnSession(q)
    BY <1>14 DEF Load, Located
  <2>2. session[Subject(q)] \in Rows
    BY <2>1, CallType
  <2>3. QED
    BY <1>14, <2>2 DEF Load, sameAccounts
<1>15. ASSUME NEW q \in Requests, Judge(q)
      PROVE  TypeOK'
  BY <1>15 DEF Judge, sameAccounts
<1>16. ASSUME NEW q \in Requests, JudgeAgent(q)
      PROVE  TypeOK'
  BY <1>16 DEF JudgeAgent, sameAccounts
<1>17. ASSUME NEW q \in Requests, Account(q)
      PROVE  TypeOK'
  BY <1>17 DEF Account, sameAccounts
<1>18. ASSUME NEW q \in Requests, Expire(q)
      PROVE  TypeOK'
  <2>1. session' \in [Requests -> Rows]
    <3>1. Subject(q) \in Requests
      BY <1>18, CallType DEF Expire, Located, Browser, OnSession
    <3>2. Revoked(session[Subject(q)]) \in Rows
      BY <3>1, RowEffects
    <3>3. QED
      BY <1>18, <3>1, <3>2 DEF Expire
  <2>2. QED
    BY <1>18, <2>1 DEF Expire, sameAccounts
<1>19. ASSUME NEW q \in Requests, End(q)
      PROVE  TypeOK'
  <2>1. session' \in [Requests -> Rows]
    <3>1. Subject(q) \in Requests
      BY <1>19, CallType DEF End, Located, Browser, OnSession
    <3>2. Revoked(session[Subject(q)]) \in Rows
      BY <3>1, RowEffects
    <3>3. QED
      BY <1>19, <3>1, <3>2 DEF End
  <2>2. QED
    BY <1>19, <2>1 DEF End, sameAccounts
<1>20. ASSUME NEW q \in Requests, Touch(q)
      PROVE  TypeOK'
  <2>1. session' \in [Requests -> Rows]
    BY <1>20, TouchType
  <2>2. /\ pc' \in [Requests -> Statements]
        /\ answer' \in [Requests -> [what: Outcomes, user: Requests \cup {NoRequest}]]
    BY <1>20, MoveTypes
  <2>3. UNCHANGED <<accounts, clock, call, at, found, earlier, time, now, seen, handoff>>
    BY <1>20 DEF Touch, sameAccounts
  <2>4. QED
    BY <2>1, <2>2, <2>3, SMTT(30)
<1>21. ASSUME NEW q \in Requests, Presence(q)
      PROVE  TypeOK'
  <2>1. pc' \in [Requests -> Statements] /\ answer' \in [Requests -> [what: Outcomes, user: Requests \cup {NoRequest}]]
    BY <1>21, MoveTypes
  <2>2. QED
    BY <1>21, <2>1 DEF Presence, sameAccounts
<1>22. ASSUME NEW q \in Requests, CreateHandoff(q)
      PROVE  TypeOK'
  <2>1. handoff' \in [Requests -> [status: {"none", "open", "consumed"}, expires: Nat]]
    BY <1>22, HandoffType DEF HandoffRows
  <2>2. QED
    BY <1>22, <2>1 DEF CreateHandoff, sameAccounts
<1>23. ASSUME NEW q \in Requests, Consume(q)
      PROVE  TypeOK'
  <2>1. handoff' \in [Requests -> [status: {"none", "open", "consumed"}, expires: Nat]]
    BY <1>23, HandoffType DEF HandoffRows
  <2>2. /\ pc' \in [Requests -> Statements]
        /\ answer' \in [Requests -> [what: Outcomes, user: Requests \cup {NoRequest}]]
    BY <1>23, MoveTypes
  <2>3. QED
    BY <1>23, <2>1, <2>2 DEF Consume, sameAccounts
<1>24. ASSUME NEW q \in Requests, CreateAgentSession(q)
      PROVE  TypeOK'
  <2>1. session' \in [Requests -> Rows]
    BY <1>24 DEF CreateAgentSession, NewSession
  <2>2. /\ pc' \in [Requests -> Statements]
        /\ answer' \in [Requests -> [what: Outcomes, user: Requests \cup {NoRequest}]]
    BY <1>24, MoveTypes
  <2>3. UNCHANGED <<accounts, clock, call, at, found, earlier, time, now, seen, handoff>>
    BY <1>24 DEF CreateAgentSession, sameAccounts
  <2>4. QED
    BY <2>1, <2>2, <2>3
<1>25. QED
  BY <1>1, <1>2, <1>3, <1>4, <1>5, <1>6, <1>7, <1>8, <1>9, <1>10, <1>11, <1>12, <1>13, <1>14, <1>15, <1>16, <1>17, <1>18, <1>19, <1>20, <1>21, <1>22, <1>23, <1>24 DEF Next, AccountStep, SessionStep

LEMMA GivenStep ==
  ASSUME Shape, [Next]_vars
  PROVE  Given'
<1> SUFFICES ASSUME NEW q \in Requests, pc'[q] # "idle"
             PROVE  /\ Op(q) \in Browser => answer'[call[q].by].what = "session"
                    /\ Op(q) = "use" => answer'[call[q].by].what = "admitted"
                    /\ Op(q) = "consume" => answer'[call[q].by].what = "handed"
  BY Frames DEF Given, Op, Subject, Told
<1>1. \A p \in Requests : answer[p].what # "none" => answer'[p] = answer[p]
  BY MovesStep DEF Moves, Settles, Shape, Answered, Told
<1>2. Op(q) \in Browser \cup {"use", "consume"} => call[q].by \in Requests
  BY CallType DEF Shape, OnSession, Browser, Subject
<1>3. /\ Op(q) \in Browser => answer[call[q].by].what = "session"
      /\ Op(q) = "use" => answer[call[q].by].what = "admitted"
      /\ Op(q) = "consume" => answer[call[q].by].what = "handed"
  <2>1. CASE pc[q] # "idle"
    BY <2>1 DEF Shape, Given, Told, Subject
  <2>2. CASE pc[q] = "idle"
    <3>1. SignInRequest(q) \/ SessionRequest(q)
      BY <2>2, MovesStep DEF Moves, Arrives
    <3>2. QED
      BY <3>1 DEF SignInRequest, SessionRequest, Told, Subject, Browser
  <2>3. QED
    BY <2>1, <2>2
<1>4. QED
  BY <1>1, <1>2, <1>3 DEF Browser

LEMMA ClockStep ==
  ASSUME Shape, [Next]_vars
  PROVE  ClockInv'
<1> USE RequestFacts DEF Shape, TypeOK, ClockInv
<1>1. \A p \in Requests : Moves(p)
  BY MovesStep
<1>2. CASE UNCHANGED <<clock, at>>
  <2>1. Clocked' = Clocked
    BY <1>2 DEF Clocked
  <2>2. ASSUME NEW q \in Requests, pc'[q] \in {"idle", "find"}
        PROVE  at[q] = 0
    <3>1. pc[q] \in {"idle", "find"}
      BY <1>1, <2>2 DEF Moves, Arrives, Comes, SignInRequest
    <3>2. QED
      BY <3>1
  <2>3. ASSUME NEW q \in Requests, pc'[q] \in {"find-passwordless", "create"}
        PROVE  at[q] # 0
    <3>1. pc[q] \in {"find-passwordless", "create"} \/ Find(q) \/ SignInRequest(q)
      BY <1>1, <2>3 DEF Moves, Comes, FindPasswordless
    <3>2. CASE Find(q)
      BY <1>2, <2>3, <3>2 DEF Find, ReadClock, Goto
    <3>3. CASE SignInRequest(q)
      BY <1>2, <2>3, <3>3 DEF SignInRequest, ReadClock, Goto
    <3>4. QED
      BY <3>1, <3>2, <3>3
  <2>4. QED
    BY <1>2, <2>1, <2>2, <2>3
<1>3. ASSUME NEW q \in Requests, SignInRequest(q) \/ Find(q), ReadClock(q)
      PROVE  ClockInv'
  <2>1. at[q] = 0
    BY <1>3 DEF SignInRequest, Find
  <2>2. at' = [at EXCEPT ![q] = clock + 1] /\ clock' = clock + 1
    BY <1>3 DEF ReadClock
  <2>3. Clocked' = Clocked \cup {q}
    <3>1. \A p \in Requests : at'[p] # 0 <=> at[p] # 0 \/ p = q
      BY <2>2
    <3>2. \A p : p \in Clocked' <=> p \in Clocked \cup {q}
      BY <3>1 DEF Clocked
    <3>3. QED
      BY <3>2, Zenon
  <2>4. clock' = Cardinality(Clocked')
    BY <2>1, <2>2, <2>3, ClockBound
  <2>5. /\ \A p \in Requests \ {q} : pc'[p] = pc[p] /\ at'[p] = at[p]
        /\ pc'[q] \notin {"idle", "find"} /\ at'[q] = clock + 1
    BY <1>3, <2>2 DEF SignInRequest, Find, Goto, NoClock, ReadClock
  <2>6. QED
    BY <2>2, <2>4, <2>5
<1>4. QED
  BY <1>2, <1>3, Frames
-----------------------------------------------------------------------------
(* What a step does to the accounts.                                       *)
Links(q) ==
  /\ LinkPassword(q) /\ Op(q) = "signup"
  /\ found[q] \in Stored /\ accounts[found[q]].password = NoRequest /\ ~Taken(call[q].name)
  /\ \A v \in Requests \ {found[q]} : accounts'[v] = accounts[v]
  /\ accounts'[found[q]].name = call[q].name /\ accounts'[found[q]].password = q
  /\ accounts'[found[q]].born = accounts[found[q]].born

Stores(q) ==
  /\ accounts[q] = NoAccount
  /\ \A v \in Requests \ {q} : accounts'[v] = accounts[v]
  /\ accounts'[q].born = at[q] /\ at[q] # 0
  /\ \/ /\ CreateAccount(q) /\ Op(q) = "signup" /\ ~Taken(call[q].name)
        /\ accounts'[q].name = call[q].name /\ accounts'[q].password = q
     \/ CreateGoogle(q) /\ accounts'[q].name = UserId /\ accounts'[q].password = NoRequest

LEMMA AccountEffects ==
  ASSUME Shape, [Next]_vars
  PROVE  UNCHANGED accounts \/ \E q \in Requests : Links(q) \/ Stores(q)
<1>1. ASSUME NEW q \in Requests, LinkPassword(q)
      PROVE  UNCHANGED accounts \/ Links(q)
  BY <1>1, LinkEffect DEF Links
<1>2. ASSUME NEW q \in Requests, CreateAccount(q) \/ CreateGoogle(q)
      PROVE  UNCHANGED accounts \/ Stores(q)
  <2>1. pc[q] = "create" /\ at[q] # 0
    BY <1>2 DEF CreateAccount, CreateGoogle, Shape, ClockInv
  <2>2. accounts[q] = NoAccount
    BY <2>1 DEF Shape, StockInv, Stored
  <2>3. QED
    BY <1>2, <2>1, <2>2 DEF CreateAccount, CreateGoogle, Insert, Stores, Shape, TypeOK
<1>3. QED
  BY <1>1, <1>2, Frames

(* An account stays, keeps the time it was created at, and its name and    *)
(* password once it has one.                                               *)
LEMMA AccountsStay ==
  ASSUME Shape, [Next]_vars, NEW u \in Stored
  PROVE  /\ u \in Stored' /\ accounts'[u].born = accounts[u].born /\ accounts'[u].name # ByEmail
         /\ accounts[u].password # NoRequest => accounts'[u] = accounts[u]
<1>1. u \in Requests /\ accounts[u].name # ByEmail
  BY DEF Stored, Shape, StockInv
<1>2. ASSUME NEW q \in Requests, Links(q)
      PROVE  /\ accounts'[u].name # ByEmail /\ accounts'[u].born = accounts[u].born
             /\ accounts[u].password # NoRequest => accounts'[u] = accounts[u]
  <2>1. call[q].name \in Usernames
    BY <1>2, CallType DEF Links, Shape
  <2>2. QED
    BY <1>1, <1>2, <2>1, RequestFacts DEF Links
<1>3. ASSUME NEW q \in Requests, Stores(q)
      PROVE  accounts'[u] = accounts[u]
  BY <1>1, <1>3 DEF Stores, Stored
<1>4. accounts'[u].name # ByEmail
  BY <1>1, <1>2, <1>3, AccountEffects
<1>5. u \in Stored'
  BY <1>1, <1>4 DEF Stored, NoAccount
<1>6. QED
  BY <1>2, <1>3, <1>4, <1>5, AccountEffects

(* A request reads the clock once.                                         *)
LEMMA ReadOnce ==
  ASSUME Shape, [Next]_vars, NEW q \in Requests, at[q] # 0
  PROVE  at'[q] = at[q]
<1>1. ASSUME NEW p \in Requests, SignInRequest(p) \/ Find(p), ReadClock(p)
      PROVE  at'[q] = at[q]
  <2>1. at[p] = 0
    BY <1>1 DEF SignInRequest, Find, Shape, ClockInv
  <2>2. QED
    BY <1>1, <2>1 DEF ReadClock, Shape, TypeOK
<1>2. QED
  BY <1>1, Frames

(* The account a request goes on with is one that it has just read.        *)
FoundMoves(q) ==
  /\ pc'[q] = "link" =>
       \/ pc[q] = "link" /\ found'[q] = found[q]
       \/ FindPasswordless(q) /\ found'[q] \in Oldest(Passwordless)
  /\ pc'[q] = "session" =>
       \/ pc[q] = "session" /\ found'[q] = found[q]
       \/ (Find(q) \/ FindAgain(q)) /\ found'[q] \in Oldest(Stored)
       \/ LookUp(q) /\ found'[q] \in Stored /\ accounts[found'[q]].password = call[q].password
          /\ (call[q].name = ByEmail \/ accounts[found'[q]].name = call[q].name)

LEMMA FoundStep ==
  ASSUME Shape, [Next]_vars, NEW q \in Requests
  PROVE  FoundMoves(q)
<1> USE DEF Shape, TypeOK
<1>1. Comes(q)
  BY MovesStep DEF Moves
<1>2. pc[q] \in {"link", "session"} => found'[q] = found[q]
  BY Frames DEF FindPasswordless, Find, FindAgain, LookUp
<1>3. FindPasswordless(q) /\ pc'[q] = "link" => found'[q] \in Oldest(Passwordless)
  BY DEF FindPasswordless, Goto, Oldest, Passwordless, Stored
<1>4. Find(q) /\ pc'[q] = "session" => found'[q] \in Oldest(Stored)
  BY DEF Find, Goto, Oldest, Stored
<1>5. FindAgain(q) => found'[q] \in Oldest(Stored)
  BY DEF FindAgain, Oldest, Stored
<1>6. LookUp(q) /\ pc'[q] = "session" =>
        /\ found'[q] \in Stored /\ accounts[found'[q]].password = call[q].password
        /\ call[q].name = ByEmail \/ accounts[found'[q]].name = call[q].name
  BY DEF LookUp, Goto, Settle, Oldest, Stored
<1>7. QED
  BY <1>1, <1>2, <1>3, <1>4, <1>5, <1>6 DEF FoundMoves, Comes

LEMMA StockStep ==
  ASSUME Shape, [Next]_vars
  PROVE  StockInv'
<1> USE RequestFacts
<1>1. \A p \in Requests : pc[p] = "done" => pc'[p] = "done"
  BY MovesStep DEF Moves, Settles
<1>2. \A p \in Requests : pc[p] \in {"find-again", "session", "done"} =>
        pc'[p] \in {"find-again", "session", "done"}
  BY MovesStep DEF Moves, Settles, Comes
<1>3. \A u \in Stored : /\ u \in Stored' /\ accounts'[u].born = accounts[u].born
                        /\ accounts[u].password # NoRequest => accounts'[u] = accounts[u]
                        /\ accounts'[u].name # ByEmail
  BY AccountsStay
<1>4. ASSUME NEW u \in Stored'
      PROVE  /\ accounts'[u].born = at'[u] /\ at'[u] # 0 /\ accounts'[u].name # ByEmail
             /\ pc'[u] \in {"find-again", "session", "done"}
             /\ accounts'[u].password # NoRequest => pc'[accounts'[u].password] = "done"
  <2>1. u \in Requests /\ (at[u] # 0 => at'[u] = at[u])
    BY <1>4, ReadOnce DEF Stored
  <2>2. CASE u \in Stored
    <3>1. CASE accounts[u].password # NoRequest
      <4>1. accounts[u].password \in Requests
        BY <2>1, <3>1 DEF Shape, TypeOK
      <4>2. QED
        BY <1>1, <1>2, <1>3, <2>1, <2>2, <3>1, <4>1 DEF Shape, StockInv
    <3>2. CASE accounts[u].password = NoRequest
      <4>1. accounts'[u].password # NoRequest => \E q \in Requests : LinkPassword(q) /\ accounts'[u].password = q
        BY <2>1, <2>2, <3>2, AccountEffects DEF Links, Stores, Stored
      <4>2. \A q \in Requests : LinkPassword(q) => pc'[q] = "done"
        BY DEF LinkPassword, Settle, Failed, Shape, TypeOK
      <4>3. QED
        BY <1>2, <1>3, <2>1, <2>2, <4>1, <4>2 DEF Shape, StockInv
    <3>3. QED
      BY <3>1, <3>2
  <2>3. CASE u \notin Stored
    <3>1. Stores(u)
      BY <1>4, <2>1, <2>3, AccountEffects DEF Links, Stores, Stored
    <3>2. CASE CreateAccount(u)
      <4>1. accounts'[u].name = call[u].name /\ accounts'[u].password = u /\ pc'[u] = "done"
        <5>1. Op(u) = "signup" /\ ~CreateGoogle(u)
          BY <3>2 DEF CreateAccount, CreateGoogle
        <5>2. pc'[u] = "done"
          BY <2>1, <3>2 DEF CreateAccount, Settle, Failed, Shape, TypeOK
        <5>3. QED
          BY <3>1, <5>1, <5>2 DEF Stores
      <4>2. call[u].name # ByEmail
        BY <2>1, <3>2, CallType DEF CreateAccount, Shape
      <4>3. QED
        BY <2>1, <3>1, <4>1, <4>2 DEF Stores
    <3>3. CASE CreateGoogle(u)
      <4>1. accounts'[u].name = UserId /\ accounts'[u].password = NoRequest
        BY <3>1, <3>3 DEF Stores, CreateAccount, CreateGoogle
      <4>2. pc'[u] \in {"find-again", "done"}
        BY <2>1, <3>3 DEF CreateGoogle, Goto, Settle, Failed, Shape, TypeOK
      <4>3. QED
        BY <2>1, <3>1, <4>1, <4>2 DEF Stores
    <3>4. QED
      BY <3>1, <3>2, <3>3 DEF Stores
  <2>4. QED
    BY <2>2, <2>3
<1>5. ASSUME NEW u \in Stored', NEW v \in Stored', accounts'[u].name \in Usernames,
             accounts'[u].name = accounts'[v].name
      PROVE  u = v
  <2>1. u \in Requests /\ v \in Requests
    BY DEF Stored
  <2>2. CASE UNCHANGED accounts
    BY <1>5, <2>2 DEF Shape, StockInv, Stored
  <2>3. ASSUME NEW q \in Requests, NEW w \in Requests, ~Taken(accounts'[w].name) \/ accounts'[w].name = UserId,
               \A x \in Requests \ {w} : accounts'[x] = accounts[x]
        PROVE  u = v
    BY <1>5, <2>1, <2>3 DEF Shape, StockInv, Stored, Taken
  <2>4. QED
    BY <2>2, <2>3, AccountEffects DEF Links, Stores, Stored
<1>6. ASSUME NEW q \in Requests, pc'[q] \in {"link", "session"}
      PROVE  found'[q] \in Stored'
  <2>1. CASE pc[q] = pc'[q] /\ found'[q] = found[q]
    BY <1>3, <1>6, <2>1 DEF Shape, StockInv
  <2>2. CASE found'[q] \in Stored
    BY <1>3, <2>2
  <2>3. QED
    BY <1>6, <2>1, <2>2, FoundStep DEF FoundMoves, Oldest, Passwordless
<1>7. ASSUME NEW q \in Requests, Told(q, "session")'
      PROVE  answer'[q].user \in Stored'
  <2>1. SignIn(q) => answer'[q].user = found[q] /\ found[q] \in Stored
    BY DEF SignIn, Settle, Shape, TypeOK, StockInv
  <2>2. answer'[q].user \in Stored
    BY <1>7, <2>1, MovesStep DEF Moves, Settles, Told, Shape, StockInv
  <2>3. QED
    BY <1>3, <2>2
<1>8. QED
  BY <1>4, <1>5, <1>6, <1>7 DEF StockInv

LEMMA ShapeStep ==
  ASSUME Shape, [Next]_vars
  PROVE  Shape'
BY TypeStep, LocatedStep, AnsweredStep, GivenStep, ClockStep, StockStep DEF Shape
-----------------------------------------------------------------------------
(* What was true of two requests stays true.                               *)
LEMMA Overlapped ==
  ASSUME Shape, [Next]_vars, NEW p \in Requests, NEW q \in Requests
  PROVE  /\ Overlap(p, q) => Overlap(p, q)'
         /\ p # q /\ pc[p] \notin {"idle", "done"} /\ pc[q] \notin {"idle", "done"} => Overlap(p, q)'
         /\ Told(p, "none") \/ answer'[p] = answer[p]
<1>1. Moves(p) /\ Moves(q)
  BY MovesStep
<1>2. (pc[p] # "done" => p \notin earlier[q]) /\ (pc[q] # "done" => q \notin earlier[p])
  BY DEF Shape, Answered
<1>3. \A r \in Requests : pc[r] # "idle" => pc'[r] # "idle" /\ earlier'[r] = earlier[r]
  BY MovesStep DEF Moves, Arrives
<1>4. Told(p, "none") \/ answer'[p] = answer[p]
  BY <1>1 DEF Moves, Settles, Shape, Answered
<1>5. QED
  BY <1>2, <1>3, <1>4 DEF Overlap

(* Who is over when q comes is over before.                                *)
LEMMA EarlierStep ==
  ASSUME Shape, [Next]_vars, NEW q \in Requests, NEW p \in earlier'[q]
  PROVE  /\ p \in Requests /\ pc[p] = "done" /\ pc'[p] = "done" /\ answer'[p] = answer[p]
         /\ \/ p \in earlier[q]
            \/ /\ pc[q] = "idle" /\ pc'[q] # "idle" /\ Told(q, "none") /\ answer'[q] = answer[q]
               /\ SignInRequest(q) \/ SessionRequest(q)
<1>1. Moves(q)
  BY MovesStep
<1>2. \/ p \in earlier[q]
      \/ /\ pc[q] = "idle" /\ pc'[q] # "idle" /\ answer'[q] = answer[q]
         /\ earlier'[q] = {r \in Requests : pc[r] = "done"}
         /\ SignInRequest(q) \/ SessionRequest(q)
  BY <1>1 DEF Moves, Arrives, Came, Shape, TypeOK
<1>3. pc[q] = "idle" => Told(q, "none")
  BY DEF Shape, Answered
<1>4. p \in Requests /\ pc[p] = "done"
  BY <1>2 DEF Shape, TypeOK, Answered
<1>5. Moves(p)
  BY <1>4, MovesStep
<1>6. QED
  BY <1>2, <1>3, <1>4, <1>5 DEF Moves, Settles

(* Only the request itself moves on.                                       *)
LEMMA OwnStep ==
  ASSUME Shape, [Next]_vars, NEW q \in Requests, pc'[q] # pc[q]
  PROVE  AccountStep(q) \/ SessionStep(q)
<1> USE DEF Shape, TypeOK, Goto, Settle, Failed, Ends
<1>1. ASSUME NEW p \in Requests, p # q, AccountStep(p)
      PROVE  pc'[q] = pc[q]
  BY <1>1 DEF AccountStep, SignInRequest, Fails, FindPasswordless, LinkPassword, CreateAccount,
              Find, CreateGoogle, FindAgain, LookUp
<1>2. ASSUME NEW p \in Requests, p # q, SessionStep(p)
      PROVE  pc'[q] = pc[q]
  BY <1>2 DEF SessionStep, SignIn, SessionRequest, Load, Judge, JudgeAgent, Account, Expire, End,
              Touch, Presence, CreateHandoff, Consume, CreateAgentSession
<1>3. \E p \in Requests : SessionStep(p) \/ AccountStep(p)
  BY DEF Next, Tick, vars, accountVars
<1>4. QED
  BY <1>1, <1>2, <1>3

(* How a request leaves the statements that it reads rows by.              *)
Leaves(q) ==
  /\ pc[q] = "look-up" => LookUp(q) \/ Fails(q)
  /\ pc[q] = "session" => SignIn(q) \/ Fails(q)
  /\ pc[q] = "load" => Load(q) \/ Fails(q)
  /\ pc[q] = "judge" => Judge(q) \/ JudgeAgent(q) \/ Fails(q)

LEMMA LeavesStep ==
  ASSUME Shape, [Next]_vars, NEW q \in Requests, pc'[q] # pc[q]
  PROVE  /\ Leaves(q)
         /\ Fails(q) => pc'[q] = "done" /\ Told(q, "failed")'
<1>1. Fails(q) => pc'[q] = "done" /\ Told(q, "failed")'
  BY DEF Fails, Failed, Settle, Told, Shape, TypeOK
<1>2. AccountStep(q) => Leaves(q)
  BY DEF Leaves, AccountStep, SignInRequest, FindPasswordless, LinkPassword, CreateAccount,
         Find, CreateGoogle, FindAgain, LookUp
<1>3. SessionStep(q) => Leaves(q)
  BY DEF Leaves, SessionStep, SignIn, SessionRequest, Load, Judge, JudgeAgent, Account, Expire, End,
         Touch, Presence, CreateHandoff, Consume, CreateAgentSession
<1>4. QED
  BY <1>1, <1>2, <1>3, OwnStep
-----------------------------------------------------------------------------
(* A password that is there stays, and so does who preceded whom.          *)
LEMMA PrecededStays ==
  ASSUME Shape, [Next]_vars, NEW p \in Requests, Told(p, "created"), answer[p].user \in Stored, Preceded(p)
  PROVE  Preceded(p)'
<1>1. PICK r \in Requests : Overlap(r, p) /\ accounts[answer[p].user].password = r
  BY DEF Preceded
<1>2. Overlap(r, p)' /\ answer'[p] = answer[p]
  BY <1>1, Overlapped DEF Told
<1>3. accounts'[answer[p].user] = accounts[answer[p].user]
  BY <1>1, AccountsStay, RequestFacts
<1>4. accounts'[answer'[p].user].password = r
  BY <1>1, <1>2, <1>3
<1>5. QED
  BY <1>2, <1>4 DEF Preceded

LEMMA SignupStep ==
  ASSUME Shape, SignupInv, [Next]_vars
  PROVE  SignupInv'
<1> USE RequestFacts
<1>1. call' = call /\ Shape'
  BY Frames, ShapeStep
<1>2. \A p \in Requests : Op(p)' = Op(p)
  BY <1>1 DEF Op
<1>3. ASSUME NEW p \in Requests, pc'[p] = "link", accounts'[found'[p]].password # NoRequest
      PROVE  accounts'[found'[p]].password \notin earlier'[p]
  <2>1. FindPasswordless(p) /\ found'[p] \in Passwordless => accounts'[found'[p]].password = NoRequest
    BY DEF FindPasswordless, Passwordless
  <2>2. pc[p] = "link" /\ found'[p] = found[p]
    BY <1>3, <2>1, FoundStep DEF FoundMoves, Oldest
  <2>3. found[p] \in Stored /\ found[p] \in Requests
    BY <2>2 DEF Shape, StockInv, Stored
  <2>4. earlier'[p] = earlier[p]
    BY <2>2, MovesStep DEF Moves, Arrives
  <2>5. CASE accounts[found[p]].password # NoRequest
    BY <2>2, <2>3, <2>4, <2>5, AccountsStay DEF SignupInv
  <2>6. CASE accounts[found[p]].password = NoRequest
    <3>1. PICK q \in Requests : Links(q) /\ found[q] = found[p]
      BY <1>3, <2>2, <2>3, <2>6, AccountEffects DEF Links, Stores, Stored
    <3>2. pc[q] = "link" /\ accounts'[found[p]].password = q
      BY <3>1 DEF Links, LinkPassword
    <3>3. QED
      BY <2>2, <2>4, <3>2 DEF Shape, Answered
  <2>7. QED
    BY <2>5, <2>6
<1>4. ASSUME NEW p \in Requests, Told(p, "created")'
      PROVE  /\ answer'[p].user \in Stored'
             /\ \/ accounts'[answer'[p].user].password = p /\ accounts'[answer'[p].user].name = call[p].name
                \/ Preceded(p)'
  <2>1. CASE answer'[p] = answer[p]
    <3>1. Told(p, "created") /\ answer[p].user \in Stored
      BY <1>4, <2>1 DEF Told, SignupInv
    <3>2. CASE Preceded(p)
      BY <2>1, <3>1, <3>2, PrecededStays, AccountsStay
    <3>3. CASE accounts[answer[p].user].password = p /\ accounts[answer[p].user].name = call[p].name
      <4>1. accounts'[answer[p].user] = accounts[answer[p].user] /\ answer[p].user \in Stored'
        BY <3>1, <3>3, AccountsStay
      <4>2. QED
        BY <2>1, <3>3, <4>1
    <3>4. QED
      BY <3>1, <3>2, <3>3 DEF SignupInv
  <2>2. CASE CreateAccount(p) /\ answer'[p] # answer[p]
    <3>1. answer'[p].user = p /\ Insert(p, call[p].name, p)
      BY <1>4, <2>2 DEF CreateAccount, Settle, Failed, Told, Shape, TypeOK
    <3>2. accounts'[p].name = call[p].name /\ accounts'[p].password = p
      BY <3>1 DEF Insert, Shape, TypeOK
    <3>3. p \in Stored'
      BY <3>2 DEF Stored, NoAccount
    <3>4. QED
      BY <3>1, <3>2, <3>3
  <2>3. CASE LinkPassword(p) /\ answer'[p] # answer[p]
    <3>1. pc[p] = "link" /\ answer'[p].user = found[p] /\ found[p] \in Stored /\ found[p] \in Requests
      BY <1>4, <2>3 DEF LinkPassword, Settle, Failed, Told, Shape, TypeOK, StockInv, Stored
    <3>2. found[p] \in Stored'
      BY <3>1, AccountsStay
    <3>3. \/ accounts'[found[p]].password = p /\ accounts'[found[p]].name = call[p].name
          \/ accounts' = accounts /\ accounts[found[p]].password # NoRequest
      <4>1. ~Settle(p, "duplicate", NoRequest)
        BY <1>4 DEF Settle, Told, Shape, TypeOK
      <4>2. QED
        BY <2>3, <4>1, LinkEffect
    <3>4. ASSUME accounts' = accounts, accounts[found[p]].password # NoRequest
          PROVE  Preceded(p)'
      <4>1. accounts[found[p]].password \in Requests
        BY <3>1, <3>4 DEF Shape, TypeOK
      <4>2. PICK r \in Requests : accounts[found[p]].password = r
        BY <4>1
      <4>3. r \notin earlier[p] /\ pc[r] = "done" /\ p \notin earlier[r]
        BY <3>1, <3>4, <4>2 DEF Shape, StockInv, SignupInv, Answered
      <4>4. Overlap(r, p)
        BY <3>1, <4>3 DEF Overlap
      <4>5. Overlap(r, p)'
        BY <4>4, Overlapped
      <4>6. accounts'[answer'[p].user].password = r
        BY <3>1, <3>4, <4>2
      <4>7. QED
        BY <4>5, <4>6 DEF Preceded
    <3>5. QED
      BY <3>1, <3>2, <3>3, <3>4
  <2>4. QED
    BY <1>4, <2>1, <2>2, <2>3, MovesStep DEF Moves, Settles
<1>5. ASSUME NEW p \in Requests, NEW q \in Requests, Told(p, "created")', p \in earlier'[q],
             call[q] = [op |-> "login", name |-> call[p].name, password |-> p]
      PROVE  \/ pc'[q] = "look-up" \/ Told(q, "failed")' \/ Preceded(p)'
             \/ (pc'[q] = "session" /\ found'[q] = answer'[p].user)
             \/ (Told(q, "session")' /\ answer'[q].user = answer'[p].user)
  <2>1. /\ pc[p] = "done" /\ answer'[p] = answer[p] /\ Told(p, "created")
        /\ p \in earlier[q] \/ SignInRequest(q) \/ SessionRequest(q)
    BY <1>5, EarlierStep DEF Told
  <2>2. call[p].name \in Usernames /\ answer[p].user \in Stored
    BY <2>1, CallType DEF Shape, Answered, SignupInv
  <2>3. Op(q) = "login" /\ call[q].password = p /\ call[q].name = call[p].name
    <3>1. call[q] \in CallRecords
      BY <1>5, <2>2 DEF CallRecords
    <3>2. QED
      BY <1>5, <3>1, AccountsAssumption DEF Op, AccountsAssumption
  <2>4. CASE p \notin earlier[q]
    BY <2>1, <2>3, <2>4 DEF SignInRequest, SessionRequest, Goto, Shape, TypeOK
  <2>5. CASE p \in earlier[q] /\ Preceded(p)
    BY <2>1, <2>2, <2>5, PrecededStays
  <2>6. CASE p \in earlier[q] /\ ~Preceded(p) /\ pc[q] = "look-up"
    <3>1. accounts[answer[p].user].password = p /\ accounts[answer[p].user].name = call[p].name
      BY <2>1, <2>6 DEF SignupInv
    <3>2. CASE LookUp(q)
      <4>1. pc'[q] = "session"
        <5>1. answer[p].user \in {u \in Stored : accounts[u].name = call[q].name}
          BY <2>2, <2>3, <3>1
        <5>2. call[q].name # ByEmail
          BY <2>2, <2>3
        <5>3. QED
          BY <2>3, <3>1, <3>2, <5>1, <5>2 DEF LookUp, Goto, Shape, TypeOK
      <4>2. found'[q] \in Stored /\ accounts[found'[q]].name = call[p].name
        BY <2>2, <2>3, <2>6, <4>1, FoundStep DEF FoundMoves, Shape, Located, Find, FindAgain
      <4>3. found'[q] = answer[p].user
        BY <2>2, <3>1, <4>2 DEF Shape, StockInv
      <4>4. QED
        BY <2>1, <4>1, <4>3
    <3>3. QED
      BY <2>6, <3>2, LeavesStep DEF Leaves
  <2>7. CASE pc[q] = "session" /\ found[q] = answer[p].user
    <3>1. SignIn(q) => Told(q, "session")' /\ answer'[q].user = answer[p].user
      BY <2>7 DEF SignIn, Settle, Told, Shape, TypeOK
    <3>2. pc'[q] = pc[q] => found'[q] = found[q]
      BY <2>7, FoundStep DEF FoundMoves, Find, FindAgain, LookUp
    <3>3. QED
      BY <2>1, <2>7, <3>1, <3>2, LeavesStep DEF Leaves
  <2>8. CASE Told(q, "failed") \/ (Told(q, "session") /\ answer[q].user = answer[p].user)
    BY <2>1, <2>8, Overlapped DEF Told
  <2>9. QED
    BY <1>5, <2>1, <2>4, <2>5, <2>6, <2>7, <2>8 DEF SignupInv
<1>6. QED
  BY <1>1, <1>3, <1>4, <1>5 DEF SignupInv
-----------------------------------------------------------------------------
(* What is still to be stored was read from the clock when it came there.  *)
Storing(v) == v \in Stored \/ pc[v] \in {"find-passwordless", "create"}

LEMMA StoringStep ==
  ASSUME Shape, [Next]_vars, NEW v \in Requests, Storing(v)'
  PROVE  /\ at'[v] \in Nat
         /\ \/ Storing(v) /\ at'[v] = at[v]
            \/ at'[v] = clock + 1
<1> USE RequestFacts
<1>1. at'[v] \in Nat
  BY ShapeStep DEF Shape, TypeOK
<1>2. Moves(v)
  BY MovesStep
<1>3. CASE Storing(v)
  <2>1. at[v] # 0
    BY <1>3 DEF Storing, Shape, StockInv, ClockInv
  <2>2. QED
    BY <1>1, <1>3, <2>1, ReadOnce
<1>4. CASE ~Storing(v)
  <2>1. v \notin Stored'
    <3>1. ~Stores(v) /\ accounts[v] = NoAccount
      BY <1>4 DEF Stores, CreateAccount, CreateGoogle, Storing, Stored
    <3>2. accounts'[v] = accounts[v]
      BY <1>4, <3>1, AccountEffects DEF Links, Stores, Storing
    <3>3. QED
      BY <3>1, <3>2 DEF Stored, NoAccount
  <2>2. pc'[v] \in {"find-passwordless", "create"}
    BY <2>1 DEF Storing
  <2>3. SignInRequest(v) \/ Find(v)
    BY <1>2, <1>4, <2>2 DEF Moves, Comes, Storing, FindPasswordless
  <2>4. ReadClock(v)
    BY <2>2, <2>3 DEF SignInRequest, Find, Goto, Shape, TypeOK
  <2>5. QED
    BY <1>1, <2>4 DEF ReadClock, Shape, TypeOK
<1>5. QED
  BY <1>3, <1>4

LEMMA GoogleStep ==
  ASSUME Shape, GoogleInv, [Next]_vars
  PROVE  GoogleInv'
<1> USE RequestFacts
<1>1. call' = call
  BY Frames
<1>2. ASSUME NEW p \in Requests, NEW u \in Requests, CameTo(p, u)'
      PROVE  \/ CameTo(p, u)
             \/ /\ u \in Oldest(Stored) /\ accounts' = accounts
                /\ pc[p] \in {"find", "find-again"}
  <2>1. Op(p) = "google"
    BY <1>1, <1>2 DEF CameTo, Op
  <2>2. CASE pc'[p] = "session" /\ found'[p] = u
    <3>1. pc[p] # "look-up"
      BY <2>1 DEF Shape, Located
    <3>2. QED
      BY <2>1, <2>2, <3>1, FoundStep DEF FoundMoves, CameTo, Find, FindAgain, LookUp
  <2>3. CASE Told(p, "session")' /\ answer'[p].user = u
    <3>1. SignIn(p) => pc[p] = "session" /\ answer'[p].user = found[p]
      BY DEF SignIn, Settle, Shape, TypeOK
    <3>2. QED
      BY <2>1, <2>3, <3>1, MovesStep DEF Moves, Settles, CameTo, Told
  <2>4. QED
    BY <1>2, <2>2, <2>3 DEF CameTo
<1>3. ASSUME NEW p \in Requests, NEW u \in Requests, CameTo(p, u)', NEW v \in Requests
      PROVE  /\ u \in Stored' /\ accounts'[u].born = accounts[u].born
             /\ Storing(v)' => at'[v] >= accounts'[u].born \/ Overlap(v, p)'
  <2>1. u \in Stored
    BY <1>2, <1>3 DEF GoogleInv, Oldest
  <2>2. /\ u \in Stored' /\ accounts'[u].born = accounts[u].born
        /\ accounts[u].born \in Nat /\ accounts[u].born <= clock /\ clock \in Nat
    BY <2>1, AccountsStay DEF Shape, StockInv, ClockInv, TypeOK, Stored
  <2>3. CASE Storing(v)' /\ CameTo(p, u)
    <3>1. Storing(v) => at[v] >= accounts[u].born \/ Overlap(v, p)
      BY <2>3 DEF GoogleInv, Storing
    <3>2. CASE Storing(v) /\ at'[v] = at[v]
      <4>1. Overlap(v, p) => Overlap(v, p)'
        BY Overlapped
      <4>2. QED
        BY <2>2, <3>1, <3>2, <4>1
    <3>3. CASE at'[v] = clock + 1
      BY <2>2, <3>3
    <3>4. QED
      BY <2>3, <3>2, <3>3, StoringStep
  <2>4. CASE Storing(v)' /\ ~CameTo(p, u)
    <3>1. u \in Oldest(Stored) /\ pc[p] \in {"find", "find-again"} /\ accounts' = accounts
      BY <1>2, <1>3, <2>4
    <3>2. CASE v \in Stored
      BY <2>2, <2>4, <3>1, <3>2, StoringStep DEF Oldest, Shape, StockInv, ClockInv, TypeOK
    <3>3. CASE v \notin Stored /\ Storing(v)
      <4>1. v # p /\ pc[v] \notin {"idle", "done"} /\ pc[p] \notin {"idle", "done"}
        BY <3>1, <3>3 DEF Storing
      <4>2. QED
        BY <2>2, <4>1, Overlapped
    <3>4. CASE at'[v] = clock + 1
      BY <2>2, <3>4
    <3>5. QED
      BY <2>4, <3>2, <3>3, <3>4, StoringStep
  <2>5. QED
    BY <2>2, <2>3, <2>4
<1>4. ASSUME NEW p \in Requests, NEW q \in Requests, NEW u \in Requests, NEW v \in Requests,
             CameTo(p, u)', CameTo(q, v)', p \in earlier'[q]
      PROVE  u = v \/ \E r \in Stored' : Overlap(r, p)'
  <2>1. pc[p] = "done" /\ CameTo(p, u)
    BY <1>2, <1>4, EarlierStep
  <2>2. p \in earlier[q]
    <3>1. SignInRequest(q) \/ SessionRequest(q) => pc'[q] # "session"
      BY DEF SignInRequest, SessionRequest, Goto, Shape, TypeOK
    <3>2. QED
      BY <1>4, <3>1, EarlierStep DEF CameTo, Told
  <2>3. \A r \in Stored : r \in Requests /\ r \in Stored' /\ (Overlap(r, p) => Overlap(r, p)')
    BY AccountsStay, Overlapped DEF Stored
  <2>4. CASE CameTo(q, v)
    BY <2>1, <2>2, <2>3, <2>4 DEF GoogleInv
  <2>5. CASE v \in Oldest(Stored)
    <3>1. /\ v \in Stored /\ u \in Stored /\ accounts[v].born <= accounts[u].born
          /\ at[v] >= accounts[u].born \/ Overlap(v, p)
      BY <2>1, <2>5 DEF Oldest, GoogleInv
    <3>2. /\ accounts[v].born = at[v] /\ accounts[u].born = at[u] /\ at[u] # 0
          /\ at[u] \in Nat /\ at[v] \in Nat
      <4>1. /\ accounts[v].born = at[v] /\ accounts[u].born = at[u] /\ at[u] # 0
            /\ u \in Requests /\ v \in Requests
        BY <3>1 DEF Shape, StockInv, Stored
      <4>2. QED
        BY <4>1 DEF Shape, TypeOK
    <3>3. at[v] >= accounts[u].born => u = v
      <4>1. at[v] >= accounts[u].born => at[u] = at[v]
        BY <3>1, <3>2
      <4>2. QED
        BY <3>2, <4>1 DEF Shape, ClockInv
    <3>4. QED
      BY <2>3, <3>1, <3>3
  <2>6. QED
    BY <1>2, <1>4, <2>4, <2>5
<1>5. QED
  BY <1>3, <1>4 DEF GoogleInv, Storing
-----------------------------------------------------------------------------
(* What a step does to a session: it is created, once; it is revoked; it   *)
(* is used, while it is active.                                            *)
Created(s) == (SignIn(s) \/ CreateAgentSession(s)) /\ pc[s] # "done" /\ pc'[s] = "done"

RevokedBy(s, q) ==
  /\ Expire(q) \/ End(q)
  /\ Op(q) \in Browser /\ Subject(q) = s /\ Told(s, "session")
  /\ session'[s] = Revoked(session[s])

UsedBy(s, q) ==
  /\ Touch(q) /\ OnSession(q) /\ Subject(q) = s /\ ~Told(s, "none")
  /\ session[s].status = "active" /\ session'[s].status = "active"
  /\ session'[s].expires = session[s].expires

LEMMA SessionEffects ==
  ASSUME Shape, [Next]_vars, NEW s \in Requests
  PROVE  \/ session'[s] = session[s]
         \/ Created(s)
         \/ \E q \in Requests : RevokedBy(s, q) \/ UsedBy(s, q)
<1> USE DEF Shape, TypeOK
<1>1. ASSUME NEW q \in Requests, SignIn(q) \/ CreateAgentSession(q)
      PROVE  session'[s] = session[s] \/ Created(s)
  <2>1. pc[q] # "done" /\ pc'[q] = "done"
    BY <1>1 DEF SignIn, CreateAgentSession, Settle, Ends
  <2>2. s # q => session'[s] = session[s]
    BY <1>1 DEF SignIn, CreateAgentSession, NewSession
  <2>3. QED
    BY <1>1, <2>1, <2>2 DEF Created
<1>2. ASSUME NEW q \in Requests, Expire(q) \/ End(q)
      PROVE  session'[s] = session[s] \/ RevokedBy(s, q)
  <2>1. Op(q) \in Browser /\ pc[q] # "idle"
    BY <1>2 DEF Expire, End, Located, Browser
  <2>2. Told(Subject(q), "session") /\ Subject(q) \in Requests
    BY <2>1, CallType DEF Given, OnSession, Browser
  <2>3. session' = [session EXCEPT ![Subject(q)] = Revoked(@)]
    BY <1>2 DEF Expire, End
  <2>4. QED
    BY <1>2, <2>1, <2>2, <2>3 DEF RevokedBy
<1>3. ASSUME NEW q \in Requests, Touch(q)
      PROVE  session'[s] = session[s] \/ UsedBy(s, q)
  <2>1. OnSession(q) /\ pc[q] # "idle" /\ Op(q) \in {"check", "handoff", "use"}
    BY <1>3 DEF Touch, Located, OnSession
  <2>2. ~Told(Subject(q), "none") /\ Subject(q) \in Requests
    BY <2>1, CallType DEF Given, Browser, Told
  <2>3. \/ session' = session
        \/ /\ session[Subject(q)].status = "active"
           /\ session' = [session EXCEPT ![Subject(q)].idle = NewIdle(now[q], seen[q].expires)]
    BY <1>3 DEF Touch
  <2>4. s # Subject(q) => session'[s] = session[s]
    BY <2>3
  <2>5. session[s] \in Rows
    OBVIOUS
  <2>6. CASE s = Subject(q) /\ session' # session
    <3>1. session'[s] = [session[s] EXCEPT !.idle = NewIdle(now[q], seen[q].expires)]
      BY <2>2, <2>3, <2>6
    <3>2. session'[s].status = session[s].status /\ session'[s].expires = session[s].expires
      BY <2>5, <3>1 DEF Rows
    <3>3. QED
      BY <1>3, <2>1, <2>2, <2>3, <2>6, <3>2 DEF UsedBy
  <2>7. QED
    BY <2>4, <2>6
<1>4. QED
  BY <1>1, <1>2, <1>3, Frames

(* The session of a request has been created.                              *)
LEMMA SubjectOver ==
  ASSUME Shape, NEW q \in Requests, OnSession(q), pc[q] # "idle"
  PROVE  /\ Subject(q) \in Requests /\ pc[Subject(q)] = "done"
         /\ Op(q) \in Browser <=> Told(Subject(q), "session")
         /\ Op(q) = "use" <=> Told(Subject(q), "admitted")
<1>1. Subject(q) \in Requests
  BY CallType DEF Shape
<1>2. /\ Op(q) \in Browser \/ Op(q) = "use"
      /\ Op(q) \in Browser => Told(Subject(q), "session")
      /\ Op(q) = "use" => Told(Subject(q), "admitted")
  BY DEF OnSession, Browser, Shape, Given
<1>3. QED
  BY <1>1, <1>2 DEF Told, Shape, Answered, Browser

(* A session that has ended stays so.                                      *)
LEMMA ClosedStays ==
  ASSUME Shape, [Next]_vars, NEW s \in Requests, pc[s] = "done", Closed(s)
  PROVE  Closed(s)'
<1>1. session[s] \in Rows
  BY DEF Shape, TypeOK
<1>2. QED
  BY <1>1, SessionEffects, RowEffects DEF Closed, Created, RevokedBy, UsedBy
LEMMA EndStep ==
  ASSUME Shape, EndInv, [Next]_vars
  PROVE  EndInv'
<1>1. call' = call
  BY Frames
<1>2. \A q \in Requests : Op(q)' = Op(q) /\ Subject(q)' = Subject(q) /\ OnSession(q)' = OnSession(q)
  BY <1>1 DEF Op, Subject, OnSession
<1>3. ASSUME NEW p \in Requests, Ended(p)
      PROVE  /\ Op(p) \in Browser /\ OnSession(p) /\ pc[p] = "done" /\ Ended(p)'
             /\ Subject(p) \in Requests /\ pc[Subject(p)] = "done" /\ Told(Subject(p), "session")
             /\ Closed(Subject(p)) /\ Closed(Subject(p))'
  <2>1. Op(p) \in Browser /\ OnSession(p) /\ pc[p] = "done"
    BY <1>3 DEF Ended, Shape, Answered, Told, OnSession, Browser
  <2>2. Subject(p) \in Requests /\ pc[Subject(p)] = "done" /\ Told(Subject(p), "session")
    BY <2>1, SubjectOver
  <2>3. Closed(Subject(p))
    BY <1>3 DEF EndInv
  <2>4. Ended(p)'
    BY <1>2, <1>3, Overlapped DEF Ended, Told
  <2>5. PICK s \in Requests : s = Subject(p)
    BY <2>2
  <2>6. Closed(s)'
    BY <2>2, <2>3, <2>5, ClosedStays
  <2>7. QED
    BY <1>2, <2>1, <2>2, <2>3, <2>4, <2>5, <2>6
<1>4. ASSUME NEW p \in Requests, Ended(p)', ~Ended(p)
      PROVE  Closed(Subject(p))' /\ pc[p] # "done"
  <2>1. answer'[p] # answer[p]
    BY <1>2, <1>4 DEF Ended, Told
  <2>2. Expire(p) \/ End(p)
    BY <1>2, <1>4, <2>1, MovesStep DEF Moves, Settles, Ended, JudgeAgent
  <2>3. pc[p] # "done" /\ Subject(p) \in Requests
    BY <2>2, SubjectOver DEF Expire, End, Shape, Located, OnSession, Browser
  <2>4. session'[Subject(p)] = Revoked(session[Subject(p)])
    BY <2>2, <2>3 DEF Expire, End, Shape, TypeOK
  <2>5. session'[Subject(p)].status # "active"
    BY <2>3, <2>4, RowEffects DEF Shape, TypeOK
  <2>6. QED
    BY <1>1, <2>3, <2>5 DEF Closed, Subject
<1>5. ASSUME NEW p \in Requests, NEW q \in Requests, Ended(p)', p \in earlier'[q],
             OnSession(q), Subject(p) = Subject(q), Op(q) # "logout"
      PROVE  \/ pc'[q] = "load"
             \/ pc'[q] = "judge" /\ seen'[q].status # "active"
             \/ pc'[q] = "done" /\ ~Admits(q)'
  <2>1. Ended(p)
    BY <1>4, <1>5, EarlierStep
  <2>2. CASE p \notin earlier[q]
    <3>1. SignInRequest(q) \/ SessionRequest(q)
      BY <1>5, <2>2, EarlierStep
    <3>2. QED
      BY <1>5, <3>1 DEF SignInRequest, SessionRequest, Goto, OnSession, Shape, TypeOK
  <2>3. CASE p \in earlier[q]
    <3>1. pc[q] # "idle" /\ Op(q) \in Browser
      <4>1. pc[q] # "idle"
        BY <2>3 DEF Shape, Answered
      <4>2. QED
        BY <1>3, <1>5, <2>1, <4>1, SubjectOver
    <3>2. \/ pc[q] = "load"
          \/ pc[q] = "judge" /\ seen[q].status # "active"
          \/ pc[q] = "done" /\ ~Admits(q)
      BY <1>3, <1>5, <2>1, <2>3 DEF EndInv, SameSession
    <3>3. CASE pc[q] = "done" /\ ~Admits(q)
      BY <3>3, MovesStep DEF Moves, Settles, Admits
    <3>4. Fails(q) /\ pc'[q] # pc[q] => pc'[q] = "done" /\ ~Admits(q)'
      BY LeavesStep DEF Told, Admits
    <3>5. CASE pc[q] = "load"
      <4>1. Load(q) => pc'[q] = "judge" /\ seen'[q] = session[Subject(q)]
        BY DEF Load, Goto, Shape, TypeOK
      <4>2. QED
        BY <1>3, <1>5, <2>1, <3>4, <3>5, <4>1, LeavesStep DEF Leaves, Closed
    <3>6. CASE pc[q] = "judge" /\ seen[q].status # "active"
      <4>1. seen'[q] = seen[q]
        BY <3>6, Frames DEF Load, Shape, TypeOK
      <4>2. Judge(q) => pc'[q] = "done" /\ ~Admits(q)'
        BY <1>5, <3>6 DEF Judge, Ends, Settle, Admits, Shape, TypeOK
      <4>3. ~JudgeAgent(q)
        BY <3>1 DEF JudgeAgent, Browser
      <4>4. QED
        BY <3>4, <3>6, <4>1, <4>2, <4>3, LeavesStep DEF Leaves
    <3>7. QED
      BY <3>2, <3>3, <3>5, <3>6
  <2>4. QED
    BY <2>2, <2>3
<1>6. QED
  <2>1. ASSUME NEW p \in Requests, Ended(p)'
        PROVE  Closed(Subject(p))'
    BY <1>3, <1>4, <2>1
  <2>2. QED
    BY <1>2, <1>5, <2>1 DEF EndInv, SameSession
-----------------------------------------------------------------------------
(* A session that has expired stays so if its row does.                    *)
LEMMA ExpiredStays ==
  ASSUME Shape, [Next]_vars, NEW row \in Rows, Expired(row)
  PROVE  row.idle <= time' \/ row.expires <= time'
<1>1. time \in Nat /\ time' \in Nat /\ time <= time'
  BY RequestFacts, Frames DEF Tick, Shape, TypeOK
<1>2. row.idle \in Nat /\ row.expires \in Nat
  BY DEF Rows
<1>3. QED
  BY <1>1, <1>2 DEF Expired

LEMMA RacedStays ==
  ASSUME Shape, [Next]_vars, NEW p \in Requests, Raced(p)
  PROVE  Raced(p)'
<1>1. PICK r \in Requests :
        Overlap(r, p) /\ SameSession(r, p) /\ answer[r].what \in {"authenticated", "failed"}
  BY DEF Raced
<1>2. Overlap(r, p)' /\ answer'[r] = answer[r] /\ call' = call
  BY <1>1, Overlapped, Frames DEF Told
<1>3. SameSession(r, p)'
  BY <1>1, <1>2 DEF SameSession, OnSession, Op, Subject
<1>4. QED
  BY <1>1, <1>2, <1>3 DEF Raced

(* The session of an agent is changed by another use of it, or not at all. *)
LEMMA AgentSession ==
  ASSUME Shape, [Next]_vars, NEW p \in Requests, Op(p) = "use", pc[p] # "idle",
         session'[Subject(p)] # session[Subject(p)]
  PROVE  \E r \in Requests : /\ pc[r] = "touch" /\ SameSession(r, p) /\ SameSession(r, p)'
                             /\ answer'[r].what \in {"authenticated", "failed"}
<1>1. OnSession(p)
  BY DEF OnSession
<1>2. PICK s \in Requests : s = Subject(p) /\ pc[s] = "done" /\ Told(s, "admitted")
  BY <1>1, SubjectOver
<1>3. ~Created(s) /\ \A q \in Requests : ~RevokedBy(s, q)
  BY <1>2 DEF Created, RevokedBy, Told
<1>4. PICK r \in Requests : UsedBy(s, r)
  BY <1>2, <1>3, SessionEffects
<1>5. pc[r] = "touch" /\ OnSession(r) /\ Subject(r) = s
  BY <1>4 DEF UsedBy, Touch
<1>6. Op(r) = "use"
  BY <1>2, <1>5, SubjectOver DEF Shape, Located, Told, Browser
<1>7. Ends(r, "authenticated") \/ Ends(r, "failed")
  BY <1>4, <1>6 DEF UsedBy, Touch
<1>8. answer'[r].what \in {"authenticated", "failed"}
  BY <1>7 DEF Ends, Settle, Shape, TypeOK
<1>9. SameSession(r, p)
  BY <1>1, <1>2, <1>5 DEF SameSession
<1>10. SameSession(r, p)'
  BY <1>9, Frames DEF SameSession, OnSession, Op, Subject
<1>11. QED
  BY <1>5, <1>8, <1>9, <1>10

LEMMA AgentStep ==
  ASSUME Shape, AgentInv, [Next]_vars
  PROVE  AgentInv'
<1>1. call' = call
  BY Frames
<1>2. \A q \in Requests : Op(q)' = Op(q) /\ Subject(q)' = Subject(q) /\ OnSession(q)' = OnSession(q)
  BY <1>1 DEF Op, Subject, OnSession
<1>3. \A p \in Requests : Raced(p) => Raced(p)'
  BY RacedStays
<1>4. ASSUME NEW p \in Requests, NEW r \in Requests, Overlap(r, p)', SameSession(r, p)',
             answer'[r].what \in {"authenticated", "failed"}
      PROVE  Raced(p)'
  BY <1>4 DEF Raced
<1>5. ASSUME NEW p \in Requests, Op(p) = "use", pc'[p] = "judge"
      PROVE  seen'[p] = session'[Subject(p)] \/ Raced(p)'
  <2>1. CASE Load(p)
    BY <2>1, SubjectOver DEF Load, Shape, TypeOK
  <2>2. CASE pc[p] = "judge"
    <3>1. seen'[p] = seen[p]
      BY <2>2, Frames DEF Load, Shape, TypeOK
    <3>2. CASE session'[Subject(p)] # session[Subject(p)]
      <4>1. PICK r \in Requests : /\ pc[r] = "touch" /\ SameSession(r, p)'
                                  /\ answer'[r].what \in {"authenticated", "failed"}
        BY <1>5, <2>2, <3>2, AgentSession
      <4>2. Overlap(r, p)'
        BY <2>2, <4>1, Overlapped
      <4>3. QED
        BY <1>4, <4>1, <4>2
    <3>3. QED
      BY <1>3, <1>5, <2>2, <3>1, <3>2 DEF AgentInv
  <2>3. QED
    BY <1>5, <2>1, <2>2, MovesStep DEF Moves, Comes
<1>6. ASSUME NEW p \in Requests, Op(p) = "use", Told(p, "expired")', ~Told(p, "expired")
      PROVE  Expired(session[Subject(p)])' \/ Raced(p)'
  <2>1. JudgeAgent(p)
    BY <1>6, MovesStep DEF Moves, Settles, Told, Expire, Shape, Located, Browser
  <2>2. Expired(seen[p]) /\ pc[p] = "judge" /\ session' = session /\ time' = time
    BY <1>6, <2>1 DEF JudgeAgent, Goto, Told
  <2>3. seen[p] = session[Subject(p)] \/ Raced(p)'
    BY <1>3, <1>6, <2>2 DEF AgentInv
  <2>4. QED
    BY <1>1, <2>2, <2>3 DEF Expired, Subject
<1>7. ASSUME NEW p \in Requests, Op(p) = "use", Told(p, "expired")
      PROVE  Expired(session[Subject(p)])' \/ Raced(p)'
  <2>1. pc[p] = "done" /\ Subject(p) \in Requests
    BY <1>7, SubjectOver DEF Shape, Answered, Told, OnSession
  <2>2. CASE Raced(p)
    BY <1>3, <2>2
  <2>3. CASE Expired(session[Subject(p)]) /\ session'[Subject(p)] = session[Subject(p)]
    <3>1. session[Subject(p)] \in Rows
      BY <2>1 DEF Shape, TypeOK
    <3>2. session[Subject(p)].idle <= time' \/ session[Subject(p)].expires <= time'
      BY <2>3, <3>1, ExpiredStays
    <3>3. QED
      BY <1>1, <2>3, <3>2 DEF Expired, Subject
  <2>4. CASE ~Raced(p) /\ session'[Subject(p)] # session[Subject(p)]
    <3>1. PICK r \in Requests : /\ pc[r] = "touch" /\ SameSession(r, p) /\ SameSession(r, p)'
                                /\ answer'[r].what \in {"authenticated", "failed"}
      BY <1>7, <2>1, <2>4, AgentSession
    <3>2. p \notin earlier[r]
      BY <1>7, <2>4, <3>1 DEF AgentInv, SameSession
    <3>3. Overlap(r, p)
      BY <2>1, <3>1, <3>2 DEF Overlap, Shape, Answered
    <3>4. Overlap(r, p)'
      BY <3>3, Overlapped
    <3>5. QED
      BY <1>4, <3>1, <3>4
  <2>5. QED
    BY <1>7, <2>2, <2>3, <2>4 DEF AgentInv
<1>8. ASSUME NEW p \in Requests, NEW q \in Requests, Op(p) = "use", Told(p, "expired")',
             p \in earlier'[q], OnSession(q), Subject(p) = Subject(q)
      PROVE  \/ Raced(p)' \/ pc'[q] = "load"
             \/ pc'[q] = "judge" /\ Expired(seen[q])'
             \/ pc'[q] = "done" /\ ~Admits(q)'
  <2>1. Told(p, "expired") /\ pc[p] = "done" /\ OnSession(p)
    BY <1>8, EarlierStep DEF Told, OnSession
  <2>2. CASE p \notin earlier[q]
    <3>1. SignInRequest(q) \/ SessionRequest(q)
      BY <1>8, <2>2, EarlierStep
    <3>2. QED
      BY <1>8, <3>1 DEF SignInRequest, SessionRequest, Goto, OnSession, Shape, TypeOK
  <2>3. CASE p \in earlier[q]
    <3>1. pc[q] # "idle" /\ Op(q) = "use" /\ Subject(q) \in Requests
      <4>1. pc[q] # "idle"
        BY <2>3 DEF Shape, Answered
      <4>2. QED
        BY <1>8, <2>1, <4>1, SubjectOver
    <3>2. \/ Raced(p) \/ pc[q] = "load"
          \/ pc[q] = "judge" /\ Expired(seen[q])
          \/ pc[q] = "done" /\ ~Admits(q)
      BY <1>8, <2>1, <2>3 DEF AgentInv, SameSession
    <3>3. CASE pc[q] = "done" /\ ~Admits(q)
      BY <3>3, MovesStep DEF Moves, Settles, Admits
    <3>4. Fails(q) /\ pc'[q] # pc[q] => pc'[q] = "done" /\ ~Admits(q)'
      BY LeavesStep DEF Told, Admits
    <3>5. CASE pc[q] = "load"
      <4>1. Load(q) => /\ pc'[q] = "judge" /\ seen'[q] = session[Subject(q)]
                       /\ session' = session /\ time' = time
        BY DEF Load, Goto, Shape, TypeOK
      <4>2. Expired(session[Subject(q)])' \/ Raced(p)'
        BY <1>2, <1>7, <1>8, <2>1
      <4>3. Load(q) /\ Expired(session[Subject(q)])' => Expired(seen[q])'
        BY <1>1, <4>1 DEF Expired, Subject
      <4>4. QED
        BY <3>4, <3>5, <4>1, <4>2, <4>3, LeavesStep DEF Leaves
    <3>6. CASE pc[q] = "judge" /\ Expired(seen[q])
      <4>1. seen'[q] = seen[q] /\ seen[q] \in Rows
        BY <3>6, Frames DEF Load, Shape, TypeOK
      <4>2. Expired(seen[q])'
        BY <3>6, <4>1, ExpiredStays DEF Expired
      <4>3. JudgeAgent(q) => pc'[q] = "done" /\ ~Admits(q)'
        BY <3>6 DEF JudgeAgent, Ends, Settle, Admits, Shape, TypeOK
      <4>4. ~Judge(q)
        BY <3>1 DEF Judge
      <4>5. QED
        BY <3>4, <3>6, <4>2, <4>3, <4>4, LeavesStep DEF Leaves
    <3>7. QED
      BY <1>3, <3>2, <3>3, <3>5, <3>6
  <2>4. QED
    BY <2>2, <2>3
<1>9. QED
  <2>1. ASSUME NEW p \in Requests, Op(p) = "use", Told(p, "expired")'
        PROVE  Expired(session[Subject(p)])' \/ Raced(p)'
    BY <1>6, <1>7, <2>1
  <2>2. QED
    BY <1>1, <1>2, <1>5, <1>8, <2>1 DEF AgentInv, SameSession, Subject
-----------------------------------------------------------------------------
LEMMA HandoffStep ==
  ASSUME Shape, HandoffInv, [Next]_vars
  PROVE  HandoffInv'
<1>1. call' = call
  BY Frames
<1>2. \A q \in Requests : Op(q)' = Op(q) /\ Subject(q)' = Subject(q)
  BY <1>1 DEF Op, Subject
<1>3. \A q \in Requests : pc[q] = "done" => pc'[q] = "done"
  BY MovesStep DEF Moves, Settles
(* What a step does to the hand-offs.                                      *)
<1>4. ASSUME NEW h \in Requests, handoff'[h] # handoff[h]
      PROVE  \/ CreateHandoff(h) /\ pc'[h] = "done" /\ handoff[h] = NoHandoff
             \/ /\ handoff[h].status = "open" /\ handoff'[h].status = "consumed"
                /\ \E q \in Requests : Consume(q) /\ Subject(q) = h
  <2>1. ASSUME NEW q \in Requests, CreateHandoff(q)
        PROVE  h = q /\ pc'[h] = "done" /\ handoff[h] = NoHandoff
    BY <1>4, <2>1 DEF CreateHandoff, Ends, Settle, HandoffInv, Shape, TypeOK
  <2>2. ASSUME NEW q \in Requests, Consume(q)
        PROVE  handoff[h].status = "open" /\ handoff'[h].status = "consumed" /\ Subject(q) = h
    <3>1. /\ Open(call[q].by, now[q])
          /\ handoff' = [handoff EXCEPT ![call[q].by].status = "consumed"]
      BY <1>4, <2>2 DEF Consume
    <3>2. handoff[h] \in HandoffRows /\ handoff \in [Requests -> HandoffRows]
      BY DEF Shape, TypeOK, HandoffRows
    <3>3. call[q].by = h
      BY <1>4, <3>1, <3>2
    <3>4. handoff'[h] = [handoff[h] EXCEPT !.status = "consumed"]
      BY <3>1, <3>2, <3>3
    <3>5. QED
      BY <3>1, <3>2, <3>3, <3>4 DEF Open, Subject, HandoffRows
  <2>3. QED
    BY <1>4, <2>1, <2>2, Frames
(* A request takes a hand-off when it consumes it.                         *)
<1>5. ASSUME NEW q \in Requests, Redeems(q)', ~Redeems(q)
      PROVE  /\ Consume(q) /\ handoff[Subject(q)].status = "open"
             /\ handoff'[Subject(q)].status = "consumed"
  <2>1. Op(q) = "consume" /\ pc[q] # "admit" /\ session[q] = NoSession
    BY <1>2, <1>5 DEF Redeems
  <2>2. session'[q] = NoSession
    <3>1. ~Created(q)
      BY <2>1 DEF Created, SignIn, CreateAgentSession, Shape, Located
    <3>2. Revoked(session[q]) = session[q]
      BY <2>1 DEF Revoked, NoSession
    <3>3. QED
      BY <2>1, <3>1, <3>2, SessionEffects DEF RevokedBy, UsedBy, NoSession
  <2>3. pc'[q] = "admit" /\ Consume(q)
    BY <1>2, <1>5, <2>1, <2>2, MovesStep DEF Redeems, Moves, Comes
  <2>4. /\ Open(Subject(q), now[q]) /\ Subject(q) \in Requests
        /\ handoff' = [handoff EXCEPT ![Subject(q)].status = "consumed"]
    <3>1. ~Ends(q, "unauthorized")
      BY <2>3 DEF Ends, Settle, Shape, TypeOK
    <3>2. QED
      BY <2>1, <2>3, <3>1, CallType DEF Consume, Subject, Shape
  <2>5. handoff'[Subject(q)].status = "consumed"
    <3>1. handoff \in [Requests -> HandoffRows]
      BY DEF Shape, TypeOK, HandoffRows
    <3>2. QED
      BY <2>4, <3>1 DEF HandoffRows
  <2>6. QED
    BY <2>3, <2>4, <2>5 DEF Open
<1>6. \A h \in Requests : handoff'[h] # NoHandoff => pc'[h] = "done"
  BY <1>3, <1>4 DEF HandoffInv, NoHandoff
<1>7. ASSUME NEW q \in Requests, session'[q] # NoSession
      PROVE  pc'[q] = "done"
  <2>1. CASE session[q] # NoSession
    BY <1>3, <2>1 DEF HandoffInv
  <2>2. CASE session[q] = NoSession
    <3>1. Revoked(session[q]) = session[q]
      BY <2>2 DEF Revoked, NoSession
    <3>2. QED
      BY <1>7, <2>2, <3>1, SessionEffects DEF Created, RevokedBy, UsedBy, NoSession
  <2>3. QED
    BY <2>1, <2>2
<1>8. ASSUME NEW q \in Requests, Redeems(q)'
      PROVE  handoff'[Subject(q)].status = "consumed"
  <2>1. CASE Redeems(q)
    <3>1. Subject(q) \in Requests /\ handoff[Subject(q)].status = "consumed"
      BY <2>1, CallType DEF HandoffInv, Redeems, Shape
    <3>2. QED
      BY <1>4, <3>1 DEF NoHandoff
  <2>2. QED
    BY <1>5, <1>8, <2>1
<1>9. ASSUME NEW p \in Requests, NEW q \in Requests, Redeems(p)', Redeems(q)', Subject(p) = Subject(q)
      PROVE  p = q
  <2>1. Consume(p) /\ Consume(q) => p = q
    BY DEF Consume, Goto, Ends, Settle, Shape, TypeOK
  <2>2. QED
    BY <1>5, <1>9, <2>1 DEF HandoffInv
<1>10. QED
  BY <1>1, <1>2, <1>6, <1>7, <1>8, <1>9 DEF HandoffInv, Subject
-----------------------------------------------------------------------------
LEMMA InitInv == Init => IInv
<1> SUFFICES ASSUME Init
             PROVE  IInv
  OBVIOUS
<1> USE RequestFacts DEF Init, AccountsInit
<1>1. TypeOK
  <2>1. NoAccount \in [name: Names, password: Requests \cup {NoRequest}, born: 0..MaxRequests]
    BY DEF NoAccount, Names
  <2>2. NoSession \in Rows /\ NoHandoff \in [status: {"none", "open", "consumed"}, expires: Nat]
    BY DEF NoSession, Rows, NoHandoff
  <2>3. Pending \in [what: Outcomes, user: Requests \cup {NoRequest}] /\ "idle" \in Statements
    BY DEF Pending, Outcomes, Statements
  <2>4. QED
    BY <2>1, <2>2, <2>3 DEF TypeOK
<1>2. Located /\ Given
  BY DEF Located, Given
<1>3. \A q \in Requests : answer[q].what = "none"
  BY DEF Pending
<1>4. Answered
  BY <1>3 DEF Answered, Told, Admits
<1>5. Stored = {}
  BY DEF Stored
<1>6. ClockInv
  <2>1. Clocked = {}
    BY DEF Clocked
  <2>2. QED
    BY <2>1, FS_EmptySet DEF ClockInv
<1>7. StockInv
  BY <1>3, <1>5 DEF StockInv, Told
<1>8. SignupInv
  BY <1>3 DEF SignupInv, Told
<1>9. GoogleInv
  BY <1>3 DEF GoogleInv, CameTo, Told
<1>10. EndInv
  BY <1>3 DEF EndInv, Ended, Told
<1>11. AgentInv
  BY <1>3 DEF AgentInv, Told
<1>12. HandoffInv
  BY DEF HandoffInv, Redeems
<1>13. QED
  BY <1>1, <1>2, <1>4, <1>6, <1>7, <1>8, <1>9, <1>10, <1>11, <1>12 DEF IInv, Shape

LEMMA StepInv == IInv /\ [Next]_vars => IInv'
BY ShapeStep, SignupStep, GoogleStep, EndStep, AgentStep, HandoffStep DEF IInv

LEMMA Invariance == Spec => []IInv
BY InitInv, StepInv, PTL DEF Spec
-----------------------------------------------------------------------------
(* The statements of accounts, sessions and hand-offs keep their tables,   *)
(* and what a request carries between them, well formed.                   *)
THEOREM TypeCorrect == Spec => []TypeOK
<1>1. IInv => TypeOK
  BY DEF IInv, Shape
<1>2. QED
  BY <1>1, Invariance, PTL

(* Once an account has a password, no request changes the password or the  *)
(* username, those that read it without a password included (setPassword). *)
THEOREM PasswordStays == Spec => PasswordIsKept
<1>1. ASSUME IInv, [Next]_vars
      PROVE  [\A u \in Requests : accounts[u].password # NoRequest => accounts'[u] = accounts[u]]_accountVars
  <2>1. Shape
    BY <1>1 DEF IInv
  <2>2. ASSUME NEW u \in Requests, accounts[u].password # NoRequest
        PROVE  accounts'[u] = accounts[u]
    <3>1. u \in Stored
      BY <2>2 DEF Stored, NoAccount
    <3>2. QED
      BY <1>1, <2>1, <2>2, <3>1, AccountsStay
  <2>3. QED
    BY <2>2
<1>2. QED
  BY <1>1, Invariance, PTL DEF Spec, PasswordIsKept

(* Who was told that an account was created can sign in to it, unless      *)
(* another signup that ran at the same time had set its password first     *)
(* (signup(), login()).                                                    *)
THEOREM SignupHolds == Spec => []SignupIsGood
<1>1. ASSUME IInv
      PROVE  SignupIsGood
  <2>1. ASSUME NEW p \in Requests, NEW q \in Requests, Told(p, "created"), p \in earlier[q],
               call[q] = [op |-> "login", name |-> call[p].name, password |-> p], pc[q] = "done"
        PROVE  \/ Told(q, "failed")
               \/ Told(q, "session") /\ answer[q].user = answer[p].user
               \/ \E r \in Requests : Overlap(r, p) /\ accounts[answer[p].user].password = r
    BY <1>1, <2>1 DEF IInv, SignupInv, Preceded
  <2>2. QED
    BY <2>1 DEF SignupIsGood
<1>2. QED
  BY <1>1, Invariance, PTL

(* Who signs in with Google again comes to the same account, unless        *)
(* another one was being created when he came first (google(),             *)
(* findByEmail).                                                           *)
THEOREM SameAccountHolds == Spec => []SameAccountAgain
<1>1. ASSUME IInv
      PROVE  SameAccountAgain
  <2>1. ASSUME NEW p \in Requests, NEW q \in Requests, {Op(p), Op(q)} = {"google"},
               Told(p, "session"), Told(q, "session"), p \in earlier[q]
        PROVE  answer[p].user = answer[q].user \/ \E r \in Stored : Overlap(r, p)
    <3>1. answer[p].user \in Requests /\ answer[q].user \in Requests
      BY <1>1, <2>1 DEF IInv, Shape, StockInv, Stored
    <3>2. CameTo(p, answer[p].user) /\ CameTo(q, answer[q].user)
      BY <2>1 DEF CameTo
    <3>3. QED
      BY <1>1, <2>1, <3>1, <3>2 DEF IInv, GoogleInv
  <2>2. QED
    BY <2>1 DEF SameAccountAgain
<1>2. QED
  BY <1>1, Invariance, PTL

(* Once a logout was answered, or a request was told that the browser      *)
(* session has expired, no request that comes later is admitted            *)
(* (load(), refresh(), logout()).                                          *)
THEOREM EndHolds == Spec => []EndIsFinal
<1>1. ASSUME IInv
      PROVE  EndIsFinal
  <2>1. ASSUME NEW p \in Requests, NEW q \in Requests, Ended(p), p \in earlier[q], SameSession(p, q), Admits(q)
        PROVE  FALSE
    <3>1. pc[q] = "done" /\ Op(q) \in {"check", "handoff", "use"}
      BY <1>1, <2>1 DEF IInv, Shape, Answered, Admits, Told
    <3>2. QED
      BY <1>1, <2>1, <3>1 DEF IInv, EndInv
  <2>2. QED
    BY <2>1 DEF EndIsFinal, Ended
<1>2. QED
  BY <1>1, Invariance, PTL

(* An agent session that has expired comes back only by a use that ran at  *)
(* the same time (ConnectAgentSessionService.authenticate).                *)
THEOREM AgentComesBack == Spec => []AgentComesBackByRace
<1>1. ASSUME IInv
      PROVE  AgentComesBackByRace
  <2>1. ASSUME NEW p \in Requests, NEW q \in Requests, Told(p, "expired"), Op(p) = "use",
               p \in earlier[q], SameSession(p, q), Admits(q)
        PROVE  Raced(p)
    <3>1. pc[q] = "done"
      BY <1>1, <2>1 DEF IInv, Shape, Answered, Admits, Told
    <3>2. QED
      BY <1>1, <2>1, <3>1 DEF IInv, AgentInv
  <2>2. QED
    BY <2>1 DEF AgentComesBackByRace, Raced
<1>2. QED
  BY <1>1, Invariance, PTL

(* A hand-off makes one agent session (consumeHandoff).                    *)
THEOREM HandoffHolds == Spec => []HandoffIsRedeemedOnce
<1>1. ASSUME IInv
      PROVE  HandoffIsRedeemedOnce
  <2>1. ASSUME NEW p \in Requests, NEW q \in Requests, {Op(p), Op(q)} = {"consume"}, call[p] = call[q],
               session[p] # NoSession, session[q] # NoSession
        PROVE  p = q
    <3>1. Redeems(p) /\ Redeems(q) /\ Subject(p) = Subject(q)
      BY <2>1 DEF Redeems, Subject
    <3>2. QED
      BY <1>1, <3>1 DEF IInv, HandoffInv
  <2>2. QED
    BY <2>1 DEF HandoffIsRedeemedOnce
<1>2. QED
  BY <1>1, Invariance, PTL
=============================================================================
