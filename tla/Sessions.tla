------------------------------ MODULE Sessions ------------------------------
(***************************************************************************)
(* Browser sessions, from the sign-in that creates one, and the agent      *)
(* sessions that are handed over from them (createSession(), session() and *)
(* logout() of connect_auth_service.ts, connect_session_auth_service.ts,   *)
(* connect_agent_session_service.ts, and the statements of their           *)
(* repositories). Accounts is what comes before.                           *)
(*                                                                         *)
(* A session ends when it has not been used for IdleTime, or AbsoluteTime  *)
(* after it was created. Each use reads the row, judges it by the clock    *)
(* and writes a new idle time; other requests run in between, and time     *)
(* passes. A write that is reported to have failed may have been carried   *)
(* out. Accounts are active, and requests carry the right CSRF tokens.     *)
(***************************************************************************)
EXTENDS Accounts

CONSTANTS
  IdleTime, AbsoluteTime, HandoffTime,
  MaxTime       \* how far time goes after a sign-in

ASSUME SessionsAssumption == {IdleTime, AbsoluteTime, HandoffTime, MaxTime} \subseteq Nat

VARIABLES
  time,
  session,  \* the row of the session made for each request, of the browser
            \* for a sign-in, of the agent for a redeemed hand-off
  handoff,  \* the hand-off each request was given
  seen,     \* the row of a session it has read
  now       \* the clock as it read it

sessionVars == <<time, session, handoff, seen, now>>
vars == <<accountVars, sessionVars>>

(* What most steps leave alone.                                            *)
sameAccounts == UNCHANGED <<accounts, clock, call, at, found, earlier>>

NoSession == [status |-> "none", idle |-> 0, expires |-> 0]
NoHandoff == [status |-> "none", expires |-> 0]

OnSession(q) == Op(q) \in {"check", "logout", "handoff", "use"}
Subject(q) == call[q].by

Reads(q) == now' = [now EXCEPT ![q] = time]
Ends(q, outcome) == Settle(q, outcome, NoRequest)

Least(m, n) == IF m <= n THEN m ELSE n
NewIdle(t, expires) == Least(t + IdleTime, expires)

Expired(row) == row.idle <= time \/ row.expires <= time
-----------------------------------------------------------------------------
Init ==
  /\ AccountsInit
  /\ time = 0
  /\ session = [s \in Requests |-> NoSession]
  /\ handoff = [q \in Requests |-> NoHandoff]
  /\ seen = [q \in Requests |-> NoSession]
  /\ now = [q \in Requests |-> 0]

(* Time matters once there is a session that somebody uses.                *)
Tick ==
  /\ time < MaxTime
  /\ \E q \in Requests : OnSession(q) /\ session[Subject(q)] # NoSession
  /\ time' = time + 1
  /\ UNCHANGED <<accountVars, session, handoff, seen, now>>

NewSession(q, t) ==
  session' = [session EXCEPT ![q] =
    [status |-> "active", idle |-> t + IdleTime, expires |-> t + AbsoluteTime]]

(* createSession(), the end of a sign-in. When the statement fails, nobody *)
(* has the token of the row it may have left: see Fails.                   *)
SignIn(q) ==
  /\ pc[q] = "session"
  /\ NewSession(q, time)
  /\ Settle(q, "session", found[q])
  /\ sameAccounts /\ UNCHANGED <<time, handoff, seen, now>>

SessionRequest(q) ==
  /\ pc[q] = "idle"
  /\ \/ Op(q) \in {"check", "logout", "handoff"} /\ Told(Subject(q), "session") /\ Goto(q, "load")
     \/ Op(q) = "use" /\ Told(Subject(q), "admitted") /\ Goto(q, "load")
     \/ Op(q) = "consume" /\ Told(Subject(q), "handed") /\ Goto(q, "consume")
  /\ Reads(q) /\ Came(q)
  /\ UNCHANGED <<accounts, clock, call, at, found, time, session, handoff, seen>>

(* load(), and the first half of the agent's authenticate().               *)
Load(q) ==
  /\ pc[q] = "load"
  /\ seen' = [seen EXCEPT ![q] = session[Subject(q)]]
  /\ Goto(q, "judge")
  /\ sameAccounts /\ UNCHANGED <<time, session, handoff, now>>

(* Slip: an expired session is refused and not revoked.                    *)
JudgeOnly(q) ==
  /\ pc[q] = "judge" /\ Op(q) # "use"
  /\ \/ seen[q].status # "active" /\ Op(q) # "logout" /\ Ends(q, "unauthorized")
     \/ /\ seen[q].status = "active" \/ Op(q) = "logout"
        /\ IF Expired(seen[q]) THEN Ends(q, "expired") ELSE Goto(q, "account")
  /\ sameAccounts /\ UNCHANGED <<time, session, handoff, seen, now>>

(* Only a logout admits a session that is revoked.                         *)
Judge(q) ==
  LET row == seen[q] IN
  /\ pc[q] = "judge" /\ Op(q) # "use"
  /\ \/ row.status # "active" /\ Op(q) # "logout" /\ Ends(q, "unauthorized")
     \/ /\ row.status # "active" /\ Op(q) = "logout"
        /\ IF Expired(row) THEN Ends(q, "unauthorized") ELSE Goto(q, "account")
     \/ row.status = "active" /\ Goto(q, IF Expired(row) THEN "expire" ELSE "account")
  /\ sameAccounts /\ UNCHANGED <<time, session, handoff, seen, now>>

(* Slip: the use is written down before the row is judged.                 *)
TouchAndJudge(q) ==
  LET s == Subject(q) IN
  /\ pc[q] = "judge" /\ Op(q) = "use"
  /\ session' = [session EXCEPT ![s].idle = NewIdle(time, seen[q].expires)]
  /\ Ends(q, IF Expired(seen[q]) THEN "expired" ELSE "authenticated")
  /\ sameAccounts /\ UNCHANGED <<time, handoff, seen, now>>

(* Agent sessions are never revoked, not when they have expired either.    *)
JudgeAgent(q) ==
  /\ pc[q] = "judge" /\ Op(q) = "use"
  /\ \/ Expired(seen[q]) /\ Ends(q, "expired") /\ UNCHANGED now
     \/ ~Expired(seen[q]) /\ Goto(q, "touch") /\ Reads(q)
  /\ sameAccounts /\ UNCHANGED <<time, session, handoff, seen>>

(* The account is looked up; refresh() reads the clock again.              *)
Account(q) ==
  /\ pc[q] = "account"
  /\ Goto(q, IF Op(q) = "logout" THEN "end" ELSE "touch")
  /\ Reads(q)
  /\ sameAccounts /\ UNCHANGED <<time, session, handoff, seen>>

Revoked(row) == IF row.status = "active" THEN [row EXCEPT !.status = "revoked"] ELSE row

Expire(q) ==
  /\ pc[q] = "expire"
  /\ session' = [session EXCEPT ![Subject(q)] = Revoked(@)]
  /\ Ends(q, "expired") \/ Ends(q, "failed")
  /\ sameAccounts /\ UNCHANGED <<time, handoff, seen, now>>

End(q) ==
  /\ pc[q] = "end"
  /\ session' = [session EXCEPT ![Subject(q)] = Revoked(@)]
  /\ Ends(q, "ended") \/ Ends(q, "failed")
  /\ sameAccounts /\ UNCHANGED <<time, handoff, seen, now>>

(* Slip: the whole row is written back.                                    *)
TouchRow(q) ==
  /\ pc[q] = "touch"
  /\ session' = [session EXCEPT ![Subject(q)] = [seen[q] EXCEPT !.idle = NewIdle(now[q], seen[q].expires)]]
  /\ Ends(q, "authenticated")
  /\ sameAccounts /\ UNCHANGED <<time, handoff, seen, now>>

(* touchSession: it is not asked whether a row was changed.                *)
Touch(q) ==
  LET s == Subject(q) IN
  /\ pc[q] = "touch"
  /\ session' = IF session[s].status = "active"
                THEN [session EXCEPT ![s].idle = NewIdle(now[q], seen[q].expires)] ELSE session
  /\ \/ Op(q) = "handoff" /\ Goto(q, "presence")
     \/ Op(q) # "handoff" /\ Ends(q, "authenticated")
     \/ Ends(q, "failed")
  /\ sameAccounts /\ UNCHANGED <<time, handoff, seen, now>>
-----------------------------------------------------------------------------
(* createHandoff(): the executor must be the account's, and online.        *)
Presence(q) ==
  /\ pc[q] = "presence"
  /\ Goto(q, "hand-over") \/ Ends(q, "offline")
  /\ Reads(q)
  /\ sameAccounts /\ UNCHANGED <<time, session, handoff, seen>>

CreateHandoff(q) ==
  /\ pc[q] = "hand-over"
  /\ handoff' = [handoff EXCEPT ![q] = [status |-> "open", expires |-> now[q] + HandoffTime]]
  /\ Ends(q, "handed") \/ Ends(q, "failed")
  /\ sameAccounts /\ UNCHANGED <<time, session, seen, now>>

Open(h, t) == handoff[h].status = "open" /\ handoff[h].expires > t

(* Slip: the row is read and not written.                                  *)
FindHandoff(q) ==
  /\ pc[q] = "consume"
  /\ IF Open(call[q].by, now[q]) THEN Goto(q, "admit") ELSE Ends(q, "unauthorized")
  /\ sameAccounts /\ UNCHANGED <<time, session, handoff, seen, now>>

(* consumeHandoff: one statement.                                          *)
Consume(q) ==
  LET h == call[q].by IN
  /\ pc[q] = "consume"
  /\ \/ /\ Open(h, now[q])
        /\ handoff' = [handoff EXCEPT ![h].status = "consumed"]
        /\ Goto(q, "admit") \/ Ends(q, "failed")
     \/ ~Open(h, now[q]) /\ UNCHANGED handoff /\ Ends(q, "unauthorized")
  /\ sameAccounts /\ UNCHANGED <<time, session, seen, now>>

CreateAgentSession(q) ==
  /\ pc[q] = "admit"
  /\ NewSession(q, now[q])
  /\ Ends(q, "admitted") \/ Ends(q, "failed")
  /\ sameAccounts /\ UNCHANGED <<time, handoff, seen, now>>

SessionStep(q) ==
  \/ SignIn(q) \/ SessionRequest(q)
  \/ Load(q) \/ Judge(q) \/ JudgeAgent(q) \/ Account(q)
  \/ Expire(q) \/ End(q) \/ Touch(q)
  \/ Presence(q) \/ CreateHandoff(q) \/ Consume(q) \/ CreateAgentSession(q)

Next ==
  \/ Tick
  \/ \E q \in Requests : SessionStep(q) \/ (AccountStep(q) /\ UNCHANGED sessionVars)

Spec == Init /\ [][Next]_vars
-----------------------------------------------------------------------------
Names == Usernames \cup {ByEmail, UserId}
Rows == [status: {"none", "active", "revoked"}, idle: Nat, expires: Nat]
Statements ==
  {"idle", "find-passwordless", "link", "create", "find", "find-again", "look-up", "session",
   "load", "judge", "account", "touch", "expire", "end", "presence", "hand-over", "consume",
   "admit", "done"}
Outcomes ==
  {"none", "created", "duplicate", "invalid-credentials", "session", "authenticated", "unauthorized",
   "expired", "ended", "handed", "offline", "admitted", "failed"}

TypeOK ==
  /\ accounts \in [Requests -> [name: Names, password: Requests \cup {NoRequest}, born: 0..MaxRequests]]
  /\ clock \in 0..MaxRequests /\ at \in [Requests -> 0..MaxRequests]
  /\ call \in Loads
  /\ pc \in [Requests -> Statements]
  /\ found \in [Requests -> Requests \cup {NoRequest}]
  /\ answer \in [Requests -> [what: Outcomes, user: Requests \cup {NoRequest}]]
  /\ earlier \in [Requests -> SUBSET Requests]
  /\ time \in 0..MaxTime /\ now \in [Requests -> 0..MaxTime]
  /\ session \in [Requests -> Rows] /\ seen \in [Requests -> Rows]
  /\ handoff \in [Requests -> [status: {"none", "open", "consumed"}, expires: Nat]]

SameSession(p, q) == OnSession(p) /\ OnSession(q) /\ Subject(p) = Subject(q)
Admits(q) == answer[q].what \in {"authenticated", "handed", "offline"}

(* Once a logout was answered, or a request was told that the browser      *)
(* session has expired, no request that comes later is admitted or given a *)
(* hand-off, whatever uses of the session that found it alive were still   *)
(* to write their new idle time (load(), refresh(), logout()).             *)
EndIsFinal ==
  \A p, q \in Requests :
    /\ Told(p, "ended") \/ (Told(p, "expired") /\ Op(p) # "use")
    /\ p \in earlier[q] /\ SameSession(p, q)
    => ~Admits(q)

(* An agent session is not revoked when it expires, and it does come back  *)
(* if it is extended by a use that found it alive, but by nothing else     *)
(* (ConnectAgentSessionService.authenticate).                              *)
AgentComesBackByRace ==
  \A p, q \in Requests :
    /\ Told(p, "expired") /\ Op(p) = "use" /\ p \in earlier[q] /\ SameSession(p, q) /\ Admits(q)
    => \E r \in Requests : Overlap(r, p) /\ SameSession(r, p) /\ answer[r].what \in {"authenticated", "failed"}

(* A hand-off makes one agent session, however often it is presented and   *)
(* whatever fails (consumeHandoff).                                        *)
HandoffIsRedeemedOnce ==
  \A p, q \in Requests :
    /\ {Op(p), Op(q)} = {"consume"} /\ call[p] = call[q]
    /\ session[p] # NoSession /\ session[q] # NoSession
    => p = q
=============================================================================
