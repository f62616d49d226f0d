----------------------------- MODULE OAuthGrants -----------------------------
(***************************************************************************)
(* Consent, codes and tokens of one account (oauth_authorize_service.ts,   *)
(* oauth_flow_service.ts, oauth_token_auth_service.ts, the dashboard's     *)
(* revocation in remote_tools.controller.ts, and the statements of         *)
(* repo/oauth_repo).                                                       *)
(*                                                                         *)
(* A consent creates a connection and a code; the code is exchanged, once, *)
(* for an access and a refresh token; a refresh token is rotated. There    *)
(* are no transactions: each statement stands alone, other requests run    *)
(* between two of them, and one that is reported to have failed may have   *)
(* been carried out.                                                       *)
(***************************************************************************)
EXTENDS Naturals, FiniteSets

CONSTANTS
  Connections,  \* one per consent
  Apps,         \* names of the apps that ask for consent
  AppOf,        \* the name of a connection's client, or Unnamed
  MaxRequests,  \* how many requests there may be
  Loads,        \* what they may ask for, all together
  Unnamed, NoCall

Requests == 1..MaxRequests
NoRequest == 0
Kinds == {"access", "refresh"}

(* A token is known by the request that mints it.                          *)
Tokens == Requests \X Kinds

CallRecords == [op: {"approve", "exchange", "refresh", "revoke"}, on: Connections]

ASSUME GrantsAssumption ==
  /\ IsFiniteSet(Connections)
  /\ MaxRequests \in Nat
  /\ AppOf \in [Connections -> Apps \cup {Unnamed}]
  /\ NoCall \notin CallRecords
  /\ Loads \subseteq [Requests -> CallRecords \cup {NoCall}]
  /\ \A load \in Loads, p, q \in Requests :
       load[p] # NoCall /\ load[p] = load[q] /\ load[p].op = "approve" => p = q

VARIABLES
  connection,  \* the status of each connection
  created,     \* how many connections were there when it was created, itself included
  code,        \* the status of its code
  token,       \* the status of each token
  call,        \* what each request asks for
  pc,          \* the statement it is at
  presented,   \* the request whose refresh token it presents
  answer       \* what its caller is told

vars == <<connection, created, code, token, call, pc, presented, answer>>
connections == <<connection, created>>

Statements ==
  {"idle", "connect", "code", "compensate", "supersede-tokens", "supersede",
   "consume", "verify", "access", "refresh", "lookup", "rotate", "fresh-access",
   "owned", "revoke-tokens", "revoke", "done"}

Outcomes ==
  {"none", "approved", "approved-in-part", "granted", "revoked",
   "invalid_grant", "not-found", "unavailable"}

Connection(q) == call[q].on
Of(t) == Connection(t[1])

Goto(q, label) == pc' = [pc EXCEPT ![q] = label] /\ UNCHANGED answer
Settle(q, outcome) ==
  pc' = [pc EXCEPT ![q] = "done"] /\ answer' = [answer EXCEPT ![q] = outcome]

(* Slip: the token is looked up alone.                                     *)
UsableAlone(t) == token[t] = "active"

(* The access tokens authenticate() admits: it joins the connection.       *)
Usable(t) == token[t] = "active" /\ connection[Of(t)] = "active"
-----------------------------------------------------------------------------
Init ==
  /\ connection = [c \in Connections |-> "none"]
  /\ created = [c \in Connections |-> 0]
  /\ code = [c \in Connections |-> "none"]
  /\ token = [t \in Tokens |-> "none"]
  /\ call \in Loads
  /\ pc = [q \in Requests |-> "idle"]
  /\ presented = [q \in Requests |-> NoRequest]
  /\ answer = [q \in Requests |-> "none"]

(* A code is presented by whom it was sent to; a refresh token too, who    *)
(* may present one again that has been rotated since.                      *)
Holders(c) == {q \in Requests : answer[q] = "granted" /\ Connection(q) = c}

Consented(c) ==
  \E q \in Requests : answer[q] \in {"approved", "approved-in-part"} /\ Connection(q) = c

Request(q) ==
  /\ pc[q] = "idle" /\ call[q] # NoCall
  /\ CASE call[q].op = "approve" -> Goto(q, "connect") /\ UNCHANGED presented
       [] call[q].op = "exchange" ->
            Consented(Connection(q)) /\ Goto(q, "consume") /\ UNCHANGED presented
       [] call[q].op = "refresh" ->
            /\ \E p \in Holders(Connection(q)) : presented' = [presented EXCEPT ![q] = p]
            /\ Goto(q, "lookup")
       [] call[q].op = "revoke" -> Goto(q, "owned") /\ UNCHANGED presented
  /\ UNCHANGED <<connections, code, token, call>>

-----------------------------------------------------------------------------
(* approve(): connection, code, then what the new connection supersedes.   *)
CreateConnection(q) ==
  LET c == Connection(q)
      write == /\ connection' = [connection EXCEPT ![c] = "active"]
               /\ created' = [created EXCEPT ![c] = Cardinality({d \in Connections : created[d] # 0}) + 1] IN
  /\ pc[q] = "connect"
  /\ \/ write /\ Goto(q, "code")
     \/ (write \/ UNCHANGED connections) /\ Settle(q, "unavailable")
  /\ UNCHANGED <<code, token, call, presented>>

CreateCode(q) ==
  LET c == Connection(q)
      write == code' = [code EXCEPT ![c] = "unused"] IN
  /\ pc[q] = "code"
  /\ \/ write /\ IF AppOf[c] = Unnamed THEN Settle(q, "approved") ELSE Goto(q, "supersede-tokens")
     \/ (write \/ UNCHANGED code) /\ Goto(q, "compensate")
  /\ UNCHANGED <<connections, token, call, presented>>

Compensate(q) ==
  /\ pc[q] = "compensate"
  /\ \/ connection' = [connection EXCEPT ![Connection(q)] = "revoked"]
     \/ UNCHANGED connection
  /\ Settle(q, "unavailable")
  /\ UNCHANGED <<created, code, token, call, presented>>

(* The other active connections of the same app, newer ones included.      *)
(* Slip: those of the same client id, which is new for each consent.       *)
SupersededByClient(c) == {}

Superseded(c) ==
  {d \in Connections \ {c} : connection[d] = "active" /\ AppOf[d] = AppOf[c]}

SupersedeTokens(q) ==
  /\ pc[q] = "supersede-tokens"
  /\ \/ token' = [t \in Tokens |-> IF token[t] = "active" /\ Of(t) \in Superseded(Connection(q))
                                   THEN "revoked" ELSE token[t]]
     \/ UNCHANGED token
  /\ Goto(q, "supersede")
  /\ UNCHANGED <<connections, code, call, presented>>

SupersedeConnections(q) ==
  LET write == connection' = [d \in Connections |-> IF d \in Superseded(Connection(q))
                                                    THEN "revoked" ELSE connection[d]] IN
  /\ pc[q] = "supersede"
  /\ \/ write /\ Settle(q, "approved")
     \/ (write \/ UNCHANGED connection) /\ Settle(q, "approved-in-part")
  /\ UNCHANGED <<created, code, token, call, presented>>
-----------------------------------------------------------------------------
(* exchangeCode(): the code is used up before anything else is looked at.  *)
(* Slip: it is read, and marked as used later.                             *)
UnusedOrUsed(c) == code[c] \in {"unused", "used"}

Unused(c) == code[c] = "unused"

ConsumeCode(q) ==
  LET c == Connection(q) IN
  /\ pc[q] = "consume"
  /\ \/ /\ Unused(c) /\ code' = [code EXCEPT ![c] = "used"]
        /\ Goto(q, "verify") \/ Settle(q, "invalid_grant") \/ Settle(q, "unavailable")
     \/ UNCHANGED code /\ Settle(q, "unavailable")
     \/ ~Unused(c) /\ UNCHANGED code /\ Settle(q, "invalid_grant")
  /\ UNCHANGED <<connections, token, call, presented>>

VerifyConnection(q) ==
  /\ pc[q] = "verify"
  /\ \/ connection[Connection(q)] = "active" /\ Goto(q, "access")
     \/ connection[Connection(q)] # "active" /\ Settle(q, "invalid_grant")
     \/ Settle(q, "unavailable")
  /\ UNCHANGED <<connections, code, token, call, presented>>

Mint(t) == token' = [token EXCEPT ![t] = "active"]

MintAccess(q) ==
  /\ pc[q] = "access"
  /\ \/ Mint(<<q, "access">>) /\ Goto(q, "refresh")
     \/ (Mint(<<q, "access">>) \/ UNCHANGED token) /\ Settle(q, "unavailable")
  /\ UNCHANGED <<connections, code, call, presented>>

MintRefresh(q) ==
  /\ pc[q] = "refresh"
  /\ \/ Mint(<<q, "refresh">>) /\ Settle(q, "granted")
     \/ (Mint(<<q, "refresh">>) \/ UNCHANGED token) /\ Settle(q, "unavailable")
  /\ UNCHANGED <<connections, code, call, presented>>
-----------------------------------------------------------------------------
(* refresh(): the connection is looked at once, before the rotation.       *)
Presented(q) == <<presented[q], "refresh">>

FindToken(q) ==
  /\ pc[q] = "lookup"
  /\ \/ Usable(Presented(q)) /\ Goto(q, "rotate")
     \/ ~Usable(Presented(q)) /\ Settle(q, "invalid_grant")
     \/ Settle(q, "unavailable")
  /\ UNCHANGED <<connections, code, token, call, presented>>

(* rotateRefreshToken: one statement revokes the old token, if it is still *)
(* active, and inserts the new one.                                        *)
(* Slip: the status found before is not part of the statement.             *)
RotatableAnyway(q) == TRUE

Rotatable(q) == token[Presented(q)] = "active"

RotateRefreshToken(q) ==
  LET write == token' = [token EXCEPT ![Presented(q)] = "revoked", ![<<q, "refresh">>] = "active"] IN
  /\ pc[q] = "rotate"
  /\ \/ Rotatable(q) /\ write /\ (Goto(q, "fresh-access") \/ Settle(q, "unavailable"))
     \/ UNCHANGED token /\ Settle(q, "unavailable")
     \/ ~Rotatable(q) /\ UNCHANGED token /\ Settle(q, "invalid_grant")
  /\ UNCHANGED <<connections, code, call, presented>>

MintFreshAccess(q) ==
  /\ pc[q] = "fresh-access"
  /\ \/ Mint(<<q, "access">>) /\ Settle(q, "granted")
     \/ (Mint(<<q, "access">>) \/ UNCHANGED token) /\ Settle(q, "unavailable")
  /\ UNCHANGED <<connections, code, call, presented>>
-----------------------------------------------------------------------------
(* revokeConnection() of the dashboard.                                    *)
OwnedConnection(q) ==
  /\ pc[q] = "owned"
  /\ \/ connection[Connection(q)] = "active" /\ Goto(q, "revoke-tokens")
     \/ connection[Connection(q)] # "active" /\ Settle(q, "not-found")
     \/ Settle(q, "unavailable")
  /\ UNCHANGED <<connections, code, token, call, presented>>

RevokeTokens(q) ==
  LET write == token' = [t \in Tokens |-> IF token[t] = "active" /\ Of(t) = Connection(q)
                                          THEN "revoked" ELSE token[t]] IN
  /\ pc[q] = "revoke-tokens"
  /\ \/ write /\ Goto(q, "revoke")
     \/ (write \/ UNCHANGED token) /\ Settle(q, "unavailable")
  /\ UNCHANGED <<connections, code, call, presented>>

RevokeConnection(q) ==
  LET write == connection' = [connection EXCEPT ![Connection(q)] = "revoked"] IN
  /\ pc[q] = "revoke"
  /\ \/ write /\ Settle(q, "revoked")
     \/ (write \/ UNCHANGED connection) /\ Settle(q, "unavailable")
  /\ UNCHANGED <<created, code, token, call, presented>>
-----------------------------------------------------------------------------
CodeExpires(c) ==
  /\ code[c] = "unused"
  /\ code' = [code EXCEPT ![c] = "expired"]
  /\ UNCHANGED <<connections, token, call, pc, presented, answer>>

TokenExpires(t) ==
  /\ token[t] = "active"
  /\ token' = [token EXCEPT ![t] = "expired"]
  /\ UNCHANGED <<connections, code, call, pc, presented, answer>>

Approve(q) ==
  CreateConnection(q) \/ CreateCode(q) \/ Compensate(q) \/ SupersedeTokens(q) \/ SupersedeConnections(q)
ExchangeCode(q) == ConsumeCode(q) \/ VerifyConnection(q) \/ MintAccess(q) \/ MintRefresh(q)
Refresh(q) == FindToken(q) \/ RotateRefreshToken(q) \/ MintFreshAccess(q)
Revoke(q) == OwnedConnection(q) \/ RevokeTokens(q) \/ RevokeConnection(q)

Next ==
  \/ \E q \in Requests : Request(q) \/ Approve(q) \/ ExchangeCode(q) \/ Refresh(q) \/ Revoke(q)
  \/ \E c \in Connections : CodeExpires(c)
  \/ \E t \in Tokens : TokenExpires(t)

Spec == Init /\ [][Next]_vars
-----------------------------------------------------------------------------
TypeOK ==
  /\ connection \in [Connections -> {"none", "active", "revoked"}]
  /\ created \in [Connections -> 0..Cardinality(Connections)]
  /\ code \in [Connections -> {"none", "unused", "used", "expired"}]
  /\ token \in [Tokens -> {"none", "active", "revoked", "expired"}]
  /\ call \in Loads
  /\ pc \in [Requests -> Statements]
  /\ presented \in [Requests -> Requests \cup {NoRequest}]
  /\ answer \in [Requests -> Outcomes]

(* A consent stands for one chain of tokens: its code is exchanged at most *)
(* once, however often it is presented at the same time, and at most one   *)
(* refresh token of the connection is active at any time, although a       *)
(* client repeats a refresh whose answer it lost (consumeCode,             *)
(* rotateRefreshToken).                                                    *)
SingleChain ==
  \A c \in Connections :
    /\ Cardinality({q \in Requests : call[q] = [op |-> "exchange", on |-> c] /\ answer[q] = "granted"}) <= 1
    /\ Cardinality({q \in Requests : <<q, "refresh">> \in {t \in Tokens : token[t] = "active" /\ Of(t) = c}}) <= 1

(* Once the dashboard has said that a connection is revoked, nothing       *)
(* authenticates with it any more: not with the tokens that an exchange or *)
(* a refresh still running mints after its tokens were revoked             *)
(* (revokeConnection(), authenticate()).                                   *)
RevocationHolds ==
  \A q \in Requests : answer[q] = "revoked" =>
    \A t \in Tokens : call[t[1]] # NoCall /\ Of(t) = Connection(q) => ~Usable(t)

(* An approval that was carried out completely leaves none of the older    *)
(* connections of the app active ("New consent supersedes the user's older *)
(* connections", oauth_authorize_service.ts:288).                          *)
SupersedesOlder ==
  \A q \in Requests : answer[q] = "approved" /\ AppOf[Connection(q)] # Unnamed =>
    \A d \in Connections :
      AppOf[d] = AppOf[Connection(q)] /\ created[d] < created[Connection(q)] =>
        connection[d] # "active"

(* ... and only the older ones: the newest connection of an app, once      *)
(* approved, is active as long as nobody revokes it.                       *)
NewestConsentSurvives ==
  \A q \in Requests :
    answer[q] \in {"approved", "approved-in-part"} =>
      \/ connection[Connection(q)] = "active"
      \/ \E d \in Connections : /\ AppOf[d] = AppOf[Connection(q)]
                                /\ created[d] > created[Connection(q)]
      \/ [op |-> "revoke", on |-> Connection(q)] \in {call[p] : p \in Requests}
=============================================================================
