------------------------- MODULE OAuthGrants_proofs -------------------------
(* Theorems about OAuthGrants, for every value of its constants.           *)
EXTENDS OAuthGrants, FiniteSetTheorems, TLAPS

Asked(q, op) == call[q] # NoCall /\ call[q].op = op
Minter(q) == Asked(q, "exchange") \/ Asked(q, "refresh")

(* A request is at a statement of what it asks for, and is told nothing    *)
(* else.                                                                   *)
Control ==
  \A q \in Requests :
    /\ pc[q] \in {"connect", "code", "compensate", "supersede-tokens", "supersede"} => Asked(q, "approve")
    /\ pc[q] \in {"consume", "verify", "access", "refresh"} => Asked(q, "exchange")
    /\ pc[q] \in {"lookup", "rotate", "fresh-access"} => Asked(q, "refresh")
    /\ pc[q] \in {"lookup", "rotate"} => presented[q] # NoRequest
    /\ pc[q] \in {"owned", "revoke-tokens", "revoke"} => Asked(q, "revoke")
    /\ answer[q] # "none" => pc[q] = "done"
    /\ answer[q] \in {"approved", "approved-in-part"} => Asked(q, "approve")
    /\ answer[q] = "granted" => Minter(q)
    /\ answer[q] = "revoked" => Asked(q, "revoke")

(* The token presented was given to someone, for the same connection; and  *)
(* tokens are minted for exchanges and refreshes.                          *)
Provenance ==
  \A q \in Requests :
    /\ presented[q] # NoRequest =>
         /\ Asked(q, "refresh")
         /\ answer[presented[q]] = "granted" /\ Connection(presented[q]) = Connection(q)
    /\ \A k \in Kinds : token[<<q, k>>] # "none" => Minter(q)

(* Nothing is there of a connection before its approval has come so far.   *)
Unborn ==
  \A q \in Requests : Asked(q, "approve") =>
    /\ pc[q] \in {"idle", "connect"} => created[Connection(q)] = 0
    /\ pc[q] \in {"idle", "connect", "code"} => code[Connection(q)] = "none"

(* A connection is there when its approval or its revocation goes on.      *)
Born ==
  \A q \in Requests :
    (\/ pc[q] \in {"code", "compensate", "supersede-tokens", "supersede", "revoke-tokens", "revoke"}
     \/ answer[q] \in {"approved", "approved-in-part"}) => created[Connection(q)] # 0

(* The connections are numbered as they are created.                       *)
Created == {d \in Connections : created[d] # 0}

Numbered ==
  /\ \A d \in Connections : created[d] <= Cardinality(Created)
  /\ \A d \in Connections : created[d] = 0 => connection[d] = "none"

(* Who has used a code up and has not been turned away, and who holds the  *)
(* end of the chain of refresh tokens, or is about to.                     *)
Minting(q) == pc[q] \in {"verify", "access", "refresh"}
Claimant(q) == Asked(q, "exchange") /\ (Minting(q) \/ answer[q] = "granted")
Live(q) == Minting(q) \/ token[<<q, "refresh">>] = "active"

OneClaimant ==
  /\ \A q \in Requests : Claimant(q) => code[Connection(q)] = "used"
  /\ \A p, q \in Requests : Claimant(p) /\ Claimant(q) /\ Connection(p) = Connection(q) => p = q

OneLive ==
  /\ \A q \in Requests : Live(q) => code[Connection(q)] = "used"
  /\ \A p, q \in Requests : Live(p) /\ Live(q) /\ Connection(p) = Connection(q) => p = q

RevokedForGood ==
  \A q \in Requests : answer[q] = "revoked" => connection[Connection(q)] = "revoked"

Shape == TypeOK /\ Control /\ Provenance /\ Unborn /\ Born /\ Numbered

IInv == Shape /\ OneClaimant /\ OneLive /\ RevokedForGood /\ SupersedesOlder
-----------------------------------------------------------------------------
LEMMA GrantFacts ==
  /\ IsFiniteSet(Connections)
  /\ MaxRequests \in Nat /\ Requests \subseteq Nat \ {0} /\ IsFiniteSet(Requests)
  /\ NoRequest \notin Requests
  /\ \A load \in Loads, q \in Requests :
       load[q] # NoCall => /\ load[q].on \in Connections
                           /\ load[q].op \in {"approve", "exchange", "refresh", "revoke"}
<1>1. MaxRequests \in Nat /\ Requests \subseteq Nat \ {0}
  BY GrantsAssumption DEF GrantsAssumption, Requests
<1>2. IsFiniteSet(Requests)
  BY <1>1, FS_Interval DEF Requests
<1>3. \A load \in Loads, q \in Requests : load[q] \in CallRecords \cup {NoCall}
  BY GrantsAssumption DEF GrantsAssumption
<1>4. QED
  BY <1>1, <1>2, <1>3, GrantsAssumption DEF GrantsAssumption, CallRecords, NoRequest

(* Only one approval is asked for of a connection.                         *)
LEMMA OneApproval ==
  ASSUME TypeOK, NEW p \in Requests, NEW q \in Requests, Asked(p, "approve"), Asked(q, "approve"),
         Connection(p) = Connection(q)
  PROVE  p = q
<1>1. call \in Loads /\ call[p] \in CallRecords /\ call[q] \in CallRecords
  BY GrantsAssumption DEF GrantsAssumption, TypeOK, Asked
<1>2. call[p] = call[q]
  BY <1>1 DEF CallRecords, Asked, Connection
<1>3. QED
  BY <1>1, <1>2, GrantsAssumption DEF GrantsAssumption, Asked

LEMMA AtMostOne ==
  ASSUME NEW S \in SUBSET Requests, \A p, q \in S : p = q
  PROVE  Cardinality(S) <= 1
<1>1. CASE S = {}
  BY <1>1, FS_EmptySet
<1>2. CASE S # {}
  <2>1. PICK p \in S : S = {p}
    BY <1>2
  <2>2. QED
    BY <2>1, FS_Singleton
<1>3. QED
  BY <1>1, <1>2

LEMMA CountOfCreated ==
  ASSUME TypeOK
  PROVE  /\ Cardinality(Created) \in Nat
         /\ \A c \in Connections : created[c] = 0 => Cardinality(Created) + 1 <= Cardinality(Connections)
         /\ \A c \in Connections : created[c] = 0 => Cardinality(Created \cup {c}) = Cardinality(Created) + 1
<1>1. IsFiniteSet(Connections) /\ Created \subseteq Connections
  BY GrantFacts DEF Created
<1>2. IsFiniteSet(Created)
  BY <1>1, FS_Subset
<1>3. Cardinality(Created) \in Nat
  BY <1>2, FS_CardinalityType
<1>4. ASSUME NEW c \in Connections, created[c] = 0
      PROVE  /\ Cardinality(Created \cup {c}) = Cardinality(Created) + 1
             /\ Cardinality(Created) + 1 <= Cardinality(Connections)
  <2>1. c \notin Created
    BY <1>4 DEF Created
  <2>2. Cardinality(Created \cup {c}) = Cardinality(Created) + 1
    BY <1>2, <2>1, FS_AddElement
  <2>3. Created \cup {c} \in SUBSET Connections
    BY <1>1
  <2>4. Cardinality(Created \cup {c}) <= Cardinality(Connections)
    BY <1>1, <2>3, FS_Subset
  <2>5. QED
    BY <2>2, <2>4
<1>5. QED
  BY <1>3, <1>4
-----------------------------------------------------------------------------
LEMMA InitIInv == Init => IInv
<1> SUFFICES ASSUME Init PROVE IInv
  OBVIOUS
<1> USE GrantFacts
<1>1. TypeOK
  <2>1. Cardinality(Connections) \in Nat
    BY FS_CardinalityType
  <2>2. QED
    BY <2>1 DEF Init, TypeOK, Statements, Outcomes, Tokens
<1>2. Control /\ Provenance /\ Unborn /\ Born
  BY DEF Init, Control, Provenance, Unborn, Born, Tokens, Asked, Connection
<1>3. Numbered
  <2>1. Cardinality(Created) \in Nat
    BY <1>1, CountOfCreated
  <2>2. QED
    BY <2>1 DEF Init, Numbered
<1>4. OneClaimant /\ OneLive
  BY DEF Init, OneClaimant, OneLive, Claimant, Live, Minting, Tokens, Kinds
<1>5. RevokedForGood /\ SupersedesOlder
  BY DEF Init, RevokedForGood, SupersedesOlder
<1>6. QED
  BY <1>1, <1>2, <1>3, <1>4, <1>5 DEF IInv, Shape
-----------------------------------------------------------------------------
LEMMA CallType ==
  ASSUME TypeOK, NEW q \in Requests, call[q] # NoCall
  PROVE  /\ Connection(q) \in Connections
         /\ call[q].op \in {"approve", "exchange", "refresh", "revoke"}
BY GrantFacts DEF TypeOK, Connection

(* The arms of Request(q), by what it asks for.                            *)
LEMMA RequestCases ==
  ASSUME TypeOK, NEW q \in Requests, Request(q)
  PROVE  /\ pc[q] = "idle" /\ UNCHANGED <<connections, code, token, call>>
         /\ \/ Asked(q, "approve") /\ Goto(q, "connect") /\ UNCHANGED presented
            \/ Asked(q, "exchange") /\ Goto(q, "consume") /\ UNCHANGED presented
            \/ /\ Asked(q, "refresh") /\ Goto(q, "lookup")
               /\ \E p \in Holders(Connection(q)) : presented' = [presented EXCEPT ![q] = p]
            \/ Asked(q, "revoke") /\ Goto(q, "owned") /\ UNCHANGED presented
<1>1. call[q] # NoCall /\ call[q].op \in {"approve", "exchange", "refresh", "revoke"}
  BY CallType DEF Request
<1>2. QED
  BY <1>1 DEF Request, Asked

LEMMA TypeStep ==
  ASSUME Shape, [Next]_vars
  PROVE  TypeOK'
<1> USE DEF TypeOK, Shape, Statements, Outcomes, connections, Goto, Settle, Mint
<1>1. ASSUME NEW q \in Requests, Request(q)
      PROVE  TypeOK'
  BY <1>1, RequestCases DEF Holders
<1>2. ASSUME NEW q \in Requests, CreateConnection(q)
      PROVE  TypeOK'
  <2> DEFINE c == Connection(q)
             n == Cardinality(Created) + 1
  <2>1. pc[q] = "connect" /\ Asked(q, "approve")
    BY <1>2 DEF CreateConnection, Control
  <2>2. c \in Connections /\ created[c] = 0
    BY <2>1, CallType DEF Unborn, Asked
  <2>3. n \in 0..Cardinality(Connections)
    BY <2>2, CountOfCreated, FS_CardinalityType
  <2> HIDE DEF n
  <2>4. created' = [created EXCEPT ![c] = n] \/ created' = created
    BY <1>2 DEF CreateConnection, Created, n
  <2>5. created' \in [Connections -> 0..Cardinality(Connections)]
    BY <2>3, <2>4
  <2>6. QED
    BY <1>2, <2>5 DEF CreateConnection
<1>3. ASSUME NEW q \in Requests, CreateCode(q)
      PROVE  TypeOK'
  BY <1>3 DEF CreateCode
<1>4. ASSUME NEW q \in Requests, Compensate(q)
      PROVE  TypeOK'
  BY <1>4 DEF Compensate
<1>5. ASSUME NEW q \in Requests, SupersedeTokens(q)
      PROVE  TypeOK'
  BY <1>5 DEF SupersedeTokens
<1>6. ASSUME NEW q \in Requests, SupersedeConnections(q)
      PROVE  TypeOK'
  BY <1>6 DEF SupersedeConnections
<1>7. ASSUME NEW q \in Requests, ConsumeCode(q)
      PROVE  TypeOK'
  BY <1>7 DEF ConsumeCode
<1>8. ASSUME NEW q \in Requests, VerifyConnection(q)
      PROVE  TypeOK'
  BY <1>8 DEF VerifyConnection
<1>9. ASSUME NEW q \in Requests, MintAccess(q)
      PROVE  TypeOK'
  BY <1>9 DEF MintAccess
<1>10. ASSUME NEW q \in Requests, MintRefresh(q)
      PROVE  TypeOK'
  BY <1>10 DEF MintRefresh
<1>11. ASSUME NEW q \in Requests, FindToken(q)
      PROVE  TypeOK'
  BY <1>11 DEF FindToken
<1>12. ASSUME NEW q \in Requests, RotateRefreshToken(q)
      PROVE  TypeOK'
  BY <1>12 DEF RotateRefreshToken
<1>13. ASSUME NEW q \in Requests, MintFreshAccess(q)
      PROVE  TypeOK'
  BY <1>13 DEF MintFreshAccess
<1>14. ASSUME NEW q \in Requests, OwnedConnection(q)
      PROVE  TypeOK'
  BY <1>14 DEF OwnedConnection
<1>15. ASSUME NEW q \in Requests, RevokeTokens(q)
      PROVE  TypeOK'
  BY <1>15 DEF RevokeTokens
<1>16. ASSUME NEW q \in Requests, RevokeConnection(q)
      PROVE  TypeOK'
  BY <1>16 DEF RevokeConnection
<1>17. ASSUME NEW c \in Connections, CodeExpires(c)
      PROVE  TypeOK'
  BY <1>17 DEF CodeExpires
<1>18. ASSUME NEW t \in Tokens, TokenExpires(t)
      PROVE  TypeOK'
  BY <1>18 DEF TokenExpires
<1>19. CASE UNCHANGED vars
  BY <1>19 DEF vars
<1>20. QED
  BY <1>1, <1>2, <1>3, <1>4, <1>5, <1>6, <1>7, <1>8, <1>9, <1>10, <1>11, <1>12, <1>13, <1>14, <1>15, <1>16, <1>17, <1>18, <1>19 DEF Next, Approve, ExchangeCode, Refresh, Revoke

LEMMA ControlStep ==
  ASSUME Shape, [Next]_vars
  PROVE  Control'
<1> USE DEF TypeOK, Control, Shape, Asked, Minter, connections, Goto, Settle, Mint
<1>1. ASSUME NEW q \in Requests, Request(q)
      PROVE  Control'
  <2>1. pc[q] = "idle" /\ answer[q] = "none" /\ answer' = answer /\ call' = call
    BY <1>1, RequestCases
  <2>2. \A p \in Requests \ {q} : pc'[p] = pc[p] /\ presented'[p] = presented[p]
    BY <1>1, RequestCases
  <2>3. \/ Asked(q, "approve") /\ pc'[q] = "connect"
        \/ Asked(q, "exchange") /\ pc'[q] = "consume"
        \/ Asked(q, "refresh") /\ pc'[q] = "lookup" /\ presented'[q] # NoRequest
        \/ Asked(q, "revoke") /\ pc'[q] = "owned"
    BY <1>1, RequestCases, GrantFacts DEF Holders
  <2>4. QED
    BY <2>1, <2>2, <2>3
<1>2. ASSUME NEW q \in Requests, CreateConnection(q)
      PROVE  Control'
  BY <1>2 DEF CreateConnection
<1>3. ASSUME NEW q \in Requests, CreateCode(q)
      PROVE  Control'
  BY <1>3 DEF CreateCode
<1>4. ASSUME NEW q \in Requests, Compensate(q)
      PROVE  Control'
  BY <1>4 DEF Compensate
<1>5. ASSUME NEW q \in Requests, SupersedeTokens(q)
      PROVE  Control'
  BY <1>5 DEF SupersedeTokens
<1>6. ASSUME NEW q \in Requests, SupersedeConnections(q)
      PROVE  Control'
  BY <1>6 DEF SupersedeConnections
<1>7. ASSUME NEW q \in Requests, ConsumeCode(q)
      PROVE  Control'
  BY <1>7 DEF ConsumeCode
<1>8. ASSUME NEW q \in Requests, VerifyConnection(q)
      PROVE  Control'
  BY <1>8 DEF VerifyConnection
<1>9. ASSUME NEW q \in Requests, MintAccess(q)
      PROVE  Control'
  BY <1>9 DEF MintAccess
<1>10. ASSUME NEW q \in Requests, MintRefresh(q)
      PROVE  Control'
  BY <1>10 DEF MintRefresh
<1>11. ASSUME NEW q \in Requests, FindToken(q)
      PROVE  Control'
  BY <1>11 DEF FindToken
<1>12. ASSUME NEW q \in Requests, RotateRefreshToken(q)
      PROVE  Control'
  BY <1>12 DEF RotateRefreshToken
<1>13. ASSUME NEW q \in Requests, MintFreshAccess(q)
      PROVE  Control'
  BY <1>13 DEF MintFreshAccess
<1>14. ASSUME NEW q \in Requests, OwnedConnection(q)
      PROVE  Control'
  BY <1>14 DEF OwnedConnection
<1>15. ASSUME NEW q \in Requests, RevokeTokens(q)
      PROVE  Control'
  BY <1>15 DEF RevokeTokens
<1>16. ASSUME NEW q \in Requests, RevokeConnection(q)
      PROVE  Control'
  BY <1>16 DEF RevokeConnection
<1>17. ASSUME NEW c \in Connections, CodeExpires(c)
      PROVE  Control'
  BY <1>17 DEF CodeExpires
<1>18. ASSUME NEW t \in Tokens, TokenExpires(t)
      PROVE  Control'
  BY <1>18 DEF TokenExpires
<1>19. CASE UNCHANGED vars
  BY <1>19 DEF vars
<1>20. QED
  BY <1>1, <1>2, <1>3, <1>4, <1>5, <1>6, <1>7, <1>8, <1>9, <1>10, <1>11, <1>12, <1>13, <1>14, <1>15, <1>16, <1>17, <1>18, <1>19 DEF Next, Approve, ExchangeCode, Refresh, Revoke

(* Who changes what: the other actions leave it alone.                     *)
LEMMA Frames ==
  ASSUME [Next]_vars
  PROVE  /\ \/ UNCHANGED connections
            \/ \E q \in Requests : \/ CreateConnection(q) \/ Compensate(q)
                                   \/ SupersedeConnections(q) \/ RevokeConnection(q)
         /\ \/ UNCHANGED code
            \/ \E q \in Requests : CreateCode(q) \/ ConsumeCode(q)
            \/ \E c \in Connections : CodeExpires(c)
         /\ \/ UNCHANGED token
            \/ \E q \in Requests : \/ SupersedeTokens(q) \/ MintAccess(q) \/ MintRefresh(q)
                                   \/ RotateRefreshToken(q) \/ MintFreshAccess(q) \/ RevokeTokens(q)
            \/ \E t \in Tokens : TokenExpires(t)
<1> DEFINE Framed ==
      /\ \/ UNCHANGED connections
         \/ \E q \in Requests : \/ CreateConnection(q) \/ Compensate(q)
                                \/ SupersedeConnections(q) \/ RevokeConnection(q)
      /\ \/ UNCHANGED code
         \/ \E q \in Requests : CreateCode(q) \/ ConsumeCode(q)
         \/ \E c \in Connections : CodeExpires(c)
      /\ \/ UNCHANGED token
         \/ \E q \in Requests : \/ SupersedeTokens(q) \/ MintAccess(q) \/ MintRefresh(q)
                                \/ RotateRefreshToken(q) \/ MintFreshAccess(q) \/ RevokeTokens(q)
         \/ \E t \in Tokens : TokenExpires(t)
<1>1. ASSUME NEW q \in Requests, Approve(q)
      PROVE  Framed
  BY <1>1 DEF Approve, CreateConnection, CreateCode, Compensate, SupersedeTokens, SupersedeConnections, connections
<1>2. ASSUME NEW q \in Requests, ExchangeCode(q)
      PROVE  Framed
  BY <1>2 DEF ExchangeCode, ConsumeCode, VerifyConnection, MintAccess, MintRefresh, connections
<1>3. ASSUME NEW q \in Requests, Refresh(q) \/ Revoke(q) \/ Request(q)
      PROVE  Framed
  BY <1>3 DEF Refresh, Revoke, Request, FindToken, RotateRefreshToken, MintFreshAccess, VerifyConnection,
              OwnedConnection, RevokeTokens, RevokeConnection, connections
<1>4. CASE (\E c \in Connections : CodeExpires(c)) \/ (\E t \in Tokens : TokenExpires(t)) \/ UNCHANGED vars
  BY <1>4 DEF CodeExpires, TokenExpires, connections, vars
<1>5. QED
  BY <1>1, <1>2, <1>3, <1>4 DEF Next

(* What a step may do to a request p: it is told something once, by the    *)
(* last statement it comes to, and it comes to a statement from the one    *)
(* before.                                                                 *)
Told(p) ==
  /\ answer[p] # "none" => answer'[p] = answer[p] /\ pc'[p] = pc[p]
  /\ answer'[p] # answer[p] =>
       /\ answer'[p] \in {"approved", "approved-in-part"} => CreateCode(p) \/ SupersedeConnections(p)
       /\ answer'[p] = "granted" => MintRefresh(p) \/ MintFreshAccess(p)
       /\ answer'[p] = "revoked" => RevokeConnection(p)

Comes(p) ==
  /\ pc'[p] \in {"idle", "connect"} => pc[p] \in {"idle", "connect"}
  /\ pc'[p] \in {"idle", "connect", "code"} => pc[p] \in {"idle", "connect", "code"}
  /\ pc'[p] = "code" => pc[p] = "code" \/ CreateConnection(p)
  /\ pc'[p] \in {"compensate", "supersede-tokens", "supersede"} =>
       pc[p] \in {"code", "compensate", "supersede-tokens", "supersede"}
  /\ pc'[p] \in {"revoke-tokens", "revoke"} =>
       pc[p] \in {"revoke-tokens", "revoke"} \/ OwnedConnection(p)
  /\ Minting(p)' => Minting(p) \/ ConsumeCode(p)

Presents(p) ==
  \/ presented'[p] = presented[p]
  \/ Asked(p, "refresh") /\ presented'[p] \in Holders(Connection(p))

Moves(p) == Told(p) /\ Comes(p) /\ Presents(p)

LEMMA MovesStep ==
  ASSUME Shape, [Next]_vars
  PROVE  call' = call /\ \A p \in Requests : Moves(p)
<1> USE DEF Shape, TypeOK, Control, Moves, Told, Comes, Presents, Minting, Goto, Settle
<1>1. call' = call
  BY DEF Next, Approve, ExchangeCode, Refresh, Revoke, Request, CreateConnection, CreateCode,
         Compensate, SupersedeTokens, SupersedeConnections, ConsumeCode, VerifyConnection,
         MintAccess, MintRefresh, FindToken, RotateRefreshToken, MintFreshAccess, OwnedConnection,
         RevokeTokens, RevokeConnection, CodeExpires, TokenExpires, vars
<1> SUFFICES ASSUME NEW p \in Requests PROVE Moves(p)
  BY <1>1
<1>2. ASSUME NEW q \in Requests, Request(q)
      PROVE  Moves(p)
  BY <1>2, RequestCases
<1>3. ASSUME NEW q \in Requests, CreateConnection(q)
      PROVE  Moves(p)
  BY <1>3 DEF CreateConnection
<1>4. ASSUME NEW q \in Requests, CreateCode(q)
      PROVE  Moves(p)
  BY <1>4 DEF CreateCode
<1>5. ASSUME NEW q \in Requests, Compensate(q)
      PROVE  Moves(p)
  BY <1>5 DEF Compensate
<1>6. ASSUME NEW q \in Requests, SupersedeTokens(q)
      PROVE  Moves(p)
  BY <1>6 DEF SupersedeTokens
<1>7. ASSUME NEW q \in Requests, SupersedeConnections(q)
      PROVE  Moves(p)
  BY <1>7 DEF SupersedeConnections
<1>8. ASSUME NEW q \in Requests, ConsumeCode(q)
      PROVE  Moves(p)
  BY <1>8 DEF ConsumeCode
<1>9. ASSUME NEW q \in Requests, VerifyConnection(q)
      PROVE  Moves(p)
  BY <1>9 DEF VerifyConnection
<1>10. ASSUME NEW q \in Requests, MintAccess(q)
      PROVE  Moves(p)
  BY <1>10 DEF MintAccess
<1>11. ASSUME NEW q \in Requests, MintRefresh(q)
      PROVE  Moves(p)
  BY <1>11 DEF MintRefresh
<1>12. ASSUME NEW q \in Requests, FindToken(q)
      PROVE  Moves(p)
  BY <1>12 DEF FindToken
<1>13. ASSUME NEW q \in Requests, RotateRefreshToken(q)
      PROVE  Moves(p)
  BY <1>13 DEF RotateRefreshToken
<1>14. ASSUME NEW q \in Requests, MintFreshAccess(q)
      PROVE  Moves(p)
  BY <1>14 DEF MintFreshAccess
<1>15. ASSUME NEW q \in Requests, OwnedConnection(q)
      PROVE  Moves(p)
  BY <1>15 DEF OwnedConnection
<1>16. ASSUME NEW q \in Requests, RevokeTokens(q)
      PROVE  Moves(p)
  BY <1>16 DEF RevokeTokens
<1>17. ASSUME NEW q \in Requests, RevokeConnection(q)
      PROVE  Moves(p)
  BY <1>17 DEF RevokeConnection
<1>18. CASE \/ \E c \in Connections : CodeExpires(c)
            \/ \E t \in Tokens : TokenExpires(t)
            \/ UNCHANGED vars
  BY <1>18 DEF CodeExpires, TokenExpires, vars
<1>19. QED
  BY <1>2, <1>3, <1>4, <1>5, <1>6, <1>7, <1>8, <1>9, <1>10, <1>11, <1>12, <1>13, <1>14, <1>15, <1>16, <1>17, <1>18 DEF Next, Approve, ExchangeCode, Refresh, Revoke

(* Tokens are minted for exchanges and refreshes; a refresh token becomes  *)
(* active at the end of an exchange or by a rotation.                      *)
TokenMoves(p) ==
  /\ \A k \in Kinds : token'[<<p, k>>] # "none" => token[<<p, k>>] # "none" \/ Minter(p)
  /\ token'[<<p, "refresh">>] = "active" =>
       token[<<p, "refresh">>] = "active" \/ Minting(p) \/ RotateRefreshToken(p)

LEMMA TokenStep ==
  ASSUME Shape, [Next]_vars, NEW p \in Requests
  PROVE  TokenMoves(p)
<1> USE DEF Shape, TypeOK, Control, TokenMoves, Tokens, Kinds, Minter, Minting, Mint
<1>1. ASSUME NEW q \in Requests, SupersedeTokens(q)
      PROVE  TokenMoves(p)
  BY <1>1 DEF SupersedeTokens
<1>2. ASSUME NEW q \in Requests, MintAccess(q)
      PROVE  TokenMoves(p)
  BY <1>2 DEF MintAccess
<1>3. ASSUME NEW q \in Requests, MintRefresh(q)
      PROVE  TokenMoves(p)
  BY <1>3 DEF MintRefresh
<1>4. ASSUME NEW q \in Requests, RotateRefreshToken(q)
      PROVE  TokenMoves(p)
  <2>1. Minter(q)
    BY <1>4 DEF RotateRefreshToken
  <2>2. \A t \in Tokens : \/ token'[t] = token[t]
                          \/ t = Presented(q) /\ token[t] = "active"
                          \/ t = <<q, "refresh">>
    BY <1>4 DEF RotateRefreshToken, Rotatable, Presented
  <2>3. \A k \in Kinds : <<p, k>> \in Tokens /\ (<<p, k>> = <<q, "refresh">> => p = q)
    OBVIOUS
  <2>4. CASE p = q
    BY <1>4, <2>1, <2>4
  <2>5. CASE p # q
    BY <2>2, <2>3, <2>5
  <2>6. QED
    BY <2>4, <2>5
<1>5. ASSUME NEW q \in Requests, MintFreshAccess(q)
      PROVE  TokenMoves(p)
  BY <1>5 DEF MintFreshAccess
<1>6. ASSUME NEW q \in Requests, RevokeTokens(q)
      PROVE  TokenMoves(p)
  BY <1>6 DEF RevokeTokens
<1>7. ASSUME NEW t \in Tokens, TokenExpires(t)
      PROVE  TokenMoves(p)
  BY <1>7 DEF TokenExpires
<1>8. QED
  BY <1>1, <1>2, <1>3, <1>4, <1>5, <1>6, <1>7, Frames

LEMMA ProvenanceStep ==
  ASSUME Shape, [Next]_vars
  PROVE  Provenance'
<1>1. call' = call /\ \A p \in Requests : answer[p] # "none" => answer'[p] = answer[p]
  BY MovesStep DEF Moves, Told
<1>2. ASSUME NEW q \in Requests, presented'[q] # NoRequest
      PROVE  /\ Asked(q, "refresh")'
             /\ answer'[presented'[q]] = "granted" /\ call'[presented'[q]].on = call'[q].on
  <2>1. CASE presented'[q] = presented[q]
    <3>1. presented[q] \in Requests
      BY <1>2, <2>1 DEF Shape, TypeOK
    <3>2. Asked(q, "refresh") /\ answer[presented[q]] = "granted"
          /\ Connection(presented[q]) = Connection(q)
      BY <1>2, <2>1 DEF Shape, Provenance
    <3>3. QED
      BY <1>1, <2>1, <3>1, <3>2 DEF Asked, Connection
  <2>2. CASE Asked(q, "refresh") /\ presented'[q] \in Holders(Connection(q))
    BY <1>1, <2>2 DEF Holders, Asked, Connection
  <2>3. QED
    BY <2>1, <2>2, MovesStep DEF Moves, Presents
<1>3. ASSUME NEW q \in Requests, NEW k \in Kinds, token'[<<q, k>>] # "none"
      PROVE  Minter(q)'
  BY <1>1, <1>3, TokenStep DEF Shape, Provenance, TokenMoves, Minter, Asked
<1>4. QED
  BY <1>2, <1>3 DEF Provenance, Connection
-----------------------------------------------------------------------------
(* A connection is created once, as the newest of all; it becomes active   *)
(* then, and never after it has been revoked.                              *)
ConnectionMoves(d) ==
  /\ connection[d] = "revoked" => connection'[d] = "revoked"
  /\ \/ created'[d] = created[d] /\ (connection'[d] = "active" => connection[d] = "active")
     \/ /\ created[d] = 0 /\ \A c \in Connections : created[c] < created'[d]
        /\ \E q \in Requests : CreateConnection(q) /\ Connection(q) = d

LEMMA ConnectionStep ==
  ASSUME Shape, [Next]_vars
  PROVE  Numbered' /\ \A d \in Connections : ConnectionMoves(d)
<1> DEFINE Goal == Numbered' /\ \A d \in Connections : ConnectionMoves(d)
<1> USE DEF Shape, TypeOK, ConnectionMoves, connections, Goto, Settle
<1>1. CASE UNCHANGED connections
  BY <1>1 DEF Numbered, Created
<1>2. ASSUME NEW q \in Requests, CreateConnection(q)
      PROVE  Goal
  <2> DEFINE c == Connection(q)
             n == Cardinality(Created)
  <2>1. c \in Connections /\ created[c] = 0 /\ connection[c] = "none"
    BY <1>2, CallType DEF CreateConnection, Control, Unborn, Numbered, Asked
  <2>2. n \in Nat /\ Cardinality(Created \cup {c}) = n + 1
    BY <2>1, CountOfCreated
  <2>3. \A d \in Connections : created[d] \in Nat /\ created[d] <= n
    BY DEF Numbered
  <2>4. CASE UNCHANGED connections
    BY <1>1, <2>4
  <2>5. CASE /\ connection' = [connection EXCEPT ![c] = "active"]
             /\ created' = [created EXCEPT ![c] = n + 1]
    <3> HIDE DEF n
    <3>1. Created' = Created \cup {c}
      <4>1. \A d \in Connections : created'[d] # 0 <=> created[d] # 0 \/ d = c
        BY <2>1, <2>2, <2>5
      <4>2. QED
        BY <2>1, <4>1 DEF Created
    <3>2. \A d \in Connections : created'[d] <= n + 1
      BY <2>1, <2>2, <2>3, <2>5
    <3>3. \A d \in Connections : created'[d] = 0 => connection'[d] = "none"
      BY <2>1, <2>2, <2>5 DEF Numbered
    <3>4. \A d \in Connections : ConnectionMoves(d)
      BY <1>2, <2>1, <2>2, <2>3, <2>5
    <3>5. QED
      BY <2>2, <3>1, <3>2, <3>3, <3>4 DEF Numbered
  <2>6. QED
    BY <1>2, <2>4, <2>5 DEF CreateConnection, Created
<1>3. ASSUME NEW q \in Requests,
             Compensate(q) \/ SupersedeConnections(q) \/ RevokeConnection(q)
      PROVE  Goal
  <2>1. created' = created
    BY <1>3 DEF Compensate, SupersedeConnections, RevokeConnection
  <2>2. \A d \in Connections :
          connection'[d] = connection[d] \/ (connection'[d] = "revoked" /\ created[d] # 0)
    <3>1. CASE Compensate(q)
      BY <3>1 DEF Compensate, Born
    <3>2. CASE SupersedeConnections(q)
      BY <3>2 DEF SupersedeConnections, Superseded, Numbered
    <3>3. CASE RevokeConnection(q)
      BY <3>3 DEF RevokeConnection, Born
    <3>4. QED
      BY <1>3, <3>1, <3>2, <3>3
  <2>3. Numbered'
    BY <2>1, <2>2 DEF Numbered, Created
  <2>4. QED
    BY <2>1, <2>2, <2>3
<1>4. QED
  BY <1>1, <1>2, <1>3, Frames

(* A code is created once, and once used stays used.                       *)
CodeMoves(c) ==
  /\ code[c] = "used" => code'[c] = "used"
  /\ code[c] = "none" /\ code'[c] # "none" => \E q \in Requests : CreateCode(q) /\ Connection(q) = c

LEMMA CodeStep ==
  ASSUME Shape, [Next]_vars, NEW c \in Connections
  PROVE  CodeMoves(c)
<1> USE DEF Shape, TypeOK, CodeMoves
<1>1. ASSUME NEW q \in Requests, CreateCode(q)
      PROVE  CodeMoves(c)
  <2>1. code[Connection(q)] = "none"
    BY <1>1 DEF CreateCode, Control, Unborn
  <2>2. QED
    BY <1>1, <2>1 DEF CreateCode
<1>2. ASSUME NEW q \in Requests, ConsumeCode(q)
      PROVE  CodeMoves(c)
  BY <1>2 DEF ConsumeCode, Unused
<1>3. ASSUME NEW d \in Connections, CodeExpires(d)
      PROVE  CodeMoves(c)
  BY <1>3 DEF CodeExpires
<1>4. QED
  BY <1>1, <1>2, <1>3, Frames

LEMMA UnbornStep ==
  ASSUME Shape, [Next]_vars
  PROVE  Unborn'
<1> SUFFICES ASSUME NEW p \in Requests, Asked(p, "approve")'
             PROVE  /\ pc'[p] \in {"idle", "connect"} => created'[call'[p].on] = 0
                    /\ pc'[p] \in {"idle", "connect", "code"} => code'[call'[p].on] = "none"
  BY DEF Unborn, Connection
<1>1. call' = call /\ Asked(p, "approve") /\ Comes(p) /\ Connection(p) \in Connections
  BY MovesStep, CallType DEF Shape, Moves, Asked
<1>2. ASSUME pc'[p] \in {"idle", "connect"}
      PROVE  created'[Connection(p)] = 0
  <2>1. created[Connection(p)] = 0
    BY <1>1, <1>2 DEF Shape, Unborn, Comes
  <2>2. ASSUME NEW q \in Requests, CreateConnection(q), Connection(q) = Connection(p)
        PROVE  FALSE
    <3>1. Asked(q, "approve")
      BY <2>2 DEF CreateConnection, Shape, Control
    <3>2. p = q
      BY <1>1, <2>2, <3>1, OneApproval DEF Shape
    <3>3. QED
      BY <1>2, <2>2, <3>2 DEF CreateConnection, Goto, Settle, Shape, TypeOK
  <2>3. QED
    BY <1>1, <2>1, <2>2, ConnectionStep DEF ConnectionMoves
<1>3. ASSUME pc'[p] \in {"idle", "connect", "code"}
      PROVE  code'[Connection(p)] = "none"
  <2>1. code[Connection(p)] = "none"
    BY <1>1, <1>3 DEF Shape, Unborn, Comes
  <2>2. ASSUME NEW q \in Requests, CreateCode(q), Connection(q) = Connection(p)
        PROVE  FALSE
    <3>1. Asked(q, "approve")
      BY <2>2 DEF CreateCode, Shape, Control
    <3>2. p = q
      BY <1>1, <2>2, <3>1, OneApproval DEF Shape
    <3>3. QED
      BY <1>3, <2>2, <3>2 DEF CreateCode, Goto, Settle, Shape, TypeOK
  <2>3. QED
    BY <1>1, <2>1, <2>2, CodeStep DEF CodeMoves
<1>4. QED
  BY <1>1, <1>2, <1>3 DEF Connection

LEMMA BornStep ==
  ASSUME Shape, [Next]_vars
  PROVE  Born'
<1> SUFFICES ASSUME NEW p \in Requests,
                    \/ pc'[p] \in {"code", "compensate", "supersede-tokens", "supersede",
                                   "revoke-tokens", "revoke"}
                    \/ answer'[p] \in {"approved", "approved-in-part"}
             PROVE  created'[call'[p].on] # 0
  BY DEF Born, Connection
<1>1. call' = call /\ Moves(p)
  BY MovesStep
<1>2. Connection(p) \in Connections
  <2>1. call'[p] # NoCall
    BY ControlStep DEF Control, Asked
  <2>2. QED
    BY <1>1, <2>1, CallType DEF Shape
<1>3. \/ created[Connection(p)] # 0
      \/ CreateConnection(p) /\ pc'[p] = "code"
      \/ OwnedConnection(p) /\ pc'[p] = "revoke-tokens"
  BY <1>1 DEF Moves, Comes, Told, Shape, Born, CreateCode, SupersedeConnections, OwnedConnection, Goto, Settle, TypeOK
<1>4. CASE created[Connection(p)] # 0
  BY <1>1, <1>2, <1>4, ConnectionStep DEF ConnectionMoves, Connection
<1>5. CASE CreateConnection(p) /\ pc'[p] = "code"
  <2>1. Cardinality(Created) + 1 # 0
    BY CountOfCreated DEF Shape
  <2>2. QED
    BY <1>1, <1>2, <1>5, <2>1 DEF CreateConnection, Created, Goto, Settle, Shape, TypeOK, Connection
<1>6. CASE OwnedConnection(p) /\ pc'[p] = "revoke-tokens"
  BY <1>1, <1>2, <1>6 DEF OwnedConnection, Goto, Settle, Shape, TypeOK, Numbered, connections, Connection
<1>7. QED
  BY <1>3, <1>4, <1>5, <1>6

LEMMA ShapeStep ==
  ASSUME Shape, [Next]_vars
  PROVE  Shape'
BY TypeStep, ControlStep, ProvenanceStep, UnbornStep, BornStep, ConnectionStep DEF Shape
-----------------------------------------------------------------------------
(* A code is used up by one request at a time.                             *)
TakesCode(q) ==
  Asked(q, "exchange") /\ code[Connection(q)] = "unused" /\ code'[Connection(q)] = "used"

LEMMA TakenByOne ==
  ASSUME Shape, [Next]_vars, NEW q \in Requests, ConsumeCode(q)
  PROVE  /\ token' = token
         /\ \A p \in Requests \ {q} : (Minting(p)' => Minting(p)) /\ answer'[p] = answer[p]
         /\ TakesCode(q) \/ (~Minting(q)' /\ answer'[q] # "granted")
<1>1. Asked(q, "exchange") /\ Connection(q) \in Connections
  BY CallType DEF ConsumeCode, Shape, Control, Asked
<1>2. QED
  BY <1>1 DEF ConsumeCode, Unused, TakesCode, Minting, Goto, Settle, Shape, TypeOK

(* What happens to the claims on the codes: nothing is added to them, or   *)
(* one that takes a code.                                                  *)
ClaimMoves ==
  \/ \A p \in Requests : Claimant(p)' => Claimant(p)
  \/ \E q \in Requests : TakesCode(q) /\ \A p \in Requests \ {q} : Claimant(p)' => Claimant(p)

LEMMA ClaimStep ==
  ASSUME Shape, [Next]_vars
  PROVE  ClaimMoves
<1>1. call' = call
  BY MovesStep
<1>2. ASSUME NEW q \in Requests, ConsumeCode(q)
      PROVE  ClaimMoves
  BY <1>1, <1>2, TakenByOne DEF ClaimMoves, Claimant, Asked
<1>3. ASSUME NEW p \in Requests, ~ConsumeCode(p), Claimant(p)'
      PROVE  Claimant(p)
  <2>1. Minting(p)' => Minting(p)
    BY <1>3, MovesStep DEF Moves, Comes
  <2>2. answer'[p] = "granted" => answer[p] = "granted" \/ MintRefresh(p) \/ MintFreshAccess(p)
    BY MovesStep DEF Moves, Told
  <2>3. MintRefresh(p) => Minting(p)
    BY DEF MintRefresh, Minting
  <2>4. MintFreshAccess(p) => ~Asked(p, "exchange")
    BY DEF MintFreshAccess, Shape, Control, Asked
  <2>5. QED
    BY <1>1, <1>3, <2>1, <2>2, <2>3, <2>4 DEF Claimant, Asked
<1>4. QED
  BY <1>2, <1>3 DEF ClaimMoves

LEMMA OneClaimantStep ==
  ASSUME Shape, OneClaimant, [Next]_vars
  PROVE  OneClaimant'
<1>1. call' = call
  BY MovesStep
<1>2. \A p \in Requests : Claimant(p) => Connection(p) \in Connections
  BY CallType DEF Shape, Claimant, Asked
<1>3. \A p \in Requests : Claimant(p) => code'[Connection(p)] = "used"
  BY <1>2, CodeStep DEF CodeMoves, OneClaimant
<1>4. CASE \A p \in Requests : Claimant(p)' => Claimant(p)
  BY <1>1, <1>3, <1>4 DEF OneClaimant, Connection
<1>5. ASSUME NEW q \in Requests, TakesCode(q), \A p \in Requests \ {q} : Claimant(p)' => Claimant(p)
      PROVE  OneClaimant'
  <2>1. \A p \in Requests : Claimant(p) => Connection(p) # Connection(q)
    BY <1>5 DEF TakesCode, OneClaimant
  <2>2. QED
    BY <1>1, <1>3, <1>5, <2>1 DEF OneClaimant, Connection, TakesCode
<1>6. QED
  BY <1>4, <1>5, ClaimStep DEF ClaimMoves

(* What happens to the chain of refresh tokens: nothing is added to it, a  *)
(* code starts it, or q takes the place of r.                              *)
LiveMoves ==
  \/ \A p \in Requests : Live(p)' => Live(p)
  \/ \E q \in Requests : TakesCode(q) /\ \A p \in Requests \ {q} : Live(p)' => Live(p)
  \/ \E q, r \in Requests :
       /\ Live(r) /\ Connection(r) = Connection(q) /\ (~Live(r)' \/ r = q)
       /\ \A p \in Requests \ {q} : Live(p)' => Live(p)

LEMMA LiveStep ==
  ASSUME Shape, [Next]_vars
  PROVE  LiveMoves
<1>1. ASSUME NEW q \in Requests, ConsumeCode(q)
      PROVE  LiveMoves
  BY <1>1, TakenByOne DEF LiveMoves, Live
<1>2. ASSUME NEW q \in Requests, RotateRefreshToken(q)
      PROVE  LiveMoves
  <2>1. PICK r \in Requests : r = presented[q] /\ answer[r] = "granted" /\ Connection(r) = Connection(q)
    <3>1. presented[q] # NoRequest
      BY <1>2 DEF RotateRefreshToken, Shape, Control
    <3>2. QED
      BY <3>1 DEF Shape, Provenance, TypeOK
  <2>2. ~Minting(r)' /\ \A p \in Requests : Minting(p)' => Minting(p)
    BY <1>2, <2>1 DEF RotateRefreshToken, Minting, Goto, Settle, Shape, TypeOK, Control
  <2>3. CASE UNCHANGED token
    BY <2>2, <2>3 DEF LiveMoves, Live
  <2>4. CASE /\ Rotatable(q)
             /\ token' = [token EXCEPT ![Presented(q)] = "revoked", ![<<q, "refresh">>] = "active"]
    <3>1. Live(r)
      BY <2>1, <2>4 DEF Rotatable, Presented, Live
    <3>2. \A p \in Requests \ {q} :
            token'[<<p, "refresh">>] = (IF p = r THEN "revoked" ELSE token[<<p, "refresh">>])
      BY <2>1, <2>4 DEF Presented, Shape, TypeOK, Tokens, Kinds
    <3>3. ~Live(r)' \/ r = q
      BY <2>2, <3>2 DEF Live
    <3>4. \A p \in Requests \ {q} : Live(p)' => Live(p)
      BY <2>2, <3>2 DEF Live
    <3>5. QED
      BY <2>1, <3>1, <3>3, <3>4 DEF LiveMoves
  <2>5. QED
    BY <1>2, <2>3, <2>4 DEF RotateRefreshToken
<1>3. ASSUME NEW p \in Requests, ~ConsumeCode(p), ~RotateRefreshToken(p), Live(p)'
      PROVE  Live(p)
  <2>1. Minting(p)' => Minting(p)
    BY <1>3, MovesStep DEF Moves, Comes
  <2>2. token'[<<p, "refresh">>] = "active" => token[<<p, "refresh">>] = "active" \/ Minting(p)
    BY <1>3, TokenStep DEF TokenMoves
  <2>3. QED
    BY <1>3, <2>1, <2>2 DEF Live
<1>4. QED
  BY <1>1, <1>2, <1>3 DEF LiveMoves

LEMMA OneLiveStep ==
  ASSUME Shape, OneLive, [Next]_vars
  PROVE  OneLive'
<1>1. call' = call
  BY MovesStep
<1>2. \A p \in Requests : Live(p) => Connection(p) \in Connections
  BY CallType DEF Shape, Control, Provenance, Live, Minting, Minter, Asked, Kinds
<1>3. \A p \in Requests : Live(p) => code'[Connection(p)] = "used"
  BY <1>2, CodeStep DEF CodeMoves, OneLive
<1>4. CASE \A p \in Requests : Live(p)' => Live(p)
  BY <1>1, <1>3, <1>4 DEF OneLive, Connection
<1>5. ASSUME NEW q \in Requests, TakesCode(q), \A p \in Requests \ {q} : Live(p)' => Live(p)
      PROVE  OneLive'
  <2>1. \A p \in Requests : Live(p) => Connection(p) # Connection(q)
    BY <1>5 DEF TakesCode, OneLive
  <2>2. QED
    BY <1>1, <1>3, <1>5, <2>1 DEF OneLive, Connection, TakesCode
<1>6. ASSUME NEW q \in Requests, NEW r \in Requests,
             Live(r), Connection(r) = Connection(q), ~Live(r)' \/ r = q,
             \A p \in Requests \ {q} : Live(p)' => Live(p)
      PROVE  OneLive'
  <2>1. \A p \in Requests : Live(p)' /\ p # q => Connection(p) # Connection(q)
    BY <1>6 DEF OneLive
  <2>2. code'[Connection(q)] = "used"
    BY <1>3, <1>6
  <2>3. QED
    BY <1>1, <1>3, <1>6, <2>1, <2>2 DEF OneLive, Connection
<1>7. QED
  BY <1>4, <1>5, <1>6, LiveStep DEF LiveMoves
-----------------------------------------------------------------------------
LEMMA RevokedForGoodStep ==
  ASSUME Shape, RevokedForGood, [Next]_vars
  PROVE  RevokedForGood'
<1> SUFFICES ASSUME NEW q \in Requests, answer'[q] = "revoked"
             PROVE  connection'[call'[q].on] = "revoked"
  BY DEF RevokedForGood, Connection
<1>1. call' = call
  BY MovesStep
<1>2. Connection(q) \in Connections
  BY <1>1, ControlStep, CallType DEF Control, Asked, Shape
<1>3. CASE answer[q] = "revoked"
  BY <1>1, <1>2, <1>3, ConnectionStep DEF ConnectionMoves, RevokedForGood, Connection
<1>4. CASE RevokeConnection(q)
  BY <1>1, <1>2, <1>4 DEF RevokeConnection, Settle, Shape, TypeOK, Connection
<1>5. QED
  BY <1>3, <1>4, MovesStep DEF Moves, Told

LEMMA SupersedesOlderStep ==
  ASSUME Shape, SupersedesOlder, [Next]_vars
  PROVE  SupersedesOlder'
<1>1. call' = call
  BY MovesStep
<1> SUFFICES ASSUME NEW q \in Requests, NEW d \in Connections, NEW c \in Connections,
                    c = Connection(q), answer'[q] = "approved", AppOf[c] # Unnamed,
                    AppOf[d] = AppOf[c], created'[d] < created'[c]
             PROVE  connection'[d] # "active"
  <2>1. \A q \in Requests : answer'[q] = "approved" => Connection(q) \in Connections
    BY <1>1, ControlStep, CallType DEF Shape, Control, Asked
  <2>2. QED
    BY <1>1, <2>1 DEF SupersedesOlder, Connection
<1>2. created'[d] \in Nat /\ created'[c] \in Nat /\ created[c] \in Nat /\ created[d] \in Nat
  BY ShapeStep DEF Shape, TypeOK
<1>3. CASE answer[q] = "approved"
  <2>1. created[c] # 0
    BY <1>3 DEF Shape, Born
  <2>2. created'[c] = created[c]
    BY <2>1, ConnectionStep DEF ConnectionMoves
  <2>3. created[d] = 0 => connection[d] = "none"
    BY DEF Shape, Numbered
  <2>4. created[d] < created[c] => connection[d] # "active"
    BY <1>3 DEF SupersedesOlder
  <2>5. \/ created'[d] = created[d] /\ (connection'[d] = "active" => connection[d] = "active")
        \/ created[c] < created'[d]
    BY ConnectionStep DEF ConnectionMoves
  <2>6. QED
    BY <1>2, <2>2, <2>4, <2>5
<1>4. CASE answer[q] # "approved"
  <2>1. d # c
    BY <1>2
  <2>2. CreateCode(q) \/ SupersedeConnections(q)
    BY <1>4, MovesStep DEF Moves, Told
  <2>3. CASE CreateCode(q)
    BY <1>4, <2>3 DEF CreateCode, Goto, Settle, Shape, TypeOK
  <2>4. CASE SupersedeConnections(q)
    BY <1>4, <2>1, <2>4 DEF SupersedeConnections, Superseded, Settle, Shape, TypeOK
  <2>5. QED
    BY <2>2, <2>3, <2>4
<1>5. QED
  BY <1>3, <1>4
-----------------------------------------------------------------------------
LEMMA StepIInv == IInv /\ [Next]_vars => IInv'
<1> SUFFICES ASSUME IInv, [Next]_vars PROVE IInv'
  OBVIOUS
<1>1. Shape'
  BY ShapeStep DEF IInv
<1>2. OneClaimant' /\ OneLive'
  BY OneClaimantStep, OneLiveStep DEF IInv
<1>3. RevokedForGood' /\ SupersedesOlder'
  BY RevokedForGoodStep, SupersedesOlderStep DEF IInv
<1>4. QED
  BY <1>1, <1>2, <1>3 DEF IInv

LEMMA Invariance == Spec => []IInv
<1>1. Init => IInv
  BY InitIInv
<1>2. IInv /\ [Next]_vars => IInv'
  BY StepIInv
<1>3. QED
  BY <1>1, <1>2, PTL DEF Spec

(* Every variable keeps its type; connections are counted up to their      *)
(* number.                                                                 *)
THEOREM TypeCorrect == Spec => []TypeOK
<1>1. IInv => TypeOK
  BY DEF IInv, Shape
<1>2. QED
  BY <1>1, Invariance, PTL

(* A code is exchanged at most once, and a connection has at most one      *)
(* active refresh token, whatever is repeated, however many requests run   *)
(* at once and whichever of their statements fail (consumeCode,            *)
(* rotateRefreshToken).                                                    *)
THEOREM SingleChainHolds == Spec => []SingleChain
<1>1. IInv => SingleChain
  <2> SUFFICES ASSUME IInv, NEW c \in Connections
               PROVE  /\ Cardinality({q \in Requests : /\ call[q] = [op |-> "exchange", on |-> c]
                                                       /\ answer[q] = "granted"}) <= 1
                      /\ Cardinality({q \in Requests :
                           <<q, "refresh">> \in {t \in Tokens : token[t] = "active" /\ Of(t) = c}}) <= 1
    BY DEF SingleChain
  <2> DEFINE Exchanged == {q \in Requests : /\ call[q] = [op |-> "exchange", on |-> c]
                                            /\ answer[q] = "granted"}
             Refreshable == {q \in Requests :
                              <<q, "refresh">> \in {t \in Tokens : token[t] = "active" /\ Of(t) = c}}
  <2>1. \A q \in Exchanged : Claimant(q) /\ Connection(q) = c
    <3>1. [op |-> "exchange", on |-> c] \in CallRecords
      BY DEF CallRecords
    <3>2. QED
      BY <3>1, GrantsAssumption DEF GrantsAssumption, Claimant, Asked, Connection
  <2>2. Cardinality(Exchanged) <= 1
    BY <2>1, AtMostOne DEF IInv, OneClaimant
  <2>3. \A q \in Refreshable : Live(q) /\ Connection(q) = c
    BY DEF Live, Of
  <2>4. Cardinality(Refreshable) <= 1
    BY <2>3, AtMostOne DEF IInv, OneLive
  <2>5. QED
    BY <2>2, <2>4
<1>2. QED
  BY <1>1, Invariance, PTL

(* After the dashboard has said that a connection is revoked, none of its  *)
(* tokens is admitted, those minted later by requests still running        *)
(* included (revokeConnection(), authenticate()).                          *)
THEOREM RevocationIsFinal == Spec => []RevocationHolds
<1>1. IInv => RevocationHolds
  BY DEF IInv, RevokedForGood, RevocationHolds, Usable, Of
<1>2. QED
  BY <1>1, Invariance, PTL

(* A complete approval leaves no older connection of its app active, for   *)
(* any number of approvals, exchanges and revocations at once (supersession *)
(* in oauth_authorize_service.ts).                                         *)
THEOREM OlderAreSuperseded == Spec => []SupersedesOlder
<1>1. IInv => SupersedesOlder
  BY DEF IInv
<1>2. QED
  BY <1>1, Invariance, PTL
=============================================================================
