----------------------- MODULE ExecutorClaims_proofs -----------------------
(* Theorems about ExecutorClaims, for every value of its constants.        *)
EXTENDS ExecutorClaims, TLAPS

(* What is committed of a machine: free, owned or revoked, never torn.     *)
IsFree(m) ==
  /\ stored[<<"machine", m>>].state \in {"absent", "pending"}
  /\ stored[<<"machine", m>>].owner = Nobody
  /\ stored[<<"claim", m>>].status # "accepted"
  /\ stored[<<"credential", m>>].status = "absent"

IsOwned(m) ==
  /\ stored[<<"machine", m>>].state = "active"
  /\ stored[<<"machine", m>>].generation = 1
  /\ stored[<<"machine", m>>].owner \in Users
  /\ stored[<<"claim", m>>].status = "accepted"
  /\ stored[<<"claim", m>>].by = stored[<<"machine", m>>].owner
  /\ stored[<<"credential", m>>].status = "active"
  /\ stored[<<"credential", m>>].token = stored[<<"claim", m>>].token
  /\ stored[<<"credential", m>>].generation = 1

IsRevoked(m) ==
  /\ stored[<<"machine", m>>].state = "revoked"
  /\ stored[<<"machine", m>>].owner \in Users
  /\ stored[<<"claim", m>>].status = "accepted"
  /\ stored[<<"claim", m>>].by = stored[<<"machine", m>>].owner
  /\ stored[<<"credential", m>>].status = "revoked"

Whole == \A m \in Machines : IsFree(m) \/ IsOwned(m) \/ IsRevoked(m)

(* A row is locked by an open transaction on its machine; the identity's   *)
(* row by one that is about to commit it, and only until there is one.     *)
Locked ==
  /\ DOMAIN stored = Rows /\ DOMAIN draft = Rows
  /\ \A t \in Tables, m \in Machines : \A q \in Requests :
       lock[<<t, m>>] = q => Open(q) /\ m = Mine(q)
  /\ \A q \in Requests : lock[IdentityRow] = q =>
       pc[q] = "commit" /\ draft[IdentityRow] = q /\ stored[IdentityRow] = NoRequest

(* A request is at a statement of what it asks for.                        *)
LocatedAt(q) ==
  /\ IF pc[q] = "idle" THEN before[q] = 0 ELSE call[q] # NoCall
  /\ pc[q] \in {"find", "register", "refresh", "replace", "insert", "claim"} => call[q].op = "create"
  /\ pc[q] \in {"queued", "decide", "accept"} => call[q].op \in {"accept", "deny"}
  /\ pc[q] \in {"own", "credential", "identity", "persist"} => call[q].op = "accept"
  /\ pc[q] = "rename" => call[q].op = "rename"
  /\ pc[q] \in {"revoke", "fence"} => call[q].op = "revoke"
  /\ pc[q] \notin {"commit", "done"} => answer[q] = "none"
  /\ pc[q] = "commit" => answer[q] \notin {"none", "failed"}
  /\ answer[q] = "accepted" => call[q].op = "accept"
  /\ answer[q] = "revoked" => call[q].op = "revoke"

Located == \A q \in Requests : LocatedAt(q)
-----------------------------------------------------------------------------
(* What the transaction of q has written of its machine so far. The rows   *)
(* it has locked stay as they were committed until it ends.                *)
Holds(q, t) == lock[<<t, Mine(q)>>] = q
Old(q, t) == stored[<<t, Mine(q)>>]
New(q, t) == draft[<<t, Mine(q)>>]

Nothing(q) == ~Holds(q, "machine") /\ ~Holds(q, "claim") /\ ~Holds(q, "credential")

Registering(q) ==
  /\ Holds(q, "machine") /\ ~Holds(q, "credential")
  /\ Old(q, "machine").state \in {"absent", "pending"}
  /\ New(q, "machine").state = "pending" /\ New(q, "machine").owner = Nobody
  /\ Holds(q, "claim") => New(q, "claim").status \in {"absent", "pending"}

Deny(q) ==
  /\ ~Holds(q, "machine") /\ Holds(q, "claim") /\ ~Holds(q, "credential")
  /\ Old(q, "claim").status = "pending" /\ New(q, "claim").status = "denied"

TakesClaim(q) ==
  /\ Holds(q, "claim")
  /\ Old(q, "claim").status = "pending"
  /\ New(q, "claim").status = "accepted" /\ New(q, "claim").by = call[q].user

TakesMachine(q) ==
  /\ Holds(q, "machine")
  /\ Old(q, "machine").state = "pending"
  /\ New(q, "machine") = [state |-> "active", owner |-> call[q].user, generation |-> 1]

Takes(q) ==
  /\ TakesClaim(q) /\ TakesMachine(q) /\ Holds(q, "credential")
  /\ New(q, "credential") = [status |-> "active", token |-> New(q, "claim").token, generation |-> 1]

Renames(q) ==
  /\ Holds(q, "machine") /\ ~Holds(q, "claim") /\ ~Holds(q, "credential")
  /\ New(q, "machine") = Old(q, "machine")

Withdraws(q) ==
  /\ Holds(q, "machine") /\ ~Holds(q, "claim")
  /\ Old(q, "machine").state = "active"
  /\ New(q, "machine").state = "revoked" /\ New(q, "machine").owner = Old(q, "machine").owner

Revokes(q) ==
  /\ Withdraws(q) /\ Holds(q, "credential")
  /\ New(q, "credential").status = "revoked"

Known(q) == Old(q, "machine").state # "absent"
Settled(q) == Old(q, "machine").state \in {"active", "revoked"}
AcceptedBy(q) == Old(q, "claim").status = "accepted" /\ Old(q, "claim").by = call[q].user
Owner(q) == Settled(q) /\ Old(q, "machine").owner = call[q].user

Transaction(q) ==
  /\ pc[q] \in {"find", "register", "refresh", "insert", "decide", "accept", "rename", "revoke"} => Nothing(q)
  /\ pc[q] = "refresh" => Known(q)
  /\ pc[q] \in {"replace", "claim"} => Registering(q) \/ (Nothing(q) /\ Settled(q))
  /\ pc[q] = "own" => \/ (TakesClaim(q) /\ ~Holds(q, "machine") /\ ~Holds(q, "credential"))
                      \/ (Nothing(q) /\ AcceptedBy(q))
  /\ pc[q] = "credential" => \/ (TakesClaim(q) /\ TakesMachine(q) /\ ~Holds(q, "credential"))
                             \/ (Nothing(q) /\ AcceptedBy(q))
  /\ pc[q] \in {"identity", "persist"} => Takes(q) \/ (Nothing(q) /\ AcceptedBy(q))
  /\ pc[q] \in {"revoke", "fence"} /\ before[q] # 0 => Owner(q)
  /\ pc[q] = "fence" => before[q] # 0 /\ (Nothing(q) \/ (Withdraws(q) /\ ~Holds(q, "credential")))
  /\ pc[q] = "commit" =>
       /\ answer[q] = "created" => Registering(q)
       /\ answer[q] \in {"retry", "conflict", "expired", "replayed", "not-found"} => Nothing(q)
       /\ answer[q] = "denied" => Nothing(q) \/ Deny(q)
       /\ answer[q] = "accepted" => Takes(q) \/ (Nothing(q) /\ AcceptedBy(q))
       /\ answer[q] = "renamed" => Renames(q)
       /\ answer[q] = "revoked" =>
            Owner(q) /\ (Revokes(q) \/ (Nothing(q) /\ Old(q, "machine").state = "revoked"))

Transactions == \A q \in Requests : Transaction(q)
-----------------------------------------------------------------------------
(* An identity that a process remembers or a caller was told is stored, or *)
(* its transaction is about to commit it, or has failed.                   *)
Traced(i) ==
  \/ stored[IdentityRow] = i
  \/ pc[i] = "commit" /\ lock[IdentityRow] = i
  \/ pc[i] = "done" /\ answer[i] = "failed"

IdentityInv ==
  /\ \A i \in Requests :
       (\E w \in Isolates : identity[w] = i) \/ (\E q \in Requests : named[q] = i) => Traced(i)
  /\ \A q \in Requests : answer[q] = "accepted" => named[q] # NoRequest

Shape == TypeOK /\ Whole /\ Locked /\ Located
IInv == Shape /\ Transactions /\ IdentityInv
-----------------------------------------------------------------------------
(* Rows, and who wrote them.                                               *)
MachineRows ==
  [state: {"absent", "pending", "active", "revoked"}, owner: Users \cup {Nobody}, generation: 0..2]
ClaimRows ==
  {NoClaimRow} \cup [status: {"pending", "accepted", "denied"}, id: ClaimIds, token: Tokens,
                    by: Users \cup {Nobody}, key: Keys \cup {NoKey}]
CredentialRows ==
  [status: {"absent", "active", "revoked"}, token: Tokens \cup {NoToken}, generation: 0..1]

RowsTyped(copy) ==
  /\ \A m \in Machines : /\ copy[<<"machine", m>>] \in MachineRows
                         /\ copy[<<"claim", m>>] \in ClaimRows
                         /\ copy[<<"credential", m>>] \in CredentialRows
  /\ copy[IdentityRow] \in Requests \cup {NoRequest}

RequestsTyped ==
  /\ call \in Loads /\ lapsed \subseteq ClaimIds
  /\ pc \in [Requests -> Statements]
  /\ before \in [Requests -> 0..2]
  /\ answer \in [Requests -> Outcomes]

MemoTyped ==
  /\ identity \in [Isolates -> Requests \cup {NoRequest}]
  /\ loading \in [Isolates -> Requests \cup {NoRequest}]
  /\ named \in [Requests -> Requests \cup {NoRequest}]

LockTyped == lock \in [Rows -> Requests \cup {NoRequest}]

LEMMA TypeSplit ==
  TypeOK <=> RowsTyped(stored) /\ RowsTyped(draft) /\ LockTyped /\ RequestsTyped /\ MemoTyped
BY DEF TypeOK, RowsTyped, LockTyped, RequestsTyped, MemoTyped, MachineRows, ClaimRows, CredentialRows

LEMMA TypeSplitNext ==
  TypeOK' <=> /\ RowsTyped(stored') /\ RowsTyped(draft')
              /\ LockTyped' /\ RequestsTyped' /\ MemoTyped'
BY DEF TypeOK, RowsTyped, LockTyped, RequestsTyped, MemoTyped, MachineRows, ClaimRows, CredentialRows

LEMMA RowsDiffer ==
  /\ IdentityRow \in Rows
  /\ \A t \in Tables, m \in Machines : <<t, m>> \in Rows /\ <<t, m>> # IdentityRow
  /\ \A t, s \in Tables, m, n \in Machines : <<t, m>> = <<s, n>> => t = s /\ m = n
  /\ \A r \in Rows : r = IdentityRow \/ \E t \in Tables, m \in Machines : r = <<t, m>>
BY DEF Rows, IdentityRow, Tables

LEMMA CallIs ==
  ASSUME RequestsTyped, NEW q \in Requests, call[q] # NoCall
  PROVE  /\ Mine(q) \in Machines
         /\ call[q].user \in Users \cup {Nobody}
         /\ call[q].op # "create" => call[q].user \in Users
         /\ call[q].op = "create" => call[q].id \in ClaimIds /\ call[q].token \in Tokens
         /\ call[q].key \in Keys \cup {NoKey}
         /\ call[q].isolate \in Isolates
         /\ call[q].op \in {"create", "accept", "deny", "rename", "revoke"}
<1>1. call \in [Requests -> CallRecords \cup {NoCall}]
  BY ClaimsAssumption DEF RequestsTyped
<1>2. call[q] \in CallRecords
  BY <1>1
<1>3. IF call[q].op = "create" THEN call[q].id \in ClaimIds /\ call[q].token \in Tokens
                                ELSE call[q].user \in Users
  BY ClaimsAssumption DEF RequestsTyped
<1>4. QED
  BY <1>2, <1>3 DEF CallRecords, Mine

(* 0 is no request.                                                        *)
LEMMA NoRequestIsNone == NoRequest \notin Requests /\ \A q \in Requests : q # NoRequest
BY ClaimsAssumption DEF NoRequest, Requests

(* What a step of q does to the rows of the others: nothing that they have *)
(* written is touched, and what is committed only advances.                *)
Advances(m) ==
  /\ stored[<<"machine", m>>].state # "absent" => stored'[<<"machine", m>>].state # "absent"
  /\ stored[<<"machine", m>>].state \in {"active", "revoked"} =>
       /\ stored'[<<"machine", m>>].state \in {"active", "revoked"}
       /\ stored'[<<"machine", m>>].owner = stored[<<"machine", m>>].owner
  /\ stored[<<"machine", m>>].state = "revoked" => stored'[<<"machine", m>>].state = "revoked"
  /\ stored[<<"claim", m>>].status = "accepted" =>
       /\ stored'[<<"claim", m>>].status = "accepted"
       /\ stored'[<<"claim", m>>].by = stored[<<"claim", m>>].by

Apart(q) ==
  \A t \in Tables, m \in Machines : \A p \in Requests \ {q} :
    /\ lock'[<<t, m>>] = p <=> lock[<<t, m>>] = p
    /\ lock[<<t, m>>] = p => /\ stored'[<<t, m>>] = stored[<<t, m>>]
                             /\ draft'[<<t, m>>] = draft[<<t, m>>]

Only(q) ==
  /\ call' = call
  /\ \A p \in Requests \ {q} : pc'[p] = pc[p] /\ answer'[p] = answer[p] /\ before'[p] = before[p]

LEMMA OthersGoOn ==
  ASSUME Shape, NEW q \in Requests, NEW p \in Requests \ {q}, Transaction(p),
         Only(q), Apart(q), \A m \in Machines : Advances(m)
  PROVE  Transaction(p)'
<1>1. CASE pc[p] = "idle"
  BY <1>1 DEF Only, Transaction
<1>2. CASE pc[p] # "idle"
  <2>1. call[p] # NoCall /\ Mine(p) \in Machines
    BY <1>2, CallIs, TypeSplit DEF Shape, Located, LocatedAt
  <2>2. Mine(p)' = Mine(p) /\ call'[p] = call[p]
    BY DEF Only, Mine
  <2>3. \A t \in Tables : /\ Holds(p, t)' <=> Holds(p, t)
                          /\ Holds(p, t) => Old(p, t)' = Old(p, t) /\ New(p, t)' = New(p, t)
    BY <2>1, <2>2 DEF Apart, Holds, Old, New
  <2>4. /\ Holds(p, "machine")' <=> Holds(p, "machine")
        /\ Holds(p, "claim")' <=> Holds(p, "claim")
        /\ Holds(p, "credential")' <=> Holds(p, "credential")
        /\ Holds(p, "machine") => Old(p, "machine")' = Old(p, "machine") /\ New(p, "machine")' = New(p, "machine")
        /\ Holds(p, "claim") => Old(p, "claim")' = Old(p, "claim") /\ New(p, "claim")' = New(p, "claim")
        /\ Holds(p, "credential") => New(p, "credential")' = New(p, "credential")
    BY <2>3 DEF Tables
  <2>5. /\ Known(p) => Known(p)'
        /\ Settled(p) => Settled(p)'
        /\ AcceptedBy(p) => AcceptedBy(p)'
        /\ Owner(p) => Owner(p)'
        /\ Old(p, "machine").state = "revoked" => Old(p, "machine")'.state = "revoked"
    BY <2>1, <2>2 DEF Advances, Known, Settled, AcceptedBy, Owner, Old
  <2>6. /\ Nothing(p) => Nothing(p)'
        /\ Registering(p) => Registering(p)'
        /\ Deny(p) => Deny(p)'
        /\ TakesClaim(p) => TakesClaim(p)'
        /\ TakesMachine(p) => TakesMachine(p)'
    BY <2>2, <2>4 DEF Nothing, Registering, Deny, TakesClaim, TakesMachine
  <2>7. /\ Takes(p) => Takes(p)'
        /\ Renames(p) => Renames(p)'
        /\ Withdraws(p) => Withdraws(p)'
        /\ Revokes(p) => Revokes(p)'
    BY <2>2, <2>4, <2>6 DEF Takes, Renames, Withdraws, Revokes, TakesClaim
  <2>8. pc'[p] = pc[p] /\ answer'[p] = answer[p] /\ before'[p] = before[p]
    BY DEF Only
  <2>9. QED
    BY <2>4, <2>5, <2>6, <2>7, <2>8, ZenonT(40) DEF Transaction
<1>3. QED
  BY <1>1, <1>2
-----------------------------------------------------------------------------
(* A statement that writes nothing, and one that writes a row.             *)
LEMMA ReadsApart ==
  ASSUME UNCHANGED rows, NEW q \in Requests
  PROVE  Apart(q) /\ \A m \in Machines : Advances(m)
BY DEF rows, Apart, Advances

LEMMA WriteIs ==
  ASSUME Locked, LockTyped, NEW q \in Requests, NEW t \in Tables, NEW m \in Machines, NEW row,
         Write(q, t, m, row)
  PROVE  /\ stored' = stored /\ DOMAIN draft' = Rows /\ LockTyped'
         /\ lock[<<t, m>>] \in {NoRequest, q}
         /\ lock'[<<t, m>>] = q /\ draft'[<<t, m>>] = row
         /\ \A r \in Rows : r # <<t, m>> => lock'[r] = lock[r] /\ draft'[r] = draft[r]
BY RowsDiffer DEF Write, Free, Locked, LockTyped

LEMMA WritesApart ==
  ASSUME Locked, LockTyped, NEW q \in Requests, NEW t \in Tables, NEW m \in Machines, NEW row,
         Write(q, t, m, row)
  PROVE  Apart(q) /\ \A n \in Machines : Advances(n)
<1>0. /\ stored' = stored /\ lock[<<t, m>>] \in {NoRequest, q} /\ lock'[<<t, m>>] = q
      /\ \A r \in Rows : r # <<t, m>> => lock'[r] = lock[r] /\ draft'[r] = draft[r]
  BY WriteIs
<1>1. \A n \in Machines : Advances(n)
  BY <1>0 DEF Advances
<1>2. ASSUME NEW s \in Tables, NEW n \in Machines, NEW p \in Requests \ {q}
      PROVE  /\ lock'[<<s, n>>] = p <=> lock[<<s, n>>] = p
             /\ lock[<<s, n>>] = p => /\ stored'[<<s, n>>] = stored[<<s, n>>]
                                      /\ draft'[<<s, n>>] = draft[<<s, n>>]
  <2>1. CASE <<s, n>> = <<t, m>>
    BY <1>0, <2>1, NoRequestIsNone
  <2>2. CASE <<s, n>> # <<t, m>>
    BY <1>0, <2>2, RowsDiffer
  <2>3. QED
    BY <2>1, <2>2
<1>3. QED
  BY <1>1, <1>2 DEF Apart

(* What holds of every other request after a step of q.                    *)
LEMMA StepKeeps ==
  ASSUME IInv, NEW q \in Requests, Only(q), Apart(q), \A m \in Machines : Advances(m),
         TypeOK', Whole', Locked', LocatedAt(q)', Transaction(q)', IdentityInv'
  PROVE  IInv'
<1>1. ASSUME NEW p \in Requests PROVE LocatedAt(p)'
  <2>1. CASE p = q
    BY <2>1
  <2>2. CASE p # q
    BY <2>2 DEF Only, IInv, Shape, Located, LocatedAt
  <2>3. QED
    BY <2>1, <2>2
<1>2. ASSUME NEW p \in Requests PROVE Transaction(p)'
  <2>1. CASE p = q
    BY <2>1
  <2>2. CASE p # q
    BY <2>2, OthersGoOn DEF IInv, Transactions
  <2>3. QED
    BY <2>1, <2>2
<1>3. QED
  BY <1>1, <1>2 DEF IInv, Shape, Located, Transactions

(* An identity stays traced while q is not at the end of its transaction.  *)
LEMMA TraceKept ==
  ASSUME NEW q \in Requests, Only(q), pc[q] \notin {"commit", "done"},
         stored' = stored, NEW i \in Requests, Traced(i),
         lock[IdentityRow] = i /\ i # q => lock'[IdentityRow] = i
  PROVE  Traced(i)'
BY DEF Only, Traced
LEMMA MemoKept ==
  ASSUME IInv, NEW q \in Requests, Only(q), pc[q] \notin {"commit", "done"},
         stored' = stored, lock'[IdentityRow] = lock[IdentityRow],
         UNCHANGED memo, answer'[q] # "accepted"
  PROVE  IdentityInv'
<1>1. MemoTyped
  BY TypeSplit DEF IInv, Shape
<1>2. \A i \in Requests : Traced(i) => Traced(i)'
  BY TraceKept
<1>5. \A p \in Requests : answer'[p] = "accepted" => answer[p] = "accepted"
  BY DEF Only
<1>6. identity' = identity /\ named' = named
  BY DEF memo
<1>7. QED
  BY <1>2, <1>5, <1>6 DEF IInv, IdentityInv

LEMMA Reads ==
  ASSUME IInv, NEW q \in Requests, UNCHANGED <<rows, memo>>, Only(q), RequestsTyped',
         pc[q] \notin {"commit", "done"}, Open(q) => Open(q)',
         answer'[q] # "accepted", LocatedAt(q)', Transaction(q)'
  PROVE  IInv'
<1>1. stored' = stored /\ draft' = draft /\ lock' = lock
  BY DEF rows
<1>2. TypeOK'
  <2>1. RowsTyped(stored') /\ RowsTyped(draft') /\ LockTyped' /\ MemoTyped'
    BY <1>1, TypeSplit DEF IInv, Shape, LockTyped, MemoTyped, memo
  <2>2. QED
    BY <2>1, TypeSplitNext
<1>3. Whole'
  BY <1>1 DEF IInv, Shape, Whole, IsFree, IsOwned, IsRevoked
<1>4. Locked'
  <2>1. \A p \in Requests : (Open(p) => Open(p)') /\ Mine(p)' = Mine(p) /\ (pc[p] = "commit" => pc'[p] = "commit")
    BY DEF Only, Open, Mine
  <2>2. QED
    BY <1>1, <2>1 DEF IInv, Shape, Locked
<1>5. IdentityInv'
  BY <1>1, MemoKept
<1>6. Apart(q) /\ \A m \in Machines : Advances(m)
  BY ReadsApart
<1>7. QED
  BY <1>2, <1>3, <1>4, <1>5, <1>6, StepKeeps

RowTyped(t, row) ==
  /\ t = "machine" => row \in MachineRows
  /\ t = "claim" => row \in ClaimRows
  /\ t = "credential" => row \in CredentialRows

LEMMA Writes ==
  ASSUME IInv, NEW q \in Requests, NEW t \in Tables, NEW row, Write(q, t, Mine(q), row),
         RowTyped(t, row), UNCHANGED memo, Only(q), RequestsTyped',
         Open(q), pc[q] \notin {"commit", "done"}, Open(q)',
         answer'[q] # "accepted", LocatedAt(q)', Transaction(q)'
  PROVE  IInv'
<1>0. Locked /\ LockTyped /\ RequestsTyped /\ RowsTyped(stored) /\ RowsTyped(draft) /\ MemoTyped
  BY TypeSplit DEF IInv, Shape
<1>1. Mine(q) \in Machines /\ call[q] # NoCall
  BY <1>0, CallIs DEF IInv, Shape, Located, LocatedAt, Open
<1> DEFINE m == Mine(q)
<1>2. /\ stored' = stored /\ DOMAIN draft' = Rows /\ LockTyped'
      /\ lock'[<<t, m>>] = q /\ draft'[<<t, m>>] = row
      /\ \A r \in Rows : r # <<t, m>> => lock'[r] = lock[r] /\ draft'[r] = draft[r]
  BY <1>0, <1>1, WriteIs
<1>3. lock'[IdentityRow] = lock[IdentityRow] /\ draft'[IdentityRow] = draft[IdentityRow]
  BY <1>1, <1>2, RowsDiffer
<1> HIDE DEF m
<1>4. RowsTyped(draft')
  <2>1. ASSUME NEW s \in Tables, NEW n \in Machines
        PROVE  draft'[<<s, n>>] = draft[<<s, n>>] \/ (s = t /\ draft'[<<s, n>>] = row)
    BY <1>1, <1>2, RowsDiffer DEF m
  <2>2. ASSUME NEW n \in Machines
        PROVE  /\ draft'[<<"machine", n>>] \in MachineRows
               /\ draft'[<<"claim", n>>] \in ClaimRows
               /\ draft'[<<"credential", n>>] \in CredentialRows
    BY <1>0, <2>1 DEF RowsTyped, RowTyped, Tables
  <2>3. QED
    BY <1>0, <1>3, <2>2 DEF RowsTyped
<1>5. TypeOK'
  <2>1. RowsTyped(stored')
    BY <1>0, <1>2
  <2>2. MemoTyped'
    BY <1>0 DEF MemoTyped, memo
  <2>3. QED
    BY <1>2, <1>4, <2>1, <2>2, TypeSplitNext
<1>6. Whole'
  <2>1. stored' = stored
    BY <1>2
  <2>2. ASSUME NEW n \in Machines
        PROVE  /\ IsFree(n)' <=> IsFree(n)
               /\ IsOwned(n)' <=> IsOwned(n)
               /\ IsRevoked(n)' <=> IsRevoked(n)
    BY <2>1 DEF IsFree, IsOwned, IsRevoked
  <2>3. QED
    BY <2>2 DEF IInv, Shape, Whole
<1>7. Locked'
  <2>1. \A p \in Requests : (Open(p) => Open(p)') /\ Mine(p)' = Mine(p) /\ (pc[p] = "commit" => pc'[p] = "commit")
    BY DEF Only, Open, Mine
  <2>2. ASSUME NEW s \in Tables, NEW n \in Machines, NEW p \in Requests, lock'[<<s, n>>] = p
        PROVE  Open(p)' /\ n = Mine(p)'
    <3>1. CASE <<s, n>> = <<t, m>>
      BY <1>1, <1>2, <2>1, <2>2, <3>1, RowsDiffer DEF m
    <3>2. CASE <<s, n>> # <<t, m>>
      BY <1>0, <1>2, <2>1, <2>2, <3>2, RowsDiffer DEF Locked
    <3>3. QED
      BY <3>1, <3>2
  <2>3. QED
    BY <1>0, <1>2, <1>3, <2>1, <2>2 DEF Locked
<1>8. IdentityInv'
  BY <1>2, <1>3, MemoKept
<1>9. Apart(q) /\ \A n \in Machines : Advances(n)
  BY <1>0, <1>1, WritesApart
<1>10. QED
  BY <1>5, <1>6, <1>7, <1>8, <1>9, StepKeeps
-----------------------------------------------------------------------------
(* The ends of a transaction.                                              *)
LEMMA Undone ==
  ASSUME IInv, NEW q \in Requests, NEW o \in {"failed", "conflict"}, RollBack(q, o),
         Open(q), o = "conflict" => pc[q] # "commit", UNCHANGED <<lapsed, call, before>>
  PROVE  IInv'
<1>0. Locked /\ LockTyped /\ RequestsTyped /\ RowsTyped(stored) /\ RowsTyped(draft) /\ MemoTyped
  BY TypeSplit DEF IInv, Shape
<1>1. /\ stored' = stored /\ identity' = identity /\ named' = named /\ call' = call
      /\ \A r \in Rows : /\ draft'[r] = IF lock[r] = q THEN stored[r] ELSE draft[r]
                         /\ lock'[r] = IF lock[r] = q THEN NoRequest ELSE lock[r]
      /\ DOMAIN draft' = Rows
  BY DEF RollBack
<1>2. /\ pc'[q] = "done" /\ answer'[q] = o /\ Only(q) /\ RequestsTyped'
  BY <1>0 DEF RollBack, Goto, RequestsTyped, Statements, Outcomes, Only
<1>3. LockTyped' /\ MemoTyped'
  BY <1>0 DEF RollBack, LockTyped, MemoTyped
<1>4. RowsTyped(stored') /\ RowsTyped(draft')
  BY <1>0, <1>1, RowsDiffer DEF RowsTyped, Tables
<1>5. TypeOK'
  BY <1>2, <1>3, <1>4, TypeSplitNext
<1>6. Whole'
  BY <1>1 DEF IInv, Shape, Whole, IsFree, IsOwned, IsRevoked
<1>7. \A r \in Rows : /\ lock'[r] # q
                      /\ \A p \in Requests \ {q} : /\ lock'[r] = p <=> lock[r] = p
                                                   /\ lock[r] = p => draft'[r] = draft[r]
  BY <1>1, NoRequestIsNone
<1>8. Locked'
  <2>1. ASSUME NEW s \in Tables, NEW n \in Machines, NEW p \in Requests, lock'[<<s, n>>] = p
        PROVE  Open(p)' /\ n = Mine(p)'
    <3>1. p # q /\ lock[<<s, n>>] = p
      BY <1>7, <2>1, RowsDiffer
    <3>2. Open(p) /\ n = Mine(p)
      BY <1>0, <3>1 DEF Locked
    <3>3. QED
      BY <1>2, <3>1, <3>2 DEF Only, Open, Mine
  <2>2. ASSUME NEW p \in Requests, lock'[IdentityRow] = p
        PROVE  pc'[p] = "commit" /\ draft'[IdentityRow] = p /\ stored'[IdentityRow] = NoRequest
    <3>1. p # q /\ lock[IdentityRow] = p /\ draft'[IdentityRow] = draft[IdentityRow]
      BY <1>7, <2>2, RowsDiffer
    <3>2. QED
      BY <1>0, <1>1, <1>2, <3>1 DEF Locked, Only
  <2>3. QED
    BY <1>0, <1>1, <2>1, <2>2 DEF Locked
<1>9. Apart(q) /\ \A m \in Machines : Advances(m)
  BY <1>1, <1>7, RowsDiffer DEF Apart, Advances
<1>10. LocatedAt(q)' /\ Transaction(q)'
  BY <1>1, <1>2 DEF IInv, Shape, Located, LocatedAt, Transaction, Open
<1>11. IdentityInv'
  <2>1. ASSUME NEW i \in Requests, Traced(i) PROVE Traced(i)'
    <3>1. CASE stored[IdentityRow] = i
      BY <1>1, <3>1 DEF Traced
    <3>2. CASE pc[i] = "commit" /\ lock[IdentityRow] = i /\ i = q
      BY <1>2, <3>2 DEF Traced
    <3>3. CASE pc[i] = "commit" /\ lock[IdentityRow] = i /\ i # q
      BY <1>2, <1>7, <3>3, RowsDiffer DEF Traced, Only
    <3>4. CASE pc[i] = "done" /\ answer[i] = "failed"
      BY <1>2, <3>4 DEF Traced, Only, Open
    <3>5. QED
      BY <2>1, <3>1, <3>2, <3>3, <3>4 DEF Traced
  <2>3. \A p \in Requests : answer'[p] = "accepted" => answer[p] = "accepted"
    BY <1>2 DEF Only
  <2>4. QED
    BY <1>1, <2>1, <2>3 DEF IInv, IdentityInv
<1>12. QED
  BY <1>2, <1>5, <1>6, <1>8, <1>9, <1>10, <1>11, StepKeeps

(* A commit leaves the committed rows of a machine as they were, or takes  *)
(* the machine from one state to the next.                                 *)
Same(m) ==
  /\ stored'[<<"machine", m>>] = stored[<<"machine", m>>]
  /\ stored'[<<"claim", m>>] = stored[<<"claim", m>>]
  /\ stored'[<<"credential", m>>] = stored[<<"credential", m>>]

Changes(m, u) ==
  \/ Same(m)
  \/ IsFree(m) /\ IsFree(m)'
     /\ (stored[<<"machine", m>>].state # "absent" => stored'[<<"machine", m>>].state # "absent")
  \/ IsFree(m) /\ IsOwned(m)' /\ stored'[<<"machine", m>>].owner = u
     /\ (stored[<<"machine", m>>].state # "absent" => stored'[<<"machine", m>>].state # "absent")
  \/ /\ IsOwned(m) /\ IsRevoked(m)' /\ stored'[<<"claim", m>>] = stored[<<"claim", m>>]
     /\ stored'[<<"machine", m>>].owner = stored[<<"machine", m>>].owner

LEMMA ChangesAdvance ==
  ASSUME NEW m \in Machines, NEW u, Changes(m, u), IsFree(m) \/ IsOwned(m) \/ IsRevoked(m)
  PROVE  Advances(m) /\ (IsFree(m) \/ IsOwned(m) \/ IsRevoked(m))'
<1>1. CASE Same(m)
  BY <1>1 DEF Same, Advances, IsFree, IsOwned, IsRevoked
<1>2. CASE IsFree(m) /\ ~Same(m)
  BY <1>2 DEF Changes, Advances, IsFree, IsOwned
<1>3. CASE IsOwned(m) /\ IsRevoked(m)' /\ stored'[<<"claim", m>>] = stored[<<"claim", m>>]
           /\ stored'[<<"machine", m>>].owner = stored[<<"machine", m>>].owner
  BY <1>3 DEF Advances, IsOwned, IsRevoked
<1>4. QED
  BY <1>1, <1>2, <1>3 DEF Changes

LEMMA CommitIs ==
  ASSUME IInv, NEW q \in Requests, Commit(q)
  PROVE  /\ \A t \in Tables : Old(q, t)' = IF Holds(q, t) THEN New(q, t) ELSE Old(q, t)
         /\ \A m \in Machines : m # Mine(q) => Same(m)
         /\ Mine(q) \in Machines /\ Mine(q)' = Mine(q) /\ call[q] # NoCall /\ call'[q] = call[q]
<1>1. Mine(q) \in Machines /\ call[q] # NoCall
  BY TypeSplit, CallIs DEF Commit, IInv, Shape, Located, LocatedAt
<1>2. \A r \in Rows : stored'[r] = IF lock[r] = q THEN draft[r] ELSE stored[r]
  BY DEF Commit
<1>3. \A t \in Tables, m \in Machines : <<t, m>> \in Rows /\ (lock[<<t, m>>] = q => m = Mine(q))
  BY RowsDiffer DEF IInv, Shape, Locked
<1>4. \A m \in Machines : m # Mine(q) => Same(m)
  BY <1>2, <1>3 DEF Same, Tables
<1>5. Mine(q)' = Mine(q) /\ call'[q] = call[q]
  BY DEF Commit, Mine
<1>6. QED
  BY <1>1, <1>2, <1>3, <1>4, <1>5 DEF Old, New, Holds
LEMMA CommitChanges ==
  ASSUME IInv, NEW q \in Requests, Commit(q)
  PROVE  /\ \A m \in Machines : Changes(m, call[q].user)
         /\ answer[q] = "accepted" => Old(q, "machine")'.owner = call[q].user
         /\ answer[q] = "revoked" => Old(q, "machine")'.owner = call[q].user /\ IsRevoked(Mine(q))'
<1> DEFINE u == call[q].user
<1> DEFINE m == Mine(q)
<1>1. /\ m \in Machines /\ m' = m /\ call[q] # NoCall
      /\ \A n \in Machines : n # m => Same(n)
      /\ Old(q, "machine")' = IF Holds(q, "machine") THEN New(q, "machine") ELSE Old(q, "machine")
      /\ Old(q, "claim")' = IF Holds(q, "claim") THEN New(q, "claim") ELSE Old(q, "claim")
      /\ Old(q, "credential")' = IF Holds(q, "credential") THEN New(q, "credential") ELSE Old(q, "credential")
  BY CommitIs DEF Tables
<1>2. /\ Old(q, "machine") = stored[<<"machine", m>>] /\ Old(q, "machine")' = stored'[<<"machine", m>>]
      /\ Old(q, "claim") = stored[<<"claim", m>>] /\ Old(q, "claim")' = stored'[<<"claim", m>>]
      /\ Old(q, "credential") = stored[<<"credential", m>>]
      /\ Old(q, "credential")' = stored'[<<"credential", m>>]
  BY <1>1 DEF Old
<1>3. IsFree(m) \/ IsOwned(m) \/ IsRevoked(m)
  BY <1>1 DEF IInv, Shape, Whole
<1>4. Transaction(q) /\ pc[q] = "commit" /\ LocatedAt(q) /\ answer[q] \in Outcomes /\ RequestsTyped
  BY TypeSplit DEF IInv, Shape, Located, Transactions, Commit, RequestsTyped
<1>5. call[q].op = "accept" => u \in Users
  BY <1>1, <1>4, CallIs
<1> HIDE DEF u, m
<1>6. CASE Nothing(q)
  <2>1. Same(m)
    BY <1>1, <1>2, <1>6 DEF Nothing, Same
  <2>2. AcceptedBy(q) => Old(q, "machine").owner = u
    BY <1>2, <1>3 DEF AcceptedBy, IsFree, IsOwned, IsRevoked, u
  <2>3. Old(q, "machine").state = "revoked" => IsRevoked(m)
    BY <1>2, <1>3 DEF IsFree, IsOwned, IsRevoked
  <2>4. IsRevoked(m) => IsRevoked(m)'
    BY <1>1, <2>1 DEF Same, IsRevoked
  <2>5. answer[q] = "accepted" => AcceptedBy(q)
    BY <1>4, <1>6 DEF Transaction, Takes, TakesClaim, Nothing
  <2>6. answer[q] = "revoked" => Owner(q) /\ Old(q, "machine").state = "revoked"
    BY <1>4, <1>6 DEF Transaction, Revokes, Nothing
  <2>7. Old(q, "machine")' = Old(q, "machine")
    BY <1>1, <1>6 DEF Nothing
  <2>8. answer[q] = "accepted" => Old(q, "machine")'.owner = u
    BY <2>2, <2>5, <2>7
  <2>9. answer[q] = "revoked" => Old(q, "machine")'.owner = u /\ IsRevoked(m)'
    BY <2>3, <2>4, <2>6, <2>7 DEF Owner, u
  <2>10. QED
    BY <1>1, <2>1, <2>8, <2>9 DEF Changes, m, u
<1>7. CASE answer[q] = "created" /\ ~Nothing(q)
  <2>1. Registering(q)
    BY <1>4, <1>7 DEF Transaction
  <2>2. IsFree(m) /\ IsFree(m)' /\ stored'[<<"machine", m>>].state # "absent"
    BY <1>1, <1>2, <1>3, <2>1 DEF Registering, IsFree, IsOwned, IsRevoked
  <2>3. QED
    BY <1>1, <1>7, <2>2 DEF Changes, m
<1>8. CASE answer[q] = "denied" /\ ~Nothing(q)
  <2>1. Deny(q)
    BY <1>4, <1>8 DEF Transaction
  <2>2. IsFree(m) /\ IsFree(m)' /\ stored'[<<"machine", m>>] = stored[<<"machine", m>>]
    BY <1>1, <1>2, <1>3, <2>1 DEF Deny, IsFree, IsOwned, IsRevoked
  <2>3. QED
    BY <1>1, <1>8, <2>2 DEF Changes, m
<1>9. CASE answer[q] = "accepted" /\ ~Nothing(q)
  <2>1. Takes(q) /\ u \in Users
    BY <1>4, <1>5, <1>9 DEF Transaction, LocatedAt
  <2>2. IsFree(m)
    BY <1>2, <1>3, <2>1 DEF Takes, TakesClaim, IsFree, IsOwned, IsRevoked
  <2>3. /\ stored'[<<"machine", m>>] = [state |-> "active", owner |-> u, generation |-> 1]
        /\ stored'[<<"claim", m>>].status = "accepted" /\ stored'[<<"claim", m>>].by = u
        /\ stored'[<<"credential", m>>] = [status |-> "active", token |-> stored'[<<"claim", m>>].token, generation |-> 1]
    BY <1>1, <1>2, <2>1 DEF Takes, TakesClaim, TakesMachine, u
  <2>4. IsOwned(m)' /\ stored'[<<"machine", m>>].owner = u /\ stored'[<<"machine", m>>].state # "absent"
    BY <1>1, <2>1, <2>3 DEF IsOwned
  <2>5. QED
    BY <1>1, <1>2, <1>9, <2>2, <2>4 DEF Changes, m, u
<1>10. CASE answer[q] = "renamed" /\ ~Nothing(q)
  <2>1. Renames(q)
    BY <1>4, <1>10 DEF Transaction
  <2>2. Same(m)
    BY <1>1, <1>2, <2>1 DEF Renames, Same
  <2>3. QED
    BY <1>1, <1>10, <2>2 DEF Changes, m
<1>11. CASE answer[q] = "revoked" /\ ~Nothing(q)
  <2>1. Revokes(q) /\ Owner(q)
    BY <1>4, <1>11 DEF Transaction
  <2>2. IsOwned(m) /\ stored[<<"machine", m>>].owner = u
    BY <1>2, <1>3, <2>1 DEF Revokes, Withdraws, Owner, IsFree, IsOwned, IsRevoked, u
  <2>3. /\ stored'[<<"machine", m>>].state = "revoked"
        /\ stored'[<<"machine", m>>].owner = stored[<<"machine", m>>].owner
        /\ stored'[<<"claim", m>>] = stored[<<"claim", m>>]
        /\ stored'[<<"credential", m>>].status = "revoked"
    BY <1>1, <1>2, <2>1 DEF Revokes, Withdraws
  <2>4. IsRevoked(m)'
    BY <1>1, <2>2, <2>3 DEF IsOwned, IsRevoked
  <2>5. QED
    BY <1>1, <1>2, <1>11, <2>2, <2>3, <2>4 DEF Changes, m, u
<1>12. answer[q] \in {"created", "retry", "conflict", "accepted", "denied", "expired", "replayed",
                      "renamed", "revoked", "not-found"}
  BY <1>4 DEF LocatedAt, Outcomes
<1>13. answer[q] \in {"retry", "conflict", "expired", "replayed", "not-found"} => Nothing(q)
  BY <1>4 DEF Transaction
<1>14. QED
  BY <1>6, <1>7, <1>8, <1>9, <1>10, <1>11, <1>12, <1>13

LEMMA Committed ==
  ASSUME IInv, NEW q \in Requests, Commit(q)
  PROVE  IInv'
<1>0. Locked /\ LockTyped /\ RequestsTyped /\ RowsTyped(stored) /\ RowsTyped(draft) /\ MemoTyped
  BY TypeSplit DEF IInv, Shape
<1>1. /\ draft' = draft /\ identity' = identity /\ named' = named /\ call' = call /\ loading' = loading
      /\ \A r \in Rows : /\ stored'[r] = IF lock[r] = q THEN draft[r] ELSE stored[r]
                         /\ lock'[r] = IF lock[r] = q THEN NoRequest ELSE lock[r]
      /\ DOMAIN stored' = Rows
  BY DEF Commit, memo
<1>2. /\ pc[q] = "commit" /\ pc'[q] = "done" /\ answer'[q] \in {answer[q], "failed"}
      /\ Only(q) /\ RequestsTyped'
  <2>1. PICK heard \in {answer[q], "failed"} : answer' = [answer EXCEPT ![q] = heard]
    BY DEF Commit
  <2>2. heard \in Outcomes
    BY <1>0, <2>1 DEF RequestsTyped, Outcomes
  <2>3. QED
    BY <1>0, <2>1, <2>2 DEF Commit, Goto, RequestsTyped, Statements, Only
<1>3. LockTyped' /\ MemoTyped'
  BY <1>0, <1>1 DEF Commit, LockTyped, MemoTyped
<1>4. RowsTyped(stored') /\ RowsTyped(draft')
  BY <1>0, <1>1, RowsDiffer DEF RowsTyped, Tables
<1>5. TypeOK'
  BY <1>2, <1>3, <1>4, TypeSplitNext
<1>6. \A m \in Machines : Advances(m) /\ (IsFree(m) \/ IsOwned(m) \/ IsRevoked(m))'
  BY CommitChanges, ChangesAdvance DEF IInv, Shape, Whole
<1>7. Whole'
  BY <1>6 DEF Whole
<1>8. \A r \in Rows : /\ lock'[r] # q
                      /\ \A p \in Requests \ {q} : /\ lock'[r] = p <=> lock[r] = p
                                                   /\ lock[r] = p => stored'[r] = stored[r]
  BY <1>1, NoRequestIsNone
<1>9. Locked'
  <2>1. ASSUME NEW s \in Tables, NEW n \in Machines, NEW p \in Requests, lock'[<<s, n>>] = p
        PROVE  Open(p)' /\ n = Mine(p)'
    <3>1. p # q /\ lock[<<s, n>>] = p
      BY <1>8, <2>1, RowsDiffer
    <3>2. Open(p) /\ n = Mine(p)
      BY <1>0, <3>1 DEF Locked
    <3>3. QED
      BY <1>2, <3>1, <3>2 DEF Only, Open, Mine
  <2>2. ASSUME NEW p \in Requests, lock'[IdentityRow] = p
        PROVE  pc'[p] = "commit" /\ draft'[IdentityRow] = p /\ stored'[IdentityRow] = NoRequest
    <3>1. p # q /\ lock[IdentityRow] = p /\ stored'[IdentityRow] = stored[IdentityRow]
      BY <1>8, <2>2, RowsDiffer
    <3>2. QED
      BY <1>0, <1>1, <1>2, <3>1 DEF Locked, Only
  <2>3. QED
    BY <1>0, <1>1, <2>1, <2>2 DEF Locked
<1>10. Apart(q)
  BY <1>1, <1>8, RowsDiffer DEF Apart
<1>11. LocatedAt(q)' /\ Transaction(q)'
  BY <1>1, <1>2 DEF IInv, Shape, Located, LocatedAt, Transaction
<1>12. IdentityInv'
  <2>1. ASSUME NEW i \in Requests, Traced(i) PROVE Traced(i)'
    <3>1. CASE stored[IdentityRow] = i
      BY <1>0, <1>1, <3>1, RowsDiffer, NoRequestIsNone DEF Traced, Locked
    <3>2. CASE pc[i] = "commit" /\ lock[IdentityRow] = i /\ i = q
      BY <1>0, <1>1, <3>2, RowsDiffer DEF Traced, Locked
    <3>3. CASE pc[i] = "commit" /\ lock[IdentityRow] = i /\ i # q
      BY <1>2, <1>8, <3>3, RowsDiffer DEF Traced, Only
    <3>4. CASE pc[i] = "done" /\ answer[i] = "failed"
      BY <1>2, <3>4 DEF Traced, Only
    <3>5. QED
      BY <2>1, <3>1, <3>2, <3>3, <3>4 DEF Traced
  <2>3. \A p \in Requests : answer'[p] = "accepted" => answer[p] = "accepted"
    BY <1>2 DEF Only
  <2>4. QED
    BY <1>1, <2>1, <2>3 DEF IInv, IdentityInv
<1>13. QED
  BY <1>2, <1>5, <1>6, <1>7, <1>9, <1>10, <1>11, <1>12, StepKeeps

LEMMA Lapses ==
  ASSUME IInv, NEW m \in Machines, Lapse(m)
  PROVE  IInv'
<1>0. LockTyped /\ RequestsTyped /\ RowsTyped(stored) /\ RowsTyped(draft) /\ MemoTyped
  BY TypeSplit DEF IInv, Shape
<1>1. /\ stored' = stored /\ draft' = draft /\ lock' = lock
      /\ identity' = identity /\ loading' = loading /\ named' = named
      /\ call' = call /\ pc' = pc /\ before' = before /\ answer' = answer
  BY DEF Lapse, rows, memo
<1>2. lapsed' \subseteq ClaimIds
  <2>1. stored[<<"claim", m>>] \in ClaimRows
    BY <1>0 DEF RowsTyped
  <2>2. stored[<<"claim", m>>].id \in ClaimIds
    BY <2>1 DEF ClaimRows, NoClaimRow, Lapse
  <2>3. QED
    BY <1>0, <2>2 DEF Lapse, RequestsTyped
<1>3. TypeOK'
  BY <1>0, <1>1, <1>2, TypeSplitNext DEF LockTyped, RequestsTyped, MemoTyped
<1>4. Whole' /\ Locked' /\ Located'
  BY <1>1 DEF IInv, Shape, Whole, IsFree, IsOwned, IsRevoked, Locked, Open, Mine, Located, LocatedAt
<1>5. IdentityInv'
  BY <1>1 DEF IInv, IdentityInv, Traced
<1>6. ASSUME NEW p \in Requests PROVE Transaction(p)'
  <2>1. Transaction(p)
    BY DEF IInv, Transactions
  <2>2. QED
    BY <1>1, <2>1 DEF Transaction, Nothing, Registering, Deny, TakesClaim, TakesMachine, Takes,
         Renames, Withdraws, Revokes, Known, Settled, AcceptedBy, Owner, Holds, Old, New, Mine
<1>7. QED
  BY <1>3, <1>4, <1>5, <1>6 DEF IInv, Shape, Transactions
-----------------------------------------------------------------------------
(* How a statement hands over to the next.                                 *)
LEMMA ProceedIs ==
  ASSUME RequestsTyped, NEW q \in Requests, NEW l \in Statements, Proceed(q, l),
         UNCHANGED <<lapsed, call, before>>
  PROVE  /\ pc'[q] = l /\ answer'[q] = answer[q] /\ before'[q] = before[q]
         /\ Only(q) /\ RequestsTyped' /\ UNCHANGED memo /\ UNCHANGED answer
BY DEF Proceed, Goto, RequestsTyped, Only, memo

LEMMA ConcludeIs ==
  ASSUME RequestsTyped, NEW q \in Requests, NEW o \in Outcomes, Conclude(q, o),
         UNCHANGED <<lapsed, call, before>>
  PROVE  /\ pc'[q] = "commit" /\ answer'[q] = o /\ before'[q] = before[q]
         /\ Only(q) /\ RequestsTyped' /\ UNCHANGED memo
BY DEF Conclude, Goto, RequestsTyped, Only, Statements, memo

LEMMA SameRows ==
  ASSUME NEW q \in Requests, UNCHANGED rows, call' = call
  PROVE  /\ \A t : Holds(q, t)' <=> Holds(q, t)
         /\ \A t : Old(q, t)' = Old(q, t) /\ New(q, t)' = New(q, t)
         /\ Nothing(q)' <=> Nothing(q)
         /\ Registering(q)' <=> Registering(q)
         /\ Takes(q)' <=> Takes(q)
         /\ AcceptedBy(q)' <=> AcceptedBy(q)
         /\ Owner(q)' <=> Owner(q)
         /\ Known(q)' <=> Known(q)
         /\ Settled(q)' <=> Settled(q)
<1>1. /\ \A t : Holds(q, t)' <=> Holds(q, t)
      /\ \A t : Old(q, t)' = Old(q, t) /\ New(q, t)' = New(q, t)
      /\ call'[q] = call[q]
  BY DEF rows, Holds, Old, New, Mine
<1>2. QED
  BY <1>1 DEF Nothing, Registering, Takes, TakesClaim, TakesMachine, AcceptedBy, Owner, Known, Settled

(* Where nothing is written, nothing has to be shown but where q is next.  *)
LEMMA ProceedReads ==
  ASSUME IInv, NEW q \in Requests, NEW l \in Statements \ {"idle", "commit", "done"}, Proceed(q, l),
         UNCHANGED <<rows, lapsed, call, before>>, pc[q] \notin {"commit", "done"},
         l = "queued" => pc[q] = "idle", LocatedAt(q)', Transaction(q)'
  PROVE  IInv'
<1>1. RequestsTyped /\ LocatedAt(q)
  BY TypeSplit DEF IInv, Shape, Located
<1>2. /\ pc'[q] = l /\ answer'[q] = answer[q] /\ Only(q) /\ RequestsTyped' /\ UNCHANGED memo
  BY <1>1, ProceedIs
<1>3. answer'[q] # "accepted"
  BY <1>1, <1>2 DEF LocatedAt
<1>4. Open(q) => Open(q)'
  BY <1>2 DEF Open
<1>5. QED
  BY <1>2, <1>3, <1>4, Reads

LEMMA ConcludeReads ==
  ASSUME IInv, NEW q \in Requests, NEW o \in Outcomes \ {"none", "failed", "accepted"}, Conclude(q, o),
         UNCHANGED <<rows, lapsed, call, before>>, Open(q), pc[q] # "commit",
         o = "revoked" => call[q].op = "revoke", Transaction(q)'
  PROVE  IInv'
<1>1. RequestsTyped /\ LocatedAt(q)
  BY TypeSplit DEF IInv, Shape, Located
<1>2. /\ pc'[q] = "commit" /\ answer'[q] = o /\ Only(q) /\ RequestsTyped' /\ UNCHANGED memo
  BY <1>1, ConcludeIs
<1>3. Open(q)' /\ pc[q] # "done"
  BY <1>2 DEF Open
<1>4. LocatedAt(q)'
  BY <1>1, <1>2 DEF LocatedAt, Open
<1>5. QED
  BY <1>2, <1>3, <1>4, Reads

(* While q has written nothing, it sees what is committed.                 *)
LEMMA SeesOld ==
  ASSUME NEW q \in Requests, NEW t, ~Holds(q, t)
  PROVE  See(q, t, Mine(q)) = Old(q, t)
BY DEF See, Holds, Old

LEMMA SeesNew ==
  ASSUME NEW q \in Requests, NEW t, Holds(q, t)
  PROVE  See(q, t, Mine(q)) = New(q, t)
BY DEF See, Holds, New

(* The committed rows of the machine of q, and of none else.               *)
LEMMA MineIsWhole ==
  ASSUME IInv, NEW q \in Requests, pc[q] # "idle"
  PROVE  /\ Mine(q) \in Machines /\ call[q] # NoCall /\ RequestsTyped /\ Transaction(q) /\ LocatedAt(q)
         /\ Old(q, "machine") \in MachineRows /\ Old(q, "claim") \in ClaimRows
         /\ Old(q, "credential") \in CredentialRows
         /\ New(q, "machine") \in MachineRows /\ New(q, "claim") \in ClaimRows
         /\ New(q, "credential") \in CredentialRows
         /\ Old(q, "machine").state \in {"absent", "pending"} =>
              /\ Old(q, "machine").owner = Nobody /\ Old(q, "claim").status # "accepted"
              /\ Old(q, "credential").status = "absent"
         /\ Old(q, "machine").state = "active" =>
              /\ Old(q, "machine").generation = 1 /\ Old(q, "machine").owner \in Users
              /\ Old(q, "claim").status = "accepted"
              /\ Old(q, "claim").by = Old(q, "machine").owner
              /\ Old(q, "credential").status = "active"
         /\ Old(q, "machine").state = "revoked" =>
              /\ Old(q, "machine").owner \in Users
              /\ Old(q, "claim").status = "accepted"
              /\ Old(q, "claim").by = Old(q, "machine").owner
              /\ Old(q, "credential").status = "revoked"
<1>1. Mine(q) \in Machines /\ call[q] # NoCall /\ RequestsTyped /\ Transaction(q) /\ LocatedAt(q)
  BY TypeSplit, CallIs DEF IInv, Shape, Located, LocatedAt, Transactions
<1>2. RowsTyped(stored) /\ RowsTyped(draft)
  BY TypeSplit DEF IInv, Shape
<1>3. IsFree(Mine(q)) \/ IsOwned(Mine(q)) \/ IsRevoked(Mine(q))
  BY <1>1 DEF IInv, Shape, Whole
<1>4. QED
  BY <1>1, <1>2, <1>3 DEF RowsTyped, IsFree, IsOwned, IsRevoked, Old, New
-----------------------------------------------------------------------------
(* A request comes, and createClaim().                                     *)
LEMMA RequestKeeps ==
  ASSUME IInv, NEW q \in Requests, Request(q)
  PROVE  IInv'
<1>1. pc[q] = "idle" /\ call[q] # NoCall /\ LocatedAt(q) /\ RequestsTyped /\ UNCHANGED <<rows, call>>
  BY TypeSplit DEF Request, IInv, Shape, Located
<1>2. call[q].op \in {"create", "accept", "deny", "rename", "revoke"}
  BY <1>1, CallIs
<1> DEFINE l == FirstStatement(call[q])
<1>3. /\ l \in {"find", "queued", "rename", "revoke"} /\ l \in Statements
      /\ l = "find" => call[q].op = "create"
      /\ l = "queued" => call[q].op \in {"accept", "deny"}
      /\ l = "rename" => call[q].op = "rename"
      /\ l = "revoke" => call[q].op = "revoke"
  BY <1>2 DEF FirstStatement, Statements
<1> HIDE DEF l
<1>4. Proceed(q, l) /\ UNCHANGED <<lapsed, call, before>>
  BY DEF Request, l
<1>5. pc'[q] = l /\ answer'[q] = answer[q] /\ before'[q] = before[q]
  BY <1>1, <1>3, <1>4, ProceedIs
<1>6. LocatedAt(q)'
  BY <1>1, <1>3, <1>5 DEF LocatedAt
<1>7. Nothing(q)
  <2>1. \A t \in Tables : ~Holds(q, t)
    <3>1. SUFFICES ASSUME NEW t \in Tables, lock[<<t, Mine(q)>>] = q PROVE FALSE
      BY DEF Holds
    <3>2. Mine(q) \in Machines
      BY <1>1, CallIs
    <3>3. Open(q)
      BY <3>1, <3>2 DEF IInv, Shape, Locked
    <3>4. QED
      BY <1>1, <3>3 DEF Open
  <2>2. QED
    BY <2>1 DEF Nothing, Tables
<1>8. before[q] = 0
  BY <1>1 DEF LocatedAt
<1>9. Transaction(q)'
  BY <1>1, <1>3, <1>5, <1>7, <1>8, SameRows DEF Transaction
<1>10. QED
  BY <1>1, <1>3, <1>4, <1>6, <1>9, ProceedReads

LEMMA FindClaimKeeps ==
  ASSUME IInv, NEW q \in Requests, FindClaim(q)
  PROVE  IInv'
<1>1. /\ pc[q] = "find" /\ Nothing(q) /\ call[q].op = "create" /\ RequestsTyped /\ LocatedAt(q)
      /\ UNCHANGED <<rows, lapsed, call, before>> /\ call'[q] = call[q]
  BY MineIsWhole DEF FindClaim, Transaction, LocatedAt
<1>2. Nothing(q)'
  BY <1>1, SameRows
<1>3. CASE Proceed(q, "register")
  <2>1. pc'[q] = "register" /\ answer'[q] = answer[q] /\ before'[q] = before[q]
    BY <1>1, <1>3, ProceedIs DEF Statements
  <2>2. LocatedAt(q)' /\ Transaction(q)'
    BY <1>1, <1>2, <2>1 DEF LocatedAt, Transaction
  <2>3. QED
    BY <1>1, <1>3, <2>2, ProceedReads DEF Statements
<1>4. ASSUME NEW o \in {"retry", "conflict"}, Conclude(q, o) PROVE IInv'
  <2>1. pc'[q] = "commit" /\ answer'[q] = o
    BY <1>1, <1>4, ConcludeIs DEF Outcomes
  <2>2. Transaction(q)'
    BY <1>2, <2>1 DEF Transaction
  <2>3. QED
    BY <1>1, <1>4, <2>2, ConcludeReads DEF Outcomes, Open
<1>5. QED
  BY <1>3, <1>4 DEF FindClaim

LEMMA RegisterKeeps ==
  ASSUME IInv, NEW q \in Requests, Register(q)
  PROVE  IInv'
<1>1. /\ pc[q] = "register" /\ Nothing(q) /\ call[q].op = "create" /\ RequestsTyped /\ LocatedAt(q)
      /\ UNCHANGED <<rows, lapsed, call, before>> /\ call'[q] = call[q]
  BY MineIsWhole DEF Register, Transaction, LocatedAt
<1>2. Nothing(q)' /\ (Known(q)' <=> Known(q))
  BY <1>1, SameRows
<1>3. See(q, "machine", Mine(q)) = Old(q, "machine")
  BY <1>1, SeesOld DEF Nothing
<1>4. ASSUME NEW l \in {"insert", "refresh"}, Proceed(q, l), l = "refresh" => Known(q)
      PROVE  IInv'
  <2>1. pc'[q] = l /\ answer'[q] = answer[q] /\ before'[q] = before[q]
    BY <1>1, <1>4, ProceedIs DEF Statements
  <2>2. LocatedAt(q)' /\ Transaction(q)'
    BY <1>1, <1>2, <1>4, <2>1 DEF LocatedAt, Transaction
  <2>3. QED
    BY <1>1, <1>4, <2>2, ProceedReads DEF Statements
<1>5. CASE Conclude(q, "conflict")
  <2>1. pc'[q] = "commit" /\ answer'[q] = "conflict"
    BY <1>1, <1>5, ConcludeIs DEF Outcomes
  <2>2. Transaction(q)'
    BY <1>2, <2>1 DEF Transaction
  <2>3. QED
    BY <1>1, <1>5, <2>2, ConcludeReads DEF Outcomes, Open
<1>6. QED
  BY <1>3, <1>4, <1>5 DEF Register, Known
-----------------------------------------------------------------------------
(* What q sees of its machine after it has written a row.                  *)
LEMMA WriteMine ==
  ASSUME IInv, NEW q \in Requests, NEW t \in Tables, NEW row, Write(q, t, Mine(q), row),
         pc[q] # "idle", call' = call
  PROVE  /\ Holds(q, t)' /\ New(q, t)' = row
         /\ \A s : Old(q, s)' = Old(q, s)
         /\ \A s \in Tables : s # t => (Holds(q, s)' <=> Holds(q, s)) /\ New(q, s)' = New(q, s)
<1>1. Locked /\ LockTyped /\ Mine(q) \in Machines
  BY TypeSplit, MineIsWhole DEF IInv, Shape
<1>2. /\ stored' = stored
      /\ lock'[<<t, Mine(q)>>] = q /\ draft'[<<t, Mine(q)>>] = row
      /\ \A r \in Rows : r # <<t, Mine(q)>> => lock'[r] = lock[r] /\ draft'[r] = draft[r]
  BY <1>1, WriteIs
<1>3. Mine(q)' = Mine(q)
  BY DEF Mine
<1>4. \A s \in Tables : s # t => <<s, Mine(q)>> \in Rows /\ <<s, Mine(q)>> # <<t, Mine(q)>>
  BY <1>1, RowsDiffer
<1>5. QED
  BY <1>2, <1>3, <1>4 DEF Holds, Old, New

LEMMA ProceedWrites ==
  ASSUME IInv, NEW q \in Requests, NEW l \in Statements \ {"idle", "queued", "commit", "done"},
         Proceed(q, l), NEW t \in Tables, NEW row, Write(q, t, Mine(q), row), RowTyped(t, row),
         UNCHANGED <<lapsed, call, before>>, Open(q), pc[q] # "commit",
         LocatedAt(q)', Transaction(q)'
  PROVE  IInv'
<1>1. RequestsTyped /\ LocatedAt(q)
  BY TypeSplit DEF IInv, Shape, Located
<1>2. /\ pc'[q] = l /\ answer'[q] = answer[q] /\ Only(q) /\ RequestsTyped' /\ UNCHANGED memo
  BY <1>1, ProceedIs
<1>3. answer'[q] # "accepted" /\ pc[q] # "done"
  BY <1>1, <1>2 DEF LocatedAt, Open
<1>4. Open(q)'
  BY <1>2 DEF Open
<1>5. QED
  BY <1>2, <1>3, <1>4, Writes

LEMMA ConcludeWrites ==
  ASSUME IInv, NEW q \in Requests, NEW o \in Outcomes \ {"none", "failed", "accepted"}, Conclude(q, o),
         NEW t \in Tables, NEW row, Write(q, t, Mine(q), row), RowTyped(t, row),
         UNCHANGED <<lapsed, call, before>>, Open(q), pc[q] # "commit",
         o = "revoked" => call[q].op = "revoke", Transaction(q)'
  PROVE  IInv'
<1>1. RequestsTyped /\ LocatedAt(q)
  BY TypeSplit DEF IInv, Shape, Located
<1>2. /\ pc'[q] = "commit" /\ answer'[q] = o /\ Only(q) /\ RequestsTyped' /\ UNCHANGED memo
  BY <1>1, ConcludeIs
<1>3. Open(q)' /\ pc[q] # "done"
  BY <1>2 DEF Open
<1>4. LocatedAt(q)'
  BY <1>1, <1>2 DEF LocatedAt, Open
<1>5. QED
  BY <1>2, <1>3, <1>4, Writes

LEMMA RefreshPendingKeeps ==
  ASSUME IInv, NEW q \in Requests, RefreshPending(q)
  PROVE  IInv'
<1>1. /\ pc[q] = "refresh" /\ Nothing(q) /\ Known(q) /\ call[q].op = "create" /\ RequestsTyped
      /\ LocatedAt(q) /\ Proceed(q, "replace") /\ UNCHANGED <<lapsed, call, before>> /\ call'[q] = call[q]
  BY MineIsWhole DEF RefreshPending, Transaction, LocatedAt
<1>2. See(q, "machine", Mine(q)) = Old(q, "machine") /\ Old(q, "machine") \in MachineRows
  BY <1>1, SeesOld, MineIsWhole DEF Nothing
<1>3. pc'[q] = "replace" /\ answer'[q] = answer[q] /\ before'[q] = before[q]
  BY <1>1, ProceedIs DEF Statements
<1>4. LocatedAt(q)'
  BY <1>1, <1>3 DEF LocatedAt
<1>5. CASE Old(q, "machine").state = "pending"
  <2>1. Write(q, "machine", Mine(q), Old(q, "machine"))
    BY <1>2, <1>5 DEF RefreshPending
  <2>2. Old(q, "machine").owner = Nobody
    BY <1>1, <1>5, MineIsWhole
  <2>3. /\ Holds(q, "machine")' /\ New(q, "machine")' = Old(q, "machine")
        /\ Old(q, "machine")' = Old(q, "machine") /\ ~Holds(q, "claim")' /\ ~Holds(q, "credential")'
    BY <1>1, <2>1, WriteMine DEF Tables, Nothing
  <2>4. Registering(q)'
    BY <1>5, <2>2, <2>3 DEF Registering
  <2>5. Transaction(q)'
    BY <1>3, <2>4 DEF Transaction
  <2>6. RowTyped("machine", Old(q, "machine"))
    BY <1>2 DEF RowTyped
  <2>7. QED
    BY <1>1, <1>4, <2>1, <2>5, <2>6, ProceedWrites DEF Tables, Statements, Open
<1>6. CASE Old(q, "machine").state # "pending"
  <2>1. UNCHANGED rows
    BY <1>2, <1>6 DEF RefreshPending
  <2>2. Settled(q)
    BY <1>1, <1>2, <1>6 DEF Known, Settled, MachineRows
  <2>3. Transaction(q)'
    BY <1>1, <1>3, <2>1, <2>2, SameRows DEF Transaction
  <2>4. QED
    BY <1>1, <1>4, <2>1, <2>3, ProceedReads DEF Statements
<1>7. QED
  BY <1>5, <1>6

LEMMA DeletePendingKeeps ==
  ASSUME IInv, NEW q \in Requests, DeletePending(q)
  PROVE  IInv'
<1>1. /\ pc[q] = "replace" /\ call[q].op = "create" /\ RequestsTyped
      /\ Registering(q) \/ (Nothing(q) /\ Settled(q))
      /\ LocatedAt(q) /\ Proceed(q, "claim") /\ UNCHANGED <<lapsed, call, before>> /\ call'[q] = call[q]
  BY MineIsWhole DEF DeletePending, Transaction, LocatedAt
<1>2. pc'[q] = "claim" /\ answer'[q] = answer[q] /\ before'[q] = before[q]
  BY <1>1, ProceedIs DEF Statements
<1>3. LocatedAt(q)'
  BY <1>1, <1>2 DEF LocatedAt
<1>4. CASE See(q, "claim", Mine(q)).status = "pending"
  <2>1. Write(q, "claim", Mine(q), NoClaimRow)
    BY <1>4 DEF DeletePending
  <2>2. ~(Nothing(q) /\ Settled(q))
    BY <1>1, <1>4, SeesOld, MineIsWhole DEF Nothing, Settled
  <2>3. /\ Holds(q, "claim")' /\ New(q, "claim")' = NoClaimRow /\ Old(q, "machine")' = Old(q, "machine")
        /\ Holds(q, "machine")' <=> Holds(q, "machine")
        /\ Holds(q, "credential")' <=> Holds(q, "credential")
        /\ New(q, "machine")' = New(q, "machine")
    BY <1>1, <2>1, WriteMine DEF Tables
  <2>4. Registering(q)'
    BY <1>1, <2>2, <2>3 DEF Registering, NoClaimRow
  <2>5. Transaction(q)'
    BY <1>2, <2>4 DEF Transaction
  <2>6. RowTyped("claim", NoClaimRow)
    BY DEF RowTyped, ClaimRows
  <2>7. QED
    BY <1>1, <1>3, <2>1, <2>5, <2>6, ProceedWrites DEF Tables, Statements, Open
<1>5. CASE See(q, "claim", Mine(q)).status # "pending"
  <2>1. UNCHANGED rows
    BY <1>5 DEF DeletePending
  <2>2. Transaction(q)'
    BY <1>1, <1>2, <2>1, SameRows DEF Transaction
  <2>3. QED
    BY <1>1, <1>3, <2>1, <2>2, ProceedReads DEF Statements
<1>6. QED
  BY <1>4, <1>5

LEMMA InsertMachineKeeps ==
  ASSUME IInv, NEW q \in Requests, InsertMachine(q)
  PROVE  IInv'
<1>1. /\ pc[q] = "insert" /\ Nothing(q) /\ call[q].op = "create" /\ RequestsTyped
      /\ LocatedAt(q) /\ UNCHANGED <<lapsed, call, before>> /\ call'[q] = call[q]
  BY MineIsWhole DEF InsertMachine, Transaction, LocatedAt
<1>2. See(q, "machine", Mine(q)) = Old(q, "machine")
  BY <1>1, SeesOld DEF Nothing
<1>3. CASE Old(q, "machine").state = "absent"
  <2> DEFINE row == [NoMachine EXCEPT !.state = "pending"]
  <2>1. Write(q, "machine", Mine(q), row) /\ Proceed(q, "claim")
    BY <1>2, <1>3 DEF InsertMachine
  <2>2. pc'[q] = "claim" /\ answer'[q] = answer[q] /\ before'[q] = before[q]
    BY <1>1, <2>1, ProceedIs DEF Statements
  <2>3. row.state = "pending" /\ row.owner = Nobody /\ RowTyped("machine", row)
    BY DEF NoMachine, RowTyped, MachineRows
  <2> HIDE DEF row
  <2>4. /\ Holds(q, "machine")' /\ New(q, "machine")' = row
        /\ Old(q, "machine")' = Old(q, "machine") /\ ~Holds(q, "claim")' /\ ~Holds(q, "credential")'
    BY <1>1, <2>1, WriteMine DEF Tables, Nothing
  <2>5. LocatedAt(q)' /\ Transaction(q)'
    BY <1>1, <1>3, <2>2, <2>3, <2>4 DEF LocatedAt, Transaction, Registering
  <2>6. QED
    BY <1>1, <2>1, <2>3, <2>5, ProceedWrites DEF Tables, Statements, Open
<1>4. CASE Old(q, "machine").state # "absent"
  BY <1>1, <1>2, <1>4, Undone DEF InsertMachine, LostRace, Open
<1>5. QED
  BY <1>3, <1>4

LEMMA InsertClaimKeeps ==
  ASSUME IInv, NEW q \in Requests, InsertClaim(q)
  PROVE  IInv'
<1>1. /\ pc[q] = "claim" /\ call[q].op = "create" /\ RequestsTyped /\ LocatedAt(q)
      /\ Registering(q) \/ (Nothing(q) /\ Settled(q))
      /\ call[q].id \in ClaimIds /\ call[q].token \in Tokens
      /\ UNCHANGED <<lapsed, call, before>> /\ call'[q] = call[q]
  BY MineIsWhole, CallIs DEF InsertClaim, Transaction, LocatedAt
<1>2. CASE See(q, "claim", Mine(q)).status = "absent"
  <2> DEFINE row == [NoClaimRow EXCEPT !.status = "pending", !.id = call[q].id, !.token = call[q].token]
  <2>1. Write(q, "claim", Mine(q), row) /\ Conclude(q, "created")
    BY <1>2 DEF InsertClaim, Mine
  <2>2. pc'[q] = "commit" /\ answer'[q] = "created"
    BY <1>1, <2>1, ConcludeIs DEF Outcomes
  <2>3. row.status = "pending" /\ RowTyped("claim", row)
    BY <1>1 DEF NoClaimRow, RowTyped, ClaimRows
  <2> HIDE DEF row
  <2>4. ~(Nothing(q) /\ Settled(q))
    BY <1>1, <1>2, SeesOld, MineIsWhole DEF Nothing, Settled
  <2>5. /\ Holds(q, "claim")' /\ New(q, "claim")' = row /\ Old(q, "machine")' = Old(q, "machine")
        /\ Holds(q, "machine")' <=> Holds(q, "machine")
        /\ Holds(q, "credential")' <=> Holds(q, "credential")
        /\ New(q, "machine")' = New(q, "machine")
    BY <1>1, <2>1, WriteMine DEF Tables
  <2>6. Transaction(q)'
    BY <1>1, <2>2, <2>3, <2>4, <2>5 DEF Transaction, Registering
  <2>7. QED
    BY <1>1, <2>1, <2>3, <2>6, ConcludeWrites DEF Tables, Outcomes, Open
<1>3. CASE See(q, "claim", Mine(q)).status # "absent"
  BY <1>1, <1>3, Undone DEF InsertClaim, LostRace, Open, Mine
<1>4. QED
  BY <1>2, <1>3
-----------------------------------------------------------------------------
(* decide().                                                               *)
LEMMA TurnKeeps ==
  ASSUME IInv, NEW q \in Requests, Turn(q)
  PROVE  IInv'
<1>1. /\ pc[q] = "queued" /\ call[q].op \in {"accept", "deny"} /\ RequestsTyped /\ LocatedAt(q)
      /\ Mine(q) \in Machines
      /\ Proceed(q, "decide") /\ UNCHANGED <<rows, lapsed, call, before>> /\ call'[q] = call[q]
  BY MineIsWhole DEF Turn, LocatedAt
<1>2. Nothing(q)
  BY <1>1 DEF Nothing, Holds, IInv, Shape, Locked, Open, Tables
<1>3. pc'[q] = "decide" /\ answer'[q] = answer[q] /\ before'[q] = before[q]
  BY <1>1, ProceedIs DEF Statements
<1>4. LocatedAt(q)' /\ Transaction(q)'
  BY <1>1, <1>2, <1>3, SameRows DEF LocatedAt, Transaction
<1>5. QED
  BY <1>1, <1>4, ProceedReads DEF Statements

LEMMA DecideKeeps ==
  ASSUME IInv, NEW q \in Requests, Decide(q)
  PROVE  IInv'
<1>1. /\ pc[q] = "decide" /\ Nothing(q) /\ call[q].op \in {"accept", "deny"} /\ RequestsTyped
      /\ LocatedAt(q) /\ UNCHANGED <<rows, lapsed, call, before>> /\ call'[q] = call[q]
      /\ Mine(q) \in Machines
  BY MineIsWhole DEF Decide, Transaction, LocatedAt
<1>2. Nothing(q)' /\ (AcceptedBy(q)' <=> AcceptedBy(q))
  BY <1>1, SameRows
<1>3. /\ See(q, "machine", Mine(q)) = Old(q, "machine") /\ See(q, "claim", Mine(q)) = Old(q, "claim")
      /\ Old(q, "machine") \in MachineRows /\ Old(q, "claim") \in ClaimRows
  BY <1>1, SeesOld, MineIsWhole DEF Nothing
<1>4. ASSUME NEW o \in {"not-found", "replayed", "denied", "expired"}, Conclude(q, o) PROVE IInv'
  <2>1. pc'[q] = "commit" /\ answer'[q] = o
    BY <1>1, <1>4, ConcludeIs DEF Outcomes
  <2>2. Transaction(q)'
    BY <1>2, <2>1 DEF Transaction
  <2>3. QED
    BY <1>1, <1>4, <2>2, ConcludeReads DEF Outcomes, Open
<1>5. CASE Proceed(q, "accept")
  <2>1. pc'[q] = "accept" /\ answer'[q] = answer[q] /\ before'[q] = before[q]
    BY <1>1, <1>5, ProceedIs DEF Statements
  <2>2. LocatedAt(q)' /\ Transaction(q)'
    BY <1>1, <1>2, <2>1 DEF LocatedAt, Transaction
  <2>3. QED
    BY <1>1, <1>5, <2>2, ProceedReads DEF Statements
<1>6. CASE Old(q, "claim").id = call[q].id /\ Old(q, "claim").status # "pending"
           /\ IF TerminalDecision(q, Old(q, "claim")) = "accepted"
              THEN Proceed(q, "identity") ELSE Conclude(q, TerminalDecision(q, Old(q, "claim")))
  <2> DEFINE o == TerminalDecision(q, Old(q, "claim"))
  <2>1. CASE o = "accepted"
    <3>1. Repeats(q, Old(q, "claim")) /\ Old(q, "claim").status # "denied"
      BY <2>1 DEF TerminalDecision
    <3>2. AcceptedBy(q) /\ call[q].op = "accept"
      BY <1>1, <3>1 DEF Repeats, AcceptedBy
    <3>3. Proceed(q, "identity")
      BY <1>6, <2>1
    <3>4. pc'[q] = "identity" /\ answer'[q] = answer[q] /\ before'[q] = before[q]
      BY <1>1, <3>3, ProceedIs DEF Statements
    <3>5. LocatedAt(q)' /\ Transaction(q)'
      BY <1>1, <1>2, <3>2, <3>4 DEF LocatedAt, Transaction
    <3>6. QED
      BY <1>1, <3>3, <3>5, ProceedReads DEF Statements
  <2>2. CASE o # "accepted"
    <3>1. Repeats(q, Old(q, "claim")) /\ Old(q, "claim").status = "accepted" =>
            Old(q, "machine").owner = call[q].user
      BY <1>1, <1>3, MineIsWhole DEF Repeats, MachineRows
    <3>2. Repeats(q, Old(q, "claim")) => Old(q, "claim").status \in {"accepted", "denied"}
      BY DEF Repeats
    <3>3. o \in {"replayed", "denied"}
      BY <1>3, <2>2, <3>1, <3>2 DEF TerminalDecision
    <3>4. QED
      BY <1>4, <1>6, <2>2, <3>3
  <2>3. QED
    BY <2>1, <2>2
<1>7. QED
  BY <1>3, <1>4, <1>5, <1>6 DEF Decide

(* What a decision writes of the claim.                                    *)
LEMMA DecidedIs ==
  ASSUME IInv, NEW q \in Requests, pc[q] # "idle", Nothing(q), Undecided(q),
         call[q].op # "create", NEW s \in {"accepted", "denied"}
  PROVE  /\ RowTyped("claim", Decided(q, s)) /\ Old(q, "claim").status = "pending"
         /\ Decided(q, s).status = s /\ Decided(q, s).by = call[q].user
<1>1. See(q, "claim", Mine(q)) = Old(q, "claim") /\ Old(q, "claim") \in ClaimRows
  BY SeesOld, MineIsWhole DEF Nothing
<1>2. Old(q, "claim").status = "pending"
  BY <1>1 DEF Undecided
<1>3. Old(q, "claim") \in [status: {"pending", "accepted", "denied"}, id: ClaimIds, token: Tokens,
                           by: Users \cup {Nobody}, key: Keys \cup {NoKey}]
  BY <1>1, <1>2 DEF ClaimRows, NoClaimRow
<1>4. call[q].user \in Users /\ call[q].key \in Keys \cup {NoKey}
  BY MineIsWhole, CallIs
<1>5. QED
  BY <1>1, <1>2, <1>3, <1>4 DEF Decided, RowTyped, ClaimRows

LEMMA DenyClaimKeeps ==
  ASSUME IInv, NEW q \in Requests, DenyClaim(q)
  PROVE  IInv'
<1>1. /\ pc[q] = "accept" /\ Nothing(q) /\ call[q].op = "deny" /\ RequestsTyped
      /\ LocatedAt(q) /\ UNCHANGED <<lapsed, call, before>> /\ call'[q] = call[q]
      /\ Mine(q) \in Machines
  BY MineIsWhole DEF DenyClaim, Transaction, LocatedAt
<1>2. CASE Undecided(q) /\ Write(q, "claim", Mine(q), Decided(q, "denied")) /\ Conclude(q, "denied")
  <2>1. /\ RowTyped("claim", Decided(q, "denied")) /\ Old(q, "claim").status = "pending"
        /\ Decided(q, "denied").status = "denied"
    BY <1>1, <1>2, DecidedIs
  <2>2. /\ Holds(q, "claim")' /\ New(q, "claim")' = Decided(q, "denied")
        /\ Old(q, "claim")' = Old(q, "claim") /\ ~Holds(q, "machine")' /\ ~Holds(q, "credential")'
    BY <1>1, <1>2, WriteMine DEF Tables, Nothing
  <2>3. Deny(q)'
    BY <2>1, <2>2 DEF Deny
  <2>4. pc'[q] = "commit" /\ answer'[q] = "denied"
    BY <1>1, <1>2, ConcludeIs DEF Outcomes
  <2>5. Transaction(q)'
    BY <2>3, <2>4 DEF Transaction
  <2>6. QED
    BY <1>1, <1>2, <2>1, <2>5, ConcludeWrites DEF Tables, Outcomes, Open
<1>3. ASSUME NEW o \in {"denied", "replayed"}, Conclude(q, o), UNCHANGED rows PROVE IInv'
  <2>1. pc'[q] = "commit" /\ answer'[q] = o
    BY <1>1, <1>3, ConcludeIs DEF Outcomes
  <2>2. Transaction(q)'
    BY <1>1, <1>3, <2>1, SameRows DEF Transaction
  <2>3. QED
    BY <1>1, <1>3, <2>2, ConcludeReads DEF Outcomes, Open
<1>4. QED
  BY <1>2, <1>3 DEF DenyClaim

LEMMA AcceptClaimKeeps ==
  ASSUME IInv, NEW q \in Requests, AcceptClaim(q)
  PROVE  IInv'
<1>1. /\ pc[q] = "accept" /\ Nothing(q) /\ call[q].op = "accept" /\ RequestsTyped
      /\ LocatedAt(q) /\ UNCHANGED <<lapsed, call, before>> /\ call'[q] = call[q]
      /\ Mine(q) \in Machines /\ See(q, "claim", Mine(q)) = Old(q, "claim")
  BY MineIsWhole, SeesOld DEF AcceptClaim, Transaction, LocatedAt, Nothing
<1>2. CASE Undecided(q) /\ Write(q, "claim", Mine(q), Decided(q, "accepted")) /\ Proceed(q, "own")
  <2>1. /\ RowTyped("claim", Decided(q, "accepted")) /\ Old(q, "claim").status = "pending"
        /\ Decided(q, "accepted").status = "accepted" /\ Decided(q, "accepted").by = call[q].user
    BY <1>1, <1>2, DecidedIs
  <2>2. /\ Holds(q, "claim")' /\ New(q, "claim")' = Decided(q, "accepted")
        /\ Old(q, "claim")' = Old(q, "claim") /\ ~Holds(q, "machine")' /\ ~Holds(q, "credential")'
    BY <1>1, <1>2, WriteMine DEF Tables, Nothing
  <2>3. TakesClaim(q)'
    BY <1>1, <2>1, <2>2 DEF TakesClaim
  <2>4. pc'[q] = "own" /\ answer'[q] = answer[q] /\ before'[q] = before[q]
    BY <1>1, <1>2, ProceedIs DEF Statements
  <2>5. LocatedAt(q)' /\ Transaction(q)'
    BY <1>1, <2>2, <2>3, <2>4 DEF LocatedAt, Transaction
  <2>6. QED
    BY <1>1, <1>2, <2>1, <2>5, ProceedWrites DEF Tables, Statements, Open
<1>3. CASE Repeats(q, Old(q, "claim")) /\ Proceed(q, "own") /\ UNCHANGED rows
  <2>1. pc'[q] = "own" /\ answer'[q] = answer[q] /\ before'[q] = before[q]
    BY <1>1, <1>3, ProceedIs DEF Statements
  <2>2. AcceptedBy(q)
    BY <1>1, <1>3 DEF Repeats, AcceptedBy
  <2>3. Nothing(q)' /\ AcceptedBy(q)'
    BY <1>1, <1>3, <2>2, SameRows
  <2>4. LocatedAt(q)' /\ Transaction(q)'
    BY <1>1, <2>1, <2>3 DEF LocatedAt, Transaction
  <2>5. QED
    BY <1>1, <1>3, <2>4, ProceedReads DEF Statements
<1>4. CASE Conclude(q, "replayed") /\ UNCHANGED rows
  <2>1. pc'[q] = "commit" /\ answer'[q] = "replayed"
    BY <1>1, <1>4, ConcludeIs DEF Outcomes
  <2>2. Transaction(q)'
    BY <1>1, <1>4, <2>1, SameRows DEF Transaction
  <2>3. QED
    BY <1>1, <1>4, <2>2, ConcludeReads DEF Outcomes, Open
<1>5. QED
  BY <1>1, <1>2, <1>3, <1>4 DEF AcceptClaim

LEMMA AcceptOwnerKeeps ==
  ASSUME IInv, NEW q \in Requests, AcceptOwner(q)
  PROVE  IInv'
<1>1. /\ pc[q] = "own" /\ call[q].op = "accept" /\ call[q].user \in Users /\ RequestsTyped
      /\ LocatedAt(q) /\ UNCHANGED <<lapsed, call, before>> /\ call'[q] = call[q]
      /\ Mine(q) \in Machines
      /\ \/ (TakesClaim(q) /\ ~Holds(q, "machine") /\ ~Holds(q, "credential"))
         \/ (Nothing(q) /\ AcceptedBy(q))
  BY MineIsWhole, CallIs DEF AcceptOwner, Transaction, LocatedAt
<1>2. See(q, "machine", Mine(q)) = Old(q, "machine")
  BY <1>1, SeesOld DEF Nothing
<1>3. Nothing(q) /\ AcceptedBy(q) => Old(q, "machine").state # "pending"
  BY <1>1, MineIsWhole DEF AcceptedBy
<1>4. TakesClaim(q) => Old(q, "machine").state # "active"
  BY <1>1, MineIsWhole DEF TakesClaim
<1>5. CASE Old(q, "machine").state = "pending"
  <2> DEFINE row == [state |-> "active", owner |-> call[q].user, generation |-> 1]
  <2>1. Write(q, "machine", Mine(q), row) /\ Proceed(q, "credential")
    BY <1>2, <1>5 DEF AcceptOwner
  <2>2. pc'[q] = "credential" /\ answer'[q] = answer[q] /\ before'[q] = before[q]
    BY <1>1, <2>1, ProceedIs DEF Statements
  <2>3. RowTyped("machine", row)
    BY <1>1 DEF RowTyped, MachineRows
  <2>4. TakesClaim(q) /\ ~Holds(q, "credential")
    BY <1>1, <1>3, <1>5
  <2>5. /\ Holds(q, "machine")' /\ New(q, "machine")' = row /\ Old(q, "machine")' = Old(q, "machine")
        /\ Holds(q, "claim")' <=> Holds(q, "claim")
        /\ New(q, "claim")' = New(q, "claim") /\ Old(q, "claim")' = Old(q, "claim")
        /\ ~Holds(q, "credential")'
    BY <1>1, <2>1, <2>4, WriteMine DEF Tables
  <2>6. TakesMachine(q)' /\ TakesClaim(q)'
    BY <1>1, <1>5, <2>4, <2>5 DEF TakesMachine, TakesClaim
  <2>7. LocatedAt(q)' /\ Transaction(q)'
    BY <1>1, <2>2, <2>5, <2>6 DEF LocatedAt, Transaction
  <2> HIDE DEF row
  <2>8. QED
    BY <1>1, <2>1, <2>3, <2>7, ProceedWrites DEF Tables, Statements, Open
<1>6. CASE Owned(q, Old(q, "machine")) /\ Proceed(q, "credential") /\ UNCHANGED rows
  <2>1. pc'[q] = "credential" /\ answer'[q] = answer[q] /\ before'[q] = before[q]
    BY <1>1, <1>6, ProceedIs DEF Statements
  <2>2. Nothing(q) /\ AcceptedBy(q)
    BY <1>1, <1>4, <1>6 DEF Owned
  <2>3. Nothing(q)' /\ AcceptedBy(q)'
    BY <1>1, <1>6, <2>2, SameRows
  <2>4. LocatedAt(q)' /\ Transaction(q)'
    BY <1>1, <2>1, <2>3 DEF LocatedAt, Transaction
  <2>5. QED
    BY <1>1, <1>6, <2>4, ProceedReads DEF Statements
<1>7. CASE RollBack(q, "failed")
  BY <1>1, <1>7, Undone DEF Open
<1>8. QED
  BY <1>2, <1>5, <1>6, <1>7 DEF AcceptOwner

LEMMA CreateCredentialKeeps ==
  ASSUME IInv, NEW q \in Requests, CreateCredential(q)
  PROVE  IInv'
<1>1. /\ pc[q] = "credential" /\ call[q].op = "accept" /\ RequestsTyped
      /\ LocatedAt(q) /\ UNCHANGED <<lapsed, call, before>> /\ call'[q] = call[q]
      /\ Mine(q) \in Machines
      /\ \/ (TakesClaim(q) /\ TakesMachine(q) /\ ~Holds(q, "credential"))
         \/ (Nothing(q) /\ AcceptedBy(q))
  BY MineIsWhole DEF CreateCredential, Transaction, LocatedAt
<1>2. See(q, "credential", Mine(q)) = Old(q, "credential")
  BY <1>1, SeesOld DEF Nothing
<1>3. CASE Old(q, "credential").status = "absent"
  <2>1. TakesClaim(q) /\ TakesMachine(q) /\ ~Holds(q, "credential")
    BY <1>1, <1>3, MineIsWhole DEF AcceptedBy, MachineRows
  <2>2. See(q, "claim", Mine(q)) = New(q, "claim") /\ New(q, "claim") \in ClaimRows
    BY <1>1, <2>1, SeesNew, MineIsWhole DEF TakesClaim
  <2> DEFINE row == [status |-> "active", token |-> New(q, "claim").token, generation |-> 1]
  <2>3. Write(q, "credential", Mine(q), row) /\ Proceed(q, "identity")
    BY <1>2, <1>3, <2>2 DEF CreateCredential
  <2>4. RowTyped("credential", row)
    BY <2>2 DEF RowTyped, CredentialRows, ClaimRows, NoClaimRow
  <2>5. pc'[q] = "identity" /\ answer'[q] = answer[q] /\ before'[q] = before[q]
    BY <1>1, <2>3, ProceedIs DEF Statements
  <2>6. /\ Holds(q, "credential")' /\ New(q, "credential")' = row
        /\ Old(q, "machine")' = Old(q, "machine") /\ Old(q, "claim")' = Old(q, "claim")
        /\ Holds(q, "claim")' <=> Holds(q, "claim")
        /\ Holds(q, "machine")' <=> Holds(q, "machine")
        /\ New(q, "claim")' = New(q, "claim") /\ New(q, "machine")' = New(q, "machine")
    BY <1>1, <2>3, WriteMine DEF Tables
  <2>7. Takes(q)'
    BY <1>1, <2>1, <2>6 DEF Takes, TakesClaim, TakesMachine
  <2>8. LocatedAt(q)' /\ Transaction(q)'
    BY <1>1, <2>5, <2>7 DEF LocatedAt, Transaction
  <2> HIDE DEF row
  <2>9. QED
    BY <1>1, <2>3, <2>4, <2>8, ProceedWrites DEF Tables, Statements, Open
<1>4. CASE Old(q, "credential").status # "absent"
  BY <1>1, <1>2, <1>4, Undone DEF CreateCredential, Open
<1>5. QED
  BY <1>3, <1>4
-----------------------------------------------------------------------------
(* deploymentIdentity.get(): q names an identity that is traced, or the one *)
(* it has just written and will commit with the rest.                      *)
WritesIdentity(q) ==
  /\ lock[IdentityRow] \in {NoRequest, q} /\ stored[IdentityRow] = NoRequest
  /\ lock'[IdentityRow] = q /\ draft'[IdentityRow] = q

LEMMA NamedIs ==
  ASSUME IInv, NEW q \in Requests, NEW i \in Requests, pc[q] \in {"identity", "persist"}, Named(q, i),
         UNCHANGED <<lapsed, call, before>>
  PROVE  /\ MemoTyped' /\ RequestsTyped' /\ Only(q) /\ pc'[q] = "commit" /\ answer'[q] = "accepted"
         /\ named'[q] = i /\ \A p \in Requests \ {q} : named'[p] = named[p]
         /\ \A w \in Isolates : identity'[w] \in {identity[w], i}
<1>1. RequestsTyped /\ MemoTyped /\ LocatedAt(q)
  BY TypeSplit DEF IInv, Shape, Located
<1>2. call[q].isolate \in Isolates
  BY <1>1, CallIs DEF LocatedAt
<1>3. RequestsTyped' /\ pc'[q] = "commit" /\ answer'[q] = "accepted" /\ Only(q)
  BY <1>1 DEF Named, Goto, RequestsTyped, Statements, Outcomes, Only
<1>4. identity' \in [Isolates -> Requests \cup {NoRequest}] /\ named' \in [Requests -> Requests \cup {NoRequest}]
  BY <1>1 DEF Named, MemoTyped
<1>5. loading' \in [Isolates -> Requests \cup {NoRequest}]
  BY <1>1 DEF Named, MemoTyped
<1>6. /\ named'[q] = i /\ \A p \in Requests \ {q} : named'[p] = named[p]
      /\ \A w \in Isolates : identity'[w] \in {identity[w], i}
  BY <1>1 DEF Named, MemoTyped
<1>7. QED
  BY <1>3, <1>4, <1>5, <1>6 DEF MemoTyped

LEMMA NamedKeeps ==
  ASSUME IInv, NEW q \in Requests, NEW i \in Requests, pc[q] \in {"identity", "persist"}, Named(q, i),
         UNCHANGED <<lapsed, call, before>>, stored' = stored, DOMAIN draft' = Rows, LockTyped',
         \A t \in Tables, m \in Machines :
           lock'[<<t, m>>] = lock[<<t, m>>] /\ draft'[<<t, m>>] = draft[<<t, m>>],
         \/ (WritesIdentity(q) /\ i = q)
         \/ (Traced(i) /\ lock'[IdentityRow] = lock[IdentityRow] /\ draft'[IdentityRow] = draft[IdentityRow])
  PROVE  IInv'
<1>0. Locked /\ RequestsTyped /\ RowsTyped(stored) /\ RowsTyped(draft) /\ MemoTyped /\ LocatedAt(q)
      /\ Transaction(q)
  BY TypeSplit DEF IInv, Shape, Located, Transactions
<1>1. /\ MemoTyped' /\ RequestsTyped' /\ Only(q) /\ pc'[q] = "commit" /\ answer'[q] = "accepted"
      /\ named'[q] = i /\ \A p \in Requests \ {q} : named'[p] = named[p]
      /\ \A w \in Isolates : identity'[w] \in {identity[w], i}
      /\ call'[q] = call[q] /\ before'[q] = before[q]
  BY NamedIs
<1>2. RowsTyped(stored') /\ RowsTyped(draft')
  BY <1>0 DEF RowsTyped, Tables, WritesIdentity
<1>3. TypeOK'
  BY <1>1, <1>2, TypeSplitNext
<1>4. Whole'
  BY DEF IInv, Shape, Whole, IsFree, IsOwned, IsRevoked
<1>5. Locked'
  <2>1. \A p \in Requests : (Open(p) => Open(p)') /\ Mine(p)' = Mine(p) /\ (pc[p] = "commit" => pc'[p] = "commit")
    BY <1>1 DEF Only, Open, Mine
  <2>2. \A t \in Tables, m \in Machines : \A p \in Requests :
          lock'[<<t, m>>] = p => Open(p)' /\ m = Mine(p)'
    BY <1>0, <2>1 DEF Locked
  <2>3. \A p \in Requests : lock'[IdentityRow] = p =>
          pc'[p] = "commit" /\ draft'[IdentityRow] = p /\ stored'[IdentityRow] = NoRequest
    BY <1>0, <1>1, <2>1 DEF Locked, WritesIdentity
  <2>4. QED
    BY <1>0, <2>2, <2>3 DEF Locked
<1>6. Apart(q) /\ \A m \in Machines : Advances(m)
  BY DEF Apart, Advances
<1>7. LocatedAt(q)'
  BY <1>0, <1>1 DEF LocatedAt
<1>8. Transaction(q)'
  <2>1. Takes(q) \/ (Nothing(q) /\ AcceptedBy(q))
    BY <1>0 DEF Transaction
  <2>2. Mine(q) \in Machines /\ Mine(q)' = Mine(q)
    BY <1>1, MineIsWhole DEF Mine
  <2>3. \A t \in Tables : (Holds(q, t)' <=> Holds(q, t)) /\ Old(q, t)' = Old(q, t) /\ New(q, t)' = New(q, t)
    BY <2>2 DEF Holds, Old, New
  <2>4. Takes(q)' \/ (Nothing(q)' /\ AcceptedBy(q)')
    BY <1>1, <2>1, <2>3 DEF Tables, Takes, TakesClaim, TakesMachine, Nothing, AcceptedBy
  <2>5. QED
    BY <1>1, <2>4 DEF Transaction
<1>9. IdentityInv'
  <2>1. ASSUME NEW j \in Requests, Traced(j) PROVE Traced(j)'
    <3>1. lock[IdentityRow] = j => lock'[IdentityRow] = j
      BY NoRequestIsNone DEF WritesIdentity
    <3>2. pc[q] \notin {"commit", "done"}
      OBVIOUS
    <3>3. QED
      BY <1>1, <2>1, <3>1, <3>2, TraceKept
  <2>2. Traced(i)'
    BY <1>1, <2>1 DEF WritesIdentity, Traced
  <2>3. ASSUME NEW j \in Requests,
               (\E w \in Isolates : identity'[w] = j) \/ (\E p \in Requests : named'[p] = j)
        PROVE  Traced(j)'
    <3>1. CASE j = i
      BY <2>2, <3>1
    <3>2. CASE j # i
      BY <1>1, <2>1, <2>3, <3>2 DEF IInv, IdentityInv
    <3>3. QED
      BY <3>1, <3>2
  <2>4. ASSUME NEW p \in Requests, answer'[p] = "accepted" PROVE named'[p] # NoRequest
    <3>1. CASE p = q
      BY <1>1, <3>1, NoRequestIsNone
    <3>2. CASE p # q
      BY <1>1, <2>4, <3>2 DEF IInv, IdentityInv, Only
    <3>3. QED
      BY <3>1, <3>2
  <2>5. QED
    BY <2>3, <2>4 DEF IdentityInv
<1>10. QED
  BY <1>1, <1>3, <1>4, <1>5, <1>6, <1>7, <1>8, <1>9, StepKeeps

(* An identity that is stored, remembered or told is traced.               *)
LEMMA FindIdentityKeeps ==
  ASSUME IInv, NEW q \in Requests, FindIdentity(q)
  PROVE  IInv'
<1>1. /\ pc[q] = "identity" /\ RequestsTyped /\ LocatedAt(q) /\ Transaction(q)
      /\ UNCHANGED <<rows, lapsed, call, before>> /\ call'[q] = call[q] /\ before'[q] = before[q]
      /\ call[q].isolate \in Isolates
  BY MineIsWhole, CallIs DEF FindIdentity
<1>2. /\ stored' = stored /\ draft' = draft /\ lock' = lock /\ LockTyped' /\ DOMAIN draft' = Rows
      /\ MemoTyped /\ RowsTyped(stored) /\ RowsTyped(draft)
  BY <1>1, TypeSplit DEF rows, IInv, Shape, Locked, LockTyped
<1>3. ASSUME NEW i \in Requests, Named(q, i), Traced(i) PROVE IInv'
  BY <1>1, <1>2, <1>3, NamedKeeps
<1>4. CASE identity[call[q].isolate] # NoRequest /\ Named(q, identity[call[q].isolate])
  <2>1. identity[call[q].isolate] \in Requests
    BY <1>1, <1>2, <1>4 DEF MemoTyped
  <2>2. Traced(identity[call[q].isolate])
    BY <1>1, <2>1 DEF IInv, IdentityInv
  <2>3. QED
    BY <1>3, <1>4, <2>1, <2>2
<1>5. CASE See(q, "identity", Website) # NoRequest /\ Named(q, See(q, "identity", Website))
  <2>1. See(q, "identity", Website) = stored[IdentityRow]
    BY <1>1 DEF See, IdentityRow, IInv, Shape, Locked
  <2>2. stored[IdentityRow] \in Requests /\ Traced(stored[IdentityRow])
    BY <1>2, <1>5, <2>1 DEF RowsTyped, Traced
  <2>3. QED
    BY <1>3, <1>5, <2>1, <2>2
<1>6. CASE /\ loading' = [loading EXCEPT ![call[q].isolate] = q]
           /\ Goto(q, "persist") /\ UNCHANGED <<answer, identity, named>>
  <2>1. pc'[q] = "persist" /\ answer'[q] = answer[q] /\ Only(q) /\ RequestsTyped'
    BY <1>1, <1>6 DEF Goto, RequestsTyped, Only, Statements
  <2>2. MemoTyped'
    BY <1>2, <1>6 DEF MemoTyped
  <2>3. TypeOK'
    BY <1>2, <2>1, <2>2, TypeSplitNext
  <2>4. Whole'
    BY <1>2 DEF IInv, Shape, Whole, IsFree, IsOwned, IsRevoked
  <2>5. Locked'
    <3>1. \A p \in Requests : (Open(p) => Open(p)') /\ Mine(p)' = Mine(p) /\ (pc[p] = "commit" => pc'[p] = "commit")
      BY <1>1, <2>1 DEF Only, Open, Mine
    <3>2. QED
      BY <1>2, <3>1 DEF IInv, Shape, Locked
  <2>6. LocatedAt(q)' /\ Transaction(q)'
    BY <1>1, <2>1, SameRows DEF LocatedAt, Transaction
  <2>7. IdentityInv'
    <3>1. \A i \in Requests : Traced(i) => Traced(i)'
      BY <1>1, <1>2, <2>1, TraceKept
    <3>2. \A p \in Requests : answer'[p] = answer[p]
      BY <2>1 DEF Only
    <3>3. QED
      BY <1>6, <3>1, <3>2 DEF IInv, IdentityInv
  <2>8. Apart(q) /\ \A m \in Machines : Advances(m)
    BY <1>1, ReadsApart
  <2>9. QED
    BY <2>1, <2>3, <2>4, <2>5, <2>6, <2>7, <2>8, StepKeeps
<1>7. QED
  BY <1>4, <1>5, <1>6 DEF FindIdentity

LEMMA CreateIdentityKeeps ==
  ASSUME IInv, NEW q \in Requests, CreateIdentity(q)
  PROVE  IInv'
<1>1. /\ pc[q] = "persist" /\ UNCHANGED <<lapsed, call, before>>
      /\ Locked /\ LockTyped /\ RowsTyped(stored)
  BY TypeSplit DEF CreateIdentity, IInv, Shape
<1>2. See(q, "identity", Website) = stored[IdentityRow]
  BY <1>1 DEF See, IdentityRow, Locked
<1>3. CASE stored[IdentityRow] = NoRequest
  <2>1. Write(q, "identity", Website, q) /\ Named(q, q)
    BY <1>2, <1>3 DEF CreateIdentity
  <2>2. /\ stored' = stored /\ DOMAIN draft' = Rows /\ LockTyped' /\ WritesIdentity(q)
        /\ \A r \in Rows : r # IdentityRow => lock'[r] = lock[r] /\ draft'[r] = draft[r]
    BY <1>1, <1>3, <2>1, RowsDiffer DEF Write, Free, IdentityRow, Locked, LockTyped, WritesIdentity
  <2>3. QED
    BY <1>1, <2>1, <2>2, RowsDiffer, NamedKeeps
<1>4. CASE stored[IdentityRow] # NoRequest
  <2>1. UNCHANGED rows /\ Named(q, stored[IdentityRow])
    BY <1>2, <1>4 DEF CreateIdentity
  <2>2. stored[IdentityRow] \in Requests /\ Traced(stored[IdentityRow])
    BY <1>1, <1>4 DEF RowsTyped, Traced
  <2>3. stored' = stored /\ draft' = draft /\ lock' = lock /\ LockTyped' /\ DOMAIN draft' = Rows
    BY <1>1, <2>1 DEF rows, Locked, LockTyped
  <2>4. QED
    BY <1>1, <2>1, <2>2, <2>3, NamedKeeps
<1>5. QED
  BY <1>3, <1>4
-----------------------------------------------------------------------------
(* rename() and revoke().                                                  *)
LEMMA RenameKeeps ==
  ASSUME IInv, NEW q \in Requests, Rename(q)
  PROVE  IInv'
<1>1. /\ pc[q] = "rename" /\ Nothing(q) /\ call[q].op = "rename" /\ RequestsTyped
      /\ LocatedAt(q) /\ UNCHANGED <<lapsed, call, before>> /\ call'[q] = call[q]
      /\ Old(q, "machine") \in MachineRows
  BY MineIsWhole DEF Rename, Transaction, LocatedAt
<1>2. See(q, "machine", Mine(q)) = Old(q, "machine")
  BY <1>1, SeesOld DEF Nothing
<1>3. CASE Write(q, "machine", Mine(q), Old(q, "machine")) /\ Conclude(q, "renamed")
  <2>1. /\ Holds(q, "machine")' /\ New(q, "machine")' = Old(q, "machine")
        /\ Old(q, "machine")' = Old(q, "machine") /\ ~Holds(q, "claim")' /\ ~Holds(q, "credential")'
    BY <1>1, <1>3, WriteMine DEF Tables, Nothing
  <2>2. Renames(q)'
    BY <2>1 DEF Renames
  <2>3. pc'[q] = "commit" /\ answer'[q] = "renamed"
    BY <1>1, <1>3, ConcludeIs DEF Outcomes
  <2>4. Transaction(q)'
    BY <2>2, <2>3 DEF Transaction
  <2>5. RowTyped("machine", Old(q, "machine"))
    BY <1>1 DEF RowTyped
  <2>6. QED
    BY <1>1, <1>3, <2>4, <2>5, ConcludeWrites DEF Tables, Outcomes, Open
<1>4. CASE Conclude(q, "not-found") /\ UNCHANGED rows
  <2>1. pc'[q] = "commit" /\ answer'[q] = "not-found"
    BY <1>1, <1>4, ConcludeIs DEF Outcomes
  <2>2. Transaction(q)'
    BY <1>1, <1>4, <2>1, SameRows DEF Transaction
  <2>3. QED
    BY <1>1, <1>4, <2>2, ConcludeReads DEF Outcomes, Open
<1>5. QED
  BY <1>2, <1>3, <1>4 DEF Rename

LEMMA FindOwnedKeeps ==
  ASSUME IInv, NEW q \in Requests, FindOwned(q)
  PROVE  IInv'
<1>1. /\ pc[q] = "revoke" /\ Nothing(q) /\ call[q].op = "revoke" /\ RequestsTyped
      /\ call[q].user \in Users
      /\ LocatedAt(q) /\ UNCHANGED <<rows, lapsed, call>> /\ call'[q] = call[q] /\ before[q] = 0
      /\ Old(q, "machine") \in MachineRows
  BY MineIsWhole, CallIs DEF FindOwned, Transaction, LocatedAt
<1>2. See(q, "machine", Mine(q)) = Old(q, "machine")
  BY <1>1, SeesOld DEF Nothing
<1>3. Nothing(q)' /\ (Owner(q)' <=> Owner(q)) /\ Old(q, "machine")' = Old(q, "machine")
  BY <1>1, SameRows
<1>4. Old(q, "machine").owner = call[q].user => Owner(q)
  BY <1>1, MineIsWhole, ClaimsAssumption DEF Owner, Settled, MachineRows
<1>5. ASSUME NEW o \in {"not-found", "revoked"}, Conclude(q, o), UNCHANGED before,
             o = "revoked" => Owner(q) /\ Old(q, "machine").state = "revoked"
      PROVE  IInv'
  <2>1. pc'[q] = "commit" /\ answer'[q] = o /\ before'[q] = before[q]
    BY <1>1, <1>5, ConcludeIs DEF Outcomes
  <2>2. Transaction(q)'
    BY <1>3, <1>5, <2>1 DEF Transaction
  <2>3. QED
    BY <1>1, <1>5, <2>2, ConcludeReads DEF Outcomes, Open
<1>6. CASE /\ Old(q, "machine").owner = call[q].user
           /\ before' = [before EXCEPT ![q] = Old(q, "machine").generation]
           /\ UNCHANGED <<pc, answer, memo>>
  <2>1. RequestsTyped' /\ Only(q) /\ pc'[q] = "revoke" /\ answer'[q] = answer[q]
    BY <1>1, <1>6 DEF RequestsTyped, Only, MachineRows
  <2>2. LocatedAt(q)' /\ Transaction(q)'
    BY <1>1, <1>3, <1>4, <1>6, <2>1 DEF LocatedAt, Transaction
  <2>3. answer'[q] # "accepted" /\ Open(q)'
    BY <1>1, <2>1 DEF LocatedAt, Open
  <2>4. QED
    BY <1>1, <1>6, <2>1, <2>2, <2>3, Reads
<1>7. QED
  BY <1>2, <1>4, <1>5, <1>6 DEF FindOwned

LEMMA RevokedRow ==
  ASSUME NEW r \in MachineRows, r.generation = 1
  PROVE  LET row == [r EXCEPT !.state = "revoked", !.generation = @ + 1] IN
         row.state = "revoked" /\ row.owner = r.owner /\ row \in MachineRows
<1>1. r.generation + 1 \in 0..2
  OBVIOUS
<1>2. ASSUME NEW g \in 0..2
      PROVE  LET row == [r EXCEPT !.state = "revoked", !.generation = g] IN
             row.state = "revoked" /\ row.owner = r.owner /\ row \in MachineRows
  BY DEF MachineRows
<1>3. QED
  BY <1>1, <1>2

LEMMA RevokeOwnedKeeps ==
  ASSUME IInv, NEW q \in Requests, RevokeOwned(q)
  PROVE  IInv'
<1>1. /\ pc[q] = "revoke" /\ Nothing(q) /\ call[q].op = "revoke" /\ RequestsTyped
      /\ LocatedAt(q) /\ UNCHANGED <<lapsed, call, before>> /\ call'[q] = call[q] /\ before[q] # 0
      /\ Owner(q) /\ Old(q, "machine") \in MachineRows /\ Proceed(q, "fence")
  BY MineIsWhole DEF RevokeOwned, Transaction, LocatedAt
<1>2. See(q, "machine", Mine(q)) = Old(q, "machine")
  BY <1>1, SeesOld DEF Nothing
<1>3. pc'[q] = "fence" /\ answer'[q] = answer[q] /\ before'[q] = before[q]
  BY <1>1, ProceedIs DEF Statements
<1>4. LocatedAt(q)'
  BY <1>1, <1>3 DEF LocatedAt
<1>5. CASE Old(q, "machine").state = "active"
  <2> DEFINE row == [Old(q, "machine") EXCEPT !.state = "revoked", !.generation = @ + 1]
  <2>1. Write(q, "machine", Mine(q), row)
    BY <1>1, <1>2, <1>5 DEF RevokeOwned, Owner
  <2>2. Old(q, "machine").generation = 1
    BY <1>1, <1>5, MineIsWhole
  <2>3. row.state = "revoked" /\ row.owner = Old(q, "machine").owner /\ RowTyped("machine", row)
    BY <1>1, <2>2, RevokedRow DEF RowTyped
  <2> HIDE DEF row
  <2>4. /\ Holds(q, "machine")' /\ New(q, "machine")' = row
        /\ Old(q, "machine")' = Old(q, "machine") /\ ~Holds(q, "claim")' /\ ~Holds(q, "credential")'
    BY <1>1, <2>1, WriteMine DEF Tables, Nothing
  <2>5. Withdraws(q)' /\ Owner(q)'
    BY <1>1, <1>5, <2>3, <2>4 DEF Withdraws, Owner, Settled
  <2>6. Transaction(q)'
    BY <1>1, <1>3, <2>4, <2>5 DEF Transaction
  <2>7. QED
    BY <1>1, <1>4, <2>1, <2>3, <2>6, ProceedWrites DEF Tables, Statements, Open
<1>6. CASE Old(q, "machine").state # "active"
  <2>1. UNCHANGED rows
    BY <1>2, <1>6 DEF RevokeOwned
  <2>2. Transaction(q)'
    BY <1>1, <1>3, <2>1, SameRows DEF Transaction
  <2>3. QED
    BY <1>1, <1>4, <2>1, <2>2, ProceedReads DEF Statements
<1>7. QED
  BY <1>5, <1>6

LEMMA FenceCredentialKeeps ==
  ASSUME IInv, NEW q \in Requests, FenceCredential(q)
  PROVE  IInv'
<1>1. /\ pc[q] = "fence" /\ call[q].op = "revoke" /\ RequestsTyped
      /\ LocatedAt(q) /\ UNCHANGED <<lapsed, call, before>> /\ call'[q] = call[q]
      /\ Owner(q)
      /\ Nothing(q) \/ (Withdraws(q) /\ ~Holds(q, "credential"))
      /\ Old(q, "credential") \in CredentialRows /\ Old(q, "machine") \in MachineRows
  BY MineIsWhole DEF FenceCredential, Transaction, LocatedAt
<1>2. See(q, "credential", Mine(q)) = Old(q, "credential")
  BY <1>1, SeesOld DEF Nothing
<1>3. CASE RollBack(q, "failed")
  BY <1>1, <1>3, Undone DEF Open
<1>4. CASE /\ See(q, "machine", Mine(q)).state = "revoked"
           /\ See(q, "machine", Mine(q)).generation = before[q] + 1
           /\ Conclude(q, "revoked")
  <2>1. pc'[q] = "commit" /\ answer'[q] = "revoked" /\ before'[q] = before[q]
    BY <1>1, <1>4, ConcludeIs DEF Outcomes
  <2>2. Nothing(q) => Old(q, "machine").state = "revoked"
    BY <1>4, SeesOld DEF Nothing
  <2>3. CASE Old(q, "credential").status = "active"
    <3> DEFINE row == [Old(q, "credential") EXCEPT !.status = "revoked"]
    <3>1. Write(q, "credential", Mine(q), row)
      BY <1>2, <1>4, <2>3 DEF FenceCredential
    <3>2. row.status = "revoked" /\ RowTyped("credential", row)
      BY <1>1 DEF CredentialRows, RowTyped
    <3> HIDE DEF row
    <3>3. Withdraws(q)
      BY <1>1, <2>2, <2>3, MineIsWhole
    <3>4. /\ Holds(q, "credential")' /\ New(q, "credential")' = row
          /\ Old(q, "machine")' = Old(q, "machine") /\ New(q, "machine")' = New(q, "machine")
          /\ Holds(q, "claim")' <=> Holds(q, "claim")
          /\ Holds(q, "machine")' <=> Holds(q, "machine")
      BY <1>1, <3>1, WriteMine DEF Tables
    <3>5. Revokes(q)' /\ Owner(q)'
      BY <1>1, <3>2, <3>3, <3>4 DEF Revokes, Withdraws, Owner, Settled
    <3>6. Transaction(q)'
      BY <2>1, <3>5 DEF Transaction
    <3>7. QED
      BY <1>1, <1>4, <3>1, <3>2, <3>6, ConcludeWrites DEF Tables, Outcomes, Open
  <2>4. CASE Old(q, "credential").status # "active"
    <3>1. UNCHANGED rows
      BY <1>2, <1>4, <2>4 DEF FenceCredential
    <3>2. Nothing(q)
      BY <1>1, <2>4, MineIsWhole DEF Withdraws
    <3>3. Nothing(q)' /\ Owner(q)' /\ Old(q, "machine")'.state = "revoked"
      BY <1>1, <2>2, <3>1, <3>2, SameRows
    <3>4. Transaction(q)'
      BY <2>1, <3>3 DEF Transaction
    <3>5. QED
      BY <1>1, <1>4, <3>1, <3>4, ConcludeReads DEF Outcomes, Open
  <2>5. QED
    BY <2>3, <2>4
<1>5. QED
  BY <1>3, <1>4 DEF FenceCredential
-----------------------------------------------------------------------------
(* The invariant holds in the beginning and is kept by every step.         *)
LEMMA IInvInit == Init => IInv
<1> SUFFICES ASSUME Init PROVE IInv
  OBVIOUS
<1>1. /\ DOMAIN stored = Rows /\ draft = stored
      /\ \A r \in Rows : lock[r] = NoRequest
      /\ stored[IdentityRow] = NoRequest
  <2>1. IdentityRow \in Rows /\ IdentityRow[1] = "identity"
    BY RowsDiffer DEF IdentityRow
  <2>2. stored[IdentityRow] = NoRequest
    BY <2>1 DEF Init
  <2>3. QED
    BY <2>2 DEF Init
<1>2. \A m \in Machines : /\ stored[<<"machine", m>>] = NoMachine
                          /\ stored[<<"claim", m>>] = NoClaimRow
                          /\ stored[<<"credential", m>>] = NoCredential
  <2>1. ASSUME NEW m \in Machines, NEW t \in Tables
        PROVE  <<t, m>> \in Rows /\ <<t, m>> # IdentityRow /\ <<t, m>>[1] = t
    BY RowsDiffer
  <2>2. QED
    BY <2>1 DEF Init, Tables
<1>3. RowsTyped(stored) /\ RowsTyped(draft)
  <2>1. NoMachine \in MachineRows /\ NoClaimRow \in ClaimRows /\ NoCredential \in CredentialRows
    BY DEF NoMachine, MachineRows, ClaimRows, NoCredential, CredentialRows
  <2>2. QED
    BY <1>1, <1>2, <2>1 DEF RowsTyped
<1>4. LockTyped /\ RequestsTyped /\ MemoTyped
  BY DEF Init, LockTyped, RequestsTyped, MemoTyped, Statements, Outcomes
<1>5. TypeOK
  BY <1>3, <1>4, TypeSplit
<1>6. Whole
  <2>1. /\ NoMachine.state = "absent" /\ NoMachine.owner = Nobody
        /\ NoClaimRow.status = "absent" /\ NoCredential.status = "absent"
    BY DEF NoMachine, NoClaimRow, NoCredential
  <2>2. \A m \in Machines : IsFree(m)
    BY <1>2, <2>1 DEF IsFree
  <2>3. QED
    BY <2>2 DEF Whole
<1>7. Locked
  BY <1>1, RowsDiffer, NoRequestIsNone DEF Locked
<1>8. Located /\ Transactions
  BY DEF Init, Located, LocatedAt, Transactions, Transaction
<1>9. IdentityInv
  BY NoRequestIsNone DEF Init, IdentityInv
<1>10. QED
  BY <1>5, <1>6, <1>7, <1>8, <1>9 DEF IInv, Shape

LEMMA StatementKeeps ==
  ASSUME IInv, NEW q \in Requests, Statement(q)
  PROVE  IInv'
<1>1. CASE FindClaim(q) \/ Register(q) \/ RefreshPending(q) \/ DeletePending(q)
           \/ InsertMachine(q) \/ InsertClaim(q)
  BY <1>1, FindClaimKeeps, RegisterKeeps, RefreshPendingKeeps, DeletePendingKeeps,
     InsertMachineKeeps, InsertClaimKeeps
<1>2. CASE Turn(q) \/ Decide(q) \/ DenyClaim(q) \/ AcceptClaim(q) \/ AcceptOwner(q) \/ CreateCredential(q)
  BY <1>2, TurnKeeps, DecideKeeps, DenyClaimKeeps, AcceptClaimKeeps, AcceptOwnerKeeps, CreateCredentialKeeps
<1>3. CASE FindIdentity(q) \/ CreateIdentity(q)
  BY <1>3, FindIdentityKeeps, CreateIdentityKeeps
<1>4. CASE Rename(q) \/ FindOwned(q) \/ RevokeOwned(q) \/ FenceCredential(q)
  BY <1>4, RenameKeeps, FindOwnedKeeps, RevokeOwnedKeeps, FenceCredentialKeeps
<1>5. CASE Commit(q)
  BY <1>5, Committed
<1>6. QED
  BY <1>1, <1>2, <1>3, <1>4, <1>5 DEF Statement

(* A transaction that waits for another is open.                           *)
LEMMA VictimIsOpen ==
  ASSUME NEW q \in Requests, DeadlockVictim(q)
  PROVE  Open(q) /\ RollBack(q, "failed") /\ UNCHANGED <<lapsed, call, before>>
BY DEF DeadlockVictim, WaitsFor

LEMMA IInvStep == IInv /\ [Next]_vars => IInv'
<1> SUFFICES ASSUME IInv, [Next]_vars PROVE IInv'
  OBVIOUS
<1>1. ASSUME NEW q \in Requests, Statement(q) PROVE IInv'
  BY <1>1, StatementKeeps
<1>2. ASSUME NEW q \in Requests, Fails(q) PROVE IInv'
  BY <1>2, Undone DEF Fails
<1>3. ASSUME NEW q \in Requests, DeadlockVictim(q) PROVE IInv'
  BY <1>3, VictimIsOpen, Undone
<1>4. ASSUME NEW q \in Requests, Request(q) PROVE IInv'
  BY <1>4, RequestKeeps
<1>5. ASSUME NEW m \in Machines, Lapse(m) PROVE IInv'
  BY <1>5, Lapses
<1>6. CASE UNCHANGED vars
  <2>1. /\ stored' = stored /\ draft' = draft /\ lock' = lock /\ lapsed' = lapsed
        /\ identity' = identity /\ loading' = loading /\ named' = named
        /\ call' = call /\ pc' = pc /\ before' = before /\ answer' = answer
    BY <1>6 DEF vars
  <2>2. TypeOK' /\ Whole' /\ Locked' /\ Located'
    BY <2>1 DEF IInv, Shape, TypeOK, Whole, IsFree, IsOwned, IsRevoked, Locked, Open, Mine, Located, LocatedAt
  <2>3. IdentityInv'
    BY <2>1 DEF IInv, IdentityInv, Traced
  <2>4. ASSUME NEW q \in Requests PROVE Transaction(q)'
    <3>1. Transaction(q)
      BY DEF IInv, Transactions
    <3>2. /\ Mine(q)' = Mine(q)
          /\ \A t \in Tables : /\ Holds(q, t)' <=> Holds(q, t)
                               /\ Old(q, t)' = Old(q, t) /\ New(q, t)' = New(q, t)
      BY <2>1 DEF Mine, Holds, Old, New
    <3>3. /\ Nothing(q)' <=> Nothing(q)
          /\ Registering(q)' <=> Registering(q)
          /\ Deny(q)' <=> Deny(q)
          /\ TakesClaim(q)' <=> TakesClaim(q)
          /\ TakesMachine(q)' <=> TakesMachine(q)
      BY <2>1, <3>2 DEF Nothing, Registering, Deny, TakesClaim, TakesMachine, Tables
    <3>4. /\ Takes(q)' <=> Takes(q)
          /\ Renames(q)' <=> Renames(q)
          /\ Withdraws(q)' <=> Withdraws(q)
          /\ Revokes(q)' <=> Revokes(q)
      BY <2>1, <3>2, <3>3 DEF Takes, Renames, Withdraws, Revokes, Tables
    <3>5. /\ Known(q)' <=> Known(q)
          /\ Settled(q)' <=> Settled(q)
          /\ AcceptedBy(q)' <=> AcceptedBy(q)
          /\ Owner(q)' <=> Owner(q)
          /\ Old(q, "machine")' = Old(q, "machine")
      BY <2>1, <3>2 DEF Known, Settled, AcceptedBy, Owner, Tables
    <3>6. ~Holds(q, "credential")' <=> ~Holds(q, "credential")
      BY <3>2 DEF Tables
    <3>7. /\ ~Holds(q, "machine")' <=> ~Holds(q, "machine")
          /\ ~Holds(q, "claim")' <=> ~Holds(q, "claim")
      BY <3>2 DEF Tables
    <3>8. pc'[q] = pc[q] /\ answer'[q] = answer[q] /\ before'[q] = before[q]
      BY <2>1
    <3>9. QED
      BY <3>1, <3>3, <3>4, <3>5, <3>6, <3>7, <3>8, ZenonT(40) DEF Transaction
  <2>5. QED
    BY <2>2, <2>3, <2>4 DEF IInv, Shape, Transactions
<1>7. QED
  BY <1>1, <1>2, <1>3, <1>4, <1>5, <1>6 DEF Next

(* The variables of ExecutorClaims have their types.                       *)
THEOREM TypeCorrect == Spec => []TypeOK
<1>1. IInv => TypeOK
  BY DEF IInv, Shape
<1>2. QED
  BY <1>1, IInvInit, IInvStep, PTL DEF Spec

(* Processes and requests that need the deployment's identity at once end  *)
(* up with the one that is stored, but for one that was made up in a       *)
(* transaction that failed.                                                *)
THEOREM IdentityIsOne == Spec => []IdentityAgrees
<1>1. IInv => IdentityAgrees
  <2> SUFFICES ASSUME IInv, NEW q \in Requests, pc[q] = "done", answer[q] = "accepted"
               PROVE  \/ named[q] = stored[IdentityRow]
                      \/ pc[named[q]] # "done" \/ answer[named[q]] = "failed"
    BY DEF IdentityAgrees
  <2>1. named[q] \in Requests
    BY TypeSplit DEF IInv, Shape, MemoTyped, IdentityInv
  <2>2. Traced(named[q])
    BY <2>1 DEF IInv, IdentityInv
  <2>3. QED
    BY <2>2 DEF Traced
<1>2. QED
  BY <1>1, IInvInit, IInvStep, PTL DEF Spec
-----------------------------------------------------------------------------
(* Ownership. A step is one of three: nobody is told anything and nothing  *)
(* is committed, a transaction is rolled back, or one is committed.        *)
Quiet ==
  /\ stored' = stored /\ call' = call
  /\ \A p \in Requests : pc[p] = "done" \/ pc'[p] = "done" =>
       pc'[p] = pc[p] /\ answer'[p] = answer[p]

GivesUp(q) == Open(q) /\ UNCHANGED call /\ \E o \in {"failed", "conflict"} : RollBack(q, o)

LEMMA ProceedsQuietly ==
  ASSUME RequestsTyped, NEW q \in Requests, NEW l \in Statements \ {"done"}, Proceed(q, l),
         call' = call, stored' = stored, pc[q] # "done"
  PROVE  Quiet
BY DEF Quiet, Proceed, Goto, RequestsTyped

LEMMA ConcludesQuietly ==
  ASSUME RequestsTyped, NEW q \in Requests, NEW o, Conclude(q, o),
         call' = call, stored' = stored, pc[q] # "done"
  PROVE  Quiet
BY DEF Quiet, Conclude, Goto, RequestsTyped

LEMMA NamesQuietly ==
  ASSUME RequestsTyped, NEW q \in Requests, NEW i, Named(q, i),
         call' = call, stored' = stored, pc[q] # "done"
  PROVE  Quiet
BY DEF Quiet, Named, Goto, RequestsTyped

LEMMA StatementIs ==
  ASSUME IInv, NEW q \in Requests, Statement(q)
  PROVE  Quiet \/ GivesUp(q) \/ Commit(q)
<1>1. RequestsTyped
  BY TypeSplit DEF IInv, Shape
<1> DEFINE Goes == \E l \in Statements \ {"done"} : Proceed(q, l)
<1> DEFINE Ends == \E o \in Outcomes : Conclude(q, o)
<1> DEFINE Names == \E i : Named(q, i)
<1>2. ASSUME Goes \/ Ends \/ Names, stored' = stored, call' = call, pc[q] # "done" PROVE Quiet
  BY <1>1, <1>2, ProceedsQuietly, ConcludesQuietly, NamesQuietly
<1>3. (\E l \in {"register", "insert", "refresh", "replace", "claim", "decide", "accept", "identity",
                 "own", "credential", "fence"} : Proceed(q, l)) => Goes
  BY DEF Statements
<1>4. (\E o \in {"retry", "conflict", "created", "not-found", "expired", "denied", "replayed", "failed",
                 "renamed", "revoked"} : Conclude(q, o)) => Ends
  BY DEF Outcomes
<1> HIDE DEF Goes, Ends
<1>5. CASE FindClaim(q) \/ Register(q)
  BY <1>2, <1>3, <1>4, <1>5 DEF FindClaim, Register, rows
<1>6. CASE RefreshPending(q) \/ DeletePending(q)
  <2>1. stored' = stored /\ call' = call /\ pc[q] # "done" /\ Goes
    BY <1>3, <1>6 DEF RefreshPending, DeletePending, Write, rows
  <2>2. QED
    BY <1>2, <2>1
<1>7. CASE InsertMachine(q)
  <2>1. CASE LostRace(q)
    BY <1>7, <2>1 DEF InsertMachine, LostRace, GivesUp, Open
  <2>2. CASE ~LostRace(q)
    BY <1>2, <1>3, <1>7, <2>2 DEF InsertMachine, Write
  <2>3. QED
    BY <2>1, <2>2
<1>8. CASE InsertClaim(q)
  <2>1. CASE LostRace(q)
    BY <1>8, <2>1 DEF InsertClaim, LostRace, GivesUp, Open
  <2>2. CASE ~LostRace(q)
    BY <1>2, <1>4, <1>8, <2>2 DEF InsertClaim, Write
  <2>3. QED
    BY <2>1, <2>2
<1>9. CASE Turn(q)
  BY <1>2, <1>3, <1>9 DEF Turn, rows
<1>10. CASE Decide(q)
  <2>1. \A c : TerminalDecision(q, c) \in {"replayed", "denied", "failed", "accepted"}
    BY DEF TerminalDecision
  <2>2. stored' = stored /\ call' = call /\ pc[q] # "done" /\ (Goes \/ Ends)
    BY <1>3, <1>4, <1>10, <2>1 DEF Decide, rows
  <2>3. QED
    BY <1>2, <2>2
<1>11. CASE DenyClaim(q)
  <2>1. stored' = stored /\ call' = call /\ pc[q] # "done" /\ Ends
    BY <1>4, <1>11 DEF DenyClaim, Write, rows
  <2>2. QED
    BY <1>2, <2>1
<1>12. CASE AcceptClaim(q)
  <2>1. stored' = stored /\ call' = call /\ pc[q] # "done" /\ (Goes \/ Ends)
    BY <1>3, <1>4, <1>12 DEF AcceptClaim, Write, rows
  <2>2. QED
    BY <1>2, <2>1
<1>13. CASE AcceptOwner(q)
  <2>1. CASE RollBack(q, "failed")
    BY <1>13, <2>1 DEF AcceptOwner, GivesUp, Open
  <2>2. CASE ~RollBack(q, "failed")
    <3>1. stored' = stored /\ call' = call /\ pc[q] # "done" /\ Goes
      BY <1>3, <1>13, <2>2 DEF AcceptOwner, Write, rows
    <3>2. QED
      BY <1>2, <3>1
  <2>3. QED
    BY <2>1, <2>2
<1>14. CASE CreateCredential(q)
  <2>1. CASE RollBack(q, "failed")
    BY <1>14, <2>1 DEF CreateCredential, GivesUp, Open
  <2>2. CASE ~RollBack(q, "failed")
    <3>1. stored' = stored /\ call' = call /\ pc[q] # "done" /\ Goes
      BY <1>3, <1>14, <2>2 DEF CreateCredential, Write
    <3>2. QED
      BY <1>2, <3>1
  <2>3. QED
    BY <2>1, <2>2
<1>15. CASE FindIdentity(q)
  <2>1. CASE Names
    BY <1>2, <1>15, <2>1 DEF FindIdentity, rows
  <2>2. CASE ~Names
    BY <1>1, <1>15, <2>2 DEF FindIdentity, rows, Quiet, Goto, RequestsTyped
  <2>3. QED
    BY <2>1, <2>2
<1>16. CASE CreateIdentity(q)
  <2>1. stored' = stored /\ call' = call /\ pc[q] # "done" /\ Names
    BY <1>16 DEF CreateIdentity, Write, rows
  <2>2. QED
    BY <1>2, <2>1
<1>17. CASE Rename(q)
  <2>1. stored' = stored /\ call' = call /\ pc[q] # "done" /\ Ends
    BY <1>4, <1>17 DEF Rename, Write, rows
  <2>2. QED
    BY <1>2, <2>1
<1>18. CASE FindOwned(q)
  <2>1. CASE Ends
    BY <1>2, <1>18, <2>1 DEF FindOwned, rows
  <2>2. CASE ~Ends
    BY <1>4, <1>18, <2>2 DEF FindOwned, rows, Quiet
  <2>3. QED
    BY <2>1, <2>2
<1>19. CASE RevokeOwned(q)
  <2>1. stored' = stored /\ call' = call /\ pc[q] # "done" /\ Goes
    BY <1>3, <1>19 DEF RevokeOwned, Write, rows
  <2>2. QED
    BY <1>2, <2>1
<1>20. CASE FenceCredential(q)
  <2>1. CASE RollBack(q, "failed")
    BY <1>20, <2>1 DEF FenceCredential, GivesUp, Open
  <2>2. CASE ~RollBack(q, "failed")
    <3>1. stored' = stored /\ call' = call /\ pc[q] # "done" /\ Ends
      BY <1>4, <1>20, <2>2 DEF FenceCredential, Write, rows
    <3>2. QED
      BY <1>2, <3>1
  <2>3. QED
    BY <2>1, <2>2
<1>21. CASE Commit(q)
  BY <1>21
<1> HIDE DEF Names
<1>22. QED
  BY <1>5, <1>6, <1>7, <1>8, <1>9, <1>10, <1>11, <1>12, <1>13, <1>14, <1>15, <1>16, <1>17, <1>18, <1>19,
     <1>20, <1>21 DEF Statement

LEMMA StepIs ==
  ASSUME IInv, [Next]_vars
  PROVE  Quiet \/ \E q \in Requests : GivesUp(q) \/ Commit(q)
<1>1. RequestsTyped
  BY TypeSplit DEF IInv, Shape
<1>2. ASSUME NEW q \in Requests, Statement(q) PROVE Quiet \/ GivesUp(q) \/ Commit(q)
  BY <1>2, StatementIs
<1>3. ASSUME NEW q \in Requests, Fails(q) PROVE GivesUp(q)
  BY <1>3 DEF Fails, GivesUp
<1>4. ASSUME NEW q \in Requests, DeadlockVictim(q) PROVE GivesUp(q)
  BY <1>4, VictimIsOpen DEF GivesUp
<1>5. ASSUME NEW q \in Requests, Request(q) PROVE Quiet
  <2>1. FirstStatement(call[q]) \in Statements \ {"done"}
    BY <1>1, <1>5, CallIs DEF Request, FirstStatement, Statements
  <2>2. QED
    BY <1>1, <1>5, <2>1, ProceedsQuietly DEF Request, rows
<1>6. ASSUME NEW m \in Machines, Lapse(m) PROVE Quiet
  BY <1>6 DEF Lapse, rows, Quiet
<1>7. CASE UNCHANGED vars
  BY <1>7 DEF vars, Quiet
<1>8. QED
  BY <1>2, <1>3, <1>4, <1>5, <1>6, <1>7 DEF Next

(* The refinement mapping: Ownership(m), the owner, and what was told.     *)
Status == [m \in Machines |-> Ownership(m)]
OwnerOf == [m \in Machines |-> stored[<<"machine", m>>].owner]

Answered(q) ==
  IF pc[q] # "done" THEN [what |-> "nothing", machine |-> Nobody, user |-> Nobody]
  ELSE [what |-> IF answer[q] \in {"accepted", "revoked"} THEN answer[q] ELSE "other",
        machine |-> Mine(q), user |-> call[q].user]

ToldTo == [q \in Requests |-> Answered(q)]

LEMMA CredentialIs ==
  ASSUME NEW c \in CredentialRows, NEW token,
         c.status = "active", c.token = token, c.generation = 1
  PROVE  c = [status |-> "active", token |-> token, generation |-> 1]
BY DEF CredentialRows

LEMMA OwnershipIs ==
  ASSUME RowsTyped(stored), NEW m \in Machines
  PROVE  /\ IsFree(m) => Ownership(m) = "free" /\ stored[<<"machine", m>>].owner = Nobody
         /\ IsOwned(m) => Ownership(m) = "owned"
         /\ IsRevoked(m) => Ownership(m) = "revoked"
<1>1. stored[<<"credential", m>>] \in CredentialRows
  BY DEF RowsTyped
<1>2. CASE IsFree(m)
  BY <1>2 DEF IsFree, Ownership, IsOwned, IsRevoked
<1>3. CASE IsOwned(m)
  <2>1. stored[<<"credential", m>>] =
          [status |-> "active", token |-> stored[<<"claim", m>>].token, generation |-> 1]
    BY <1>1, <1>3, CredentialIs DEF IsOwned
  <2>2. QED
    BY <1>3, <2>1 DEF IsFree, Ownership, IsOwned, IsRevoked
<1>4. CASE IsRevoked(m)
  BY <1>4 DEF IsFree, Ownership, IsOwned, IsRevoked
<1>5. QED
  BY <1>2, <1>3, <1>4

LEMMA OwnershipIsNext ==
  ASSUME RowsTyped(stored'), NEW m \in Machines
  PROVE  /\ IsFree(m)' => Ownership(m)' = "free" /\ stored'[<<"machine", m>>].owner = Nobody
         /\ IsOwned(m)' => Ownership(m)' = "owned"
         /\ IsRevoked(m)' => Ownership(m)' = "revoked"
<1>1. stored'[<<"credential", m>>] \in CredentialRows
  BY DEF RowsTyped
<1>2. CASE IsFree(m)'
  BY <1>2 DEF IsFree, Ownership, IsOwned, IsRevoked
<1>3. CASE IsOwned(m)'
  <2>1. stored'[<<"credential", m>>] =
          [status |-> "active", token |-> stored'[<<"claim", m>>].token, generation |-> 1]
    BY <1>1, <1>3, CredentialIs DEF IsOwned
  <2>2. QED
    BY <1>3, <2>1 DEF IsFree, Ownership, IsOwned, IsRevoked
<1>4. CASE IsRevoked(m)'
  BY <1>4 DEF IsFree, Ownership, IsOwned, IsRevoked
<1>5. QED
  BY <1>2, <1>3, <1>4

LEMMA SameOwnership ==
  ASSUME NEW m \in Machines, Same(m)
  PROVE  Ownership(m)' = Ownership(m)
BY DEF Same, Ownership

(* A commit takes at most one machine from one state to the next.          *)
Moves ==
  \/ Status' = Status /\ OwnerOf' = OwnerOf
  \/ \E m \in Machines : Promise!Revoke(m) \/ \E u \in Users : Promise!Take(m, u)

LEMMA ChangeMoves ==
  ASSUME NEW m \in Machines, NEW u, Changes(m, u),
         \A n \in Machines : n # m => Same(n),
         RowsTyped(stored), RowsTyped(stored')
  PROVE  Moves
<1>1. \A n \in Machines : n # m =>
        Ownership(n)' = Ownership(n) /\ stored'[<<"machine", n>>].owner = stored[<<"machine", n>>].owner
  BY SameOwnership DEF Same
<1>2. CASE Same(m) \/ (IsFree(m) /\ IsFree(m)')
  <2>1. Ownership(m)' = Ownership(m) /\ stored'[<<"machine", m>>].owner = stored[<<"machine", m>>].owner
    <3>1. CASE Same(m)
      BY <3>1, SameOwnership DEF Same
    <3>2. CASE IsFree(m) /\ IsFree(m)'
      BY <3>2, OwnershipIs, OwnershipIsNext
    <3>3. QED
      BY <1>2, <3>1, <3>2
  <2>2. Status' = Status /\ OwnerOf' = OwnerOf
    BY <1>1, <2>1 DEF Status, OwnerOf
  <2>3. QED
    BY <2>2 DEF Moves
<1>3. CASE IsFree(m) /\ IsOwned(m)'
  <2>1. PICK o \in Users : o = stored'[<<"machine", m>>].owner
    BY <1>3 DEF IsOwned
  <2>2. Ownership(m) = "free" /\ Ownership(m)' = "owned"
    BY <1>3, OwnershipIs, OwnershipIsNext
  <2>3. Status' = [Status EXCEPT ![m] = "owned"] /\ OwnerOf' = [OwnerOf EXCEPT ![m] = o]
    BY <1>1, <2>1, <2>2 DEF Status, OwnerOf
  <2>4. Status[m] = "free"
    BY <2>2 DEF Status
  <2>5. Promise!Take(m, o)
    BY <2>3, <2>4 DEF Promise!Take, Status, OwnerOf
  <2>6. QED
    BY <2>5 DEF Moves
<1>4. CASE IsOwned(m) /\ IsRevoked(m)' /\ stored'[<<"machine", m>>].owner = stored[<<"machine", m>>].owner
  <2>1. Ownership(m) = "owned" /\ Ownership(m)' = "revoked"
    BY <1>4, OwnershipIs, OwnershipIsNext
  <2>2. Status' = [Status EXCEPT ![m] = "revoked"] /\ OwnerOf' = OwnerOf
    BY <1>1, <1>4, <2>1 DEF Status, OwnerOf
  <2>3. Status[m] = "owned"
    BY <2>1 DEF Status
  <2>4. Promise!Revoke(m)
    BY <2>2, <2>3 DEF Promise!Revoke, Status, OwnerOf
  <2>5. QED
    BY <2>4 DEF Moves
<1>5. QED
  BY <1>2, <1>3, <1>4 DEF Changes

LEMMA CommitMoves ==
  ASSUME IInv, NEW q \in Requests, Commit(q)
  PROVE  Moves
<1>1. /\ Mine(q) \in Machines /\ Changes(Mine(q), call[q].user)
      /\ \A n \in Machines : n # Mine(q) => Same(n)
  BY CommitIs, CommitChanges
<1>2. RowsTyped(stored) /\ RowsTyped(stored')
  BY Committed, TypeSplit, TypeSplitNext DEF IInv, Shape
<1>3. QED
  BY <1>1, <1>2, ChangeMoves

(* Who is told something is told it once, and it is true.                  *)
LEMMA TellsOnce ==
  ASSUME IInv, NEW q \in Requests, pc[q] \notin {"idle", "done"}, pc'[q] = "done",
         \A p \in Requests \ {q} : pc'[p] = pc[p] /\ answer'[p] = answer[p], call' = call,
         answer'[q] = "accepted" => OwnerOf'[Mine(q)] = call[q].user,
         answer'[q] = "revoked" => OwnerOf'[Mine(q)] = call[q].user /\ Status'[Mine(q)] = "revoked"
  PROVE  Promise!Tell(q)
<1> DEFINE w == IF answer'[q] \in {"accepted", "revoked"} THEN answer'[q] ELSE "other"
<1> DEFINE a == [what |-> w, machine |-> Mine(q), user |-> call[q].user]
<1>1. w \in {"accepted", "revoked", "other"} /\ Mine(q) \in Machines /\ call[q].user \in Users \cup {Nobody}
  BY MineIsWhole, CallIs
<1>2. a \in Promise!Answers /\ a # Promise!Untold
  <2>1. a \in [what: {"accepted", "revoked", "other"}, machine: Machines, user: Users \cup {Nobody}]
    BY <1>1
  <2>2. a.what # "nothing"
    BY <1>1
  <2>3. QED
    BY <2>1, <2>2 DEF Promise!Answers, Promise!Untold
<1>3. ToldTo[q] = Promise!Untold
  BY DEF ToldTo, Answered, Promise!Untold
<1>4. ToldTo' = [ToldTo EXCEPT ![q] = a]
  BY DEF ToldTo, Answered, Mine
<1>5. ASSUME NEW b, b = a PROVE Promise!Truthful(b)
  BY <1>1, <1>5 DEF Promise!Truthful, Status, OwnerOf
<1>6. \E b \in Promise!Answers \ {Promise!Untold} :
        Promise!Truthful(b) /\ ToldTo' = [ToldTo EXCEPT ![q] = b]
  <2>1. PICK b : b = a
    OBVIOUS
  <2> HIDE DEF a
  <2>2. Promise!Truthful(b)
    BY <1>5, <2>1
  <2>3. QED
    BY <1>2, <1>4, <2>1, <2>2
<1>7. QED
  BY <1>3, <1>6 DEF Promise!Tell, ToldTo, Answered

(* The claim service implements Ownership: whatever interleaves, fails or  *)
(* deadlocks, the three rows of a machine change together and in order,    *)
(* and the answers are true.                                               *)
THEOREM ImplementsOwnership == Spec => KeepsOwnership
<1>1. Init => Promise!Init
  <2> SUFFICES ASSUME Init PROVE Promise!Init
    OBVIOUS
  <2>1. RowsTyped(stored) /\ \A m \in Machines : IsFree(m)
    <3>1. IInv /\ \A m \in Machines : stored[<<"machine", m>>] = NoMachine
      BY IInvInit DEF Init, Rows, Tables, IdentityRow
    <3>2. NoMachine.state = "absent"
      BY DEF NoMachine
    <3>3. \A m \in Machines : ~IsOwned(m) /\ ~IsRevoked(m)
      BY <3>1, <3>2 DEF IsOwned, IsRevoked
    <3>4. QED
      BY <3>1, <3>3, TypeSplit DEF IInv, Shape, Whole
  <2>2. \A m \in Machines : Ownership(m) = "free" /\ stored[<<"machine", m>>].owner = Nobody
    BY <2>1, OwnershipIs
  <2>3. \A q \in Requests : pc[q] # "done"
    BY DEF Init
  <2>4. QED
    BY <2>2, <2>3 DEF Promise!Init, Promise!Untold
<1>2. IInv /\ [Next]_vars => [Promise!Next]_(Promise!vars)
  <2> SUFFICES ASSUME IInv, [Next]_vars PROVE [Promise!Next]_(Promise!vars)
    OBVIOUS
  <2>1. CASE Quiet
    <3>1. Status' = Status /\ OwnerOf' = OwnerOf
      BY <2>1 DEF Quiet, Status, OwnerOf, Ownership
    <3>2. ToldTo' = ToldTo
      BY <2>1 DEF Quiet, ToldTo, Answered, Mine
    <3>3. QED
      BY <3>1, <3>2 DEF Promise!vars, Status, OwnerOf, ToldTo, Answered
  <2>2. ASSUME NEW q \in Requests, GivesUp(q) PROVE Promise!Next
    <3>1. PICK o \in {"failed", "conflict"} : RollBack(q, o)
      BY <2>2 DEF GivesUp
    <3>2. RequestsTyped /\ pc[q] \notin {"idle", "done"} /\ call' = call /\ stored' = stored
      BY <2>2, <3>1, TypeSplit DEF IInv, Shape, GivesUp, Open, RollBack
    <3>3. pc'[q] = "done" /\ answer'[q] = o /\ \A p \in Requests \ {q} : pc'[p] = pc[p] /\ answer'[p] = answer[p]
      BY <3>1, <3>2 DEF RollBack, Goto, RequestsTyped
    <3>4. Promise!Tell(q)
      BY <3>2, <3>3, TellsOnce
    <3>5. Status' = Status /\ OwnerOf' = OwnerOf
      BY <3>2 DEF Status, OwnerOf, Ownership
    <3>6. QED
      BY <3>4, <3>5 DEF Promise!Next, Status, OwnerOf
  <2>3. ASSUME NEW q \in Requests, Commit(q) PROVE Promise!Next
    <3>1. Moves
      BY <2>3, CommitMoves
    <3>2. RequestsTyped /\ pc[q] = "commit" /\ call' = call /\ Mine(q)' = Mine(q) /\ Mine(q) \in Machines
      BY <2>3, CommitIs, TypeSplit DEF IInv, Shape, Commit
    <3>3. PICK heard \in {answer[q], "failed"} : answer' = [answer EXCEPT ![q] = heard]
      BY <2>3 DEF Commit
    <3>4. /\ pc'[q] = "done" /\ answer'[q] \in {answer[q], "failed"}
          /\ \A p \in Requests \ {q} : pc'[p] = pc[p] /\ answer'[p] = answer[p]
      BY <2>3, <3>2, <3>3 DEF Commit, Goto, RequestsTyped
    <3>5. OwnerOf'[Mine(q)] = Old(q, "machine")'.owner
      BY <3>2 DEF OwnerOf, Old
    <3>6. answer[q] = "revoked" => Status'[Mine(q)] = "revoked"
      <4>1. answer[q] = "revoked" => IsRevoked(Mine(q))'
        BY <2>3, CommitChanges
      <4>2. RowsTyped(stored')
        BY <2>3, Committed, TypeSplitNext DEF IInv, Shape
      <4>3. QED
        BY <3>2, <4>1, <4>2, OwnershipIsNext DEF Status
    <3>7. /\ answer'[q] = "accepted" => OwnerOf'[Mine(q)] = call[q].user
          /\ answer'[q] = "revoked" => OwnerOf'[Mine(q)] = call[q].user /\ Status'[Mine(q)] = "revoked"
      BY <2>3, <3>4, <3>5, <3>6, CommitChanges
    <3>8. Promise!Tell(q)
      BY <3>2, <3>4, <3>7, TellsOnce
    <3>9. QED
      BY <3>1, <3>8 DEF Promise!Next, Moves, Status, OwnerOf
  <2>4. QED
    BY <2>1, <2>2, <2>3, StepIs
<1>3. QED
  BY <1>1, <1>2, IInvInit, IInvStep, PTL DEF Spec, KeepsOwnership, Promise!Spec
=============================================================================
