--------------------------- MODULE ExecutorClaims ---------------------------
(***************************************************************************)
(* The claims of executors and desktops (connect_executor_service.ts,      *)
(* connect_desktop_service.ts and the statements of their repositories):   *)
(* a machine registers itself and a claim, an account accepts or denies    *)
(* the claim, and the owner renames or revokes the machine.                *)
(*                                                                         *)
(* Each request runs in a transaction of its own, one statement at a time, *)
(* on a database that isolates READ COMMITTED: a statement sees what was   *)
(* committed when it began and what its own transaction wrote; a row that  *)
(* another transaction has written, or the unique key of a row it has      *)
(* inserted or deleted, is waited for until that transaction ends.         *)
(*                                                                         *)
(* An accepted claim also names the identity of the website's deployment   *)
(* (connect_website_deployment_identity_service.ts): a row created once, by*)
(* whichever request needs it first, and remembered by each process.       *)
(***************************************************************************)
EXTENDS Naturals, FiniteSets

CONSTANTS
  Executors,   \* executor ids
  Desktops,    \* device ids of Desktop clients
  Users,       \* accounts
  ClaimIds,    \* claim ids; a claim id stands for its idempotency key too
  Tokens,      \* bootstrap tokens
  Keys,        \* idempotency keys of decisions
  Isolates,    \* processes of the website
  MaxRequests, \* how many requests there may be
  Loads,       \* what they may ask for, all together
  Nobody, NoClaim, NoToken, NoKey, NoCall, Website

Requests == 1..MaxRequests
NoRequest == 0

Machines == Executors \cup Desktops
Tables == {"machine", "claim", "credential"}

CallRecords ==
  [op: {"create", "accept", "deny", "rename", "revoke"}, machine: Machines,
   id: ClaimIds \cup {NoClaim}, token: Tokens \cup {NoToken},
   user: Users \cup {Nobody}, key: Keys \cup {NoKey}, isolate: Isolates]

ASSUME ClaimsAssumption ==
  /\ Executors \cap Desktops = {}
  /\ MaxRequests \in Nat
  /\ Loads \subseteq [Requests -> CallRecords \cup {NoCall}]
  /\ NoCall \notin CallRecords /\ Nobody \notin Users \cup Machines
  /\ Website \notin Machines
  /\ \A load \in Loads, p \in Requests :
       load[p] # NoCall => IF load[p].op = "create"
                           THEN load[p].id \in ClaimIds /\ load[p].token \in Tokens
                           ELSE load[p].user \in Users
  /\ \A load \in Loads, p, q \in Requests :
       LET c == load[p]
           d == load[q] IN
       c # NoCall /\ d # NoCall =>
         /\ c.id = d.id /\ c.id # NoClaim => c.machine = d.machine
         /\ c.token = d.token /\ c.token # NoToken => c.machine = d.machine

VARIABLES
  stored,   \* the committed row of each table and machine
  draft,    \* the same with what open transactions have written
  lock,     \* the request whose transaction wrote the row
  identity, \* of each process: the deployment's identity, as it remembers it
  loading,  \* of each process: the request that is looking it up
  lapsed,   \* claims whose lifetime is over
  call,     \* what each request asks for
  pc,       \* the statement it is at
  before,   \* credential_generation as revoke() read it first
  answer,   \* what the caller is told, or will be once the transaction commits
  named     \* the identity the caller is told

vars == <<stored, draft, lock, identity, loading, lapsed, call, pc, before, answer, named>>
rows == <<stored, draft, lock>>
memo == <<identity, loading, named>>

(* A deployment identity is called after the request that made it up.      *)
IdentityRow == <<"identity", Website>>
Rows == (Tables \X Machines) \cup {IdentityRow}

NoMachine == [state |-> "absent", owner |-> Nobody, generation |-> 0]
NoClaimRow == [status |-> "absent", id |-> NoClaim, token |-> NoToken, by |-> Nobody, key |-> NoKey]
NoCredential == [status |-> "absent", token |-> NoToken, generation |-> 0]

Statements ==
  {"idle", "queued", "find", "register", "refresh", "replace", "insert", "claim",
   "decide", "accept", "own", "credential", "identity", "persist", "rename", "revoke", "fence", "commit", "done"}

Outcomes ==
  {"none", "created", "retry", "conflict", "accepted", "denied", "expired", "replayed",
   "renamed", "revoked", "not-found", "failed"}

-----------------------------------------------------------------------------
(* Statements.                                                             *)

(* What a statement of request q sees of a row.                            *)
See(q, t, m) == IF lock[<<t, m>>] = q THEN draft[<<t, m>>] ELSE stored[<<t, m>>]

Free(q, t, m) == lock[<<t, m>>] \in {NoRequest, q}

Write(q, t, m, row) ==
  /\ Free(q, t, m)
  /\ draft' = [draft EXCEPT ![<<t, m>>] = row]
  /\ lock' = [lock EXCEPT ![<<t, m>>] = q]
  /\ UNCHANGED stored

Goto(q, label) == pc' = [pc EXCEPT ![q] = label]

Proceed(q, label) == Goto(q, label) /\ UNCHANGED <<answer, memo>>

(* The transaction of q has nothing left to do but to commit.              *)
Conclude(q, outcome) ==
  /\ Goto(q, "commit") /\ answer' = [answer EXCEPT ![q] = outcome]
  /\ UNCHANGED memo

(* rollbackOnly(): what q wrote is undone, and the caller is told.         *)
RollBack(q, outcome) ==
  /\ loading' = [w \in Isolates |-> IF loading[w] = q THEN NoRequest ELSE loading[w]]
  /\ draft' = [r \in Rows |-> IF lock[r] = q THEN stored[r] ELSE draft[r]]
  /\ lock' = [r \in Rows |-> IF lock[r] = q THEN NoRequest ELSE lock[r]]
  /\ Goto(q, "done") /\ answer' = [answer EXCEPT ![q] = outcome]
  /\ UNCHANGED <<stored, identity, named>>

Mine(q) == call[q].machine
IsDesktop(q) == Mine(q) \in Desktops

(* claimCreateError(): a lost race. The desktop service only recognises    *)
(* the wording of SQLite.                                                  *)
LostRace(q) == RollBack(q, IF IsDesktop(q) THEN "failed" ELSE "conflict")
-----------------------------------------------------------------------------
Init ==
  /\ stored = [r \in Rows |-> CASE r = IdentityRow -> NoRequest
                                [] r[1] = "machine" -> NoMachine
                                [] r[1] = "claim" -> NoClaimRow
                                [] OTHER -> NoCredential]
  /\ draft = stored
  /\ lock = [r \in Rows |-> NoRequest]
  /\ identity = [w \in Isolates |-> NoRequest]
  /\ loading = [w \in Isolates |-> NoRequest]
  /\ lapsed = {}
  /\ call \in Loads
  /\ pc = [q \in Requests |-> "idle"]
  /\ before = [q \in Requests |-> 0]
  /\ answer = [q \in Requests |-> "none"]
  /\ named = [q \in Requests |-> NoRequest]

FirstStatement(c) ==
  CASE c.op = "create" -> "find"
    [] c.op \in {"accept", "deny"} -> "queued"
    [] OTHER -> c.op

Request(q) ==
  /\ pc[q] = "idle" /\ call[q] # NoCall
  /\ Proceed(q, FirstStatement(call[q]))
  /\ UNCHANGED <<rows, lapsed, call, before>>

(* createClaim(): the claim may be known already.                          *)
FindClaim(q) ==
  LET c == call[q]
      known == See(q, "claim", c.machine) IN
  /\ pc[q] = "find"
  /\ \/ known.id # c.id /\ Proceed(q, "register")
     \/ /\ known.id = c.id /\ known.token = c.token /\ known.status = "pending"
        /\ Conclude(q, "retry")
     \/ /\ known.id = c.id
        /\ (known.token # c.token \/ known.status # "pending")
        /\ Conclude(q, "conflict")
  /\ UNCHANGED <<rows, lapsed, call, before>>

(* Desktops are not looked up: their row is inserted in any case.          *)
Register(q) ==
  LET machine == See(q, "machine", Mine(q)) IN
  /\ pc[q] = "register"
  /\ \/ /\ IsDesktop(q) \/ machine.state = "absent"
        /\ Proceed(q, "insert")
     \/ ~IsDesktop(q) /\ machine.state = "pending" /\ Proceed(q, "refresh")
     \/ ~IsDesktop(q) /\ machine.state \in {"active", "revoked"} /\ Conclude(q, "conflict")
  /\ UNCHANGED <<rows, lapsed, call, before>>

RefreshPending(q) ==
  LET machine == See(q, "machine", Mine(q)) IN
  /\ pc[q] = "refresh"
  /\ IF machine.state = "pending" THEN Write(q, "machine", Mine(q), machine) ELSE UNCHANGED rows
  /\ Proceed(q, "replace")
  /\ UNCHANGED <<lapsed, call, before>>

DeletePending(q) ==
  /\ pc[q] = "replace"
  /\ IF See(q, "claim", Mine(q)).status = "pending"
     THEN Write(q, "claim", Mine(q), NoClaimRow) ELSE UNCHANGED rows
  /\ Proceed(q, "claim")
  /\ UNCHANGED <<lapsed, call, before>>

InsertMachine(q) ==
  /\ pc[q] = "insert" /\ Free(q, "machine", Mine(q))
  /\ \/ /\ See(q, "machine", Mine(q)).state = "absent"
        /\ Write(q, "machine", Mine(q), [NoMachine EXCEPT !.state = "pending"])
        /\ Proceed(q, "claim")
     \/ See(q, "machine", Mine(q)).state # "absent" /\ LostRace(q)
  /\ UNCHANGED <<lapsed, call, before>>

InsertClaim(q) ==
  LET c == call[q] IN
  /\ pc[q] = "claim" /\ Free(q, "claim", c.machine)
  /\ \/ /\ See(q, "claim", c.machine).status = "absent"
        /\ Write(q, "claim", c.machine,
                 [NoClaimRow EXCEPT !.status = "pending", !.id = c.id, !.token = c.token])
        /\ Conclude(q, "created")
     \/ See(q, "claim", c.machine).status # "absent" /\ LostRace(q)
  /\ UNCHANGED <<lapsed, call, before>>
-----------------------------------------------------------------------------
(* decide(). Decisions of one process on one kind of machine wait for each *)
(* other.                                                                  *)
Deciding(q) ==
  pc[q] \notin {"idle", "queued", "done"} /\ call[q].op \in {"accept", "deny"}

(* Slip: the queue is not released.                                        *)
PredecessorsEver(q) ==
  {p \in Requests \ {q} : /\ pc[p] \notin {"idle", "queued"} /\ call[p].op \in {"accept", "deny"}
                         /\ call[p].isolate = call[q].isolate /\ IsDesktop(p) = IsDesktop(q)}

Predecessors(q) ==
  {p \in Requests : Deciding(p) /\ call[p].isolate = call[q].isolate /\ IsDesktop(p) = IsDesktop(q)}

Turn(q) ==
  /\ pc[q] = "queued" /\ Predecessors(q) = {}
  /\ Proceed(q, "decide")
  /\ UNCHANGED <<rows, lapsed, call, before>>

(* terminalDecision(): only the same decision of the same user is repeated.*)
Repeats(q, claim) ==
  /\ claim.by = call[q].user /\ claim.key = call[q].key
  /\ claim.status = (IF call[q].op = "accept" THEN "accepted" ELSE "denied")

TerminalDecision(q, claim) ==
  IF ~Repeats(q, claim) THEN "replayed"
  ELSE IF claim.status = "denied" THEN "denied"
  ELSE IF IsDesktop(q) /\ See(q, "machine", Mine(q)).owner # call[q].user THEN "failed"
  ELSE "accepted"

Decide(q) ==
  LET claim == See(q, "claim", Mine(q)) IN
  /\ pc[q] = "decide"
  /\ \/ claim.id # call[q].id /\ Conclude(q, "not-found")
     \/ /\ claim.id = call[q].id /\ claim.status # "pending"
        /\ IF TerminalDecision(q, claim) = "accepted"
           THEN Proceed(q, "identity") ELSE Conclude(q, TerminalDecision(q, claim))
     \/ /\ claim.id = call[q].id /\ claim.status = "pending" /\ claim.id \in lapsed
        /\ Conclude(q, "expired")
     \/ /\ claim.id = call[q].id /\ claim.status = "pending" /\ claim.id \notin lapsed
        /\ Proceed(q, "accept")
  /\ UNCHANGED <<rows, lapsed, call, before>>

(* denyPending, acceptPending and the look at the claim that follows. The  *)
(* clock was read before; the claim may be gone, or decided, by now.       *)
Decided(q, status) ==
  [See(q, "claim", Mine(q)) EXCEPT !.status = status, !.by = call[q].user, !.key = call[q].key]

(* Slip: the claim is found by its id alone.                               *)
UndecidedOrNot(q) == See(q, "claim", Mine(q)).id = call[q].id

Undecided(q) == See(q, "claim", Mine(q)).id = call[q].id /\ See(q, "claim", Mine(q)).status = "pending"

DenyClaim(q) ==
  LET claim == See(q, "claim", Mine(q)) IN
  /\ pc[q] = "accept" /\ call[q].op = "deny"
  /\ \/ Undecided(q) /\ Write(q, "claim", Mine(q), Decided(q, "denied")) /\ Conclude(q, "denied")
     \/ /\ ~Undecided(q) /\ UNCHANGED rows
        /\ Conclude(q, IF claim.id = call[q].id /\ claim.status = "denied" /\ claim.by = call[q].user
                       THEN "denied" ELSE "replayed")
  /\ UNCHANGED <<lapsed, call, before>>

AcceptClaim(q) ==
  LET claim == See(q, "claim", Mine(q)) IN
  /\ pc[q] = "accept" /\ call[q].op = "accept"
  /\ \/ /\ Undecided(q) /\ Write(q, "claim", Mine(q), Decided(q, "accepted"))
        /\ Proceed(q, "own")
     \/ /\ ~Undecided(q) /\ UNCHANGED rows
        /\ IF claim.id = call[q].id /\ Repeats(q, claim)
           THEN Proceed(q, "own")
           ELSE Conclude(q, "replayed")
  /\ UNCHANGED <<lapsed, call, before>>

Owned(q, machine) ==
  machine.owner = call[q].user /\ machine.state = "active" /\ machine.generation = 1

(* acceptOwner, and the look at the machine that follows.                  *)
AcceptOwner(q) ==
  LET machine == See(q, "machine", Mine(q)) IN
  /\ pc[q] = "own"
  /\ \/ /\ machine.state = "pending"
        /\ Write(q, "machine", Mine(q), [state |-> "active", owner |-> call[q].user, generation |-> 1])
        /\ Proceed(q, "credential")
     \/ /\ machine.state # "pending" /\ Owned(q, machine)
        /\ Proceed(q, "credential") /\ UNCHANGED rows
     \/ machine.state # "pending" /\ ~Owned(q, machine) /\ RollBack(q, "failed")
  /\ UNCHANGED <<lapsed, call, before>>

(* The token of the claim becomes the credential of generation 1.          *)
CreateCredential(q) ==
  /\ pc[q] = "credential" /\ Free(q, "credential", Mine(q))
  /\ \/ /\ See(q, "credential", Mine(q)).status = "absent"
        /\ Write(q, "credential", Mine(q),
                 [status |-> "active", token |-> See(q, "claim", Mine(q)).token, generation |-> 1])
        /\ Proceed(q, "identity")
     \/ See(q, "credential", Mine(q)).status # "absent" /\ RollBack(q, "failed")
  /\ UNCHANGED <<lapsed, call, before>>

(* deploymentIdentity.get(): a process remembers what it has read, and the *)
(* requests that ask while it reads wait for the same answer. The read is  *)
(* part of the transaction of the request that made it.                    *)
Named(q, id) ==
  /\ identity' = [identity EXCEPT ![call[q].isolate] = id]
  /\ named' = [named EXCEPT ![q] = id]
  /\ loading' = [loading EXCEPT ![call[q].isolate] = IF @ = q THEN NoRequest ELSE @]
  /\ Goto(q, "commit") /\ answer' = [answer EXCEPT ![q] = "accepted"]

FindIdentity(q) ==
  LET w == call[q].isolate
      seen == See(q, "identity", Website) IN
  /\ pc[q] = "identity"
  /\ \/ identity[w] # NoRequest /\ Named(q, identity[w])
     \/ identity[w] = NoRequest /\ loading[w] = NoRequest /\ seen # NoRequest /\ Named(q, seen)
     \/ /\ identity[w] = NoRequest /\ loading[w] = NoRequest /\ seen = NoRequest
        /\ loading' = [loading EXCEPT ![w] = q]
        /\ Goto(q, "persist") /\ UNCHANGED <<answer, identity, named>>
  /\ UNCHANGED <<rows, lapsed, call, before>>

(* Slip: the candidate is not read back.                                   *)
CreateIdentityUnread(q) ==
  /\ pc[q] = "persist" /\ Free(q, "identity", Website)
  /\ IF See(q, "identity", Website) = NoRequest
     THEN Write(q, "identity", Website, q) ELSE UNCHANGED rows
  /\ Named(q, q)
  /\ UNCHANGED <<lapsed, call, before>>

CreateIdentity(q) ==
  /\ pc[q] = "persist" /\ Free(q, "identity", Website)
  /\ IF See(q, "identity", Website) = NoRequest
     THEN Write(q, "identity", Website, q) /\ Named(q, q)
     ELSE UNCHANGED rows /\ Named(q, See(q, "identity", Website))
  /\ UNCHANGED <<lapsed, call, before>>
-----------------------------------------------------------------------------
(* rename(). The name itself is left out; the row is written all the same. *)
Rename(q) ==
  LET machine == See(q, "machine", Mine(q)) IN
  /\ pc[q] = "rename"
  /\ \/ /\ machine.owner = call[q].user /\ machine.state = "active"
        /\ Write(q, "machine", Mine(q), machine) /\ Conclude(q, "renamed")
     \/ /\ machine.owner # call[q].user \/ machine.state # "active"
        /\ UNCHANGED rows /\ Conclude(q, "not-found")
  /\ UNCHANGED <<lapsed, call, before>>

(* revoke(): detail() first.                                               *)
FindOwned(q) ==
  LET machine == See(q, "machine", Mine(q)) IN
  /\ pc[q] = "revoke" /\ before[q] = 0
  /\ \/ machine.owner # call[q].user /\ Conclude(q, "not-found") /\ UNCHANGED before
     \/ /\ machine.owner = call[q].user /\ machine.state = "revoked"
        /\ Conclude(q, "revoked") /\ UNCHANGED before
     \/ /\ machine.owner = call[q].user /\ machine.state # "revoked"
        /\ before' = [before EXCEPT ![q] = machine.generation]
        /\ UNCHANGED <<pc, answer, memo>>
  /\ UNCHANGED <<rows, lapsed, call>>

RevokeOwned(q) ==
  LET machine == See(q, "machine", Mine(q)) IN
  /\ pc[q] = "revoke" /\ before[q] # 0
  /\ IF machine.owner = call[q].user /\ machine.state = "active"
     THEN Write(q, "machine", Mine(q),
                [machine EXCEPT !.state = "revoked", !.generation = @ + 1])
     ELSE UNCHANGED rows
  /\ Proceed(q, "fence")
  /\ UNCHANGED <<lapsed, call, before>>

(* revokeForExecutor, revokeForDevice, and the look at the machine.        *)
FenceCredential(q) ==
  LET credential == See(q, "credential", Mine(q))
      machine == See(q, "machine", Mine(q)) IN
  /\ pc[q] = "fence"
  /\ \/ /\ machine.state = "revoked" /\ machine.generation = before[q] + 1
        /\ IF credential.status = "active"
           THEN Write(q, "credential", Mine(q), [credential EXCEPT !.status = "revoked"])
           ELSE UNCHANGED rows
        /\ Conclude(q, "revoked")
     \/ /\ machine.state # "revoked" \/ machine.generation # before[q] + 1
        /\ RollBack(q, "failed")
  /\ UNCHANGED <<lapsed, call, before>>
-----------------------------------------------------------------------------
Open(q) == pc[q] \notin {"idle", "queued", "done"}

(* The caller hears the outcome, or that the transaction failed although   *)
(* it had been committed.                                                  *)
Commit(q) ==
  /\ pc[q] = "commit"
  /\ stored' = [r \in Rows |-> IF lock[r] = q THEN draft[r] ELSE stored[r]]
  /\ lock' = [r \in Rows |-> IF lock[r] = q THEN NoRequest ELSE lock[r]]
  /\ Goto(q, "done")
  /\ \E heard \in {answer[q], "failed"} : answer' = [answer EXCEPT ![q] = heard]
  /\ UNCHANGED <<draft, memo, lapsed, call, before>>

(* A statement or the commit fails, or the process is lost.                *)
Fails(q) ==
  /\ Open(q)
  /\ RollBack(q, "failed")
  /\ UNCHANGED <<lapsed, call, before>>

(* The rows q waits for.                                                   *)
Wanted(q) ==
  LET m == Mine(q) IN
  CASE pc[q] = "refresh" /\ See(q, "machine", m).state = "pending" -> {<<"machine", m>>}
    [] pc[q] = "replace" /\ See(q, "claim", m).status = "pending" -> {<<"claim", m>>}
    [] pc[q] = "insert" -> {<<"machine", m>>}
    [] pc[q] = "claim" -> {<<"claim", m>>}
    [] pc[q] = "accept" /\ Undecided(q) -> {<<"claim", m>>}
    [] pc[q] = "own" /\ See(q, "machine", m).state = "pending" -> {<<"machine", m>>}
    [] pc[q] = "credential" -> {<<"credential", m>>}
    [] pc[q] = "persist" -> {IdentityRow}
    [] pc[q] \in {"rename", "revoke"} /\ See(q, "machine", m).state = "active" -> {<<"machine", m>>}
    [] pc[q] = "fence" /\ See(q, "credential", m).status = "active" -> {<<"credential", m>>}
    [] OTHER -> {}

WaitsFor(p, q) == p # q /\ Open(p) /\ \E r \in Wanted(p) : lock[r] = q

(* The database ends one of the transactions that wait for each other.     *)
DeadlockVictim(q) ==
  /\ \E p \in Requests : WaitsFor(q, p) /\ WaitsFor(p, q)
  /\ RollBack(q, "failed")
  /\ UNCHANGED <<lapsed, call, before>>

Lapse(m) ==
  LET claim == stored[<<"claim", m>>] IN
  /\ claim.status = "pending" /\ claim.id \notin lapsed
  /\ lapsed' = lapsed \cup {claim.id}
  /\ UNCHANGED <<rows, memo, call, pc, before, answer>>

Statement(q) ==
  \/ FindClaim(q) \/ Register(q) \/ RefreshPending(q) \/ DeletePending(q)
  \/ InsertMachine(q) \/ InsertClaim(q)
  \/ Turn(q) \/ Decide(q) \/ DenyClaim(q) \/ AcceptClaim(q) \/ AcceptOwner(q) \/ CreateCredential(q)
  \/ FindIdentity(q) \/ CreateIdentity(q)
  \/ Rename(q) \/ FindOwned(q) \/ RevokeOwned(q) \/ FenceCredential(q)
  \/ Commit(q)

Next ==
  \/ \E q \in Requests : Statement(q) \/ Fails(q) \/ DeadlockVictim(q) \/ Request(q)
  \/ \E m \in Machines : Lapse(m)

Spec == Init /\ [][Next]_vars

FairSpec == Spec /\ \A q \in Requests : WF_vars(Statement(q)) /\ WF_vars(DeadlockVictim(q))
-----------------------------------------------------------------------------
TypeOK ==
  /\ \A copy \in {stored, draft}, m \in Machines :
       /\ copy[<<"machine", m>>] \in [state: {"absent", "pending", "active", "revoked"},
                                      owner: Users \cup {Nobody}, generation: 0..2]
       /\ copy[<<"claim", m>>] \in
            {NoClaimRow} \cup [status: {"pending", "accepted", "denied"}, id: ClaimIds, token: Tokens,
                              by: Users \cup {Nobody}, key: Keys \cup {NoKey}]
       /\ copy[<<"credential", m>>] \in [status: {"absent", "active", "revoked"},
                                         token: Tokens \cup {NoToken}, generation: 0..1]
  /\ stored[IdentityRow] \in Requests \cup {NoRequest}
  /\ draft[IdentityRow] \in Requests \cup {NoRequest}
  /\ lock \in [Rows -> Requests \cup {NoRequest}]
  /\ identity \in [Isolates -> Requests \cup {NoRequest}]
  /\ loading \in [Isolates -> Requests \cup {NoRequest}]
  /\ lapsed \subseteq ClaimIds
  /\ call \in Loads
  /\ pc \in [Requests -> Statements]
  /\ before \in [Requests -> 0..2]
  /\ answer \in [Requests -> Outcomes]
  /\ named \in [Requests -> Requests \cup {NoRequest}]

(* What the committed rows say of a machine, all three together.           *)
Ownership(m) ==
  LET machine == stored[<<"machine", m>>]
      claim == stored[<<"claim", m>>]
      credential == stored[<<"credential", m>>] IN
  CASE /\ machine.state = "active" /\ machine.generation = 1
       /\ claim.status = "accepted" /\ claim.by = machine.owner
       /\ credential = [status |-> "active", token |-> claim.token, generation |-> 1] -> "owned"
    [] machine.state = "revoked" /\ credential.status # "active" -> "revoked"
    [] /\ machine.state \in {"absent", "pending"}
       /\ claim.status # "accepted" /\ credential.status = "absent" -> "free"
    [] OTHER -> "torn"

Promise == INSTANCE Ownership WITH
  status <- [m \in Machines |-> Ownership(m)],
  owner <- [m \in Machines |-> stored[<<"machine", m>>].owner],
  told <- [q \in Requests |->
            IF pc[q] # "done" THEN [what |-> "nothing", machine |-> Nobody, user |-> Nobody]
            ELSE [what |-> IF answer[q] \in {"accepted", "revoked"} THEN answer[q] ELSE "other",
                  machine |-> Mine(q), user |-> call[q].user]]

(* Two processes, or two requests of one, that need the deployment's       *)
(* identity at once end up with the one that is stored                     *)
(* (deploymentIdentity.get(), createIfMissing). A process may name an      *)
(* identity of which nothing is stored, but only if the transaction that   *)
(* made it up has failed.                                                  *)
IdentityAgrees ==
  \A q \in Requests :
    pc[q] = "done" /\ answer[q] = "accepted" =>
      \/ named[q] = stored[IdentityRow]
      \/ pc[named[q]] # "done" \/ answer[named[q]] = "failed"

(* Whatever statements of whatever requests interleave, fail or deadlock,  *)
(* the machine's row, its claim and its credential change together and in  *)
(* the order free, owned, revoked; and nobody is told "accepted" or        *)
(* "revoked" of a machine that is not theirs (acceptClaim, denyClaim,      *)
(* createClaim and revoke together).                                       *)
KeepsOwnership == Promise!Spec

(* Every request is answered, although createClaim() and acceptClaim()     *)
(* take their rows in opposite orders and decisions wait for each other.   *)
RequestsSettle == \A q \in Requests : pc[q] # "idle" ~> pc[q] = "done"
=============================================================================
