# A verification development for Kazi Connect

The repository is the website of Kazi Connect. It runs on Cloudflare Workers
(and on Node in development) and puts three kinds of parties in touch: users in
a browser or an OAuth client, *executors* (the Connect service on somebody's
computer) and *swarm machines* (ECS tasks the website starts). Most of the code
serves pages and looks things up. What is hard is the part that keeps channels
open, routes requests over them and has to say something to every caller when
a channel, a timer or the process itself goes away. That part is modelled here
in TLA+, model-checked with TLC on small instances, and proved with TLAPS for
all values of the constants where a proof is within reach.

Paths below are relative to the repository; `durable-objects.ts` is
`src/server/durable-objects.ts`.

## 1. Inventory

| Component | State it keeps | Operations | What is hard | What makes it correct |
|---|---|---|---|---|
| **ExecutorCoordinator** (`durable-objects.ts`, one Durable Object per executor) | sockets with attachments, a presence record in storage; in memory: dispatch routes with two timers each, ephemeral session invokes, reassembly buffers | upgrade of a channel or viewer, hello / event / accepted / result / session frames, close, `/dispatch`, `/session-invoke`, `/presence` | the fence is in storage, the socket list in the runtime, the routes in memory: they change at different moments; a replaced channel keeps speaking until its close event; timers race answers; memory vanishes | every call gets one answer that agrees with how far it got; nothing waits for a channel that is gone; only the newest channel is used |
| **SwarmMachineCoordinator** (same file, one per machine) | presence record, cursor and replay buffer in storage, sockets | upgrade, hello, heartbeat, thread frames, close, `/send`, `/liveness`, `/events` | two puts per append; readers page through a buffer that is being cut | cursors are unique and ordered; a reader skips nothing that is stored and sees nothing twice |
| **Executor connection registry** (`services/connect_executor_connection_registry.ts`) | one SSE stream, its fence and time of last activity per executor; pending hellos; tombstones | hello, open, touch, dispatch, revoke, presence | staleness is only noticed when somebody asks; a takeover ends the old stream from inside `open` | one stream per executor; who depended on a lost stream is told |
| **Client relay** (`services/connect_client_relay_service.ts`) | desktop links, command routes indexed three ways, rates | open, close, command, receive, fence, revoke | `command` awaits two lookups between its checks and its registration; acceptance, timeout, takeover and disconnect race | routes exist only on current links; output reaches only the link that asked; every call is answered |
| **Executor and desktop claims** (`services/connect_executor_service.ts`, `connect_desktop_service.ts`) | machine, claim and credential rows; a queue of decisions per process | create, accept, deny, rename, revoke | SQL statements of several transactions interleave under READ COMMITTED; two of them lock in opposite orders; memory is changed before commit | one owner per machine, its three rows change together, answers are true, every request is answered |
| **Deployment identity** (`services/connect_website_deployment_identity_service.ts`) | one row, a memoised promise per process | create if missing | processes and requests make it up at once, inside transactions that may roll back | every accepted claim names the identity that is stored |
| **OAuth grants** (`services/oauth_flow_service.ts`, `oauth_authorize_service.ts`) | connections, codes, access and refresh tokens | approve, exchange, refresh, revoke | no transactions: a code is used up before the rest is checked, revocation races minting | one chain of tokens per consent; nothing works after a revocation |
| **Swarm control plane** (`controller/swarm.controller.ts`, `services/swarm_aws_service.ts`) | swarm and machine rows, ECS tasks | create, launch, stop | three services are awaited between the test of the state and the write; each fails on its own | a repeated create makes one swarm; no task runs that a stop has lost |
| **Observability relay** (`observability/kaziquery_relay.ts`, `kaziquery_export.ts`) | queue, batch in flight, receipts, alarm | admit, alarm, resume, retry | a 202 is lost, a post comes late, runs of the alarm overlap or are killed | KaziQuery stores each admitted record once, in order |
| **Accounts** (`services/connect_auth_service.ts`) | account rows | signup, login, Google sign-in | an address is looked up and then written, without a transaction; it is not unique | who was told of an account can use it; passwords are not overwritten |
| **Sessions and hand-off** (`services/connect_session_auth_service.ts`, `connect_agent_session_service.ts`) | session and hand-off rows | check, logout, hand off, consume, use | a row is judged and then extended, while others end it | a session that has ended stays ended; a hand-off is redeemed once |
| Tool grants and dispatch, releases and downloads, parsers, UI, infrastructure | little or none | look-ups, validation, rendering | | see "Not modelled" |

How they interact. A controller finds the Durable Object of an executor or of a
machine by name and calls it with `fetch`; executors, viewers and heads reach the
same object over WebSockets. Without Durable Objects (development, self-hosted)
the connection registry and the client relay do the same work in one process over
server-sent events: the relay calls `registry.dispatch`, and the registry calls
back the relay when a stream is gone. The claims service and the OAuth service
write the database and then tell the registry, or the object, to revoke. The
control plane reads liveness from one SwarmMachineCoordinator per machine.

The hazards are listed one by one, with the line where each bites and the
properties that cover it, under `hazards` in `PROJECT.json`.

## 2. Plan

Most important behaviour first. All modules of the plan are written and
model-checked, and each has a module of proofs. Every safety property the
passing runs check is also a theorem; liveness is not (section 13).

| # | Module | Composes / refines | Runs | Theorems |
|---|---|---|---|---|
| 1 | `ExecutorCoordinator` | implements `DispatchContract` | `coordinator_dispatch`, `coordinator_sessions`, `coordinator_lost_invoke` | types, no call lost, nothing left behind, newest channel only, the greeted channel online, viewers released, results of the own channel, refinement |
| 2 | `SwarmMachineCoordinator` | | `swarm_machine` | types, cursor order, nothing skipped, seen once, head state of the owner, commands to the newest channel |
| 3 | `ConnectionRegistry`, `ClientRelay` | the relay extends the registry and implements its specification | `relay_routes`, `relay_revoked_link` | types, index consistency, routes only on current links and streams and of their own row, no waiter forgotten, ends announced |
| 4 | `ExecutorClaims` | implements `Ownership`; holds the deployment identity | `executor_claims` | types, one identity, refinement |
| 5 | `OAuthGrants` | | `oauth_grants`, `oauth_newest_consent` | types, one chain per consent, revocation is final, older connections superseded |
| 6 | `SwarmLifecycle` | | `swarm_lifecycle` | types, idempotent create, no orphan but a missed one |
| 7 | `ExportRelay` | implements `ExportLog` | `export_relay` | types, admitted records kept, refinement |
| 8 | `Accounts`, `Sessions` | the sessions extend the accounts with what a sign-in creates | `sessions` | types, passwords kept, signup, same account, ended sessions, hand-offs |

Every module takes its limits as CONSTANTS with a named assumption, has one
action per handler and keeps its invariants as conjunctions of named parts. `TypeOK` of
each is proved (`TypeCorrect`) and in no run. The proofs lean on the assumptions
and on nothing else. Besides that bounds are natural numbers, that loads are made
of calls and that "none" values differ from the others, they say:

* `Invokes` are no socket numbers (session ids are fresh uuids), `Operations` and
  `Connections` are finite;
* a claim is created with an id and a token, every other request on a machine comes
  with a user, and requests that share a claim id or a token are about one machine;
* an approval has a consent of its own;
* an id a client chooses for a swarm is none the server generates;
* a name that is an address, or made of an account's id, is no username.
Modules that carry theorems use no recursive operators.

## 3. What the models assume of the platform

* **Input gates.** A Durable Object receives no event while a handler waits for
  its own storage. A handler whose only awaits are storage operations is
  therefore one action. Where a handler awaits something else (the body of
  `/session-invoke`, read after the limit was tested) it is split there.
* **A closing socket still delivers.** After the object calls `close()` on a
  socket, `getWebSockets()` lists it and its frames are handled until its close
  event is; sending on it throws. This is what the `open`, `closing`, `closed`
  values of `link` stand for.
* **Restart and hibernation.** `Restart` (a deploy, a fault) drops memory and
  every socket and keeps storage. `Hibernate` drops memory, keeps sockets and
  their attachments, and happens only when no call is in progress and no timer
  is running.
* **Requests are interleaved between awaits.** Modules 4 to 8 have one action per
  statement or remote call; a local step between two awaits is part of the action
  that comes before or after it. `pc` is the await a request is at, `Loads` the sets
  of requests a behaviour may make, and `call` is chosen from them in the beginning.
  Requests may come in any order, so which requests there are is all a load says.
* **A statement can fail with its effect.** Where the code has no transaction, a
  statement or a remote call that is reported to have failed may have been carried
  out, and a process may be lost at any await: a request that was answered "failed"
  stands for both.
* **Malformed requests** and frames are abstracted to one action that closes the
  socket (`FrameRefused`, `ViewerRefused`) or are not modelled when they only
  return an error.

## 4. ExecutorCoordinator

Sockets are numbered in the order in which the object accepts them, which is the
order `getWebSockets()` lists them in. The fence of a channel, a uuid in the code, is
its number; 0 means none. One variable per piece of state of the code:

| Code | Model |
|---|---|
| `getWebSockets()` and attachments | `executors`, `viewers`, `link`, `accepted` |
| stored presence record | `presence` (its fence), `lastSeen` (its age) |
| `getWebSocketAutoResponseTimestamp` | `pong` |
| `routes: Map<operationId, InflightRoute>` | `routes`; the route object of a call is `operation`, `fence`, `agreed`, `acceptTimers`, `resultTimers` |
| promise returned by `dispatch` / `sessionInvoke` | `answer`, `invoke` |
| `ephemeral`, `pendingFrames` | `ephemeral`, `frames` |
| the executors' own session tables | `sessions` |

`carrier`, `resultOf` and `reported` record which channel carried a command and
whose result answered a call, and `greeter` whose hello was handled last. The actions have the names of the handlers:
`AcceptChannel`, `AcceptViewer`, `OnHello`, `OnEvent`, `OnAccepted`, `OnResult`,
`OnSessionFrame`, `OnSessionClose`, `ChannelClosed`, `ViewerClosed`, `Dispatch`,
the timers, `InvokeRequest`/`InvokeStart`/`InvokeTimeout`, `Tick` (time passes,
the runtime answers some pings), `Restart`, `Hibernate`. Payloads, capabilities
and workspaces are left out; a chunk is only its index; ages only
distinguish fresh, stale and offline.

`DispatchContract` is what a caller is promised: a call is refused at once or
becomes live, a live call is answered once, with a code that agrees with whether
the executor had accepted, live calls carry different operation ids and are at
most `MAX_INFLIGHT_ROUTES`. `ExecutorCoordinator` implements it
(`KeepsDispatchContract`).

### Runs

| Run | Question | Bounds, and why they are enough |
|---|---|---|
| `coordinator_dispatch` | Do routes, answers and fences stay consistent, is the contract kept, is every sent call answered, does every invoke leave the map? | 2 calls that may share an operation id, 1 invoke of 2 chunks, 2 channels, room for 1 route: the second call finds the object full or the id in use, and a call of each channel exists when the other closes. No viewers and no ages, which routes do not look at |
| `coordinator_sessions` | Do sessions and viewers follow the newest channel, does the ephemeral map hold only unanswered calls, is the channel greeted last online as long as it is open and answers pings, whatever the channels it replaced still send and whenever they close? | 2 viewers, 2 invokes with room for 1, 2 frame ids of 2 chunks with room for 1 frame, 2 channels, ages to 1: every limit is reached, chunks come out of order, both viewers outlive a channel. No dispatch calls |
| `coordinator_lost_invoke` | Is a waiting invoke in the map? (no, section 12) | the smallest instance that shows it |

`Interchangeable` declares calls, operation ids, invokes and frame ids symmetric;
only `coordinator_sessions` uses it, which checks no liveness. Sockets are never symmetric: their order matters.
Deadlock is not checked, because the bounds on channels and calls let every
behaviour stop.

Fairness (`FairSpec`): the runtime fires the timers it was given, and a body
that has begun to arrive is read. Nothing is assumed of executors, viewers or
the network: `RequestsAnswered` holds with an executor that never says a word.

### Proofs (`ExecutorCoordinator_proofs`)

For any calls, operation ids, invokes, limits and numbers of channels and
viewers, from `ConstantsAssumption` alone:

* `TypeCorrect`. `TypeOK` is inductive.
* `SocketsInOrder`, `NewestChannelOnly`. The strengthening is `SocketOrder`: socket
  numbers that are in use are at most `accepted`, and open channels and viewers
  were accepted after every other channel. It is needed because
  `SingleChannel` says nothing about the number the next channel will get.
* `NoCallLost`. `PendingIsRouted` needs `RouteShape` (routes are of requests that
  have a route object; timers only of such requests), since a timer of a route
  whose send failed goes on running while the operation id is used again.
* `NothingLeftBehind`: no record and no route names a channel whose close has
  been handled. Follows from the same invariant, with the order of sockets.
* `ImplementsContract`: `Spec => KeepsDispatchContract`. Each action is shown to be a
  move of the contract for the call it touches and a stutter for all others
  (`CallStep`), and the limit follows from an injection of live calls into
  occupied operation ids (`LiveWithinLimit`), by `CallInv`.
* `GreetedIsOnline`, for any ages. `GreetedInv`: while the channel greeted last is open, the
  record is its own. Only a hello changes `greeter`, and only a hello, or the close of the
  very channel whose record it is, changes the record (`GreetedMoves`); a new channel is not
  the greeter, for which `SocketOrder` is needed. Its youngest pong then makes
  `presenceState()` answer "online".
* `EphemeralWaits`: an invoke leaves the map in the step that answers it.
* `ViewersReleased`, with `NoSessionYet`: sockets not accepted yet have no sessions, so a
  new viewer starts without one.
* `ResultsStayHome`. `ResultInv`: the result that answers a call came from the channel its
  route is fenced to, whichever command it is the result of. That is the channel the
  call was sent on unless it was sent between an upgrade and its hello, the one exception
  the property names.

`SingleChannel` is proved and in no run. Only model-checked: `RequestsAnswered` and
`InvokesLeave`, which are liveness.

## 5. SwarmMachineCoordinator

The same numbering of channels. `presence` and `headState` are the record,
`cursor` and `events` the two storage keys of the replay buffer, `after`, `page` and
`seen` a reader who follows `nextCursor`. A frame is its number in the
order of arrival and `origin` records the channel it came on. `CrashInFrame` is
the loss of the object before the last put of an append: what `appendFrame` has
stored by then is `Interrupted`.

| Run | Question | Bounds, and why they are enough |
|---|---|---|
| `swarm_machine` | Is the head state the owner's, do commands only go to the newest channel, are cursors ordered, does the reader skip nothing and see nothing twice, is a stored frame read or pushed out in the end? | 2 channels, of which the replaced one still speaks, 1 command, 4 frames through a buffer of 2, pages of at most 2 asked for as 0, 1 and 3 (0 and 3 are clamped): the buffer is cut while the reader is inside it, and an append is lost at each put |

Fairness (`FairSpec`): the reader keeps asking for the smallest of the pages he asks
for (`Smallest`), nothing else. Asking for larger ones is up to him.

### Proofs (`SwarmMachineCoordinator_proofs`)

For any limits and bounds: `TypeCorrect`, `CursorsGrow`, `ReaderMissesNothing`,
`ReaderSeesOnce`. The inductive invariant is `Inv == TypeOK /\ BufferInv`: the
counter is at most the number of frames received, cursors and frames grow along the
buffer, and an entry's cursor is at most the reader's `after` exactly when its
frame is in `seen`. The last equivalence is what makes both reader properties
inductive: one direction is `NothingSkipped`, the other `SeenOnce`. Appending
is `FrameStep`, an interrupted append `CrashStep`, reading `ReadStep`.

`HeadStateIsOwners` adds `HeadInv` (the heartbeat the head state comes from has been
received) and `CommandsGoToNewest` is a step property that follows from `ChannelInv` (an
open channel is the last one accepted). Only model-checked: `FrameIsRead`.

## 6. ConnectionRegistry and ClientRelay

Without Durable Objects, executors and desktops hold server-sent event streams to
one process. `ConnectionRegistry` is the executors' side, `ClientRelay` extends it
with the desktops' side. Streams and links are numbered in the order in which they
are opened; the number is also the fence, 0 means none. Rows of the database only
matter as the authority that admitted a link and as active or revoked.

| Code | Model |
|---|---|
| `connections`, `staleExecutors`, `pendingHello` | `stream`, `tombstones`, `hello` |
| `writableEnded` of a stream; `lastActivityMs` older than `STALE_AFTER_MS` | `ended`, `quiet` |
| `desktops` with fence and authority; `rates` | `link`, `authority`, `rate` |
| `byCommand`, `byCorrelation`, `pending` | the same names; a route is the call that made it |
| `route.desktopFence`; the stream `dispatch` wrote to | `fence`, `sentOn` |
| the promise of `command()` | `answer` (`looking`, `found`: between its awaits; `waiting`: registered) |
| safe errors and terminal output written to the link | `ends`, a count per call |
| the transaction around a revocation | `revoking`, `revoked` |

A method is one action, because nothing interrupts it between awaits. `command()`
is cut at its lookups: `Command`, `Lookup`, then `RefuseRoute`, `RouteFails` or
`Route`. Listeners run inside the method that calls them: `FenceExecutor` is a
part of `OpenStream`, `StreamStale`, `RouteFails` and `RevokeExecutor`, and
`close()`, called back by the end of a link that is taken over or evicted, is a
part of `OpenLink`. `CloseLink` is the desktop going away by itself. An
executor's stream that is cut stays registered (`Cut`), as the controller intends, until a
write fails or somebody finds it stale.

Abstractions. A credential has one generation while it is valid, so generations
are left out. A request may have been admitted before the revocation that would
refuse it, so `OpenStream` and `OpenLink` are not guarded by `revoked`; the state of
the rows is read by `Lookup`. A refused link changes nothing and is no step. A
sink refuses a write only after it has ended (`sse_stream.ts`), so
backpressure is `WriteFails`, and on a link, whose end is noticed at once, it
does not occur. Clocks do not move inside a method: what was found fresh
by `matches` is fresh for `dispatch`. Output that is not terminal changes
nothing. `close()` of the registry has no caller. The limits of 1 024 hellos and
tombstones only make them expire early.

| Run | Question | Bounds, and why they are enough |
|---|---|---|
| `relay_routes` | Do routes die with their link and their stream, do the three maps agree, is anybody forgotten, does a route answer to a link of the row that posted its command, does every call settle? | `Loads` is a command and its retry with the same ids, or the command and another of the same desktop; 2 streams, 2 links, a second desktop competing for a table of 1 link, 1 command in flight, 1 revocation: the retry meets the first one's route at every stage, and every route can be taken over, evicted, cut, found stale or revoked |
| `relay_revoked_link` | Does a revoked executor's client lose its link? (no, section 12) | the smallest instance that shows it |

Fairness (`FairSpec`): an accept timer that runs fires. Nothing is assumed of
executors, desktops or rows. Deadlock is not checked: the bounds on streams
and links let every behaviour stop.

`WaitingIsRegistered` and `CallSettles` except one kind of call, on purpose. When an
executor sends terminal output for a command that it has not accepted yet,
`routeOutput` removes the route with its timer and `removeRoute` is given no result:
the output reaches the desktop, and the promise of `command()` is never resolved.
The relay therefore does not implement `DispatchContract`. No text in the
repository says what should happen, so this is stated as the exception and not
as a disagreement.

### Proofs (`ClientRelay_proofs`)

For any sets of executors, desktops and calls and any limits: `TypeCorrect`,
`RoutesDieWithLink`, `RoutesDieWithStream`, `IndexesConsistent`, `NoWaiterForgotten`,
`NoOrphanStream`, `NoStaleTombstone`, `RoutesKeepAuthority`, `EndIsAnnounced`, and
`RelayKeepsRegistry` (`Spec => RegistrySpec`).

The inductive invariant `IInv` joins the safety properties, which need one another: a
call keeps waiting only because the maps agree, the maps agree because a call that
is not routed has an answer that says so, and a final frame is written once because a
routed call has had none (`NotTold`) and is on the link its desktop has
(`RouteOnCurrentLink`). `FenceKnown` remembers across the awaits of `command()` that
the call was made on a link at all. Nearly every step removes a set of routes and
answers their calls; `RemovalKeeps` proves the invariant for all of them at once, and
each action only shows which set it removes and that the others are left alone.
The registry's invariant adds `StreamsOpened`, so that the number of a new stream is
new. `EndIsAnnounced` needs the same of links (`LinksOpened`): a link that is taken
over has another number than the one the call was made on. So does
`RoutesKeepAuthority`: `AuthorityInv` says that while a desktop still has the link a call
was made on, that link's row is the one that posted the call, which the row that opens the
next link may not be.

The assumptions are `RegistryAssumption` and `RelayAssumption`: the bounds are
natural numbers, the limits positive, a call is a record of the right sets and
desktops are not executors.

`OpenIsRegistered`, `TombstoneIsOfAbsent` and `RouteMatchesAnswer` are
proved and in no run. Only model-checked: `CallSettles`.

## 7. ExecutorClaims, with the deployment identity

Executors and desktops register themselves with a claim, an account accepts or
denies it, the owner renames or revokes the machine. The two services are the same
program up to what a duplicate and a repeated accept are answered, so one module
models both: `Executors` may register again and replace a claim, `Desktops` may not.

| Code | Model |
|---|---|
| machine, claim and credential rows, as committed and as a transaction has written them | `stored`, `draft`, one row per machine and table |
| row and key locks of the database | `lock` |
| the queue of decisions of a process | the guard of the first statement of a decision |
| the deployment identity's row, the id a process remembers, the look-up its requests share | `IdentityRow`, `identity`, `loading` |
| the claim's expiry | `lapsed` |
| the answer, and the identity it names | `answer`, `named` |

A statement sees what was committed when it began and what its own transaction has
written; a row that another transaction has written is waited for (READ COMMITTED).
`createClaim` writes the machine and then the claim, `acceptClaim` the claim and then
the machine, so transactions can wait for each other: the database ends one of them
(`DeadlockVictim`). Any statement may fail, and a commit may be reported as failed
although it was carried out. In-memory effects of a revocation belong to `ClientRelay`.
Audit rows, display data and the expiry of desktop credentials are left out.

`Ownership` is the promise: a machine is free, then owned by one account, then revoked for
good; its machine, claim and credential rows change together; nobody is told
"accepted" or "revoked" of a machine that is not theirs. `KeepsOwnership` is the
refinement; its mapping sends rows that disagree to "torn", which `Ownership` does not
know.

| Run | Question | Bounds, and why they are enough |
|---|---|---|
| `executor_claims` | Is `Ownership` kept, do two processes name one identity, is every request answered? | every choice of three of eleven requests of 1 executor and 1 desktop, and eight choices of four: registrations that replace a claim, decisions of 2 users in 2 processes, a revocation and a renaming, all overlapping |

Fairness (`FairSpec`): a statement that can proceed does, and the database ends
deadlocks. Requests are not obliged to come.

`IdentityAgrees` admits one case: a process remembers an identity that it made up in a
transaction which then rolled back, and goes on to name it (section 12).

### Proofs (`ExecutorClaims_proofs`)

For any machines, users, processes and requests: `TypeCorrect`, `IdentityIsOne` and
`ImplementsOwnership` (`Spec => KeepsOwnership`). `IInv` has these parts:

* `Whole`: what is committed of a machine is free, owned or revoked. It says more than
  "not torn": who owns or owned a machine is an account, and is who its claim was
  accepted by.
* `Locked`, `Located`: rows are locked by open transactions on their machine; a request is
  at a statement of what it asks for.
* `Transactions`: for every statement, what a transaction that has come so far has
  locked and written. The agreement of the three rows is not inductive without it:
  a commit replaces committed rows by drafts, and that the drafts belong together is known
  only from the order of the statements. Rows a transaction has locked stay as committed
  until it ends; of rows it has only read it may keep what never changes
  back (`Settled`, `AcceptedBy`, `Owner`). `Advances` is that order, and
  `OthersGoOn` the lemma that no commit invalidates what another transaction knows.
* `IdentityInv`: an identity that is remembered or named can be traced (`Traced`): it is stored,
  its transaction is about to commit it, or that transaction has failed.

For the refinement each step is quiet, a request that gives up, or a commit (`StepIs`). A
commit changes one machine as `Changes` says, which is a `Take`, a `Revoke` or a stutter
of `Ownership` (`CommitMoves`), and what the request is told is true (`TellsOnce`).
Only model-checked: `RequestsSettle`.

## 8. OAuthGrants

Consent creates a connection and a code and supersedes the app's older connections; a code
is exchanged for an access and a refresh token; a refresh rotates both; the dashboard
revokes. A connection is known by its consent, a token by the request that mints it. Each
statement stands alone and may fail with or without its effect; codes and tokens may
expire between two statements. The compensation of a failed approval is part of the
model, and so is a presented token that has already been rotated.

| Run | Question | Bounds, and why they are enough |
|---|---|---|
| `oauth_grants` | One chain of tokens per consent, nothing usable after a revocation, older connections superseded? | up to 6 requests: a code presented twice and a token refreshed twice around a revocation; two consents of one app with the tokens of the first in use; a client without a name beside them |
| `oauth_newest_consent` | Does the newest consent survive? (no, section 12) | two approvals |

`RevocationHolds` is about use, not rows: an exchange that was past its check when the
connection was revoked leaves active tokens behind, and authentication refuses them
because it also looks at the connection. All properties are safety; there is no
fairness. Client registration and the edit of a connection's settings are not modelled.

### Proofs (`OAuthGrants_proofs`)

For any finite set of consents and any requests: `TypeCorrect`, `SingleChainHolds`,
`RevocationIsFinal`, `OlderAreSuperseded`. The inductive invariant joins

* `Shape`: where requests can be (`Control`), whose tokens they present (`Provenance`), and
  that a connection and its code exist from the statements that insert them on (`Unborn`,
  `Born`, `Numbered`);
* `OneClaimant`: at most one exchange of a consent has got past `consume`, the update that
  only one caller's `WHERE` matches;
* `OneLive`: at most one request of a consent has a refresh token that works or is about to
  insert one. `SingleChain` alone is not inductive: between `rotate` and the
  insertion of the next token no token is active, and a second rotation must be known to
  be impossible then;
* `RevokedForGood` and `SupersedesOlder`: a connection that is revoked stays so, and no
  approval brings an older one back.

## 9. SwarmLifecycle

A swarm is created once per owner and idempotency key, machines are launched as ECS tasks
and stopped one by one or with their swarm. `machine` is the row, with whether the
task's ARN is recorded; `task` is what ECS runs. `left` and `at` are the loop of
a stop over its machines; `listed` and `saw` remember which rows a stop read and
which of them had a task. The answer of the coordinator's `/send` is not looked at by
the code and so not modelled.

| Run | Question | Bounds, and why they are enough |
|---|---|---|
| `swarm_lifecycle` | Do creates with one key make and name one swarm, whatever their bodies, and does a stop lose a task? | up to 4 requests: creates repeated with one key, with another body, by another account that takes the id; launches of 1 or 2 machines around 1 or 2 stops, with each call of the database and of AWS failing with or without its effect |

`NoOrphans` says which tasks can run on beside a row that says "stopped", and that there
are no others: those missed by a stop that read the row when the task was not recorded in
it, because the launch had not got there yet or because it had failed. Neither is
contradicted by a text of the repository.

### Proofs (`SwarmLifecycle_proofs`)

For any swarms, owners, keys and requests: `TypeCorrect`, `IdempotencyHolds`,
`OrphansWereMissed`. Of the inductive invariant,

* `Shape` has the unique constraints as facts about rows (`SwarmInv`): a key of an owner
  belongs to one swarm, a generated id is that of the request that made it;
* `CreateInv` ties every answer of a create with a key to the row of that key: which body
  it was made from, or who else holds the id. A create that is about to look again after a
  unique violation (`find-again`) will find one of the two, since rows are never deleted.
  That creates with one key, whatever their bodies, name one swarm follows from it.
  `CreatedOnce` is the part of the property about two answers "created";
* `MachineInv`, `StopInv`, `StoppedInv` follow a stop: what it listed exists, what it saw with
  an ARN has one, and when it comes to write "stopped" the task has been stopped or it
  had not seen it.

## 10. ExportRelay

Each record of an invocation is sent to the relay once and waited for, the relay
admits it with a receipt, and its alarm posts a prefix of the queue to KaziQuery.
`queue` is the stored value of that name (with the batch in flight), `receipts`, `alarm`
the rest of the storage, `handler` the runs of the alarm, of which several may overlap,
`posted` what is on its way, and `accepted` and `stored` are KaziQuery. Answers may be lost,
requests carried out twice, posts arrive after they were given up, runs be killed
at every await. Delays and the count of failures that only sets them are left
out, a record's validity and its receipt are looked at in one step, and records
that are malformed or come back with another fingerprint are not modelled.

`ExportLog` is the promise: admitted records form a log without a gap, and the receiver
holds a prefix of it. `KeepsLog` is the refinement. The log is what KaziQuery has stored
followed by what of the queue it has not (`Outstanding`): a batch whose 202 was lost is
in both and must be counted once.

| Run | Question | Bounds, and why they are enough |
|---|---|---|
| `export_relay` | Is the log kept, is no admitted record dropped, does each arrive? | 3 records, of which one may age and one is too large, through a queue of 2 and batches of 2, two overlapping runs, two destinations: the queue is full, a batch is replayed while a record is admitted, a release changes the destination under a batch |

Fairness: an alarm that is set fires; not every run is killed before it posts; a
post reaches KaziQuery in one of the attempts, and its 202 the relay. `RecordsArrive`
is only claimed if the relay does not stay blocked or misconfigured.

### Proofs (`ExportRelay_proofs`)

For any records, limits and destinations: `TypeCorrect`, `NoneIsDropped`, and
`ImplementsLog` (`Spec => KeepsLog`). The invariant is about `Admitted`, which is `stored \o
Outstanding`, the log of the abstract specification:

* `BatchInv`, `PostInv`: a post that KaziQuery has not accepted is of the batch in flight, and
  a post of that batch carries exactly the front of the queue. Without it a delayed
  post could bring entries of another batch, or in another order;
* `NumberInv`: the next number is the length of the log, so numbers have no gap;
* `ReceiptInv`: receipts, what senders were told, and the log agree, but for receipts that
  aged. It is what makes a record that is sent again not be admitted again.

An acceptance moves the front of the queue from one half of `Admitted` to the other and
leaves it the same; the 202 only forgets the batch. Only model-checked: `RecordsArrive`.

## 11. Accounts and Sessions

`Accounts` is signup, login and Google sign-in for the accounts of one address; the
username is unique and the address is not. `Sessions` extends it with the session that a
sign-in creates, its uses, expiry and logout, and the agent session that is handed
over from it. An account is known by the request that made up its id, a session by the
request it was made for. `born` is the clock as an account's request read it, which is
not the order in which the rows are stored; `found` and `seen` are the rows a request has
read, `now` the clock when it judged or extended a session, `earlier` the requests that
were over when it came.

Left out: rows of identities, which are only written; disabled accounts, which no code
makes; wrong CSRF tokens; the revocation of agent sessions, which nobody asks for. A
session whose creation failed is nobody's and is not kept. Time passes only once
a session exists that some request uses.

| Run | Question | Bounds, and why they are enough |
|---|---|---|
| `sessions` | Can who signed up sign in, is the account the same again, are passwords kept; does a session that has ended stay ended, is a hand-off redeemed once? | up to 6 requests. Google before and after signups with one and with two names, with a login of the second; a check, a logout and a hand-off of one session; three checks around its expiry; a hand-off presented twice; three uses of an agent session. Idle time 1 and absolute time 2, so that a use can extend a session and cannot for ever |

Three properties state exceptions that the code has and no text denies:
`SignupIsGood` (another signup set the password of the same account first, and the
statement that then changes nothing is answered "created"), `SameAccountAgain` (an account
was being created when he came first) and `AgentComesBackByRace` (an agent session is not
revoked when it expires, and a use that found it alive extends it afterwards).

### Proofs (`Sessions_proofs`)

For any requests, names and lifetimes, of `Accounts` and `Sessions` together: `TypeCorrect`,
`PasswordStays` (`[][...]_vars`), `SignupHolds`, `SameAccountHolds`, `EndHolds`, `AgentComesBack`,
`HandoffHolds`. All properties are safety. `Shape` says at which statement what has been found,
answered and given (`Located`, `Answered`, `Given`), that readings of the clock are
distinct and past (`ClockInv`), and which rows there are (`StockInv`). On it rest five
invariants that need only `Shape`, one for each property:

* `SignupInv`: a signup that is about to set a password on an account that has one by now
  was overtaken by a signup that was not over when it came;
* `GoogleInv`: the account a sign-in came to is the first born of all that were stored, or
  another was being created. `born` is read before the row is stored, so this has to speak
  of requests that have a time and no row yet;
* `EndInv`: the session of an ended request is `Closed` (its row is no longer active), and a
  later request has not read it, has read it as it is, or was refused;
* `AgentInv`: the same without `Closed`, which an agent session is not: it has expired unless
  a use has raced with the one that found it so;
* `HandoffInv`: a hand-off that is redeemed is marked as consumed, and one request did it.

## 12. Where the code and its own words disagree

With a run and a counterexample of a few steps:

* `coordinator_lost_invoke`: the timer of an invoke sends `session.close` before it
  resolves; on a closing channel the send throws and the caller waits for ever,
  where `test/unit/durable-objects.test.ts:836` expects a 504.
* `relay_revoked_link`: `connect_client_relay_service.ts:183` says that when an
  executor credential is revoked every client admitted through it loses its
  link. The links are taken away before the transaction commits
  (`connect_executor_service.ts:393`); a client that reconnects in between keeps
  its new link after the commit.
* `oauth_newest_consent`: `oauth_authorize_service.ts:288` says that new consent
  supersedes the user's older connections of the app. Of two approvals that
  overlap each revokes the other's connection, and neither user has one.

Met while modelling; no run of its own:

* `durable-objects.ts:381` says a replaced channel closing must not knock the new one
  offline. If its close is handled before the new channel's hello, the record still
  carries its fence: presence is deleted and the new channel's viewers are closed.
* `durable-objects.ts:707` says a late frame is never attached to a newer request that
  reuses the id. A command sent before the new channel's hello goes to the new channel
  under the old fence, and a late result of the old one answers it.
  `ResultFromOwnChannel` excepts just these calls.
* `connect_executor_service.ts:114` says that a machine that was never accepted may
  restart and claim again. One whose claim was denied cannot: its claim row is not
  pending and is not replaced.
* `connect_desktop_service.ts:382` says that a unique violation is a conflict. Only
  SQLite's wording is recognised; on Postgres a desktop that registers twice is told
  "failed".
* `connect_website_deployment_identity_service.ts:11` says that callers never answer with
  a made-up id. A process that made the id up in a transaction that rolled back
  remembers it, and answers with it until it ends.
* `test/application/connect-auth-sql.test.ts:262` links Google and password sign-in to one
  account. After two first sign-ins with Google that overlap, the signup may be given
  the other account (`SameAccountAgain` and its exception).

## 13. Not modelled

* **Tool grants and dispatch.** A grant is one row, written by one statement; the
  dispatch service is a client of `ExecutorCoordinator`. The edit of a connection's
  settings does race with itself (see `hazards`) and would be the next thing to add to
  `OAuthGrants`, with client registration.
* **Proxied swarm routes.** They pass a request on to a coordinator and keep nothing.
* **Releases, downloads and updates.** Read-only look-ups and comparisons of versions.
* **Request parsers and the generated validator.** Stateless checks of shape: the models start
  from parsed requests. The validator is generated from a schema and is by far the
  largest file of the repository.
* **User interface, infrastructure, migrations, scripts.** No state the server depends on; the
  schema's constraints are in the models.
* **Proofs of liveness and of ENABLED** are out of the prover's reach: `RequestsAnswered`,
  `InvokesLeave`, `FrameIsRead`, `CallSettles`, `RequestsSettle` and `RecordsArrive` are
  checked by TLC on the instances above and nowhere else.
