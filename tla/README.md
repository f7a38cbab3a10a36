# A TLA+ model of Speakeasy (modelmesh)

Speakeasy lets the members of a private mesh use each other's language models.
This directory holds TLA+ modules that model its control plane, its request
routing and the life of its processes, TLC configurations that explore small instances of them, and proofs
that TLAPS checks for every instance. Paths below are relative to `src/`.

## 1. The system

### Parts and their state

| Part | Code | State | Operations |
|---|---|---|---|
| Allow list | `pkg/admin/allow.go` | a set of peer ids under a lock; a file | `NewAllowList`, `Has`, `Add`, `Remove`, `persist` |
| Admin server | `pkg/admin/*.go`, `pkg/jsonkv` | invites and node records in a key-value store; the table of registered nodes and its logical clock in memory; a session key per start | create, list, delete and redeem an invite; log in; authorize, register, refresh, list and unregister a node; delete a node |
| Discovery loop | `pkg/mesh/discovery.go`, `api/client_mesh.go` | the registration held, the last clock seen, the last map of peers | `listenForPeerUpdates`, `diffNodes`; calls `OnPeerUpdate` |
| Model table | `pkg/proxy/modeldex` | per model, local providers and peers | `Refresh`, `AddPeerModels`, `RemovePeer`, `GetModelRoute`, `ListExportedModels` |
| Proxy | `pkg/proxy/proxy.go` | none of its own | `ServeHTTP`, `MeshServeHTTP`, `proxyModelRequest`, `OnPeerUpdate` |
| Notifier | `pkg/proxy/socket` | clients, a queue of 64 actions, a channel of 8 wakeups per client | `Broadcast`, `Register`, `Deregister`, `Poll`, the two pumps |
| Transport | `pkg/mesh/service.go`, `helpers.go` | the map of peers; connections and streams (libp2p) | `connectNode`, `openStream`, `ProxyToNode`, `ClientForPeer` |
| Relay, gate keeper | `pkg/mesh/relay.go`, `gatekeeper.go` | connections (libp2p) | asks `AllowList.Has` while a connection is made |
| Installation | `cmd/mesh/app_init.go`, `app_join.go`, `api/redeem.go` | `node.key` and `config.yaml` | `init`, `join` |
| Processes | `cmd/mesh/main.go`, `pkg/core/utilities.go` | a context per process | `RunInterruptible`, `Serve`, `Shutdown` |
| Web page | `web/js/app.js` | what it shows | refreshes when woken |

`PROJECT.json` lists these and the remaining parts (configuration, command line,
logging, status endpoints, test support) with the reason where one is left out.

### How they interact

A node joins by redeeming an invite at the admin server, which puts it on the
allow list, stores the hash of a fresh secret and hands out the secret. At its
start the node logs in with the secret and gets a session token sealed with the
key of this start of the server. Its discovery loop registers, then polls: each
`Refresh` returns the server's logical clock, and a clock that moved makes the
loop fetch the table, compare it with the last one and tell the proxy of each
peer that came, changed or went. The proxy fetches the list of models of a peer
that came, merges it into the model table and wakes the web pages. A request for
a model is served by a local provider or forwarded, once, to a peer, over a direct
connection. `mesh admin` runs the admin server and the relay in one process, where
both use the allow list; `mesh proxy` runs the proxy and the discovery loop.

### What is hard about it

* Handlers of the admin server run at the same time and change the store, the
  table and the allow list in separate steps; the allow list is written to its
  file after its lock is released.
* The server may stop anywhere. The store and the file survive; the table, the
  clock and the session key do not.
* The loop makes several calls per round, and the table changes between them. An
  answer may be lost after the server acted, and the proxy's handler may fail.
* The model tables of nodes are stale copies of each other, and processes come
  and go while a request is under way.
* Broadcasts and wakeups are dropped when a channel is full.
* Commands that hand a node's identity on to each other in two files may end between
  any two steps, also after the admin server has acted.
* Connections come and go between the checks and the use of one, the map of peers has
  no lock, and a peer may take a request and never answer.
* A process should end on an interrupt whatever its goroutines wait for.

### What should hold

A restart restores the allow list. A registered node is on it, and was registered by
a caller the server still accepts.
A one-time invite is used once. A deleted node is gone everywhere. No change of
the table is missed, and the proxy ends up knowing exactly the registered peers.
A node that loses its registration gets a new one. Requests are served locally
where possible, never loop and are answered. A page is not left stale, and a closed
connection leaves nothing behind. A node keeps its identity, and one that has joined
gets in. An interrupt ends a process and cuts off no write. Section 5 says which of these hold.

## 2. Modules

| Module | Models | Provable part |
|---|---|---|
| `AllowList` | the list, its file, callers that overlap, disk errors, restarts | `AllowListProofs` |
| `Registry` | abstract: a table and a clock that only change together | |
| `AdminServer` | the admin server; extends `AllowList`, implements `Registry` | `AdminServerProofs`, `AdminServerTheorems` |
| `Discovery` | the loop of one node; extends `Registry` | `DiscoveryProofs` |
| `MeshRouting` | model tables and a request, for several nodes | `MeshRoutingProofs` |
| `Notifier` | the queue, the pumps and `Poll` | `NotifierProofs` |
| `AdminProcess` | the process of `mesh admin`: start, shutdown, relay, gate keeper; extends `AllowList` | `AdminProcessProofs` |
| `Install` | `init`, `join` and the start of `proxy` on the files of a node | `NodeProcessProofs` |
| `NodeProcess` | the process of `mesh proxy` and how it reaches a peer; extends `Install` | `NodeProcessProofs` |
| `MCAllowList`, `MCAdminServer`, `MCMeshRouting` | symmetry sets and provider configurations for TLC | |

The modules meet at `Registry`. `AdminServer` implements it (checked and proved),
and `Discovery` is written against it, so what is shown of the loop rests on what
the server promises and not on how it does it.

**AllowList.** `allow` is the map, `file` the lines of the file, `persisting` how
far each goroutine is in `persist`. `Change` is the locked part of `Add` and
`Remove`: it changes the set and takes a copy in any order of the map. The write
is two steps, as `os.WriteFile` is: truncate, then write from offset 0, so two
writers may overlay each other. Ids have one length, so lines coincide.
`solo` is a history variable: the last call of `Add` or `Remove` overlapped no
other and its write did not fail.

**AdminServer.** Every handler is cut where another can interleave: at each
transaction of the store, each critical section, each call of the allow list.
`req[w]` is what the goroutine `w` handles. A redemption is `Redeem` (read the
invite, drop it if expired), `RedeemAdd`, `RedeemPut`, `RedeemBurn`,
`RedeemReply`; a registration is `Register` (token and list) and
`RegisterInsert`; the removals are cut likewise. A secret stands for its hash, a
session for the start whose key sealed it (`session[n] = boot`). Nothing ties the token
of a registration to the node it names, so `Register` takes any token the server accepts,
the administrator's included, and `sentWith` records which. `accepted`
counts the successful answers per invite, up to two. `InviteExpires` is the
passing of time. `Refresh` and `List`, which change nothing a property is about,
are in `Discovery`.

**Discovery.** `pc` is the next call. The admin server is `Registry` plus this
node's account: whether it is on the allow list (`admitted`, asked by a
registration) and whether its secret has a record (`recorded`, asked by the login
of `NewService`). Unregistering takes the first, deletion by an administrator both;
authorizing gives back the first, a new invite both. A registration is its start and its logical time; `told`
is what the proxy was last told of each peer, and `missed` the peers whose handler failed
since they were last told of with success. The proxy's handler may fail for an
addition (a fetch that fails four times) and, in the model, for a removal too, which the
loop is written for although `OnPeerUpdate` returns no error there. `RefreshMisread` is there because
`Refresh` looks for "409" in the whole text of an error, in which a port may
contain it. Sleeps are left out.

**MeshRouting.** `table[n][m]` is a route. A route has at most one provider,
since `AddPeerModels` replaces the whole route whatever was there (it looks the
old one up under the id of the peer). Names of models are lower-cased in requests
but not in tables. Discovery decides when `OnPeerUpdate` runs; here it may run at
any time, in two steps. One request is in flight, since requests only read. It is at
`at`: first at its origin, then perhaps at the peer, while the origin waits. A
provider answers, cannot be reached (502) or is waited for. A peer answers or the
stream fails (503); when the peer's process stops, the request is "lost" at the origin.
When the origin stops, the request is gone with it.

**Notifier.** `stale` records the registered clients for which the table changed
since they were last sent a wakeup. `Broadcast` and `Wakeup` drop what does not
fit, `Register` and `Deregister` wait.

**AdminProcess.** `admin` and `relay` say how far the two `Serve` functions are,
`cancelled` whether the context of `RunInterruptible` is done. A handler takes a
request (`Accept`), changes the list through the actions of `AllowList` and ends.
`ShutdownDone` needs all handlers to have ended, `ShutdownLimit` is the five seconds.
`link[n]` follows one connection through the gater's questions. `ending` records how
the process last ended and `listed` which ids the list had since the start. `Start`
loads the file, so handlers that `Exit` or `Killed` cut off in `persist` meet `Reload`.

**Install.** `keyFile` and `configFile` hold an id and a secret, or say what else is in
the file: each is written by `os.WriteFile`, which truncates first. `records` is the
admin server's store. `CommandEnds` is every error, refusal and kill; `RemoveTorn` is
the user who clears away a file that the commands refuse. `unsaved` records that the
last secret handed out has not reached the file.

**NodeProcess.** `call[g]` says what the goroutine `g` waits for, or how far it is in
reaching a peer. A handler reads its request (`Accept`, `proxyModelRequest`), then answers
at once, waits for a provider, for the admin server (`AskAdmin`: the `/api/admin` handlers
and the list of peers for the status page), or forwards to a peer (`ProxyToNode`).
`meshMembers` then reaches every peer in turn, with a client per peer; `todo` holds the
ones to come. A handler that was accepted does all this also after `Shutdown` has closed
the listener. The discovery loop fetches models in `OnPeerUpdate` with its four attempts.
`peers` is the unlocked map, `peerstore` the addresses libp2p has, `conns` the
kinds of connection there are. `ConnsChange` is libp2p: connections open and end at
any time and take their streams with them. A write to the map at the same time as
another may lose an entry; that the runtime stops the process then is `CommandEnds`.
`openStream` has both of its branches; every caller asks for a long-lived stream, so the
one for short-lived streams, which uses a relayed connection, is not taken.

Definitions named as mutants stand before the definition they alter. They are
plausible mistakes in the same code; each breaks one property, which shows that
the property depends on the code.

## 3. Runs

`tlc -config <cfg> <module>`.

| Run | Instance | Shows |
|---|---|---|
| `admin_process` | 2 ids, 2 handlers, disk errors, 2 starts | A call that runs alone leaves the file equal to the list and repairs what earlier overlaps broke (`SoloWriteMatchesList`); a restart after it changes nothing (`RestartKeepsList`), and no restart admits a node that the run before did not have on its list (`StartAdmitsListed`). A stop within the limit cuts off no write (`CleanStopKeepsList`). Only nodes listed since the start are connected to the relay (`LinkedWasListed`). Admin server and relay end together, even with a handler that never returns (`StopsTogether`). |
| `node` | 2 keys, 2 secrets, a handler and the discovery loop, 1 peer | Wherever commands end, the admin server knows no id whose key is lost (`RecordedIdIsKept`), a key is not replaced (`KeyIsKept`) and a joined node gets in (`JoinedGetsIn`). No long-lived stream is on a relayed connection (`StreamsAreDirect`), a known peer has an address (`KnownHasAddress`), requests and fetches end (`CallsEnd`), and an interrupt ends the process but for the waits that `Stuck` names (`InterruptStops`). |
| `admin_serial` | 2 nodes, 1 request at a time, all operations but the login, 2 starts | Registered nodes are on the list, a one-time invite is accepted once, a deletion removes everything, a redeemed secret gets its node in (`RedeemedGetsIn`). |
| `admin_concurrent` | 1 node, 2 requests at a time, all operations, 2 starts | An accepted one-time invite stays deleted (`OneTimeBurned`), whoever is registered was registered by a caller the server still accepts (`RegistrarIsAccepted`), and the server implements `Registry`. |
| `discovery` | 2 peers, 5 events or faults, 2 starts of the server | No change is missed (`NoMissedChange`), the proxy knows the last map but for peers its handler failed for (`ToldIsLastPeers`) and is told of a peer's registrations in their order (`ToldInOrder`), it ends up knowing the registered peers with the same exception (`Converges`), a lost registration is replaced (`ReplacesRegistration`). |
| `routing` | 2 nodes, 2 models of which one is not lower case, every type of provider, 2 starts each | `NoSelfForward`, `OneHop`, `RoutesWereListed`, `ExportsOwnModels`; a request is served or sent only where the model was offered or listed (`ServedAsListed`), and every one is answered unless it waits for a provider or a peer for ever (`Answered`). |
| `notifier` | 2 connections, a queue of 5, 1 wakeup, 3 updates | No stale page is forgotten (`StaleIsPending`, `EventuallyWoken`), a closed connection leaves nothing and does not come back (`GoneStaysGone`, `LeavesForGood`, `NothingLeaks`). |
| `admin_race_register`, `admin_race_invite`, `discovery_retry`, `discovery_admin_restart`, `routing_local_first` | the smallest that show it | The disagreements of section 5. |

### Bounds

*Two goroutines.* The races are between two handlers: one acts in a gap of the
other. *Two ids* give the file lines that one write replaces and lines that it
leaves. *Two keys and two secrets* let a key be lost in a torn file and replaced, and a
node redeem again after it has joined. *One handler and the loop* are the two kinds of
goroutine that use the map of peers; they meet at a peer, so there is one. The status
page then has one round; `CallAdvances` covers any number. *Without the login* in
`admin_serial` registrations come from the administrator; logins overlap everything else in
`admin_concurrent`. *Two starts* (`MaxBoot`, `MaxEpoch`, `MaxStarts`) have one restart with
state before and after it. *`MaxTime = 3`* lets a node register, leave and
register again within a start. *Secrets:* one more than a node's record, its
configuration and the requests under way can hold, so a fresh one always exists.
*`MaxEvents = 5`* allows a peer to join and leave and join again between two calls
of the loop, with a fault before and after. *A queue of 5* stands for 64: it is
twice the connections plus one, as 64 is for up to 31 connections. With a queue
that registrations and deregistrations alone fill, `StaleIsPending` would not hold. *Three updates*
fill that queue while a client is registered. Symmetry is used only in runs
without liveness.

### Fairness

`Discovery` assumes weak fairness of the loop. `MeshRouting` assumes that the goroutine of a
request runs on unless it is `Waiting` for a provider or a peer: reading a body ends with
the `ReadTimeout` of the server (`proxy.go:231`), a dial ends because libp2p limits it (by its
own default; the constants at `service.go:41` are used nowhere), and a stream to a process
that is gone breaks. Neither the reverse proxy nor `ProxyToNode` has a limit, so nothing is
assumed of a provider or a peer that is there, and `Answered` speaks of requests that do
not wait for ever. Nothing is assumed of faults, joins, leaves or restarts, which are bounded.
`CallFails` stutters, so a call that can succeed in the end does. `Notifier` assumes
weak fairness of `Poll`, `Broadcast` and the writers, that a closed connection makes
its pumps fail (the read deadline and the ping see to it), and strong fairness of
`Register` and `Deregister`, because Go serves the senders that wait on a channel in
the order in which they came. `AdminProcess` assumes that both services run and that the
five seconds pass, and nothing of handlers. `NodeProcess` assumes that goroutines run,
that a request is read, that dials (libp2p) and the client's 45 seconds
(`service.go:179`) end and that a stream fails once its connection is gone. It does not
assume that the relay grants an address or that a peer, a provider or the admin server
answers, and so `CallsEnd` and `InterruptStops` name those cases (`Waits`, `Stuck`).
`admin_process` and `notifier` do not look for deadlock: when the starts, or all
connections and updates, are used up the system is at rest.

## 4. Proofs

`tlapm <module>` proves, for any sets of nodes, goroutines, invites and secrets and
any bounds:

* `AllowListProofs`: `AclTypeCorrect`, `SoloWriteCorrect`, `RestartCorrect`. The
  invariant `SoloInv` adds to `SoloWriteMatchesList` what holds while the solo call
  is under way: at most one goroutine writes, its copy is the list, and after it
  opened the file the file is empty. Assumes that `Node` is finite. `NothingInvented`,
  on which `AdminProcessProofs` builds, says that no step brings an id into the file or a
  copy that the list did not have: two writes that overlay each other mix lines of their
  copies (`OverwriteRange`) and make no new ones.
* `AdminServerProofs`: `TypeCorrect`. `TypeOK` is strengthened by `ReqOK`, which ties
  the fields of a request to the step it is at: a request under way is about a
  node, and a redemption about an invite.
* `AdminServerTheorems`:
  * `RegistryRefinement`: initial states map to initial states, and every step is a
    `Join`, a `Leave`, a `ServerRestart` or a stutter of `Registry`.
  * `RegistrarCorrect`: `RegistrarIsAccepted`, strengthened by the same for the node
    of a request that is past the check of its token.
  * `BurnedCorrect`: `OneTimeBurned`, strengthened by `BurnInv`: a one-time invite
    that a redemption is about to answer is already deleted, and a redemption is
    only ever of an invite that was created, so that its id is not created again.
  * `ListRefinement`: the handlers use the allow list as `AllowList` describes it
    (`ListSimulation`, one case per handler), so its theorems hold in the server:
    `SoloInServer`, `RestartInServer`.
  * `OnceAlone`: `OneTimeOnce` in every behaviour where no two redemptions of one
    one-time invite overlap (`RedeemsAlone`). `OnceInv` adds to `BurnInv` that a
    redemption under way is the first of its invite; the count alone is not inductive,
    as it says nothing of redemptions that have passed their checks.
  * `AloneOnAcl`, `AloneGetsIn`: `RegisteredOnAcl` and `RedeemedGetsIn` in every behaviour
    where no two requests about one node overlap (`NodesAlone`); requests about different
    nodes may. `NodeInv` says what is true of its node at each place of a handler
    (`NodePlace`): it is still on the list when it is inserted, out of the registry
    before it leaves the list, and has the record a redemption wrote. A step of one
    handler leaves the places of the others alone (`Undisturbed`), one of its own leads
    to the next (`OwnPlace`).
  * `AloneDeletesAll`: `DeleteNodeRemovesAll` under `NodesAlone` and `AuthorizeWaits`, that
    `apiNodeAuthorize`, which is one step and so no request under way, does not list a
    node in the middle of another request about it. `DeleteInv` adds that the keys a
    deletion collected are still the records of its node.

  The hypotheses are what a lock would have to provide: one per invite, and one per node.
  The code has neither, and without them the first two properties are false:
  `admin_race_invite`, `admin_race_register`. That they leave room for real concurrency was
  checked with TLC: with two goroutines, the hypothesis conjoined to the next-state
  relation, and no faults or restarts, `NodeInv` holds in 41,547 states, `DeleteInv` in 4,796,700
  (two nodes) and `OnceInv` in 1,115.
* `DiscoveryProofs`: `TypeCorrect`, `UsesRegistry`, `NothingMissed`, `ToldCorrect`,
  `SettledIsRight`, `TokenHasSession`, `InOrder`, `NeverAhead`, `RefusedForGood`. `UsesRegistry` is the other side of
  `RegistryRefinement`: every step of the loop and of its surroundings is one of
  `Registry` or leaves it alone. `ClockInv` says
  that clocks held by the loop are not ahead of the server's, within one start, and
  that a map fetched after a clock that has not moved since is the table.
  `ToldInv` says how `told`, the map under way and the sets of peers still to handle
  relate in the middle of a round, for every peer that is not in `missed`; whichever calls
  of the handler fail, `ToldCorrect` needs no assumption on them.
  `SettledIsRight` puts the two together: a loop that would skip its next round has told
  the proxy of exactly the peers registered now, and of those in `missed` of no newer
  registration. It is the safety part of `Converges`.
  `TokenInv` says that a token is of the node's present session, hence `TokenHasSession`:
  a restart of the server ends the registration and the session together, which is
  where `discovery_admin_restart` comes from. `InOrder` needs `OrderInv`: while
  the session is good the maps of the loop are not newer than the table, an update of a
  round takes its peer forward, and the proxy knows at most what the map says from which
  the peer was last handled (`Handled`). The property alone says nothing of the maps that
  the next calls are made from. When the server's clock begins again the session is gone
  with it, so the loop compares no map of one start with one of another.
  `NeverAhead` follows from it for the peers in `missed` too, which `ToldCorrect` excepts.
  `RefusedForGood` rests on `FreshInv`: start and clock of the server name a registration
  once, so one that was refused is not handed out again.
* `MeshRoutingProofs`: `RoutingTypeCorrect`, `NoSelfForwardCorrect`, `OneHopCorrect`,
  `RoutesCorrect`, `ExportsCorrect`, `ServedCorrect`, `RequestAdvances`. `TableInv` says what a table may hold: a node is
  its own peer only where it has a provider, another peer has listed the model, and
  a provider offered it. `RelayInv` says that a request which has crossed the mesh
  carries the flag that keeps it from crossing again. `OneHop` and `NoSelfForward` are
  not inductive without them. Assumes that configurations are sequences of providers;
  the last of several providers of a model wins, for which `LastOf` is proved.
  `ServedCorrect` carries `TableInv` from the table to what a request does with it.
* `NotifierProofs`: `NotifierTypeCorrect`, `GoneCorrect`, `StaleCorrect`, `LeavesCorrect`. `NotifierInv`
  says that each client has at most one action of each kind in the queue, in order,
  and how its pumps and its registration go with them (`Lifecycle`). `StaleCorrect`
  is of every behaviour in which the queue is never `Crowded`, that is, full without a
  broadcast in it: then a broadcast that is dropped is not missed. That is weaker than a
  bound on the number of connections, and it is needed: a queue that registrations and
  deregistrations fill drops the only broadcast. `LeavesCorrect` says that what is gone stays gone.
  It speaks of the queue as well as of the map of clients, since a register action may
  still be queued when the reader is done, and needs that the pumps start together
  (`LeaveInv`).
* `AdminProcessProofs`: `ProcessTypeCorrect`, `ProcessImplementsList`, `RestartInProcess`,
  `SoloInProcessCorrect`, `LinkedCorrect`, `CleanStopCorrect`, `StartAdmitsListedCorrect`,
  `EndIsSharedCorrect`, `StopAdvances`. Every step of the process is
  a step of `AllowList` or leaves it alone (`AclStep`), so the process implements
  `AclSpec` and `RestartKeepsList` and `SoloInv` carry over. `StopInv` adds that only a goroutine that handles a request
  writes the file, and that none does after a clean end. `HeldInv` says that the list, the
  file and every copy under way hold only ids that the list had since the start; a start
  after a kill in the middle of a write finds no others.
* `NodeProcessProofs`: `NodeTypeCorrect`, `InstallTypeCorrect`, `RecordedIdCorrect`,
  `KeyIsKeptCorrect`, `JoinedCorrect`, `StreamsCorrect`, `KnownCorrect`, `CallAdvances`,
  `CallsWhileServing`, `InterruptAdvances`. `NodeTypeCorrect`
  includes that a fetch makes at most four attempts. Of the running process the files see
  only that it goes on or ends (`NextInstall`). `StepInv` says at which steps the
  command's id is the one on disk. `ReachInv` says from which step on a call's peer has
  an address, which is what makes the order of `AddDestViaRelay` and the insertion
  matter, and that every call is for a long-lived stream and none is on a relayed
  connection. `LifeInv` ties calls to the life of
  the process: only one that serves, or waits in `Shutdown`, has calls under way. `CallAdvances` counts
  the steps a call has left, nine for each member that `meshMembers` still has to ask.

Every invariant and every action property of a passing run is proved, some under the
hypotheses named above; the types of `AdminProcess` and `Notifier` are proved and not
checked again by their runs. What is left to TLC is liveness under fairness, which is out
of reach of TLAPS here: `StopsTogether`, `CallsEnd`, `InterruptStops`, `Converges`,
`ReplacesRegistration`, `Answered`, `EventuallyWoken` and `NothingLeaks`. Of most of them
the safety part is proved, for every instance; that the steps are taken is TLC's share.

| Liveness, by TLC | Safety part, proved | What it says |
|---|---|---|
| `StopsTogether` | `EndIsSharedCorrect`, `StopAdvances` | The end of one service is the other's; each step of the stop lowers `ToEnd`, none raises it. |
| `CallsEnd` | `CallAdvances` | Each step of a goroutine that reaches peers lowers what it has left, and no step of anyone else raises it. |
| `InterruptStops` | `InterruptAdvances` | An interrupt stays, and during `Shutdown` no handler takes up another request. |
| `Answered` | `RequestAdvances` | Each step of a request lowers its `ToGo`, which is at most seven, also when its peer stops. |
| `Converges` | `SettledIsRight` | A loop that is at rest is right. |
| `EventuallyWoken` | `StaleCorrect` | A stale page has a broadcast or a wakeup to come. |
| `NothingLeaks` | `LeavesCorrect` | What is gone does not come back. |
| `ReplacesRegistration` | `RefusedForGood` | A lost registration has to be replaced: it does not become valid again. |

## 5. Where the code and what is said of it differ

Each of these is a run that TLC ends with a counterexample, and a finding in
`PROJECT.json` with the line it contradicts.

* `admin_race_register`: a registration between the halves of an unregistration
  leaves a registered node off the allow list ("can be done outside the lock").
* `admin_race_invite`: two redemptions at once of a one-time invite both succeed.
* `discovery_retry`: a peer whose models could not be fetched is not tried again
  until its registration changes (`TriesAgain`). Why `Converges` excepts the peers in
  `missed`.
* `discovery_admin_restart`: a node that outlives the admin server's process never
  registers again. Why `ReplacesRegistration` excepts a lost session.
* `routing_local_first`: a peer that lists a model takes over the node's own route.

Seen while modelling, without a run in `PROJECT.json`:

* Two overlapping calls of `Add` or `Remove` leave a file that is not the list, since
  each writes its copy after it releases the lock (`allow.go:62`; the tests at
  `allow_test.go:113` and `:119` expect the file to hold the list).
  `tlc -config MCAllowListRace.cfg MCAllowList` shows it with `FileMatchesList`, and it
  is why `SoloWriteMatchesList` speaks of calls that overlap no other.
* `init` writes `mesh.admin_address` and `mesh.admin_secret`, which `Config` does not
  have (`core/config.go:51`), so `mesh proxy`, which it names as the next step
  (`app_init.go:383`), ends with "Mesh.Address must be set". The model has this.
* A failing `ListenAndServe` of the proxy is not reported (`proxy.go:237`), and an
  interrupt is not heard while the node waits for a circuit address
  (`helpers.go:127`), which a public node never gets (the FIXME at `service.go:362`).
* A redemption cut off before the configuration is written makes the secret that is
  in it useless (`app_join.go:105`), which `JoinedGetsIn` excepts.
* `AddPeerModels` also drops the other peers of a model, so when the last to list it
  leaves, the model is refused although another still has it (`router.go:207`).
* `ServeHTTP` does not route `/v1/embeddings`, `/v1/messages`, `/api/generate` and
  `/api/embed`, which `README.md:17` lists (`proxy.go:195`).
* The whitelisted models of a private ollama provider are exported: the flag of the
  model is taken (`router.go:61`), not the provider's (`core/config.go:27`).
* A redemption that overlaps the deletion of the same node can leave its record in
  the store with the node off the list (`api_admin.go:325-348`), so
  `DeleteNodeRemovesAll` is stated for one request at a time.
* A model whose name has capitals is never found (`proxy.go:68`); the model has this.

## 6. Not modelled

* Logging, formatting, the command line client, ciphers, the parsing of links and
  YAML, the forms of `init` and `join`: input and output, or libraries.
* libp2p. Connections, dials and streams are an environment that `src/` uses; hole
  punching and reservations are whatever it likes.
* Lines of the allow list that are cut in the middle, and ids of different lengths.
* The torn reads of the data races on the model table (`ListModels`, routes that share
  their map of peers, `router.go:195`). A process may end anywhere in `NodeProcess`,
  which is what the Go runtime makes of those it notices.
* The web page. Its refreshes overlap and are applied in the order in which they end
  (`app.js:1294`). A module for it has to run on top of `Notifier`, since what matters
  is whether a wakeup follows the last change; the smallest such instance has millions
  of states and does not finish with liveness in five minutes.
* `Discovery` and `MeshRouting` composed for several nodes. `MeshRouting` lets an update
  happen at any time, so its invariants hold whatever the loops do.
* What the status and administration endpoints of the proxy answer. What they wait for, and
  that the status page fills the map of peers, is in `NodeProcess`.
