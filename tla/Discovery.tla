----------------------------- MODULE Discovery -----------------------------
(***************************************************************************)
(* The discovery loop of one node (pkg/mesh/discovery.go): register with   *)
(* the admin server, poll it, and tell the proxy which peers came, changed *)
(* or went.  The admin server is the Registry it promises to be; other     *)
(* nodes join and leave, and the server restarts, between any two calls    *)
(* of the loop.  Sleeps are left out: they only delay the next step.       *)
(***************************************************************************)
EXTENDS Registry, FiniteSets

CONSTANTS
    Self,           \* the node that runs this loop
    HandlerErrors,  \* which of the handler's calls may fail: "add", a fetch of
                    \* models, and "remove", which Proxy.OnPeerUpdate never does
    MaxEpoch,       \* bound on the starts of the server
    MaxEvents       \* bound on what happens around the loop, faults included

ASSUME DiscoveryAssumption ==
    /\ Self \in Node
    /\ HandlerErrors \subseteq {"add", "remove"}
    /\ MaxEpoch \in Nat /\ MaxEvents \in Nat

Peer == Node \ {Self}

VARIABLES
    pc,             \* the next call of listenForPeerUpdates
    session,        \* the epoch in which NewService logged in
    token,          \* the registration held: its epoch and logical time
    logicalTime,    \* result of the last Refresh
    lastLogicalTime,
    lastPeers,      \* LogicalTime per node, 0 for a node not in the map
    currentPeers,
    removed,        \* removedPeers not yet handled
    updated,        \* updatedPeers not yet handled
    goodUpdate,
    admitted,       \* whether Self is on the server's allow list
    recorded,       \* whether the server holds the hash of Self's mesh secret
    told,           \* the registration of each peer the proxy was last told of
    missed,         \* history: peers for which the handler failed when it was last
                    \* called for a registration
    events          \* how much of MaxEvents is used

loopVars == <<lastLogicalTime, lastPeers, logicalTime, currentPeers, removed,
              updated, goodUpdate, told, missed>>
clientVars == <<pc, session, token, loopVars>>
account == <<admitted, recorded>>
server == <<registryVars, account>>
vars == <<server, clientVars, events>>

NoToken == [epoch |-> 0, time |-> 0]

Init ==
    /\ RegistryInit
    /\ admitted = TRUE /\ recorded = TRUE
    /\ pc = "register"
    /\ session = 1
    /\ token = NoToken
    /\ logicalTime = 0 /\ lastLogicalTime = 0
    /\ lastPeers = Absent /\ currentPeers = Absent
    /\ removed = {} /\ updated = {} /\ goodUpdate = TRUE
    /\ told = Absent /\ missed = {}
    /\ events = 0

Event == events < MaxEvents /\ events' = events + 1

\* Mutant: the key of the sessions outlives the start of the server.
LoggedInBefore == session <= epoch

\* The server answers 401 to a session of an earlier start.
LoggedIn == session = epoch
----------------------------------------------------------------------------
(* The loop *)

\* MeshClient.Register succeeds.  Re-registering sets lastLogicalTime to the
\* logicalTime that came with the refusal, which is 0, and keeps lastPeers.
Register ==
    /\ pc \in {"register", "reregister"} /\ LoggedIn /\ admitted
    /\ Join(Self)
    /\ token' = [epoch |-> epoch, time |-> clock + 1]
    /\ lastLogicalTime' = 0
    /\ pc' = "refresh"
    /\ UNCHANGED <<account, session, logicalTime, lastPeers, currentPeers, removed, updated,
                   goodUpdate, told, missed, events>>

\* The first Register or a Refresh fails (no answer, 401, or 400 for a node
\* that is not on the allow list): sleep and try again.
CallFails ==
    /\ pc \in {"register", "refresh"}
    /\ UNCHANGED vars

\* Registering again fails: back to Refresh with the old registration.
RegisterFails ==
    /\ pc = "reregister"
    /\ Event \/ (~(LoggedIn /\ admitted) /\ UNCHANGED events)
    /\ pc' = "refresh"
    /\ UNCHANGED <<server, session, token, loopVars>>

\* The server has registered the node but the answer is lost.
RegisterAnswerLost ==
    /\ pc \in {"register", "reregister"} /\ LoggedIn /\ admitted
    /\ Event
    /\ Join(Self)
    /\ pc' = IF pc = "register" THEN "register" ELSE "refresh"
    /\ UNCHANGED <<account, session, token, loopVars>>

\* apiNodeRefresh: the token is the one of the node's present registration.
TokenValid == token = [epoch |-> epoch, time |-> members[Self]]

\* Mutant: 409 is taken for a passing error.
RefreshIgnores ==
    /\ pc = "refresh" /\ LoggedIn /\ ~TokenValid
    /\ UNCHANGED vars

\* Registration.Refresh is answered 409.
RefreshInvalid ==
    /\ pc = "refresh" /\ LoggedIn /\ ~TokenValid
    /\ pc' = "reregister"
    /\ UNCHANGED <<server, session, token, loopVars, events>>

\* Refresh looks for "409" anywhere in the text of the error: the text of a lost
\* call names both ends of the connection, and a port may contain it.
RefreshMisread ==
    /\ pc = "refresh" /\ Event
    /\ pc' = "reregister"
    /\ UNCHANGED <<server, session, token, loopVars>>

\* Refresh is answered with the clock; a clock seen before ends the round.
Refresh ==
    /\ pc = "refresh" /\ LoggedIn /\ TokenValid
    /\ logicalTime' = clock
    /\ pc' = IF lastLogicalTime # clock THEN "peers" ELSE "refresh"
    /\ UNCHANGED <<server, session, token, lastLogicalTime, lastPeers,
                   currentPeers, removed, updated, goodUpdate, told, missed, events>>

\* Mutant: diffNodes does not leave out the node itself.
GetPeersSelf ==
    /\ pc = "peers" /\ LoggedIn
    /\ currentPeers' = members
    /\ updated' = {n \in Node : members[n] # 0 /\ lastPeers[n] # members[n]}
    /\ removed' = {n \in Node : members[n] = 0 /\ lastPeers[n] # 0}
    /\ goodUpdate' = TRUE
    /\ pc' = "update"
    /\ UNCHANGED <<server, session, token, logicalTime, lastLogicalTime,
                   lastPeers, told, missed, events>>

\* diffNodes against the map of the last round: the peers that are new or
\* registered anew, and those that are gone.
updatedPeers == {n \in Peer : members[n] # 0 /\ lastPeers[n] # members[n]}
removedPeers == {n \in Peer : members[n] = 0 /\ lastPeers[n] # 0}

\* GetPeerMap and diffNodes.
GetPeers ==
    /\ pc = "peers" /\ LoggedIn
    /\ currentPeers' = members
    /\ updated' = updatedPeers /\ removed' = removedPeers
    /\ goodUpdate' = TRUE
    /\ pc' = "update"
    /\ UNCHANGED <<server, session, token, logicalTime, lastLogicalTime,
                   lastPeers, told, missed, events>>

GetPeersFails ==
    /\ pc = "peers"
    /\ Event \/ (~LoggedIn /\ UNCHANGED events)
    /\ pc' = "refresh"
    /\ UNCHANGED <<server, session, token, loopVars>>

\* onUpdate(node, true); a failure puts the node back into the map.
TellRemoved(n) ==
    /\ pc = "update" /\ n \in removed
    /\ removed' = removed \ {n}
    /\ \/ /\ told' = [told EXCEPT ![n] = 0]
          /\ missed' = missed \ {n}
          /\ UNCHANGED <<currentPeers, goodUpdate, events>>
       \/ /\ "remove" \in HandlerErrors /\ Event
          /\ currentPeers' = [currentPeers EXCEPT ![n] = lastPeers[n]]
          /\ goodUpdate' = FALSE
          /\ UNCHANGED <<told, missed>>
    /\ UNCHANGED <<server, pc, session, token, logicalTime, lastLogicalTime,
                   lastPeers, updated>>

\* onUpdate(node, false), after all removals; a failure clears the LastUpdate
\* of the node in the map, which diffNodes does not look at, and keeps its
\* LogicalTime.
TellUpdated(n) ==
    /\ pc = "update" /\ removed = {} /\ n \in updated
    /\ updated' = updated \ {n}
    /\ \/ /\ told' = [told EXCEPT ![n] = currentPeers[n]]
          /\ missed' = missed \ {n}
          /\ UNCHANGED <<goodUpdate, events>>
       \/ /\ "add" \in HandlerErrors /\ Event
          /\ missed' = missed \cup {n}
          /\ goodUpdate' = FALSE
          /\ UNCHANGED told
    /\ UNCHANGED <<server, pc, session, token, logicalTime, lastLogicalTime,
                   lastPeers, currentPeers, removed>>

\* Mutant: the clock is read again after the peers.
EndUpdateLate ==
    /\ pc = "update" /\ removed = {} /\ updated = {}
    /\ lastPeers' = currentPeers
    /\ lastLogicalTime' = IF goodUpdate THEN clock ELSE lastLogicalTime
    /\ pc' = "refresh"
    /\ UNCHANGED <<server, session, token, logicalTime, currentPeers, removed,
                   updated, goodUpdate, told, missed, events>>

\* Mutant: after a failure the whole round is to be done again.
EndUpdateIfGood ==
    /\ pc = "update" /\ removed = {} /\ updated = {}
    /\ lastPeers' = IF goodUpdate THEN currentPeers ELSE lastPeers
    /\ lastLogicalTime' = IF goodUpdate THEN logicalTime ELSE lastLogicalTime
    /\ pc' = "refresh"
    /\ UNCHANGED <<server, session, token, logicalTime, currentPeers, removed,
                   updated, goodUpdate, told, missed, events>>

\* The map is the one to compare with next, also after a failure.
EndUpdate ==
    /\ pc = "update" /\ removed = {} /\ updated = {}
    /\ lastPeers' = currentPeers
    /\ lastLogicalTime' = IF goodUpdate THEN logicalTime ELSE lastLogicalTime
    /\ pc' = "refresh"
    /\ UNCHANGED <<server, session, token, logicalTime, currentPeers, removed,
                   updated, goodUpdate, told, missed, events>>

Loop ==
    \/ Register \/ RefreshInvalid \/ Refresh \/ GetPeers \/ EndUpdate
    \/ \E n \in Peer : TellRemoved(n) \/ TellUpdated(n)
    \/ CallFails \/ RegisterFails \/ GetPeersFails
----------------------------------------------------------------------------
(* What happens around it *)

PeerJoins(n) == Event /\ Join(n) /\ UNCHANGED <<account, clientVars>>

PeerLeaves(n) == Event /\ Leave(n) /\ UNCHANGED <<account, clientVars>>

\* An entry of Self goes from the table, if there is one, and from the list.
SelfLeaves ==
    /\ Event
    /\ Leave(Self) \/ (members[Self] = 0 /\ UNCHANGED registryVars)
    /\ admitted' = FALSE
    /\ UNCHANGED clientVars

\* apiNodeUnregister leaves the record of the node,
SelfUnregistered == SelfLeaves /\ UNCHANGED recorded

\* adminDeleteNode deletes it.
SelfDeleted == SelfLeaves /\ recorded' = FALSE

\* An administrator puts Self on the list again.
SelfAuthorized ==
    /\ ~admitted /\ Event
    /\ admitted' = TRUE
    /\ UNCHANGED <<registryVars, recorded, clientVars>>

\* mesh join with a new invite: a new secret, and on the list.
SelfInvited ==
    /\ ~(admitted /\ recorded) /\ Event
    /\ admitted' = TRUE /\ recorded' = TRUE
    /\ UNCHANGED <<registryVars, clientVars>>

AdminRestarts ==
    /\ epoch < MaxEpoch
    /\ Event
    /\ ServerRestart
    /\ UNCHANGED <<account, clientVars>>

\* MeshClient.Login: 401 unless the record has the hash of the secret.
Login == recorded /\ session' = epoch

\* The node's process is started again: NewService logs in, nothing is kept.
\* (A start whose login fails ends at once; the node then makes no calls.)
SelfRestarts ==
    /\ Login /\ Event
    /\ pc' = "register"
    /\ token' = NoToken
    /\ logicalTime' = 0 /\ lastLogicalTime' = 0
    /\ lastPeers' = Absent /\ currentPeers' = Absent
    /\ removed' = {} /\ updated' = {} /\ goodUpdate' = TRUE
    /\ told' = Absent /\ missed' = {}
    /\ UNCHANGED server

Next ==
    \/ Loop
    \/ RegisterAnswerLost \/ RefreshMisread
    \/ \E n \in Peer : PeerJoins(n) \/ PeerLeaves(n)
    \/ SelfUnregistered \/ SelfDeleted \/ SelfAuthorized \/ SelfInvited
    \/ AdminRestarts
    \/ SelfRestarts

Spec == Init /\ [][Next]_vars

\* The loop's goroutine keeps running; calls that can succeed are not refused
\* for ever (faults are bounded by MaxEvents).
FairSpec == Spec /\ WF_vars(Loop)
----------------------------------------------------------------------------
\* Every variable has its type; the node itself is never among the peers that
\* diffNodes reports (discovery.go:30-56).
TypeOK ==
    /\ clock \in Nat /\ members \in [Node -> Nat] /\ epoch \in Nat
    /\ pc \in {"register", "refresh", "reregister", "peers", "update"}
    /\ session \in Nat
    /\ token \in [epoch : Nat, time : Nat]
    /\ logicalTime \in Nat /\ lastLogicalTime \in Nat
    /\ lastPeers \in [Node -> Nat] /\ currentPeers \in [Node -> Nat]
    /\ removed \in SUBSET Peer /\ updated \in SUBSET Peer
    /\ goodUpdate \in BOOLEAN
    /\ admitted \in BOOLEAN /\ recorded \in BOOLEAN
    /\ told \in [Node -> Nat] /\ missed \in SUBSET Peer
    /\ events \in Nat

\* The check "lastLogicalTime != logicalTime" (discovery.go:127) skips no
\* change: whenever the loop would find the clock it saw last, the map of the
\* last round is the table of the server, although Refresh and GetPeers are
\* two calls between which the table may change.
NoMissedChange ==
    (LoggedIn /\ lastLogicalTime = clock /\ clock # 0) =>
        \A n \in Peer : lastPeers[n] = members[n]

\* Between rounds the proxy has been told of exactly the registrations in the
\* map of the last round, but for the peers its handler failed for: a failure of
\* one of several calls spoils nothing of the others (discovery.go:138-171).
ToldIsLastPeers ==
    pc # "update" => \A n \in Peer \ missed : told[n] = lastPeers[n]

\* When changes stop, the proxy of a node that is on the allow list, and whose
\* session the server accepts, ends up knowing exactly the registered peers, but
\* for those its handler failed for (discovery.go:84-173).
Converges ==
    <>[]((admitted /\ LoggedIn) => \A n \in Peer \ missed : told[n] = members[n])

\* "Retry before giving up; discovery will try again on the next poll if this
\* still fails" (proxy.go:156-157): the same without the exception.
TriesAgain ==
    <>[]((admitted /\ LoggedIn) => \A n \in Peer : told[n] = members[n])

\* A node whose registration is gone, dropped by an administrator or replaced by
\* one whose answer was lost, gets a new one as soon as it is on the allow list,
\* unless its session is gone as well (discovery.go:103-125).
ReplacesRegistration ==
    (token # NoToken /\ ~TokenValid) ~> (TokenValid \/ ~admitted \/ ~LoggedIn)

\* The proxy is never told of an older registration of a peer after a newer
\* one: neither a map that changed while it was handled, nor a peer that left
\* and came back, nor a call that failed, nor a restart of the server, whose
\* clock begins again, turns the order around (discovery.go:127-170).
ToldInOrder ==
    [][\A n \in Peer : told'[n] # 0 => told[n] <= told'[n]]_vars

\* "lost registration is invalid, reregistering" (discovery.go:110): the same
\* without the exception, for the node that outlives the start of the server.
RegistersAgain == (token # NoToken /\ ~TokenValid) ~> (TokenValid \/ ~admitted)
============================================================================
