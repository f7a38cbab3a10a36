---------------------------- MODULE AdminProcess ----------------------------
(***************************************************************************)
(* The process of `mesh admin` (cmd/mesh/app_relay.go): the admin server   *)
(* and the relay, run side by side by core.RunInterruptible, share the     *)
(* allow list.  The relay's gate keeper asks the list when a connection is *)
(* made, and not again.  An interrupt, or the end of either service, ends  *)
(* both; the admin server waits for its handlers, but not for ever.        *)
(*                                                                         *)
(* Handlers are those that change the list.  What they do with the store   *)
(* is in AdminServer, where every use of it may fail, as it does for the   *)
(* handlers that are left when Serve closes it.                            *)
(***************************************************************************)
EXTENDS AllowList

CONSTANT MaxStarts  \* bound on the starts of the process

ASSUME MaxStartsAssumption == MaxStarts \in Nat

VARIABLES
    starts,     \* how often the process was started
    up,         \* whether it runs
    admin,      \* Server.Serve: "serving", "shutdown", "returned"
    relay,      \* Relay.Serve: "serving", "returned"
    cancelled,  \* whether the context of RunInterruptible is done
    handler,    \* per goroutine, whether it handles a request
    link,       \* per node, its connection to the relay: "none", "dialled",
                \* "passed" by the gate keeper, "open"
    ending,     \* history: how the process last ended: "clean", "limit", "killed"
    listed      \* history: the ids on the list at some time since the start

services == <<starts, up, admin, relay, cancelled, ending>>
procVars == <<services, handler, link, listed>>
vars == <<aclVars, procVars>>

NoLinks == [n \in Node |-> "none"]
NoHandlers == [w \in Worker |-> FALSE]
----------------------------------------------------------------------------
Init ==
    /\ AclInit
    /\ starts = 0
    /\ up = FALSE
    /\ admin = "returned"
    /\ relay = "returned"
    /\ cancelled = TRUE
    /\ handler = NoHandlers
    /\ link = NoLinks
    /\ ending = "clean"
    /\ listed = {}

\* runAdminAndRelay: NewServer loads the list, NewRelay
\* opens the host, RunInterruptible starts both services.
Start ==
    /\ ~up /\ starts < MaxStarts
    /\ Reload
    /\ listed' = allow'
    /\ starts' = starts + 1
    /\ up' = TRUE
    /\ admin' = "serving"
    /\ relay' = "serving"
    /\ cancelled' = FALSE
    /\ handler' = NoHandlers
    /\ link' = NoLinks
    /\ UNCHANGED ending

\* The goroutine of RunInterruptible that waits for the signal.
Interrupt ==
    /\ up /\ ~cancelled
    /\ cancelled' = TRUE
    /\ UNCHANGED <<aclVars, starts, up, admin, relay, ending, handler, link, listed>>

\* Server.Serve closes the store and returns; RunInterruptible cancels.
AdminReturns(how) ==
    /\ admin' = "returned"
    /\ cancelled' = TRUE
    /\ ending' = how
    /\ UNCHANGED <<aclVars, starts, up, relay, handler, link, listed>>

\* Mutant: RunInterruptible does not cancel when a service ends.
ListenFailsAlone ==
    /\ up /\ admin = "serving"
    /\ admin' = "returned"
    /\ ending' = "limit"
    /\ UNCHANGED <<aclVars, starts, up, relay, cancelled, handler, link, listed>>

\* ListenAndServe fails, at its start or later; handlers may be running.
ListenFails ==
    /\ up /\ admin = "serving"
    /\ AdminReturns("limit")

\* The context is done: Shutdown closes the listener ...
Shutdown ==
    /\ up /\ admin = "serving" /\ cancelled
    /\ admin' = "shutdown"
    /\ UNCHANGED <<aclVars, starts, up, relay, cancelled, ending, handler, link, listed>>

\* Mutant: the handlers are not waited for.
ShutdownAtOnce ==
    /\ up /\ admin = "shutdown"
    /\ AdminReturns("clean")

\* ... and waits until no request is under way ...
ShutdownDone ==
    /\ up /\ admin = "shutdown"
    /\ handler = NoHandlers
    /\ AdminReturns("clean")

\* Mutant: no time limit on Shutdown.
ShutdownNoLimit ==
    /\ up /\ admin = "shutdown"
    /\ handler = NoHandlers
    /\ AdminReturns("limit")

\* ... or for five seconds.
ShutdownLimit ==
    /\ up /\ admin = "shutdown"
    /\ AdminReturns("limit")

\* Relay.Serve: the context is done; the deferred Close drops every connection.
RelayReturns ==
    /\ up /\ relay = "serving" /\ cancelled
    /\ relay' = "returned"
    /\ link' = NoLinks
    /\ UNCHANGED <<aclVars, starts, up, admin, cancelled, ending, handler, listed>>

\* RunInterruptible has waited for both; main returns, and with it go the
\* goroutines that are left.
Exit ==
    /\ up /\ admin = "returned" /\ relay = "returned"
    /\ up' = FALSE
    /\ UNCHANGED <<aclVars, starts, admin, relay, cancelled, ending, handler, link, listed>>

\* The process is killed, or panics.
Killed ==
    /\ up
    /\ up' = FALSE
    /\ admin' = "returned"
    /\ relay' = "returned"
    /\ cancelled' = TRUE
    /\ link' = NoLinks
    /\ ending' = "killed"
    /\ UNCHANGED <<aclVars, starts, handler, listed>>
----------------------------------------------------------------------------
\* A request comes in on the listener.
Accept(w) ==
    /\ up /\ admin = "serving" /\ ~handler[w]
    /\ handler' = [handler EXCEPT ![w] = TRUE]
    /\ UNCHANGED <<aclVars, services, link, listed>>

\* A handler changes the list, or is in the middle of writing it.
HandlerChanges(w) ==
    /\ up /\ handler[w]
    /\ \/ \E id \in Node : Add(w, id) \/ Remove(w, id)
       \/ Persist(w)
    /\ listed' = listed \cup allow'
    /\ UNCHANGED <<services, handler, link>>

\* A handler answers, or fails.
HandlerEnds(w) ==
    /\ up /\ handler[w] /\ persisting[w].stage = "idle"
    /\ handler' = [handler EXCEPT ![w] = FALSE]
    /\ UNCHANGED <<aclVars, services, link, listed>>
----------------------------------------------------------------------------
SetLink(n, from, to) ==
    /\ up /\ relay = "serving"
    /\ link[n] \in from
    /\ link' = [link EXCEPT ![n] = to]
    /\ UNCHANGED <<aclVars, services, handler, listed>>

\* AllowList.Has, which takes the lock that Add and Remove hold.
Has(n) == n \in allow

\* The relay's host dials a node.
InterceptPeerDial(n) == Has(n) /\ SetLink(n, {"none"}, "dialled")

\* Mutant: a connection the host did not dial is not asked about.
InterceptOutbound(n) ==
    \/ Has(n) /\ SetLink(n, {"dialled"}, "passed")
    \/ SetLink(n, {"none"}, "passed")

\* The other side of a connection, either way, has proved its identity.
InterceptSecured(n) == Has(n) /\ SetLink(n, {"none", "dialled"}, "passed")

\* The connection is ready; nothing more is asked.
InterceptUpgraded(n) == SetLink(n, {"passed"}, "open")

Disconnect(n) == SetLink(n, {"dialled", "passed", "open"}, "none")

Next ==
    \/ Start \/ Interrupt \/ ListenFails \/ Shutdown \/ ShutdownDone \/ ShutdownLimit
    \/ RelayReturns \/ Exit \/ Killed
    \/ \E w \in Worker : Accept(w) \/ HandlerChanges(w) \/ HandlerEnds(w)
    \/ \E n \in Node : InterceptPeerDial(n) \/ InterceptSecured(n)
                         \/ InterceptUpgraded(n) \/ Disconnect(n)

Spec == Init /\ [][Next]_vars

\* The goroutines of both services run and the time limit passes.  Nothing is
\* assumed of handlers: a request may take for ever.
FairSpec ==
    Spec /\ WF_vars(Shutdown) /\ WF_vars(ShutdownLimit) /\ WF_vars(RelayReturns) /\ WF_vars(Exit)
----------------------------------------------------------------------------
\* Every variable has its type.
TypeOK ==
    /\ AclTypeOK
    /\ starts \in Nat
    /\ up \in BOOLEAN
    /\ admin \in {"serving", "shutdown", "returned"}
    /\ relay \in {"serving", "returned"}
    /\ cancelled \in BOOLEAN
    /\ handler \in [Worker -> BOOLEAN]
    /\ link \in [Node -> {"none", "dialled", "passed", "open"}]
    /\ ending \in {"clean", "limit", "killed"}
    /\ listed \in SUBSET Node

\* Only nodes that were on the list since the process started are connected to
\* the relay ("we gate access using the admin service AllowList as the
\* gatekeeper", app_relay.go:35), whichever side dials and however the list
\* changes between the gater's questions; one that is open outlives a removal.
LinkedWasListed ==
    \A n \in Node : link[n] # "none" => (n \in listed /\ relay = "serving")

\* A stop that did not run into the limit has cut off no write: the file then
\* holds the list, if the last change of it ran alone (server.go:165-172).
CleanStopKeepsList == (~up /\ ending = "clean" /\ solo) => Range(file) = allow

\* A start after the first admits only nodes that were on the list during the
\* last run, however that ended: writes that overlap, fail or are cut off may
\* mix several copies of the list in the file, but bring in no id that the list
\* did not have (allow.go:18-40, allow.go:52-97).
StartAdmitsListed == [][(Start /\ starts > 0) => allow' \subseteq listed]_vars

\* The end of one service, or an interrupt, ends the process, even when a
\* handler never returns (utilities.go:16-38, server.go:167): it does not go on
\* as a relay without an admin server.
StopsTogether == (cancelled \/ admin = "returned" \/ relay = "returned") ~> ~up
============================================================================
