---------------------------- MODULE NodeProcess ----------------------------
(***************************************************************************)
(* The process of `mesh proxy` from its login to its end (Proxy.Serve under *)
(* core.RunInterruptible), what the handlers of its HTTP server wait for,  *)
(* and how its goroutines reach a peer (pkg/mesh/service.go): a handler    *)
(* with ProxyToNode, or with the clients that ask for the status of the    *)
(* members, and the discovery loop with the client that fetches a peer's   *)
(* models.  libp2p opens and drops connections, direct ones and relayed    *)
(* ones, which are limited in time, as it likes.                           *)
(***************************************************************************)
EXTENDS Install, Naturals

CONSTANTS
    Handler,    \* goroutines that handle requests of local clients
    Peer        \* other nodes

Discovery == "discovery"

Caller == Handler \cup {Discovery}

\* OnPeerUpdate: WithMaxRetries(3)
Attempts == 4

ASSUME NodeAssumption == Discovery \notin Handler

VARIABLES
    private,    \* the reachability NewService decided on
    address,    \* the host has a circuit address
    cancelled,  \* the context of RunInterruptible is done
    listening,  \* the HTTP server accepts requests
    discovering,\* discovery.Serve was started
    peerstore,  \* peers with a circuit address in the host's peerstore
    peers,      \* Service.peers
    conns,      \* per peer, the kinds of connections there are to it
    call,       \* per goroutine, what it waits for, or where it is in reaching a peer
    attempt     \* which attempt to fetch a peer's models this is

service == <<private, address, cancelled, listening, discovering>>
transport == <<peerstore, peers, conns, call, attempt>>
vars == <<installVars, service, transport>>

\* client: the client of ClientForPeer is used; longLived: the argument of
\* openStream; todo: the peers meshMembers asks after this one.
NoCall == [at |-> "idle", peer |-> "", on |-> "none",
           client |-> FALSE, longLived |-> FALSE, todo |-> {}]

Busy(g) == call[g].at # "idle"
----------------------------------------------------------------------------
(* The process *)

NoConns == [p \in Peer |-> {}]
NoCalls == [g \in Caller |-> NoCall]

Init ==
    /\ InstallInit
    /\ private = TRUE
    /\ address = FALSE
    /\ cancelled = FALSE
    /\ listening = FALSE
    /\ discovering = FALSE
    /\ peerstore = {}
    /\ peers = {}
    /\ conns = NoConns
    /\ call = NoCalls
    /\ attempt = 0

\* The process ends, and its state with it.
Gone ==
    /\ private' = TRUE
    /\ address' = FALSE
    /\ cancelled' = FALSE
    /\ listening' = FALSE
    /\ discovering' = FALSE
    /\ peerstore' = {}
    /\ peers' = {}
    /\ conns' = NoConns
    /\ call' = NoCalls
    /\ attempt' = 0

\* The commands of Install.  One that ends takes its process with it, and so
\* does CommandEnds wherever it is, which includes what the Go runtime does
\* when it notices that two goroutines use the map of connectNode at once.
CommandStep ==
    /\ Command
    /\ IF pc' = "idle" THEN Gone ELSE UNCHANGED <<service, transport>>

AdminStep == adminDeleteNode /\ UNCHANGED <<service, transport>>

\* The end of NewService decides on the reachability; NewProxy, RunInterruptible.
NewProxy ==
    /\ pc = "proxy"
    /\ Goto("waiting")
    /\ private' \in BOOLEAN
    /\ UNCHANGED <<files, command, id, secret, records, history>>
    /\ UNCHANGED <<address, cancelled, listening, discovering, transport>>

\* The relay grants a reservation, or the address is lost.  "FIXME: if the node
\* visibility is forced public it will never see a circuit address".
AddressChanges ==
    /\ pc \in {"waiting", "serving", "shutdown"} /\ private
    /\ address' = ~address
    /\ UNCHANGED <<installVars, private, cancelled, listening, discovering, transport>>

\* The goroutine of RunInterruptible; later signals are dropped.
Interrupt ==
    /\ pc \in {"waiting", "serving"} /\ ~cancelled
    /\ cancelled' = TRUE
    /\ UNCHANGED <<installVars, private, address, listening, discovering, transport>>

\* Service.Connect sees a circuit address in WaitForAddress, which does not know
\* of the context, and starts discovery.  Serve starts the HTTP server, whose
\* failure it does not hear of.
Serve ==
    /\ pc = "waiting" /\ address
    /\ Goto("serving")
    /\ discovering' = TRUE
    /\ listening' \in BOOLEAN
    /\ UNCHANGED <<files, command, id, secret, records, history>>
    /\ UNCHANGED <<private, address, cancelled, transport>>

\* The context is done: Shutdown closes the listener ...
Shutdown ==
    /\ pc = "serving" /\ cancelled
    /\ Goto("shutdown")
    /\ listening' = FALSE
    /\ UNCHANGED <<files, command, id, secret, records, history>>
    /\ UNCHANGED <<private, address, cancelled, discovering, transport>>

\* Mutant: Shutdown waits for the discovery loop too.
ShutdownWaitsForAll ==
    /\ pc = "shutdown" /\ ~discovering
    /\ Goto("idle")
    /\ Gone
    /\ UNCHANGED <<files, command, id, secret, records, history>>

\* ... and waits for the handlers, with no limit.  Then the process ends.
ShutdownDone ==
    /\ pc = "shutdown"
    /\ \A h \in Handler : ~Busy(h)
    /\ Goto("idle")
    /\ Gone
    /\ UNCHANGED <<files, command, id, secret, records, history>>
----------------------------------------------------------------------------
(* Handling a request *)

At(g, step) == call[g].at = step

Step(g, step) == call' = [call EXCEPT ![g].at = step]

\* The HTTP server accepts a connection, and its goroutine reads the request.
Accept(h) ==
    /\ listening /\ ~Busy(h)
    /\ Step(h, "body")
    /\ UNCHANGED <<installVars, service, peerstore, peers, conns, attempt>>

\* A goroutine sets out to reach p.  Every caller of openStream passes true for
\* longLived.
Reach(g, p, client, todo) ==
    call' = [call EXCEPT ![g] = [at |-> "lookup", peer |-> p, on |-> "none",
                                 client |-> client, longLived |-> TRUE, todo |-> todo]]

\* A handler that was accepted calls it also when the listener is closed.
ProxyToNode(h, p) == Reach(h, p, FALSE, {})

\* The request is read or cannot be, and answered at once, by the reverse proxy
\* to a provider, or by a peer.
proxyModelRequest(h) ==
    /\ At(h, "body")
    /\ \/ Step(h, "idle")
       \/ Step(h, "provider")
       \/ \E p \in Peer : ProxyToNode(h, p)
    /\ UNCHANGED <<installVars, service, peerstore, peers, conns, attempt>>

\* The handlers of /api/admin, and GetPeerMap of meshMembers, ask the admin
\* server with a client that has no time limit.
AskAdmin(h) ==
    /\ At(h, "body")
    /\ Step(h, "admin")
    /\ UNCHANGED <<installVars, service, peerstore, peers, conns, attempt>>

\* The provider has answered, or cannot be reached.
ProviderAnswers(h) ==
    /\ At(h, "provider")
    /\ Step(h, "idle")
    /\ UNCHANGED <<installVars, service, peerstore, peers, conns, attempt>>

\* The loop of meshMembers, in the order of a map: a client for the next peer,
\* or the answer.
meshMembers(g, left) ==
    \/ left = {} /\ call' = [call EXCEPT ![g] = NoCall]
    \/ \E p \in left : Reach(g, p, TRUE, left \ {p})

\* The admin server has answered an admin request, or meshMembers with the peers.
AdminAnswers(h) ==
    /\ At(h, "admin")
    /\ \E left \in SUBSET Peer : meshMembers(h, left)
    /\ UNCHANGED <<installVars, service, peerstore, peers, conns, attempt>>
----------------------------------------------------------------------------
(* Reaching a peer *)

\* OnPeerUpdate makes a client with ClientForPeer and starts its attempts.
OnPeerUpdate(p) ==
    /\ discovering /\ ~Busy(Discovery)
    /\ Reach(Discovery, p, TRUE, {})
    /\ attempt' = 1
    /\ UNCHANGED <<installVars, service, peerstore, peers, conns>>

\* connectNode looks the peer up, without a lock ...
Lookup(g) ==
    /\ At(g, "lookup")
    /\ Step(g, IF call[g].peer \in peers THEN "check" ELSE "addDest")
    /\ UNCHANGED <<installVars, service, peerstore, peers, conns, attempt>>

\* Mutant: the map is filled before the address is known.
AddDestLate(g) ==
    /\ At(g, "addDest")
    /\ peers' = peers \cup {call[g].peer}
    /\ Step(g, "insert")
    /\ UNCHANGED <<installVars, service, peerstore, conns, attempt>>

\* ... AddDestViaRelay gives a peer it does not find its circuit address ...
AddDestViaRelay(g) ==
    /\ At(g, "addDest")
    /\ peerstore' = peerstore \cup {call[g].peer}
    /\ Step(g, "insert")
    /\ UNCHANGED <<installVars, service, peers, conns, attempt>>

\* ... and it is put into the map.  An entry written at the same time as
\* another may be lost.
connectNode(g) ==
    /\ At(g, "insert")
    /\ \/ peers' = peers \cup {call[g].peer}
       \/ (\E f \in Caller \ {g} : At(f, "insert")) /\ UNCHANGED peers
    /\ Step(g, "check")
    /\ UNCHANGED <<installVars, service, peerstore, conns, attempt>>

HasDirect(g) == "direct" \in conns[call[g].peer]

\* openStreamDirect: use a direct connection that is there ...
openStreamDirect(g) ==
    /\ At(g, "check")
    /\ Step(g, IF HasDirect(g) THEN "stream?" ELSE "dial")
    /\ UNCHANGED <<installVars, service, peerstore, peers, conns, attempt>>

\* ... or dial one.  It may be gone again before the connections are listed.
DialDirect(g) ==
    /\ At(g, "dial")
    /\ \/ /\ conns' = [conns EXCEPT ![call[g].peer] = @ \cup {"direct"}]
          /\ Step(g, "recheck")
       \/ Step(g, "circuit") /\ UNCHANGED conns
    /\ UNCHANGED <<installVars, service, peerstore, peers, attempt>>

Recheck(g) ==
    /\ At(g, "recheck")
    /\ Step(g, IF HasDirect(g) THEN "stream?" ELSE "circuit")
    /\ UNCHANGED <<installVars, service, peerstore, peers, conns, attempt>>

\* Host.NewStream: on some connection of those the context allows.
StreamOn(g, allowed) ==
    \E c \in allowed : call' = [call EXCEPT ![g].at = "stream", ![g].on = c]

\* Mutant: the context allows limited connections too.
NewStreamAny(g) ==
    /\ At(g, "stream?")
    /\ StreamOn(g, conns[call[g].peer]) \/ Step(g, "circuit")
    /\ UNCHANGED <<installVars, service, peerstore, peers, conns, attempt>>

\* openStreamDirect opens it "no WithAllowLimitedConn", on what is there now, or
\* fails.
NewStream(g) ==
    /\ At(g, "stream?")
    /\ StreamOn(g, conns[call[g].peer] \cap {"direct"}) \/ Step(g, "circuit")
    /\ UNCHANGED <<installVars, service, peerstore, peers, conns, attempt>>

\* The call is over: the answer, or what meshMembers does next.
End(g) ==
    /\ attempt' = IF g = Discovery THEN 0 ELSE attempt
    /\ meshMembers(g, call[g].todo)

\* Mutant: one attempt too many.
FailLate(g) ==
    IF g = Discovery /\ attempt <= Attempts
    THEN /\ attempt' = attempt + 1
         /\ call' = [call EXCEPT ![g].at = "check", ![g].on = "none"]
    ELSE End(g)

\* An attempt has failed.  ProxyToNode answers with 503, meshMembers notes that
\* the peer is not reachable; OnPeerUpdate tries again, with the client it has,
\* or returns the error.
Fail(g) ==
    IF g = Discovery /\ attempt < Attempts
    THEN /\ attempt' = attempt + 1
         /\ call' = [call EXCEPT ![g].at = "check", ![g].on = "none"]
    ELSE End(g)

\* openStream connects over the relay, to have the hosts punch a hole for a
\* later attempt, and fails; only a short-lived stream it opens on what it has.
openStream(g) ==
    /\ At(g, "circuit")
    /\ \/ /\ conns' = [conns EXCEPT ![call[g].peer] = @ \cup {"limited"}]
          /\ IF call[g].longLived
             THEN Fail(g)
             ELSE StreamOn(g, conns[call[g].peer] \cup {"limited"}) /\ UNCHANGED attempt
       \/ Fail(g) /\ UNCHANGED conns
    /\ UNCHANGED <<installVars, service, peerstore, peers>>

\* A stream is open and the peer has not answered.
AwaitsPeer(g) == At(g, "stream") /\ call[g].on # "lost"

\* The request is written and the peer's answer read and passed on.
PeerAnswers(g) ==
    /\ AwaitsPeer(g)
    /\ End(g)
    /\ UNCHANGED <<installVars, service, peerstore, peers, conns>>

\* Mutant: the end of the stream goes unnoticed while it is read.
StreamEndsUnseen(g) ==
    /\ AwaitsPeer(g)
    /\ Fail(g)
    /\ UNCHANGED <<installVars, service, peerstore, peers, conns>>

\* Writing or reading fails: the stream was reset, or its connection is gone.
StreamBreaks(g) ==
    /\ At(g, "stream")
    /\ Fail(g)
    /\ UNCHANGED <<installVars, service, peerstore, peers, conns>>

\* The client of ClientForPeer gives up after 45 seconds.  What openStream
\* does meanwhile goes on in libp2p.
ClientTimeout(g) ==
    /\ call[g].client
    /\ call[g].at \in {"check", "dial", "recheck", "stream?", "circuit", "stream"}
    /\ Fail(g)
    /\ UNCHANGED <<installVars, service, peerstore, peers, conns>>

\* libp2p: the peer connects, a hole is punched, a connection ends and takes
\* its streams with it.
ConnsChange(p) ==
    /\ pc \in {"waiting", "serving", "shutdown"}
    /\ \E c \in SUBSET {"direct", "limited"} :
          /\ c # conns[p]
          /\ conns' = [conns EXCEPT ![p] = c]
          /\ call' = [g \in Caller |->
                IF call[g].peer = p /\ call[g].on \in conns[p] \ c
                THEN [call[g] EXCEPT !.on = "lost"] ELSE call[g]]
    /\ UNCHANGED <<installVars, service, peerstore, peers, attempt>>

Goroutine(g) ==
    \/ Lookup(g) \/ AddDestViaRelay(g) \/ connectNode(g)
    \/ openStreamDirect(g) \/ DialDirect(g) \/ Recheck(g) \/ NewStream(g) \/ openStream(g)

RequestStep(h) ==
    \/ Accept(h) \/ proxyModelRequest(h) \/ AskAdmin(h)
    \/ ProviderAnswers(h) \/ AdminAnswers(h)

Next ==
    \/ CommandStep \/ AdminStep
    \/ NewProxy \/ AddressChanges \/ Interrupt \/ Serve \/ Shutdown \/ ShutdownDone
    \/ \E h \in Handler : RequestStep(h)
    \/ \E p \in Peer : OnPeerUpdate(p) \/ ConnsChange(p)
    \/ \E g \in Caller : Goroutine(g) \/ PeerAnswers(g) \/ StreamBreaks(g) \/ ClientTimeout(g)

Spec == Init /\ [][Next]_vars

\* The goroutines of the process run, a request is read (ReadTimeout), dials
\* (which libp2p limits) and the time of a client end (service.go:179), and a
\* stream fails once its connection is gone.  That the host gets an address, or
\* that a peer, a provider or the admin server answers, is not assumed.
FairSpec ==
    /\ Spec
    /\ WF_vars(Serve) /\ WF_vars(Shutdown) /\ WF_vars(ShutdownDone)
    /\ \A h \in Handler : WF_vars(proxyModelRequest(h))
    /\ \A g \in Caller :
          /\ WF_vars(Goroutine(g)) /\ WF_vars(ClientTimeout(g))
          /\ WF_vars(~AwaitsPeer(g) /\ StreamBreaks(g))
----------------------------------------------------------------------------
\* Every variable has its type, and a fetch makes at most four attempts
\* (proxy.go:161).
TypeOK ==
    /\ InstallTypeOK
    /\ private \in BOOLEAN /\ address \in BOOLEAN /\ cancelled \in BOOLEAN
    /\ listening \in BOOLEAN /\ discovering \in BOOLEAN
    /\ peerstore \in SUBSET Peer
    /\ peers \in SUBSET Peer
    /\ conns \in [Peer -> SUBSET {"direct", "limited"}]
    /\ call \in [Caller -> [at : {"idle", "body", "provider", "admin", "lookup", "addDest",
                                  "insert", "check", "dial", "recheck", "stream?", "circuit",
                                  "stream"},
                            peer : Peer \cup {""}, on : {"none", "direct", "limited", "lost"},
                            client : BOOLEAN, longLived : BOOLEAN, todo : SUBSET Peer]]
    /\ attempt \in 0..Attempts

\* "for the mesh proxy to work we need a direct connection, circuit
\* (relay/limited) connections are short lived" (service.go:139): whatever
\* connections come and go between the checks and the opening of a stream, none
\* that is asked for as long-lived is opened on a relayed connection.
StreamsAreDirect ==
    \A g \in Caller : At(g, "stream") /\ call[g].longLived => call[g].on # "limited"

\* A peer that a goroutine finds in the map has an address to dial, also when
\* another goroutine is in the middle of connectNode (service.go:62-73).
KnownHasAddress ==
    /\ peers \subseteq peerstore
    /\ \A g \in Caller : At(g, "dial") => call[g].peer \in peerstore

\* The handler waits, with no limit, for its provider, the admin server, or the
\* peer it forwarded the request to.
Waits(h) == At(h, "provider") \/ At(h, "admin") \/ (AwaitsPeer(h) /\ ~call[h].client)

\* A request is answered, whatever becomes of the connections, unless it waits
\* without a limit for someone who neither answers nor closes the connection; the
\* discovery loop is never kept from its next round, whatever the peer does
\* (service.go:179, :182-219, handlers_mesh.go:31-76).
CallsEnd ==
    /\ \A h \in Handler : Busy(h) ~> (~Busy(h) \/ Waits(h))
    /\ Busy(Discovery) ~> ~Busy(Discovery)

\* What an interrupt cannot end: the wait for a circuit address, and a handler
\* that waits without a limit.
Stuck == pc = "waiting" \/ \E h \in Handler : Waits(h)

\* An interrupt ends the process, although Shutdown has no time limit, handlers
\* that were accepted go on to reach peers, and so does the discovery loop, unless
\* the process is stuck for good in one of these ways (helpers.go:127-150,
\* proxy.go:246-248, utilities.go:16-38).
InterruptStops == (cancelled ~> ~cancelled) \/ <>[]Stuck
============================================================================
