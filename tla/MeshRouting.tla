---------------------------- MODULE MeshRouting ----------------------------
(***************************************************************************)
(* How a request for a model finds a provider: the model table of every    *)
(* node (pkg/proxy/modeldex), the exchange of tables between peers         *)
(* (Proxy.OnPeerUpdate), and the handling of a request, local first and    *)
(* then over the mesh (Proxy.proxyModelRequest).                           *)
(*                                                                         *)
(* One request is in flight: requests only read the tables, so they do not *)
(* affect each other.  Discovery decides when OnPeerUpdate is called; here *)
(* it may be called at any time, for any peer, one call at a time per node.*)
(***************************************************************************)
EXTENDS Naturals, Sequences, FiniteSets, Functions

CONSTANTS
    Node,
    Model,      \* names of models
    Lower,      \* strings.ToLower on them
    Config,     \* the provider lists a node may be configured with
    Path,       \* URL paths clients use
    MaxStarts   \* bound on the starts of each node

ASSUME RoutingAssumption ==
    /\ Lower \in [Model -> Model]
    /\ \A m \in Model : Lower[Lower[m]] = Lower[m]
    /\ Node \cap Model = {}
    /\ MaxStarts \in Nat

\* What may be configured: models gives the private flag of each listed model.
Providers == [type : STRING, discovery : STRING, private : BOOLEAN,
              models : UNION {[S -> BOOLEAN] : S \in SUBSET Model}]

ASSUME ConfigAssumption == Config \subseteq Seq(Providers)

VARIABLES
    starts,     \* per node, how often it was started; 0: not running yet
    up,         \* the nodes that run
    table,      \* per node, ModelRouter.MeshModels
    update,     \* per node, the call of OnPeerUpdate under way
    req,        \* the request
    fetched,    \* history: per node, what its providers offered at its start
    listed      \* history: per node and peer, what the peer has listed since
                \* it was last removed

processes == <<starts, up, fetched>>
vars == <<processes, table, update, req, listed>>
----------------------------------------------------------------------------
(* The model table *)

\* A route: the local provider (0: none; AddPeerModels replaces the whole
\* route, so there is at most one), its private flag, and the peers.  A model
\* that is not in the map and one whose route is empty are both refused.
Route == [provider : Nat, private : BOOLEAN, peers : SUBSET Node]

NoRoute == [provider |-> 0, private |-> FALSE, peers |-> {}]

IsLocal(r) == r.provider # 0

GetLocalRoute(r) == r.provider

\* Some peer: the first of a map in Go, which is any.
GetMeshPeerRoute(r) == r.peers

AddPeer(r, p) == [r EXCEPT !.peers = @ \cup {p}]

DropPeer(r, p) == [r EXCEPT !.peers = @ \ {p}]

\* Mutant: models of peers are exported too.
ExportedAny(n) == {m \in Model : table[n][m] # NoRoute /\ ~table[n][m].private}

\* ListExportedModels
Exported(n) == {m \in Model : IsLocal(table[n][m]) /\ ~table[n][m].private}

\* The models of provider p and their private flags, when its server lists
\* the models in offered (and, for ollama without a whitelist, runs them).
Fetched(p, offered) ==
    CASE p.type = "ollama" /\ p.discovery = "whitelist" ->
            [m \in DOMAIN p.models \cap offered |-> p.models[m]]
      [] p.type = "ollama" /\ p.discovery # "whitelist" -> [m \in offered |-> p.private]
      [] p.type = "openai" /\ p.discovery = "whitelist" ->
            [m \in DOMAIN p.models \cap offered |-> p.private]
      [] p.type = "test" -> p.models
      [] OTHER -> <<>>

\* Refresh: the models of each provider in turn; the last that has a model
\* sets its route, with the node itself as peer.
Last(S) == CHOOSE j \in S : \A k \in S : k <= j

OwnRoute(n, routes, m) ==
    LET has == {i \in DOMAIN routes : m \in DOMAIN routes[i]}
    IN  IF has = {} THEN NoRoute
        ELSE [provider |-> Last(has), private |-> routes[Last(has)][m], peers |-> {n}]

Refreshed(n, routes) == [m \in Model |-> OwnRoute(n, routes, m)]

\* Mutant: the new route takes over the peers of the old one.
AddPeerKeeps(n, p, models) ==
    table' = [table EXCEPT ![n] = [m \in Model |->
                IF m \in models THEN AddPeer([NoRoute EXCEPT !.peers = table[n][m].peers], p)
                                ELSE @[m]]]

\* AddPeerModels: the route is looked up under the id of the peer, which is no
\* model, so each model of the peer gets a new route with no local provider.
AddPeerModels(n, p, models) ==
    table' = [table EXCEPT ![n] = [m \in Model |->
                IF m \in models THEN AddPeer(NoRoute, p) ELSE @[m]]]

\* Mutant: the peer is deleted from a copy of the routes.
RemoveFromCopy(n, p) == table' = table

RemovePeer(n, p) ==
    table' = [table EXCEPT ![n] = [m \in Model |-> DropPeer(@[m], p)]]
----------------------------------------------------------------------------
NoUpdate == [peer |-> "", models |-> {}]

NoRequest == [pc |-> "idle", origin |-> "", at |-> "", dest |-> "", model |-> "",
              path |-> "", noRelay |-> FALSE, hops |-> 0, answer |-> ""]

Init ==
    /\ starts = [n \in Node |-> 0]
    /\ up = {}
    /\ table = [n \in Node |-> [m \in Model |-> NoRoute]]
    /\ update = [n \in Node |-> NoUpdate]
    /\ req = NoRequest
    /\ fetched = [n \in Node |-> {}]
    /\ listed = [n \in Node |-> [p \in Node |-> {}]]

\* NewProxy with some configuration.  A provider that does not answer is
\* passed over, which is the same as one that offers nothing.
Start(n) ==
    /\ n \notin up /\ starts[n] < MaxStarts
    /\ starts' = [starts EXCEPT ![n] = @ + 1]
    /\ up' = up \cup {n}
    /\ \E c \in Config : \E offered \in [DOMAIN c -> SUBSET Model] :
          LET routes == [i \in DOMAIN c |-> Fetched(c[i], offered[i])]
          IN  /\ table' = [table EXCEPT ![n] = Refreshed(n, routes)]
              /\ fetched' = [fetched EXCEPT ![n] = UNION {DOMAIN routes[i] : i \in DOMAIN c}]
    /\ UNCHANGED <<update, req, listed>>

\* The process ends: its tables are gone, and a request it received.  Whoever
\* waits for its answer loses the stream.  (Bound: only while it may be started
\* again.)
Stop(n) ==
    /\ n \in up /\ starts[n] < MaxStarts
    /\ up' = up \ {n}
    /\ fetched' = [fetched EXCEPT ![n] = {}]
    /\ table' = [table EXCEPT ![n] = [m \in Model |-> NoRoute]]
    /\ update' = [update EXCEPT ![n] = NoUpdate]
    /\ listed' = [listed EXCEPT ![n] = [p \in Node |-> {}]]
    /\ req' = CASE n = req.origin -> NoRequest
                [] n # req.origin /\ n = req.at ->
                      [NoRequest EXCEPT !.pc = "lost", !.origin = req.origin,
                                        !.at = req.origin]
                [] OTHER -> req
    /\ UNCHANGED starts

\* OnPeerUpdate(peer, true)
PeerRemoved(n, p) ==
    /\ n \in up /\ p # n /\ update[n] = NoUpdate
    /\ RemovePeer(n, p)
    /\ listed' = [listed EXCEPT ![n][p] = {}]
    /\ UNCHANGED <<processes, update, req>>

\* GET /.mesh/models: the routes cross the mesh without providers and peers,
\* which are not encoded, so their names remain.
GetModelsMesh(p) == [peer |-> p, models |-> Exported(p)]

\* OnPeerUpdate(peer, false): fetch the models of the peer ...  (when all
\* attempts fail the call returns an error and nothing changes)
FetchPeerModels(n, p) ==
    /\ n \in up /\ p \in up \ {n} /\ update[n] = NoUpdate
    /\ update' = [update EXCEPT ![n] = GetModelsMesh(p)]
    /\ UNCHANGED <<processes, table, req, listed>>

\* ... then AddPeerModels.
PeerUpdated(n) ==
    /\ n \in up /\ update[n] # NoUpdate
    /\ AddPeerModels(n, update[n].peer, update[n].models)
    /\ listed' = [listed EXCEPT ![n][update[n].peer] = @ \cup update[n].models]
    /\ update' = [update EXCEPT ![n] = NoUpdate]
    /\ UNCHANGED <<processes, req>>
----------------------------------------------------------------------------
(* The request *)

\* The paths ServeHTTP routes by model, and those MeshServeHTTP does.
LocalPaths == {"/api/chat", "/v1/chat/completions", "/v1/responses"}

proxyHandleURLS == {"/v1/chat/completions", "/v1/responses", "/v1/embeddings",
                    "/v1/messages"}

\* What matters of a request once it is answered at some node.
Done(n, a) == [NoRequest EXCEPT !.pc = "done", !.origin = req.origin, !.at = n, !.answer = a]

Answer(a) == req' = Done(req.at, a)

\* ServeHTTP; any other path goes to a mux that does not know it.
Request(n, m, path) ==
    /\ n \in up /\ req.pc = "idle"
    /\ req' = IF path \in LocalPaths
              THEN [NoRequest EXCEPT !.pc = "route", !.origin = n, !.at = n,
                                     !.model = m, !.path = path]
              ELSE [NoRequest EXCEPT !.pc = "done", !.origin = n, !.at = n, !.answer = "404"]
    /\ UNCHANGED <<processes, table, update, listed>>

\* Mutant: the name is not put in lower case.
GetModelRouteAsIs(n, m) == table[n][m]

\* The route of the model, read by its name in lower case.
GetModelRoute(n, m) == table[n][Lower[m]]

Forwarded(p) == req' = [req EXCEPT !.pc = "forward", !.dest = p]

\* Mutant: noRelay is not looked at.
RouteAlways ==
    /\ req.pc = "route"
    /\ LET r == GetModelRoute(req.at, req.model)
       IN  \/ IsLocal(r) /\ req' = [req EXCEPT !.pc = "provider"]
           \/ ~IsLocal(r) /\ r.peers = {} /\ Answer("404")
           \/ ~IsLocal(r) /\ \E p \in r.peers : Forwarded(p)
    /\ UNCHANGED <<processes, table, update, listed>>

\* proxyModelRequest: a body that cannot be read, the local provider (unless its
\* address does not parse), no route, or some peer.  The route is a copy of the
\* struct that shares the peers with the table and is read at once: one step.
RouteRequest ==
    /\ req.pc = "route"
    /\ LET r == GetModelRoute(req.at, req.model)
       IN  \/ Answer("400")
           \/ GetLocalRoute(r) # 0 /\ (req' = [req EXCEPT !.pc = "provider"] \/ Answer("404"))
           \/ GetLocalRoute(r) = 0 /\ (req.noRelay \/ GetMeshPeerRoute(r) = {}) /\ Answer("404")
           \/ /\ GetLocalRoute(r) = 0 /\ ~req.noRelay
              /\ \E p \in GetMeshPeerRoute(r) : Forwarded(p)
    /\ UNCHANGED <<processes, table, update, listed>>

\* The reverse proxy passes on what the provider answers, or says that it could
\* not be reached.
ReverseProxy ==
    /\ req.pc = "provider"
    /\ Answer("served") \/ Answer("502")
    /\ UNCHANGED <<processes, table, update, listed>>

\* The request as the peer reads it from the stream.
streamHandler(p) == [req EXCEPT !.at = p, !.hops = @ + 1]

\* Routed by model, without relay, or passed to the mux.
MeshServeHTTP(r) ==
    IF r.path \in proxyHandleURLS THEN [r EXCEPT !.noRelay = TRUE, !.pc = "route"]
                                  ELSE Done(r.at, "404")

\* ProxyToNode reaches the peer.
Forward ==
    /\ req.pc = "forward" /\ req.dest \in up
    /\ req' = MeshServeHTTP(streamHandler(req.dest))
    /\ UNCHANGED <<processes, table, update, listed>>

\* The origin waits for the peer to answer.
AtPeer == req.at # req.origin

\* ReadResponse: the answer of the peer becomes that of the origin.
PeerReplies ==
    /\ req.pc = "done" /\ AtPeer
    /\ req' = [req EXCEPT !.at = req.origin]
    /\ UNCHANGED <<processes, table, update, listed>>

\* Mutant: the error is not reported, which makes it a 200.
ForwardFailsSilently ==
    /\ req.pc \in {"forward", "lost"} \/ AtPeer
    /\ req' = Done(req.origin, "200")
    /\ UNCHANGED <<processes, table, update, listed>>

\* Mutant: a peer that is gone is waited for.
ForwardHangs ==
    /\ req.pc = "forward" \/ AtPeer
    /\ req' = Done(req.origin, "503")
    /\ UNCHANGED <<processes, table, update, listed>>

\* ProxyToNode does not reach the peer, or loses the stream before the answer.
ForwardFails ==
    /\ req.pc \in {"forward", "lost"} \/ AtPeer
    /\ req' = Done(req.origin, "503")
    /\ UNCHANGED <<processes, table, update, listed>>

Finish ==
    /\ req.pc = "done" /\ ~AtPeer
    /\ req' = NoRequest
    /\ UNCHANGED <<processes, table, update, listed>>

Handle == RouteRequest \/ ReverseProxy \/ Forward \/ PeerReplies \/ ForwardFails \/ Finish

Next ==
    \/ \E n \in Node : Start(n) \/ Stop(n) \/ PeerUpdated(n)
    \/ \E n, p \in Node : PeerRemoved(n, p) \/ FetchPeerModels(n, p)
    \/ \E n \in Node, m \in Model, path \in Path : Request(n, m, path)
    \/ Handle

Spec == Init /\ [][Next]_vars

\* The origin is left waiting, for a provider or for a peer: neither the reverse
\* proxy nor ProxyToNode has a time limit.
Waiting == req.pc = "provider" \/ AtPeer

\* The goroutine of a request keeps running: reading a body ends (ReadTimeout), a
\* dial ends (libp2p limits it), and a stream of a peer that is gone breaks.
\* Nothing is assumed of providers and peers that are there.
FairSpec == Spec /\ WF_vars(Handle /\ ~Waiting)
----------------------------------------------------------------------------
\* Every variable has its type; the answer is a provider's, or one of those the
\* handlers on the way make up: 400, 404, 502 (the reverse proxy) and 503.
TypeOK ==
    /\ starts \in [Node -> Nat]
    /\ up \in SUBSET Node
    /\ table \in [Node -> [Model -> Route]]
    /\ update \in [Node -> [peer : Node \cup {""}, models : SUBSET Model]]
    /\ req.pc \in {"idle", "route", "provider", "forward", "lost", "done"}
    /\ {req.origin, req.at, req.dest} \subseteq Node \cup {""}
    /\ req.model \in Model \cup {""}
    /\ req.noRelay \in BOOLEAN /\ req.hops \in Nat
    /\ req.answer \in {"", "served", "400", "404", "502", "503"}
    /\ fetched \in [Node -> SUBSET Model]
    /\ listed \in [Node -> [Node -> SUBSET Model]]

\* A node never forwards a request to itself, although Refresh makes it a peer
\* of its own models (router.go:258): such a route has a local provider, which
\* comes first (proxy.go:96-119), and loses both together.
NoSelfForward == req.pc = "forward" => req.dest # req.at

\* "this request came in via the mesh we should not send it back to the mesh as
\* we could loop forever" (proxy.go:121-127): stale tables of several nodes
\* never add up to a second hop.
OneHop == req.hops <= 1 /\ (req.hops = 1 => req.pc # "forward")

\* A node routes to a peer only what that peer listed, and nothing once the
\* peer is removed (router.go:201-225).
RoutesWereListed ==
    \A n \in up, p \in Node, m \in Model :
        (p # n /\ p \in table[n][m].peers) => m \in listed[n][p]

\* What a node lists for its peers it serves itself: a model learnt from a
\* peer, or from a route a peer's list has replaced, is not passed on
\* (router.go:28-40).
ExportsOwnModels == \A n \in up : Exported(n) \subseteq fetched[n]

\* A request is served only from what the node's own providers offered, and
\* sent only to a peer that has listed the model and was not removed since, by
\* the lower-case name of the model, whatever the tables went through before
\* (proxy.go:96-134, router.go:201-225).
ServedAsListed ==
    [][(req.pc = "route" /\ req'.pc # "route") =>
          LET m == Lower[req.model]
          IN  /\ req'.pc = "provider" => m \in fetched[req.at]
              /\ req'.pc = "forward" => m \in listed[req.at][req'.dest]]_vars

\* Every request is answered, unless a provider or a peer that is there keeps it
\* waiting for ever: a peer that is gone, also one that goes while it serves the
\* request, is noticed and becomes a 503 (service.go:183-205).
Answered == []<>~Waiting => (req.pc # "idle" ~> req.pc = "idle")

\* "prefer a local Ollama provider, then a mesh peer that listed the model"
\* (README.md:17, proxy.go:96 "Always try local routes first"): a request for
\* a model of the node's own providers stays on the node.
LocalFirst == req.pc = "forward" => Lower[req.model] \notin fetched[req.at]
============================================================================
