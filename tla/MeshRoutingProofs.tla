------------------------- MODULE MeshRoutingProofs -------------------------
(* Proofs about MeshRouting, for any nodes, models and configurations. *)
EXTENDS MeshRouting, WellFoundedInduction, TLAPS

\* A set of indices of a sequence that is not empty has a greatest one.
LEMMA LastOf ==
    ASSUME NEW n \in Nat, NEW has \in SUBSET (1..n), has # {}
    PROVE  \E j \in has : \A k \in has : k <= j
<1> DEFINE T == {n - k : k \in has}
           R == OpToRel(<, Nat)
<1>0. \A k \in has : k \in Nat /\ n - k \in Nat
  <2>1. \A k \in 1..n : k \in Nat /\ n - k \in Nat
    OBVIOUS
  <2> QED
    BY <2>1
<1>1. T \subseteq Nat /\ T # {}
  BY <1>0
<1>2. \E x \in T : \A y \in T : ~(<<y, x>> \in R)
  <2> HIDE DEF T
  <2> QED
    BY <1>1, NatLessThanWellFounded, WFMin
<1>3. PICK x \in T : \A y \in T : ~(y < x)
  <2>1. \A x, y \in Nat : (<<y, x>> \in R) <=> (y < x)
    BY DEF OpToRel
  <2> QED
    BY <1>1, <1>2, <2>1
<1>4. PICK j \in has : x = n - j
  OBVIOUS
<1>5. \A k \in has : ~(n - k < n - j)
  BY <1>3, <1>4
<1> QED
  BY <1>0, <1>4, <1>5

\* The models of a provider, with their flags.
LEMMA FetchedType ==
    ASSUME NEW p \in Providers, NEW offered \in SUBSET Model
    PROVE  /\ DOMAIN Fetched(p, offered) \subseteq Model
           /\ \A m \in DOMAIN Fetched(p, offered) : Fetched(p, offered)[m] \in BOOLEAN
<1> DEFINE f == Fetched(p, offered)
<1>1. /\ p.private \in BOOLEAN /\ DOMAIN p.models \subseteq Model
      /\ \A m \in DOMAIN p.models : p.models[m] \in BOOLEAN
  BY DEF Providers
<1>2. CASE p.type = "ollama" /\ p.discovery = "whitelist"
  <2>1. f = [m \in DOMAIN p.models \cap offered |-> p.models[m]]
    BY <1>2 DEF Fetched
  <2> QED
    BY <1>1, <2>1
<1>3. CASE p.type = "ollama" /\ p.discovery # "whitelist"
  <2>1. f = [m \in offered |-> p.private]
    BY <1>3 DEF Fetched
  <2> QED
    BY <1>1, <2>1
<1>4. CASE p.type = "openai" /\ p.discovery = "whitelist"
  <2>1. f = [m \in DOMAIN p.models \cap offered |-> p.private]
    BY <1>4 DEF Fetched
  <2> QED
    BY <1>1, <2>1
<1>5. CASE p.type = "test"
  <2>1. f = p.models
    BY <1>5 DEF Fetched
  <2> QED
    BY <1>1, <2>1
<1>6. CASE /\ p.type # "ollama" /\ p.type # "test"
           /\ p.type # "openai" \/ p.discovery # "whitelist"
  <2>1. f = << >>
    BY <1>6 DEF Fetched
  <2> QED
    BY <2>1
<1> QED
  BY <1>2, <1>3, <1>4, <1>5, <1>6

\* A model without a route has neither provider nor peers.
LEMMA NoRouteType == NoRoute \in Route /\ NoRoute.peers = {} /\ ~IsLocal(NoRoute)
BY DEF NoRoute, Route, IsLocal

\* The table of a node that has just been started.
LEMMA RefreshedType ==
    ASSUME NEW n \in Node, NEW c \in Config, NEW offered \in [DOMAIN c -> SUBSET Model],
           NEW routes, routes = [i \in DOMAIN c |-> Fetched(c[i], offered[i])]
    PROVE  /\ Refreshed(n, routes) \in [Model -> Route]
           /\ UNION {DOMAIN routes[i] : i \in DOMAIN c} \in SUBSET Model
           /\ \A m \in Model :
                 LET r == Refreshed(n, routes)[m]
                 IN  /\ r.peers \subseteq {n}
                     /\ n \in r.peers => IsLocal(r)
                     /\ IsLocal(r) => m \in UNION {DOMAIN routes[i] : i \in DOMAIN c}
<1>1. c \in Seq(Providers)
  BY ConfigAssumption
<1>2. /\ Len(c) \in Nat /\ DOMAIN c = 1..Len(c)
      /\ \A i \in DOMAIN c : c[i] \in Providers /\ offered[i] \in SUBSET Model
  BY <1>1
<1>3. /\ DOMAIN routes = 1..Len(c)
      /\ \A i \in DOMAIN routes : /\ DOMAIN routes[i] \subseteq Model
                                  /\ \A m \in DOMAIN routes[i] : routes[i][m] \in BOOLEAN
  BY <1>2, FetchedType
<1>4. ASSUME NEW m \in Model
      PROVE  LET r == Refreshed(n, routes)[m]
             IN  /\ r \in Route /\ r.peers \subseteq {n}
                 /\ n \in r.peers => IsLocal(r)
                 /\ IsLocal(r) => m \in UNION {DOMAIN routes[i] : i \in DOMAIN c}
  <2> DEFINE has == {i \in DOMAIN routes : m \in DOMAIN routes[i]}
             last == Last(has)
  <2>1. Refreshed(n, routes)[m] =
            IF has = {} THEN NoRoute
            ELSE [provider |-> last, private |-> routes[last][m], peers |-> {n}]
    <3>1. Refreshed(n, routes)[m] = OwnRoute(n, routes, m)
      BY DEF Refreshed
    <3>2. OwnRoute(n, routes, m) =
              IF has = {} THEN NoRoute
              ELSE [provider |-> last, private |-> routes[last][m], peers |-> {n}]
      BY Zenon DEF OwnRoute
    <3> HIDE DEF has, last
    <3> QED
      BY <3>1, <3>2
  <2>2. CASE has = {}
    <3>1. Refreshed(n, routes)[m] = NoRoute
      <4> HIDE DEF has, last
      <4> QED
        BY <2>1, <2>2
    <3> QED
      BY <3>1, NoRouteType
  <2>3. CASE has # {}
    <3>1. has \in SUBSET (1..Len(c))
      BY <1>3
    <3>2. last \in has
      <4>1. \E j \in has : \A k \in has : k <= j
        <5> HIDE DEF has
        <5> QED
          BY <1>2, <2>3, <3>1, LastOf
      <4> QED
        BY <4>1 DEF Last
    <3>3. last \in 1..Len(c) /\ m \in DOMAIN routes[last] /\ routes[last][m] \in BOOLEAN
      BY <1>3, <3>2
    <3> DEFINE r == Refreshed(n, routes)[m]
    <3>4. r = [provider |-> last, private |-> routes[last][m], peers |-> {n}]
      BY <2>1, <2>3
    <3> HIDE DEF last, has, r
    <3>5. last \in Nat /\ last # 0
      BY <1>2, <3>3
    <3>6. r \in Route /\ r.peers = {n} /\ IsLocal(r)
      BY <3>3, <3>4, <3>5 DEF Route, IsLocal
    <3>7. m \in UNION {DOMAIN routes[i] : i \in DOMAIN c}
      BY <3>3, <1>2
    <3> QED
      BY <3>6, <3>7 DEF r
  <2> QED
    BY <2>2, <2>3
<1>5. Refreshed(n, routes) \in [Model -> Route]
  <2>1. DOMAIN Refreshed(n, routes) = Model
    BY DEF Refreshed
  <2>2. Refreshed(n, routes) = [m \in Model |-> Refreshed(n, routes)[m]]
    BY DEF Refreshed
  <2> QED
    BY <1>4, <2>2
<1> QED
  BY <1>2, <1>3, <1>4, <1>5
----------------------------------------------------------------------------
ReqPc == {"idle", "route", "provider", "forward", "lost", "done"}
ReqAnswer == {"", "served", "400", "404", "502", "503"}

\* The request as a record; its fields are set as far as its stage needs.
ReqType ==
    [pc : ReqPc, origin : Node \cup {""}, at : Node \cup {""},
     dest : Node \cup {""}, model : Model \cup {""}, path : Path \cup {""},
     noRelay : BOOLEAN, hops : Nat, answer : ReqAnswer]

ReqInv ==
    /\ req \in ReqType
    /\ req.pc \in {"route", "forward"} => req.at \in Node /\ req.model \in Model
    /\ req.pc = "forward" => req.dest \in Node
    /\ req.pc = "lost" => req.at = req.origin

UpdateInv ==
    \A n \in Node : update[n] # NoUpdate => update[n].peer \in Node \ {n}

RoutingType == TypeOK /\ ReqInv /\ UpdateInv

\* Every node's table: a node is a peer of a model only where it has a provider
\* for it, other peers have listed the model, and what it has a provider for
\* its providers offered.
TableInv ==
    \A n \in Node, m \in Model :
        /\ n \in table[n][m].peers => IsLocal(table[n][m])
        /\ \A p \in Node : (p # n /\ p \in table[n][m].peers) => m \in listed[n][p]
        /\ IsLocal(table[n][m]) => m \in fetched[n]

\* A request that came over the mesh may not be forwarded.
RelayInv == (req.hops = 1 /\ req.pc = "route") => req.noRelay

RoutingInv == RoutingType /\ TableInv /\ OneHop /\ RelayInv /\ NoSelfForward

\* No request is a well-typed request at rest.
LEMMA NoRequestType == NoRequest \in ReqType /\ NoRequest.pc = "idle" /\ NoRequest.hops = 0
BY DEF NoRequest, ReqType, ReqPc, ReqAnswer

\* The fields of a request have their types.
LEMMA ReqFields ==
    ASSUME NEW r \in ReqType
    PROVE  /\ r.pc \in ReqPc /\ r.hops \in Nat
           /\ r.origin \in Node \cup {""} /\ r.at \in Node \cup {""} /\ r.dest \in Node \cup {""}
           /\ r.model \in Model \cup {""} /\ r.path \in Path \cup {""} /\ r.noRelay \in BOOLEAN
           /\ r.answer \in ReqAnswer
BY DEF ReqType

\* What is left of a request that was answered, or whose peer is gone.
LEMMA DoneReq ==
    ASSUME req \in ReqType, NEW n \in Node \cup {""}, NEW a \in ReqAnswer
    PROVE  /\ Done(n, a) \in ReqType /\ Done(n, a).pc = "done" /\ Done(n, a).hops = 0
           /\ Done(n, a).at = n /\ Done(n, a).origin = req.origin
<1>1. PICK o \in Node \cup {""} : o = req.origin
  BY ReqFields
<1>2. Done(n, a) \in ReqType
  <2>1. [NoRequest EXCEPT !.pc = "done", !.origin = o, !.at = n, !.answer = a] \in ReqType
    BY NoRequestType, ZenonT(30) DEF ReqType, ReqPc
  <2> QED
    BY <1>1, <2>1 DEF Done
<1>3. /\ Done(n, a).pc = "done" /\ Done(n, a).hops = 0
      /\ Done(n, a).at = n /\ Done(n, a).origin = req.origin
  BY DEF Done, NoRequest
<1> QED
  BY <1>2, <1>3

Lost == [NoRequest EXCEPT !.pc = "lost", !.origin = req.origin, !.at = req.origin]

LEMMA LostReq ==
    ASSUME req \in ReqType
    PROVE  Lost \in ReqType /\ Lost.pc = "lost" /\ Lost.hops = 0 /\ Lost.at = Lost.origin
<1>1. req.origin \in Node \cup {""}
  BY ReqFields
<1> QED
  BY <1>1 DEF Lost, NoRequest, ReqType, ReqPc, ReqAnswer

\* The invariant holds before any node is started.
LEMMA RoutingInit == Init => RoutingInv
<1> SUFFICES ASSUME Init PROVE RoutingInv
  OBVIOUS
<1>1. TypeOK
  BY NoRouteType DEF Init, TypeOK, NoUpdate, NoRequest
<1>2. req \in ReqType /\ req.pc = "idle" /\ req.hops = 0
  BY NoRequestType DEF Init
<1>3. ReqInv /\ OneHop /\ RelayInv /\ NoSelfForward
  BY <1>2 DEF ReqInv, OneHop, RelayInv, NoSelfForward
<1>4. UpdateInv
  BY DEF Init, UpdateInv
<1>5. TableInv
  BY NoRouteType DEF Init, TableInv
<1> QED
  BY <1>1, <1>3, <1>4, <1>5 DEF RoutingInv, RoutingType

\* The steps that change the request change nothing else.
HandleStep == Handle \/ \E n \in Node, m \in Model, path \in Path : Request(n, m, path)

\* A step of the request leaves the tables alone and keeps what is known of it.
LEMMA RequestStep ==
    ASSUME RoutingInv, HandleStep
    PROVE  /\ UNCHANGED <<processes, table, update, listed>>
           /\ ReqInv' /\ OneHop' /\ RelayInv' /\ NoSelfForward'
<1>u. UNCHANGED <<processes, table, update, listed>>
  BY DEF HandleStep, Handle, Request, RouteRequest, ReverseProxy, Forward, PeerReplies,
     ForwardFails, Finish
<1> SUFFICES ReqInv' /\ OneHop' /\ RelayInv' /\ NoSelfForward'
  BY <1>u
<1>r. /\ req \in ReqType
      /\ req.pc \in {"route", "forward"} => req.at \in Node /\ req.model \in Model
      /\ req.pc = "forward" => req.dest \in Node
  BY DEF RoutingInv, RoutingType, ReqInv
<1>h. req.hops \in Nat /\ req.hops <= 1 /\ (req.hops = 1 => req.pc # "forward")
  BY <1>r, ReqFields DEF RoutingInv, OneHop
<1>t. table \in [Node -> [Model -> Route]]
  BY DEF RoutingInv, RoutingType, TypeOK
<1>d. ASSUME req' \in ReqType, req'.pc = "done" \/ req'.pc = "provider",
             req'.hops = 0 \/ req'.hops = req.hops
      PROVE  ReqInv' /\ OneHop' /\ RelayInv' /\ NoSelfForward'
  BY <1>d, <1>h DEF ReqInv, OneHop, RelayInv, NoSelfForward
<1>n. req.at \in Node \cup {""} /\ req.origin \in Node \cup {""}
  BY <1>r, ReqFields
<1>a. ASSUME NEW a \in ReqAnswer, Answer(a)
      PROVE  ReqInv' /\ OneHop' /\ RelayInv' /\ NoSelfForward'
  BY <1>a, <1>r, <1>n, <1>d, DoneReq DEF Answer
<1>1. ASSUME NEW n \in Node, NEW m \in Model, NEW path \in Path, Request(n, m, path)
      PROVE  ReqInv' /\ OneHop' /\ RelayInv' /\ NoSelfForward'
  <2>1. CASE path \in LocalPaths
    <3>1. /\ req' \in ReqType /\ req'.hops = 0 /\ req'.pc = "route"
          /\ req'.at = n /\ req'.model = m
      BY <1>1, <2>1 DEF Request, ReqType, NoRequest, ReqPc, ReqAnswer
    <3> QED
      BY <3>1 DEF ReqInv, OneHop, RelayInv, NoSelfForward
  <2>2. CASE path \notin LocalPaths
    <3>1. req' \in ReqType /\ req'.hops = 0 /\ req'.pc = "done"
      BY <1>1, <2>2 DEF Request, ReqType, NoRequest, ReqPc, ReqAnswer
    <3> QED
      BY <3>1, <1>d
  <2> QED
    BY <2>1, <2>2
<1>2. CASE RouteRequest
  <2>1. CASE Answer("400") \/ Answer("404")
    BY <2>1, <1>a DEF ReqAnswer
  <2>2. CASE req' = [req EXCEPT !.pc = "provider"]
    <3>1. req' \in ReqType /\ req'.pc = "provider" /\ req'.hops = req.hops
      BY <2>2, <1>r DEF ReqType, ReqPc
    <3> QED
      BY <3>1, <1>d
  <2>3. ASSUME GetLocalRoute(GetModelRoute(req.at, req.model)) = 0, ~req.noRelay,
               NEW p \in GetMeshPeerRoute(GetModelRoute(req.at, req.model)),
               Forwarded(p)
        PROVE  ReqInv' /\ OneHop' /\ RelayInv' /\ NoSelfForward'
    <3>1. req.pc = "route"
      BY <1>2 DEF RouteRequest
    <3>2. req.at \in Node /\ req.model \in Model /\ Lower[req.model] \in Model
      BY <3>1, <1>r, RoutingAssumption
    <3>3. PICK r \in Route : r = table[req.at][Lower[req.model]]
      BY <3>2, <1>t
    <3>4. ~IsLocal(r) /\ p \in r.peers
      BY <2>3, <3>3 DEF GetLocalRoute, GetMeshPeerRoute, GetModelRoute, IsLocal
    <3>5. req.at \in r.peers => IsLocal(r)
      BY <3>2, <3>3 DEF RoutingInv, TableInv
    <3>6. p \in Node /\ p # req.at
      BY <3>4, <3>5 DEF Route
    <3>7. req.hops # 1
      BY <2>3, <3>1 DEF RoutingInv, RelayInv
    <3>8. /\ req' \in ReqType /\ req'.pc = "forward" /\ req'.dest = p /\ req'.at = req.at
          /\ req'.model = req.model /\ req'.hops = req.hops
      BY <2>3, <3>6, <1>r DEF Forwarded, ReqType, ReqPc
    <3>9. ReqInv' /\ NoSelfForward'
      BY <3>2, <3>6, <3>8 DEF ReqInv, NoSelfForward
    <3>10. OneHop' /\ RelayInv'
      BY <3>7, <3>8, <1>h DEF OneHop, RelayInv
    <3> QED
      BY <3>9, <3>10
  <2> QED
    BY <1>2, <2>1, <2>2, <2>3 DEF RouteRequest
<1>3. CASE Forward
  <2>1. req.pc = "forward" /\ req.dest \in Node /\ req.model \in Model
    BY <1>3, <1>r DEF Forward
  <2>2. req.hops = 0
    BY <2>1, <1>h
  <2>3. PICK s : s = streamHandler(req.dest)
    OBVIOUS
  <2>4. s \in ReqType /\ s.at = req.dest /\ s.model = req.model /\ s.hops = 1
    <3>1. s = [req EXCEPT !.at = req.dest, !.hops = 1]
      BY <2>2, <2>3 DEF streamHandler
    <3> QED
      BY <3>1, <2>1, <1>r DEF ReqType
  <2>5. req' = MeshServeHTTP(s)
    BY <1>3, <2>3 DEF Forward
  <2>6. req' = [s EXCEPT !.noRelay = TRUE, !.pc = "route"] \/ req' = Done(s.at, "404")
    BY <2>5 DEF MeshServeHTTP
  <2>7. CASE req' = [s EXCEPT !.noRelay = TRUE, !.pc = "route"]
    <3>1. req' \in ReqType
      BY <2>4, <2>7 DEF ReqType, ReqPc
    <3>2. /\ req'.at = s.at /\ req'.model = s.model /\ req'.hops = s.hops
          /\ req'.pc = "route" /\ req'.noRelay
      BY <2>4, <2>7 DEF ReqType
    <3> QED
      BY <2>1, <2>4, <3>1, <3>2 DEF ReqInv, NoSelfForward, OneHop, RelayInv
  <2>8. CASE req' = Done(s.at, "404")
    <3>1. "404" \in ReqAnswer
      BY DEF ReqAnswer
    <3> QED
      BY <2>1, <2>4, <2>8, <3>1, <1>r, <1>d, DoneReq
  <2> QED
    BY <2>6, <2>7, <2>8
<1>4. CASE ReverseProxy
  BY <1>4, <1>a DEF ReverseProxy, ReqAnswer
<1>5. CASE PeerReplies
  <2>1. req' \in ReqType /\ req'.pc = "done" /\ req'.hops = req.hops
    BY <1>5, <1>r, <1>n DEF PeerReplies, ReqType
  <2> QED
    BY <2>1, <1>d
<1>6. CASE ForwardFails
  <2>1. "503" \in ReqAnswer
    BY DEF ReqAnswer
  <2> QED
    BY <1>6, <2>1, <1>r, <1>n, <1>d, DoneReq DEF ForwardFails
<1>7. CASE Finish
  BY <1>7, NoRequestType DEF Finish, ReqInv, OneHop, RelayInv, NoSelfForward
<1> QED
  BY <1>1, <1>2, <1>3, <1>4, <1>5, <1>6, <1>7 DEF HandleStep, Handle
----------------------------------------------------------------------------
\* TypeOK without the request.
TablesType ==
    /\ starts \in [Node -> Nat]
    /\ up \in SUBSET Node
    /\ table \in [Node -> [Model -> Route]]
    /\ update \in [Node -> [peer : Node \cup {""}, models : SUBSET Model]]
    /\ fetched \in [Node -> SUBSET Model]
    /\ listed \in [Node -> [Node -> SUBSET Model]]

Tables == TablesType /\ UpdateInv /\ TableInv

\* The type invariant in two parts, the request and the tables.
LEMMA TypeParts == (ReqInv /\ TablesType) <=> (TypeOK /\ ReqInv)
BY ReqFields DEF TypeOK, TablesType, ReqInv, ReqPc, ReqAnswer

\* A start builds the table of the node from its providers.
LEMMA StartStep ==
    ASSUME Tables, NEW n \in Node, Start(n)
    PROVE  Tables' /\ UNCHANGED req
<1>0. PICK c \in Config : \E offered \in [DOMAIN c -> SUBSET Model] :
          LET routes == [i \in DOMAIN c |-> Fetched(c[i], offered[i])]
          IN  /\ table' = [table EXCEPT ![n] = Refreshed(n, routes)]
              /\ fetched' = [fetched EXCEPT ![n] = UNION {DOMAIN routes[i] : i \in DOMAIN c}]
  BY DEF Start
<1>1. PICK offered \in [DOMAIN c -> SUBSET Model] :
          LET routes == [i \in DOMAIN c |-> Fetched(c[i], offered[i])]
          IN  /\ table' = [table EXCEPT ![n] = Refreshed(n, routes)]
              /\ fetched' = [fetched EXCEPT ![n] = UNION {DOMAIN routes[i] : i \in DOMAIN c}]
  BY <1>0
<1>2. PICK routes : routes = [i \in DOMAIN c |-> Fetched(c[i], offered[i])]
  OBVIOUS
<1> DEFINE own == Refreshed(n, routes)
           models == UNION {DOMAIN routes[i] : i \in DOMAIN c}
<1>3. /\ own \in [Model -> Route] /\ models \in SUBSET Model
      /\ \A m \in Model : /\ own[m].peers \subseteq {n}
                          /\ n \in own[m].peers => IsLocal(own[m])
                          /\ IsLocal(own[m]) => m \in models
  BY <1>2, RefreshedType
<1>4. table' = [table EXCEPT ![n] = own] /\ fetched' = [fetched EXCEPT ![n] = models]
  BY <1>1, <1>2
<1> HIDE DEF own, models
<1>5. /\ UNCHANGED <<update, req, listed>> /\ up' = up \cup {n}
      /\ starts' = [starts EXCEPT ![n] = @ + 1]
  BY DEF Start
<1>6. TablesType'
  <2>0. starts \in [Node -> Nat]
    BY DEF Tables, TablesType
  <2>1. starts' \in [Node -> Nat]
    BY <1>5, <2>0
  <2>2. table' \in [Node -> [Model -> Route]] /\ fetched' \in [Node -> SUBSET Model]
    BY <1>3, <1>4 DEF Tables, TablesType
  <2> QED
    BY <2>1, <2>2, <1>5 DEF Tables, TablesType
<1>7. UpdateInv'
  BY <1>5 DEF Tables, UpdateInv
<1>8. TableInv'
  BY <1>3, <1>4, <1>5 DEF Tables, TablesType, TableInv
<1> QED
  BY <1>5, <1>6, <1>7, <1>8 DEF Tables

\* A stop empties the table of the node and takes the request with it that the
\* node received; of one it serves the stream is lost.
LEMMA StopStep ==
    ASSUME Tables, NEW n \in Node, Stop(n)
    PROVE  Tables' /\ (req' = req \/ req' = NoRequest \/ (req' = Lost /\ AtPeer))
<1>1. TablesType'
  BY NoRouteType DEF Tables, TablesType, Stop, NoUpdate
<1>2. UpdateInv'
  BY DEF Tables, TablesType, UpdateInv, Stop
<1>3. TableInv'
  BY NoRouteType DEF Tables, TablesType, TableInv, Stop
<1> QED
  BY <1>1, <1>2, <1>3 DEF Tables, Stop, Lost, AtPeer

\* RemovePeerModels takes one peer out of every route.
LEMMA RemovedStep ==
    ASSUME Tables, NEW n \in Node, NEW p \in Node, PeerRemoved(n, p)
    PROVE  Tables' /\ UNCHANGED req
<1> DEFINE own == [m \in Model |-> DropPeer(table[n][m], p)]
<1>1. ASSUME NEW m \in Model
      PROVE  /\ own[m] \in Route /\ own[m].peers = table[n][m].peers \ {p}
             /\ own[m].provider = table[n][m].provider
  <2>1. own[m] = DropPeer(table[n][m], p)
    OBVIOUS
  <2> HIDE DEF own
  <2>2. table[n] \in [Model -> Route]
    BY DEF Tables, TablesType
  <2>3. PICK r \in Route : r = table[n][m]
    BY <2>2
  <2>4. own[m] = [r EXCEPT !.peers = r.peers \ {p}]
    BY <2>1, <2>3 DEF DropPeer
  <2> QED
    BY <2>3, <2>4 DEF Route
<1>2. own \in [Model -> Route]
  BY <1>1
<1>3. /\ table' = [table EXCEPT ![n] = own] /\ p # n
      /\ listed' = [listed EXCEPT ![n][p] = {}] /\ UNCHANGED <<processes, update, req>>
  <2>1. table' = [table EXCEPT ![n] = own]
    BY DEF PeerRemoved, RemovePeer
  <2> HIDE DEF own
  <2> QED
    BY <2>1 DEF PeerRemoved
<1> HIDE DEF own
<1>4. TablesType'
  BY <1>2, <1>3 DEF Tables, TablesType, processes
<1>5. UpdateInv'
  BY <1>3 DEF Tables, UpdateInv
<1>6. ASSUME NEW k \in Node, NEW m \in Model
      PROVE  /\ k \in table'[k][m].peers => IsLocal(table'[k][m])
             /\ \A q \in Node : (q # k /\ q \in table'[k][m].peers) => m \in listed'[k][q]
             /\ IsLocal(table'[k][m]) => m \in fetched'[k]
  <2>1. CASE k = n
    <3>1. table'[k] = own /\ fetched' = fetched
      BY <1>3, <2>1 DEF Tables, TablesType, processes
    <3>2. \A q \in Node \ {p} : listed'[k][q] = listed[k][q]
      BY <1>3, <2>1 DEF Tables, TablesType
    <3> QED
      BY <2>1, <3>1, <3>2, <1>1 DEF Tables, TableInv, IsLocal
  <2>2. CASE k # n
    <3>1. table'[k] = table[k] /\ listed'[k] = listed[k] /\ fetched' = fetched
      BY <1>3, <2>2 DEF Tables, TablesType, processes
    <3> QED
      BY <3>1 DEF Tables, TableInv
  <2> QED
    BY <2>1, <2>2
<1>7. TableInv'
  BY <1>6 DEF TableInv
<1> QED
  BY <1>3, <1>4, <1>5, <1>7 DEF Tables

\* Fetching a list changes no table.
LEMMA FetchStep ==
    ASSUME Tables, NEW n \in Node, NEW p \in Node, FetchPeerModels(n, p)
    PROVE  Tables' /\ UNCHANGED req
<1>1. GetModelsMesh(p) \in [peer : Node \cup {""}, models : SUBSET Model]
      /\ GetModelsMesh(p).peer = p
  BY DEF GetModelsMesh, Exported
<1>2. /\ update' = [update EXCEPT ![n] = GetModelsMesh(p)] /\ p # n
      /\ UNCHANGED <<processes, table, req, listed>>
  BY DEF FetchPeerModels
<1>3. TablesType'
  BY <1>1, <1>2 DEF Tables, TablesType, processes
<1>4. UpdateInv'
  BY <1>1, <1>2 DEF Tables, TablesType, UpdateInv
<1>5. TableInv'
  BY <1>2 DEF Tables, TableInv, processes
<1> QED
  BY <1>2, <1>3, <1>4, <1>5 DEF Tables

\* AddPeerModels puts a peer into the routes of what it listed.
LEMMA UpdatedStep ==
    ASSUME Tables, NEW n \in Node, PeerUpdated(n)
    PROVE  Tables' /\ UNCHANGED req
<1>1. PICK p \in Node \ {n}, models \in SUBSET Model :
          p = update[n].peer /\ models = update[n].models
  BY DEF PeerUpdated, Tables, TablesType, UpdateInv
<1> DEFINE route == AddPeer(NoRoute, p)
           own == [m \in Model |-> IF m \in models THEN route ELSE table[n][m]]
<1>2. route \in Route /\ route.peers = {p} /\ ~IsLocal(route)
  BY DEF AddPeer, NoRoute, Route, IsLocal
<1> HIDE DEF route
<1>3. own \in [Model -> Route]
  <2>0. table \in [Node -> [Model -> Route]]
    BY DEF Tables, TablesType
  <2>1. \A m \in Model : table[n][m] \in Route
    BY <2>0
  <2> QED
    BY <1>2, <2>1
<1>4. /\ table' = [table EXCEPT ![n] = own]
      /\ listed' = [listed EXCEPT ![n][p] = @ \cup models]
      /\ update' = [update EXCEPT ![n] = NoUpdate] /\ UNCHANGED <<processes, req>>
  BY <1>1 DEF PeerUpdated, AddPeerModels, Tables, TablesType, route
<1>5. \A m \in Model : own[m] = IF m \in models THEN route ELSE table[n][m]
  OBVIOUS
<1> HIDE DEF own
<1>6. TablesType'
  BY <1>3, <1>4 DEF Tables, TablesType, processes, NoUpdate
<1>7. UpdateInv'
  BY <1>4 DEF Tables, TablesType, UpdateInv
<1>8. ASSUME NEW k \in Node, NEW m \in Model
      PROVE  /\ k \in table'[k][m].peers => IsLocal(table'[k][m])
             /\ \A q \in Node : (q # k /\ q \in table'[k][m].peers) => m \in listed'[k][q]
             /\ IsLocal(table'[k][m]) => m \in fetched'[k]
  <2>1. CASE k = n
    <3>1. table'[k] = own /\ fetched' = fetched
      BY <1>4, <2>1 DEF Tables, TablesType, processes
    <3>2. \A q \in Node : listed[k][q] \subseteq listed'[k][q]
      BY <1>4, <2>1 DEF Tables, TablesType
    <3>3. models \subseteq listed'[k][p]
      BY <1>4, <2>1 DEF Tables, TablesType
    <3>4. CASE m \in models
      BY <2>1, <3>1, <3>3, <3>4, <1>2, <1>5
    <3>5. CASE m \notin models
      BY <2>1, <3>1, <3>2, <3>5, <1>5 DEF Tables, TableInv
    <3> QED
      BY <3>4, <3>5
  <2>2. CASE k # n
    <3>1. table'[k] = table[k] /\ listed'[k] = listed[k] /\ fetched' = fetched
      BY <1>4, <2>2 DEF Tables, TablesType, processes
    <3> QED
      BY <3>1 DEF Tables, TableInv
  <2> QED
    BY <2>1, <2>2
<1>9. TableInv'
  BY <1>8 DEF TableInv
<1> QED
  BY <1>4, <1>6, <1>7, <1>9 DEF Tables

\* Every step keeps the invariant.
LEMMA RoutingStep == RoutingInv /\ [Next]_vars => RoutingInv'
<1> SUFFICES ASSUME RoutingInv, [Next]_vars PROVE RoutingInv'
  OBVIOUS
<1>i. Tables /\ ReqInv /\ OneHop /\ RelayInv /\ NoSelfForward
  BY TypeParts DEF RoutingInv, RoutingType, Tables
<1>q. SUFFICES Tables' /\ ReqInv' /\ OneHop' /\ RelayInv' /\ NoSelfForward'
  <2>1. TablesType' /\ ReqInv' => TypeOK'
    BY ReqFields DEF TypeOK, TablesType, ReqInv, ReqPc, ReqAnswer
  <2> QED
    BY <1>q, <2>1 DEF RoutingInv, RoutingType, Tables
<1>1. CASE HandleStep
  <2>1. /\ UNCHANGED <<processes, table, update, listed>>
        /\ ReqInv' /\ OneHop' /\ RelayInv' /\ NoSelfForward'
    BY <1>1, RequestStep
  <2>2. Tables'
    BY <1>i, <2>1 DEF Tables, TablesType, UpdateInv, TableInv, processes
  <2> QED
    BY <2>1, <2>2
<1>2. CASE Tables' /\ UNCHANGED req
  BY <1>2, <1>i DEF ReqInv, OneHop, RelayInv, NoSelfForward
<1>3. CASE Tables' /\ req' = NoRequest
  BY <1>3, NoRequestType DEF ReqInv, OneHop, RelayInv, NoSelfForward
<1>l. CASE Tables' /\ req' = Lost
  BY <1>l, <1>i, LostReq DEF ReqInv, OneHop, RelayInv, NoSelfForward
<1>4. CASE UNCHANGED vars
  <2>1. Tables' /\ UNCHANGED req
    BY <1>4, <1>i DEF vars, Tables, TablesType, UpdateInv, TableInv, processes
  <2> QED
    BY <2>1, <1>2
<1>5. CASE \E n \in Node : Start(n) \/ Stop(n) \/ PeerUpdated(n)
  BY <1>i, <1>2, <1>3, <1>l, <1>5, StartStep, StopStep, UpdatedStep
<1>6. CASE \E n, p \in Node : PeerRemoved(n, p) \/ FetchPeerModels(n, p)
  BY <1>i, <1>2, <1>6, RemovedStep, FetchStep
<1> QED
  BY <1>1, <1>4, <1>5, <1>6 DEF Next, HandleStep

\* So it holds throughout.
LEMMA RoutingInvHolds == Spec => []RoutingInv
BY RoutingInit, RoutingStep, PTL DEF Spec

\* Tables, updates and the request keep their types, and a request gets one of
\* the answers the code can give.
THEOREM RoutingTypeCorrect == Spec => []TypeOK
<1>1. RoutingInv => TypeOK
  BY DEF RoutingInv, RoutingType
<1> QED
  BY <1>1, RoutingInvHolds, PTL

\* No node forwards a request to itself, in any mesh (proxy.go:96-119).
THEOREM NoSelfForwardCorrect == Spec => []NoSelfForward
<1>1. RoutingInv => NoSelfForward
  BY DEF RoutingInv
<1> QED
  BY <1>1, RoutingInvHolds, PTL

\* No request takes a second hop, in any mesh, whatever the tables say
\* (proxy.go:121-127).
THEOREM OneHopCorrect == Spec => []OneHop
<1>1. RoutingInv => OneHop
  BY DEF RoutingInv
<1> QED
  BY <1>1, RoutingInvHolds, PTL

\* A node routes to a peer only what that peer listed since it was last removed
\* (router.go:201-225).
THEOREM RoutesCorrect == Spec => []RoutesWereListed
<1>1. RoutingInv => RoutesWereListed
  BY DEF RoutingInv, RoutingType, TypeOK, TableInv, RoutesWereListed
<1> QED
  BY <1>1, RoutingInvHolds, PTL

\* A node lists for its peers only models of its own providers (router.go:28-40).
THEOREM ExportsCorrect == Spec => []ExportsOwnModels
<1>1. RoutingInv => ExportsOwnModels
  BY DEF RoutingInv, RoutingType, TypeOK, TableInv, ExportsOwnModels, Exported
<1> QED
  BY <1>1, RoutingInvHolds, PTL
----------------------------------------------------------------------------
\* What a step may do with the request.
LEMMA RequestMoves ==
    ASSUME [Next]_vars
    PROVE  req' = req \/ req' = NoRequest \/ (req' = Lost /\ AtPeer) \/ HandleStep
  BY DEF Next, Start, Stop, PeerUpdated, PeerRemoved, FetchPeerModels, HandleStep, vars,
     Lost, AtPeer

\* What RouteRequest finds in a table that satisfies the invariant.
LEMMA RouteIsListed ==
    ASSUME RoutingInv, RouteRequest
    PROVE  LET m == Lower[req.model]
           IN  /\ req'.pc = "provider" => m \in fetched[req.at]
               /\ req'.pc = "forward" => m \in listed[req.at][req'.dest]
<1> DEFINE m == Lower[req.model]
<1>1. req \in ReqType /\ req.pc = "route" /\ req.at \in Node /\ m \in Model
  <2>1. req \in ReqType /\ req.pc = "route" /\ req.at \in Node /\ req.model \in Model
    BY DEF RouteRequest, RoutingInv, RoutingType, ReqInv
  <2> QED
    BY <2>1, RoutingAssumption
<1> HIDE DEF m
<1>2. PICK r \in Route : r = table[req.at][m]
  <2>1. table \in [Node -> [Model -> Route]]
    BY DEF RoutingInv, RoutingType, TypeOK
  <2> QED
    BY <1>1, <2>1
<1>3. GetModelRoute(req.at, req.model) = r
  BY <1>2 DEF GetModelRoute, m
<1>4. /\ req.at \in r.peers => IsLocal(r)
      /\ \A p \in Node : (p # req.at /\ p \in r.peers) => m \in listed[req.at][p]
      /\ IsLocal(r) => m \in fetched[req.at]
  BY <1>1, <1>2 DEF RoutingInv, TableInv
<1>5. CASE r.provider # 0 /\ req' = [req EXCEPT !.pc = "provider"]
  <2>1. req'.pc = "provider" /\ IsLocal(r)
    BY <1>1, <1>5 DEF ReqType, IsLocal
  <2> QED
    BY <1>4, <2>1 DEF m
<1>6. CASE \E a \in ReqAnswer : Answer(a)
  <2>1. req'.pc = "done"
    BY <1>6 DEF Answer, Done, NoRequest
  <2> QED
    BY <2>1
<1>7. ASSUME r.provider = 0, NEW p \in r.peers, Forwarded(p)
      PROVE  req'.pc = "forward" /\ m \in listed[req.at][req'.dest]
  <2>1. req'.pc = "forward" /\ req'.dest = p
    BY <1>1, <1>7 DEF Forwarded, ReqType
  <2>2. p \in Node /\ p # req.at
    BY <1>4, <1>7 DEF Route, IsLocal
  <2> QED
    BY <1>4, <1>7, <2>1, <2>2
<1>8. \/ r.provider # 0 /\ req' = [req EXCEPT !.pc = "provider"]
      \/ \E a \in ReqAnswer : Answer(a)
      \/ r.provider = 0 /\ \E p \in r.peers : Forwarded(p)
  BY <1>3 DEF RouteRequest, GetLocalRoute, GetMeshPeerRoute, ReqAnswer
<1> QED
  BY <1>5, <1>6, <1>7, <1>8 DEF m

\* A request is served only from what the node's providers offered, and sent
\* only to a peer that has listed the model, in any mesh (proxy.go:96-134).
THEOREM ServedCorrect == Spec => ServedAsListed
<1> DEFINE Right == (req.pc = "route" /\ req'.pc # "route") =>
                      LET m == Lower[req.model]
                      IN  /\ req'.pc = "provider" => m \in fetched[req.at]
                          /\ req'.pc = "forward" => m \in listed[req.at][req'.dest]
<1>1. RoutingInv /\ [Next]_vars => [Right]_vars
  <2> SUFFICES ASSUME RoutingInv, [Next]_vars, req.pc = "route", req'.pc # "route"
               PROVE  LET m == Lower[req.model]
                      IN  /\ req'.pc = "provider" => m \in fetched[req.at]
                          /\ req'.pc = "forward" => m \in listed[req.at][req'.dest]
    OBVIOUS
  <2>0. req \in ReqType /\ req.origin \in Node \cup {""} /\ "503" \in ReqAnswer
    BY ReqFields DEF RoutingInv, RoutingType, ReqInv, ReqAnswer
  <2>1. CASE RouteRequest
    BY <2>1, RouteIsListed
  <2>2. CASE req' = NoRequest
    BY <2>2, NoRequestType
  <2>3. CASE req' = Lost
    BY <2>0, <2>3, LostReq
  <2>4. CASE ForwardFails
    BY <2>0, <2>4, DoneReq DEF ForwardFails
  <2>5. CASE req' = req
    BY <2>5
  <2> QED
    BY <2>1, <2>2, <2>3, <2>4, <2>5, RequestMoves
       DEF HandleStep, Handle, Request, ReverseProxy, Forward, PeerReplies, Finish
<1> QED
  BY <1>1, RoutingInvHolds, PTL DEF Spec, ServedAsListed

\* How far a request is from its end.
ToGo(r) ==
    CASE r.pc = "idle" -> 0
      [] r.pc = "done" /\ r.at = r.origin -> 1
      [] r.pc = "lost" -> 2
      [] r.pc = "done" /\ r.at # r.origin -> 3
      [] r.pc = "provider" -> 4
      [] r.pc = "route" /\ r.noRelay -> 5
      [] r.pc = "forward" -> 6
      [] r.pc = "route" /\ ~r.noRelay -> 7

\* A request under way is only ever taken nearer to its end: nothing that a node
\* learns of its peers, and no stop or start of a node, the one that serves it
\* included, sends it back (proxy.go:71-139, service.go:182-219).  This is the
\* safety part of Answered; that the steps are taken is left to model checking.
THEOREM RequestAdvances ==
    Spec => [][req.pc # "idle" => (req' = req \/ ToGo(req') < ToGo(req))]_vars
<1>1. RoutingInv /\ [Next]_vars =>
        [req.pc # "idle" => (req' = req \/ ToGo(req') < ToGo(req))]_vars
  <2> SUFFICES ASSUME RoutingInv, [Next]_vars, req.pc # "idle", req' # req
               PROVE  ToGo(req') < ToGo(req)
    OBVIOUS
  <2>0. /\ req \in ReqType /\ req.noRelay \in BOOLEAN
        /\ req.at \in Node \cup {""} /\ req.origin \in Node \cup {""}
        /\ req.pc = "lost" => ~AtPeer
    BY ReqFields DEF RoutingInv, RoutingType, ReqInv, AtPeer
  <2>p. \/ req.pc = "route" \/ req.pc = "provider" \/ req.pc = "forward"
        \/ req.pc = "lost" \/ req.pc = "done"
    BY <2>0, ReqFields DEF ReqPc
  <2>1. /\ req.pc = "done" => ToGo(req) = IF AtPeer THEN 3 ELSE 1
        /\ req.pc = "lost" => ToGo(req) = 2
        /\ req.pc = "provider" => ToGo(req) = 4
        /\ req.pc = "route" => ToGo(req) = IF req.noRelay THEN 5 ELSE 7
        /\ req.pc = "forward" => ToGo(req) = 6
    BY <2>0 DEF ToGo, AtPeer
  <2>2. /\ req'.pc = "idle" => ToGo(req') = 0
        /\ req'.pc = "done" => ToGo(req') = IF req'.at = req'.origin THEN 1 ELSE 3
        /\ req'.pc = "lost" => ToGo(req') = 2
        /\ req'.pc = "provider" => ToGo(req') = 4
        /\ req'.pc = "route" /\ req'.noRelay => ToGo(req') = 5
        /\ req'.pc = "forward" => ToGo(req') = 6
    BY DEF ToGo
  <2>3. CASE req' = NoRequest
    BY <2>p, <2>1, <2>2, <2>3, NoRequestType
  <2>l. CASE req' = Lost /\ AtPeer
    <3>1. ToGo(req') = 2
      BY <2>0, <2>2, <2>l, LostReq
    <3>2. req.pc # "lost" /\ (req.pc = "done" => ToGo(req) = 3)
      BY <2>0, <2>1, <2>l
    <3> QED
      BY <2>p, <2>1, <3>1, <3>2
  <2>a. ASSUME NEW a \in ReqAnswer, Answer(a), req.pc \in {"route", "provider"}
        PROVE  ToGo(req') < ToGo(req)
    <3>1. req'.pc = "done"
      BY <2>0, <2>a, DoneReq DEF Answer
    <3> QED
      BY <2>a, <2>1, <2>2, <3>1
  <2>4. CASE RouteRequest
    <3>1. CASE Answer("400") \/ Answer("404")
      BY <2>4, <2>a, <3>1 DEF RouteRequest, ReqAnswer
    <3>2. CASE req' = [req EXCEPT !.pc = "provider"]
      <4>1. req'.pc = "provider"
        BY <2>0, <3>2 DEF ReqType
      <4> QED
        BY <2>1, <2>2, <2>4, <4>1 DEF RouteRequest
    <3>3. CASE ~req.noRelay /\ \E p : Forwarded(p)
      <4>1. req'.pc = "forward"
        BY <2>0, <3>3 DEF Forwarded, ReqType
      <4>2. ToGo(req) = 7 /\ ToGo(req') = 6
        BY <2>1, <2>2, <2>4, <3>3, <4>1 DEF RouteRequest
      <4> QED
        BY <4>2
    <3> QED
      BY <2>4, <3>1, <3>2, <3>3 DEF RouteRequest
  <2>5. CASE ReverseProxy
    BY <2>5, <2>a DEF ReverseProxy, ReqAnswer
  <2>6. CASE Forward
    <3>1. PICK s : s = streamHandler(req.dest)
      OBVIOUS
    <3>2. s \in [DOMAIN req -> {s[x] : x \in DOMAIN s}] /\ DOMAIN s = DOMAIN req
      BY <3>1, <2>0 DEF streamHandler, ReqType
    <3>3. req' = [s EXCEPT !.noRelay = TRUE, !.pc = "route"] \/ req' = Done(s.at, "404")
      BY <2>6, <3>1 DEF Forward, MeshServeHTTP
    <3>4. "pc" \in DOMAIN s /\ "noRelay" \in DOMAIN s
      BY <2>0, <3>2 DEF ReqType
    <3>5. req'.pc = "done" \/ (req'.pc = "route" /\ req'.noRelay)
      <4>1. CASE req' = Done(s.at, "404")
        BY <4>1 DEF Done, NoRequest
      <4> QED
        BY <3>2, <3>3, <3>4, <4>1
    <3> QED
      BY <2>1, <2>2, <2>6, <3>5 DEF Forward
  <2>7. CASE PeerReplies
    <3>1. req'.pc = "done" /\ req'.at = req'.origin
      BY <2>0, <2>7 DEF PeerReplies, ReqType
    <3> QED
      BY <2>1, <2>2, <2>7, <3>1 DEF PeerReplies
  <2>8. CASE ForwardFails
    <3>1. req'.pc = "done" /\ req'.at = req'.origin
      BY <2>8 DEF ForwardFails, Done, NoRequest
    <3> QED
      BY <2>p, <2>1, <2>2, <2>8, <3>1 DEF ForwardFails
  <2> QED
    BY <2>3, <2>l, <2>4, <2>5, <2>6, <2>7, <2>8, RequestMoves
       DEF HandleStep, Handle, Request, Finish
<1> QED
  BY <1>1, RoutingInvHolds, PTL DEF Spec
============================================================================
