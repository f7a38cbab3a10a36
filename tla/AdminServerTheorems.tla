------------------------ MODULE AdminServerTheorems ------------------------
(***************************************************************************)
(* The safety theorems about AdminServer, on top of its type correctness.  *)
(***************************************************************************)
EXTENDS AdminServerProofs

\* A step of a handler changes only its own request.  The places where a
\* request can come to be inserting, replying to a redemption or removing from
\* the allow list are the ones the invariants below are about.
LEMMA OwnRequestOnly ==
    ASSUME TypeInv, NEW w \in Worker, Handler(w)
    PROVE  /\ \A v \in Worker : v # w => req'[v] = req[v]
           /\ req'[w].pc = "insert" => Register(w) \/ req'[w] = req[w]
           /\ req'[w].pc = "redeemReply" => RedeemPut(w) \/ RedeemBurn(w) \/ req'[w] = req[w]
           /\ req'[w].pc \in RedeemPc =>
                Redeem(w) \/ (req[w].pc \in RedeemPc /\ req'[w].invite = req[w].invite)
           /\ req'[w].pc \in {"unregisterAcl", "deleteAcl"} =>
                Unregister(w) \/ DeleteNodeLocked(w) \/ req'[w] = req[w]
<1> USE DEF Running, Free, RedeemPc
<1>0. req[w] \in Request /\ req \in [Worker -> Request]
  BY DEF TypeInv, TypeOK
<1>1. CASE \/ CreateInvite(w) \/ ListInvites(w) \/ DeleteInvite(w) \/ Login(w)
           \/ Authorize(w) \/ PersistList(w)
  BY <1>1 DEF CreateInvite, ListInvites, DeleteInvite, Login, Authorize, PersistList
<1>2. CASE Redeem(w)
  <2>1. PICK i \in Invite, n \in Node :
          req' = req \/ Begin(w, n, i, "redeemAdd")
    BY <1>2 DEF Redeem
  <2> QED
    BY <1>2, <2>1, BeginRedeem
<1>3. CASE RedeemAdd(w)
  BY <1>3, GotoReq DEF RedeemAdd, Pc
<1>4. CASE RedeemPut(w)
  <2>1. PICK s \in Secret :
          req' = [req EXCEPT ![w].secret = s,
                             ![w].pc = IF invites[req[w].invite].oneTime
                                       THEN "redeemBurn" ELSE "redeemReply"]
    BY <1>4 DEF RedeemPut
  <2>2. /\ \A v \in Worker : v # w => req'[v] = req[v]
        /\ req'[w].pc \in {"redeemBurn", "redeemReply"}
        /\ req'[w].invite = req[w].invite
    BY <1>0, <2>1 DEF Request
  <2> QED
    BY <1>4, <2>2 DEF RedeemPut
<1>5. CASE RedeemBurn(w)
  BY <1>5, GotoReq DEF RedeemBurn, Pc
<1>6. CASE RedeemError(w) \/ RedeemReply(w)
  BY <1>6, ReplyReq DEF RedeemError, RedeemReply
<1>7. CASE Register(w)
  <2>1. PICK n \in Node : Begin(w, n, "", "insert")
    BY <1>7 DEF Register
  <2> QED
    BY <1>7, <2>1, BeginOther, PcNames
<1>8. CASE RegisterInsert(w) \/ UnregisterAcl(w)
  BY <1>8, ReplyReq DEF RegisterInsert, UnregisterAcl
<1>9. CASE Unregister(w)
  <2>1. PICK n \in Node : Begin(w, n, "", "unregisterAcl")
    BY <1>9 DEF Unregister
  <2> QED
    BY <1>9, <2>1, BeginOther, PcNames
<1>10. CASE DeleteNode(w)
  <2>1. PICK n \in Node :
          req' = [req EXCEPT ![w] = [NoRequest EXCEPT !.node = n,
                                !.keys = records[n] # NoSecret, !.pc = "deleteLock"]]
    BY <1>10 DEF DeleteNode
  <2>2. req'[w].pc = "deleteLock" /\ \A v \in Worker : v # w => req'[v] = req[v]
    BY <1>0, <2>1 DEF NoRequest
  <2> QED
    BY <2>2
<1>11. CASE DeleteNodeLocked(w)
  BY <1>11, GotoReq DEF DeleteNodeLocked, Pc
<1>12. CASE DeleteNodeAcl(w)
  BY <1>12, GotoReq DEF DeleteNodeAcl, Pc
<1>13. CASE DeleteNodeKeys(w) \/ DeleteNodeError(w)
  BY <1>13, ReplyReq DEF DeleteNodeKeys, DeleteNodeError
<1> QED
  BY <1>1, <1>2, <1>3, <1>4, <1>5, <1>6, <1>7, <1>8, <1>9, <1>10, <1>11, <1>12, <1>13
     DEF Handler

\* How a step may change the registry and the sessions.
LEMMA RegistryStep ==
    ASSUME TypeInv, NEW w \in Worker, Handler(w)
    PROVE  /\ boot' = boot
           /\ \/ nodes' = nodes /\ logicalTime' = logicalTime
              \/ /\ RegisterInsert(w) /\ req[w].node \in Node
                 /\ logicalTime' = logicalTime + 1
                 /\ nodes' = [nodes EXCEPT ![req[w].node] = logicalTime + 1]
              \/ /\ Unregister(w) \/ DeleteNodeLocked(w)
                 /\ \E n \in Node : /\ nodes[n] # 0
                                    /\ logicalTime' = logicalTime + 1
                                    /\ nodes' = [nodes EXCEPT ![n] = 0]
<1> USE DEF Running, Free
<1>1. CASE RegisterInsert(w)
  BY <1>1 DEF RegisterInsert, TypeInv, ReqOK
<1>2. CASE Unregister(w) \/ DeleteNodeLocked(w)
  <2>1. PICK n \in Node : DropNode(n)
    BY <1>2 DEF Unregister, DeleteNodeLocked, TypeInv, ReqOK
  <2>2. CASE nodes[n] # 0
    BY <1>2, <2>1, <2>2 DEF DropNode
  <2>3. CASE nodes[n] = 0
    <3>1. nodes' = nodes
      BY <2>1, <2>3 DEF DropNode, TypeInv, TypeOK
    <3> QED
      BY <2>1, <2>3, <3>1 DEF DropNode
  <2> QED
    BY <2>2, <2>3
<1>3. CASE ~(RegisterInsert(w) \/ Unregister(w) \/ DeleteNodeLocked(w))
  BY <1>3 DEF Handler, registry, CreateInvite, ListInvites, DeleteInvite, Redeem,
     RedeemAdd, RedeemPut, RedeemBurn, RedeemError, RedeemReply, Login, Authorize,
     Register, UnregisterAcl, DeleteNode, DeleteNodeAcl, DeleteNodeKeys,
     DeleteNodeError, PersistList
<1> QED
  BY <1>1, <1>2, <1>3
----------------------------------------------------------------------------
\* Every step of the server is a step of the allow list or leaves it.
LEMMA ListSimulation == TypeInv /\ [Next]_vars => [AclNext]_aclVars
<1> SUFFICES ASSUME TypeInv, [Next]_vars PROVE [AclNext]_aclVars
  OBVIOUS
<1>1. ASSUME NEW w \in Worker, Handler(w)
      PROVE  [AclNext]_aclVars
  <2>1. CASE RedeemAdd(w) \/ UnregisterAcl(w) \/ DeleteNodeAcl(w)
    <3>1. req[w].node \in Node
      BY <2>1 DEF RedeemAdd, UnregisterAcl, DeleteNodeAcl, Running, TypeInv, ReqOK
    <3> QED
      BY <2>1, <3>1 DEF RedeemAdd, UnregisterAcl, DeleteNodeAcl, AclNext
  <2>2. CASE Authorize(w) \/ PersistList(w)
    BY <2>2 DEF Authorize, PersistList, AclNext
  <2>3. CASE \/ CreateInvite(w) \/ ListInvites(w) \/ DeleteInvite(w) \/ Redeem(w)
             \/ RedeemPut(w) \/ RedeemBurn(w) \/ RedeemError(w) \/ RedeemReply(w)
             \/ Login(w) \/ Register(w) \/ RegisterInsert(w) \/ Unregister(w)
             \/ DeleteNode(w) \/ DeleteNodeLocked(w) \/ DeleteNodeKeys(w)
             \/ DeleteNodeError(w)
    BY <2>3 DEF CreateInvite, ListInvites, DeleteInvite, Redeem, RedeemPut, RedeemBurn,
       RedeemError, RedeemReply, Login, Register, RegisterInsert, Unregister, DeleteNode,
       DeleteNodeLocked, DeleteNodeKeys, DeleteNodeError
  <2> QED
    BY <1>1, <2>1, <2>2, <2>3 DEF Handler
<1>2. ASSUME NEW i \in Invite, InviteExpires(i)
      PROVE  UNCHANGED aclVars
  BY <1>2 DEF InviteExpires
<1>3. CASE Restart
  BY <1>3 DEF Restart, AclNext
<1>4. CASE UNCHANGED vars
  BY <1>4 DEF vars
<1> QED
  BY <1>1, <1>2, <1>3, <1>4 DEF Next

\* The handlers use the allow list as AllowList describes it: they call it with
\* ids of nodes, one call per goroutine at a time, and touch neither the set nor
\* the file in any other way.  What is proved of AllowList holds in the server.
THEOREM ListRefinement == Spec => AclSpec
<1>1. Init => AclInit
  BY DEF Init
<1> QED
  BY <1>1, ListSimulation, TypeInvInit, TypeInvStep, PTL DEF Spec, AclSpec

\* A request whose change of the list ran alone leaves the file equal to the
\* list, whatever the other handlers do to the store and the registry meanwhile
\* (allow.go:52-78).
THEOREM SoloInServer == Spec => []SoloWriteMatchesList
  BY ListRefinement, SoloWriteCorrect, PTL

\* A restart of the server between such changes loads the list it had.
THEOREM RestartInServer == Spec => RestartKeepsList
  BY ListRefinement, RestartCorrect, PTL
----------------------------------------------------------------------------
\* The table of nodes starts empty with the clock at 0.
LEMMA RegistryAtInit == Init => Reg!RegistryInit
  BY DEF Init, Reg!RegistryInit, Reg!Absent

\* Every step of the server is a step of the abstract registry or leaves it.
LEMMA RegistrySimulation ==
    TypeInv /\ [Next]_vars => [Reg!RegistryNext]_(Reg!registryVars)
<1> SUFFICES ASSUME TypeInv, [Next]_vars
             PROVE  Reg!RegistryNext \/ UNCHANGED registry
  BY DEF Reg!registryVars, registry
<1>1. ASSUME NEW w \in Worker, Handler(w)
      PROVE  Reg!RegistryNext \/ UNCHANGED registry
  BY <1>1, RegistryStep DEF Reg!RegistryNext, Reg!Join, Reg!Leave, registry
<1>2. ASSUME NEW i \in Invite, InviteExpires(i)
      PROVE  UNCHANGED registry
  BY <1>2 DEF InviteExpires
<1>3. CASE Restart
  BY <1>3 DEF Restart, Reg!RegistryNext, Reg!ServerRestart, Reg!Absent
<1>4. CASE UNCHANGED vars
  BY <1>4 DEF vars
<1> QED
  BY <1>1, <1>2, <1>3, <1>4 DEF Next

\* The admin server implements the registry that the discovery loop of the
\* nodes relies on: the table changes one node at a time and only together
\* with the clock, in every interleaving of the handlers and over restarts.
THEOREM RegistryRefinement == Spec => ImplementsRegistry
  BY RegistryAtInit, RegistrySimulation, TypeInvInit, TypeInvStep, PTL
     DEF Spec, ImplementsRegistry, Reg!RegistrySpec
----------------------------------------------------------------------------
\* Who is registered, and who is about to be, was sent by an accepted caller.  The
\* second part is needed because apiNodeRegister authenticates the caller before
\* it takes the lock.
RegistrarInv ==
    /\ TypeInv
    /\ RegistrarIsAccepted
    /\ \A w \in Worker : req[w].pc = "insert" => Authenticated(sentWith[req[w].node])

\* A handler only ever puts down a token that this start accepts.
LEMMA SentWithStep ==
    ASSUME TypeInv, NEW w \in Worker, Handler(w), NEW n \in Node
    PROVE  /\ boot' = boot
           /\ sentWith'[n] = sentWith[n] \/ Authenticated(sentWith'[n])
           /\ Register(w) => /\ req'[w].pc = "insert" /\ req'[w].node \in Node
                             /\ Authenticated(sentWith'[req'[w].node])
<1>1. boot' = boot
  BY RegistryStep
<1>2. CASE Register(w)
  <2>1. PICK m \in Node, t \in Tokens :
          /\ Authenticated(t) /\ Begin(w, m, "", "insert")
          /\ sentWith' = [sentWith EXCEPT ![m] = t]
    BY <1>2 DEF Register
  <2>2. req'[w].pc = "insert" /\ req'[w].node = m
    BY <2>1, BeginOther, PcNames
  <2>3. sentWith \in [Node -> Nat]
    BY DEF TypeInv, TypeOK
  <2> QED
    BY <1>1, <2>1, <2>2, <2>3
<1>3. CASE ~Register(w)
  <2>1. sentWith' = sentWith
    BY <1>3 DEF Handler, clients, CreateInvite, ListInvites, DeleteInvite, Redeem,
       RedeemAdd, RedeemPut, RedeemBurn, RedeemError, RedeemReply, Login, Authorize,
       RegisterInsert, Unregister, UnregisterAcl, DeleteNode,
       DeleteNodeLocked, DeleteNodeAcl, DeleteNodeKeys, DeleteNodeError, PersistList
  <2> QED
    BY <1>1, <1>3, <2>1
<1> QED
  BY <1>2, <1>3

\* A handler keeps both parts.
LEMMA RegistrarHandler ==
    ASSUME RegistrarInv, TypeInv', NEW w \in Worker, Handler(w)
    PROVE  RegistrarInv'
<1>0. TypeInv
  BY DEF RegistrarInv
<1>1. ASSUME NEW n \in Node, nodes'[n] # 0
      PROVE  Authenticated(sentWith[n])
  <2>1. nodes[n] # 0 \/ (RegisterInsert(w) /\ n = req[w].node)
    BY <1>0, <1>1, RegistryStep DEF TypeInv, TypeOK
  <2> QED
    BY <2>1 DEF RegistrarInv, RegistrarIsAccepted, RegisterInsert, Running
<1>2. ASSUME NEW n \in Node, Authenticated(sentWith[n])
      PROVE  Authenticated(sentWith[n])'
  BY <1>0, <1>2, SentWithStep DEF Authenticated, Decrypts
<1>3. ASSUME NEW v \in Worker, req'[v].pc = "insert"
      PROVE  Authenticated(sentWith[req[v].node])'
  <2>0. req'[v].node \in Node
    BY <1>3 DEF TypeInv, ReqOK
  <2>1. CASE req'[v] = req[v]
    BY <1>2, <1>3, <2>0, <2>1 DEF RegistrarInv
  <2>2. CASE req'[v] # req[v]
    <3>1. v = w /\ Register(w)
      BY <1>0, <1>3, <2>2, OwnRequestOnly
    <3> QED
      BY <1>0, <2>0, <3>1, SentWithStep DEF Authenticated, Decrypts
  <2> QED
    BY <2>1, <2>2
<1>4. RegistrarIsAccepted'
  BY <1>1, <1>2 DEF RegistrarIsAccepted
<1>5. (\A v \in Worker : req[v].pc = "insert" => Authenticated(sentWith[req[v].node]))'
  BY <1>3
<1> QED
  BY <1>4, <1>5 DEF RegistrarInv

\* So does every other step; a restart empties the table of nodes.
LEMMA RegistrarStep == RegistrarInv /\ [Next]_vars => RegistrarInv'
<1> SUFFICES ASSUME RegistrarInv, [Next]_vars
             PROVE  RegistrarInv'
  OBVIOUS
<1>0. TypeInv /\ TypeInv'
  BY TypeInvStep DEF RegistrarInv
<1>1. ASSUME NEW w \in Worker, Handler(w)
      PROVE  RegistrarInv'
  BY <1>0, <1>1, RegistrarHandler
<1>2. CASE UNCHANGED vars \/ \E i \in Invite : InviteExpires(i)
  <2>1. UNCHANGED <<registry, clients, req>>
    BY <1>2 DEF vars, InviteExpires
  <2> QED
    BY <1>0, <2>1 DEF RegistrarInv, RegistrarIsAccepted, Authenticated, Decrypts, registry, clients
<1>3. CASE Restart
  <2>1. \A n \in Node : nodes'[n] = 0
    BY <1>3 DEF Restart
  <2>2. \A v \in Worker : req'[v].pc = "free"
    BY <1>3, NoRequestType DEF Restart
  <2> QED
    BY <1>0, <2>1, <2>2 DEF RegistrarInv, RegistrarIsAccepted
<1> QED
  BY <1>1, <1>2, <1>3 DEF Next

\* Nobody is registered at first.
LEMMA RegistrarAtInit == Init => RegistrarInv
<1> SUFFICES ASSUME Init PROVE RegistrarInv
  OBVIOUS
<1>1. \A n \in Node : nodes[n] = 0
  BY DEF Init
<1>2. \A v \in Worker : req[v].pc = "free"
  BY NoRequestType DEF Init
<1> QED
  BY <1>1, <1>2, TypeInvInit DEF RegistrarInv, RegistrarIsAccepted

\* Whoever is registered was registered by the administrator or with a session of
\* the running start, however requests interleave and whenever the server
\* restarts: no registration outlives the key that let it in (server.go:91-102,
\* :243, api_node.go:42-77).
THEOREM RegistrarCorrect == Spec => []RegistrarIsAccepted
<1>1. RegistrarInv => RegistrarIsAccepted
  BY DEF RegistrarInv
<1> QED
  BY <1>1, RegistrarAtInit, RegistrarStep, PTL DEF Spec
----------------------------------------------------------------------------
Born(i) == invites[i].status # "unborn"

\* A redemption under way is of an invite that was created, and one that is
\* about to be answered has already deleted a one-time invite.
BurnInv ==
    /\ TypeInv
    /\ OneTimeBurned
    /\ \A i \in Invite : accepted[i] > 0 => Born(i)
    /\ \A w \in Worker : req[w].pc \in RedeemPc => Born(req[w].invite)
    /\ \A w \in Worker : req[w].pc = "redeemReply" /\ invites[req[w].invite].oneTime
                            => invites[req[w].invite].status = "deleted"

\* An invite that was created keeps its kind, and a deleted one stays deleted.
LEMMA InviteLife ==
    ASSUME TypeInv, Next, NEW i \in Invite, Born(i)
    PROVE  /\ invites'[i].status # "unborn"
           /\ invites'[i].oneTime = invites[i].oneTime
           /\ invites[i].status = "deleted" => invites'[i].status = "deleted"
<1>1. CASE \E S : DropInvites(S)
  BY <1>1, DropInvitesType DEF Born
<1>2. CASE \E w \in Worker : CreateInvite(w)
  BY <1>2 DEF CreateInvite, Born, TypeInv, TypeOK
<1>3. CASE \E j \in Invite : InviteExpires(j)
  BY <1>3 DEF InviteExpires, Born, TypeInv, TypeOK, InviteState
<1>4. CASE invites' = invites
  BY <1>4 DEF Born
<1>5. \/ \E S : DropInvites(S)
      \/ \E w \in Worker : CreateInvite(w)
      \/ \E j \in Invite : InviteExpires(j)
      \/ invites' = invites
  BY DEF Next, Restart, Handler, store, ListInvites, DeleteInvite, Redeem, RedeemAdd,
     RedeemPut, RedeemBurn, RedeemError, RedeemReply, Login, Authorize, Register,
     RegisterInsert, Unregister, UnregisterAcl, DeleteNode, DeleteNodeLocked,
     DeleteNodeAcl, DeleteNodeKeys, DeleteNodeError, PersistList
<1> QED
  BY <1>1, <1>2, <1>3, <1>4, <1>5

\* A success is counted only by the answer to a redemption.
LEMMA AcceptedStep ==
    ASSUME TypeInv, Next, NEW i \in Invite, accepted'[i] > 0
    PROVE  accepted[i] > 0 \/ \E w \in Worker : RedeemReply(w) /\ req[w].invite = i
<1>1. CASE \E w \in Worker : RedeemReply(w)
  BY <1>1 DEF RedeemReply, TypeInv, TypeOK
<1>2. CASE accepted' = accepted
  BY <1>2
<1>3. (\E w \in Worker : RedeemReply(w)) \/ accepted' = accepted
  BY DEF Next, Restart, InviteExpires, Handler, clients, CreateInvite, ListInvites,
     DeleteInvite, Redeem, RedeemAdd, RedeemPut, RedeemBurn, RedeemError, Login,
     Authorize, Register, RegisterInsert, Unregister, UnregisterAcl, DeleteNode,
     DeleteNodeLocked, DeleteNodeAcl, DeleteNodeKeys, DeleteNodeError, PersistList
<1> QED
  BY <1>1, <1>2, <1>3

\* A redemption that runs on, or begins, is of a created invite.
LEMMA RedeemsBorn ==
    ASSUME BurnInv, NEW w \in Worker, Handler(w), NEW v \in Worker,
           req'[v].pc \in RedeemPc
    PROVE  req'[v].invite \in Invite /\ Born(req'[v].invite)
<1>0. TypeInv
  BY DEF BurnInv
<1>1. CASE req[v].pc \in RedeemPc /\ req'[v].invite = req[v].invite
  BY <1>0, <1>1 DEF BurnInv, TypeInv, ReqOK
<1>2. CASE ~(req[v].pc \in RedeemPc /\ req'[v].invite = req[v].invite)
  <2>1. v = w /\ Redeem(w)
    BY <1>0, <1>2, OwnRequestOnly
  <2>2. PICK i \in Invite, n \in Node :
          Live(i) /\ (req' = req \/ Begin(w, n, i, "redeemAdd"))
    BY <2>1 DEF Redeem
  <2>3. Begin(w, n, i, "redeemAdd")
    BY <1>2, <2>1, <2>2
  <2>4. req'[w].invite = i
    BY <1>0, <2>3, BeginRedeem
  <2> QED
    BY <2>1, <2>2, <2>4 DEF Live, Born
<1> QED
  BY <1>1, <1>2

\* A redemption that comes to its answer has deleted a one-time invite.
LEMMA ReplyBurned ==
    ASSUME BurnInv, NEW w \in Worker, Handler(w), NEW v \in Worker,
           req'[v].pc = "redeemReply", invites'[req'[v].invite].oneTime
    PROVE  invites'[req'[v].invite].status = "deleted"
<1>0. TypeInv /\ Next
  BY DEF BurnInv, Next
<1>1. req'[v].invite \in Invite /\ Born(req'[v].invite)
  BY RedeemsBorn DEF RedeemPc
<1>2. invites[req'[v].invite].oneTime
  BY <1>0, <1>1, InviteLife
<1>3. CASE req'[v] = req[v]
  BY <1>0, <1>1, <1>2, <1>3, InviteLife DEF BurnInv
<1>4. CASE req'[v] # req[v]
  <2>1. v = w /\ (RedeemPut(w) \/ RedeemBurn(w))
    BY <1>0, <1>4, OwnRequestOnly
  <2>2. req[w] \in Request
    BY <1>0 DEF TypeInv, TypeOK
  <2>3. CASE RedeemPut(w)
    <3> DEFINE p == IF invites[req[w].invite].oneTime THEN "redeemBurn" ELSE "redeemReply"
    <3>0. PICK s \in Secret : req' = [req EXCEPT ![w].secret = s, ![w].pc = p]
      BY <2>3 DEF RedeemPut
    <3> HIDE DEF p
    <3>1. req'[w].pc = p /\ req'[w].invite = req[w].invite
      BY <1>0, <2>2, <3>0 DEF TypeInv, TypeOK, Request
    <3> QED
      BY <1>2, <2>1, <3>1 DEF p
  <2>4. CASE RedeemBurn(w)
    <3>1. req'[w].invite = req[w].invite
      BY <1>0, <2>4, GotoReq DEF RedeemBurn, Running, Pc, RedeemPc
    <3> QED
      BY <1>0, <1>1, <2>1, <2>4, <3>1, DropInvitesType DEF RedeemBurn
  <2> QED
    BY <2>1, <2>3, <2>4
<1> QED
  BY <1>3, <1>4

\* Every step keeps the invariant.
LEMMA BurnStep == BurnInv /\ [Next]_vars => BurnInv'
<1> SUFFICES ASSUME BurnInv, [Next]_vars PROVE BurnInv'
  OBVIOUS
<1>0. TypeInv /\ TypeInv'
  BY TypeInvStep DEF BurnInv
<1>1. CASE UNCHANGED vars
  BY <1>0, <1>1 DEF vars, store, clients, BurnInv, OneTimeBurned, Born
<1>2. CASE Next
  <2>1. ASSUME NEW i \in Invite, accepted'[i] > 0
        PROVE  Born(i) /\ (invites[i].oneTime => invites[i].status = "deleted")
    <3>1. CASE accepted[i] > 0
      BY <3>1 DEF BurnInv, OneTimeBurned
    <3>2. CASE \E w \in Worker : RedeemReply(w) /\ req[w].invite = i
      BY <3>2 DEF RedeemReply, Running, BurnInv, RedeemPc
    <3> QED
      BY <1>0, <1>2, <2>1, <3>1, <3>2, AcceptedStep
  <2>2. OneTimeBurned' /\ (\A i \in Invite : accepted[i] > 0 => Born(i))'
    BY <1>0, <1>2, <2>1, InviteLife DEF OneTimeBurned, Born
  <2>3. ASSUME NEW v \in Worker, req'[v].pc \in RedeemPc
        PROVE  /\ invites'[req'[v].invite].status # "unborn"
               /\ req'[v].pc = "redeemReply" /\ invites'[req'[v].invite].oneTime
                    => invites'[req'[v].invite].status = "deleted"
    <3>1. CASE \E w \in Worker : Handler(w)
      BY <1>0, <1>2, <2>3, <3>1, RedeemsBorn, ReplyBurned, InviteLife
    <3>2. CASE \E i \in Invite : InviteExpires(i)
      <4>1. req' = req /\ req[v].invite \in Invite
        BY <1>0, <2>3, <3>2 DEF InviteExpires, TypeInv, ReqOK
      <4> QED
        BY <1>0, <1>2, <2>3, <4>1, InviteLife DEF BurnInv
    <3>3. CASE Restart
      <4>1. req'[v].pc = "free"
        BY <3>3, NoRequestType DEF Restart
      <4> QED
        BY <2>3, <4>1 DEF RedeemPc
    <3> QED
      BY <1>2, <3>1, <3>2, <3>3 DEF Next
  <2> QED
    BY <1>0, <2>2, <2>3 DEF BurnInv, Born, RedeemPc
<1> QED
  BY <1>1, <1>2

\* No invite was redeemed at first.
LEMMA BurnAtInit == Init => BurnInv
<1> SUFFICES ASSUME Init PROVE BurnInv
  OBVIOUS
<1>1. \A i \in Invite : accepted[i] = 0
  BY DEF Init
<1>2. \A v \in Worker : req[v].pc = "free"
  BY NoRequestType DEF Init
<1> QED
  BY <1>1, <1>2, TypeInvInit DEF BurnInv, OneTimeBurned, RedeemPc

\* Once a redemption of a one-time invite was answered the invite is gone for
\* good, however many redemptions run at once and whenever the server stops.
THEOREM BurnedCorrect == Spec => []OneTimeBurned
<1>1. BurnInv => OneTimeBurned
  BY DEF BurnInv
<1> QED
  BY <1>1, BurnAtInit, BurnStep, PTL DEF Spec
----------------------------------------------------------------------------
\* No two redemptions of one one-time invite are under way at once: the checks on
\* the invite and its deletion would have to be one section of a lock.
RedeemsAlone ==
    \A v, w \in Worker :
        /\ req[v].pc \in RedeemPc /\ req[w].pc \in RedeemPc
        /\ req[v].invite = req[w].invite /\ invites[req[v].invite].oneTime
        => v = w

\* A redemption of a one-time invite under way is the first of that invite.
OnceInv ==
    /\ BurnInv
    /\ OneTimeOnce
    /\ \A w \in Worker : req[w].pc \in RedeemPc /\ invites[req[w].invite].oneTime
                            => accepted[req[w].invite] = 0

\* What a step does to the count of one invite.
LEMMA CountStep ==
    ASSUME TypeInv, Next, NEW i \in Invite
    PROVE  \/ accepted'[i] = accepted[i]
           \/ \E w \in Worker : /\ RedeemReply(w) /\ req[w].invite = i
                                /\ accepted[i] = 0 => accepted'[i] = 1
<1>0. accepted \in [Invite -> 0..2]
  BY DEF TypeInv, TypeOK
<1>1. ASSUME NEW w \in Worker, RedeemReply(w)
      PROVE  \/ accepted'[i] = accepted[i]
             \/ req[w].invite = i /\ (accepted[i] = 0 => accepted'[i] = 1)
  BY <1>0, <1>1 DEF RedeemReply
<1>2. (\E w \in Worker : RedeemReply(w)) \/ accepted' = accepted
  BY DEF Next, Restart, InviteExpires, Handler, clients, CreateInvite, ListInvites,
     DeleteInvite, Redeem, RedeemAdd, RedeemPut, RedeemBurn, RedeemError, Login,
     Authorize, Register, RegisterInsert, Unregister, UnregisterAcl, DeleteNode,
     DeleteNodeLocked, DeleteNodeAcl, DeleteNodeKeys, DeleteNodeError, PersistList
<1> QED
  BY <1>1, <1>2

\* A redemption that runs on, or begins, is of an invite no one was let in with.
LEMMA RedeemsUnused ==
    ASSUME OnceInv, RedeemsAlone, NEW w \in Worker, Handler(w), NEW v \in Worker,
           req'[v].pc \in RedeemPc, invites'[req'[v].invite].oneTime
    PROVE  accepted'[req'[v].invite] = 0
<1> DEFINE i == req'[v].invite
<1>0. TypeInv /\ BurnInv /\ Next
  BY DEF OnceInv, BurnInv, Next
<1>1. i \in Invite /\ Born(i)
  BY <1>0, RedeemsBorn
<1>2. invites[i].oneTime
  BY <1>0, <1>1, InviteLife
<1>3. CASE req[v].pc \in RedeemPc /\ req[v].invite = i
  <2>1. accepted[i] = 0
    BY <1>2, <1>3 DEF OnceInv
  <2>2. ASSUME NEW u \in Worker, RedeemReply(u), req[u].invite = i
        PROVE  FALSE
    <3>1. req[u].pc = "redeemReply" /\ req'[u].pc = "free"
      BY <1>0, <2>2, ReplyReq DEF RedeemReply, Running
    <3>2. u = v
      BY <1>2, <1>3, <2>2, <3>1 DEF RedeemsAlone, RedeemPc
    <3> QED
      BY <3>1, <3>2 DEF RedeemPc
  <2> QED
    BY <1>0, <1>1, <2>1, <2>2, CountStep
<1>4. CASE ~(req[v].pc \in RedeemPc /\ req[v].invite = i)
  <2>1. v = w /\ Redeem(w)
    BY <1>0, <1>4, OwnRequestOnly
  <2>2. PICK j \in Invite, n \in Node :
          Live(j) /\ (req' = req \/ Begin(w, n, j, "redeemAdd"))
    BY <2>1 DEF Redeem
  <2>3. Begin(w, n, j, "redeemAdd")
    BY <1>4, <2>1, <2>2
  <2>4. i = j
    BY <1>0, <2>1, <2>3, BeginRedeem
  <2>5. accepted[i] \in 0..2 /\ ~(accepted[i] > 0)
    BY <1>0, <1>1, <1>2, <2>2, <2>4 DEF BurnInv, OneTimeBurned, Live, TypeInv, TypeOK
  <2>6. accepted' = accepted
    BY <2>1 DEF Redeem, clients
  <2> QED
    BY <2>5, <2>6
<1> QED
  BY <1>3, <1>4

\* Every step keeps the invariant while redemptions of an invite do not overlap.
LEMMA OnceStep == OnceInv /\ RedeemsAlone /\ [Next]_vars => OnceInv'
<1> SUFFICES ASSUME OnceInv, RedeemsAlone, [Next]_vars PROVE OnceInv'
  OBVIOUS
<1>0. TypeInv /\ BurnInv /\ BurnInv'
  BY BurnStep DEF OnceInv, BurnInv
<1>1. CASE UNCHANGED vars
  BY <1>0, <1>1 DEF vars, store, clients, OnceInv, OneTimeOnce
<1>2. CASE Next
  <2>1. ASSUME NEW i \in Invite, invites'[i].oneTime
        PROVE  accepted'[i] <= 1
    <3>0. accepted[i] \in 0..2 /\ accepted'[i] \in 0..2
      BY <1>0 DEF BurnInv, TypeInv, TypeOK
    <3>1. CASE \E w \in Worker : /\ RedeemReply(w) /\ req[w].invite = i
                                 /\ accepted[i] = 0 => accepted'[i] = 1
      <4>1. PICK w \in Worker : /\ RedeemReply(w) /\ req[w].invite = i
                                /\ accepted[i] = 0 => accepted'[i] = 1
        BY <3>1
      <4>2. req[w].pc \in RedeemPc /\ invites' = invites
        BY <4>1 DEF RedeemReply, Running, RedeemPc, store
      <4>3. accepted[i] = 0
        BY <2>1, <4>1, <4>2 DEF OnceInv
      <4> QED
        BY <4>1, <4>3
    <3>2. CASE accepted'[i] = accepted[i]
      <4>1. CASE Born(i)
        <5>1. invites'[i].oneTime = invites[i].oneTime
          BY <1>0, <1>2, <4>1, InviteLife
        <5> QED
          BY <2>1, <3>2, <5>1 DEF OnceInv, OneTimeOnce
      <4>2. CASE ~Born(i)
        BY <1>0, <3>0, <3>2, <4>2 DEF BurnInv
      <4> QED
        BY <4>1, <4>2
    <3> QED
      BY <1>0, <1>2, <3>1, <3>2, CountStep
  <2>2. ASSUME NEW v \in Worker, req'[v].pc \in RedeemPc, invites'[req'[v].invite].oneTime
        PROVE  accepted'[req'[v].invite] = 0
    <3>1. CASE \E w \in Worker : Handler(w)
      BY <2>2, <3>1, RedeemsUnused
    <3>2. CASE \E i \in Invite : InviteExpires(i)
      <4>1. req' = req /\ accepted' = accepted /\ req[v].invite \in Invite
        BY <1>0, <2>2, <3>2 DEF InviteExpires, clients, TypeInv, ReqOK
      <4>2. Born(req[v].invite)
        BY <1>0, <2>2, <4>1 DEF BurnInv
      <4> QED
        BY <1>0, <1>2, <2>2, <4>1, <4>2, InviteLife DEF OnceInv
    <3>3. CASE Restart
      <4>1. req'[v].pc = "free"
        BY <3>3, NoRequestType DEF Restart
      <4> QED
        BY <2>2, <4>1 DEF RedeemPc
    <3> QED
      BY <1>2, <3>1, <3>2, <3>3 DEF Next
  <2> QED
    BY <1>0, <2>1, <2>2 DEF OnceInv, OneTimeOnce
<1> QED
  BY <1>1, <1>2

\* No one was let in at first.
LEMMA OnceAtInit == Init => OnceInv
<1> SUFFICES ASSUME Init PROVE OnceInv
  OBVIOUS
<1>1. \A i \in Invite : accepted[i] = 0
  BY DEF Init
<1>2. \A v \in Worker : req[v].pc = "free"
  BY NoRequestType DEF Init
<1> QED
  BY <1>1, <1>2, BurnAtInit DEF OnceInv, OneTimeOnce, RedeemPc

\* A one-time invite lets one node in as long as redemptions of it do not
\* overlap, whatever other requests, failed writes and restarts come between
\* (api_admin.go:140-189).  Nothing else is missing for the promise that run
\* admin_race_invite refutes.
THEOREM OnceAlone == Spec /\ []RedeemsAlone => []OneTimeOnce
<1>1. OnceInv => OneTimeOnce
  BY DEF OnceInv
<1> QED
  BY <1>1, OnceAtInit, OnceStep, PTL DEF Spec

----------------------------------------------------------------------------
\* A request about node n is under way.
Busy(w, n) == req[w].pc # "free" /\ req[w].node = n

\* No two requests about one node are under way at once.  Requests about
\* different nodes may overlap.
NodesAlone == \A n \in Node : \A v, w \in Worker : Busy(v, n) /\ Busy(w, n) => v = w

\* What holds at the places of a handler that works on its node alone: acl.Has
\* still says yes when the node is inserted, a node that leaves the list has left
\* the registry before, and a redemption finds the list and the record as it
\* wrote them.
NodePlace(w) ==
    /\ req[w].pc \in {"insert", "redeemPut", "redeemBurn", "redeemReply"}
          => req[w].node \in allow
    /\ req[w].pc \in {"unregisterAcl", "deleteAcl"} => nodes[req[w].node] = 0
    /\ req[w].pc \in {"redeemBurn", "redeemReply"} => records[req[w].node] = req[w].secret

NodeInv ==
    /\ TypeInv
    /\ \A n \in Node : nodes[n] # 0 => n \in allow
    /\ \A w \in Worker : NodePlace(w)

\* Only the two removals take a node off the list.
LEMMA AllowStep ==
    ASSUME TypeInv, NEW w \in Worker, Handler(w)
    PROVE  \/ allow \subseteq allow'
           \/ /\ allow' = allow \ {req[w].node}
              /\ req[w].pc \in {"unregisterAcl", "deleteAcl"}
              /\ UNCHANGED nodes
              /\ req'[w].pc \in {"free", "deleteKeys"}
<1> USE DEF Running, Free
<1>1. CASE UnregisterAcl(w)
  BY <1>1, ReplyReq DEF UnregisterAcl, Remove, Change, registry
<1>2. CASE DeleteNodeAcl(w)
  BY <1>2, GotoReq DEF DeleteNodeAcl, Remove, Change, registry, Pc, RedeemPc
<1>3. CASE RedeemAdd(w) \/ Authorize(w)
  BY <1>3 DEF RedeemAdd, Authorize, Add, Change
<1>4. CASE ~(UnregisterAcl(w) \/ DeleteNodeAcl(w) \/ RedeemAdd(w) \/ Authorize(w))
  BY <1>4 DEF Handler, aclVars, CreateInvite, ListInvites, DeleteInvite, Redeem,
     RedeemPut, RedeemBurn, RedeemError, RedeemReply, Login, Register, RegisterInsert,
     Unregister, DeleteNode, DeleteNodeLocked, DeleteNodeKeys, DeleteNodeError,
     PersistList, Persist, PersistOpen, PersistWrite, PersistError
<1> QED
  BY <1>1, <1>2, <1>3, <1>4

\* A handler writes the record of its own node only.
LEMMA RecordStep ==
    ASSUME TypeInv, NEW w \in Worker, Handler(w), NEW n \in Node, records'[n] # records[n]
    PROVE  Busy(w, n) /\ (RedeemPut(w) \/ DeleteNodeKeys(w))
<1>1. CASE RedeemPut(w) \/ DeleteNodeKeys(w)
  BY <1>1 DEF RedeemPut, DeleteNodeKeys, Running, Busy, TypeInv, TypeOK
<1>2. CASE ~(RedeemPut(w) \/ DeleteNodeKeys(w))
  <2>1. records' = records
    BY <1>2 DEF Handler, store, CreateInvite, ListInvites, DeleteInvite, Redeem, RedeemAdd,
       RedeemBurn, RedeemError, RedeemReply, Login, Authorize, Register, RegisterInsert,
       Unregister, UnregisterAcl, DeleteNode, DeleteNodeLocked, DeleteNodeAcl,
       DeleteNodeError, PersistList
  <2> QED
    BY <2>1
<1> QED
  BY <1>1, <1>2

\* A handler puts only its own node on the list, unless it authorizes one.
LEMMA ListedStep ==
    ASSUME TypeInv, NEW w \in Worker, Handler(w), NEW n \in Node, n \in allow', n \notin allow
    PROVE  Authorize(w) \/ (RedeemAdd(w) /\ Busy(w, n))
<1>1. CASE UnregisterAcl(w) \/ DeleteNodeAcl(w)
  BY <1>1 DEF UnregisterAcl, DeleteNodeAcl, Remove, Change
<1>2. CASE RedeemAdd(w)
  BY <1>2 DEF RedeemAdd, Add, Change, Running, Busy
<1>3. CASE ~(UnregisterAcl(w) \/ DeleteNodeAcl(w) \/ RedeemAdd(w) \/ Authorize(w))
  BY <1>3 DEF Handler, aclVars, CreateInvite, ListInvites, DeleteInvite, Redeem,
     RedeemPut, RedeemBurn, RedeemError, RedeemReply, Login, Register, RegisterInsert,
     Unregister, DeleteNode, DeleteNodeLocked, DeleteNodeKeys, DeleteNodeError,
     PersistList, Persist, PersistOpen, PersistWrite, PersistError
<1> QED
  BY <1>1, <1>2, <1>3

\* What is recorded about a node is left alone by a handler whose request is,
\* before and after the step, about another one.
LEMMA Elsewhere ==
    ASSUME TypeInv, NEW w \in Worker, Handler(w), NEW n \in Node, ~Busy(w, n),
           req'[w].pc = "free" \/ req'[w].node # n
    PROVE  /\ nodes'[n] = nodes[n] /\ records'[n] = records[n]
           /\ n \in allow => n \in allow'
           /\ n \in allow' => n \in allow \/ Authorize(w)
<1> USE DEF Running, Free
<1>1. records'[n] = records[n]
  BY RecordStep
<1>2. n \in allow => n \in allow'
  BY AllowStep DEF Busy
<1>3. n \in allow' => n \in allow \/ Authorize(w)
  BY ListedStep
<1>4. nodes'[n] = nodes[n]
  <2>1. CASE RegisterInsert(w)
    BY <2>1 DEF RegisterInsert, Busy, TypeInv, TypeOK
  <2>2. CASE DeleteNodeLocked(w)
    BY <2>2 DEF DeleteNodeLocked, DropNode, Busy, TypeInv, TypeOK
  <2>3. CASE Unregister(w)
    <3>1. PICK m \in Node : DropNode(m) /\ Begin(w, m, "", "unregisterAcl")
      BY <2>3 DEF Unregister
    <3>2. "unregisterAcl" \in Pc \ RedeemPc
      BY PcNames
    <3>3. req'[w].pc = "unregisterAcl" /\ req'[w].node = m
      BY <3>1, <3>2, BeginOther
    <3> QED
      BY <3>1, <3>3 DEF DropNode, TypeInv, TypeOK
  <2> QED
    BY <2>1, <2>2, <2>3, RegistryStep
<1> QED
  BY <1>1, <1>2, <1>3, <1>4

\* A step of a handler brings its own request to a place where NodePlace holds.
LEMMA OwnPlace ==
    ASSUME NodeInv, NEW w \in Worker, Handler(w)
    PROVE  NodePlace(w)'
<1> USE DEF Running, Free
<1>0. TypeInv /\ NodePlace(w) /\ req[w] \in Request /\ req \in [Worker -> Request]
  BY DEF NodeInv, TypeInv, TypeOK
<1>1. CASE \/ CreateInvite(w) \/ ListInvites(w) \/ DeleteInvite(w) \/ Login(w)
           \/ Authorize(w) \/ PersistList(w)
  <2>1. req' = req /\ nodes' = nodes /\ records' = records
    BY <1>1 DEF CreateInvite, ListInvites, DeleteInvite, Login, Authorize, PersistList,
       registry, store
  <2>2. allow \subseteq allow'
    BY <1>1 DEF CreateInvite, ListInvites, DeleteInvite, Login, Authorize, PersistList,
       aclVars, Add, Change, Persist, PersistOpen, PersistWrite, PersistError
  <2> QED
    BY <1>0, <2>1, <2>2 DEF NodePlace
<1>2. CASE Redeem(w)
  <2>1. PICK i \in Invite, n \in Node : req' = req \/ Begin(w, n, i, "redeemAdd")
    BY <1>2 DEF Redeem
  <2>2. req'[w].pc \in {"free", "redeemAdd"}
    BY <1>0, <1>2, <2>1, BeginReq DEF Redeem, Pc, RedeemPc
  <2> QED
    BY <2>2 DEF NodePlace
<1>3. CASE RedeemAdd(w)
  <2>1. req'[w].pc = "redeemPut" /\ req'[w].node = req[w].node
    BY <1>0, <1>3, GotoReq DEF RedeemAdd, Pc, RedeemPc
  <2>2. req[w].node \in allow'
    BY <1>3 DEF RedeemAdd, Add, Change
  <2> QED
    BY <2>1, <2>2 DEF NodePlace
<1>4. CASE RedeemPut(w)
  <2>1. PICK s \in Secret :
          /\ records' = [records EXCEPT ![req[w].node] = s]
          /\ req' = [req EXCEPT ![w].secret = s,
                                ![w].pc = IF invites[req[w].invite].oneTime
                                          THEN "redeemBurn" ELSE "redeemReply"]
    BY <1>4 DEF RedeemPut
  <2>2. /\ req'[w].pc \in {"redeemBurn", "redeemReply"}
        /\ req'[w].node = req[w].node /\ req'[w].secret = s
    BY <1>0, <2>1 DEF Request
  <2>3. req[w].pc = "redeemPut" /\ allow' = allow
    BY <1>4 DEF RedeemPut, aclVars
  <2>4. records'[req[w].node] = s
    BY <1>0, <2>1, <2>3 DEF TypeInv, TypeOK, ReqOK
  <2> QED
    BY <1>0, <2>2, <2>3, <2>4 DEF NodePlace
<1>5. CASE RedeemBurn(w)
  <2>1. /\ req'[w].pc = "redeemReply" /\ req'[w].node = req[w].node
        /\ req'[w].secret = req[w].secret
    BY <1>0, <1>5, GotoReq DEF RedeemBurn, Pc, RedeemPc
  <2>2. req[w].pc = "redeemBurn" /\ allow' = allow /\ records' = records
    BY <1>5 DEF RedeemBurn, aclVars
  <2> QED
    BY <1>0, <2>1, <2>2 DEF NodePlace
<1>6. CASE Register(w)
  <2>1. PICK n \in Node : n \in allow /\ Begin(w, n, "", "insert")
    BY <1>6 DEF Register
  <2>2. req'[w].pc = "insert" /\ req'[w].node = n
    BY <1>0, <2>1, BeginOther, PcNames
  <2>3. allow' = allow
    BY <1>6 DEF Register, aclVars
  <2> QED
    BY <2>1, <2>2, <2>3 DEF NodePlace
<1>7. CASE Unregister(w)
  <2>1. PICK n \in Node : DropNode(n) /\ Begin(w, n, "", "unregisterAcl")
    BY <1>7 DEF Unregister
  <2>2. req'[w].pc = "unregisterAcl" /\ req'[w].node = n
    BY <1>0, <2>1, BeginOther, PcNames
  <2>3. nodes'[n] = 0
    BY <1>0, <2>1 DEF DropNode, TypeInv, TypeOK
  <2> QED
    BY <2>2, <2>3 DEF NodePlace
<1>8. CASE DeleteNodeLocked(w)
  <2>1. req'[w].pc = "deleteAcl" /\ req'[w].node = req[w].node /\ req[w].node \in Node
    BY <1>0, <1>8, GotoReq DEF DeleteNodeLocked, Pc, RedeemPc, TypeInv, ReqOK
  <2>2. nodes'[req[w].node] = 0
    BY <1>0, <1>8, <2>1 DEF DeleteNodeLocked, DropNode, TypeInv, TypeOK
  <2> QED
    BY <2>1, <2>2 DEF NodePlace
<1>9. CASE DeleteNode(w) \/ DeleteNodeAcl(w)
  <2>1. CASE DeleteNode(w)
    BY <1>0, <2>1 DEF DeleteNode, NoRequest, NodePlace
  <2>2. CASE DeleteNodeAcl(w)
    BY <1>0, <2>2, GotoReq DEF DeleteNodeAcl, Pc, RedeemPc, NodePlace
  <2> QED
    BY <1>9, <2>1, <2>2
<1>10. CASE \/ RedeemError(w) \/ RedeemReply(w) \/ RegisterInsert(w) \/ UnregisterAcl(w)
            \/ DeleteNodeKeys(w) \/ DeleteNodeError(w)
  <2>1. req'[w].pc = "free"
    BY <1>0, <1>10, ReplyReq DEF RedeemError, RedeemReply, RegisterInsert, UnregisterAcl,
       DeleteNodeKeys, DeleteNodeError
  <2> QED
    BY <2>1 DEF NodePlace
<1> QED
  BY <1>1, <1>2, <1>3, <1>4, <1>5, <1>6, <1>7, <1>8, <1>9, <1>10 DEF Handler

\* A request that is alone with its node is not disturbed by a step of another.
LEMMA Undisturbed ==
    ASSUME TypeInv, NodesAlone, NodesAlone', NEW w \in Worker, Handler(w),
           NEW v \in Worker, v # w, req[v].pc # "free"
    PROVE  LET n == req[v].node
           IN  /\ req'[v] = req[v]
               /\ nodes'[n] = nodes[n] /\ records'[n] = records[n]
               /\ n \in allow => n \in allow'
               /\ n \in allow' => n \in allow \/ Authorize(w)
<1>1. req'[v] = req[v] /\ req[v].node \in Node
  BY OwnRequestOnly DEF TypeInv, ReqOK
<1>2. ~Busy(w, req[v].node)
  BY <1>1 DEF NodesAlone, Busy
<1>3. req'[w].pc = "free" \/ req'[w].node # req[v].node
  BY <1>1 DEF NodesAlone, Busy
<1> QED
  BY <1>1, <1>2, <1>3, Elsewhere

\* Every step keeps the invariant while requests about one node do not overlap.
LEMMA NodeStep == NodeInv /\ NodesAlone /\ NodesAlone' /\ [Next]_vars => NodeInv'
<1> SUFFICES ASSUME NodeInv, NodesAlone, NodesAlone', [Next]_vars PROVE NodeInv'
  OBVIOUS
<1>0. TypeInv /\ TypeInv'
  BY TypeInvStep DEF NodeInv
<1>1. ASSUME NEW w \in Worker, Handler(w)
      PROVE  NodeInv'
  <2>1. ASSUME NEW n \in Node, nodes'[n] # 0
        PROVE  n \in allow'
    <3>1. nodes[n] # 0 \/ (RegisterInsert(w) /\ n = req[w].node)
      BY <1>0, <1>1, <2>1, RegistryStep DEF TypeInv, TypeOK
    <3>2. n \in allow
      BY <3>1 DEF NodeInv, NodePlace, RegisterInsert, Running
    <3> QED
      BY <1>0, <1>1, <2>1, <3>2, AllowStep DEF NodeInv, NodePlace
  <2>2. NodePlace(w)'
    BY <1>1, OwnPlace
  <2>3. ASSUME NEW v \in Worker, v # w
        PROVE  NodePlace(v)'
    <3>1. CASE req[v].pc = "free"
      BY <1>0, <1>1, <2>3, <3>1, OwnRequestOnly DEF NodePlace
    <3>2. CASE req[v].pc # "free"
      <4>1. req'[v] = req[v] /\ nodes'[req[v].node] = nodes[req[v].node]
            /\ records'[req[v].node] = records[req[v].node]
            /\ (req[v].node \in allow => req[v].node \in allow')
        BY <1>0, <1>1, <2>3, <3>2, Undisturbed
      <4>2. NodePlace(v)
        BY DEF NodeInv
      <4> QED
        BY <4>1, <4>2 DEF NodePlace
    <3> QED
      BY <3>1, <3>2
  <2>4. \A v \in Worker : NodePlace(v)'
    BY <2>2, <2>3
  <2> QED
    BY <1>0, <2>1, <2>4 DEF NodeInv
<1>2. CASE UNCHANGED vars \/ \E i \in Invite : InviteExpires(i)
  <2>1. UNCHANGED <<aclVars, registry, records, req>>
    BY <1>2 DEF vars, store, InviteExpires
  <2> QED
    BY <1>0, <2>1 DEF NodeInv, NodePlace, aclVars, registry
<1>3. CASE Restart
  <2>1. \A n \in Node : nodes'[n] = 0
    BY <1>3 DEF Restart
  <2>2. \A v \in Worker : req'[v].pc = "free"
    BY <1>3, NoRequestType DEF Restart
  <2> QED
    BY <1>0, <2>1, <2>2 DEF NodeInv, NodePlace
<1> QED
  BY <1>1, <1>2, <1>3 DEF Next

\* Nobody is registered at first.
LEMMA NodeAtInit == Init => NodeInv
<1> SUFFICES ASSUME Init PROVE NodeInv
  OBVIOUS
<1>1. \A n \in Node : nodes[n] = 0
  BY DEF Init
<1>2. \A v \in Worker : req[v].pc = "free"
  BY NoRequestType DEF Init
<1> QED
  BY <1>1, <1>2, TypeInvInit DEF NodeInv, NodePlace

\* While no two requests about one node overlap, a registered node is on the
\* allow list between requests, over restarts and failed writes of the file, and
\* whatever happens to other nodes at the same time (api_node.go:54-77, :138-147,
\* api_admin.go:330-339).  When they overlap it need not be (run
\* admin_race_register).
THEOREM AloneOnAcl == Spec /\ []NodesAlone => []RegisteredOnAcl
<1>1. NodeInv => RegisteredOnAcl
  BY DEF NodeInv, RegisteredOnAcl
<1> QED
  BY <1>1, NodeAtInit, NodeStep, PTL DEF Spec

----------------------------------------------------------------------------
\* The configuration of a node changes only by the answer to its redemption.
LEMMA ConfigStep ==
    ASSUME TypeInv, Next, NEW n \in Node, config'[n] # config[n]
    PROVE  \E w \in Worker : /\ RedeemReply(w) /\ req[w].node = n
                             /\ config'[n] = req[w].secret
<1>1. CASE \E w \in Worker : RedeemReply(w)
  BY <1>1 DEF RedeemReply, joinWithInvite, TypeInv, TypeOK
<1>2. CASE config' = config
  BY <1>2
<1>3. (\E w \in Worker : RedeemReply(w)) \/ config' = config
  BY DEF Next, Restart, InviteExpires, Handler, clients, CreateInvite, ListInvites,
     DeleteInvite, Redeem, RedeemAdd, RedeemPut, RedeemBurn, RedeemError, Login,
     Authorize, Register, RegisterInsert, Unregister, UnregisterAcl, DeleteNode,
     DeleteNodeLocked, DeleteNodeAcl, DeleteNodeKeys, DeleteNodeError, PersistList
<1> QED
  BY <1>1, <1>2, <1>3

\* While no two requests about one node overlap, a node that is handed a secret
\* gets in with it: the record and the allow list are as the redemption wrote
\* them, several steps earlier (api_admin.go:163-195).
THEOREM AloneGetsIn == Spec /\ []NodesAlone => RedeemedGetsIn
<1>1. NodeInv /\ [Next]_vars =>
        [\A n \in Node : config'[n] # config[n] =>
            config'[n] = records'[n] /\ n \in allow']_vars
  <2> SUFFICES ASSUME NodeInv, Next, NEW n \in Node, config'[n] # config[n]
               PROVE  config'[n] = records'[n] /\ n \in allow'
    OBVIOUS
  <2>1. PICK w \in Worker : RedeemReply(w) /\ req[w].node = n /\ config'[n] = req[w].secret
    BY ConfigStep DEF NodeInv
  <2>2. records' = records /\ allow' = allow /\ req[w].pc = "redeemReply"
    BY <2>1 DEF RedeemReply, Running, store, aclVars
  <2> QED
    BY <2>1, <2>2 DEF NodeInv, NodePlace
<1> QED
  BY <1>1, NodeAtInit, NodeStep, PTL DEF Spec, RedeemedGetsIn

----------------------------------------------------------------------------
\* apiNodeAuthorize has no request record of its own: it does not put a node on
\* the list that another request is about.
AuthorizeWaits ==
    \A v, w \in Worker, n \in Node : Authorize(w) /\ Busy(v, n) /\ n \in allow' => n \in allow

\* A deletion knows whether the node has a record, and once it has taken the
\* node from the registry and the list, the node stays away from both.
DeletePlace(w) ==
    /\ req[w].pc \in {"deleteLock", "deleteAcl", "deleteKeys"}
          => (req[w].keys <=> records[req[w].node] # NoSecret)
    /\ req[w].pc = "deleteKeys" => nodes[req[w].node] = 0 /\ req[w].node \notin allow

DeleteInv == NodeInv /\ \A w \in Worker : DeletePlace(w)

\* A step of a handler brings its own request to a place where that holds.
LEMMA OwnDelete ==
    ASSUME DeleteInv, NEW w \in Worker, Handler(w)
    PROVE  DeletePlace(w)'
<1> USE DEF Running, Free
<1>0. /\ TypeInv /\ NodePlace(w) /\ DeletePlace(w)
      /\ req[w] \in Request /\ req \in [Worker -> Request]
  BY DEF DeleteInv, NodeInv, TypeInv, TypeOK
<1>1. CASE DeleteNode(w)
  <2>1. PICK n \in Node :
          req' = [req EXCEPT ![w] = [NoRequest EXCEPT !.node = n,
                                !.keys = records[n] # NoSecret, !.pc = "deleteLock"]]
    BY <1>1 DEF DeleteNode
  <2>2. /\ req'[w].pc = "deleteLock" /\ req'[w].node = n
        /\ req'[w].keys = (records[n] # NoSecret)
    BY <1>0, <2>1 DEF NoRequest
  <2>3. records' = records
    BY <1>1 DEF DeleteNode, store
  <2> QED
    BY <2>2, <2>3 DEF DeletePlace
<1>2. CASE DeleteNodeLocked(w)
  <2>1. /\ req'[w].pc = "deleteAcl" /\ req'[w].node = req[w].node
        /\ req'[w].keys = req[w].keys
    BY <1>0, <1>2, GotoReq DEF DeleteNodeLocked, Pc, RedeemPc
  <2>2. records' = records /\ req[w].pc = "deleteLock"
    BY <1>2 DEF DeleteNodeLocked, store
  <2> QED
    BY <1>0, <2>1, <2>2 DEF DeletePlace
<1>3. CASE DeleteNodeAcl(w)
  <2>1. /\ req'[w].pc = "deleteKeys" /\ req'[w].node = req[w].node
        /\ req'[w].keys = req[w].keys
    BY <1>0, <1>3, GotoReq DEF DeleteNodeAcl, Pc, RedeemPc
  <2>2. records' = records /\ nodes' = nodes /\ req[w].pc = "deleteAcl"
    BY <1>3 DEF DeleteNodeAcl, store, registry
  <2>3. allow' = allow \ {req[w].node}
    BY <1>3 DEF DeleteNodeAcl, Remove, Change
  <2> QED
    BY <1>0, <2>1, <2>2, <2>3 DEF NodePlace, DeletePlace
<1>4. CASE \/ CreateInvite(w) \/ ListInvites(w) \/ DeleteInvite(w) \/ Login(w)
           \/ Authorize(w)
  BY <1>4 DEF CreateInvite, ListInvites, DeleteInvite, Login, Authorize, DeletePlace
<1>5. CASE PersistList(w)
  <2>1. req' = req /\ nodes' = nodes /\ records' = records /\ allow' = allow
    BY <1>5 DEF PersistList, Persist, PersistOpen, PersistWrite, PersistError, registry, store
  <2> QED
    BY <1>0, <2>1 DEF DeletePlace
<1>6. CASE \/ Redeem(w) \/ RedeemAdd(w) \/ RedeemPut(w) \/ RedeemBurn(w)
           \/ Register(w) \/ Unregister(w)
  <2>1. req'[w].pc \in {"free", "insert", "unregisterAcl"} \cup RedeemPc
    <3>1. CASE Redeem(w)
      <4>1. PICK i \in Invite, n \in Node : req' = req \/ Begin(w, n, i, "redeemAdd")
        BY <3>1 DEF Redeem
      <4> QED
        BY <1>0, <3>1, <4>1, BeginReq DEF Redeem, Pc, RedeemPc
    <3>2. CASE RedeemAdd(w) \/ RedeemBurn(w)
      BY <1>0, <3>2, GotoReq DEF RedeemAdd, RedeemBurn, Pc, RedeemPc
    <3>3. CASE RedeemPut(w)
      <4>1. PICK s \in Secret :
              req' = [req EXCEPT ![w].secret = s,
                                 ![w].pc = IF invites[req[w].invite].oneTime
                                           THEN "redeemBurn" ELSE "redeemReply"]
        BY <3>3 DEF RedeemPut
      <4> QED
        BY <1>0, <4>1 DEF Request, RedeemPc
    <3>4. CASE Register(w) \/ Unregister(w)
      BY <1>0, <3>4, BeginReq DEF Register, Unregister, Pc, RedeemPc
    <3> QED
      BY <1>6, <3>1, <3>2, <3>3, <3>4
  <2> QED
    BY <2>1 DEF DeletePlace, RedeemPc
<1>7. CASE \/ RedeemError(w) \/ RedeemReply(w) \/ RegisterInsert(w) \/ UnregisterAcl(w)
           \/ DeleteNodeKeys(w) \/ DeleteNodeError(w)
  <2>1. req'[w].pc = "free"
    BY <1>0, <1>7, ReplyReq DEF RedeemError, RedeemReply, RegisterInsert, UnregisterAcl,
       DeleteNodeKeys, DeleteNodeError
  <2> QED
    BY <2>1 DEF DeletePlace
<1> QED
  BY <1>1, <1>2, <1>3, <1>4, <1>5, <1>6, <1>7 DEF Handler

\* Every step keeps the invariant while requests about one node do not overlap.
LEMMA DeleteStep ==
    DeleteInv /\ NodesAlone /\ NodesAlone' /\ [Next]_vars /\ [AuthorizeWaits]_vars => DeleteInv'
<1> SUFFICES ASSUME DeleteInv, NodesAlone, NodesAlone', [Next]_vars, [AuthorizeWaits]_vars
             PROVE  DeleteInv'
  OBVIOUS
<1>0. TypeInv /\ NodeInv /\ NodeInv'
  BY NodeStep DEF DeleteInv, NodeInv
<1>1. CASE UNCHANGED vars \/ \E i \in Invite : InviteExpires(i)
  <2>1. UNCHANGED <<aclVars, registry, records, req>>
    BY <1>1 DEF vars, store, InviteExpires
  <2> QED
    BY <1>0, <2>1 DEF DeleteInv, DeletePlace, aclVars, registry
<1>2. ASSUME NEW w \in Worker, Handler(w), AuthorizeWaits
      PROVE  DeleteInv'
  <2>1. DeletePlace(w)'
    BY <1>2, OwnDelete
  <2>2. ASSUME NEW v \in Worker, v # w
        PROVE  DeletePlace(v)'
    <3>1. CASE req[v].pc = "free"
      BY <1>0, <1>2, <2>2, <3>1, OwnRequestOnly DEF DeletePlace
    <3>2. CASE req[v].pc # "free"
      <4> DEFINE n == req[v].node
      <4>1. n \in Node /\ Busy(v, n)
        BY <1>0, <3>2 DEF TypeInv, ReqOK, Busy
      <4>2. /\ req'[v] = req[v] /\ nodes'[n] = nodes[n] /\ records'[n] = records[n]
            /\ n \in allow' => n \in allow
        BY <1>0, <1>2, <2>2, <3>2, <4>1, Undisturbed DEF AuthorizeWaits
      <4> QED
        BY <4>2 DEF DeleteInv, DeletePlace
    <3> QED
      BY <3>1, <3>2
  <2>3. \A v \in Worker : DeletePlace(v)'
    BY <2>1, <2>2
  <2> QED
    BY <1>0, <2>3 DEF DeleteInv
<1>3. CASE Restart
  <2>1. \A v \in Worker : req'[v].pc = "free"
    BY <1>3, NoRequestType DEF Restart
  <2> QED
    BY <1>0, <2>1 DEF DeleteInv, DeletePlace
<1> QED
  BY <1>1, <1>2, <1>3 DEF Next

\* No deletion is under way at first.
LEMMA DeleteAtInit == Init => DeleteInv
<1> SUFFICES ASSUME Init PROVE DeleteInv
  OBVIOUS
<1>1. \A v \in Worker : req[v].pc = "free"
  BY NoRequestType DEF Init
<1> QED
  BY <1>1, NodeAtInit DEF DeleteInv, DeletePlace

\* While no other request about the node overlaps it, a deletion that succeeds
\* leaves the node neither on the allow list nor in the registry nor in the store,
\* although it collects the keys of the records first and deletes them last
\* (api_admin.go:325-348).
THEOREM AloneDeletesAll ==
    Spec /\ []NodesAlone /\ [][AuthorizeWaits]_vars => DeleteNodeRemovesAll
<1>1. DeleteInv =>
        [\A w \in Worker : DeleteNodeKeys(w) =>
            LET n == req[w].node
            IN  n \notin allow' /\ nodes'[n] = 0 /\ records'[n] = NoSecret]_vars
  <2> SUFFICES ASSUME DeleteInv, NEW w \in Worker, DeleteNodeKeys(w)
               PROVE  /\ req[w].node \notin allow' /\ nodes'[req[w].node] = 0
                      /\ records'[req[w].node] = NoSecret
    OBVIOUS
  <2>1. TypeInv /\ DeletePlace(w) /\ req[w].pc = "deleteKeys"
    BY DEF DeleteInv, NodeInv, DeleteNodeKeys, Running
  <2>2. req[w].node \in Node /\ allow' = allow /\ nodes' = nodes
    BY <2>1 DEF TypeInv, ReqOK, DeleteNodeKeys, aclVars, registry
  <2>3. CASE req[w].keys
    BY <2>1, <2>2, <2>3 DEF DeletePlace, DeleteNodeKeys, TypeInv, TypeOK
  <2>4. CASE ~req[w].keys
    BY <2>1, <2>2, <2>4 DEF DeletePlace, DeleteNodeKeys
  <2> QED
    BY <2>3, <2>4
<1> QED
  BY <1>1, DeleteAtInit, DeleteStep, PTL DEF Spec, DeleteNodeRemovesAll

============================================================================
