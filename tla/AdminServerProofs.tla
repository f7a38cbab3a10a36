------------------------- MODULE AdminServerProofs -------------------------
(***************************************************************************)
(* Proofs about AdminServer, for any number of nodes, request goroutines,  *)
(* invites, secrets and restarts.                                          *)
(***************************************************************************)
EXTENDS AdminServer, AllowListProofs

RedeemPc == {"redeemAdd", "redeemPut", "redeemBurn", "redeemReply"}

\* A request under way is about a node, a redemption about an invite: TypeOK
\* alone does not say that acl.Add is called with the id of a node.
ReqOK ==
    \A w \in Worker :
        /\ req[w].pc # "free" => req[w].node \in Node
        /\ req[w].pc \in RedeemPc => req[w].invite \in Invite

TypeInv == TypeOK /\ ReqOK

\* A goroutine with nothing to serve has a well-typed request, too.
LEMMA NoRequestType == NoRequest \in Request /\ NoRequest.pc = "free"
  BY DEF NoRequest, Request, Pc

\* The places of a handler by name: those of a redemption, and the others.
LEMMA PcNames ==
    /\ RedeemPc \subseteq Pc /\ "redeemAdd" \in RedeemPc
    /\ {"insert", "unregisterAcl", "deleteLock"} \subseteq Pc \ RedeemPc
  BY DEF Pc, RedeemPc

\* What a handler's first step does to the requests.
LEMMA BeginReq ==
    ASSUME TypeInv, NEW w \in Worker, NEW n \in Node, NEW i \in Invite \cup {""},
           NEW pc \in Pc, pc \in RedeemPc => i \in Invite, Begin(w, n, i, pc)
    PROVE  /\ req' \in [Worker -> Request] /\ ReqOK'
           /\ req'[w].pc = pc /\ req'[w].node = n /\ req'[w].invite = i
           /\ \A v \in Worker : v # w => req'[v] = req[v]
<1> DEFINE r == [NoRequest EXCEPT !.node = n, !.invite = i, !.pc = pc]
<1>1. r \in Request /\ r.pc = pc /\ r.node = n /\ r.invite = i
  BY DEF NoRequest, Request, Pc
<1> HIDE DEF r
<1>2. req' = [req EXCEPT ![w] = r]
  BY DEF Begin, r
<1>3. req' \in [Worker -> Request] /\ req'[w] = r
  BY <1>1, <1>2 DEF TypeInv, TypeOK
<1>4. \A v \in Worker : v # w => req'[v] = req[v]
  BY <1>2 DEF TypeInv, TypeOK
<1> QED
  BY <1>1, <1>3, <1>4 DEF TypeInv, ReqOK

\* The same for a redemption ...
LEMMA BeginRedeem ==
    ASSUME TypeInv, NEW w \in Worker, NEW n \in Node, NEW i \in Invite,
           Begin(w, n, i, "redeemAdd")
    PROVE  /\ req' \in [Worker -> Request] /\ ReqOK'
           /\ req'[w].pc = "redeemAdd" /\ req'[w].node = n /\ req'[w].invite = i
           /\ \A v \in Worker : v # w => req'[v] = req[v]
<1>1. "redeemAdd" \in Pc /\ i \in Invite \cup {""}
  BY PcNames
<1> QED
  BY <1>1, BeginReq

\* ... and for a request that is about no invite.
LEMMA BeginOther ==
    ASSUME TypeInv, NEW w \in Worker, NEW n \in Node, NEW pc \in Pc \ RedeemPc,
           Begin(w, n, "", pc)
    PROVE  /\ req' \in [Worker -> Request] /\ ReqOK'
           /\ req'[w].pc = pc /\ req'[w].node = n /\ req'[w].invite = ""
           /\ \A v \in Worker : v # w => req'[v] = req[v]
<1>1. "" \in Invite \cup {""} /\ pc \in Pc /\ pc \notin RedeemPc
  OBVIOUS
<1> QED
  BY <1>1, BeginReq

\* What its later steps do ...
LEMMA GotoReq ==
    ASSUME TypeInv, NEW w \in Worker, NEW pc \in Pc, req[w].pc # "free",
           pc \in RedeemPc => req[w].pc \in RedeemPc, Goto(w, pc)
    PROVE  /\ req' \in [Worker -> Request] /\ ReqOK'
           /\ req'[w].pc = pc /\ req'[w].node = req[w].node
           /\ req'[w].invite = req[w].invite
           /\ req'[w].secret = req[w].secret /\ req'[w].keys = req[w].keys
           /\ \A v \in Worker : v # w => req'[v] = req[v]
<1>1. req[w] \in Request
  BY DEF TypeInv, TypeOK
<1>2. /\ req' \in [Worker -> Request]
      /\ req'[w].pc = pc /\ req'[w].node = req[w].node /\ req'[w].invite = req[w].invite
      /\ req'[w].secret = req[w].secret /\ req'[w].keys = req[w].keys
      /\ \A v \in Worker : v # w => req'[v] = req[v]
  BY <1>1 DEF Goto, TypeInv, TypeOK, Request
<1> QED
  BY <1>2 DEF TypeInv, ReqOK

\* ... and its return.
LEMMA ReplyReq ==
    ASSUME TypeInv, NEW w \in Worker, Reply(w)
    PROVE  /\ req' \in [Worker -> Request] /\ ReqOK'
           /\ req'[w].pc = "free"
           /\ \A v \in Worker : v # w => req'[v] = req[v]
<1>1. /\ req' \in [Worker -> Request] /\ req'[w] = NoRequest
      /\ \A v \in Worker : v # w => req'[v] = req[v]
  BY NoRequestType DEF Reply, TypeInv, TypeOK
<1>2. req'[w].pc = "free"
  BY <1>1, NoRequestType
<1>3. "free" \notin RedeemPc
  BY DEF RedeemPc
<1> QED
  BY <1>1, <1>2, <1>3 DEF TypeInv, ReqOK

\* Deleting invites keeps their types.
LEMMA DropInvitesType ==
    ASSUME TypeInv, NEW S, DropInvites(S)
    PROVE  /\ invites' \in [Invite -> InviteState]
           /\ \A i \in Invite : /\ invites'[i].oneTime = invites[i].oneTime
                                /\ i \in S => invites'[i].status = "deleted"
                                /\ i \notin S => invites'[i] = invites[i]
                                /\ invites[i].status # "unborn" => invites'[i].status # "unborn"
                                /\ invites[i].status = "deleted" => invites'[i].status = "deleted"
<1>1. invites \in [Invite -> InviteState]
  BY DEF TypeInv, TypeOK
<1>2. ASSUME NEW i \in Invite
      PROVE  LET d == [invites[i] EXCEPT !.status = "deleted"]
             IN  d \in InviteState /\ d.oneTime = invites[i].oneTime /\ d.status = "deleted"
  BY <1>1 DEF InviteState
<1> QED
  BY <1>1, <1>2 DEF DropInvites

\* A registration keeps the types of the registry ...
LEMMA InsertType ==
    ASSUME TypeInv, NEW w \in Worker, RegisterInsert(w)
    PROVE  logicalTime' \in Nat /\ nodes' \in [Node -> Nat]
<1>1. logicalTime + 1 \in Nat
  BY DEF TypeInv, TypeOK
<1> QED
  BY <1>1 DEF RegisterInsert, TypeInv, TypeOK

\* ... and so does a removal.
LEMMA DropNodeType ==
    ASSUME TypeInv, NEW n \in Node, DropNode(n)
    PROVE  logicalTime' \in Nat /\ nodes' \in [Node -> Nat] /\ boot' = boot
<1>1. logicalTime + 1 \in Nat /\ 0 \in Nat
  BY DEF TypeInv, TypeOK
<1> QED
  BY <1>1 DEF DropNode, TypeInv, TypeOK
----------------------------------------------------------------------------
\* The initial state is well typed.
LEMMA TypeInvInit == Init => TypeInv
<1> SUFFICES ASSUME Init PROVE TypeInv
  OBVIOUS
<1>1. AclTypeOK
  BY AclTypeInit DEF Init
<1>2. req \in [Worker -> Request] /\ \A w \in Worker : req[w].pc = "free"
  BY NoRequestType DEF Init
<1>3. ReqOK
  BY <1>2 DEF ReqOK, RedeemPc
<1>4. invites \in [Invite -> InviteState]
  BY DEF Init, InviteState
<1> QED
  BY <1>1, <1>2, <1>3, <1>4 DEF Init, TypeInv, TypeOK, AdminToken

\* The handlers of invites keep the types ...
LEMMA InviteStepType ==
    ASSUME TypeInv, NEW w \in Worker,
           \/ CreateInvite(w) \/ ListInvites(w) \/ DeleteInvite(w) \/ Redeem(w)
           \/ RedeemAdd(w) \/ RedeemPut(w) \/ RedeemBurn(w) \/ RedeemError(w)
           \/ RedeemReply(w)
    PROVE  TypeInv'
<1> USE DEF Running, Free
<1>0. TypeOK /\ ReqOK /\ req[w] \in Request
  BY DEF TypeInv, TypeOK
<1>1. CASE CreateInvite(w)
  <2>1. invites' \in [Invite -> InviteState]
    BY <1>0, <1>1 DEF CreateInvite, TypeOK, InviteState
  <2> QED
    BY <1>0, <1>1, <2>1 DEF CreateInvite, TypeInv, TypeOK, ReqOK, aclVars, registry,
       clients, AclTypeOK
<1>2. CASE ListInvites(w) \/ DeleteInvite(w)
  <2>1. PICK S : DropInvites(S)
    BY <1>2 DEF ListInvites, DeleteInvite
  <2>2. invites' \in [Invite -> InviteState]
    BY <2>1, DropInvitesType
  <2> QED
    BY <1>0, <1>2, <2>2 DEF ListInvites, DeleteInvite, TypeInv, TypeOK, ReqOK, aclVars,
       registry, clients, AclTypeOK
<1>3. CASE Redeem(w)
  <2>1. PICK i \in Invite, n \in Node :
          \/ (DropInvites({i}) \/ UNCHANGED invites) /\ UNCHANGED req
          \/ Begin(w, n, i, "redeemAdd") /\ UNCHANGED invites
    BY <1>3 DEF Redeem
  <2>2. invites' \in [Invite -> InviteState]
    BY <1>0, <2>1, DropInvitesType DEF TypeOK
  <2>3. req' \in [Worker -> Request] /\ ReqOK'
    BY <1>0, <2>1, BeginReq DEF TypeOK, ReqOK, Pc
  <2> QED
    BY <1>0, <1>3, <2>2, <2>3 DEF Redeem, TypeInv, TypeOK, aclVars, registry, clients,
       AclTypeOK
<1>4. CASE RedeemAdd(w)
  <2>1. req[w].pc = "redeemAdd" /\ req[w].node \in Node
    BY <1>0, <1>4 DEF RedeemAdd, ReqOK
  <2>2. allow \cup {req[w].node} \in SUBSET Node
    BY <1>0, <2>1 DEF TypeOK, AclTypeOK
  <2>3. AclTypeOK'
    BY <1>0, <1>4, <2>2, ChangeType DEF RedeemAdd, Add, TypeOK
  <2>4. req' \in [Worker -> Request] /\ ReqOK'
    BY <1>4, <2>1, GotoReq DEF RedeemAdd, Pc, RedeemPc
  <2> QED
    BY <1>0, <1>4, <2>3, <2>4 DEF RedeemAdd, TypeInv, TypeOK, registry, store, clients
<1>5. CASE RedeemPut(w)
  <2>1. PICK s \in Secret :
          /\ records' = [records EXCEPT ![req[w].node] = s]
          /\ req' = [req EXCEPT ![w].secret = s,
                                ![w].pc = IF invites[req[w].invite].oneTime
                                          THEN "redeemBurn" ELSE "redeemReply"]
    BY <1>5 DEF RedeemPut
  <2>2. /\ req' \in [Worker -> Request]
        /\ req'[w].pc \in RedeemPc /\ req'[w].node = req[w].node
        /\ req'[w].invite = req[w].invite
        /\ \A v \in Worker : v # w => req'[v] = req[v]
    BY <1>0, <2>1 DEF TypeOK, Request, Pc, RedeemPc
  <2>3. req[w].node \in Node /\ req[w].invite \in Invite
    BY <1>0, <1>5 DEF RedeemPut, ReqOK, RedeemPc
  <2>4. ReqOK'
    BY <1>0, <2>2, <2>3 DEF ReqOK
  <2>5. records' \in [Node -> Secret \cup {NoSecret}]
    BY <1>0, <2>1 DEF TypeOK
  <2> QED
    BY <1>0, <1>5, <2>2, <2>4, <2>5 DEF RedeemPut, TypeInv, TypeOK, aclVars, registry,
       clients, AclTypeOK
<1>6. CASE RedeemBurn(w)
  <2>1. invites' \in [Invite -> InviteState]
    BY <1>6, DropInvitesType DEF RedeemBurn
  <2>2. req' \in [Worker -> Request] /\ ReqOK'
    BY <1>6, GotoReq DEF RedeemBurn, Pc, RedeemPc
  <2> QED
    BY <1>0, <1>6, <2>1, <2>2 DEF RedeemBurn, TypeInv, TypeOK, aclVars, registry,
       clients, AclTypeOK
<1>7. CASE RedeemError(w)
  <2>1. req' \in [Worker -> Request] /\ ReqOK'
    BY <1>7, ReplyReq DEF RedeemError
  <2> QED
    BY <1>0, <1>7, <2>1 DEF RedeemError, TypeInv, TypeOK, aclVars, registry, store,
       clients, AclTypeOK
<1>8. CASE RedeemReply(w)
  <2>1. req' \in [Worker -> Request] /\ ReqOK'
    BY <1>8, ReplyReq DEF RedeemReply
  <2>2. accepted' \in [Invite -> 0..2]
    <3> DEFINE k == accepted[req[w].invite]
    <3>1. req[w].invite \in Invite
      BY <1>0, <1>8 DEF RedeemReply, ReqOK, RedeemPc
    <3>2. k \in 0..2 /\ accepted \in [Invite -> 0..2]
      BY <1>0, <3>1 DEF TypeOK
    <3>3. (IF k = 2 THEN 2 ELSE k + 1) \in 0..2
      BY <3>2
    <3> QED
      BY <1>8, <3>1, <3>2, <3>3 DEF RedeemReply
  <2>3. config' \in [Node -> Secret \cup {NoSecret}]
    BY <1>0, <1>8 DEF RedeemReply, joinWithInvite, TypeOK, Request
  <2> QED
    BY <1>0, <1>8, <2>1, <2>2, <2>3 DEF RedeemReply, TypeInv, TypeOK, aclVars, registry,
       store, AclTypeOK
<1> QED
  BY <1>1, <1>2, <1>3, <1>4, <1>5, <1>6, <1>7, <1>8

\* ... so do those of nodes ...
LEMMA NodeStepType ==
    ASSUME TypeInv, NEW w \in Worker,
           \/ Login(w) \/ Authorize(w) \/ Register(w) \/ RegisterInsert(w)
           \/ Unregister(w) \/ UnregisterAcl(w)
    PROVE  TypeInv'
<1> USE DEF Running, Free
<1>0. TypeOK /\ ReqOK /\ req[w] \in Request
  BY DEF TypeInv, TypeOK
<1>1. CASE Login(w)
  <2>1. session' \in [Node -> Nat]
    BY <1>0, <1>1 DEF Login, issueSessionToken, Encrypted, TypeOK
  <2> QED
    BY <1>0, <1>1, <2>1 DEF Login, TypeInv, TypeOK, ReqOK, aclVars, registry, store,
       AclTypeOK
<1>2. CASE Authorize(w)
  <2>1. PICK n \in Node : Change(w, allow \cup {n})
    BY <1>2 DEF Authorize, Add
  <2>2. allow \cup {n} \in SUBSET Node
    BY <1>0 DEF TypeOK, AclTypeOK
  <2>3. AclTypeOK'
    BY <1>0, <2>1, <2>2, ChangeType DEF TypeOK
  <2> QED
    BY <1>0, <1>2, <2>3 DEF Authorize, TypeInv, TypeOK, ReqOK, registry, store, clients
<1>3. CASE Register(w)
  <2>1. PICK n \in Node, t \in Tokens :
          Begin(w, n, "", "insert") /\ sentWith' = [sentWith EXCEPT ![n] = t]
    BY <1>3 DEF Register
  <2>2. req' \in [Worker -> Request] /\ ReqOK'
    BY <2>1, BeginOther, PcNames
  <2>3. t \in Nat
    <3>1. session \in [Node -> Nat]
      BY <1>0 DEF TypeOK
    <3> QED
      BY <3>1 DEF Tokens, AdminToken
  <2>4. sentWith' \in [Node -> Nat]
    BY <1>0, <2>1, <2>3 DEF TypeOK
  <2> QED
    BY <1>0, <1>3, <2>2, <2>4 DEF Register, TypeInv, TypeOK, aclVars, registry, store,
       AclTypeOK
<1>4. CASE RegisterInsert(w)
  <2>1. req' \in [Worker -> Request] /\ ReqOK'
    BY <1>4, ReplyReq DEF RegisterInsert
  <2>2. logicalTime' \in Nat /\ nodes' \in [Node -> Nat]
    BY <1>4, InsertType
  <2> QED
    BY <1>0, <1>4, <2>1, <2>2 DEF RegisterInsert, TypeInv, TypeOK, aclVars, store,
       clients, AclTypeOK
<1>5. CASE Unregister(w)
  <2>1. PICK n \in Node : DropNode(n) /\ Begin(w, n, "", "unregisterAcl")
    BY <1>5 DEF Unregister
  <2>2. req' \in [Worker -> Request] /\ ReqOK'
    BY <2>1, BeginOther, PcNames
  <2>3. logicalTime' \in Nat /\ nodes' \in [Node -> Nat] /\ boot' = boot
    BY <2>1, DropNodeType
  <2> QED
    BY <1>0, <1>5, <2>2, <2>3 DEF Unregister, TypeInv, TypeOK, aclVars, store, clients,
       AclTypeOK
<1>6. CASE UnregisterAcl(w)
  <2>1. allow \ {req[w].node} \in SUBSET Node
    BY <1>0 DEF TypeOK, AclTypeOK
  <2>2. AclTypeOK'
    BY <1>0, <1>6, <2>1, ChangeType DEF UnregisterAcl, Remove, TypeOK
  <2>3. req' \in [Worker -> Request] /\ ReqOK'
    BY <1>6, ReplyReq DEF UnregisterAcl
  <2> QED
    BY <1>0, <1>6, <2>2, <2>3 DEF UnregisterAcl, TypeInv, TypeOK, registry, store, clients
<1> QED
  BY <1>1, <1>2, <1>3, <1>4, <1>5, <1>6

\* ... and the deletion of a node.
LEMMA DeleteStepType ==
    ASSUME TypeInv, NEW w \in Worker,
           \/ DeleteNode(w) \/ DeleteNodeLocked(w) \/ DeleteNodeAcl(w)
           \/ DeleteNodeKeys(w) \/ DeleteNodeError(w)
    PROVE  TypeInv'
<1> USE DEF Running, Free
<1>0. TypeOK /\ ReqOK /\ req[w] \in Request
  BY DEF TypeInv, TypeOK
<1>1. CASE DeleteNode(w)
  <2>1. PICK n \in Node :
          req' = [req EXCEPT ![w] = [NoRequest EXCEPT !.node = n,
                                !.keys = records[n] # NoSecret, !.pc = "deleteLock"]]
    BY <1>1 DEF DeleteNode
  <2> DEFINE r == [NoRequest EXCEPT !.node = n, !.keys = records[n] # NoSecret,
                                    !.pc = "deleteLock"]
  <2>2. r \in Request /\ r.pc = "deleteLock" /\ r.node \in Node
    BY DEF NoRequest, Request, Pc
  <2> HIDE DEF r
  <2>3. req' = [req EXCEPT ![w] = r]
    BY <2>1 DEF r
  <2>4. /\ req' \in [Worker -> Request] /\ req'[w] = r
        /\ \A v \in Worker : v # w => req'[v] = req[v]
    BY <1>0, <2>2, <2>3 DEF TypeOK
  <2>5. ReqOK'
    BY <1>0, <2>2, <2>4 DEF ReqOK, RedeemPc
  <2> QED
    BY <1>0, <1>1, <2>4, <2>5 DEF DeleteNode, TypeInv, TypeOK, aclVars, registry, store,
       clients, AclTypeOK
<1>2. CASE DeleteNodeLocked(w)
  <2>1. req' \in [Worker -> Request] /\ ReqOK'
    BY <1>2, GotoReq DEF DeleteNodeLocked, Pc, RedeemPc
  <2>2. logicalTime' \in Nat /\ nodes' \in [Node -> Nat] /\ boot' = boot
    BY <1>0, <1>2, DropNodeType DEF DeleteNodeLocked, ReqOK
  <2> QED
    BY <1>0, <1>2, <2>1, <2>2 DEF DeleteNodeLocked, TypeInv, TypeOK, aclVars, store,
       clients, AclTypeOK
<1>3. CASE DeleteNodeAcl(w)
  <2>1. allow \ {req[w].node} \in SUBSET Node
    BY <1>0 DEF TypeOK, AclTypeOK
  <2>2. AclTypeOK'
    BY <1>0, <1>3, <2>1, ChangeType DEF DeleteNodeAcl, Remove, TypeOK
  <2>3. req' \in [Worker -> Request] /\ ReqOK'
    BY <1>3, GotoReq DEF DeleteNodeAcl, Pc, RedeemPc
  <2> QED
    BY <1>0, <1>3, <2>2, <2>3 DEF DeleteNodeAcl, TypeInv, TypeOK, registry, store, clients
<1>4. CASE DeleteNodeKeys(w)
  <2>1. req' \in [Worker -> Request] /\ ReqOK'
    BY <1>4, ReplyReq DEF DeleteNodeKeys
  <2>2. records' \in [Node -> Secret \cup {NoSecret}]
    BY <1>0, <1>4 DEF DeleteNodeKeys, TypeOK
  <2> QED
    BY <1>0, <1>4, <2>1, <2>2 DEF DeleteNodeKeys, TypeInv, TypeOK, aclVars, registry,
       clients, AclTypeOK
<1>5. CASE DeleteNodeError(w)
  <2>1. req' \in [Worker -> Request] /\ ReqOK'
    BY <1>5, ReplyReq DEF DeleteNodeError
  <2> QED
    BY <1>0, <1>5, <2>1 DEF DeleteNodeError, TypeInv, TypeOK, aclVars, registry, store,
       clients, AclTypeOK
<1> QED
  BY <1>1, <1>2, <1>3, <1>4, <1>5

\* Every step keeps the types.
LEMMA TypeInvStep == TypeInv /\ [Next]_vars => TypeInv'
<1> SUFFICES ASSUME TypeInv, [Next]_vars PROVE TypeInv'
  OBVIOUS
<1>0. TypeOK /\ ReqOK
  BY DEF TypeInv
<1>1. ASSUME NEW w \in Worker, PersistList(w) PROVE TypeInv'
  <2>1. AclTypeOK'
    BY <1>0, <1>1, PersistType DEF PersistList, TypeOK
  <2> QED
    BY <1>0, <1>1, <2>1 DEF PersistList, TypeInv, TypeOK, ReqOK, registry, store, clients
<1>2. ASSUME NEW i \in Invite, InviteExpires(i) PROVE TypeInv'
  <2>1. invites' \in [Invite -> InviteState]
    BY <1>0, <1>2 DEF InviteExpires, TypeOK, InviteState
  <2> QED
    BY <1>0, <1>2, <2>1 DEF InviteExpires, TypeInv, TypeOK, ReqOK, aclVars, registry,
       clients, AclTypeOK
<1>3. CASE Restart
  <2>1. AclTypeOK'
    BY <1>0, <1>3, ReloadType DEF Restart, TypeOK
  <2>2. req' \in [Worker -> Request] /\ \A w \in Worker : req'[w].pc = "free"
    BY <1>3, NoRequestType DEF Restart
  <2>3. ReqOK'
    BY <2>2 DEF ReqOK, RedeemPc
  <2> QED
    BY <1>0, <1>3, <2>1, <2>2, <2>3 DEF Restart, TypeInv, TypeOK, store, clients
<1>4. CASE UNCHANGED vars
  BY <1>0, <1>4 DEF vars, TypeInv, TypeOK, ReqOK, aclVars, registry, store, clients,
     AclTypeOK
<1> QED
  BY <1>1, <1>2, <1>3, <1>4, InviteStepType, NodeStepType, DeleteStepType
     DEF Next, Handler

\* Every handler keeps the state well typed in every interleaving; in
\* particular no request puts anything but a node id on the allow list.
THEOREM TypeCorrect == Spec => []TypeOK
<1>1. TypeInv => TypeOK
  BY DEF TypeInv
<1> QED
  BY <1>1, TypeInvInit, TypeInvStep, PTL DEF Spec
============================================================================
