---------------------------- MODULE AdminServer ----------------------------
(***************************************************************************)
(* The admin server of a mesh (pkg/admin): invites and node records in a   *)
(* key-value store on disk, the allow list, and the in-memory registry of  *)
(* nodes with its logical clock.  Worker is the set of goroutines that     *)
(* serve HTTP requests.  A handler is split exactly where the code lets    *)
(* another one in: between two store transactions, two sections of the     *)
(* server lock, or two calls on the allow list.                            *)
(*                                                                         *)
(* Data kept: which node a request is about, which invite, which login     *)
(* secret.  A registration is named by the logical time it was given and a *)
(* server start by its number, which stand for the random node token and   *)
(* for the session key generated by NewServer.                             *)
(***************************************************************************)
EXTENDS AllowList

CONSTANTS       \* Node, Worker and Faults are those of AllowList
    Invite,         \* invite ids, each created at most once
    Secret,         \* login secrets
    Op,             \* the requests clients send in this instance
    MaxTime,        \* bound on logicalTime
    MaxBoot         \* bound on the number of server starts

NoSecret == "no secret"

\* A session token is named by the start that issued it, from 1 on; 0 names the
\* secret of the administrator.
AdminToken == 0

Ops == {"create", "redeem", "listInvites", "deleteInvite", "login",
        "authorize", "register", "unregister", "deleteNode"}

ASSUME AdminAssumption ==
    /\ IsFiniteSet(Worker)
    /\ Op \subseteq Ops
    /\ NoSecret \notin Secret
    /\ MaxTime \in Nat /\ MaxBoot \in Nat \ {0}

VARIABLES
    logicalTime,    \* Server.logicalTime
    nodes,          \* Server.nodes: LogicalTime of the registration, 0 if none
    boot,           \* number of this server start; names Server.magicKey
    invites,        \* the /invites/default/ keys of the store
    records,        \* the /mesh/default/nodes/ keys: secret whose hash is stored
    config,         \* per node, the mesh secret in its configuration file
    session,        \* per node, the start that issued its session token, 0 if none
    accepted,       \* history: redemptions of each invite answered with success,
                    \* counted up to 2
    sentWith,       \* history: per node, the token its last registration came with
    req             \* per worker, the request it serves

registry == <<logicalTime, nodes, boot>>
store == <<invites, records>>
clients == <<config, session, accepted, sentWith>>
vars == <<aclVars, registry, store, clients, req>>
----------------------------------------------------------------------------
(* Requests *)

InviteState == [status : {"unborn", "live", "deleted"},
                oneTime : BOOLEAN,
                expires : {"never", "later", "past"}]

\* Where a handler is: the call it makes next.
Pc == {"free", "insert", "unregisterAcl",
       "deleteLock", "deleteAcl", "deleteKeys",
       "redeemAdd", "redeemPut", "redeemBurn", "redeemReply"}

Request == [pc : Pc, node : Node \cup {""}, invite : Invite \cup {""},
            keys : BOOLEAN, secret : Secret \cup {NoSecret}]

NoRequest == [pc |-> "free", node |-> "", invite |-> "", keys |-> FALSE, secret |-> NoSecret]

\* A goroutine runs on once the allow list call it made has returned.
Running(w, pc) == req[w].pc = pc /\ persisting[w].stage = "idle"

Free(w) == Running(w, "free")

Begin(w, n, i, pc) ==
    req' = [req EXCEPT ![w] = [NoRequest EXCEPT !.node = n, !.invite = i, !.pc = pc]]

Goto(w, pc) == req' = [req EXCEPT ![w].pc = pc]

\* The handler returns; the status it answers with changes no state.
Reply(w) == req' = [req EXCEPT ![w] = NoRequest]

\* Bound: a request that may move the clock is only sent while the clock has
\* room for it and for every request in progress.
ClockRoom == logicalTime + Cardinality({w \in Worker : ~Free(w)}) < MaxTime
----------------------------------------------------------------------------
Init ==
    /\ AclInit
    /\ logicalTime = 0
    /\ nodes = [n \in Node |-> 0]
    /\ boot = 1
    /\ invites = [i \in Invite |-> [status |-> "unborn", oneTime |-> FALSE,
                                    expires |-> "never"]]
    /\ records = [n \in Node |-> NoSecret]
    /\ config = [n \in Node |-> NoSecret]
    /\ session = [n \in Node |-> 0]
    /\ accepted = [i \in Invite |-> 0]
    /\ sentWith = [n \in Node |-> AdminToken]
    /\ req = [w \in Worker |-> NoRequest]

(* Invites *)

\* adminCreateInviteLink: a fresh id, one Put.
CreateInvite(w) ==
    /\ "create" \in Op /\ Free(w)
    /\ \E i \in Invite : \E once \in BOOLEAN : \E exp \in {"never", "later"} :
          /\ invites[i].status = "unborn"
          /\ invites' = [invites EXCEPT ![i] = [status |-> "live", oneTime |-> once,
                                                expires |-> exp]]
    /\ UNCHANGED <<aclVars, registry, records, clients, req>>

\* The clock passes the Expires of an invite.
InviteExpires(i) ==
    /\ invites[i].expires = "later"
    /\ invites' = [invites EXCEPT ![i].expires = "past"]
    /\ UNCHANGED <<aclVars, registry, records, clients, req>>

Live(i) == invites[i].status = "live"

Expired(i) == Live(i) /\ invites[i].expires = "past"

DropInvites(S) ==
    invites' = [i \in Invite |-> IF i \in S THEN [invites[i] EXCEPT !.status = "deleted"]
                                            ELSE invites[i]]

\* adminListInviteLinks deletes the expired invites it finds; a delete that
\* fails is passed over.
ListInvites(w) ==
    /\ "listInvites" \in Op /\ Free(w)
    /\ \E S \in SUBSET {i \in Invite : Expired(i)} :
          /\ Faults \/ \A i \in Invite : Expired(i) => i \in S
          /\ DropInvites(S)
    /\ UNCHANGED <<aclVars, registry, records, clients, req>>

\* adminDeleteInviteLink: Get (404 if it is not there), then Delete.  Nothing
\* creates an id twice, so the two calls act as one.
DeleteInvite(w) ==
    /\ "deleteInvite" \in Op /\ Free(w)
    /\ \E i \in Invite : Live(i) /\ DropInvites({i})
    /\ UNCHANGED <<aclVars, registry, records, clients, req>>

\* adminRedeemInviteLink up to the checks on the invite: an unknown one is
\* refused, an expired one deleted and refused, otherwise the handler goes on.
\* That the expired one could not be deleted goes unnoticed.
Redeem(w) ==
    /\ "redeem" \in Op /\ Free(w)
    /\ \E i \in Invite, n \in Node :
          /\ Live(i)
          /\ \/ /\ Expired(i)
                /\ DropInvites({i}) \/ (Faults /\ UNCHANGED invites)
                /\ UNCHANGED req
             \/ /\ ~Expired(i)
                /\ Begin(w, n, i, "redeemAdd")
                /\ UNCHANGED invites
    /\ UNCHANGED <<aclVars, registry, records, clients>>

\* s.acl.Add(req.Node.ID)
RedeemAdd(w) ==
    /\ Running(w, "redeemAdd")
    /\ Add(w, req[w].node)
    /\ Goto(w, "redeemPut")
    /\ UNCHANGED <<registry, store, clients>>

\* Secrets are random and never repeat; a secret is only compared with the
\* record of its own node, so it need only differ from that node's others.
SecretsInUse(n) ==
    {records[n], config[n]} \cup {req[w].secret : w \in {v \in Worker : req[v].node = n}}

\* Mutant: a node that has a record keeps its old hash.
RedeemKeepsHash(w) ==
    /\ Running(w, "redeemPut")
    /\ \E s \in Secret \ SecretsInUse(req[w].node) :
          /\ records' = [records EXCEPT ![req[w].node] = IF @ = NoSecret THEN s ELSE @]
          /\ req' = [req EXCEPT ![w].secret = s,
                                ![w].pc = IF invites[req[w].invite].oneTime
                                          THEN "redeemBurn" ELSE "redeemReply"]
    /\ UNCHANGED <<aclVars, registry, invites, clients>>

\* A fresh secret, its hash, and kv.Put of the node record.
RedeemPut(w) ==
    /\ Running(w, "redeemPut")
    /\ \E s \in Secret \ SecretsInUse(req[w].node) :
          /\ records' = [records EXCEPT ![req[w].node] = s]
          /\ req' = [req EXCEPT ![w].secret = s,
                                ![w].pc = IF invites[req[w].invite].oneTime
                                          THEN "redeemBurn" ELSE "redeemReply"]
    /\ UNCHANGED <<aclVars, registry, invites, clients>>

\* Mutant: a one-time invite is not deleted.
RedeemNoBurn(w) ==
    /\ Running(w, "redeemBurn")
    /\ Goto(w, "redeemReply")
    /\ UNCHANGED <<aclVars, registry, store, clients>>

\* kv.Delete of a one-time invite.
RedeemBurn(w) ==
    /\ Running(w, "redeemBurn")
    /\ DropInvites({req[w].invite})
    /\ Goto(w, "redeemReply")
    /\ UNCHANGED <<aclVars, registry, records, clients>>

\* Making the secret, Put or Delete fails: 500, and what was done stays.
RedeemError(w) ==
    /\ Faults
    /\ Running(w, "redeemPut") \/ Running(w, "redeemBurn")
    /\ Reply(w)
    /\ UNCHANGED <<aclVars, registry, store, clients>>

\* Mutant: the answer is sent before the one-time invite is deleted.
ReplyBeforeBurn(w) ==
    /\ Running(w, "redeemBurn") \/ Running(w, "redeemReply")
    /\ IF req[w].pc = "redeemBurn" THEN Goto(w, "redeemBurn") ELSE Reply(w)
    /\ accepted' = [accepted EXCEPT ![req[w].invite] = IF @ = 2 THEN 2 ELSE @ + 1]
    /\ config' = [config EXCEPT ![req[w].node] = req[w].secret]
    /\ UNCHANGED <<aclVars, registry, store, session, sentWith>>

\* mesh join: RedeemInvite returns the secret, which goes into the configuration
\* of the node; the answer may be lost, or writing the file may fail.
joinWithInvite(n, s) == config' = [config EXCEPT ![n] = s] \/ UNCHANGED config

\* The answer with the secret.
RedeemReply(w) ==
    /\ Running(w, "redeemReply")
    /\ Reply(w)
    /\ accepted' = [accepted EXCEPT ![req[w].invite] = IF @ = 2 THEN 2 ELSE @ + 1]
    /\ joinWithInvite(req[w].node, req[w].secret)
    /\ UNCHANGED <<aclVars, registry, store, session, sentWith>>
----------------------------------------------------------------------------
(* Nodes *)

\* magiclink: what is sealed with the key of a start carries its number, and
\* only that key opens it.
Encrypted == boot
Decrypts(t) == t = boot

\* A token that does not expire.
issueSessionToken(n) == session' = [session EXCEPT ![n] = Encrypted]

\* apiNodeLogin: 401 unless the secret is the stored one.
Login(w) ==
    /\ "login" \in Op /\ Free(w)
    /\ \E n \in Node :
          /\ config[n] # NoSecret /\ config[n] = records[n]
          /\ issueSessionToken(n)
    /\ UNCHANGED <<aclVars, registry, store, config, accepted, sentWith, req>>

\* Mutant: an empty node id is not refused.
AuthorizeAny(w) ==
    /\ "authorize" \in Op /\ Free(w)
    /\ \E n \in Node \cup {""} : Add(w, n)
    /\ UNCHANGED <<registry, store, clients, req>>

\* apiNodeAuthorize, from any authenticated caller: the administrator is one.
Authorize(w) ==
    /\ "authorize" \in Op /\ Free(w)
    /\ \E n \in Node : Add(w, n)
    /\ UNCHANGED <<registry, store, clients, req>>

\* DoAuth: the secret of the administrator, or a session (authenticateSessionToken).
Authenticated(t) == t = AdminToken \/ Decrypts(t)

\* The tokens a registration can come with.  Nothing ties the token to the node:
\* a node sends its own, the administrator registers any node.
Tokens == {AdminToken} \cup {session[n] : n \in {m \in Node : session[m] # 0}}

\* Mutant: the allow list is not asked.
RegisterAny(w) ==
    /\ "register" \in Op /\ Free(w) /\ ClockRoom
    /\ \E n \in Node, t \in Tokens :
          /\ Authenticated(t)
          /\ Begin(w, n, "", "insert")
          /\ sentWith' = [sentWith EXCEPT ![n] = t]
    /\ UNCHANGED <<aclVars, registry, store, config, session, accepted>>

\* apiNodeRegister: acl.Has, outside the server lock ...
Register(w) ==
    /\ "register" \in Op /\ Free(w) /\ ClockRoom
    /\ \E n \in Node, t \in Tokens :
          /\ Authenticated(t) /\ n \in allow
          /\ Begin(w, n, "", "insert")
          /\ sentWith' = [sentWith EXCEPT ![n] = t]
    /\ UNCHANGED <<aclVars, registry, store, config, session, accepted>>

\* ... then the clock and the entry, inside it.
RegisterInsert(w) ==
    /\ Running(w, "insert")
    /\ logicalTime' = logicalTime + 1
    /\ nodes' = [nodes EXCEPT ![req[w].node] = logicalTime + 1]
    /\ Reply(w)
    /\ UNCHANGED <<aclVars, boot, store, clients>>

\* Mutant: a removal does not move the clock.
DropNodeSilently(n) ==
    /\ nodes' = [nodes EXCEPT ![n] = 0]
    /\ UNCHANGED <<logicalTime, boot>>

\* The locked section of apiNodeUnregister and adminDeleteNode.
DropNode(n) ==
    /\ nodes' = [nodes EXCEPT ![n] = 0]
    /\ logicalTime' = IF nodes[n] # 0 THEN logicalTime + 1 ELSE logicalTime
    /\ UNCHANGED boot

\* apiNodeUnregister: drop the entry under the lock ...
Unregister(w) ==
    /\ "unregister" \in Op /\ Free(w) /\ ClockRoom
    /\ \E n \in Node :
          /\ DropNode(n)
          /\ Begin(w, n, "", "unregisterAcl")
    /\ UNCHANGED <<aclVars, store, clients>>

\* ... and "s.acl.Remove(id) // can be done outside the lock".
UnregisterAcl(w) ==
    /\ Running(w, "unregisterAcl")
    /\ Remove(w, req[w].node)
    /\ Reply(w)
    /\ UNCHANGED <<registry, store, clients>>

\* adminDeleteNode: first the keys of the node's records ...
DeleteNode(w) ==
    /\ "deleteNode" \in Op /\ Free(w) /\ ClockRoom
    /\ \E n \in Node :
          req' = [req EXCEPT ![w] = [NoRequest EXCEPT !.node = n,
                                !.keys = records[n] # NoSecret, !.pc = "deleteLock"]]
    /\ UNCHANGED <<aclVars, registry, store, clients>>

\* Mutant: the registration is left to expire by itself.
DeleteKeepsEntry(w) ==
    /\ Running(w, "deleteLock")
    /\ Goto(w, "deleteAcl")
    /\ UNCHANGED <<aclVars, registry, store, clients>>

\* ... then the registration ...
DeleteNodeLocked(w) ==
    /\ Running(w, "deleteLock")
    /\ DropNode(req[w].node)
    /\ Goto(w, "deleteAcl")
    /\ UNCHANGED <<aclVars, store, clients>>

\* ... then the allow list ...
DeleteNodeAcl(w) ==
    /\ Running(w, "deleteAcl")
    /\ Remove(w, req[w].node)
    /\ Goto(w, "deleteKeys")
    /\ UNCHANGED <<registry, store, clients>>

\* ... and last the records found at first (none, and not registered: 404).
DeleteNodeKeys(w) ==
    /\ Running(w, "deleteKeys")
    /\ records' = IF req[w].keys THEN [records EXCEPT ![req[w].node] = NoSecret]
                                 ELSE records
    /\ Reply(w)
    /\ UNCHANGED <<aclVars, registry, invites, clients>>

\* kv.Delete fails.
DeleteNodeError(w) ==
    /\ Faults
    /\ Running(w, "deleteKeys") /\ req[w].keys
    /\ Reply(w)
    /\ UNCHANGED <<aclVars, registry, store, clients>>
----------------------------------------------------------------------------
\* Mutant: the registry is kept over a restart, the session key is not.
RestartKeepsNodes ==
    /\ boot < MaxBoot
    /\ boot' = boot + 1
    /\ Reload
    /\ req' = [w \in Worker |-> NoRequest]
    /\ UNCHANGED <<logicalTime, nodes, store, clients>>

\* The process stops anywhere and NewServer starts it again: the store and
\* allow.list survive, the registry, the clock and the session key do not.
Restart ==
    /\ boot < MaxBoot
    /\ boot' = boot + 1
    /\ Reload
    /\ logicalTime' = 0
    /\ nodes' = [n \in Node |-> 0]
    /\ req' = [w \in Worker |-> NoRequest]
    /\ UNCHANGED <<store, clients>>

PersistList(w) == Persist(w) /\ UNCHANGED <<registry, store, clients, req>>

Handler(w) ==
    \/ CreateInvite(w) \/ ListInvites(w) \/ DeleteInvite(w)
    \/ Redeem(w) \/ RedeemAdd(w) \/ RedeemPut(w) \/ RedeemBurn(w)
    \/ RedeemError(w) \/ RedeemReply(w)
    \/ Login(w) \/ Authorize(w)
    \/ Register(w) \/ RegisterInsert(w) \/ Unregister(w) \/ UnregisterAcl(w)
    \/ DeleteNode(w) \/ DeleteNodeLocked(w) \/ DeleteNodeAcl(w)
    \/ DeleteNodeKeys(w) \/ DeleteNodeError(w)
    \/ PersistList(w)

Next ==
    \/ \E w \in Worker : Handler(w)
    \/ \E i \in Invite : InviteExpires(i)
    \/ Restart

Spec == Init /\ [][Next]_vars
----------------------------------------------------------------------------
\* Every variable has its type; ids that reach the list and the table belong to
\* nodes (api_node.go, api_admin.go refuse an empty id).
TypeOK ==
    /\ AclTypeOK
    /\ logicalTime \in Nat
    /\ nodes \in [Node -> Nat]
    /\ boot \in Nat
    /\ invites \in [Invite -> InviteState]
    /\ records \in [Node -> Secret \cup {NoSecret}]
    /\ config \in [Node -> Secret \cup {NoSecret}]
    /\ session \in [Node -> Nat]
    /\ accepted \in [Invite -> 0..2]
    /\ sentWith \in [Node -> Nat]
    /\ req \in [Worker -> Request]

Quiet == \A w \in Worker : Free(w)

\* Between requests every registered node is on the allow list: acl.Has guards
\* the registration (api_node.go:54) and both removals drop the registration
\* as well as the list entry (api_node.go:138-147, api_admin.go:330-339).
RegisteredOnAcl == Quiet => \A n \in Node : nodes[n] # 0 => n \in allow

\* "If OneTime it should expire after first use" (api_admin.go:100): at most
\* one redemption of a one-time invite is answered with success.
OneTimeOnce == \A i \in Invite : invites[i].oneTime => accepted[i] <= 1

\* A one-time invite is out of the store before its redemption is answered,
\* and no interleaving or restart puts it back (api_admin.go:184-188).
OneTimeBurned ==
    \A i \in Invite : (invites[i].oneTime /\ accepted[i] > 0) => invites[i].status = "deleted"

\* "adminDeleteNode removes a node from every mesh in the database and from
\* the allow list" (api_admin.go:316), and from the registry.
DeleteNodeRemovesAll ==
    [][\A w \in Worker : DeleteNodeKeys(w) =>
          LET n == req[w].node
          IN  n \notin allow' /\ nodes'[n] = 0 /\ records'[n] = NoSecret]_vars

\* A node that is handed a secret gets in with it: the record holds the hash of
\* this secret, whatever it held before, and the node is on the allow list, by
\* three writes any of which may fail (api_admin.go:163-194).
RedeemedGetsIn ==
    [][\A n \in Node : config'[n] # config[n] =>
          config'[n] = records'[n] /\ n \in allow']_vars

\* Whoever is registered was registered by a caller the server still accepts,
\* the administrator or a node with a session of this start: a restart ends the
\* table together with the key of the sessions, also for a registration that is
\* past its checks (server.go:91-102, :243, api_node.go:42-77, :199-215).
RegistrarIsAccepted == \A n \in Node : nodes[n] # 0 => Authenticated(sentWith[n])

Reg == INSTANCE Registry WITH clock <- logicalTime, members <- nodes, epoch <- boot

\* The server implements Registry: the table of nodes changes only together
\* with the logical clock, by one registration or removal at a time, and a
\* restart resets both (api_node.go:58-77, :138-145, api_admin.go:330-337).
ImplementsRegistry == Reg!RegistrySpec
============================================================================
