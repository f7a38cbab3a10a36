-------------------------- MODULE DiscoveryProofs --------------------------
(***************************************************************************)
(* Proofs about the discovery loop, for any set of nodes and any number of *)
(* joins, leaves, faults and restarts.                                     *)
(***************************************************************************)
EXTENDS Discovery, TLAPS

\* The steps of Discovery by their effect on the server.
LEMMA Effects ==
    ASSUME [Next]_vars
    PROVE  \/ UNCHANGED registryVars
           \/ \E n \in Node : Join(n) \/ Leave(n)
           \/ ServerRestart
<1> USE DiscoveryAssumption DEF Peer, server, account
<1>1. CASE UNCHANGED vars
  BY <1>1 DEF vars
<1>2. CASE Loop
  BY <1>2 DEF Loop, Register, RefreshInvalid, Refresh, GetPeers, EndUpdate, TellRemoved,
     TellUpdated, CallFails, RegisterFails, GetPeersFails, vars
<1>3. CASE ~Loop /\ Next
  BY <1>3 DEF Next, RegisterAnswerLost, RefreshMisread, PeerJoins, PeerLeaves, SelfLeaves,
     SelfUnregistered, SelfDeleted, SelfAuthorized, SelfInvited, AdminRestarts, SelfRestarts
<1> QED
  BY <1>1, <1>2, <1>3

\* The loop and what happens around it use the server only as Registry allows:
\* the behaviours RegistryRefinement shows AdminServer to implement are the ones
\* that the loop is proved against.
THEOREM UsesRegistry == Spec => RegistrySpec
<1>1. Init => RegistryInit
  BY DEF Init
<1>2. [Next]_vars => [RegistryNext]_registryVars
  BY Effects DEF RegistryNext
<1> QED
  BY <1>1, <1>2, PTL DEF Spec, RegistrySpec

\* Changes of the table keep its type.
LEMMA RegistryType ==
    ASSUME clock \in Nat, members \in [Node -> Nat], epoch \in Nat, [Next]_vars
    PROVE  clock' \in Nat /\ members' \in [Node -> Nat] /\ epoch' \in Nat
<1>1. clock + 1 \in Nat /\ epoch + 1 \in Nat /\ 0 \in Nat
  OBVIOUS
<1> QED
  BY <1>1, Effects DEF registryVars, Join, Leave, ServerRestart, Absent

\* The initial state is well typed.
LEMMA TypeInit == Init => TypeOK
  BY DiscoveryAssumption DEF Init, RegistryInit, TypeOK, Absent, NoToken, Peer

\* So is every state after it.
LEMMA TypeStep == TypeOK /\ [Next]_vars => TypeOK'
<1> SUFFICES ASSUME TypeOK, [Next]_vars PROVE TypeOK'
  OBVIOUS
<1> USE DEF Peer, server, account
<1>0. /\ clock' \in Nat /\ members' \in [Node -> Nat] /\ epoch' \in Nat
      /\ events + 1 \in Nat /\ clock + 1 \in Nat /\ 0 \in Nat
  BY RegistryType DEF TypeOK
<1>1. CASE UNCHANGED vars \/ CallFails
  BY <1>0, <1>1 DEF vars, server, account, registryVars, clientVars, loopVars, CallFails, TypeOK
<1>2. CASE Register \/ RegisterAnswerLost
  BY <1>0, <1>2 DEF Register, RegisterAnswerLost, Event, loopVars, TypeOK
<1>3. CASE RegisterFails \/ RefreshInvalid \/ RefreshMisread \/ GetPeersFails
  BY <1>0, <1>3 DEF RegisterFails, RefreshInvalid, RefreshMisread, GetPeersFails, Event, server,
     loopVars, TypeOK
<1>4. CASE Refresh \/ EndUpdate
  BY <1>0, <1>4 DEF Refresh, EndUpdate, server, TypeOK
<1>5. CASE GetPeers
  BY <1>0, <1>5 DEF GetPeers, updatedPeers, removedPeers, server, TypeOK
<1>6. CASE \E n \in Peer : TellRemoved(n) \/ TellUpdated(n)
  <2>1. PICK n \in Peer : TellRemoved(n) \/ TellUpdated(n)
    BY <1>6
  <2>2. n \in Node /\ currentPeers[n] \in Nat /\ lastPeers[n] \in Nat
    BY DEF TypeOK
  <2>3. told' \in [Node -> Nat] /\ currentPeers' \in [Node -> Nat]
    BY <1>0, <2>1, <2>2 DEF TellRemoved, TellUpdated, TypeOK
  <2>4. removed' \in SUBSET Peer /\ updated' \in SUBSET Peer /\ missed' \in SUBSET Peer
    BY <2>1 DEF TellRemoved, TellUpdated, TypeOK
  <2>5. goodUpdate' \in BOOLEAN
    BY <2>1 DEF TellRemoved, TellUpdated, TypeOK
  <2>6. events' \in Nat
    BY <1>0, <2>1 DEF TellRemoved, TellUpdated, Event, TypeOK
  <2> QED
    BY <1>0, <2>1, <2>3, <2>4, <2>5, <2>6 DEF TellRemoved, TellUpdated, server, TypeOK
<1>7. CASE \E n \in Peer : PeerJoins(n) \/ PeerLeaves(n)
  BY <1>0, <1>7 DEF PeerJoins, PeerLeaves, Event, clientVars, loopVars, TypeOK
<1>8. CASE \/ SelfUnregistered \/ SelfDeleted \/ SelfAuthorized \/ SelfInvited
        \/ AdminRestarts
  BY <1>0, <1>8 DEF SelfLeaves, SelfUnregistered, SelfDeleted, SelfAuthorized, SelfInvited,
     AdminRestarts, Event, clientVars, loopVars, TypeOK
<1>9. CASE SelfRestarts
  BY <1>0, <1>9 DEF SelfRestarts, Login, Event, server, Absent, NoToken, TypeOK
<1> QED
  BY <1>1, <1>2, <1>3, <1>4, <1>5, <1>6, <1>7, <1>8, <1>9 DEF Next, Loop

\* The loop's variables keep their types; diffNodes never names the node itself.
THEOREM TypeCorrect == Spec => []TypeOK
  BY TypeInit, TypeStep, PTL DEF Spec
----------------------------------------------------------------------------
\* While the session is of the server's present start, the times the loop
\* holds are times of the present clock.  A round is only begun for a later
\* time than the last, and as long as the clock stands where Refresh saw it,
\* the map GetPeers fetched is still the table.
ClockInv ==
    /\ TypeOK
    /\ session <= epoch
    /\ LoggedIn =>
         /\ lastLogicalTime <= clock /\ logicalTime <= clock
         /\ pc \in {"peers", "update"} => lastLogicalTime < logicalTime
         /\ (pc = "update" /\ goodUpdate /\ logicalTime = clock) =>
               \A n \in Peer : currentPeers[n] = members[n]
    /\ NoMissedChange

\* A step of others: the clock stands and so does the table, or it moves on,
\* or the server restarts and the session ends.
LEMMA ClockAround ==
    ASSUME ClockInv, TypeOK', [Next]_vars, UNCHANGED clientVars
    PROVE  ClockInv'
<1>0. TypeOK
  BY DEF ClockInv
<1>1. CASE UNCHANGED registryVars
  BY <1>1 DEF ClockInv, NoMissedChange, LoggedIn, registryVars, clientVars, loopVars
<1>2. CASE \E n \in Node : Join(n) \/ Leave(n)
  <2>1. clock' = clock + 1 /\ epoch' = epoch
    BY <1>2 DEF Join, Leave
  <2> QED
    BY <1>0, <2>1 DEF ClockInv, NoMissedChange, LoggedIn, clientVars, loopVars, TypeOK
<1>3. CASE ServerRestart
  <2>1. session' <= epoch' /\ ~LoggedIn'
    BY <1>0, <1>3 DEF ServerRestart, ClockInv, LoggedIn, clientVars, TypeOK
  <2> QED
    BY <2>1 DEF ClockInv, NoMissedChange
<1> QED
  BY <1>1, <1>2, <1>3, Effects

\* Every step keeps the invariant.
LEMMA ClockStep == ClockInv /\ [Next]_vars => ClockInv'
<1> SUFFICES ASSUME ClockInv, [Next]_vars PROVE ClockInv'
  OBVIOUS
<1>0. TypeOK /\ TypeOK'
  BY TypeStep DEF ClockInv
<1> USE DEF LoggedIn, NoMissedChange
<1>1. CASE UNCHANGED clientVars
  BY <1>0, <1>1, ClockAround
<1>2. CASE Register
  BY <1>0, <1>2 DEF Register, Join, ClockInv, TypeOK
<1>3. CASE RegisterAnswerLost
  BY <1>0, <1>3 DEF RegisterAnswerLost, Join, loopVars, ClockInv, TypeOK
<1>4. CASE RegisterFails \/ RefreshInvalid \/ RefreshMisread \/ GetPeersFails
  BY <1>0, <1>4 DEF RegisterFails, RefreshInvalid, RefreshMisread, GetPeersFails, server,
     registryVars, loopVars, ClockInv, TypeOK
<1>5. CASE Refresh
  BY <1>0, <1>5 DEF Refresh, server, registryVars, ClockInv, TypeOK
<1>6. CASE GetPeers
  BY <1>0, <1>6 DEF GetPeers, updatedPeers, removedPeers, server, registryVars, ClockInv, TypeOK
<1>7. CASE \E n \in Peer : TellRemoved(n) \/ TellUpdated(n)
  BY <1>0, <1>7 DEF TellRemoved, TellUpdated, server, registryVars, ClockInv, TypeOK
<1>8. CASE EndUpdate
  BY <1>0, <1>8 DEF EndUpdate, server, registryVars, ClockInv, TypeOK
<1>9. CASE SelfRestarts
  BY <1>0, <1>9 DEF SelfRestarts, Login, server, registryVars, ClockInv, TypeOK
<1> QED
  BY <1>1, <1>2, <1>3, <1>4, <1>5, <1>6, <1>7, <1>8, <1>9
     DEF Next, Loop, CallFails, vars, PeerJoins, PeerLeaves, SelfLeaves, SelfUnregistered,
         SelfDeleted, SelfAuthorized, SelfInvited, AdminRestarts

\* It holds at first.
LEMMA ClockAtInit == Init => ClockInv
  BY TypeInit DEF Init, RegistryInit, ClockInv, NoMissedChange

\* A round that discovery skips because the clock has not moved would have
\* found nothing: Refresh and GetPeerMap are two calls, but the time that is
\* remembered is the one read first.
THEOREM NothingMissed == Spec => []NoMissedChange
<1>1. ClockInv => NoMissedChange
  BY DEF ClockInv
<1> QED
  BY <1>1, ClockAtInit, ClockStep, PTL DEF Spec
----------------------------------------------------------------------------
\* Between rounds the proxy knows the map of the last round, but for the peers
\* its handler failed for.  Within a round it knows the new map for the peers
\* that were handled and the old map for those that were not.
ToldInv ==
    /\ TypeOK
    /\ ToldIsLastPeers
    /\ pc = "update" =>
         \A n \in Peer \ missed :
            told[n] = IF n \in removed \cup updated THEN lastPeers[n] ELSE currentPeers[n]
    /\ pc = "update" => \A n \in removed : currentPeers[n] = 0 /\ n \notin updated

\* Each call of the handler, also a failed one, keeps that.
LEMMA ToldHandler ==
    ASSUME ToldInv, NEW n \in Peer, TellRemoved(n) \/ TellUpdated(n), TypeOK'
    PROVE  ToldInv'
<1>0. pc = "update" /\ pc' = "update" /\ lastPeers' = lastPeers
  BY DEF TellRemoved, TellUpdated
<1>a. \A m \in removed' : currentPeers'[m] = 0 /\ m \notin updated'
  <2> SUFFICES ASSUME NEW m \in removed' PROVE currentPeers'[m] = 0 /\ m \notin updated'
    OBVIOUS
  <2>1. TellRemoved(n) /\ m \in removed /\ m # n
    BY DEF TellRemoved, TellUpdated
  <2>2. currentPeers \in [Node -> Nat] /\ m \in Node
    BY <2>1 DEF ToldInv, TypeOK, Peer
  <2>3. currentPeers'[m] = currentPeers[m] /\ updated' = updated
    BY <2>1, <2>2 DEF TellRemoved
  <2> QED
    BY <1>0, <2>1, <2>3 DEF ToldInv
<1>1. SUFFICES ASSUME NEW m \in Peer \ missed'
               PROVE  told'[m] = IF m \in removed' \cup updated' THEN lastPeers[m]
                                                                 ELSE currentPeers'[m]
  BY <1>0, <1>a DEF ToldInv, ToldIsLastPeers
<1>2. /\ told \in [Node -> Nat] /\ currentPeers \in [Node -> Nat] /\ n \in Node /\ m \in Node
      /\ m \notin missed =>
           told[m] = IF m \in removed \cup updated THEN lastPeers[m] ELSE currentPeers[m]
      /\ n \in removed => currentPeers[n] = 0 /\ n \notin updated
  BY <1>0 DEF ToldInv, TypeOK, Peer
<1>3. CASE m = n
  BY <1>2, <1>3 DEF TellRemoved, TellUpdated
<1>4. CASE m # n
  BY <1>2, <1>4 DEF TellRemoved, TellUpdated
<1> QED
  BY <1>3, <1>4

\* So does every other step.
LEMMA ToldStep == ToldInv /\ [Next]_vars => ToldInv'
<1> SUFFICES ASSUME ToldInv, [Next]_vars PROVE ToldInv'
  OBVIOUS
<1>0. TypeOK /\ TypeOK'
  BY TypeStep DEF ToldInv
<1> USE DEF ToldIsLastPeers
<1>1. CASE UNCHANGED loopVars /\ (pc = "update" <=> pc' = "update")
  BY <1>0, <1>1 DEF ToldInv, loopVars
<1>2. CASE Register \/ Refresh
  BY <1>0, <1>2 DEF Register, Refresh, ToldInv, TypeOK
<1>3. CASE GetPeers
  <2>1. \A n \in Peer \ missed : told[n] = lastPeers[n]
    BY <1>3 DEF GetPeers, updatedPeers, removedPeers, ToldInv
  <2> QED
    BY <1>0, <1>3, <2>1 DEF GetPeers, updatedPeers, removedPeers, ToldInv, TypeOK
<1>4. CASE \E n \in Peer : TellRemoved(n) \/ TellUpdated(n)
  BY <1>0, <1>4, ToldHandler
<1>5. CASE EndUpdate
  BY <1>0, <1>5 DEF EndUpdate, ToldInv
<1>6. CASE SelfRestarts
  BY <1>0, <1>6 DEF SelfRestarts, Login, ToldInv
<1> QED
  BY <1>1, <1>2, <1>3, <1>4, <1>5, <1>6
     DEF Next, Loop, CallFails, RegisterAnswerLost, RefreshInvalid, RefreshMisread, RegisterFails,
         GetPeersFails, PeerJoins, PeerLeaves, SelfLeaves, SelfUnregistered, SelfDeleted,
         SelfAuthorized, SelfInvited, AdminRestarts, vars, clientVars

\* It holds at first.
LEMMA ToldAtInit == Init => ToldInv
  BY TypeInit DEF Init, ToldInv, ToldIsLastPeers

\* Between rounds the proxy knows exactly the registrations of the last map, but
\* for the peers its handler failed for: one call that fails, whichever it is and
\* however often it does, spoils nothing of the others (discovery.go:138-171).
THEOREM ToldCorrect == Spec => []ToldIsLastPeers
<1>1. ToldInv => ToldIsLastPeers
  BY DEF ToldInv
<1> QED
  BY <1>1, ToldStep, ToldAtInit, PTL DEF Spec
----------------------------------------------------------------------------
\* The token the node holds was given out in its present session.
TokenInv ==
    /\ TypeOK
    /\ 0 < session /\ session <= epoch
    /\ token = NoToken \/ (token.epoch = session /\ 0 < token.time)

\* Every step keeps that.
LEMMA TokenStep == TokenInv /\ [Next]_vars => TokenInv'
<1> SUFFICES ASSUME TokenInv, [Next]_vars PROVE TokenInv'
  OBVIOUS
<1>0. TypeOK /\ TypeOK'
  BY TypeStep DEF TokenInv
<1>1. epoch' = epoch \/ epoch' = epoch + 1
  BY Effects DEF registryVars, Join, Leave, ServerRestart
<1>2. CASE UNCHANGED <<session, token>>
  BY <1>0, <1>1, <1>2 DEF TokenInv, TypeOK
<1>3. CASE Register
  BY <1>0, <1>1, <1>3 DEF Register, LoggedIn, TokenInv, TypeOK
<1>4. CASE SelfRestarts
  BY <1>0, <1>4 DEF SelfRestarts, Login, server, registryVars, TokenInv, TypeOK
<1> QED
  BY <1>2, <1>3, <1>4
     DEF Next, Loop, RefreshInvalid, Refresh, GetPeers, EndUpdate, TellRemoved, TellUpdated,
         CallFails, RegisterFails, GetPeersFails, RegisterAnswerLost, RefreshMisread,
         PeerJoins, PeerLeaves, SelfLeaves, SelfUnregistered, SelfDeleted, SelfAuthorized,
         SelfInvited, AdminRestarts, clientVars, vars

\* A node whose token the server still knows is registered, and its session is
\* good as well: a restart of the server takes both at once, so the
\* node that outlives it has no session left to register again with
\* (api_node.go:54-77, discovery.go:103-125).
THEOREM TokenHasSession == Spec => [](TokenValid => LoggedIn /\ members[Self] # 0)
<1>1. Init => TokenInv
  BY TypeInit DEF Init, RegistryInit, TokenInv
<1>2. TokenInv => (TokenValid => LoggedIn /\ members[Self] # 0)
  BY DiscoveryAssumption DEF TokenInv, TokenValid, LoggedIn, NoToken, TypeOK
<1> QED
  BY <1>1, <1>2, TokenStep, PTL DEF Spec

\* The token is not from the future of the server's clock.
FreshInv ==
    /\ TokenInv
    /\ token.epoch = epoch => token.time <= clock
    /\ members[Self] <= clock

\* Every step keeps that: a registration is given the next time of the clock.
LEMMA FreshStep == FreshInv /\ [Next]_vars => FreshInv'
<1> SUFFICES ASSUME FreshInv, [Next]_vars PROVE FreshInv'
  OBVIOUS
<1>0. TypeOK /\ TypeOK' /\ TokenInv' /\ Self \in Node
  BY TokenStep, DiscoveryAssumption DEF FreshInv, TokenInv
<1>1. \/ clock <= clock' /\ epoch' = epoch
      \/ epoch' = epoch + 1 /\ clock' = 0
  BY <1>0, Effects DEF registryVars, Join, Leave, ServerRestart, TypeOK
<1>2. members'[Self] <= clock'
  <2>1. CASE UNCHANGED registryVars
    BY <2>1 DEF registryVars, FreshInv
  <2>2. ASSUME NEW n \in Node, Join(n) \/ Leave(n) PROVE members'[Self] <= clock'
    BY <1>0, <2>2 DEF Join, Leave, FreshInv, TypeOK
  <2>3. CASE ServerRestart
    BY <1>0, <2>3 DEF ServerRestart, Absent
  <2> QED
    BY <2>1, <2>2, <2>3, Effects
<1>3. CASE token' = token
  <2>1. token.epoch <= epoch
    BY <1>0 DEF FreshInv, TokenInv, NoToken, TypeOK
  <2> QED
    BY <1>0, <1>1, <1>2, <1>3, <2>1 DEF FreshInv, TypeOK
<1>4. CASE Register
  BY <1>0, <1>2, <1>4 DEF Register, Join, FreshInv, TypeOK
<1>5. CASE SelfRestarts
  BY <1>0, <1>2, <1>5 DEF SelfRestarts, NoToken, FreshInv, TypeOK
<1> QED
  BY <1>3, <1>4, <1>5
     DEF Next, Loop, RefreshInvalid, Refresh, GetPeers, EndUpdate, TellRemoved, TellUpdated,
         CallFails, RegisterFails, GetPeersFails, RegisterAnswerLost, RefreshMisread,
         PeerJoins, PeerLeaves, SelfLeaves, SelfUnregistered, SelfDeleted, SelfAuthorized,
         SelfInvited, AdminRestarts, clientVars, vars

\* A registration that the server refuses once it refuses for good: neither a
\* later registration whose answer is lost nor a restart of the server, which
\* begins a new count, makes it the node's present one again.  The start of the
\* server and the time of its clock therefore name a registration as the token
\* of newNodeToken does, which is made anew each time (api_node.go:58-77), and
\* giving up the old registration on a 409 loses nothing (discovery.go:109-119).
THEOREM RefusedForGood ==
    Spec => [][(token # NoToken /\ ~TokenValid /\ token' = token) => ~TokenValid']_vars
<1>1. Init => FreshInv
  BY TypeInit, DiscoveryAssumption DEF Init, RegistryInit, TokenInv, FreshInv, NoToken, Absent
<1>2. FreshInv /\ [Next]_vars =>
        [(token # NoToken /\ ~TokenValid /\ token' = token) => ~TokenValid']_vars
  <2> SUFFICES ASSUME FreshInv, [Next]_vars, token # NoToken, token' = token, TokenValid'
               PROVE  TokenValid
    OBVIOUS
  <2>0. /\ TypeOK /\ Self \in Node
        /\ token = [epoch |-> epoch', time |-> members'[Self]]
        /\ token.epoch = epoch' /\ token.time = members'[Self]
        /\ token.epoch = session /\ 0 < token.time /\ session <= epoch
    BY DiscoveryAssumption DEF FreshInv, TokenInv, TokenValid
  <2>1. CASE UNCHANGED registryVars
    BY <2>0, <2>1 DEF registryVars, TokenValid
  <2>2. ASSUME NEW n \in Node, Join(n) PROVE TokenValid
    <3>1. epoch' = epoch /\ token.time <= clock
      BY <2>0, <2>2 DEF Join, FreshInv
    <3>2. n # Self
      BY <2>0, <2>2, <3>1 DEF Join, TypeOK
    <3> QED
      BY <2>0, <2>2, <3>1, <3>2 DEF Join, TokenValid, TypeOK
  <2>3. ASSUME NEW n \in Node, Leave(n) PROVE TokenValid
    <3>1. epoch' = epoch /\ members' = [members EXCEPT ![n] = 0] /\ members \in [Node -> Nat]
      BY <2>0, <2>3 DEF Leave, TypeOK
    <3>2. CASE n = Self
      <4>1. members'[Self] = 0
        BY <2>0, <3>1, <3>2
      <4> QED
        BY <2>0, <4>1
    <3>3. CASE n # Self
      BY <2>0, <3>1, <3>3 DEF TokenValid
    <3> QED
      BY <3>2, <3>3
  <2>4. CASE ServerRestart
    <3>1. members'[Self] = 0
      BY <2>0, <2>4 DEF ServerRestart, Absent
    <3> QED
      BY <2>0, <3>1
  <2> QED
    BY <2>1, <2>2, <2>3, <2>4, Effects
<1> QED
  BY <1>1, <1>2, FreshStep, PTL DEF Spec
----------------------------------------------------------------------------
\* The registration of a peer that the maps of the loop hold the proxy to.
Handled(n) ==
    IF pc = "update" /\ n \notin removed \cup updated THEN currentPeers[n] ELSE lastPeers[n]

\* While the session is good, the maps are older than the table or equal to it;
\* an update takes a peer forward; the proxy is not ahead of the maps.
OrderInv ==
    /\ TypeOK
    /\ session <= epoch
    /\ \A n \in Peer : members[n] <= clock
    /\ LoggedIn =>
         \A n \in Peer :
            /\ lastPeers[n] <= clock /\ currentPeers[n] <= clock
            /\ members[n] # 0 => lastPeers[n] <= members[n] /\ currentPeers[n] <= members[n]
    /\ pc = "update" => \A n \in updated : lastPeers[n] <= currentPeers[n]
    /\ \A n \in Peer : told[n] <= Handled(n)

\* A change of the table leaves it younger than the maps.
LEMMA OrderAround ==
    ASSUME OrderInv, TypeOK', [Next]_vars, UNCHANGED <<lastPeers, currentPeers, session>>
    PROVE  /\ session' <= epoch'
           /\ \A n \in Peer : members'[n] <= clock'
           /\ LoggedIn' =>
                \A n \in Peer :
                   /\ lastPeers'[n] <= clock' /\ currentPeers'[n] <= clock'
                   /\ members'[n] # 0 =>
                         lastPeers'[n] <= members'[n] /\ currentPeers'[n] <= members'[n]
<1>0. TypeOK /\ \A n \in Peer : n \in Node
  BY DEF OrderInv, Peer
<1>1. CASE UNCHANGED registryVars
  BY <1>0, <1>1 DEF registryVars, OrderInv, LoggedIn
<1>2. ASSUME NEW m \in Node, Join(m) \/ Leave(m)
      PROVE  /\ session' <= epoch'
             /\ \A n \in Peer : members'[n] <= clock'
             /\ LoggedIn' =>
                  \A n \in Peer :
                     /\ lastPeers'[n] <= clock' /\ currentPeers'[n] <= clock'
                     /\ members'[n] # 0 =>
                           lastPeers'[n] <= members'[n] /\ currentPeers'[n] <= members'[n]
  <2>1. clock' = clock + 1 /\ epoch' = epoch
    BY <1>2 DEF Join, Leave
  <2>2. ASSUME NEW n \in Peer
        PROVE  \/ members'[n] = members[n]
               \/ members'[n] = clock + 1
               \/ members'[n] = 0
    BY <1>0, <1>2 DEF Join, Leave, TypeOK
  <2>3. \A n \in Peer : members[n] \in Nat /\ lastPeers[n] \in Nat /\ currentPeers[n] \in Nat
    BY <1>0 DEF TypeOK
  <2>4. \A n \in Peer : members'[n] <= clock'
    BY <1>0, <2>1, <2>2, <2>3 DEF OrderInv, TypeOK
  <2>5. ASSUME LoggedIn', NEW n \in Peer
        PROVE  /\ lastPeers'[n] <= clock' /\ currentPeers'[n] <= clock'
               /\ members'[n] # 0 =>
                     lastPeers'[n] <= members'[n] /\ currentPeers'[n] <= members'[n]
    <3>1. /\ lastPeers[n] <= clock /\ currentPeers[n] <= clock
          /\ members[n] # 0 => lastPeers[n] <= members[n] /\ currentPeers[n] <= members[n]
      BY <2>1, <2>5 DEF OrderInv, LoggedIn
    <3> QED
      BY <1>0, <2>1, <2>2, <2>3, <3>1 DEF TypeOK
  <2> QED
    BY <2>1, <2>4, <2>5 DEF OrderInv
<1>3. CASE ServerRestart
  <2>1. session' <= epoch' /\ ~LoggedIn'
    BY <1>0, <1>3 DEF ServerRestart, OrderInv, LoggedIn, TypeOK
  <2>2. \A n \in Peer : members'[n] <= clock'
    BY <1>0, <1>3 DEF ServerRestart, Absent
  <2> QED
    BY <2>1, <2>2
<1> QED
  BY <1>1, <1>2, <1>3, Effects

\* Each call of the handler, failed or not, keeps the rest.
LEMMA OrderHandler ==
    ASSUME OrderInv, NEW n \in Peer, TellRemoved(n) \/ TellUpdated(n), TypeOK'
    PROVE  /\ OrderInv'
           /\ \A m \in Peer : told'[m] # 0 => told[m] <= told'[m]
<1>0. /\ TypeOK /\ n \in Node /\ \A m \in Peer : m \in Node
      /\ pc = "update" /\ pc' = "update" /\ lastPeers' = lastPeers
      /\ UNCHANGED <<session, clock, members, epoch>>
  BY DEF OrderInv, Peer, TellRemoved, TellUpdated, server, registryVars
<1>1. \A m \in Peer : /\ members[m] \in Nat /\ lastPeers[m] \in Nat /\ currentPeers[m] \in Nat
                      /\ told[m] \in Nat /\ told[m] <= Handled(m)
  BY <1>0 DEF OrderInv, TypeOK
<1>2. currentPeers' = currentPeers \/ currentPeers' = [currentPeers EXCEPT ![n] = lastPeers[n]]
  BY DEF TellRemoved, TellUpdated
<1>3. ASSUME NEW m \in Peer
      PROVE  currentPeers'[m] = currentPeers[m] \/ currentPeers'[m] = lastPeers[m]
  BY <1>0, <1>2, <1>3 DEF TypeOK
<1>4. LoggedIn' =>
         \A m \in Peer :
            /\ lastPeers'[m] <= clock' /\ currentPeers'[m] <= clock'
            /\ members'[m] # 0 =>
                  lastPeers'[m] <= members'[m] /\ currentPeers'[m] <= members'[m]
  BY <1>0, <1>3 DEF OrderInv, LoggedIn
<1>5. \A m \in updated : m \in Peer /\ lastPeers[m] <= currentPeers[m]
  BY <1>0 DEF OrderInv, TypeOK
<1>6. \A m \in updated' : lastPeers'[m] <= currentPeers'[m]
  <2> SUFFICES ASSUME NEW m \in updated' PROVE lastPeers'[m] <= currentPeers'[m]
    OBVIOUS
  <2>1. m \in updated
    BY DEF TellRemoved, TellUpdated
  <2>2. /\ m \in Peer /\ lastPeers[m] <= currentPeers[m]
        /\ lastPeers[m] \in Nat /\ currentPeers[m] \in Nat
    BY <1>1, <1>5, <2>1
  <2>3. lastPeers'[m] = lastPeers[m]
    BY <1>0
  <2>4. CASE currentPeers'[m] = currentPeers[m]
    BY <2>2, <2>3, <2>4
  <2>5. CASE currentPeers'[m] = lastPeers[m]
    BY <2>2, <2>3, <2>5
  <2> QED
    BY <1>3, <2>2, <2>4, <2>5
<1>7. ASSUME NEW m \in Peer
      PROVE  told'[m] <= Handled(m)' /\ (told'[m] # 0 => told[m] <= told'[m])
  <2>1. CASE m # n
    <3>1. told'[m] = told[m] /\ currentPeers'[m] = currentPeers[m]
      BY <1>0, <2>1 DEF TellRemoved, TellUpdated, TypeOK
    <3>2. m \in removed \cup updated <=> m \in removed' \cup updated'
      BY <2>1 DEF TellRemoved, TellUpdated
    <3>3. Handled(m)' = Handled(m)
      BY <1>0, <3>1, <3>2 DEF Handled
    <3>4. told[m] \in Nat /\ told[m] <= Handled(m)
      BY <1>1
    <3> QED
      BY <3>1, <3>3, <3>4
  <2>2. CASE m = n /\ TellRemoved(n)
    <3>1. told[n] <= lastPeers[n]
      BY <1>0, <1>1, <2>2 DEF TellRemoved, Handled
    <3>2. CASE told' = [told EXCEPT ![n] = 0]
      <4>1. told'[n] = 0
        BY <1>0, <3>2 DEF TypeOK
      <4>2. Handled(n)' \in Nat
        BY <1>0 DEF Handled, TypeOK
      <4>3. told'[n] <= Handled(n)'
        BY <4>1, <4>2
      <4> QED
        BY <2>2, <4>1, <4>3
    <3>3. CASE told' = told /\ currentPeers' = [currentPeers EXCEPT ![n] = lastPeers[n]]
      <4>1. currentPeers'[n] = lastPeers[n]
        BY <1>0, <3>3 DEF TypeOK
      <4>2. Handled(n)' = lastPeers[n]
        BY <1>0, <4>1 DEF Handled
      <4>3. told[n] \in Nat
        BY <1>1
      <4> QED
        BY <2>2, <3>1, <3>3, <4>2, <4>3
    <3> QED
      BY <2>2, <3>2, <3>3 DEF TellRemoved
  <2>3. CASE m = n /\ TellUpdated(n)
    <3>1. /\ n \in updated /\ removed = {} /\ currentPeers' = currentPeers
          /\ removed' = {} /\ updated' = updated \ {n}
      BY <2>3 DEF TellUpdated
    <3>2. told[n] <= lastPeers[n] /\ lastPeers[n] <= currentPeers[n]
      BY <1>0, <1>1, <1>5, <3>1 DEF Handled
    <3>3. Handled(n)' = currentPeers[n]
      BY <1>0, <3>1 DEF Handled
    <3>4. told'[n] = told[n] \/ told'[n] = currentPeers[n]
      BY <1>0, <2>3 DEF TellUpdated, TypeOK
    <3>5. told[n] \in Nat /\ lastPeers[n] \in Nat /\ currentPeers[n] \in Nat
      BY <1>1
    <3>6. told[n] <= currentPeers[n] /\ told[n] <= told[n] /\ currentPeers[n] <= currentPeers[n]
      BY <3>2, <3>5
    <3> QED
      BY <2>3, <3>3, <3>4, <3>6
  <2> QED
    BY <2>1, <2>2, <2>3
<1>8. session' <= epoch' /\ \A m \in Peer : members'[m] <= clock'
  BY <1>0 DEF OrderInv
<1> QED
  BY <1>4, <1>6, <1>7, <1>8 DEF OrderInv

\* The step from the old map to a new one.
LEMMA OrderFetch ==
    ASSUME OrderInv, GetPeers, TypeOK' PROVE OrderInv'
<1>0. /\ TypeOK /\ \A n \in Peer : n \in Node
      /\ pc = "peers" /\ pc' = "update" /\ LoggedIn
      /\ UNCHANGED <<session, clock, members, epoch, lastPeers, told>>
      /\ currentPeers' = members /\ updated' = updatedPeers /\ removed' = removedPeers
  BY DEF OrderInv, Peer, GetPeers, server, registryVars
<1>1. \A n \in Peer : /\ members[n] \in Nat /\ lastPeers[n] \in Nat
                      /\ members[n] <= clock /\ lastPeers[n] <= clock
                      /\ members[n] # 0 => lastPeers[n] <= members[n]
                      /\ told[n] <= lastPeers[n]
  BY <1>0 DEF OrderInv, Handled, TypeOK
<1>2. LoggedIn' =>
         \A n \in Peer :
            /\ lastPeers'[n] <= clock' /\ currentPeers'[n] <= clock'
            /\ members'[n] # 0 =>
                  lastPeers'[n] <= members'[n] /\ currentPeers'[n] <= members'[n]
  <2> SUFFICES ASSUME NEW n \in Peer
               PROVE  /\ lastPeers'[n] <= clock' /\ currentPeers'[n] <= clock'
                      /\ members'[n] # 0 =>
                            lastPeers'[n] <= members'[n] /\ currentPeers'[n] <= members'[n]
    OBVIOUS
  <2>1. /\ lastPeers'[n] = lastPeers[n] /\ currentPeers'[n] = members[n]
        /\ members'[n] = members[n] /\ clock' = clock
    BY <1>0
  <2>2. members[n] \in Nat /\ members[n] <= members[n]
    BY <1>1
  <2> QED
    BY <1>1, <2>1, <2>2
<1>3. \A n \in updated' : lastPeers'[n] <= currentPeers'[n]
  BY <1>0, <1>1 DEF updatedPeers
<1>4. ASSUME NEW n \in Peer PROVE told'[n] <= Handled(n)'
  <2>1. n \in removedPeers \cup updatedPeers \/ members[n] = lastPeers[n]
    BY <1>1 DEF removedPeers, updatedPeers
  <2> QED
    BY <1>0, <1>1, <2>1 DEF Handled
<1> QED
  BY <1>0, <1>2, <1>3, <1>4 DEF OrderInv

\* Every step keeps the order, and is in it.
LEMMA OrderStep ==
    OrderInv /\ [Next]_vars =>
        OrderInv' /\ \A n \in Peer : told'[n] # 0 => told[n] <= told'[n]
<1> SUFFICES ASSUME OrderInv, [Next]_vars
             PROVE  OrderInv' /\ \A n \in Peer : told'[n] # 0 => told[n] <= told'[n]
  OBVIOUS
<1>0. TypeOK /\ TypeOK' /\ \A n \in Peer : n \in Node /\ told[n] \in Nat
  BY TypeStep DEF OrderInv, Peer, TypeOK
<1>1. CASE /\ UNCHANGED <<lastPeers, currentPeers, removed, updated, told, session>>
           /\ pc = "update" <=> pc' = "update"
  <2>1. \A n \in Peer : Handled(n)' = Handled(n)
    BY <1>1 DEF Handled
  <2>2. \A n \in Peer : told'[n] <= Handled(n)' /\ told[n] <= told'[n]
    BY <1>0, <1>1, <2>1 DEF OrderInv
  <2>3. pc' = "update" => \A n \in updated' : lastPeers'[n] <= currentPeers'[n]
    BY <1>1 DEF OrderInv
  <2> QED
    BY <1>0, <1>1, <2>2, <2>3, OrderAround DEF OrderInv
<1>2. CASE GetPeers
  <2>1. told' = told
    BY <1>2 DEF GetPeers
  <2> QED
    BY <1>0, <1>2, <2>1, OrderFetch
<1>3. CASE \E n \in Peer : TellRemoved(n) \/ TellUpdated(n)
  BY <1>0, <1>3, OrderHandler
<1>4. CASE EndUpdate
  <2>1. /\ pc = "update" /\ pc' = "refresh" /\ removed = {} /\ updated = {}
        /\ lastPeers' = currentPeers /\ currentPeers' = currentPeers /\ told' = told
        /\ UNCHANGED <<session, clock, members, epoch>>
    BY <1>4 DEF EndUpdate, server, registryVars
  <2>2. \A n \in Peer : Handled(n)' = Handled(n)
    BY <2>1 DEF Handled
  <2>3. LoggedIn' =>
          \A n \in Peer :
             /\ lastPeers'[n] <= clock' /\ currentPeers'[n] <= clock'
             /\ members'[n] # 0 =>
                   lastPeers'[n] <= members'[n] /\ currentPeers'[n] <= members'[n]
    BY <2>1 DEF OrderInv, LoggedIn
  <2>4. session' <= epoch' /\ \A n \in Peer : members'[n] <= clock'
    BY <2>1 DEF OrderInv
  <2>5. \A n \in Peer : told'[n] = told[n] /\ told[n] <= Handled(n)'
    BY <2>1, <2>2 DEF OrderInv
  <2>6. \A n \in Peer : told[n] <= told'[n]
    BY <1>0, <2>5
  <2> QED
    BY <1>0, <2>1, <2>3, <2>4, <2>5, <2>6 DEF OrderInv
<1>5. CASE SelfRestarts
  <2>1. /\ pc' = "register" /\ session' = epoch /\ UNCHANGED <<clock, members, epoch>>
        /\ \A n \in Peer : lastPeers'[n] = 0 /\ currentPeers'[n] = 0 /\ told'[n] = 0
    BY <1>0, <1>5 DEF SelfRestarts, Login, Absent, server, registryVars
  <2>2. \A n \in Peer : members[n] \in Nat
    BY <1>0 DEF TypeOK
  <2>3. \A n \in Peer : told'[n] <= Handled(n)'
    BY <2>1 DEF Handled
  <2>4. clock \in Nat /\ session' <= epoch' /\ \A n \in Peer : members'[n] <= clock'
    BY <1>0, <2>1 DEF OrderInv, TypeOK
  <2>5. \A n \in Peer : /\ lastPeers'[n] <= clock' /\ currentPeers'[n] <= clock'
                         /\ lastPeers'[n] <= members'[n] /\ currentPeers'[n] <= members'[n]
    BY <2>1, <2>2, <2>4
  <2> QED
    BY <1>0, <2>1, <2>3, <2>4, <2>5 DEF OrderInv
<1> QED
  BY <1>1, <1>2, <1>3, <1>4, <1>5
     DEF Next, Loop, Register, Refresh, CallFails, RegisterAnswerLost, RefreshInvalid,
         RefreshMisread, RegisterFails, GetPeersFails, PeerJoins, PeerLeaves, SelfLeaves,
         SelfUnregistered, SelfDeleted, SelfAuthorized, SelfInvited, AdminRestarts, vars,
         clientVars, loopVars

\* It holds at first.
LEMMA OrderAtInit == Init => OrderInv
  BY TypeInit DEF Init, RegistryInit, OrderInv, Handled, Absent, Peer

\* The proxy is told of the registrations of a peer in the order in which the
\* server made them, whichever calls fail (discovery.go:127-170).
THEOREM InOrder == Spec => ToldInOrder
<1>1. OrderInv /\ [Next]_vars =>
        [\A n \in Peer : told'[n] # 0 => told[n] <= told'[n]]_vars
  BY OrderStep
<1>2. OrderInv /\ [Next]_vars => OrderInv'
  BY OrderStep
<1> QED
  BY <1>1, <1>2, OrderAtInit, PTL DEF Spec, ToldInOrder

\* Between rounds the proxy is never ahead of the map of the last round,
\* whichever calls of its handler fail; so it knows no peer that is not in that
\* map.  It is about the peers that ToldCorrect leaves out too: what a failed
\* fetch of models leaves behind is an older registration, never a peer that is
\* gone (discovery.go:136-166).
THEOREM NeverAhead ==
    Spec => [](pc # "update" =>
                 \A n \in Peer : /\ told[n] <= lastPeers[n]
                                 /\ lastPeers[n] = 0 => told[n] = 0)
<1>1. OrderInv => (pc # "update" =>
                     \A n \in Peer : /\ told[n] <= lastPeers[n]
                                     /\ lastPeers[n] = 0 => told[n] = 0)
  <2> SUFFICES ASSUME OrderInv, pc # "update", NEW n \in Peer
               PROVE  told[n] <= lastPeers[n] /\ (lastPeers[n] = 0 => told[n] = 0)
    OBVIOUS
  <2>1. told[n] \in Nat /\ told[n] <= lastPeers[n]
    BY DEF OrderInv, Handled, TypeOK, Peer
  <2> QED
    BY <2>1
<1>2. OrderInv /\ [Next]_vars => OrderInv'
  BY OrderStep
<1> QED
  BY <1>1, <1>2, OrderAtInit, PTL DEF Spec

\* The loop is at rest: the next Refresh would find the clock it saw last.
Settled == LoggedIn /\ pc # "update" /\ lastLogicalTime = clock /\ clock # 0

\* What rest means: once the loop would skip its next round, the proxy knows
\* exactly the peers that are registered at the server now, and of one its
\* handler failed for an older registration or none (discovery.go:127).  This is
\* the safety part of Converges; that the loop comes to rest is left to model
\* checking.
THEOREM SettledIsRight ==
    Spec => [](Settled => \A n \in Peer :
                 IF n \in missed THEN told[n] <= members[n] ELSE told[n] = members[n])
<1>1. /\ NoMissedChange /\ ToldIsLastPeers
      /\ pc # "update" => \A n \in Peer : /\ told[n] <= lastPeers[n]
                                          /\ lastPeers[n] = 0 => told[n] = 0
      => (Settled => \A n \in Peer :
            IF n \in missed THEN told[n] <= members[n] ELSE told[n] = members[n])
  BY DEF NoMissedChange, ToldIsLastPeers, Settled
<1> QED
  BY <1>1, NothingMissed, ToldCorrect, NeverAhead, PTL
============================================================================
