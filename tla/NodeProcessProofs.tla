-------------------------- MODULE NodeProcessProofs -------------------------
(* Proofs about NodeProcess and the commands of Install it extends, for any *)
(* sets of ids, secrets, handlers and peers.                               *)
EXTENDS NodeProcess, Integers, TLAPS

\* The process runs on or ends, and leaves files and records alone.
ProcessStep ==
    /\ pc' \in {"waiting", "serving", "shutdown", "idle"}
    /\ UNCHANGED <<files, command, id, secret, records, history>>

InstallStep == InstallNext \/ ProcessStep

\* What a step of the node does to the directory and the records.
LEMMA NextInstall == [Next]_vars => [InstallStep]_installVars
<1> SUFFICES ASSUME [Next]_vars PROVE [InstallStep]_installVars
  OBVIOUS
<1>1. CASE CommandStep \/ AdminStep
  BY <1>1 DEF CommandStep, AdminStep, InstallStep, InstallNext
<1>2. CASE NewProxy \/ Serve \/ Shutdown \/ ShutdownDone
  BY <1>2 DEF NewProxy, Serve, Shutdown, ShutdownDone, InstallStep, ProcessStep, Goto
<1>3. CASE AddressChanges \/ Interrupt
  BY <1>3 DEF AddressChanges, Interrupt
<1>4. CASE \E h \in Handler : RequestStep(h)
  BY <1>4 DEF RequestStep, Accept, proxyModelRequest, AskAdmin, ProviderAnswers, AdminAnswers
<1>5. CASE \E p \in Peer : OnPeerUpdate(p) \/ ConnsChange(p)
  BY <1>5 DEF OnPeerUpdate, ConnsChange
<1>6. CASE \E g \in Caller : Goroutine(g) \/ PeerAnswers(g) \/ StreamBreaks(g) \/ ClientTimeout(g)
  BY <1>6 DEF Goroutine, Lookup, AddDestViaRelay, connectNode, openStreamDirect, DialDirect,
     Recheck, NewStream, openStream, PeerAnswers, StreamBreaks, ClientTimeout
<1>7. CASE UNCHANGED vars
  BY <1>7 DEF vars
<1> QED
  BY <1>1, <1>2, <1>3, <1>4, <1>5, <1>6, <1>7 DEF Next
----------------------------------------------------------------------------
(* The directory *)

\* The command has the key that is in the file.
HoldsKey == id \in Id /\ keyFile = id

\* What a command knows at each of its steps.
StepInv ==
    /\ pc \in {"redeem", "login", "host"} => HoldsKey
    /\ pc = "keyWrite" => id \in Id /\ keyFile = "torn"
    /\ (pc \in {"open", "write"} /\ command # "init") =>
          /\ HoldsKey
          /\ secret \in Secret
          /\ records[id] \in {secret, NoSecret}

KeyInv == InstallTypeOK /\ StepInv /\ RecordedIdIsKept

JoinInv == KeyInv /\ JoinedGetsIn

\* It holds before the first command.
LEMMA KeyInitial == InstallInit => KeyInv
  BY InstallAssumption DEF InstallInit, KeyInv, InstallTypeOK, StepInv, RecordedIdIsKept,
     NoKey, NoConfig

\* The fresh element is one of the set it is taken from.
LEMMA FreshIn == ASSUME NEW S, S # {} PROVE Fresh(S) \in S
  BY DEF Fresh

\* Every step of a command keeps it.
LEMMA KeyStep == KeyInv /\ [InstallStep]_installVars => KeyInv'
<1> SUFFICES ASSUME KeyInv, [InstallStep]_installVars PROVE KeyInv'
  OBVIOUS
<1> USE InstallAssumption DEF KeyInv, InstallTypeOK, StepInv, HoldsKey, RecordedIdIsKept,
        NoKey, NoConfig, files, memory, history, Goto
<1>1. CASE initializeNewInstall
  BY <1>1 DEF initializeNewInstall, Run
<1>2. CASE runJoin
  BY <1>2 DEF runJoin, Run
<1>3. CASE main
  BY <1>3 DEF main, Run
<1>4. CASE CommandEnds
  BY <1>4 DEF CommandEnds
<1>5. CASE RemoveTorn
  BY <1>5 DEF RemoveTorn
<1>6. CASE LoadKey
  BY <1>6 DEF LoadKey, AfterKey
<1>7. CASE CreateKey
  <2>1. id' \in Id \ generated
    BY <1>7, FreshIn DEF CreateKey
  <2>2. records = [i \in Id |-> NoSecret]
    BY <1>7 DEF CreateKey
  <2> QED
    BY <1>7, <2>1, <2>2 DEF CreateKey
<1>8. CASE WriteKey
  BY <1>8 DEF WriteKey, AfterKey
<1>9. CASE RedeemInvite
  <2>1. secret' \in Secret \ issued
    BY <1>9, FreshIn DEF RedeemInvite
  <2> QED
    BY <1>9, <2>1 DEF RedeemInvite
<1>10. CASE OpenConfig
  BY <1>10 DEF OpenConfig
<1>11. CASE WriteConfig
  BY <1>11 DEF WriteConfig, defaultConfigYAML, configFromInvite
<1>12. CASE WriteConfigPart
  BY <1>12 DEF WriteConfigPart
<1>13. CASE MustLoadConfig
  BY <1>13 DEF MustLoadConfig, LoadConfig
<1>14. CASE Login
  BY <1>14 DEF Login
<1>15. CASE LoginAgain
  BY <1>15 DEF LoginAgain
<1>16. CASE adminDeleteNode
  BY <1>16 DEF adminDeleteNode
<1>17. CASE UNCHANGED installVars
  BY <1>17 DEF installVars
<1>18. CASE ProcessStep
  BY <1>18 DEF ProcessStep
<1> QED
  BY <1>1, <1>2, <1>3, <1>4, <1>5, <1>6, <1>7, <1>8, <1>9, <1>10, <1>11, <1>12, <1>13,
     <1>14, <1>15, <1>16, <1>17, <1>18 DEF InstallStep, InstallNext, Command

\* Every variable has its type, whichever commands run and wherever they end.
THEOREM InstallTypeCorrect == Spec => []InstallTypeOK
<1>1. KeyInv => InstallTypeOK
  BY DEF KeyInv
<1> QED
  BY <1>1, KeyInitial, KeyStep, NextInstall, PTL DEF Spec, Init

\* The admin server has no record of an id whose key is not on the node's disk
\* (app_join.go:92-105): what a command knows of its key holds at every step.
THEOREM RecordedIdCorrect == Spec => []RecordedIdIsKept
<1>1. KeyInv => RecordedIdIsKept
  BY DEF KeyInv
<1> QED
  BY <1>1, KeyInitial, KeyStep, NextInstall, PTL DEF Spec, Init

\* A step that finds a key in the file leaves it there.
LEMMA KeyKeptStep ==
    KeyInv /\ [InstallStep]_installVars
        => [(keyFile \in Id) => (keyFile' = keyFile)]_installVars
<1> SUFFICES ASSUME KeyInv, InstallStep, keyFile \in Id PROVE keyFile' = keyFile
  OBVIOUS
<1>1. keyFile \notin {"absent", "torn"}
  BY InstallAssumption DEF NoKey
<1> QED
  BY <1>1 DEF KeyInv, StepInv, InstallStep, InstallNext, ProcessStep, Command, initializeNewInstall, runJoin, main, Run,
     CommandEnds, RemoveTorn, LoadKey, CreateKey, WriteKey, RedeemInvite, OpenConfig,
     WriteConfig, WriteConfigPart, MustLoadConfig, Login, LoginAgain, adminDeleteNode, files

\* No command changes a key once it is written (helpers.go:80-99).
THEOREM KeyIsKeptCorrect == Spec => KeyIsKept
  BY KeyInitial, KeyStep, KeyKeptStep, NextInstall, PTL DEF Spec, Init, KeyIsKept

\* Every step keeps the promise to a node that has joined.
LEMMA JoinStep == JoinInv /\ [InstallStep]_installVars => JoinedGetsIn'
<1> SUFFICES ASSUME JoinInv, [InstallStep]_installVars PROVE JoinedGetsIn'
  OBVIOUS
<1> USE InstallAssumption DEF JoinInv, KeyInv, InstallTypeOK, StepInv, HoldsKey,
        JoinedGetsIn, NoKey, NoConfig, files, memory, history
<1>1. CASE initializeNewInstall \/ runJoin \/ main
  BY <1>1 DEF initializeNewInstall, runJoin, main, Run
<1>2. CASE CommandEnds \/ RemoveTorn \/ LoadKey
  BY <1>2 DEF CommandEnds, RemoveTorn, LoadKey
<1>3. CASE CreateKey \/ WriteKey
  BY <1>3 DEF CreateKey, WriteKey
<1>4. CASE RedeemInvite
  BY <1>4 DEF RedeemInvite
<1>5. CASE OpenConfig \/ WriteConfigPart
  BY <1>5 DEF OpenConfig, WriteConfigPart
<1>6. CASE WriteConfig
  BY <1>6 DEF WriteConfig, defaultConfigYAML, configFromInvite
<1>7. CASE MustLoadConfig \/ Login \/ LoginAgain
  BY <1>7 DEF MustLoadConfig, Login, LoginAgain
<1>8. CASE adminDeleteNode
  BY <1>8 DEF adminDeleteNode
<1>9. CASE UNCHANGED installVars
  BY <1>9 DEF installVars
<1>10. CASE ProcessStep
  BY <1>10 DEF ProcessStep
<1> QED
  BY <1>1, <1>2, <1>3, <1>4, <1>5, <1>6, <1>7, <1>8, <1>9, <1>10 DEF InstallStep, InstallNext, Command

\* A node that has joined gets in at every later start (service.go:393), unless
\* it was deleted or its last redemption was cut off.
THEOREM JoinedCorrect == Spec => []JoinedGetsIn
<1>1. InstallInit => JoinInv
  BY KeyInitial, InstallAssumption DEF InstallInit, JoinInv, JoinedGetsIn, NoConfig
<1>2. JoinInv /\ [InstallStep]_installVars => JoinInv'
  BY KeyStep, JoinStep DEF JoinInv
<1>3. JoinInv => JoinedGetsIn
  BY DEF JoinInv
<1> QED
  BY <1>1, <1>2, <1>3, NextInstall, PTL DEF Spec, Init
----------------------------------------------------------------------------
(* Reaching a peer *)

\* What a goroutine does before and between the calls to peers.
Local == {"idle", "body", "provider", "admin"}

CallType ==
    [at : Local \cup {"lookup", "addDest", "insert", "check", "dial",
                      "recheck", "stream?", "circuit", "stream"},
     peer : Peer \cup {""}, on : {"none", "direct", "limited", "lost"},
     client : BOOLEAN, longLived : BOOLEAN, todo : SUBSET Peer]

\* A call that is under way is to a peer and for a long-lived stream; from
\* connectNode's insertion on the peer has an address; and no relayed connection
\* is used.
Reached(c, known) ==
    /\ c.at \notin Local => c.peer \in Peer /\ c.longLived
    /\ c.at \notin Local \cup {"lookup", "addDest"} => c.peer \in known
    /\ c.on # "limited"

TransportType ==
    /\ peerstore \in SUBSET Peer
    /\ conns \in [Peer -> SUBSET {"direct", "limited"}]
    /\ call \in [Caller -> CallType]

ReachInv ==
    /\ TransportType
    /\ peers \subseteq peerstore
    /\ \A g \in Caller : Reached(call[g], peerstore)

\* One goroutine's call changes, and known peers stay known.
LEMMA OneCall ==
    ASSUME TransportType, \A f \in Caller : Reached(call[f], peerstore),
           NEW g \in Caller, NEW c \in CallType,
           call' = [call EXCEPT ![g] = c],
           peerstore \subseteq peerstore', Reached(c, peerstore')
    PROVE  /\ call' \in [Caller -> CallType]
           /\ \A f \in Caller : Reached(call'[f], peerstore')
  BY DEF TransportType, Reached

\* Calls change only where they are, and from where an address is known.
LEMMA StepCall ==
    ASSUME NEW c \in CallType, NEW known \in SUBSET Peer, Reached(c, known),
           c.at \notin Local \cup {"lookup", "addDest"},
           NEW at \in {"check", "dial", "recheck", "stream?", "circuit", "stream"},
           NEW on \in {"none", "direct", "lost"}
    PROVE  /\ [c EXCEPT !.at = at] \in CallType /\ Reached([c EXCEPT !.at = at], known)
           /\ [c EXCEPT !.at = at, !.on = on] \in CallType
           /\ Reached([c EXCEPT !.at = at, !.on = on], known)
<1> USE DEF CallType, Reached, Local
<1>1. [c EXCEPT !.at = at] \in CallType /\ Reached([c EXCEPT !.at = at], known)
  OBVIOUS
<1>2. [c EXCEPT !.at = at, !.on = on] \in CallType
  OBVIOUS
<1>3. Reached([c EXCEPT !.at = at, !.on = on], known)
  OBVIOUS
<1> QED
  BY <1>1, <1>2, <1>3

\* A goroutine without a call has its type and needs no address.
LEMMA NoCallReached ==
    /\ NoCall \in CallType
    /\ \A known : Reached(NoCall, known)
  BY DEF NoCall, CallType, Reached, Local

\* So has one that sets out to reach a peer.
LEMMA ReachReached ==
    ASSUME ReachInv, NEW g \in Caller, NEW p \in Peer, NEW client \in BOOLEAN,
           NEW todo \in SUBSET Peer, Reach(g, p, client, todo),
           UNCHANGED <<peerstore, peers>>, conns' \in [Peer -> SUBSET {"direct", "limited"}]
    PROVE  ReachInv'
<1> DEFINE c == [at |-> "lookup", peer |-> p, on |-> "none",
                 client |-> client, longLived |-> TRUE, todo |-> todo]
<1>1. c \in CallType /\ Reached(c, peerstore)
  BY DEF CallType, Reached, Local
<1>2. call' = [call EXCEPT ![g] = c]
  BY DEF Reach
<1> HIDE DEF c
<1> QED
  BY <1>1, <1>2, OneCall DEF ReachInv, TransportType

\* And one in the loop over the members.
LEMMA MembersReached ==
    ASSUME ReachInv, NEW g \in Caller, NEW left \in SUBSET Peer, meshMembers(g, left),
           UNCHANGED <<peerstore, peers>>, conns' \in [Peer -> SUBSET {"direct", "limited"}]
    PROVE  ReachInv'
<1>1. CASE call' = [call EXCEPT ![g] = NoCall]
  BY <1>1, NoCallReached, OneCall DEF ReachInv, TransportType
<1>2. ASSUME NEW p \in left, Reach(g, p, TRUE, left \ {p}) PROVE ReachInv'
  <2>1. p \in Peer /\ left \ {p} \in SUBSET Peer /\ TRUE \in BOOLEAN
    OBVIOUS
  <2> QED
    BY <1>2, <2>1, ReachReached
<1> QED
  BY <1>1, <1>2 DEF meshMembers

\* The end of an attempt keeps the invariant.
LEMMA FailReached ==
    ASSUME ReachInv, NEW g \in Caller, Fail(g), UNCHANGED <<peerstore, peers>>,
           call[g].at \notin Local \cup {"lookup", "addDest"},
           conns' \in [Peer -> SUBSET {"direct", "limited"}]
    PROVE  ReachInv'
<1>1. call[g] \in CallType /\ Reached(call[g], peerstore)
  BY DEF ReachInv, TransportType
<1>2. CASE End(g)
  <2>1. call[g].todo \in SUBSET Peer
    BY <1>1 DEF CallType
  <2> QED
    BY <1>2, <2>1, MembersReached DEF End
<1>3. CASE call' = [call EXCEPT ![g].at = "check", ![g].on = "none"]
  <2> DEFINE c == [call[g] EXCEPT !.at = "check", !.on = "none"]
  <2>1. c \in CallType /\ Reached(c, peerstore)
    BY <1>1, StepCall DEF ReachInv, TransportType
  <2>2. call' = [call EXCEPT ![g] = c]
    BY <1>3 DEF ReachInv, TransportType
  <2> HIDE DEF c
  <2> QED
    BY <2>1, <2>2, OneCall DEF ReachInv, TransportType
<1> QED
  BY <1>2, <1>3 DEF Fail

\* A step of one goroutine that only moves its call on.
LEMMA MoveReached ==
    ASSUME ReachInv, NEW g \in Caller, UNCHANGED <<peerstore, peers>>,
           call[g].at \notin Local \cup {"lookup", "addDest"},
           NEW at \in {"check", "dial", "recheck", "stream?", "circuit", "stream"},
           Step(g, at), conns' \in [Peer -> SUBSET {"direct", "limited"}]
    PROVE  ReachInv'
<1> DEFINE c == [call[g] EXCEPT !.at = at]
<1>1. call[g] \in CallType /\ Reached(call[g], peerstore)
  BY DEF ReachInv, TransportType
<1>2. c \in CallType /\ Reached(c, peerstore)
  BY <1>1, StepCall DEF ReachInv, TransportType
<1>3. call' = [call EXCEPT ![g] = c]
  BY DEF Step
<1> QED
  BY <1>2, <1>3, OneCall DEF ReachInv, TransportType

\* Every step keeps it.
LEMMA ReachStep == ReachInv /\ [Next]_vars => ReachInv'
<1> SUFFICES ASSUME ReachInv, [Next]_vars PROVE ReachInv'
  OBVIOUS
<1>1. ASSUME Gone PROVE ReachInv'
  BY <1>1, NoCallReached DEF Gone, ReachInv, TransportType, NoCalls, NoConns
<1>2. ASSUME UNCHANGED transport PROVE ReachInv'
  BY <1>2 DEF transport, ReachInv, TransportType
<1>3. CASE CommandStep \/ AdminStep
  BY <1>1, <1>2, <1>3 DEF CommandStep, AdminStep
<1>4. CASE NewProxy \/ AddressChanges \/ Interrupt \/ Serve \/ Shutdown \/ ShutdownDone
  BY <1>1, <1>2, <1>4 DEF NewProxy, AddressChanges, Interrupt, Serve, Shutdown, ShutdownDone
<1>5. ASSUME UNCHANGED conns PROVE conns' \in [Peer -> SUBSET {"direct", "limited"}]
  BY <1>5 DEF ReachInv, TransportType
<1>6. ASSUME NEW h \in Handler, RequestStep(h) PROVE ReachInv'
  <2>1. h \in Caller /\ call[h] \in CallType /\ Reached(call[h], peerstore)
    BY DEF Caller, ReachInv, TransportType
  <2>2. UNCHANGED <<peerstore, peers, conns>>
    BY <1>6 DEF RequestStep, Accept, proxyModelRequest, AskAdmin, ProviderAnswers, AdminAnswers
  <2>3. ASSUME NEW at \in Local, Step(h, at) PROVE ReachInv'
    <3> DEFINE c == [call[h] EXCEPT !.at = at]
    <3>1. c \in CallType /\ Reached(c, peerstore)
      BY <2>1, <2>3 DEF CallType, Reached
    <3>2. call' = [call EXCEPT ![h] = c]
      BY <2>3 DEF Step
    <3> HIDE DEF c
    <3> QED
      BY <2>1, <2>2, <3>1, <3>2, OneCall DEF ReachInv, TransportType
  <2>4. CASE Accept(h) \/ AskAdmin(h) \/ ProviderAnswers(h)
    BY <2>3, <2>4 DEF Accept, AskAdmin, ProviderAnswers, Local
  <2>5. CASE proxyModelRequest(h)
    <3>1. CASE Step(h, "idle") \/ Step(h, "provider")
      BY <2>3, <3>1 DEF Local
    <3>2. ASSUME NEW p \in Peer, ProxyToNode(h, p) PROVE ReachInv'
      <4>1. Reach(h, p, FALSE, {}) /\ {} \in SUBSET Peer
        BY <3>2 DEF ProxyToNode
      <4> QED
        BY <1>5, <2>1, <2>2, <4>1, ReachReached
    <3> QED
      BY <2>5, <3>1, <3>2 DEF proxyModelRequest
  <2>6. CASE AdminAnswers(h)
    BY <1>5, <2>1, <2>2, <2>6, MembersReached DEF AdminAnswers
  <2> QED
    BY <1>6, <2>4, <2>5, <2>6 DEF RequestStep
<1>7. ASSUME NEW p \in Peer, OnPeerUpdate(p) PROVE ReachInv'
  <2>1. Reach(Discovery, p, TRUE, {}) /\ {} \in SUBSET Peer /\ Discovery \in Caller
    BY <1>7 DEF OnPeerUpdate, Caller
  <2>2. UNCHANGED <<peerstore, peers, conns>>
    BY <1>7 DEF OnPeerUpdate
  <2> QED
    BY <1>5, <2>1, <2>2, ReachReached
<1>8. CASE \E p \in Peer : ConnsChange(p)
  <2>1. PICK p \in Peer, k \in SUBSET {"direct", "limited"} :
          /\ conns' = [conns EXCEPT ![p] = k]
          /\ call' = [g \in Caller |->
                IF call[g].peer = p /\ call[g].on \in conns[p] \ k
                THEN [call[g] EXCEPT !.on = "lost"] ELSE call[g]]
    BY <1>8 DEF ConnsChange
  <2>2. \A g \in Caller : call'[g] \in CallType /\ Reached(call'[g], peerstore)
    <3> SUFFICES ASSUME NEW g \in Caller
                 PROVE  call'[g] \in CallType /\ Reached(call'[g], peerstore)
      OBVIOUS
    <3>1. call[g] \in CallType /\ Reached(call[g], peerstore)
      BY DEF ReachInv, TransportType
    <3>2. /\ [call[g] EXCEPT !.on = "lost"] \in CallType
          /\ Reached([call[g] EXCEPT !.on = "lost"], peerstore)
      BY <3>1 DEF CallType, Reached, Local
    <3> QED
      BY <2>1, <3>1, <3>2
  <2> QED
    BY <1>8, <2>1, <2>2 DEF ConnsChange, ReachInv, TransportType
<1>9. ASSUME NEW g \in Caller, Goroutine(g) PROVE ReachInv'
  <2>0. call[g] \in CallType /\ Reached(call[g], peerstore)
    BY DEF ReachInv, TransportType
  <2>1. CASE Lookup(g)
    <3> DEFINE c == [call[g] EXCEPT !.at = IF call[g].peer \in peers THEN "check" ELSE "addDest"]
    <3>1. c \in CallType /\ Reached(c, peerstore)
      BY <2>0, <2>1 DEF Lookup, At, CallType, Reached, ReachInv, Local
    <3>2. call' = [call EXCEPT ![g] = c]
      BY <2>1 DEF Lookup, Step
    <3> QED
      BY <2>1, <3>1, <3>2, OneCall DEF Lookup, ReachInv, TransportType
  <2>2. CASE AddDestViaRelay(g)
    <3> DEFINE c == [call[g] EXCEPT !.at = "insert"]
    <3>1. call[g].peer \in Peer /\ peerstore' = peerstore \cup {call[g].peer}
      BY <2>0, <2>2 DEF AddDestViaRelay, At, Reached, Local
    <3>2. c \in CallType /\ Reached(c, peerstore')
      BY <2>0, <2>2, <3>1 DEF AddDestViaRelay, At, CallType, Reached, Local
    <3>3. call' = [call EXCEPT ![g] = c]
      BY <2>2 DEF AddDestViaRelay, Step
    <3> QED
      BY <2>2, <3>1, <3>2, <3>3, OneCall DEF AddDestViaRelay, ReachInv, TransportType
  <2>3. CASE connectNode(g)
    <3> DEFINE c == [call[g] EXCEPT !.at = "check"]
    <3>1. c \in CallType /\ Reached(c, peerstore) /\ call[g].peer \in peerstore
      BY <2>0, <2>3 DEF connectNode, At, CallType, Reached, Local
    <3>2. call' = [call EXCEPT ![g] = c]
      BY <2>3 DEF connectNode, Step
    <3> QED
      BY <2>3, <3>1, <3>2, OneCall DEF connectNode, ReachInv, TransportType
  <2>4. CASE openStreamDirect(g) \/ Recheck(g)
    BY <2>4, MoveReached DEF openStreamDirect, Recheck, At, Local, ReachInv, TransportType
  <2>5. CASE DialDirect(g)
    <3>1. call[g].peer \in Peer
      BY <2>0, <2>5 DEF DialDirect, At, Reached, Local
    <3> QED
      BY <2>5, <3>1, MoveReached DEF DialDirect, At, Local, ReachInv, TransportType
  <2>6. CASE NewStream(g)
    <3>1. CASE Step(g, "circuit")
      BY <2>6, <3>1, MoveReached DEF NewStream, At, Local, ReachInv, TransportType
    <3>2. CASE call' = [call EXCEPT ![g].at = "stream", ![g].on = "direct"]
      <4> DEFINE c == [call[g] EXCEPT !.at = "stream", !.on = "direct"]
      <4>1. c \in CallType /\ Reached(c, peerstore)
        BY <2>0, <2>6, StepCall DEF NewStream, At, Local, ReachInv, TransportType
      <4>2. call' = [call EXCEPT ![g] = c]
        BY <3>2 DEF ReachInv, TransportType
      <4> HIDE DEF c
      <4> QED
        BY <2>6, <4>1, <4>2, OneCall DEF NewStream, ReachInv, TransportType
    <3> QED
      BY <2>6, <3>1, <3>2 DEF NewStream, StreamOn
  <2>7. CASE openStream(g)
    <3>1. call[g].peer \in Peer /\ call[g].longLived
      BY <2>0, <2>7 DEF openStream, At, Reached, Local
    <3> QED
      BY <2>7, <3>1, FailReached DEF openStream, At, Local, ReachInv, TransportType
  <2> QED
    BY <1>9, <2>1, <2>2, <2>3, <2>4, <2>5, <2>6, <2>7 DEF Goroutine
<1>10. ASSUME NEW g \in Caller, PeerAnswers(g) PROVE ReachInv'
  <2>1. call[g].todo \in SUBSET Peer
    BY DEF ReachInv, TransportType, CallType
  <2> QED
    BY <1>5, <1>10, <2>1, MembersReached DEF PeerAnswers, End
<1>11. ASSUME NEW g \in Caller, StreamBreaks(g) PROVE ReachInv'
  BY <1>11, FailReached DEF StreamBreaks, At, Local, ReachInv, TransportType
<1>12. ASSUME NEW g \in Caller, ClientTimeout(g) PROVE ReachInv'
  BY <1>12, FailReached DEF ClientTimeout, Local, ReachInv, TransportType
<1>13. CASE UNCHANGED vars
  BY <1>2, <1>13 DEF vars
<1> QED
  BY <1>3, <1>4, <1>6, <1>7, <1>8, <1>9, <1>10, <1>11, <1>12, <1>13 DEF Next

\* So it holds throughout.
LEMMA ReachHolds == Spec => []ReachInv
<1>1. Init => ReachInv
  BY NoCallReached DEF Init, ReachInv, TransportType, NoCalls, NoConns
<1> QED
  BY <1>1, ReachStep, PTL DEF Spec

\* An attempt that fails is counted, and the fourth is the last.
LEMMA FailCounts ==
    ASSUME attempt \in 0..Attempts, NEW g, Fail(g) \/ End(g)
    PROVE  attempt' \in 0..Attempts
  BY DEF Fail, End, Attempts

\* The process's own variables and the count of attempts have their types.
ServiceType ==
    /\ private \in BOOLEAN /\ address \in BOOLEAN /\ cancelled \in BOOLEAN
    /\ listening \in BOOLEAN /\ discovering \in BOOLEAN

CountType == attempt \in 0..Attempts

\* Every step keeps the types of the process's own variables.
LEMMA ServiceStep == ServiceType /\ [Next]_vars => ServiceType'
<1> SUFFICES ASSUME ServiceType, [Next]_vars PROVE ServiceType'
  OBVIOUS
<1> USE DEF ServiceType
<1>1. CASE CommandStep \/ AdminStep \/ ShutdownDone
  BY <1>1 DEF CommandStep, AdminStep, ShutdownDone, Gone, service
<1>2. CASE NewProxy \/ AddressChanges \/ Interrupt \/ Serve \/ Shutdown
  BY <1>2 DEF NewProxy, AddressChanges, Interrupt, Serve, Shutdown
<1>3. CASE UNCHANGED service
  BY <1>3 DEF service
<1> QED
  BY <1>1, <1>2, <1>3
     DEF Next, RequestStep, Accept, proxyModelRequest, AskAdmin, ProviderAnswers, AdminAnswers,
         OnPeerUpdate, ConnsChange, Goroutine, Lookup, AddDestViaRelay,
         connectNode, openStreamDirect, DialDirect, Recheck, NewStream, openStream,
         PeerAnswers, StreamBreaks, ClientTimeout, vars

\* Every step keeps the count of attempts within its bound.
LEMMA CountStep == CountType /\ [Next]_vars => CountType'
<1> SUFFICES ASSUME CountType, [Next]_vars PROVE CountType'
  OBVIOUS
<1> USE DEF CountType
<1>1. CASE UNCHANGED attempt
  BY <1>1
<1>2. CASE Gone
  BY <1>2 DEF Gone, Attempts
<1>3. CASE \E p \in Peer : OnPeerUpdate(p)
  BY <1>3 DEF OnPeerUpdate, Attempts
<1>4. CASE \E g \in Caller : PeerAnswers(g)
  BY <1>4, FailCounts DEF PeerAnswers
<1>5. CASE \E g \in Caller : Fail(g)
  BY <1>5, FailCounts
<1>6. CASE CommandStep \/ AdminStep \/ NewProxy \/ AddressChanges \/ Interrupt \/ Serve
           \/ Shutdown \/ ShutdownDone \/ UNCHANGED vars
  BY <1>1, <1>2, <1>6 DEF CommandStep, AdminStep, NewProxy, AddressChanges, Interrupt, Serve,
     Shutdown, ShutdownDone, transport, vars
<1>7. CASE \E g \in Caller : Goroutine(g) \/ StreamBreaks(g) \/ ClientTimeout(g)
  BY <1>1, <1>5, <1>7 DEF Goroutine, Lookup, AddDestViaRelay, connectNode, openStreamDirect,
     DialDirect, Recheck, NewStream, openStream, StreamBreaks, ClientTimeout
<1>8. CASE \E h \in Handler : RequestStep(h)
  BY <1>1, <1>8 DEF RequestStep, Accept, proxyModelRequest, AskAdmin, ProviderAnswers,
     AdminAnswers
<1>9. CASE \E p \in Peer : ConnsChange(p)
  BY <1>1, <1>9 DEF ConnsChange
<1> QED
  BY <1>3, <1>4, <1>6, <1>7, <1>8, <1>9 DEF Next

\* Every variable of the node has its type, and a fetch of a peer's models makes
\* at most four attempts, however timeouts and broken streams fall together
\* (proxy.go:158-175).
THEOREM NodeTypeCorrect == Spec => []TypeOK
<1>1. Init => ServiceType
  BY DEF Init, ServiceType
<1>2. Init => CountType
  BY DEF Init, CountType, Attempts
<1>3. KeyInv /\ ReachInv /\ ServiceType /\ CountType => TypeOK
  BY DEF KeyInv, ReachInv, TransportType, CallType, Local, ServiceType, CountType, TypeOK
<1> QED
  BY <1>1, <1>2, <1>3, ReachHolds, ServiceStep, CountStep, KeyInitial, KeyStep, NextInstall, PTL
     DEF Spec, Init

\* No stream that is asked for as long-lived is opened on a relayed connection
\* (service.go:112-158), for any number of goroutines and peers: that openStream
\* has a branch that does it changes nothing.
THEOREM StreamsCorrect == Spec => []StreamsAreDirect
<1>1. ReachInv => StreamsAreDirect
  BY DEF ReachInv, Reached, StreamsAreDirect
<1> QED
  BY <1>1, ReachHolds, PTL

\* A peer that is found in the unlocked map can be dialled (service.go:62-73):
\* AddDestViaRelay comes before the entry in every goroutine.
THEOREM KnownCorrect == Spec => []KnownHasAddress
<1>1. ReachInv => KnownHasAddress
  BY DEF ReachInv, Reached, KnownHasAddress, At, Local
<1> QED
  BY <1>1, ReachHolds, PTL
----------------------------------------------------------------------------
(* How a call ends *)

\* How many steps a call has left at most, when no attempt is started again.
PlaceOf(at) ==
    CASE at \in Local -> 0 [] at = "stream" -> 1 [] at = "circuit" -> 2 [] at = "stream?" -> 3
      [] at = "recheck" -> 4 [] at = "dial" -> 5 [] at = "check" -> 6 [] at = "insert" -> 7
      [] at = "addDest" -> 8 [] at = "lookup" -> 9

\* The same, with the attempts that are left to the discovery loop.
ToGo(g) == PlaceOf(call[g].at) + (IF g = Discovery THEN 10 * (Attempts - attempt) ELSE 0)

\* The goroutine is on its way to a peer.
Calling(g) == call[g].at \notin Local

\* The steps of the goroutine itself, what it is answered and its timeout.
OwnStep(g) == Goroutine(g) \/ PeerAnswers(g) \/ StreamBreaks(g) \/ ClientTimeout(g)

\* The loop over the members has fewer of them left.
FewerLeft(g) == call'[g].todo \subseteq call[g].todo /\ call'[g].todo # call[g].todo

\* The places by name.
LEMMA Places ==
    /\ PlaceOf("stream") = 1 /\ PlaceOf("circuit") = 2
    /\ PlaceOf("stream?") = 3 /\ PlaceOf("recheck") = 4 /\ PlaceOf("dial") = 5
    /\ PlaceOf("check") = 6 /\ PlaceOf("insert") = 7 /\ PlaceOf("addDest") = 8
    /\ PlaceOf("lookup") = 9
    /\ \A at \in Local : PlaceOf(at) = 0
  BY DEF PlaceOf, Local

\* A call under way has at least one step left.
LEMMA PlaceOfBusy ==
    ASSUME NEW c \in CallType
    PROVE  PlaceOf(c.at) \in 0..9 /\ (c.at \notin Local => 1 <= PlaceOf(c.at))
<1>1. c.at \in Local \cup {"lookup", "addDest", "insert", "check", "dial",
                           "recheck", "stream?", "circuit", "stream"}
  BY DEF CallType
<1> QED
  BY <1>1, Places

\* A call that moves on without a new attempt gets nearer to its end.
LEMMA MoveAdvances ==
    ASSUME ReachInv, CountType, NEW g \in Caller, NEW at, Step(g, at), UNCHANGED attempt,
           PlaceOf(at) \in 0..9, PlaceOf(at) < PlaceOf(call[g].at)
    PROVE  call'[g].todo = call[g].todo /\ ToGo(g)' < ToGo(g)
<1>1. call[g] \in CallType /\ call'[g].at = at /\ call'[g].todo = call[g].todo
  BY DEF Step, ReachInv, TransportType, CallType
<1>2. PlaceOf(call[g].at) \in 0..9 /\ attempt \in 0..4
  BY <1>1, PlaceOfBusy DEF CountType, Attempts
<1> QED
  BY <1>1, <1>2 DEF ToGo, Attempts

\* The end of a call is that of the request, or the next of the peers that are
\* left.
LEMMA EndAdvances ==
    ASSUME ReachInv, NEW g \in Caller, End(g), call'[g].at # "idle"
    PROVE  FewerLeft(g)
<1>1. call[g] \in CallType /\ call \in [Caller -> CallType] /\ NoCall.at = "idle"
  BY DEF ReachInv, TransportType, NoCall
<1>2. call' # [call EXCEPT ![g] = NoCall]
  BY <1>1
<1>3. PICK p \in call[g].todo : Reach(g, p, TRUE, call[g].todo \ {p})
  BY <1>2 DEF End, meshMembers
<1>4. call'[g].todo = call[g].todo \ {p}
  BY <1>1, <1>3 DEF Reach
<1> QED
  BY <1>4 DEF FewerLeft

\* A failed attempt ends the call, or uses up one of the attempts.
LEMMA FailAdvances ==
    ASSUME ReachInv, CountType, NEW g \in Caller, Calling(g), Fail(g), call'[g].at # "idle"
    PROVE  FewerLeft(g) \/ (call'[g].todo = call[g].todo /\ ToGo(g)' < ToGo(g))
<1>1. call[g] \in CallType /\ call \in [Caller -> CallType]
  BY DEF ReachInv, TransportType
<1>2. CASE End(g)
  BY <1>2, EndAdvances
<1>3. CASE ~End(g)
  <2>1. /\ g = Discovery /\ attempt < Attempts /\ attempt' = attempt + 1
        /\ call' = [call EXCEPT ![g].at = "check", ![g].on = "none"]
    BY <1>3 DEF Fail
  <2>2. call'[g].at = "check" /\ call'[g].todo = call[g].todo
    BY <1>1, <2>1 DEF CallType
  <2>3. PlaceOf(call[g].at) \in 0..9 /\ 1 <= PlaceOf(call[g].at) /\ attempt \in 0..4
    BY <1>1, PlaceOfBusy DEF Calling, CountType, Attempts
  <2>4. ToGo(g) = PlaceOf(call[g].at) + 10 * (4 - attempt)
    BY <2>1 DEF ToGo, Attempts
  <2>5. ToGo(g)' = 6 + 10 * (4 - (attempt + 1))
    BY <2>1, <2>2, Places DEF ToGo, Attempts
  <2> QED
    BY <2>2, <2>3, <2>4, <2>5
<1> QED
  BY <1>2, <1>3

\* So does every step of its own.
LEMMA OwnAdvances ==
    ASSUME ReachInv, CountType, NEW g \in Caller, Calling(g), OwnStep(g), call'[g].at # "idle"
    PROVE  FewerLeft(g) \/ (call'[g].todo = call[g].todo /\ ToGo(g)' < ToGo(g))
<1>1. CASE Lookup(g) \/ AddDestViaRelay(g) \/ connectNode(g)
  <2>1. CASE Lookup(g)
    <3>1. At(g, "lookup") /\ UNCHANGED attempt /\ (Step(g, "check") \/ Step(g, "addDest"))
      BY <2>1 DEF Lookup
    <3> QED
      BY <3>1, MoveAdvances, Places DEF At
  <2>2. CASE AddDestViaRelay(g)
    BY <2>2, MoveAdvances, Places DEF AddDestViaRelay, At
  <2>3. CASE connectNode(g)
    BY <2>3, MoveAdvances, Places DEF connectNode, At
  <2> QED
    BY <1>1, <2>1, <2>2, <2>3
<1>2. CASE openStreamDirect(g)
  <2>1. At(g, "check") /\ UNCHANGED attempt /\ (Step(g, "stream?") \/ Step(g, "dial"))
    BY <1>2 DEF openStreamDirect
  <2> QED
    BY <2>1, MoveAdvances, Places DEF At
<1>3. CASE DialDirect(g)
  <2>1. At(g, "dial") /\ UNCHANGED attempt /\ (Step(g, "recheck") \/ Step(g, "circuit"))
    BY <1>3 DEF DialDirect
  <2> QED
    BY <2>1, MoveAdvances, Places DEF At
<1>4. CASE Recheck(g)
  <2>1. At(g, "recheck") /\ UNCHANGED attempt /\ (Step(g, "stream?") \/ Step(g, "circuit"))
    BY <1>4 DEF Recheck
  <2> QED
    BY <2>1, MoveAdvances, Places DEF At
<1>5. CASE NewStream(g)
  <2>1. call[g] \in CallType /\ call \in [Caller -> CallType]
    BY DEF ReachInv, TransportType
  <2>2. CASE Step(g, "circuit")
    <3>1. At(g, "stream?") /\ UNCHANGED attempt
      BY <1>5 DEF NewStream
    <3> QED
      BY <2>2, <3>1, MoveAdvances, Places DEF At
  <2>3. CASE call' = [call EXCEPT ![g].at = "stream", ![g].on = "direct"]
    <3>1. /\ call'[g].at = "stream" /\ call[g].at = "stream?" /\ attempt' = attempt
          /\ call'[g].todo = call[g].todo
      BY <1>5, <2>1, <2>3 DEF NewStream, At, CallType
    <3>2. attempt \in 0..4
      BY DEF CountType, Attempts
    <3> QED
      BY <3>1, <3>2, Places DEF ToGo, Attempts
  <2> QED
    BY <1>5, <2>2, <2>3 DEF NewStream, StreamOn
<1>6. CASE openStream(g) \/ StreamBreaks(g) \/ ClientTimeout(g)
  <2>1. openStream(g) => call[g].longLived
    BY DEF openStream, At, Local, ReachInv, Reached
  <2> QED
    BY <1>6, <2>1, FailAdvances DEF openStream, StreamBreaks, ClientTimeout
<1>7. CASE PeerAnswers(g)
  BY <1>7, EndAdvances DEF PeerAnswers
<1> QED
  BY <1>1, <1>2, <1>3, <1>4, <1>5, <1>6, <1>7 DEF OwnStep, Goroutine

\* What one goroutine does leaves the calls of the others alone, and only the
\* discovery loop counts its attempts.
LEMMA OthersKeep ==
    ASSUME ReachInv, NEW g \in Caller, NEW f \in Caller, f # g, OwnStep(f)
    PROVE  call'[g] = call[g] /\ (g = Discovery => attempt' = attempt)
<1>1. call \in [Caller -> CallType]
  BY DEF ReachInv, TransportType
<1>2. ASSUME Fail(f) \/ End(f)
      PROVE  call'[g] = call[g] /\ (g = Discovery => attempt' = attempt)
  BY <1>1, <1>2 DEF Fail, End, meshMembers, Reach
<1>3. CASE Goroutine(f) /\ ~openStream(f)
  <2>1. attempt' = attempt
    BY <1>3 DEF Goroutine, Lookup, AddDestViaRelay, connectNode, openStreamDirect, DialDirect,
       Recheck, NewStream
  <2>2. \/ \E at : Step(f, at)
        \/ \E c : call' = [call EXCEPT ![f].at = "stream", ![f].on = c]
    BY <1>3 DEF Goroutine, Lookup, AddDestViaRelay, connectNode, openStreamDirect, DialDirect,
       Recheck, NewStream, StreamOn
  <2> QED
    BY <1>1, <2>1, <2>2 DEF Step
<1>4. CASE openStream(f) \/ StreamBreaks(f) \/ ClientTimeout(f) \/ PeerAnswers(f)
  <2>1. openStream(f) => call[f].longLived
    BY DEF openStream, At, Local, ReachInv, Reached
  <2> QED
    BY <1>2, <1>4, <2>1 DEF openStream, StreamBreaks, ClientTimeout, PeerAnswers
<1> QED
  BY <1>3, <1>4 DEF OwnStep

\* What a handler does with its request is no step of a call, and of no other
\* goroutine.
LEMMA RequestKeeps ==
    ASSUME ReachInv, NEW g \in Caller, Calling(g), NEW h \in Handler, RequestStep(h)
    PROVE  call'[g] = call[g] /\ attempt' = attempt
<1>1. call \in [Caller -> CallType] /\ h \in Caller
  BY DEF ReachInv, TransportType, Caller
<1>2. g # h
  BY DEF RequestStep, Accept, proxyModelRequest, AskAdmin, ProviderAnswers, AdminAnswers, At,
     Busy, Calling, Local
<1>3. attempt' = attempt
  BY DEF RequestStep, Accept, proxyModelRequest, AskAdmin, ProviderAnswers, AdminAnswers
<1>4. \/ \E at : Step(h, at)
      \/ \E p, client, todo : Reach(h, p, client, todo)
      \/ call' = [call EXCEPT ![h] = NoCall]
  BY DEF RequestStep, Accept, proxyModelRequest, AskAdmin, ProviderAnswers, AdminAnswers,
     ProxyToNode, meshMembers
<1> QED
  BY <1>1, <1>2, <1>3, <1>4 DEF Step, Reach

\* The call of g does not go back: the loop over the members has fewer of them
\* left, or the call no more steps, and fewer after a step of its own.
Advances(g) ==
    \/ FewerLeft(g)
    \/ /\ call'[g].todo = call[g].todo
       /\ ToGo(g)' <= ToGo(g)
       /\ OwnStep(g) => ToGo(g)' < ToGo(g)

\* A call under way is nearer to its end after each step of its own, and no
\* step of another goroutine, of libp2p or of the process sets it back, unless
\* it ends it.  So a forwarded request has at most nine such steps to the answer,
\* a fetch of a peer's models, with its four attempts, at most thirty-nine, and
\* a request for the members at most nine for each of them (service.go:112-158,
\* proxy.go:158-175, handlers_mesh.go:39-62).  This is the safety part of
\* CallsEnd; that the steps are taken is left to model checking.
THEOREM CallAdvances ==
    Spec => [][\A g \in Caller : (Calling(g) /\ Busy(g)') => Advances(g)]_vars
<1>1. ReachInv /\ CountType /\ [Next]_vars =>
        [\A g \in Caller : (Calling(g) /\ Busy(g)') => Advances(g)]_vars
  <2> SUFFICES ASSUME ReachInv, CountType, Next, NEW g \in Caller, Calling(g), Busy(g)'
               PROVE  Advances(g)
    BY DEF vars
  <2>0. call[g] \in CallType /\ call \in [Caller -> CallType] /\ call'[g].at # "idle"
    BY DEF ReachInv, TransportType, Busy
  <2>1. ToGo(g) \in Int
    <3>1. PlaceOf(call[g].at) \in 0..9 /\ attempt \in 0..4
      BY <2>0, PlaceOfBusy DEF CountType, Attempts
    <3> QED
      BY <3>1 DEF ToGo, Attempts
  <2>2. CASE OwnStep(g)
    <3>1. FewerLeft(g) \/ (call'[g].todo = call[g].todo /\ ToGo(g)' < ToGo(g))
      BY <2>0, <2>2, OwnAdvances
    <3>2. ToGo(g)' \in Int
      <4>1. ReachInv' /\ CountType'
        BY ReachStep, CountStep
      <4>2. PlaceOf(call'[g].at) \in 0..9 /\ attempt' \in 0..4
        BY <4>1, PlaceOfBusy DEF ReachInv, TransportType, CountType, Attempts
      <4> QED
        BY <4>2 DEF ToGo, Attempts
    <3>3. ToGo(g)' < ToGo(g) => ToGo(g)' <= ToGo(g)
      BY <2>1, <3>2
    <3> QED
      BY <3>1, <3>3 DEF Advances
  <2>3. ASSUME ~OwnStep(g), call'[g].at = call[g].at, call'[g].todo = call[g].todo,
               g = Discovery => attempt' = attempt
        PROVE  Advances(g)
    <3>1. ToGo(g)' = ToGo(g)
      BY <2>3 DEF ToGo
    <3> QED
      BY <2>1, <2>3, <3>1 DEF Advances
  <2>4. CASE ~OwnStep(g) /\ \E f \in Caller : OwnStep(f)
    BY <2>3, <2>4, OthersKeep
  <2>5. ASSUME Gone PROVE FALSE
    <3>1. call'[g] = NoCall
      BY <2>5 DEF Gone, NoCalls
    <3>2. NoCall.at = "idle"
      BY DEF NoCall
    <3> QED
      BY <2>0, <3>1, <3>2
  <2>6. CASE ~OwnStep(g) /\ UNCHANGED transport
    BY <2>3, <2>6 DEF transport
  <2>7. CASE ~OwnStep(g) /\ \E h \in Handler : RequestStep(h)
    BY <2>3, <2>7, RequestKeeps
  <2>8. ASSUME NEW p \in Peer, OnPeerUpdate(p), ~OwnStep(g) PROVE Advances(g)
    <3>1. g # Discovery
      BY <2>8 DEF OnPeerUpdate, Busy, Calling, Local
    <3>2. call'[g] = call[g]
      BY <2>0, <2>8, <3>1 DEF OnPeerUpdate, Reach
    <3> QED
      BY <2>3, <2>8, <3>1, <3>2
  <2>9. ASSUME NEW p \in Peer, ConnsChange(p), ~OwnStep(g) PROVE Advances(g)
    <3>1. call'[g] = call[g] \/ call'[g] = [call[g] EXCEPT !.on = "lost"]
      BY <2>9 DEF ConnsChange
    <3>2. call'[g].at = call[g].at /\ call'[g].todo = call[g].todo
      BY <2>0, <3>1 DEF CallType
    <3> QED
      BY <2>3, <2>9, <3>2 DEF ConnsChange
  <2>10. CASE /\ ~OwnStep(g)
              /\ CommandStep \/ AdminStep \/ NewProxy \/ AddressChanges \/ Interrupt \/ Serve
                 \/ Shutdown \/ ShutdownDone
    BY <2>5, <2>6, <2>10 DEF CommandStep, AdminStep, NewProxy, AddressChanges, Interrupt, Serve,
       Shutdown, ShutdownDone
  <2> QED
    BY <2>2, <2>4, <2>7, <2>8, <2>9, <2>10 DEF Next, OwnStep
<1>2. Init => CountType
  BY DEF Init, CountType, Attempts
<1> QED
  BY <1>1, <1>2, ReachHolds, CountStep, PTL DEF Spec
----------------------------------------------------------------------------
(* How the process ends *)

\* What runs when: calls only once the process serves, shutting down only after
\* an interrupt.
LifeInv ==
    /\ listening => pc = "serving"
    /\ discovering => pc \in {"serving", "shutdown"}
    /\ cancelled => pc \in {"waiting", "serving", "shutdown"}
    /\ pc = "shutdown" => cancelled
    /\ \A h \in Handler : Busy(h) => pc \in {"serving", "shutdown"}
    /\ Busy(Discovery) => discovering

\* A command of Install is over before the process serves, or ends it.
LEMMA CommandsApart ==
    ASSUME Command
    PROVE  \/ pc' = "idle"
           \/ /\ pc \notin {"waiting", "serving", "shutdown"}
              /\ pc' \notin {"waiting", "serving", "shutdown"}
  BY DEF Command, initializeNewInstall, runJoin, main, Run, CommandEnds, RemoveTorn, memory,
     LoadKey, CreateKey, WriteKey, AfterKey, RedeemInvite, OpenConfig, WriteConfig,
     WriteConfigPart, MustLoadConfig, Login, LoginAgain, Goto

\* A call does not go back to the reading of a request.
LEMMA OwnNoBody ==
    ASSUME ReachInv, NEW g \in Caller, OwnStep(g)
    PROVE  ~At(g, "body")'
<1>1. call \in [Caller -> CallType] /\ NoCall.at = "idle"
  BY DEF ReachInv, TransportType, NoCall
<1>2. ASSUME NEW at, at # "body", Step(g, at) PROVE ~At(g, "body")'
  BY <1>1, <1>2 DEF Step, At, CallType
<1>3. ASSUME Fail(g) \/ End(g) PROVE ~At(g, "body")'
  <2>1. CASE call' = [call EXCEPT ![g] = NoCall]
    BY <1>1, <2>1 DEF At
  <2>2. CASE \E p \in call[g].todo : Reach(g, p, TRUE, call[g].todo \ {p})
    BY <1>1, <2>2 DEF Reach, At
  <2>3. CASE call' = [call EXCEPT ![g].at = "check", ![g].on = "none"]
    BY <1>1, <2>3 DEF At, CallType
  <2> QED
    BY <1>3, <2>1, <2>2, <2>3 DEF Fail, End, meshMembers
<1>4. ASSUME NEW c, call' = [call EXCEPT ![g].at = "stream", ![g].on = c] PROVE ~At(g, "body")'
  BY <1>1, <1>4 DEF At, CallType
<1>5. CASE Goroutine(g) /\ ~openStream(g)
  BY <1>2, <1>4, <1>5 DEF Goroutine, Lookup, AddDestViaRelay, connectNode, openStreamDirect,
     DialDirect, Recheck, NewStream, StreamOn
<1>6. CASE openStream(g) \/ StreamBreaks(g) \/ ClientTimeout(g) \/ PeerAnswers(g)
  BY <1>3, <1>4, <1>6 DEF openStream, StreamOn, StreamBreaks, ClientTimeout, PeerAnswers
<1> QED
  BY <1>5, <1>6 DEF OwnStep

\* Every step keeps the invariant, and once the context is done the process goes
\* one way.
LEMMA LifeStep ==
    ASSUME ReachInv, LifeInv, [Next]_vars
    PROVE  /\ LifeInv'
           /\ cancelled =>
                 /\ cancelled' \/ pc' = "idle"
                 /\ pc = "serving" => pc' \in {"serving", "shutdown", "idle"}
                 /\ pc = "shutdown" =>
                       /\ pc' \in {"shutdown", "idle"}
                       /\ \A h \in Handler : (Busy(h)' => Busy(h)) /\ (At(h, "body")' => At(h, "body"))
<1> DEFINE OneWay ==
             cancelled =>
                /\ cancelled' \/ pc' = "idle"
                /\ pc = "serving" => pc' \in {"serving", "shutdown", "idle"}
                /\ pc = "shutdown" =>
                      /\ pc' \in {"shutdown", "idle"}
                      /\ \A h \in Handler : (Busy(h)' => Busy(h)) /\ (At(h, "body")' => At(h, "body"))
<1>0. call \in [Caller -> CallType] /\ NoCall.at = "idle" /\ Discovery \in Caller
  BY DEF ReachInv, TransportType, NoCall, Caller
<1>1. ASSUME Gone, pc' = "idle" PROVE LifeInv' /\ OneWay
  <2>1. \A g \in Caller : ~Busy(g)' /\ ~At(g, "body")'
    BY <1>0, <1>1 DEF Gone, NoCalls, Busy, At
  <2> QED
    BY <1>0, <1>1, <2>1 DEF LifeInv, Gone, Caller
<1>2. ASSUME UNCHANGED <<service, transport>>, UNCHANGED pc \/ ~(pc \in {"waiting", "serving",
             "shutdown"} \/ pc' \in {"waiting", "serving", "shutdown"})
      PROVE  LifeInv' /\ OneWay
  <2>1. \A g \in Caller : (Busy(g)' <=> Busy(g)) /\ (At(g, "body")' <=> At(g, "body"))
    BY <1>2 DEF transport, Busy, At
  <2> QED
    BY <1>0, <1>2, <2>1 DEF LifeInv, service, Caller
<1>3. CASE CommandStep
  BY <1>1, <1>2, <1>3, CommandsApart DEF CommandStep
<1>4. CASE AdminStep \/ UNCHANGED vars
  BY <1>2, <1>4 DEF AdminStep, adminDeleteNode, memory, installVars, vars
<1>5. CASE NewProxy \/ AddressChanges \/ Interrupt \/ Serve \/ Shutdown
  <2>1. \A g \in Caller : (Busy(g)' <=> Busy(g)) /\ (At(g, "body")' <=> At(g, "body"))
    BY <1>5 DEF NewProxy, AddressChanges, Interrupt, Serve, Shutdown, transport, Busy, At
  <2> QED
    BY <1>0, <1>5, <2>1 DEF NewProxy, AddressChanges, Interrupt, Serve, Shutdown, Goto, LifeInv,
       installVars, memory, Caller
<1>6. CASE ShutdownDone
  BY <1>1, <1>6 DEF ShutdownDone, Goto
<1>7. ASSUME UNCHANGED <<service, pc>>,
             \A g \in Caller : (Busy(g)' => Busy(g)) /\ (At(g, "body")' => At(g, "body"))
      PROVE  LifeInv' /\ OneWay
  BY <1>0, <1>7 DEF LifeInv, service, Caller
<1>8. ASSUME NEW h \in Handler, RequestStep(h) PROVE LifeInv' /\ OneWay
  <2>1. UNCHANGED <<service, pc>> /\ h \in Caller
    BY <1>8 DEF RequestStep, Accept, proxyModelRequest, AskAdmin, ProviderAnswers, AdminAnswers,
       installVars, memory, Caller
  <2>2. ASSUME NEW g \in Caller, g # h PROVE call'[g] = call[g]
    <3>1. \/ \E at : Step(h, at)
          \/ \E p, client, todo : Reach(h, p, client, todo)
          \/ call' = [call EXCEPT ![h] = NoCall]
      BY <1>8 DEF RequestStep, Accept, proxyModelRequest, AskAdmin, ProviderAnswers,
         AdminAnswers, ProxyToNode, meshMembers
    <3> QED
      BY <1>0, <2>2, <3>1 DEF Step, Reach
  <2>3. CASE Accept(h)
    <3>1. listening /\ pc = "serving"
      BY <2>3 DEF Accept, LifeInv
    <3>2. Busy(Discovery)' <=> Busy(Discovery)
      BY <1>0, <2>2, NodeAssumption DEF Busy
    <3> QED
      BY <2>1, <3>1, <3>2 DEF LifeInv, service
  <2>4. CASE ~Accept(h)
    <3>1. Busy(h)
      BY <1>8, <2>4 DEF RequestStep, proxyModelRequest, AskAdmin, ProviderAnswers,
         AdminAnswers, At, Busy
    <3>2. ~At(h, "body")'
      <4>1. ASSUME NEW at, at # "body", Step(h, at) PROVE ~At(h, "body")'
        BY <1>0, <2>1, <4>1 DEF Step, At, CallType
      <4>2. ASSUME NEW p, NEW client, NEW todo, Reach(h, p, client, todo)
            PROVE  ~At(h, "body")'
        BY <1>0, <2>1, <4>2 DEF Reach, At
      <4>3. ASSUME call' = [call EXCEPT ![h] = NoCall] PROVE ~At(h, "body")'
        BY <1>0, <2>1, <4>3 DEF At
      <4> QED
        BY <1>8, <2>4, <4>1, <4>2, <4>3 DEF RequestStep, proxyModelRequest, AskAdmin,
           ProviderAnswers, AdminAnswers, ProxyToNode, meshMembers
    <3> QED
      BY <1>7, <2>1, <2>2, <3>1, <3>2 DEF Busy, At
  <2> QED
    BY <2>3, <2>4
<1>9. ASSUME NEW p \in Peer, OnPeerUpdate(p) PROVE LifeInv' /\ OneWay
  <2>1. discovering /\ UNCHANGED <<service, pc>>
    BY <1>9 DEF OnPeerUpdate, installVars, memory
  <2>2. \A h \in Handler : call'[h] = call[h]
    BY <1>0, <1>9, NodeAssumption DEF OnPeerUpdate, Reach, Caller
  <2> QED
    BY <2>1, <2>2 DEF LifeInv, service, Busy, At
<1>10. ASSUME NEW p \in Peer, ConnsChange(p) PROVE LifeInv' /\ OneWay
  <2>1. ASSUME NEW g \in Caller PROVE call'[g].at = call[g].at
    <3>1. call'[g] = call[g] \/ call'[g] = [call[g] EXCEPT !.on = "lost"]
      BY <1>10 DEF ConnsChange
    <3> QED
      BY <1>0, <3>1 DEF CallType
  <2> QED
    BY <1>7, <1>10, <2>1 DEF ConnsChange, installVars, memory, Busy, At
<1>11. ASSUME NEW f \in Caller, OwnStep(f) PROVE LifeInv' /\ OneWay
  <2>1. Busy(f) /\ Calling(f)
    BY <1>11 DEF OwnStep, Goroutine, Lookup, AddDestViaRelay, connectNode, openStreamDirect,
       DialDirect, Recheck, NewStream, openStream, PeerAnswers, AwaitsPeer, StreamBreaks,
       ClientTimeout, At, Busy, Calling, Local
  <2>2. ASSUME NEW g \in Caller, g # f PROVE call'[g] = call[g]
    BY <1>11, <2>2, OthersKeep
  <2>3. UNCHANGED <<service, pc>>
    BY <1>11 DEF OwnStep, Goroutine, Lookup, AddDestViaRelay, connectNode, openStreamDirect,
       DialDirect, Recheck, NewStream, openStream, PeerAnswers, StreamBreaks, ClientTimeout,
       installVars, memory
  <2>4. ~At(f, "body")'
    BY <1>11, OwnNoBody
  <2> QED
    BY <1>7, <2>1, <2>2, <2>3, <2>4 DEF Busy, At
<1> QED
  BY <1>3, <1>4, <1>5, <1>6, <1>8, <1>9, <1>10, <1>11 DEF Next, OwnStep

\* It holds throughout.
LEMMA LifeHolds == Spec => []LifeInv
<1>1. Init => LifeInv
  <2> SUFFICES ASSUME Init PROVE LifeInv
    OBVIOUS
  <2>1. NoCall.at = "idle" /\ call = [g \in Caller |-> NoCall]
    BY DEF NoCall, Init, NoCalls
  <2>2. \A g \in Caller : ~Busy(g)
    BY <2>1 DEF Busy
  <2> QED
    BY <2>2 DEF Init, InstallInit, LifeInv, Caller
<1>2. ReachInv /\ LifeInv /\ [Next]_vars => LifeInv'
  BY LifeStep
<1> QED
  BY <1>1, <1>2, ReachHolds, PTL DEF Spec

\* Requests are read and peers called only by a process that has seen its circuit
\* address and serves: no goroutine of an earlier step, and none of a process that has
\* ended, reaches a peer (service.go:359-370, proxy.go:220-248).
THEOREM CallsWhileServing ==
    Spec => [](\A g \in Caller : Busy(g) => pc \in {"serving", "shutdown"})
<1>1. LifeInv => \A g \in Caller : Busy(g) => pc \in {"serving", "shutdown"}
  BY DEF LifeInv, Caller
<1> QED
  BY <1>1, LifeHolds, PTL

\* An interrupt is not forgotten until the process ends, the process does not go
\* back to serving, and while Shutdown waits no handler is added to those it
\* waits for and none of them turns to another request, although those that were
\* still reading theirs go on to reach peers, and so does the discovery loop
\* (proxy.go:71-139, :220-248, utilities.go:16-38).  This is the safety part of
\* InterruptStops; that the handlers end is CallsEnd, which is model-checked.
THEOREM InterruptAdvances ==
    Spec => [][cancelled =>
                 /\ cancelled' \/ pc' = "idle"
                 /\ pc = "serving" => pc' \in {"serving", "shutdown", "idle"}
                 /\ pc = "shutdown" =>
                       /\ pc' \in {"shutdown", "idle"}
                       /\ \A h \in Handler : (Busy(h)' => Busy(h)) /\ (At(h, "body")' => At(h, "body"))]_vars
<1>1. ReachInv /\ LifeInv /\ [Next]_vars =>
        [cancelled =>
            /\ cancelled' \/ pc' = "idle"
            /\ pc = "serving" => pc' \in {"serving", "shutdown", "idle"}
            /\ pc = "shutdown" =>
                  /\ pc' \in {"shutdown", "idle"}
                  /\ \A h \in Handler : (Busy(h)' => Busy(h)) /\ (At(h, "body")' => At(h, "body"))]_vars
  BY LifeStep
<1> QED
  BY <1>1, ReachHolds, LifeHolds, PTL DEF Spec
=============================================================================
