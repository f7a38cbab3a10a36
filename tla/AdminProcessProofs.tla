------------------------ MODULE AdminProcessProofs -------------------------
(* Proofs about AdminProcess, on top of those about AllowList. *)
EXTENDS AdminProcess, AllowListProofs

\* The steps of the process that concern the list are steps of AllowList.
LEMMA AclStep == [Next]_vars => [AclNext]_aclVars
<1> SUFFICES ASSUME [Next]_vars PROVE [AclNext]_aclVars
  OBVIOUS
<1>1. CASE Start
  BY <1>1 DEF Start, AclNext
<1>2. CASE Interrupt \/ ListenFails \/ Shutdown \/ ShutdownDone \/ ShutdownLimit
  BY <1>2 DEF Interrupt, ListenFails, Shutdown, ShutdownDone, ShutdownLimit, AdminReturns
<1>3. CASE RelayReturns \/ Exit \/ Killed
  BY <1>3 DEF RelayReturns, Exit, Killed
<1>4. ASSUME NEW w \in Worker, Accept(w) \/ HandlerChanges(w) \/ HandlerEnds(w)
      PROVE  [AclNext]_aclVars
  BY <1>4 DEF Accept, HandlerChanges, HandlerEnds, AclNext
<1>5. ASSUME NEW n \in Node, InterceptPeerDial(n) \/ InterceptSecured(n)
                                \/ InterceptUpgraded(n) \/ Disconnect(n)
      PROVE  [AclNext]_aclVars
  BY <1>5 DEF InterceptPeerDial, InterceptSecured, InterceptUpgraded, Disconnect, SetLink
<1>6. CASE UNCHANGED vars
  BY <1>6 DEF vars
<1> QED
  BY <1>1, <1>2, <1>3, <1>4, <1>5, <1>6 DEF Next

\* The process uses the allow list as AllowList describes it, so what is proved
\* of AllowList holds in it.
THEOREM ProcessImplementsList == Spec => AclSpec
<1>1. Init => AclInit
  BY DEF Init
<1> QED
  BY <1>1, AclStep, PTL DEF Spec, AclSpec

\* A start of the process loads the list its predecessor had in memory when the
\* last change of it ran alone and none was being written, however the
\* predecessor ended (allow.go:18-40).
THEOREM RestartInProcess == Spec => RestartKeepsList
  BY ProcessImplementsList, RestartCorrect, PTL

\* What AllowList needs of a call that runs alone holds in the process.
LEMMA SoloInProcess == Spec => []SoloInv
<1>1. Init => SoloInv
  BY SoloAtInit DEF Init
<1>2. SoloInv /\ [Next]_vars => SoloInv'
  BY SoloStep, AclStep
<1> QED
  BY <1>1, <1>2, PTL DEF Spec

\* A call that runs alone leaves the file equal to the list, also when the
\* process is stopped and started around it (allow.go:52-78).
THEOREM SoloInProcessCorrect == Spec => []SoloWriteMatchesList
<1>1. SoloInv => SoloWriteMatchesList
  BY DEF SoloInv
<1> QED
  BY <1>1, SoloInProcess, PTL

\* Every step keeps the types of the process's own variables.
LEMMA ProcessTypeStep == TypeOK /\ [Next]_vars => TypeOK'
<1> SUFFICES ASSUME TypeOK, [Next]_vars PROVE TypeOK'
  OBVIOUS
<1>0. AclTypeOK /\ AclTypeOK' /\ allow' \in SUBSET Node
  BY AclStep, AclTypeStep DEF TypeOK, AclTypeOK
<1> USE DEF NoLinks, NoHandlers, services
<1>1. CASE Start
  <2>1. starts + 1 \in Nat
    BY DEF TypeOK
  <2> QED
    BY <1>0, <1>1, <2>1 DEF Start, TypeOK
<1>2. CASE Interrupt \/ ListenFails \/ Shutdown \/ ShutdownDone \/ ShutdownLimit
  BY <1>0, <1>2 DEF Interrupt, ListenFails, Shutdown, ShutdownDone, ShutdownLimit, AdminReturns,
     TypeOK
<1>3. CASE RelayReturns \/ Exit \/ Killed
  BY <1>0, <1>3 DEF RelayReturns, Exit, Killed, TypeOK
<1>4. ASSUME NEW w \in Worker, Accept(w) \/ HandlerChanges(w) \/ HandlerEnds(w)
      PROVE  TypeOK'
  <2>1. handler' \in [Worker -> BOOLEAN]
    BY <1>4 DEF Accept, HandlerChanges, HandlerEnds, TypeOK
  <2>2. listed' \in SUBSET Node
    BY <1>0, <1>4 DEF Accept, HandlerChanges, HandlerEnds, TypeOK
  <2>3. UNCHANGED <<services, link>>
    BY <1>4 DEF Accept, HandlerChanges, HandlerEnds
  <2> QED
    BY <1>0, <2>1, <2>2, <2>3 DEF TypeOK
<1>5. ASSUME NEW n \in Node, InterceptPeerDial(n) \/ InterceptSecured(n)
                                \/ InterceptUpgraded(n) \/ Disconnect(n)
      PROVE  TypeOK'
  BY <1>0, <1>5 DEF InterceptPeerDial, InterceptSecured, InterceptUpgraded, Disconnect, SetLink,
     TypeOK
<1>6. CASE UNCHANGED vars
  BY <1>0, <1>6 DEF vars, procVars, TypeOK
<1> QED
  BY <1>1, <1>2, <1>3, <1>4, <1>5, <1>6 DEF Next

\* The services and the goroutines of the process are always in one of their
\* states, and only ids of nodes get on the list.
THEOREM ProcessTypeCorrect == Spec => []TypeOK
<1>1. Init => TypeOK
  <2> SUFFICES ASSUME Init PROVE TypeOK
    OBVIOUS
  <2>1. AclTypeOK /\ starts \in Nat
    BY AclTypeInit DEF Init
  <2>2. up \in BOOLEAN /\ cancelled \in BOOLEAN /\ handler \in [Worker -> BOOLEAN]
    BY DEF Init, NoHandlers
  <2>3. link \in [Node -> {"none", "dialled", "passed", "open"}] /\ listed \in SUBSET Node
    BY DEF Init, NoLinks
  <2> QED
    BY <2>1, <2>2, <2>3 DEF Init, TypeOK
<1> QED
  BY <1>1, ProcessTypeStep, PTL DEF Spec
----------------------------------------------------------------------------
\* The relay runs only while the process does, and what was on the list since
\* its start is remembered.
LinkInv ==
    /\ link \in [Node -> {"none", "dialled", "passed", "open"}]
    /\ relay = "serving" => up
    /\ up => allow \subseteq listed
    /\ LinkedWasListed

\* Every step keeps it.
LEMMA LinkStep == LinkInv /\ [Next]_vars => LinkInv'
<1> SUFFICES ASSUME LinkInv, [Next]_vars PROVE LinkInv'
  OBVIOUS
<1> USE DEF LinkInv, LinkedWasListed, NoLinks, services, aclVars
<1>1. CASE Start
  BY <1>1 DEF Start
<1>2. CASE Interrupt \/ ListenFails \/ Shutdown \/ ShutdownDone \/ ShutdownLimit
  BY <1>2 DEF Interrupt, ListenFails, Shutdown, ShutdownDone, ShutdownLimit, AdminReturns
<1>3. CASE RelayReturns \/ Killed
  BY <1>3 DEF RelayReturns, Killed
<1>4. CASE Exit
  BY <1>4 DEF Exit
<1>5. ASSUME NEW w \in Worker, Accept(w) \/ HandlerEnds(w)
      PROVE  LinkInv'
  BY <1>5 DEF Accept, HandlerEnds
<1>6. ASSUME NEW w \in Worker, HandlerChanges(w)
      PROVE  LinkInv'
  <2>1. listed' = listed \cup allow' /\ UNCHANGED <<up, relay, link>>
    BY <1>6 DEF HandlerChanges
  <2> QED
    BY <2>1
<1>7. ASSUME NEW n \in Node, InterceptPeerDial(n) \/ InterceptSecured(n)
                                \/ InterceptUpgraded(n) \/ Disconnect(n)
      PROVE  LinkInv'
  BY <1>7 DEF InterceptPeerDial, InterceptSecured, InterceptUpgraded, Disconnect, SetLink, Has
<1>8. CASE UNCHANGED vars
  BY <1>8 DEF vars, procVars
<1> QED
  BY <1>1, <1>2, <1>3, <1>4, <1>5, <1>6, <1>7, <1>8 DEF Next

\* Only nodes that were on the list since the process started are connected to
\* the relay (gatekeeper.go:38-46).
THEOREM LinkedCorrect == Spec => []LinkedWasListed
<1>1. Init => LinkInv
  BY DEF Init, LinkInv, LinkedWasListed, NoLinks
<1>2. LinkInv => LinkedWasListed
  BY DEF LinkInv
<1> QED
  BY <1>1, <1>2, LinkStep, PTL DEF Spec
----------------------------------------------------------------------------
\* Only handlers write the file, and a stop that met no limit left none behind.
StopInv ==
    /\ handler \in [Worker -> BOOLEAN]
    /\ DOMAIN persisting = Worker
    /\ \A w \in Worker : persisting[w].stage # "idle" => handler[w]
    /\ ~up => admin = "returned"
    /\ (admin = "returned" /\ ending = "clean") => handler = NoHandlers

\* Every step keeps it.
LEMMA StopStep == AclTypeOK /\ StopInv /\ [Next]_vars => StopInv'
<1> SUFFICES ASSUME AclTypeOK, StopInv, [Next]_vars PROVE StopInv'
  OBVIOUS
<1> USE DEF StopInv, NoHandlers, services, aclVars
<1>1. CASE Start
  BY <1>1 DEF Start, Reload, Idle
<1>2. CASE Interrupt \/ Shutdown
  BY <1>2 DEF Interrupt, Shutdown
<1>3. CASE ListenFails \/ ShutdownDone \/ ShutdownLimit
  BY <1>3 DEF ListenFails, ShutdownDone, ShutdownLimit, AdminReturns
<1>4. CASE RelayReturns \/ Exit \/ Killed
  BY <1>4 DEF RelayReturns, Exit, Killed
<1>5. ASSUME NEW w \in Worker, Accept(w) \/ HandlerEnds(w)
      PROVE  StopInv'
  BY <1>5 DEF Accept, HandlerEnds
<1>6. ASSUME NEW w \in Worker, HandlerChanges(w)
      PROVE  StopInv'
  <2>1. handler[w] /\ UNCHANGED <<services, handler>>
    BY <1>6 DEF HandlerChanges
  <2>2. ~(admin = "returned" /\ ending = "clean")
    BY <2>1
  <2>3. ASSUME NEW v \in Worker, v # w PROVE persisting'[v] = persisting[v]
    BY <1>6, <2>3 DEF HandlerChanges, Add, Remove, Change, Persist, PersistOpen, PersistWrite,
       PersistError
  <2>4. DOMAIN persisting' = Worker
    BY <1>6 DEF HandlerChanges, Add, Remove, Change, Persist, PersistOpen, PersistWrite,
       PersistError
  <2> QED
    BY <2>1, <2>2, <2>3, <2>4
<1>7. ASSUME NEW n \in Node, InterceptPeerDial(n) \/ InterceptSecured(n)
                                \/ InterceptUpgraded(n) \/ Disconnect(n)
      PROVE  StopInv'
  BY <1>7 DEF InterceptPeerDial, InterceptSecured, InterceptUpgraded, Disconnect, SetLink
<1>8. CASE UNCHANGED vars
  BY <1>8 DEF vars, procVars
<1> QED
  BY <1>1, <1>2, <1>3, <1>4, <1>5, <1>6, <1>7, <1>8 DEF Next

\* A stop that did not run into the limit has cut off no write (server.go:165-172).
THEOREM CleanStopCorrect == Spec => []CleanStopKeepsList
<1>1. Init => StopInv
  BY DEF Init, StopInv, NoHandlers, AclInit, Idle
<1>2. SoloInv => AclTypeOK
  BY DEF SoloInv
<1>3. SoloInv /\ StopInv => CleanStopKeepsList
  BY DEF SoloInv, SoloWriteMatchesList, StopInv, CleanStopKeepsList, NoneWriting, NoHandlers
<1> QED
  BY <1>1, <1>2, <1>3, SoloInProcess, StopStep, PTL DEF Spec
----------------------------------------------------------------------------
\* Once the process has run, what could get on the list by the file or a write
\* under way was on it since the last start.
HeldInv ==
    /\ AclTypeOK
    /\ starts \in Nat
    /\ up => 0 < starts
    /\ 0 < starts => Held \subseteq listed

\* A start takes the whole file into the list and forgets the copies.
LEMMA StartHolds ==
    ASSUME Start PROVE Held' = allow' /\ listed' = allow' /\ allow' = Range(file)
<1>1. Range(<< >>) = {} /\ Idle.ids = << >>
  BY DEF Range, Idle
<1>2. /\ allow' = Range(file) /\ file' = file /\ persisting' = [w \in Worker |-> Idle]
      /\ listed' = allow'
  BY DEF Start, Reload
<1> QED
  BY <1>1, <1>2 DEF Held

\* Every step keeps that.
LEMMA HeldStep == HeldInv /\ [Next]_vars => HeldInv'
<1> SUFFICES ASSUME HeldInv, [Next]_vars PROVE HeldInv'
  OBVIOUS
<1>0. AclTypeOK' /\ Held' \subseteq Held \cup allow'
  BY AclStep, AclTypeStep, NothingInvented DEF HeldInv
<1>1. CASE Start
  <2>1. Held' \subseteq listed'
    BY <1>1, StartHolds
  <2>2. starts' \in Nat /\ 0 < starts'
    BY <1>1 DEF Start, HeldInv
  <2> QED
    BY <1>0, <2>1, <2>2 DEF HeldInv
<1>2. ASSUME NEW w \in Worker, HandlerChanges(w)
      PROVE  HeldInv'
  <2>1. listed' = listed \cup allow' /\ starts' = starts /\ up' = up
    BY <1>2 DEF HandlerChanges, services
  <2> QED
    BY <1>0, <2>1 DEF HeldInv
<1>3. CASE UNCHANGED <<aclVars, listed, starts>> /\ (up' => up)
  BY <1>3 DEF HeldInv, Held, aclVars, AclTypeOK
<1> QED
  BY <1>1, <1>2, <1>3
     DEF Next, Interrupt, ListenFails, Shutdown, ShutdownDone, ShutdownLimit, AdminReturns,
         RelayReturns, Exit, Killed, Accept, HandlerEnds, InterceptPeerDial, InterceptSecured,
         InterceptUpgraded, Disconnect, SetLink, services, procVars, vars

\* A start after the first admits nobody who was not on the list in the run
\* before, for any number of handlers whose writes of the file overlap, fail or
\* are cut off by a kill (allow.go:18-40, :52-97).
THEOREM StartAdmitsListedCorrect == Spec => StartAdmitsListed
<1>1. Init => HeldInv
  BY AclTypeInit DEF Init, HeldInv
<1>2. HeldInv => [(Start /\ starts > 0) => allow' \subseteq listed]_vars
  <2> SUFFICES ASSUME HeldInv, Start, starts > 0 PROVE allow' \subseteq listed
    OBVIOUS
  <2>1. allow' = Range(file) /\ 0 < starts
    BY StartHolds DEF HeldInv
  <2> QED
    BY <2>1 DEF HeldInv, Held
<1> QED
  BY <1>1, <1>2, HeldStep, PTL DEF Spec, StartAdmitsListed
----------------------------------------------------------------------------
\* A service that has ended, or is about to, has ended the context of the other.
EndIsShared == (up /\ (admin # "serving" \/ relay # "serving")) => cancelled

\* No service of a running process is left behind by the other: as soon as one
\* ends, the context that both wait for is done (utilities.go:16-38).
THEOREM EndIsSharedCorrect == Spec => []EndIsShared
<1>1. Init => EndIsShared
  BY DEF Init, EndIsShared
<1>2. EndIsShared /\ [Next]_vars => EndIsShared'
  <2> SUFFICES ASSUME EndIsShared, [Next]_vars PROVE EndIsShared'
    OBVIOUS
  <2> USE DEF EndIsShared
  <2>1. CASE Start \/ Exit \/ Killed
    BY <2>1 DEF Start, Exit, Killed
  <2>2. CASE Interrupt \/ ListenFails \/ Shutdown \/ ShutdownDone \/ ShutdownLimit \/ RelayReturns
    BY <2>2 DEF Interrupt, ListenFails, Shutdown, ShutdownDone, ShutdownLimit, RelayReturns,
       AdminReturns
  <2>3. CASE UNCHANGED services
    BY <2>3 DEF services
  <2> QED
    BY <2>1, <2>2, <2>3
       DEF Next, Accept, HandlerChanges, HandlerEnds, InterceptPeerDial, InterceptSecured,
           InterceptUpgraded, Disconnect, SetLink, procVars, vars
<1> QED
  BY <1>1, <1>2, PTL DEF Spec

\* How far a service is from its end, and both together.
Place(service) == CASE service = "serving" -> 2 [] service = "shutdown" -> 1 [] OTHER -> 0

ToEnd == Place(admin) + Place(relay)

\* The stop goes one way: once the context is done it stays so until the
\* process is gone, neither service goes back, their own steps bring the end
\* nearer, and once the listener is closed no request is added to those that
\* Shutdown waits for (server.go:158-172, utilities.go:16-38).  This is the
\* safety part of StopsTogether; that the steps are taken is left to model
\* checking.
THEOREM StopAdvances ==
    Spec => [][(up /\ cancelled /\ up') =>
                  /\ cancelled'
                  /\ ToEnd' <= ToEnd
                  /\ (Shutdown \/ ShutdownDone \/ ShutdownLimit \/ RelayReturns) => ToEnd' < ToEnd
                  /\ admin # "serving" => \A w \in Worker : handler'[w] => handler[w]]_vars
<1>1. TypeOK /\ [Next]_vars =>
        [(up /\ cancelled /\ up') =>
            /\ cancelled'
            /\ ToEnd' <= ToEnd
            /\ (Shutdown \/ ShutdownDone \/ ShutdownLimit \/ RelayReturns) => ToEnd' < ToEnd
            /\ admin # "serving" => \A w \in Worker : handler'[w] => handler[w]]_vars
  <2> SUFFICES ASSUME TypeOK, Next, up, cancelled, up'
               PROVE  /\ cancelled'
                      /\ ToEnd' <= ToEnd
                      /\ (Shutdown \/ ShutdownDone \/ ShutdownLimit \/ RelayReturns) =>
                            ToEnd' < ToEnd
                      /\ admin # "serving" => \A w \in Worker : handler'[w] => handler[w]
    BY DEF vars
  <2>0. /\ Place("serving") = 2 /\ Place("shutdown") = 1 /\ Place("returned") = 0
        /\ Place(admin) \in {0, 1, 2} /\ Place(relay) \in {0, 1, 2}
    BY DEF Place, TypeOK
  <2>1. CASE Shutdown \/ ShutdownDone \/ ShutdownLimit \/ RelayReturns
    <3>1. \/ admin = "serving" /\ admin' = "shutdown" /\ relay' = relay
          \/ admin = "shutdown" /\ admin' = "returned" /\ relay' = relay
          \/ relay = "serving" /\ relay' = "returned" /\ admin' = admin
      BY <2>1 DEF Shutdown, ShutdownDone, ShutdownLimit, RelayReturns, AdminReturns
    <3>2. cancelled' /\ handler' = handler
      BY <2>1 DEF Shutdown, ShutdownDone, ShutdownLimit, RelayReturns, AdminReturns
    <3>3. ToEnd' < ToEnd /\ ToEnd' <= ToEnd
      BY <2>0, <3>1 DEF ToEnd
    <3> QED
      BY <3>2, <3>3
  <2>2. CASE ListenFails
    <3>1. admin = "serving" /\ admin' = "returned" /\ relay' = relay /\ cancelled'
      BY <2>2 DEF ListenFails, AdminReturns
    <3>2. ~(Shutdown \/ ShutdownDone \/ ShutdownLimit \/ RelayReturns)
      BY <3>1 DEF Shutdown, ShutdownDone, ShutdownLimit, RelayReturns
    <3>3. ToEnd' <= ToEnd
      BY <2>0, <3>1 DEF ToEnd
    <3> QED
      BY <3>1, <3>2, <3>3
  <2>3. CASE UNCHANGED <<admin, relay, cancelled>>
    <3>1. ~(Shutdown \/ ShutdownDone \/ ShutdownLimit \/ RelayReturns)
      BY <2>3 DEF Shutdown, ShutdownDone, ShutdownLimit, RelayReturns, AdminReturns
    <3>2. ToEnd' <= ToEnd
      BY <2>0, <2>3 DEF ToEnd
    <3>3. admin # "serving" => \A w \in Worker : handler'[w] => handler[w]
      BY <2>3 DEF Next, Start, Interrupt, ListenFails, Shutdown, ShutdownDone, ShutdownLimit,
         AdminReturns, RelayReturns, Exit, Killed, Accept, HandlerChanges, HandlerEnds,
         InterceptPeerDial, InterceptSecured, InterceptUpgraded, Disconnect, SetLink, TypeOK
    <3> QED
      BY <2>3, <3>1, <3>2, <3>3
  <2> QED
    BY <2>1, <2>2, <2>3
       DEF Next, Start, Interrupt, Exit, Killed, Accept, HandlerChanges, HandlerEnds,
           InterceptPeerDial, InterceptSecured, InterceptUpgraded, Disconnect, SetLink, services
<1> QED
  BY <1>1, ProcessTypeCorrect, PTL DEF Spec
============================================================================
