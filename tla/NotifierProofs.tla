--------------------------- MODULE NotifierProofs ---------------------------
(* Proofs about Notifier, for any number of connections and updates. *)
EXTENDS Notifier, SequenceTheorems, TLAPS

ClientAct == [kind : {"register", "deregister"}, client : Client]

QueueAct == ClientAct \cup {BroadcastAct}

\* The queue q holds the action a.
Holds(q, a) == \E i \in 1..Len(q) : q[i] = a

\* No client's action is in the queue twice.
Once(q) == \A i, j \in 1..Len(q) : (q[i] = q[j] /\ q[i].kind # "broadcast") => i = j

\* A client is registered before it is deregistered.
InOrder(q) ==
    \A c \in Client : \A i, j \in 1..Len(q) :
        (q[i] = Act("register", c) /\ q[j] = Act("deregister", c)) => i < j

\* What a queue holds after an Append.
LEMMA AppendHolds ==
    ASSUME NEW q \in Seq(QueueAct), NEW e \in QueueAct
    PROVE  \A a : Holds(Append(q, e), a) <=> (Holds(q, a) \/ a = e)
<1>1. /\ Len(q) \in Nat
      /\ Len(Append(q, e)) = Len(q) + 1
      /\ \A i \in 1..Len(q) : Append(q, e)[i] = q[i]
      /\ Append(q, e)[Len(q) + 1] = e
  BY AppendProperties, LenProperties
<1> DEFINE s == Append(q, e)
           n == Len(q)
<1>2. n \in Nat /\ Len(s) = n + 1 /\ (\A i \in 1..n : s[i] = q[i]) /\ s[n + 1] = e
  BY <1>1
<1> HIDE DEF s, n
<1>3. SUFFICES \A a : (\E i \in 1..Len(s) : s[i] = a) <=> ((\E i \in 1..n : q[i] = a) \/ a = e)
  BY DEF Holds, s, n
<1>4. 1..Len(s) = (1..n) \cup {n + 1}
  BY <1>2
<1> QED
  BY <1>2, <1>4

\* Appending an action that is not queued keeps the actions of clients unique.
LEMMA AppendOnce ==
    ASSUME NEW q \in Seq(QueueAct), NEW e \in QueueAct, Once(q),
           e.kind = "broadcast" \/ ~Holds(q, e)
    PROVE  Once(Append(q, e))
<1> DEFINE s == Append(q, e)
           n == Len(q)
<1>2. n \in Nat /\ Len(s) = n + 1 /\ (\A i \in 1..n : s[i] = q[i]) /\ s[n + 1] = e
  BY AppendProperties, LenProperties
<1>3. \A i, j \in 1..n : (q[i] = q[j] /\ q[i].kind # "broadcast") => i = j
  BY DEF Once
<1>4. e.kind = "broadcast" \/ \A i \in 1..n : q[i] # e
  BY DEF Holds
<1> HIDE DEF s, n
<1>5. 1..Len(s) = (1..n) \cup {n + 1}
  BY <1>2
<1>6. \A i, j \in 1..Len(s) : (s[i] = s[j] /\ s[i].kind # "broadcast") => i = j
  BY <1>2, <1>3, <1>4, <1>5
<1> QED
  BY <1>6 DEF Once, s

\* Appending keeps a client's register before its deregister.
LEMMA AppendOrder ==
    ASSUME NEW q \in Seq(QueueAct), NEW e \in QueueAct, InOrder(q),
           \A c \in Client : e = Act("register", c) => ~Holds(q, Act("deregister", c))
    PROVE  InOrder(Append(q, e))
<1> DEFINE s == Append(q, e)
           n == Len(q)
<1>2. n \in Nat /\ Len(s) = n + 1 /\ (\A i \in 1..n : s[i] = q[i]) /\ s[n + 1] = e
  BY AppendProperties, LenProperties
<1> SUFFICES ASSUME NEW c \in Client, NEW i \in 1..Len(s), NEW j \in 1..Len(s),
                    s[i] = Act("register", c), s[j] = Act("deregister", c)
             PROVE  i < j
  BY DEF InOrder
<1>3. (i \in 1..n /\ j \in 1..n) => i < j
  BY <1>2 DEF InOrder
<1>4. i = n + 1 => j \notin 1..n
  BY <1>2 DEF Holds
<1>5. i # n + 1 \/ j # n + 1
  BY <1>2 DEF Act
<1> HIDE DEF s, n
<1> QED
  BY <1>2, <1>3, <1>4, <1>5

\* What a queue holds after its head is taken.
LEMMA TailHolds ==
    ASSUME NEW q \in Seq(QueueAct), q # << >>
    PROVE  \A a : Holds(q, a) <=> (a = Head(q) \/ Holds(Tail(q), a))
<1> DEFINE s == Tail(q)
           n == Len(s)
<1>1. s \in Seq(QueueAct) /\ n = Len(q) - 1 /\ (\A i \in 1..n : s[i] = q[i + 1])
  BY HeadTailProperties
<1>2. n \in Nat /\ Len(q) \in Nat /\ Head(q) = q[1]
  BY <1>1, LenProperties
<1> SUFFICES ASSUME NEW a PROVE Holds(q, a) <=> (a = Head(q) \/ Holds(s, a))
  OBVIOUS
<1> HIDE DEF s, n
<1>3. ASSUME Holds(q, a) PROVE a = Head(q) \/ \E i \in 1..n : s[i] = a
  <2>1. PICK k \in 1..Len(q) : q[k] = a
    BY <1>3 DEF Holds
  <2>2. CASE k = 1
    BY <2>1, <2>2, <1>2
  <2>3. CASE k # 1
    <3>1. k - 1 \in 1..n /\ (k - 1) + 1 = k
      BY <2>3, <1>1, <1>2
    <3> QED
      BY <3>1, <2>1, <1>1
  <2> QED
    BY <2>2, <2>3
<1>4. ASSUME NEW i \in 1..n, s[i] = a PROVE Holds(q, a)
  <2>1. i + 1 \in 1..Len(q)
    BY <1>1, <1>2
  <2> QED
    BY <2>1, <1>4, <1>1 DEF Holds
<1>5. ASSUME a = Head(q) PROVE Holds(q, a)
  <2>1. 1 \in 1..Len(q)
    BY <1>1, <1>2
  <2> QED
    BY <2>1, <1>2, <1>5 DEF Holds
<1> QED
  BY <1>3, <1>4, <1>5 DEF Holds, n

\* Taking the head keeps the actions of clients unique.
LEMMA TailOnce ==
    ASSUME NEW q \in Seq(QueueAct), q # << >>, Once(q)
    PROVE  Once(Tail(q)) /\ (Head(q).kind # "broadcast" => ~Holds(Tail(q), Head(q)))
<1> DEFINE s == Tail(q)
           n == Len(s)
<1>1. s \in Seq(QueueAct) /\ n = Len(q) - 1 /\ (\A i \in 1..n : s[i] = q[i + 1])
  BY HeadTailProperties
<1>2. n \in Nat /\ Len(q) \in Nat /\ Head(q) = q[1]
  BY <1>1, LenProperties
<1>3. \A i, j \in 1..Len(q) : (q[i] = q[j] /\ q[i].kind # "broadcast") => i = j
  BY DEF Once
<1> HIDE DEF s, n
<1>4. \A i \in 1..n : i + 1 \in 1..Len(q) /\ i \in Nat
  BY <1>1, <1>2
<1>5. 1 \in 1..Len(q) \/ n = 0 - 1
  BY <1>1, <1>2
<1>6. ASSUME NEW i \in 1..n, NEW j \in 1..n, s[i] = s[j], s[i].kind # "broadcast"
      PROVE  i = j
  <2>1. i + 1 = j + 1
    BY <1>1, <1>3, <1>4, <1>6
  <2> QED
    BY <2>1, <1>4
<1>7. ASSUME Head(q).kind # "broadcast", NEW i \in 1..n, s[i] = Head(q)
      PROVE  FALSE
  <2>1. i + 1 = 1
    BY <1>1, <1>2, <1>3, <1>4, <1>5, <1>7
  <2> QED
    BY <2>1, <1>4
<1> QED
  BY <1>6, <1>7 DEF Once, Holds, s, n

\* Taking the head keeps the order of a client's actions.
LEMMA TailOrder ==
    ASSUME NEW q \in Seq(QueueAct), q # << >>, InOrder(q)
    PROVE  /\ InOrder(Tail(q))
           /\ \A c \in Client : Head(q) = Act("deregister", c)
                                    => ~Holds(Tail(q), Act("register", c))
<1> DEFINE s == Tail(q)
           n == Len(s)
<1>1. s \in Seq(QueueAct) /\ n = Len(q) - 1 /\ (\A i \in 1..n : s[i] = q[i + 1])
  BY HeadTailProperties
<1>2. n \in Nat /\ Len(q) \in Nat /\ Head(q) = q[1]
  BY <1>1, LenProperties
<1>3. ASSUME NEW c \in Client, NEW i \in 1..Len(q), NEW j \in 1..Len(q),
             q[i] = Act("register", c), q[j] = Act("deregister", c)
      PROVE  i < j
  BY <1>3 DEF InOrder
<1> HIDE DEF s, n
<1>4. \A i \in 1..n : i + 1 \in 1..Len(q) /\ i \in Nat
  BY <1>1, <1>2
<1>5. ASSUME NEW c \in Client, NEW i \in 1..n, NEW j \in 1..n,
             s[i] = Act("register", c), s[j] = Act("deregister", c)
      PROVE  i < j
  <2>1. i + 1 < j + 1
    BY <1>1, <1>3, <1>4, <1>5
  <2> QED
    BY <2>1, <1>4
<1>6. ASSUME NEW c \in Client, Head(q) = Act("deregister", c),
             NEW i \in 1..n, s[i] = Act("register", c)
      PROVE  FALSE
  <2>1. 1 \in 1..Len(q)
    BY <1>1, <1>2
  <2>2. i + 1 < 1
    BY <1>1, <1>2, <1>3, <1>4, <1>6, <2>1
  <2> QED
    BY <2>2, <1>4
<1> QED
  BY <1>5, <1>6 DEF InOrder, Holds, s, n
----------------------------------------------------------------------------
\* What the queue, the map and the reading goroutine of a client have to do
\* with each other: a client is in one stage of its life at a time.
LifecycleOf(q, registered, pump) ==
    \A c \in Client :
        /\ pump[c] = "off" => /\ ~Holds(q, Act("register", c))
                              /\ ~Holds(q, Act("deregister", c))
                              /\ c \notin registered
        /\ Holds(q, Act("deregister", c)) => pump[c] = "done"
        /\ Holds(q, Act("register", c)) => c \notin registered
        /\ (pump[c] = "done" /\ ~Holds(q, Act("deregister", c)))
              => (c \notin registered /\ ~Holds(q, Act("register", c)))

Lifecycle == LifecycleOf(action, clients, reader)

NotifierInv == TypeOK /\ Once(action) /\ InOrder(action) /\ Lifecycle

\* The actions are well typed and differ from each other.
LEMMA ActionTypes ==
    ASSUME NEW c \in Client
    PROVE  /\ Act("register", c) \in QueueAct /\ Act("deregister", c) \in QueueAct
           /\ BroadcastAct \in QueueAct
           /\ \A d : /\ (Act("register", c) = Act("register", d)) <=> (c = d)
                     /\ (Act("deregister", c) = Act("deregister", d)) <=> (c = d)
                     /\ Act("register", c) # Act("deregister", d)
                     /\ Act("register", c) # BroadcastAct /\ Act("deregister", c) # BroadcastAct
           /\ Act("register", c).kind = "register" /\ Act("deregister", c).kind = "deregister"
           /\ Act("register", c).client = c /\ Act("deregister", c).client = c
           /\ BroadcastAct.kind = "broadcast"
BY DEF QueueAct, ClientAct, Act, BroadcastAct

\* A queued action is a broadcast or names a client.
LEMMA QueueTypes ==
    ASSUME NEW a \in QueueAct
    PROVE  /\ a = BroadcastAct \/ \E c \in Client : a = Act("register", c) \/ a = Act("deregister", c)
           /\ BroadcastAct \in QueueAct /\ BroadcastAct.kind = "broadcast"
           /\ \A c \in Client : Act("register", c) # BroadcastAct /\ Act("deregister", c) # BroadcastAct
BY DEF QueueAct, ClientAct, Act, BroadcastAct

\* The invariant holds before the first connection.
LEMMA TypeInit == Init => NotifierInv
<1> SUFFICES ASSUME Init PROVE NotifierInv
  OBVIOUS
<1>1. Len(action) = 0 /\ action \in Seq(QueueAct)
  BY EmptySeq DEF Init
<1>2. TypeOK
  BY <1>1, NotifierAssumption DEF Init, TypeOK, QueueAct, ClientAct
<1>3. Once(action) /\ InOrder(action) /\ \A a : ~Holds(action, a)
  BY <1>1 DEF Once, InOrder, Holds
<1> QED
  BY <1>2, <1>3 DEF NotifierInv, Lifecycle, LifecycleOf, Init

\* Every step keeps the types and the capacities.
LEMMA TypeStep == TypeOK /\ [Next]_vars => TypeOK'
<1> SUFFICES ASSUME TypeOK, [Next]_vars PROVE TypeOK'
  OBVIOUS
<1>q. action \in Seq(QueueAct) /\ Len(action) \in Nat /\ Len(action) <= QueueCap
  BY LenProperties DEF TypeOK, QueueAct, ClientAct
<1>a. ASSUME NEW e \in QueueAct, Room
      PROVE  Append(action, e) \in Seq(QueueAct) /\ Len(Append(action, e)) <= QueueCap
  BY <1>a, <1>q, AppendProperties, NotifierAssumption DEF Room
<1>t. ASSUME action # << >>
      PROVE  /\ Tail(action) \in Seq(QueueAct) /\ Len(Tail(action)) <= QueueCap
             /\ Head(action) \in QueueAct
  BY <1>t, <1>q, HeadTailProperties, NotifierAssumption
<1>d. QueueAct = [kind : {"register", "deregister"}, client : Client] \cup {BroadcastAct}
  BY DEF QueueAct, ClientAct
<1>0. CASE UNCHANGED vars
  BY <1>0 DEF vars, TypeOK
<1>1. ASSUME NEW c \in Client, Register(c) \/ Deregister(c) PROVE TypeOK'
  <2>1. action' \in Seq(QueueAct) /\ Len(action') <= QueueCap
    <3>1. PICK e \in {Act("register", c), Act("deregister", c)} : action' = Append(action, e) /\ Room
      BY <1>1 DEF Register, Deregister
    <3>2. e \in QueueAct
      BY <3>1, ActionTypes
    <3> QED
      BY <3>1, <3>2, <1>a
  <2> QED
    BY <1>1, <2>1, <1>d DEF TypeOK, Register, Deregister
<1>2. ASSUME NEW c \in Client, WriteWakeup(c) PROVE TypeOK'
  BY <1>2, NotifierAssumption DEF TypeOK, WriteWakeup
<1>3. ASSUME NEW c \in Client,
             Upgrade(c) \/ ConnectionBreaks(c) \/ ReadFails(c) \/ WriteFails(c)
      PROVE  TypeOK'
  BY <1>3 DEF TypeOK, Upgrade, ConnectionBreaks, ReadFails, WriteFails
<1>4. ASSUME NEW changed \in BOOLEAN, Update(changed) PROVE TypeOK'
  BY <1>4 DEF TypeOK, Update, pumps
<1>5. CASE Broadcast
  <2>1. action' \in Seq(QueueAct) /\ Len(action') <= QueueCap
    BY <1>5, <1>a, <1>q DEF Broadcast, QueueAct
  <2> QED
    BY <1>5, <2>1, <1>d DEF TypeOK, Broadcast, pumps
<1>6. CASE PollRegister \/ PollDeregister
  <2>1. action' \in Seq(QueueAct) /\ Len(action') <= QueueCap
    BY <1>6, <1>t DEF PollRegister, PollDeregister
  <2>2. Head(action).client \in Client
    BY <1>6, <1>t, QueueTypes, ActionTypes DEF PollRegister, PollDeregister
  <2> QED
    BY <1>6, <2>1, <2>2, <1>d DEF TypeOK, PollRegister, PollDeregister, pumps
<1>7. CASE PollBroadcast
  <2>1. action' \in Seq(QueueAct) /\ Len(action') <= QueueCap
    BY <1>7, <1>t DEF PollBroadcast
  <2>2. wakeup' \in [Client -> 0..WakeCap]
    BY <1>7, NotifierAssumption DEF PollBroadcast, TypeOK
  <2> QED
    BY <1>7, <2>1, <2>2, <1>d DEF TypeOK, PollBroadcast
<1> QED
  BY <1>0, <1>1, <1>2, <1>3, <1>4, <1>5, <1>6, <1>7 DEF Next, Poll

\* Every step keeps the life cycle of each client.
LEMMA LifecycleStep == NotifierInv /\ [Next]_vars => NotifierInv'
<1> SUFFICES ASSUME NotifierInv, [Next]_vars PROVE NotifierInv'
  OBVIOUS
<1>y. TypeOK'
  BY TypeStep DEF NotifierInv
<1>q. action \in Seq(QueueAct) /\ reader \in [Client -> {"off", "run", "leave", "done"}]
  BY DEF NotifierInv, TypeOK, QueueAct, ClientAct
<1> SUFFICES (Once(action) /\ InOrder(action) /\ Lifecycle)'
  BY <1>y DEF NotifierInv
<1>0. CASE UNCHANGED <<action, clients, reader>>
  BY <1>0 DEF NotifierInv, Once, InOrder, Lifecycle, LifecycleOf, Holds
<1>1. ASSUME NEW c \in Client, Register(c) PROVE (Once(action) /\ InOrder(action) /\ Lifecycle)'
  <2> DEFINE e == Act("register", c)
  <2>1. ~Holds(action, e) /\ ~Holds(action, Act("deregister", c)) /\ c \notin clients
    BY <1>1 DEF Register, NotifierInv, Lifecycle, LifecycleOf
  <2>2. Once(action') /\ InOrder(action')
    BY <1>1, <1>q, <2>1, AppendOnce, AppendOrder, ActionTypes DEF Register, NotifierInv
  <2>3. \A a : Holds(action', a) <=> (Holds(action, a) \/ a = e)
    BY <1>1, <1>q, AppendHolds, ActionTypes DEF Register
  <2>4. Lifecycle'
    BY <1>1, <1>q, <2>1, <2>3, ActionTypes DEF Register, NotifierInv, Lifecycle, LifecycleOf, Holds
  <2> QED
    BY <2>2, <2>4 DEF Once, InOrder
<1>2. ASSUME NEW c \in Client, Deregister(c) PROVE (Once(action) /\ InOrder(action) /\ Lifecycle)'
  <2> DEFINE e == Act("deregister", c)
  <2>1. ~Holds(action, e)
    BY <1>2 DEF Deregister, NotifierInv, Lifecycle, LifecycleOf
  <2>2. Once(action') /\ InOrder(action')
    BY <1>2, <1>q, <2>1, AppendOnce, AppendOrder, ActionTypes DEF Deregister, NotifierInv
  <2>3. \A a : Holds(action', a) <=> (Holds(action, a) \/ a = e)
    BY <1>2, <1>q, AppendHolds, ActionTypes DEF Deregister
  <2>4. Lifecycle'
    BY <1>2, <1>q, <2>1, <2>3, ActionTypes DEF Deregister, NotifierInv, Lifecycle, LifecycleOf, Holds
  <2> QED
    BY <2>2, <2>4 DEF Once, InOrder
<1>3. ASSUME NEW c \in Client, ReadFails(c) PROVE (Once(action) /\ InOrder(action) /\ Lifecycle)'
  BY <1>3, <1>q DEF ReadFails, NotifierInv, Once, InOrder, Lifecycle, LifecycleOf, Holds
<1>4. CASE Broadcast
  <2>0. CASE ~Room
    BY <1>0, <1>4, <2>0 DEF Broadcast, pumps
  <2>a. CASE Room
    <3>1. BroadcastAct \in QueueAct /\ BroadcastAct.kind = "broadcast"
      BY DEF QueueAct, BroadcastAct, Act
    <3>2. \A c \in Client : Act("register", c) # BroadcastAct /\ Act("deregister", c) # BroadcastAct
      BY ActionTypes
    <3>3. action' = Append(action, BroadcastAct) /\ UNCHANGED <<clients, reader>>
      BY <1>4, <2>a DEF Broadcast, pumps
    <3>4. Once(action') /\ InOrder(action')
      BY <1>q, <3>1, <3>2, <3>3, AppendOnce, AppendOrder DEF NotifierInv
    <3>5. \A a : Holds(action', a) <=> (Holds(action, a) \/ a = BroadcastAct)
      BY <1>q, <3>1, <3>3, AppendHolds
    <3>6. Lifecycle'
      BY <3>2, <3>3, <3>5 DEF NotifierInv, Lifecycle, LifecycleOf, Holds
    <3> QED
      BY <3>4, <3>6 DEF Once, InOrder
  <2> QED
    BY <2>0, <2>a
<1>5. ASSUME action # << >>, action' = Tail(action)
      PROVE  /\ Head(action) \in QueueAct
             /\ Once(action') /\ InOrder(action')
             /\ \A a : Holds(action, a) <=> (a = Head(action) \/ Holds(action', a))
             /\ Head(action).kind # "broadcast" => ~Holds(action', Head(action))
             /\ \A c \in Client : Head(action) = Act("deregister", c)
                                      => ~Holds(action', Act("register", c))
  BY <1>5, <1>q, TailOnce, TailOrder, TailHolds, HeadTailProperties DEF NotifierInv
<1>6. CASE PollRegister
  <2>1. PICK c \in Client : Head(action) = Act("register", c)
    BY <1>5, <1>6, QueueTypes, ActionTypes DEF PollRegister
  <2>2. clients' = clients \cup {c} /\ reader' = reader
    BY <1>6, <2>1, ActionTypes DEF PollRegister, pumps
  <2>3. /\ ~Holds(action', Act("register", c))
        /\ \A a : Holds(action, a) <=> (a = Act("register", c) \/ Holds(action', a))
    BY <1>5, <1>6, <2>1, ActionTypes DEF PollRegister
  <2>4. LifecycleOf(action, clients, reader)
    BY DEF NotifierInv, Lifecycle
  <2>5. LifecycleOf(action', clients', reader')
    BY <2>2, <2>3, <2>4, ActionTypes, <1>q DEF LifecycleOf
  <2> QED
    BY <1>5, <1>6, <2>5 DEF PollRegister, Once, InOrder, Lifecycle, LifecycleOf, Holds
<1>7. CASE PollDeregister
  <2>1. PICK c \in Client : Head(action) = Act("deregister", c)
    BY <1>5, <1>7, QueueTypes, ActionTypes DEF PollDeregister
  <2>2. clients' = clients \ {c} /\ reader' = reader
    BY <1>7, <2>1, ActionTypes DEF PollDeregister
  <2>3. /\ ~Holds(action', Act("register", c)) /\ ~Holds(action', Act("deregister", c))
        /\ \A a : Holds(action, a) <=> (a = Act("deregister", c) \/ Holds(action', a))
    BY <1>5, <1>7, <2>1, ActionTypes DEF PollDeregister
  <2>4. LifecycleOf(action, clients, reader)
    BY DEF NotifierInv, Lifecycle
  <2>5. LifecycleOf(action', clients', reader')
    BY <2>2, <2>3, <2>4, ActionTypes, <1>q DEF LifecycleOf
  <2> QED
    BY <1>5, <1>7, <2>5 DEF PollDeregister, Once, InOrder, Lifecycle, LifecycleOf, Holds
<1>8. CASE PollBroadcast
  <2>1. Head(action) = BroadcastAct
    BY <1>5, <1>8, QueueTypes, ActionTypes DEF PollBroadcast
  <2>2. UNCHANGED <<clients, reader>>
    BY <1>8 DEF PollBroadcast
  <2>3. \A a : Holds(action, a) <=> (a = BroadcastAct \/ Holds(action', a))
    BY <1>5, <1>8, <2>1 DEF PollBroadcast
  <2>4. LifecycleOf(action, clients, reader)
    BY DEF NotifierInv, Lifecycle
  <2>5. LifecycleOf(action', clients', reader')
    BY <2>2, <2>3, <2>4, ActionTypes, <1>q DEF LifecycleOf
  <2> QED
    BY <1>5, <1>8, <2>5 DEF PollBroadcast, Once, InOrder, Lifecycle, LifecycleOf, Holds
<1>9. ASSUME NEW c \in Client,
             Upgrade(c) \/ ConnectionBreaks(c) \/ WriteWakeup(c) \/ WriteFails(c)
      PROVE  UNCHANGED <<action, clients, reader>>
  BY <1>9 DEF Upgrade, ConnectionBreaks, WriteWakeup, WriteFails
<1>10. ASSUME NEW changed \in BOOLEAN, Update(changed) PROVE UNCHANGED <<action, clients, reader>>
  BY <1>10 DEF Update, pumps
<1> QED
  BY <1>0, <1>1, <1>2, <1>3, <1>4, <1>6, <1>7, <1>8, <1>9, <1>10 DEF Next, Poll, vars

\* The types, and the capacities of both channels, for any number of
\* connections (notifier.go:66, :80, client.go:97-102).
THEOREM NotifierTypeCorrect == Spec => []TypeOK
<1>1. Init => TypeOK
  BY TypeInit DEF NotifierInv
<1> QED
  BY <1>1, TypeStep, PTL DEF Spec

\* A client whose reader is done and that has nothing left in the queue is not
\* in the map, whatever the capacity of the queue (notifier.go:69-74).
THEOREM GoneCorrect == Spec => []GoneStaysGone
<1>1. NotifierInv => GoneStaysGone
  <2> SUFFICES ASSUME NotifierInv, NEW c \in Client, reader[c] = "done",
                      \A i \in DOMAIN action : action[i].client # c
               PROVE  c \notin clients
    BY DEF GoneStaysGone
  <2>1. action \in Seq(QueueAct)
    BY DEF NotifierInv, TypeOK, QueueAct, ClientAct
  <2>2. DOMAIN action = 1..Len(action)
    BY <2>1, LenProperties
  <2>3. ~Holds(action, Act("deregister", c))
    BY <2>2, ActionTypes DEF Holds
  <2> QED
    BY <2>3 DEF NotifierInv, Lifecycle, LifecycleOf
<1> QED
  BY <1>1, TypeInit, LifecycleStep, PTL DEF Spec
----------------------------------------------------------------------------
\* The queue is full, and of registrations and deregistrations alone.
Crowded == ~Room /\ ~Holds(action, BroadcastAct)

\* Only clients that are or were in the map are stale.
StaleWasRegistered ==
    \A c \in Client : (reader[c] = "off" \/ Holds(action, Act("register", c))) => c \notin stale

\* StaleIsPending, by what the queue holds.
Pending ==
    \A c \in clients \cap stale :
        updater = "notify" \/ Holds(action, BroadcastAct) \/ wakeup[c] > 0

StaleInv == NotifierInv /\ StaleWasRegistered /\ Pending

\* What one step does to what the queue holds.
LEMMA QueueStep ==
    ASSUME NotifierInv, Next
    PROVE  /\ \A c \in Client : Holds(action', Act("register", c)) =>
                 \/ Holds(action, Act("register", c))
                 \/ reader[c] = "off" /\ c \notin clients /\ stale' = stale
           /\ Holds(action, BroadcastAct) => Holds(action', BroadcastAct) \/ PollBroadcast
<1>q. action \in Seq(QueueAct)
  BY DEF NotifierInv, TypeOK, QueueAct, ClientAct
<1>b. BroadcastAct \in QueueAct
  BY DEF QueueAct
<1>1. ASSUME NEW c \in Client, Register(c)
      PROVE  /\ reader[c] = "off" /\ c \notin clients /\ stale' = stale
             /\ \A a : Holds(action', a) <=> (Holds(action, a) \/ a = Act("register", c))
  BY <1>1, <1>q, AppendHolds, ActionTypes DEF Register, NotifierInv, Lifecycle, LifecycleOf
<1>2. ASSUME NEW c \in Client, Deregister(c)
      PROVE  \A a : Holds(action', a) <=> (Holds(action, a) \/ a = Act("deregister", c))
  BY <1>2, <1>q, AppendHolds, ActionTypes DEF Deregister
<1>3. CASE Broadcast
  <2>1. \A a : Holds(action', a) => (Holds(action, a) \/ a = BroadcastAct)
    BY <1>3, <1>q, <1>b, AppendHolds DEF Broadcast
  <2>2. \A a : Holds(action, a) => Holds(action', a)
    BY <1>3, <1>q, <1>b, AppendHolds DEF Broadcast
  <2> QED
    BY <2>1, <2>2, ActionTypes
<1>4. CASE Poll
  <2>1. action # << >> /\ action' = Tail(action)
    BY <1>4 DEF Poll, PollRegister, PollDeregister, PollBroadcast
  <2>2. \A a : Holds(action, a) <=> (a = Head(action) \/ Holds(action', a))
    BY <1>q, <2>1, TailHolds
  <2>3. Head(action) = BroadcastAct => Head(action).kind = "broadcast"
    BY DEF BroadcastAct, Act
  <2>4. Head(action).kind = "broadcast" => PollBroadcast
    BY <1>4 DEF Poll, PollRegister, PollDeregister
  <2> QED
    BY <2>2, <2>3, <2>4
<1>5. CASE UNCHANGED action
  <2>1. \A a : Holds(action', a) <=> Holds(action, a)
    BY <1>5
  <2> QED
    BY <2>1
<1>6. ASSUME NEW c \in Client, Register(c)
      PROVE  /\ \A d \in Client : Holds(action', Act("register", d)) =>
                    \/ Holds(action, Act("register", d))
                    \/ reader[d] = "off" /\ d \notin clients /\ stale' = stale
             /\ Holds(action, BroadcastAct) => Holds(action', BroadcastAct)
  BY <1>6, <1>1, ActionTypes
<1>7. ASSUME NEW c \in Client, Deregister(c)
      PROVE  /\ \A d \in Client : Holds(action', Act("register", d)) =>
                    Holds(action, Act("register", d))
             /\ Holds(action, BroadcastAct) => Holds(action', BroadcastAct)
  BY <1>7, <1>2, ActionTypes
<1>8. ASSUME NEW c \in Client,
             Upgrade(c) \/ ConnectionBreaks(c) \/ ReadFails(c) \/ WriteWakeup(c) \/ WriteFails(c)
      PROVE  UNCHANGED action
  BY <1>8 DEF Upgrade, ConnectionBreaks, ReadFails, WriteWakeup, WriteFails
<1>9. ASSUME NEW changed \in BOOLEAN, Update(changed) PROVE UNCHANGED action
  BY <1>9 DEF Update
<1> QED
  BY <1>3, <1>4, <1>5, <1>6, <1>7, <1>8, <1>9 DEF Next

\* Every step keeps a wakeup under way for a stale client.
LEMMA StaleStep == ~Crowded /\ StaleInv /\ [Next]_vars => StaleInv'
<1> SUFFICES ASSUME ~Crowded, StaleInv, [Next]_vars PROVE StaleInv'
  OBVIOUS
<1>i. NotifierInv /\ NotifierInv'
  BY LifecycleStep DEF StaleInv
<1>y. /\ clients \subseteq Client /\ stale \subseteq Client
      /\ wakeup \in [Client -> 0..WakeCap] /\ wakeup' \in [Client -> 0..WakeCap]
      /\ reader \in [Client -> {"off", "run", "leave", "done"}]
      /\ action \in Seq(QueueAct)
  BY <1>i DEF NotifierInv, TypeOK, QueueAct, ClientAct
<1>0. CASE UNCHANGED vars
  <2>1. StaleWasRegistered' /\ Pending'
    BY <1>0 DEF vars, StaleInv, StaleWasRegistered, Pending, Holds
  <2> QED
    BY <2>1, <1>i DEF StaleInv
<1> SUFFICES ASSUME Next PROVE StaleInv'
  BY <1>0
<1>r. ASSUME NEW c \in Client, c \in clients
      PROVE  reader[c] # "off" /\ ~Holds(action, Act("register", c))
  BY <1>r, <1>i DEF NotifierInv, Lifecycle, LifecycleOf
<1>s. stale' \subseteq stale \cup clients
  BY DEF Next, Poll, Upgrade, Register, ConnectionBreaks, ReadFails, Deregister, WriteWakeup,
     WriteFails, Update, Broadcast, PollRegister, PollDeregister, PollBroadcast, pumps
<1>o. ASSUME NEW c \in Client, reader'[c] = "off" PROVE reader[c] = "off"
  BY <1>o, <1>y DEF Next, Poll, Upgrade, Register, ConnectionBreaks, ReadFails, Deregister,
     WriteWakeup, WriteFails, Update, Broadcast, PollRegister, PollDeregister, PollBroadcast,
     pumps
<1>1. \A c \in Client :
          (reader'[c] = "off" \/ Holds(action', Act("register", c))) => c \notin stale'
  BY <1>i, <1>r, <1>s, <1>o, QueueStep DEF StaleInv, StaleWasRegistered
<1>2. ASSUME NEW c \in clients' \cap stale'
      PROVE  updater' = "notify" \/ Holds(action', BroadcastAct) \/ wakeup'[c] > 0
  <2>c. c \in Client
    BY <1>i DEF NotifierInv, TypeOK
  <2>p. ASSUME c \in clients, c \in stale
        PROVE  updater = "notify" \/ Holds(action, BroadcastAct) \/ wakeup[c] > 0
    BY <2>p DEF StaleInv, Pending
  <2>b. Holds(action, BroadcastAct) => Holds(action', BroadcastAct) \/ PollBroadcast
    BY <1>i, QueueStep
  <2>1. CASE PollRegister
    <3>1. /\ clients' = clients \cup {Head(action).client} /\ stale' = stale
          /\ wakeup' = wakeup /\ updater' = updater /\ action # << >>
          /\ Head(action).kind = "register" /\ Head(action) \in QueueAct
      BY <2>1, <1>y, HeadTailProperties DEF PollRegister, pumps
    <3>2. c \in clients
      <4> SUFFICES ASSUME c \notin clients PROVE FALSE
        OBVIOUS
      <4>1. Head(action) = Act("register", c)
        BY <3>1, QueueTypes, ActionTypes
      <4>2. Holds(action, Act("register", c))
        BY <4>1, <3>1, <1>y, TailHolds
      <4> QED
        BY <4>2, <3>1, <2>c DEF StaleInv, StaleWasRegistered
    <3> QED
      BY <2>p, <2>b, <3>1, <3>2 DEF PollBroadcast
  <2>2. CASE PollDeregister
    BY <2>p, <2>b, <2>2 DEF PollDeregister, PollBroadcast
  <2>3. CASE PollBroadcast
    BY <2>3, <2>c, <1>y, NotifierAssumption DEF PollBroadcast
  <2>4. CASE Broadcast
    <3>1. Holds(action', BroadcastAct)
      <4>1. CASE Room
        <5>1. BroadcastAct \in QueueAct
          BY DEF QueueAct
        <5> QED
          BY <2>4, <4>1, <5>1, <1>y, AppendHolds DEF Broadcast
      <4>2. CASE ~Room
        <5>1. action' = action
          BY <2>4, <4>2 DEF Broadcast
        <5> QED
          BY <5>1, <4>2 DEF Crowded, Holds
      <4> QED
        BY <4>1, <4>2
    <3> QED
      BY <3>1
  <2>5. CASE \E changed \in BOOLEAN : Update(changed)
    BY <2>5 DEF Update
  <2>6. ASSUME NEW d \in Client, WriteWakeup(d)
        PROVE  updater' = "notify" \/ Holds(action', BroadcastAct) \/ wakeup'[c] > 0
    BY <2>6, <2>p, <2>c, <1>y DEF WriteWakeup
  <2>7. ASSUME NEW d \in Client,
               \/ Upgrade(d) \/ Register(d) \/ ConnectionBreaks(d)
               \/ ReadFails(d) \/ Deregister(d) \/ WriteFails(d)
        PROVE  /\ clients' = clients /\ stale' = stale
               /\ updater' = updater /\ wakeup' = wakeup
    BY <2>7 DEF Upgrade, Register, ConnectionBreaks, ReadFails, Deregister, WriteFails
  <2> QED
    BY <2>1, <2>2, <2>3, <2>4, <2>5, <2>6, <2>7, <2>p, <2>b DEF Next, Poll
<1> QED
  BY <1>i, <1>1, <1>2 DEF StaleInv, StaleWasRegistered, Pending, Holds

\* No wakeup is lost for good, for any number of connections, in a run in which
\* the queue is at no time full of registrations and deregistrations alone: else
\* Broadcast drops its action only when the queue holds another broadcast, and
\* Wakeup only when the client has one to come (notifier.go:24-29,
\* client.go:97-102).  A full queue without a broadcast takes QueueCap pages
\* that come or go while Poll has not got to the first of them.
THEOREM StaleCorrect == Spec /\ []~Crowded => []StaleIsPending
<1>1. Init => StaleInv
  BY TypeInit DEF StaleInv, StaleWasRegistered, Pending, Init
<1>2. StaleInv => StaleIsPending
  <2> SUFFICES ASSUME StaleInv PROVE StaleIsPending
    OBVIOUS
  <2>1. DOMAIN action = 1..Len(action)
    BY LenProperties DEF StaleInv, NotifierInv, TypeOK
  <2> QED
    BY <2>1 DEF StaleInv, StaleIsPending, Pending, Holds
<1> QED
  BY <1>1, <1>2, StaleStep, PTL DEF Spec

\* The two pumps of a client start together, so a writer that is done cannot
\* be started by a Register that is still to come.
LeaveInv == NotifierInv /\ \A c \in Client : reader[c] = "off" => writer[c] = "off"

LEMMA LeaveStep == LeaveInv /\ [Next]_vars => LeaveInv'
<1> SUFFICES ASSUME LeaveInv, [Next]_vars, NEW c \in Client
             PROVE  reader'[c] = "off" => writer'[c] = "off"
  BY LifecycleStep DEF LeaveInv
<1>y. /\ reader[c] = "off" => writer[c] = "off"
      /\ writer \in [Client -> {"off", "run", "done"}]
      /\ reader \in [Client -> {"off", "run", "leave", "done"}]
  BY DEF LeaveInv, NotifierInv, TypeOK
<1>1. CASE UNCHANGED vars \/ Poll \/ Broadcast \/ \E changed \in BOOLEAN : Update(changed)
  <2>1. reader' = reader /\ writer' = writer
    BY <1>1 DEF vars, pumps, Poll, PollRegister, PollDeregister, PollBroadcast, Broadcast, Update
  <2> QED
    BY <2>1, <1>y
<1>2. ASSUME NEW d \in Client, Upgrade(d) \/ ConnectionBreaks(d) \/ WriteWakeup(d)
      PROVE  reader' = reader /\ writer' = writer
  BY <1>2 DEF Upgrade, ConnectionBreaks, WriteWakeup
<1>3. ASSUME NEW d \in Client, Register(d) \/ ReadFails(d) \/ Deregister(d) \/ WriteFails(d)
      PROVE  reader'[c] = "off" => writer'[c] = "off"
  BY <1>3, <1>y DEF Register, ReadFails, Deregister, WriteFails
<1> QED
  BY <1>1, <1>2, <1>3, <1>y DEF Next

\* A connection ends for good, for any number of connections and any capacity
\* of the queue (notifier.go:39-55, client.go:37-91). It is the safety part of
\* NothingLeaks: what that property waits for is not undone.
THEOREM LeavesCorrect == Spec => LeavesForGood
<1> DEFINE Ends == \A c \in Client : /\ conn[c] = "closed" => conn'[c] = "closed"
                                     /\ writer[c] = "done" => writer'[c] = "done"
                                     /\ Left(c) => Left(c)'
<1>1. LeaveInv /\ [Next]_vars => [Ends]_vars
  <2> SUFFICES ASSUME LeaveInv, Next, NEW c \in Client
               PROVE  /\ conn[c] = "closed" => conn'[c] = "closed"
                      /\ writer[c] = "done" => writer'[c] = "done"
                      /\ Left(c) => Left(c)'
    OBVIOUS
  <2>d. DOMAIN action' = 1..Len(action')
    <3>1. NotifierInv'
      BY LifecycleStep DEF LeaveInv
    <3> QED
      BY <3>1, LenProperties DEF NotifierInv, TypeOK
  <2> SUFFICES /\ conn[c] = "closed" => conn'[c] = "closed"
               /\ writer[c] = "done" => writer'[c] = "done"
               /\ reader[c] = "done" => reader'[c] = "done"
               /\ Left(c) => c \notin clients' /\ ~Holds(action', Act("register", c))
    BY <2>d DEF Left, Holds
  <2>y. /\ action \in Seq(QueueAct)
        /\ conn \in [Client -> {"new", "open", "closed"}]
        /\ writer \in [Client -> {"off", "run", "done"}]
        /\ reader \in [Client -> {"off", "run", "leave", "done"}]
        /\ \A d \in Client : reader[d] = "off" => writer[d] = "off"
    BY DEF LeaveInv, NotifierInv, TypeOK, QueueAct, ClientAct
  <2>l. Left(c) => reader[c] = "done" /\ c \notin clients /\ ~Holds(action, Act("register", c))
    <3>1. DOMAIN action = 1..Len(action)
      BY <2>y, LenProperties
    <3> QED
      BY <3>1 DEF Left, Holds
  <2>1. Left(c) => ~Holds(action', Act("register", c))
    BY <2>l, QueueStep DEF LeaveInv
  <2>2. CASE PollRegister
    <3>1. action # << >> /\ Head(action) = Act("register", Head(action).client)
      <4>1. action # << >> /\ Head(action).kind = "register"
        BY <2>2 DEF PollRegister
      <4>2. Head(action) \in QueueAct
        BY <4>1, <2>y, HeadTailProperties
      <4> QED
        BY <4>1, <4>2 DEF QueueAct, ClientAct, Act, BroadcastAct
    <3>2. Holds(action, Act("register", Head(action).client))
      BY <3>1, <2>y, TailHolds
    <3>3. Left(c) => c \notin clients'
      BY <2>2, <2>l, <3>2 DEF PollRegister
    <3> QED
      BY <2>2, <2>1, <3>3 DEF PollRegister, pumps
  <2>3. CASE PollDeregister
    BY <2>3, <2>1, <2>l, <2>y DEF PollDeregister
  <2>4. CASE PollBroadcast \/ Broadcast \/ \E changed \in BOOLEAN : Update(changed)
    BY <2>4, <2>1, <2>l DEF PollBroadcast, Broadcast, Update, pumps
  <2>5. ASSUME NEW d \in Client, Upgrade(d) \/ Register(d) \/ ConnectionBreaks(d)
        PROVE  /\ conn[c] = "closed" => conn'[c] = "closed"
               /\ writer[c] = "done" => writer'[c] = "done"
               /\ reader[c] = "done" => reader'[c] = "done"
               /\ clients' = clients
    BY <2>5, <2>y DEF Upgrade, Register, ConnectionBreaks
  <2>6. ASSUME NEW d \in Client,
               ReadFails(d) \/ Deregister(d) \/ WriteWakeup(d) \/ WriteFails(d)
        PROVE  /\ conn[c] = "closed" => conn'[c] = "closed"
               /\ writer[c] = "done" => writer'[c] = "done"
               /\ reader[c] = "done" => reader'[c] = "done"
               /\ clients' = clients
    BY <2>6, <2>y DEF ReadFails, Deregister, WriteWakeup, WriteFails
  <2> QED
    BY <2>l, <2>1, <2>2, <2>3, <2>4, <2>5, <2>6 DEF Next, Poll
<1>2. Init => LeaveInv
  BY TypeInit DEF Init, LeaveInv
<1>3. LeaveInv /\ [Next]_vars => LeaveInv'
  BY LeaveStep
<1> QED
  BY <1>1, <1>2, <1>3, PTL DEF Spec, LeavesForGood
============================================================================
