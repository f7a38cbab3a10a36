----------------------------- MODULE Notifier ------------------------------
(***************************************************************************)
(* Waking the web pages of a node (pkg/proxy/socket): Proxy.OnPeerUpdate   *)
(* changes the model table and calls Broadcast; one goroutine, Poll, takes *)
(* register, deregister and broadcast actions from a channel of bounded    *)
(* capacity; every connection has a reading and a writing goroutine and a  *)
(* channel of wakeups of bounded capacity.                                 *)
(***************************************************************************)
EXTENDS Naturals, Sequences, FiniteSets

CONSTANTS
    Client,     \* connections, each opened at most once
    QueueCap,   \* capacity of Notifier.action, 64 in the code
    WakeCap,    \* capacity of Client.wakeup, 8 in the code
    MaxUpdates  \* bound on the calls of OnPeerUpdate

ASSUME NotifierAssumption ==
    QueueCap \in Nat \ {0} /\ WakeCap \in Nat \ {0} /\ MaxUpdates \in Nat

VARIABLES
    action,     \* Notifier.action
    clients,    \* Notifier.clients
    wakeup,     \* per client, how many wakeups its channel holds
    conn,       \* per client, its connection: "new", "open", "closed"
    reader,     \* per client, readPump: "off", "run", "leave", "done"
    writer,     \* per client, writePump: "off", "run", "done"
    updater,    \* OnPeerUpdate: "idle", or "notify" before its call of Broadcast
    updates,    \* how many updates there were
    stale       \* history: the registered clients that the table has changed
                \* for since they were last sent a wakeup

vars == <<action, clients, wakeup, conn, reader, writer, updater, updates, stale>>
pumps == <<wakeup, conn, reader, writer>>

Act(kind, c) == [kind |-> kind, client |-> c]
BroadcastAct == Act("broadcast", "all")

Room == Len(action) < QueueCap

Init ==
    /\ action = <<>>
    /\ clients = {}
    /\ wakeup = [c \in Client |-> 0]
    /\ conn = [c \in Client |-> "new"]
    /\ reader = [c \in Client |-> "off"]
    /\ writer = [c \in Client |-> "off"]
    /\ updater = "idle"
    /\ updates = 0
    /\ stale = {}
----------------------------------------------------------------------------
\* Handle: upgrade the connection ...
Upgrade(c) ==
    /\ conn[c] = "new"
    /\ conn' = [conn EXCEPT ![c] = "open"]
    /\ UNCHANGED <<action, clients, wakeup, reader, writer, updater, updates, stale>>

\* Mutant: the pumps start at once, and a goroutine of its own registers.
RegisterInBackground(c) ==
    /\ conn[c] # "new"
    /\ \/ /\ reader[c] = "off"
          /\ reader' = [reader EXCEPT ![c] = "run"]
          /\ writer' = [writer EXCEPT ![c] = "run"]
          /\ UNCHANGED action
       \/ /\ reader[c] # "off" /\ c \notin clients /\ Room
          /\ action' = Append(action, Act("register", c))
          /\ UNCHANGED <<reader, writer>>
    /\ UNCHANGED <<clients, wakeup, conn, updater, updates, stale>>

\* ... Register, which waits for room, and start the pumps.
Register(c) ==
    /\ conn[c] # "new" /\ reader[c] = "off" /\ Room
    /\ action' = Append(action, Act("register", c))
    /\ reader' = [reader EXCEPT ![c] = "run"]
    /\ writer' = [writer EXCEPT ![c] = "run"]
    /\ UNCHANGED <<clients, wakeup, conn, updater, updates, stale>>

\* The page goes away or the network breaks.
ConnectionBreaks(c) ==
    /\ conn[c] = "open"
    /\ conn' = [conn EXCEPT ![c] = "closed"]
    /\ UNCHANGED <<action, clients, wakeup, reader, writer, updater, updates, stale>>

\* readPump: ReadMessage fails, on a closed connection or past its deadline.
ReadFails(c) ==
    /\ reader[c] = "run"
    /\ reader' = [reader EXCEPT ![c] = "leave"]
    /\ UNCHANGED <<action, clients, wakeup, conn, writer, updater, updates, stale>>

\* Mutant: Deregister gives up when there is no room.
DeregisterDrops(c) ==
    /\ reader[c] = "leave"
    /\ action' = IF Room THEN Append(action, Act("deregister", c)) ELSE action
    /\ reader' = [reader EXCEPT ![c] = "done"]
    /\ UNCHANGED <<clients, wakeup, conn, writer, updater, updates, stale>>

\* The deferred Deregister, which waits for room.
Deregister(c) ==
    /\ reader[c] = "leave" /\ Room
    /\ action' = Append(action, Act("deregister", c))
    /\ reader' = [reader EXCEPT ![c] = "done"]
    /\ UNCHANGED <<clients, wakeup, conn, writer, updater, updates, stale>>

\* writePump: send one wakeup.
WriteWakeup(c) ==
    /\ writer[c] = "run" /\ wakeup[c] > 0 /\ conn[c] = "open"
    /\ wakeup' = [wakeup EXCEPT ![c] = @ - 1]
    /\ stale' = stale \ {c}
    /\ UNCHANGED <<action, clients, conn, reader, writer, updater, updates>>

\* writePump: a wakeup or a ping cannot be written; close the connection.
WriteFails(c) ==
    /\ writer[c] = "run"
    /\ writer' = [writer EXCEPT ![c] = "done"]
    /\ conn' = [conn EXCEPT ![c] = "closed"]
    /\ UNCHANGED <<action, clients, wakeup, reader, updater, updates, stale>>
----------------------------------------------------------------------------
\* OnPeerUpdate up to its next Broadcast, with or without a change of the table.
Update(changed) ==
    /\ updater = "idle" /\ updates < MaxUpdates
    /\ updates' = updates + 1
    /\ updater' = "notify"
    /\ stale' = IF changed THEN stale \cup clients ELSE stale
    /\ UNCHANGED <<action, clients, pumps>>

\* Mutant: any queued action is taken for a pending broadcast.
BroadcastIfEmpty ==
    /\ updater = "notify"
    /\ updater' = "idle"
    /\ action' = IF action = <<>> THEN <<BroadcastAct>> ELSE action
    /\ UNCHANGED <<clients, pumps, updates, stale>>

\* Broadcast never waits: without room the action is dropped.
Broadcast ==
    /\ updater = "notify"
    /\ updater' = "idle"
    /\ action' = IF Room THEN Append(action, BroadcastAct) ELSE action
    /\ UNCHANGED <<clients, pumps, updates, stale>>

\* The three actions of Poll.
PollRegister ==
    /\ action # <<>> /\ Head(action).kind = "register"
    /\ action' = Tail(action)
    /\ clients' = clients \cup {Head(action).client}
    /\ UNCHANGED <<pumps, updater, updates, stale>>

PollDeregister ==
    /\ action # <<>> /\ Head(action).kind = "deregister"
    /\ action' = Tail(action)
    /\ clients' = clients \ {Head(action).client}
    /\ conn' = [conn EXCEPT ![Head(action).client] = "closed"]
    /\ UNCHANGED <<wakeup, reader, writer, updater, updates, stale>>

\* Mutant: the loop over the clients ends after the first.
PollWakesOne ==
    /\ action # <<>> /\ Head(action).kind = "broadcast"
    /\ action' = Tail(action)
    /\ wakeup' = [c \in Client |->
                    IF clients # {} /\ c = (CHOOSE d \in clients : TRUE) /\ wakeup[c] < WakeCap
                    THEN wakeup[c] + 1 ELSE wakeup[c]]
    /\ UNCHANGED <<clients, conn, reader, writer, updater, updates, stale>>

\* Wakeup on every client: a full channel already holds one.
PollBroadcast ==
    /\ action # <<>> /\ Head(action).kind = "broadcast"
    /\ action' = Tail(action)
    /\ wakeup' = [c \in Client |-> IF c \in clients /\ wakeup[c] < WakeCap
                                   THEN wakeup[c] + 1 ELSE wakeup[c]]
    /\ UNCHANGED <<clients, conn, reader, writer, updater, updates, stale>>

Poll == PollRegister \/ PollDeregister \/ PollBroadcast

Next ==
    \/ \E c \in Client :
          \/ Upgrade(c) \/ Register(c) \/ ConnectionBreaks(c)
          \/ ReadFails(c) \/ Deregister(c) \/ WriteWakeup(c) \/ WriteFails(c)
    \/ \E changed \in BOOLEAN : Update(changed)
    \/ Broadcast
    \/ Poll

Spec == Init /\ [][Next]_vars

\* All goroutines run.  Go serves the senders waiting on a channel in turn, so
\* one that finds room again and again gets it.  On a closed connection reads
\* and pings do fail.
Fairness ==
    /\ WF_vars(Poll) /\ WF_vars(Broadcast)
    /\ \A c \in Client :
          /\ SF_vars(Register(c)) /\ SF_vars(Deregister(c))
          /\ WF_vars(WriteWakeup(c))
          /\ WF_vars(conn[c] = "closed" /\ (ReadFails(c) \/ WriteFails(c)))

FairSpec == Spec /\ Fairness
----------------------------------------------------------------------------
\* Every variable has its type, and neither channel ever holds more than its
\* capacity (notifier.go:66, :80).
TypeOK ==
    /\ action \in Seq([kind : {"register", "deregister"}, client : Client] \cup {BroadcastAct})
    /\ Len(action) <= QueueCap
    /\ clients \in SUBSET Client
    /\ wakeup \in [Client -> 0..WakeCap]
    /\ conn \in [Client -> {"new", "open", "closed"}]
    /\ reader \in [Client -> {"off", "run", "leave", "done"}]
    /\ writer \in [Client -> {"off", "run", "done"}]
    /\ updater \in {"idle", "notify"}
    /\ updates \in Nat
    /\ stale \in SUBSET Client

\* No wakeup is lost for good: as long as a registered client has not been
\* told of a change, something that will tell it is under way, although
\* Broadcast and Wakeup drop what does not fit (notifier.go:24-29,
\* client.go:97-102).
StaleIsPending ==
    \A c \in clients \cap stale :
        \/ updater = "notify"
        \/ \E i \in DOMAIN action : action[i] = BroadcastAct
        \/ wakeup[c] > 0

\* Poll hears of a client's end only after its beginning: a client whose
\* reader is done is not registered again (notifier.go:69-74).
GoneStaysGone ==
    \A c \in Client :
        (reader[c] = "done" /\ \A i \in DOMAIN action : action[i].client # c) => c \notin clients

\* The client's handler has returned, and neither clients nor the queue can
\* bring it back. Being out of clients is not enough: its register action may
\* still be queued behind others when its reader is done.
Left(c) ==
    /\ reader[c] = "done"
    /\ c \notin clients
    /\ \A i \in DOMAIN action : action[i] # Act("register", c)

\* A connection ends for good: a closed socket stays closed, a pump that has
\* returned does not run again, and a client that Poll has dropped never comes
\* back into the map, however the queued actions of others interleave with its
\* own (notifier.go:39-55, client.go:37-91).
LeavesForGood ==
    [][\A c \in Client : /\ conn[c] = "closed" => conn'[c] = "closed"
                         /\ writer[c] = "done" => writer'[c] = "done"
                         /\ Left(c) => Left(c)']_vars

\* A registered client for which the table changed is sent a wakeup, or its
\* connection ends.
EventuallyWoken == \A c \in Client : c \in stale ~> (c \notin stale \/ conn[c] = "closed")

\* A connection that ended leaves nothing behind: both goroutines end and the
\* client is dropped from the map.
NothingLeaks ==
    \A c \in Client :
        conn[c] = "closed" ~> (reader[c] = "done" /\ writer[c] = "done" /\ c \notin clients)
============================================================================
