-------------------------- MODULE ConsumerConnection --------------------------
(***************************************************************************)
(* The worker's connection to RabbitMQ and its graceful shutdown.          *)
(* RabbitMqConsumerService opens a connection, registers a consumer and    *)
(* only then assigns the connection to itself; when the assigned one       *)
(* closes, a timer opens the next.  ShutdownCoordinatorService cancels the *)
(* consumer, waits for the messages in work and for the retry cycle, gives *)
(* what is left at its deadline back to the queue, and closes the          *)
(* connection and the database.                                            *)
(*                                                                         *)
(* A connection may be lost at any time, which the broker and the worker   *)
(* notice separately.  What processing a message means is the subject of   *)
(* RevocationDelivery.                                                     *)
(***************************************************************************)
EXTENDS Naturals, FiniteSets

CONSTANTS
    Message,
    Connection,    \* bound: connections opened in a behaviour, of which the last is not lost
    Prefetch,      \* WORKER_RUNTIME.prefetchCount
    None

ASSUME ConnectionAssumption ==
    /\ Prefetch \in Nat \ {0}
    /\ {None, "gone", "refused"} \cap Connection = {}

\* At the worker: not opened, opening, with a registered consumer, closed, or closed
\* while connect() had yet to assign it.
Life == {"unused", "dialled", "consuming", "closed", "unseen"}
\* A message that a connection received: its task, and whether it is settled.
Task == [running : BOOLEAN, settled : BOOLEAN]
NoTask == [running |-> FALSE, settled |-> FALSE]
Phase == {"running", "connecting", "cancel", "drain", "close", "closed", "exited"}

VARIABLES
    queue,       \* messages that are ready in the queue
    holder,      \* the connection that holds a message, None, or "gone"
    link,        \* the broker's end of each connection is up
    life,        \* the worker's end of each connection
    tag,         \* connections whose consumer the broker still serves
    connection,  \* this.connection
    channel,     \* this.channel, named by its connection
    connecting,  \* the connection that connect() works on, None, or "refused"
    timer,       \* this.reconnectTimer is set
    task,        \* activeDeliveries, by connection and message
    settled,     \* history: settlements that the broker received of the last delivery of a
                 \* message on a connection
    phase,       \* how far the shutdown is
    waiting,     \* what the shutdown waits for: the tasks of its snapshot
    late,        \* the deadline has passed
    cycle,       \* a retry cycle is active
    database,    \* the database connection is open
    blind        \* history: the worker lost its consumer in a way that it does not see

broker == <<queue, holder, link, tag, settled>>
refs == <<connection, channel, connecting, timer>>
shutdown == <<phase, waiting, late, cycle, database>>
vars == <<broker, life, refs, task, shutdown, blind>>

Destroyed == phase # "running"

Init ==
    /\ queue = Message /\ holder = [m \in Message |-> None]
    /\ link = [c \in Connection |-> FALSE] /\ life = [c \in Connection |-> "unused"]
    /\ tag = {}
    /\ connection = None /\ channel = None /\ connecting = None
    /\ timer = TRUE             \* onApplicationBootstrap triggers the first connection
    /\ task = [c \in Connection |-> [m \in Message |-> NoTask]]
    /\ settled = [c \in Connection |-> [m \in Message |-> 0]]
    /\ phase = "running" /\ waiting = {} /\ late = FALSE
    /\ cycle = FALSE /\ database = TRUE
    /\ blind = FALSE

-----------------------------------------------------------------------------
(* Helpers                                                                 *)

Pairs == Connection \X Message
Running == {d \in Pairs : task[d[1]][d[2]].running}
Held(c) == {m \in Message : holder[m] = c}
Requeue(c) ==
    /\ queue' = queue \cup Held(c)
    /\ holder' = [m \in Message |-> IF m \in Held(c) THEN None ELSE holder[m]]

\* The broker's end of a connection goes down, and its messages go back to the queue.
Down(c) ==
    /\ link' = [link EXCEPT ![c] = FALSE]
    /\ tag' = tag \ {c}
    /\ Requeue(c)
    /\ UNCHANGED settled

Unused(c) == life[c] = "unused"
Spare == \E c \in Connection : Unused(c)

\* Mutant: a connection that closes is not followed by another.
NoReconnect == timer' = timer

\* scheduleReconnect()
Reconnect == timer' = (timer \/ ~Destroyed)

-----------------------------------------------------------------------------
(* Connecting                                                              *)

\* The timer fires, and triggerConnection() starts connect().
Trigger ==
    /\ timer /\ ~Destroyed
    /\ connection = None /\ connecting = None
    /\ timer' = FALSE

Dial ==
    /\ Trigger /\ Spare
    /\ LET c == CHOOSE d \in Connection : Unused(d)
       IN  /\ life' = [life EXCEPT ![c] = "dialled"]
           /\ link' = [link EXCEPT ![c] = TRUE]
           /\ connecting' = c
    /\ UNCHANGED <<queue, holder, tag, settled, connection, channel, task, shutdown, blind>>

\* The broker cannot be reached.
Refuse ==
    /\ Trigger
    /\ connecting' = "refused"
    /\ UNCHANGED <<broker, life, connection, channel, task, shutdown, blind>>

\* Channel, topology, prefetch and consumer; from here on messages arrive.
Consume ==
    /\ connecting \in Connection
    /\ life[connecting] = "dialled" /\ link[connecting]
    /\ life' = [life EXCEPT ![connecting] = "consuming"]
    /\ tag' = tag \cup {connecting}
    /\ UNCHANGED <<queue, holder, link, settled, refs, task, shutdown, blind>>

\* connect() continues after the consumer was registered, wherever the connection is now.
Assign ==
    /\ connecting \in Connection /\ life[connecting] = "consuming"
    /\ ~Destroyed
    /\ connection' = connecting /\ channel' = connecting
    /\ connecting' = None
    /\ UNCHANGED <<broker, life, timer, task, shutdown, blind>>

\* The close event came after the consumer was registered and before the assignment.
AssignClosed ==
    /\ connecting \in Connection /\ life[connecting] = "unseen"
    /\ ~Destroyed /\ connection = None
    /\ connection' = connecting /\ channel' = connecting
    /\ connecting' = None
    /\ UNCHANGED <<broker, life, timer, task, shutdown, blind>>

\* A step of connect() failed, or it finds that the worker is stopping: the connection is
\* closed, and the timer set unless the worker is stopping.
GiveUp ==
    /\ connecting # None
    /\ \/ connecting = "refused"
       \/ connecting \in Connection /\ (Destroyed \/ life[connecting] = "closed")
    /\ IF connecting \in Connection
         THEN life' = [life EXCEPT ![connecting] = "closed"] /\ Down(connecting)
         ELSE UNCHANGED <<life, broker>>
    /\ Reconnect
    /\ connecting' = None
    /\ UNCHANGED <<connection, channel, task, shutdown, blind>>

-----------------------------------------------------------------------------
(* Losing a connection                                                     *)

\* The broker's end goes down first: a restart, a missed heartbeat, a network failure.
Lose(c) ==
    /\ link[c] /\ Spare
    /\ Down(c)
    /\ UNCHANGED <<life, refs, task, shutdown, blind>>

\* Mutant: the close handler does not forget the channel.
NoticeConnection(c) ==
    /\ life[c] \in {"dialled", "consuming"} /\ ~link[c]
    /\ LET unseen == connecting = c /\ life[c] = "consuming"
       IN  /\ life' = [life EXCEPT ![c] = IF unseen THEN "unseen" ELSE "closed"]
           /\ blind' = (blind \/ unseen)
    /\ IF connection = c
         THEN connection' = None /\ channel' = channel /\ Reconnect
         ELSE UNCHANGED <<connection, channel, timer>>
    /\ UNCHANGED <<broker, connecting, task, shutdown>>

\* The close handlers compare the connection with the one that is assigned.
Notice(c) ==
    /\ life[c] \in {"dialled", "consuming"} /\ ~link[c]
    /\ LET unseen == connecting = c /\ life[c] = "consuming"
       IN  /\ life' = [life EXCEPT ![c] = IF unseen THEN "unseen" ELSE "closed"]
           /\ blind' = (blind \/ unseen)
    /\ IF connection = c
         THEN connection' = None /\ channel' = None /\ Reconnect
         ELSE UNCHANGED <<connection, channel, timer>>
    /\ UNCHANGED <<broker, connecting, task, shutdown>>

\* A channel error closes the channel; its handler closes the connection if it is assigned.
ChannelError(c) ==
    /\ channel = c /\ link[c] /\ Spare
    /\ channel' = None
    /\ Down(c)
    /\ UNCHANGED <<life, connection, connecting, timer, task, shutdown, blind>>

\* The broker cancels the consumer, as when the queue is deleted: the callback ignores it.
CancelByBroker(c) ==
    /\ c \in tag /\ ~Destroyed
    /\ tag' = tag \ {c}
    /\ blind' = TRUE
    /\ UNCHANGED <<queue, holder, link, settled, life, refs, task, shutdown>>

-----------------------------------------------------------------------------
(* Messages                                                                *)

\* A task whose message came back to the same connection has been settled, and does
\* nothing more here.
Receive(c, m) ==
    /\ link[c] /\ c \in tag /\ life[c] = "consuming"
    /\ m \in queue /\ Cardinality(Held(c)) < Prefetch
    /\ queue' = queue \ {m}
    /\ holder' = [holder EXCEPT ![m] = c]
    /\ task' = [task EXCEPT ![c][m] = [running |-> TRUE, settled |-> FALSE]]
    /\ settled' = [settled EXCEPT ![c][m] = 0]
    /\ UNCHANGED <<link, tag, life, refs, shutdown, blind>>

\* What the broker makes of an ack or nack: nothing on a connection that is down.
Settlement(c, m, to) ==
    IF link[c]
      THEN /\ settled' = [settled EXCEPT ![c][m] = @ + 1]
           /\ IF holder[m] = c
                THEN /\ holder' = [holder EXCEPT ![m] = to]
                     /\ queue' = IF to = None THEN queue \cup {m} ELSE queue
                ELSE UNCHANGED <<holder, queue>>
      ELSE UNCHANGED <<settled, holder, queue>>

\* Mutant: the flag of the delivery is not looked at.
SettleAgain(c, m, to) == Settlement(c, m, to)

\* settle(): once for each delivery
Settle(c, m, to) ==
    IF task[c][m].settled THEN UNCHANGED <<settled, holder, queue>>
                          ELSE Settlement(c, m, to)

\* processMessage() ends: ack, a dead letter, or back to the queue.
Finish(c, m) ==
    /\ task[c][m].running
    /\ \E to \in {"gone", None} : Settle(c, m, to)
    /\ task' = [task EXCEPT ![c][m] = [running |-> FALSE, settled |-> TRUE]]
    /\ UNCHANGED <<link, tag, life, refs, shutdown, blind>>

\* The retry cycle, which the timer starts again as long as it runs.
Cycle ==
    /\ ~Destroyed \/ cycle
    /\ cycle' = ~cycle
    /\ UNCHANGED <<broker, life, refs, task, phase, waiting, late, database, blind>>

-----------------------------------------------------------------------------
(* Shutdown                                                                *)

\* SIGTERM: polling stops, and the reconnection timer is cleared.
Stop ==
    /\ phase = "running"
    /\ phase' = "connecting"
    /\ timer' = FALSE
    /\ UNCHANGED <<broker, life, connection, channel, connecting, task, waiting, late,
                   cycle, database, blind>>

Deadline ==
    /\ Destroyed /\ phase # "exited" /\ ~late
    /\ late' = TRUE
    /\ UNCHANGED <<broker, life, refs, task, phase, waiting, cycle, database, blind>>

Connected ==
    /\ phase = "connecting" /\ (connecting = None \/ late)
    /\ phase' = IF channel = None THEN "drain" ELSE "cancel"
    /\ waiting' = IF channel = None THEN Running ELSE {}
    /\ UNCHANGED <<broker, life, refs, task, late, cycle, database, blind>>

\* cancel() is answered, rejected, or not waited for any longer.
CancelConsumer ==
    /\ phase = "cancel"
    /\ tag' = tag \ {channel}
    /\ phase' = "drain"
    /\ waiting' = Running
    /\ UNCHANGED <<queue, holder, link, settled, life, refs, task, late, cycle, database,
                   blind>>

CancelUnanswered ==
    /\ phase = "cancel" /\ late
    /\ phase' = "drain"
    /\ waiting' = Running
    /\ UNCHANGED <<broker, life, refs, task, late, cycle, database, blind>>

Drained ==
    /\ phase = "drain" /\ ~late
    /\ waiting \cap Running = {}
    /\ phase' = "close"
    /\ UNCHANGED <<broker, life, refs, task, waiting, late, cycle, database, blind>>

\* At the deadline the messages that are still in work go back to the queue, at once.
Return(c, m) == task[c][m].running /\ ~task[c][m].settled
RequeueRest ==
    /\ phase = "drain" /\ late
    /\ LET rest == {d \in Pairs : Return(d[1], d[2])}
           sent == {d \in rest : link[d[1]]}
           back == {m \in Message : <<holder[m], m>> \in sent}
       IN  /\ task' = [c \in Connection |-> [m \in Message |->
                         IF <<c, m>> \in rest THEN [task[c][m] EXCEPT !.settled = TRUE]
                                              ELSE task[c][m]]]
           /\ settled' = [c \in Connection |-> [m \in Message |->
                            settled[c][m] + (IF <<c, m>> \in sent THEN 1 ELSE 0)]]
           /\ queue' = queue \cup back
           /\ holder' = [m \in Message |-> IF m \in back THEN None ELSE holder[m]]
    /\ phase' = "close"
    /\ UNCHANGED <<link, tag, life, refs, waiting, late, cycle, database, blind>>

CloseConnection ==
    /\ phase = "close"
    /\ connection' = None /\ channel' = None
    /\ IF connection # None
         THEN Down(connection) /\ life' = [life EXCEPT ![connection] = "closed"]
         ELSE UNCHANGED <<broker, life>>
    /\ phase' = "closed"
    /\ UNCHANGED <<connecting, timer, task, waiting, late, cycle, database, blind>>

\* The coordinator waits for the retry cycle, at most until the deadline, and closes the
\* database.
Exit ==
    /\ phase = "closed" /\ (~cycle \/ late)
    /\ phase' = "exited"
    /\ database' = FALSE
    /\ UNCHANGED <<broker, life, refs, task, waiting, late, cycle, blind>>

Connect == Dial \/ Refuse \/ Consume \/ Assign \/ AssignClosed \/ GiveUp
Shutdown == Stop \/ Deadline \/ Connected \/ CancelConsumer \/ CancelUnanswered
            \/ Drained \/ RequeueRest \/ CloseConnection \/ Exit
Fault == \E c \in Connection : Lose(c) \/ ChannelError(c) \/ CancelByBroker(c)
Work == \E c \in Connection, m \in Message : Receive(c, m) \/ Finish(c, m)

Next == Connect \/ Shutdown \/ Fault \/ Work \/ Cycle \/ \E c \in Connection : Notice(c)
Spec == Init /\ [][Next]_vars

\* The event loop runs what is ready, the deadline's timer fires, and a closed connection
\* is noticed by its heartbeat.  Stopping, faults and the end of a message's work are not
\* fair.
Steps == Deadline \/ Connected \/ CancelConsumer \/ CancelUnanswered \/ Drained
         \/ RequeueRest \/ CloseConnection \/ Exit
Fairness ==
    /\ SF_vars(Dial)
    /\ WF_vars(Connect) /\ WF_vars(Steps)
    /\ \A c \in Connection : WF_vars(Notice(c))
FairSpec == Spec /\ Fairness

-----------------------------------------------------------------------------
(* Properties                                                              *)

\* Every variable has its type, the references agree, and only an open consumer holds
\* messages.
TypeOK ==
    /\ queue \subseteq Message
    /\ holder \in [Message -> Connection \cup {None, "gone"}]
    /\ link \in [Connection -> BOOLEAN] /\ life \in [Connection -> Life]
    /\ tag \subseteq Connection
    /\ connection \in Connection \cup {None} /\ channel \in {connection, None}
    /\ connecting \in Connection \cup {None, "refused"} /\ timer \in BOOLEAN
    /\ task \in [Connection -> [Message -> Task]]
    /\ settled \in [Connection -> [Message -> Nat]]
    /\ phase \in Phase /\ waiting \subseteq Pairs
    /\ late \in BOOLEAN /\ cycle \in BOOLEAN /\ database \in BOOLEAN /\ blind \in BOOLEAN
    /\ \A m \in Message : (holder[m] = None) = (m \in queue)
    /\ \A m \in Message : holder[m] \in Connection => link[holder[m]]

\* A delivery is settled at the broker once, by its task or by the shutdown that no longer
\* waits for it; a connection that the worker has closed holds no message; and unless the
\* deadline has passed, the database is closed after the work on every message, of this
\* connection or an earlier one, and after the retry cycle (README, B04).
ShutdownIsGraceful ==
    /\ \A c \in Connection, m \in Message : settled[c][m] <= 1
    /\ phase \in {"closed", "exited"} =>
         \A m \in Message : holder[m] \in {None, "gone", connecting}
    /\ ~database /\ ~late => Running = {} /\ ~cycle

\* A worker that has lost its connection consumes again, whatever connections it loses on
\* the way, and one that is told to stop exits: unless it is stopped it can only fail to
\* when the broker cancels its consumer, or when the connection closed between the
\* registration of the consumer and the assignment.
Consuming == ~Destroyed /\ channel # None /\ channel \in tag
ConsumesOrExits == []<>(Consuming \/ phase = "exited" \/ (blind /\ ~Destroyed))

=============================================================================
