---------------------- MODULE ConsumerConnectionProofs ----------------------
(***************************************************************************)
(* What ConsumerConnection guarantees for every number of messages and     *)
(* connections, and wherever faults and the deadline strike.               *)
(***************************************************************************)
EXTENDS ConsumerConnection, TLAPS

-----------------------------------------------------------------------------
(* The invariant                                                           *)

\* A connection is open only while it is being opened or is assigned; the consumer of an
\* open connection that is assigned is known by its channel.
OpenOK ==
    /\ connecting # None => connection = None
    /\ \A c \in Connection : link[c] => c \in {connection, connecting}
    /\ \A c \in tag : link[c]
    /\ connection # None /\ link[connection] => channel = connection

\* A task that has yet to settle its message has not done so.
SettledOK ==
    \A c \in Connection, m \in Message :
        /\ settled[c][m] <= 1
        /\ task[c][m].running /\ ~task[c][m].settled => settled[c][m] = 0

\* While the deadline has not passed, the shutdown goes on to cancel the consumer only when
\* no connection is being opened, and so nothing arrives once it waits for the tasks.
StopOK ==
    /\ phase \in {"closed", "exited"} => connection = None
    /\ database = (phase # "exited")
    /\ ~late => /\ phase \notin {"running", "connecting"} => connecting = None
                /\ phase \in {"drain", "close", "closed", "exited"} => tag = {}
                /\ phase = "drain" => Running \subseteq waiting
                /\ phase \in {"close", "closed", "exited"} => Running = {}
                /\ phase = "exited" => ~cycle

ConnectionInv == TypeOK /\ OpenOK /\ SettledOK /\ StopOK

LEMMA Distinct ==
    /\ \A c \in Connection : c # None /\ c # "gone" /\ c # "refused"
    /\ None \notin Connection
  BY ConnectionAssumption

LEMMA RunningIs ==
    /\ Running \subseteq Pairs
    /\ \A c \in Connection, m \in Message : <<c, m>> \in Running <=> task[c][m].running
  BY DEF Running, Pairs

LEMMA SameTasks ==
    ASSUME UNCHANGED <<task, settled>>
    PROVE  Running' = Running /\ (SettledOK => SettledOK')
  BY DEF Running, SettledOK

LEMMA TaskType ==
    ASSUME ConnectionInv, NEW c \in Connection, NEW m \in Message
    PROVE  /\ task[c][m] \in Task /\ settled[c][m] \in Nat /\ settled[c][m] <= 1
           /\ task[c][m].running /\ ~task[c][m].settled => settled[c][m] = 0
  <1>1. task[c] \in [Message -> Task] /\ settled[c] \in [Message -> Nat]
    BY DEF ConnectionInv, TypeOK
  <1>2. QED
    BY <1>1 DEF ConnectionInv, SettledOK

\* The broker's end of a connection goes down.
LEMMA DownFacts ==
    ASSUME ConnectionInv, NEW c \in Connection, Down(c)
    PROVE  /\ queue' \subseteq Message /\ holder' \in [Message -> Connection \cup {None, "gone"}]
           /\ link' \in [Connection -> BOOLEAN] /\ ~link'[c]
           /\ \A d \in Connection : d # c => link'[d] = link[d]
           /\ tag' = tag \ {c} /\ settled' = settled
           /\ \A m \in Message : (holder'[m] = None) = (m \in queue')
           /\ \A m \in Message : holder'[m] \in Connection => link'[holder'[m]]
  <1>1. /\ link' = [link EXCEPT ![c] = FALSE] /\ tag' = tag \ {c} /\ settled' = settled
        /\ queue' = queue \cup Held(c)
        /\ holder' = [m \in Message |-> IF m \in Held(c) THEN None ELSE holder[m]]
    BY DEF Down, Requeue
  <1>2. /\ link' \in [Connection -> BOOLEAN] /\ ~link'[c]
        /\ \A d \in Connection : d # c => link'[d] = link[d]
    BY <1>1 DEF ConnectionInv, TypeOK
  <1>3. \A m \in Message : m \in Held(c) <=> holder[m] = c
    BY DEF Held
  <1>4. queue' \subseteq Message /\ holder' \in [Message -> Connection \cup {None, "gone"}]
    BY <1>1 DEF ConnectionInv, TypeOK, Held
  <1>5. ASSUME NEW m \in Message
        PROVE  /\ (holder'[m] = None) = (m \in queue')
               /\ holder'[m] \in Connection => link'[holder'[m]]
    BY <1>1, <1>2, <1>3, Distinct DEF ConnectionInv, TypeOK
  <1>6. QED
    BY <1>1, <1>2, <1>4, <1>5

-----------------------------------------------------------------------------
(* Connecting                                                              *)

LEMMA DialKeeps == ASSUME ConnectionInv, Dial PROVE ConnectionInv'
  <1> DEFINE c == CHOOSE d \in Connection : Unused(d)
  <1>1. /\ c \in Connection
        /\ life' = [life EXCEPT ![c] = "dialled"] /\ link' = [link EXCEPT ![c] = TRUE]
        /\ connecting' = c
    BY DEF Dial, Spare
  <1>2. /\ ~Destroyed /\ connection = None /\ connecting = None /\ timer' = FALSE
        /\ UNCHANGED <<queue, holder, tag, settled, connection, channel, task, shutdown, blind>>
    BY DEF Dial, Trigger
  <1> HIDE DEF c
  <1>3. TypeOK'
    BY <1>1, <1>2 DEF ConnectionInv, TypeOK, Life, shutdown
  <1>4. OpenOK'
    BY <1>1, <1>2, Distinct DEF ConnectionInv, TypeOK, OpenOK
  <1>5. SettledOK' /\ StopOK'
    BY <1>2, SameTasks DEF ConnectionInv, StopOK, Destroyed, shutdown
  <1>6. QED
    BY <1>3, <1>4, <1>5 DEF ConnectionInv

LEMMA RefuseKeeps == ASSUME ConnectionInv, Refuse PROVE ConnectionInv'
  <1>1. /\ ~Destroyed /\ connection = None /\ connecting = None /\ timer' = FALSE
        /\ connecting' = "refused"
        /\ UNCHANGED <<broker, life, connection, channel, task, shutdown, blind>>
    BY DEF Refuse, Trigger
  <1>2. TypeOK'
    BY <1>1 DEF ConnectionInv, TypeOK, broker, shutdown
  <1>3. OpenOK'
    BY <1>1, Distinct DEF ConnectionInv, OpenOK, broker
  <1>4. SettledOK' /\ StopOK'
    BY <1>1, SameTasks DEF ConnectionInv, StopOK, Destroyed, shutdown, broker
  <1>5. QED
    BY <1>2, <1>3, <1>4 DEF ConnectionInv

LEMMA ConsumeKeeps == ASSUME ConnectionInv, Consume PROVE ConnectionInv'
  <1>1. /\ connecting \in Connection /\ link[connecting]
        /\ life' = [life EXCEPT ![connecting] = "consuming"]
        /\ tag' = tag \cup {connecting}
        /\ UNCHANGED <<queue, holder, link, settled, refs, task, shutdown, blind>>
    BY DEF Consume
  <1>2. TypeOK'
    BY <1>1 DEF ConnectionInv, TypeOK, Life, refs, shutdown
  <1>3. OpenOK'
    BY <1>1 DEF ConnectionInv, OpenOK, refs
  <1>4. SettledOK' /\ StopOK'
    <2>1. late \/ phase \in {"running", "connecting"}
      BY <1>1, Distinct DEF ConnectionInv, StopOK
    <2>2. QED
      BY <1>1, <2>1, SameTasks DEF ConnectionInv, StopOK, shutdown, refs
  <1>5. QED
    BY <1>2, <1>3, <1>4 DEF ConnectionInv

LEMMA AssignKeeps == ASSUME ConnectionInv, Assign \/ AssignClosed PROVE ConnectionInv'
  <1>1. /\ connecting \in Connection /\ ~Destroyed
        /\ connection' = connecting /\ channel' = connecting /\ connecting' = None
        /\ UNCHANGED <<broker, life, timer, task, shutdown, blind>>
    BY DEF Assign, AssignClosed
  <1>2. TypeOK'
    BY <1>1 DEF ConnectionInv, TypeOK, broker, shutdown
  <1>3. OpenOK'
    BY <1>1, Distinct DEF ConnectionInv, OpenOK, broker
  <1>4. SettledOK' /\ StopOK'
    BY <1>1, SameTasks DEF ConnectionInv, StopOK, Destroyed, shutdown, broker
  <1>5. QED
    BY <1>2, <1>3, <1>4 DEF ConnectionInv

LEMMA GiveUpKeeps == ASSUME ConnectionInv, GiveUp PROVE ConnectionInv'
  <1>1. /\ connecting # None /\ connecting' = None /\ connection = None
        /\ UNCHANGED <<connection, channel, task, shutdown, blind>>
    BY DEF GiveUp, ConnectionInv, OpenOK
  <1>2. timer' \in BOOLEAN
    BY DEF GiveUp, Reconnect, ConnectionInv, TypeOK
  <1>3. CASE connecting \in Connection
    <2>1. Down(connecting) /\ life' = [life EXCEPT ![connecting] = "closed"]
      BY <1>3 DEF GiveUp
    <2>2. TypeOK'
      BY <1>1, <1>2, <1>3, <2>1, DownFacts DEF ConnectionInv, TypeOK, Life, shutdown
    <2>3. /\ ~link'[connecting] /\ tag' = tag \ {connecting}
          /\ \A d \in Connection : d # connecting => link'[d] = link[d]
      BY <1>3, <2>1, DownFacts
    <2>4. OpenOK'
      BY <1>1, <1>3, <2>3 DEF ConnectionInv, TypeOK, OpenOK
    <2>5. settled' = settled /\ tag' \subseteq tag
      BY <1>3, <2>1, DownFacts
    <2>6. SettledOK' /\ StopOK'
      BY <1>1, <2>5, SameTasks DEF ConnectionInv, StopOK, shutdown
    <2>7. QED
      BY <2>2, <2>4, <2>6 DEF ConnectionInv
  <1>4. CASE connecting \notin Connection
    <2>1. UNCHANGED <<life, broker>>
      BY <1>4 DEF GiveUp
    <2>2. TypeOK'
      BY <1>1, <1>2, <2>1 DEF ConnectionInv, TypeOK, broker, shutdown
    <2>3. OpenOK'
      BY <1>1, <1>4, <2>1 DEF ConnectionInv, OpenOK, broker
    <2>4. SettledOK' /\ StopOK'
      BY <1>1, <2>1, SameTasks DEF ConnectionInv, StopOK, shutdown, broker
    <2>5. QED
      BY <2>2, <2>3, <2>4 DEF ConnectionInv
  <1>5. QED
    BY <1>3, <1>4

-----------------------------------------------------------------------------
(* Losing a connection                                                     *)

LEMMA LoseKeeps ==
    ASSUME ConnectionInv, NEW c \in Connection, Lose(c) \/ ChannelError(c)
    PROVE  ConnectionInv'
  <1>1. /\ Down(c) /\ channel' \in {channel, None}
        /\ channel' # channel => channel = c
        /\ UNCHANGED <<life, connection, connecting, timer, task, shutdown, blind>>
    BY DEF Lose, ChannelError, refs
  <1>2. TypeOK'
    BY <1>1, DownFacts DEF ConnectionInv, TypeOK, shutdown
  <1>3. OpenOK'
    BY <1>1, DownFacts DEF ConnectionInv, TypeOK, OpenOK
  <1>4. settled' = settled /\ tag' \subseteq tag
    BY <1>1, DownFacts
  <1>5. SettledOK' /\ StopOK'
    BY <1>1, <1>4, SameTasks DEF ConnectionInv, StopOK, shutdown
  <1>6. QED
    BY <1>2, <1>3, <1>5 DEF ConnectionInv

LEMMA NoticeKeeps ==
    ASSUME ConnectionInv, NEW c \in Connection, Notice(c)
    PROVE  ConnectionInv'
  <1>1. /\ ~link[c] /\ life' \in [Connection -> Life] /\ blind' \in BOOLEAN
        /\ timer' \in BOOLEAN
        /\ IF connection = c THEN connection' = None /\ channel' = None
                             ELSE UNCHANGED <<connection, channel>>
        /\ UNCHANGED <<broker, connecting, task, shutdown>>
    BY DEF Notice, Reconnect, ConnectionInv, TypeOK, Life
  <1>2. TypeOK'
    BY <1>1 DEF ConnectionInv, TypeOK, broker, shutdown
  <1>3. OpenOK'
    BY <1>1 DEF ConnectionInv, OpenOK, broker
  <1>4. SettledOK' /\ StopOK'
    BY <1>1, SameTasks DEF ConnectionInv, StopOK, shutdown, broker
  <1>5. QED
    BY <1>2, <1>3, <1>4 DEF ConnectionInv

LEMMA CancelByBrokerKeeps ==
    ASSUME ConnectionInv, NEW c \in Connection, CancelByBroker(c)
    PROVE  ConnectionInv'
  <1>1. /\ tag' = tag \ {c} /\ blind' = TRUE
        /\ UNCHANGED <<queue, holder, link, settled, life, refs, task, shutdown>>
    BY DEF CancelByBroker
  <1>2. TypeOK'
    BY <1>1 DEF ConnectionInv, TypeOK, refs, shutdown
  <1>3. OpenOK'
    BY <1>1 DEF ConnectionInv, OpenOK, refs
  <1>4. SettledOK' /\ StopOK'
    BY <1>1, SameTasks DEF ConnectionInv, StopOK, shutdown, refs
  <1>5. QED
    BY <1>2, <1>3, <1>4 DEF ConnectionInv

-----------------------------------------------------------------------------
(* Messages                                                                *)

LEMMA ReceiveKeeps ==
    ASSUME ConnectionInv, NEW c \in Connection, NEW m \in Message, Receive(c, m)
    PROVE  ConnectionInv'
  <1>1. /\ link[c] /\ c \in tag /\ m \in queue
        /\ queue' = queue \ {m} /\ holder' = [holder EXCEPT ![m] = c]
        /\ task' = [task EXCEPT ![c][m] = [running |-> TRUE, settled |-> FALSE]]
        /\ settled' = [settled EXCEPT ![c][m] = 0]
        /\ UNCHANGED <<link, tag, life, refs, shutdown, blind>>
    BY DEF Receive
  <1>2. TypeOK'
    <2>1. task' \in [Connection -> [Message -> Task]]
      BY <1>1 DEF ConnectionInv, TypeOK, Task
    <2>2. settled' \in [Connection -> [Message -> Nat]]
      BY <1>1 DEF ConnectionInv, TypeOK
    <2>3. /\ queue' \subseteq Message /\ holder' \in [Message -> Connection \cup {None, "gone"}]
          /\ \A n \in Message : (holder'[n] = None) = (n \in queue')
          /\ \A n \in Message : holder'[n] \in Connection => link[holder'[n]]
      BY <1>1, Distinct DEF ConnectionInv, TypeOK
    <2>4. QED
      BY <1>1, <2>1, <2>2, <2>3 DEF ConnectionInv, TypeOK, refs, shutdown
  <1>3. OpenOK'
    BY <1>1 DEF ConnectionInv, OpenOK, refs
  <1>4. SettledOK'
    <2>1. ASSUME NEW d \in Connection, NEW n \in Message
          PROVE  IF d = c /\ n = m THEN settled'[d][n] = 0
                 ELSE settled'[d][n] = settled[d][n] /\ task'[d][n] = task[d][n]
      BY <1>1 DEF ConnectionInv, TypeOK
    <2>2. QED
      BY <2>1 DEF ConnectionInv, SettledOK
  <1>5. StopOK'
    BY <1>1 DEF ConnectionInv, StopOK, shutdown, refs
  <1>6. QED
    BY <1>2, <1>3, <1>4, <1>5 DEF ConnectionInv

LEMMA FinishKeeps ==
    ASSUME ConnectionInv, NEW c \in Connection, NEW m \in Message, Finish(c, m)
    PROVE  ConnectionInv'
  <1>1. PICK to \in {"gone", None} : Settle(c, m, to)
    BY DEF Finish
  <1>2. /\ task[c][m].running
        /\ task' = [task EXCEPT ![c][m] = [running |-> FALSE, settled |-> TRUE]]
        /\ UNCHANGED <<link, tag, life, refs, shutdown, blind>>
    BY DEF Finish
  <1>3. /\ \/ UNCHANGED settled
           \/ ~task[c][m].settled /\ settled' = [settled EXCEPT ![c][m] = settled[c][m] + 1]
        /\ \/ UNCHANGED <<holder, queue>>
           \/ /\ holder' = [holder EXCEPT ![m] = to]
              /\ queue' = IF to = None THEN queue \cup {m} ELSE queue
              /\ holder[m] = c
    BY <1>1 DEF Settle, Settlement
  <1>4. TypeOK'
    <2>1. task' \in [Connection -> [Message -> Task]]
      BY <1>2 DEF ConnectionInv, TypeOK, Task
    <2>2. settled' \in [Connection -> [Message -> Nat]]
      <3>1. CASE UNCHANGED settled
        BY <3>1 DEF ConnectionInv, TypeOK
      <3>2. CASE settled' = [settled EXCEPT ![c][m] = settled[c][m] + 1]
        BY <3>2 DEF ConnectionInv, TypeOK
      <3>3. QED
        BY <1>3, <3>1, <3>2
    <2>3. /\ queue' \subseteq Message /\ holder' \in [Message -> Connection \cup {None, "gone"}]
          /\ \A n \in Message : (holder'[n] = None) = (n \in queue')
          /\ \A n \in Message : holder'[n] \in Connection => link[holder'[n]]
      <3>1. CASE UNCHANGED <<holder, queue>>
        BY <3>1 DEF ConnectionInv, TypeOK
      <3>2. CASE to = None /\ holder' = [holder EXCEPT ![m] = to] /\ queue' = queue \cup {m}
        BY <3>2, Distinct DEF ConnectionInv, TypeOK
      <3>3. CASE /\ to = "gone" /\ to # None /\ holder' = [holder EXCEPT ![m] = to]
                 /\ queue' = queue /\ holder[m] = c
        BY <3>3, Distinct DEF ConnectionInv, TypeOK
      <3>4. QED
        BY <1>3, <3>1, <3>2, <3>3
    <2>4. QED
      BY <1>2, <2>1, <2>2, <2>3 DEF ConnectionInv, TypeOK, refs, shutdown
  <1>5. OpenOK'
    BY <1>2 DEF ConnectionInv, OpenOK, refs
  <1>6. ASSUME NEW d \in Connection, NEW n \in Message
        PROVE  IF d = c /\ n = m THEN ~task'[d][n].running ELSE task'[d][n] = task[d][n]
    BY <1>2 DEF ConnectionInv, TypeOK
  <1>7. SettledOK'
    <2>1. ASSUME NEW d \in Connection, NEW n \in Message
          PROVE  IF d = c /\ n = m THEN settled'[d][n] <= 1
                 ELSE settled'[d][n] = settled[d][n]
      BY <1>2, <1>3 DEF ConnectionInv, TypeOK, SettledOK
    <2>2. QED
      BY <1>6, <2>1 DEF ConnectionInv, SettledOK
  <1>8. StopOK'
    <2>1. Running' \subseteq Running
      BY <1>6 DEF Running, Pairs
    <2>2. QED
      BY <1>2, <2>1 DEF ConnectionInv, StopOK, shutdown, refs
  <1>9. QED
    BY <1>4, <1>5, <1>7, <1>8 DEF ConnectionInv

LEMMA CycleKeeps == ASSUME ConnectionInv, Cycle PROVE ConnectionInv'
  <1>1. /\ ~Destroyed \/ cycle
        /\ cycle' = ~cycle
        /\ UNCHANGED <<broker, life, refs, task, phase, waiting, late, database, blind>>
    BY DEF Cycle
  <1>2. TypeOK'
    BY <1>1 DEF ConnectionInv, TypeOK, broker, refs
  <1>3. OpenOK'
    BY <1>1 DEF ConnectionInv, OpenOK, broker, refs
  <1>4. SettledOK' /\ StopOK'
    BY <1>1, SameTasks DEF ConnectionInv, StopOK, Destroyed, broker, refs
  <1>5. QED
    BY <1>2, <1>3, <1>4 DEF ConnectionInv

-----------------------------------------------------------------------------
(* Shutdown                                                                *)

LEMMA StopKeeps == ASSUME ConnectionInv, Stop \/ Deadline PROVE ConnectionInv'
  <1>1. CASE Stop
    <2>1. /\ phase = "running" /\ phase' = "connecting" /\ timer' = FALSE
          /\ UNCHANGED <<broker, life, connection, channel, connecting, task, waiting, late,
                         cycle, database, blind>>
      BY <1>1 DEF Stop
    <2>2. TypeOK' /\ OpenOK'
      BY <2>1 DEF ConnectionInv, TypeOK, OpenOK, Phase, broker
    <2>3. SettledOK' /\ StopOK'
      BY <2>1, SameTasks DEF ConnectionInv, StopOK, broker
    <2>4. QED
      BY <2>2, <2>3 DEF ConnectionInv
  <1>2. CASE Deadline
    <2>1. /\ late' = TRUE
          /\ UNCHANGED <<broker, life, refs, task, phase, waiting, cycle, database, blind>>
      BY <1>2 DEF Deadline
    <2>2. TypeOK' /\ OpenOK'
      BY <2>1 DEF ConnectionInv, TypeOK, OpenOK, broker, refs
    <2>3. SettledOK' /\ StopOK'
      BY <2>1, SameTasks DEF ConnectionInv, StopOK, broker, refs
    <2>4. QED
      BY <2>2, <2>3 DEF ConnectionInv
  <1>3. QED
    BY <1>1, <1>2

\* When no connection is being opened, a consumer that the broker serves is that of the
\* assigned channel.
LEMMA OneConsumer == ASSUME ConnectionInv, connecting = None PROVE tag \subseteq {channel} \ {None}
  BY Distinct DEF ConnectionInv, TypeOK, OpenOK

LEMMA ConnectedKeeps == ASSUME ConnectionInv, Connected PROVE ConnectionInv'
  <1>1. /\ phase = "connecting" /\ (connecting = None \/ late)
        /\ phase' = IF channel = None THEN "drain" ELSE "cancel"
        /\ waiting' = IF channel = None THEN Running ELSE {}
        /\ UNCHANGED <<broker, life, refs, task, late, cycle, database, blind>>
    BY DEF Connected
  <1>2. TypeOK' /\ OpenOK'
    BY <1>1, RunningIs DEF ConnectionInv, TypeOK, OpenOK, Phase, broker, refs
  <1>3. SettledOK' /\ StopOK'
    BY <1>1, SameTasks, OneConsumer DEF ConnectionInv, StopOK, broker, refs
  <1>4. QED
    BY <1>2, <1>3 DEF ConnectionInv

LEMMA CancelKeeps ==
    ASSUME ConnectionInv, CancelConsumer \/ CancelUnanswered
    PROVE  ConnectionInv'
  <1>1. /\ phase = "cancel" /\ phase' = "drain" /\ waiting' = Running
        /\ tag' = tag \ {channel} \/ (late /\ tag' = tag)
        /\ UNCHANGED <<queue, holder, link, settled, life, refs, task, late, cycle, database,
                       blind>>
    BY DEF CancelConsumer, CancelUnanswered, broker
  <1>2. TypeOK' /\ OpenOK'
    BY <1>1, RunningIs DEF ConnectionInv, TypeOK, OpenOK, Phase, refs
  <1>3. SettledOK' /\ StopOK'
    BY <1>1, SameTasks, OneConsumer DEF ConnectionInv, StopOK, refs
  <1>4. QED
    BY <1>2, <1>3 DEF ConnectionInv

LEMMA DrainedKeeps == ASSUME ConnectionInv, Drained PROVE ConnectionInv'
  <1>1. /\ phase = "drain" /\ waiting \cap Running = {} /\ phase' = "close"
        /\ UNCHANGED <<broker, life, refs, task, waiting, late, cycle, database, blind>>
    BY DEF Drained
  <1>2. TypeOK' /\ OpenOK'
    BY <1>1 DEF ConnectionInv, TypeOK, OpenOK, Phase, broker, refs
  <1>3. SettledOK' /\ StopOK'
    BY <1>1, SameTasks DEF ConnectionInv, StopOK, broker, refs
  <1>4. QED
    BY <1>2, <1>3 DEF ConnectionInv

LEMMA RequeueRestKeeps == ASSUME ConnectionInv, RequeueRest PROVE ConnectionInv'
  <1> DEFINE rest == {d \in Pairs : Return(d[1], d[2])}
             sent == {d \in rest : link[d[1]]}
             back == {m \in Message : <<holder[m], m>> \in sent}
  <1>1. /\ phase = "drain" /\ late /\ phase' = "close"
        /\ task' = [c \in Connection |-> [m \in Message |->
                      IF <<c, m>> \in rest THEN [task[c][m] EXCEPT !.settled = TRUE]
                                           ELSE task[c][m]]]
        /\ settled' = [c \in Connection |-> [m \in Message |->
                         settled[c][m] + (IF <<c, m>> \in sent THEN 1 ELSE 0)]]
        /\ queue' = queue \cup back
        /\ holder' = [m \in Message |-> IF m \in back THEN None ELSE holder[m]]
        /\ UNCHANGED <<link, tag, life, refs, waiting, late, cycle, database, blind>>
    BY DEF RequeueRest
  <1>2. ASSUME NEW c \in Connection, NEW m \in Message
        PROVE  /\ <<c, m>> \in rest <=> task[c][m].running /\ ~task[c][m].settled
               /\ <<c, m>> \in sent => <<c, m>> \in rest
    BY DEF Pairs, Return
  <1> HIDE DEF rest, sent
  <1>3. TypeOK'
    <2>1. task' \in [Connection -> [Message -> Task]]
      <3>1. ASSUME NEW c \in Connection, NEW m \in Message
            PROVE  task[c][m] \in Task /\ [task[c][m] EXCEPT !.settled = TRUE] \in Task
        <4>1. PICK y \in Task : y = task[c][m]
          BY TaskType
        <4>2. QED
          BY <4>1 DEF Task
      <3>2. QED
        BY <1>1, <3>1
    <2>2. settled' \in [Connection -> [Message -> Nat]]
      BY <1>1 DEF ConnectionInv, TypeOK
    <2>3. /\ queue' \subseteq Message /\ holder' \in [Message -> Connection \cup {None, "gone"}]
          /\ \A n \in Message : (holder'[n] = None) = (n \in queue')
          /\ \A n \in Message : holder'[n] \in Connection => link[holder'[n]]
      BY <1>1, Distinct DEF ConnectionInv, TypeOK
    <2>4. QED
      BY <1>1, <2>1, <2>2, <2>3 DEF ConnectionInv, TypeOK, Phase, refs
  <1>4. OpenOK'
    BY <1>1 DEF ConnectionInv, OpenOK, refs
  <1>5. SettledOK'
    <2>1. ASSUME NEW c \in Connection, NEW m \in Message
          PROVE  /\ settled'[c][m] <= 1
                 /\ task'[c][m].running /\ ~task'[c][m].settled => settled'[c][m] = 0
      <3>1. CASE <<c, m>> \in rest
        <4>1. settled[c][m] = 0
          BY <1>2, <3>1, TaskType
        <4>2. settled'[c][m] <= 1
          BY <1>1, <4>1
        <4>3. PICK y \in Task : y = task[c][m]
          BY TaskType
        <4>4. task'[c][m].settled
          BY <1>1, <3>1, <4>3 DEF Task
        <4>5. QED
          BY <4>2, <4>4
      <3>2. CASE <<c, m>> \notin rest
        <4>1. settled'[c][m] = settled[c][m] /\ task'[c][m] = task[c][m]
          BY <1>1, <1>2, <3>2 DEF ConnectionInv, TypeOK
        <4>2. QED
          BY <4>1 DEF ConnectionInv, SettledOK
      <3>3. QED
        BY <3>1, <3>2
    <2>2. QED
      BY <2>1 DEF SettledOK
  <1>6. StopOK'
    BY <1>1 DEF ConnectionInv, StopOK
  <1>7. QED
    BY <1>3, <1>4, <1>5, <1>6 DEF ConnectionInv

LEMMA CloseKeeps == ASSUME ConnectionInv, CloseConnection PROVE ConnectionInv'
  <1>1. /\ phase = "close" /\ phase' = "closed" /\ connection' = None /\ channel' = None
        /\ UNCHANGED <<connecting, timer, task, waiting, late, cycle, database, blind>>
    BY DEF CloseConnection
  <1>2. CASE connection # None
    <2>1. connection \in Connection
      BY <1>2 DEF ConnectionInv, TypeOK
    <2>2. Down(connection) /\ life' = [life EXCEPT ![connection] = "closed"]
      BY <1>2 DEF CloseConnection
    <2>3. TypeOK'
      BY <1>1, <2>1, <2>2, DownFacts DEF ConnectionInv, TypeOK, Life, Phase
    <2>4. OpenOK'
      BY <1>1, <2>1, <2>2, DownFacts DEF ConnectionInv, TypeOK, OpenOK
    <2>5. settled' = settled /\ tag' \subseteq tag
      BY <2>1, <2>2, DownFacts
    <2>6. SettledOK' /\ StopOK'
      BY <1>1, <2>5, SameTasks DEF ConnectionInv, StopOK
    <2>7. QED
      BY <2>3, <2>4, <2>6 DEF ConnectionInv
  <1>3. CASE connection = None
    <2>1. UNCHANGED <<broker, life>>
      BY <1>3 DEF CloseConnection
    <2>2. TypeOK' /\ OpenOK'
      BY <1>1, <1>3, <2>1 DEF ConnectionInv, TypeOK, OpenOK, Phase, broker
    <2>3. SettledOK' /\ StopOK'
      BY <1>1, <2>1, SameTasks DEF ConnectionInv, StopOK, broker
    <2>4. QED
      BY <2>2, <2>3 DEF ConnectionInv
  <1>4. QED
    BY <1>2, <1>3

LEMMA ExitKeeps == ASSUME ConnectionInv, Exit PROVE ConnectionInv'
  <1>1. /\ phase = "closed" /\ (~cycle \/ late) /\ phase' = "exited" /\ database' = FALSE
        /\ UNCHANGED <<broker, life, refs, task, waiting, late, cycle, blind>>
    BY DEF Exit
  <1>2. TypeOK' /\ OpenOK'
    BY <1>1 DEF ConnectionInv, TypeOK, OpenOK, Phase, broker, refs
  <1>3. SettledOK' /\ StopOK'
    BY <1>1, SameTasks DEF ConnectionInv, StopOK, broker, refs
  <1>4. QED
    BY <1>2, <1>3 DEF ConnectionInv

-----------------------------------------------------------------------------
(* Theorems                                                                *)

LEMMA ConnectionInit == Init => ConnectionInv
  <1> SUFFICES ASSUME Init PROVE ConnectionInv
    OBVIOUS
  <1>1. TypeOK
    BY Distinct DEF Init, TypeOK, Life, Phase, Task, NoTask
  <1>2. OpenOK /\ SettledOK
    BY DEF Init, OpenOK, SettledOK, NoTask
  <1>3. StopOK
    BY DEF Init, StopOK
  <1>4. QED
    BY <1>1, <1>2, <1>3 DEF ConnectionInv

LEMMA ConnectionNext == ConnectionInv /\ [Next]_vars => ConnectionInv'
  <1> SUFFICES ASSUME ConnectionInv, [Next]_vars PROVE ConnectionInv'
    OBVIOUS
  <1>1. CASE Connect
    BY <1>1, DialKeeps, RefuseKeeps, ConsumeKeeps, AssignKeeps, GiveUpKeeps DEF Connect
  <1>2. CASE Shutdown
    BY <1>2, StopKeeps, ConnectedKeeps, CancelKeeps, DrainedKeeps, RequeueRestKeeps, CloseKeeps,
       ExitKeeps
    DEF Shutdown
  <1>3. CASE Fault
    BY <1>3, LoseKeeps, CancelByBrokerKeeps DEF Fault
  <1>4. CASE Work
    BY <1>4, ReceiveKeeps, FinishKeeps DEF Work
  <1>5. CASE Cycle
    BY <1>5, CycleKeeps
  <1>6. CASE \E c \in Connection : Notice(c)
    BY <1>6, NoticeKeeps
  <1>7. CASE UNCHANGED vars
    <2>1. TypeOK' /\ OpenOK'
      BY <1>7 DEF ConnectionInv, TypeOK, OpenOK, vars, broker, refs, shutdown
    <2>2. SettledOK' /\ StopOK'
      BY <1>7, SameTasks DEF ConnectionInv, StopOK, vars, broker, refs, shutdown
    <2>3. QED
      BY <2>1, <2>2 DEF ConnectionInv
  <1>8. QED
    BY <1>1, <1>2, <1>3, <1>4, <1>5, <1>6, <1>7 DEF Next

LEMMA ConnectionInvariant == Spec => []ConnectionInv
  BY ConnectionInit, ConnectionNext, PTL DEF Spec

\* Every variable of the worker's connection keeps its type; the channel is that of the
\* assigned connection; and a message is held by no connection that is down.
THEOREM ConnectionTypes == Spec => []TypeOK
  <1>1. ConnectionInv => TypeOK
    BY DEF ConnectionInv
  <1>2. QED
    BY <1>1, ConnectionInvariant, PTL

\* However connections are lost, opened and given up around it, a shutdown settles each
\* delivery once, leaves the closed connection without a message, and, unless its deadline
\* has passed, closes the database after all work on messages and the retry cycle.
THEOREM GracefulShutdown == Spec => []ShutdownIsGraceful
  <1>1. ConnectionInv => ShutdownIsGraceful
    <2> SUFFICES ASSUME ConnectionInv PROVE ShutdownIsGraceful
      OBVIOUS
    <2>1. \A c \in Connection, m \in Message : settled[c][m] <= 1
      BY DEF ConnectionInv, SettledOK
    <2>2. ASSUME phase \in {"closed", "exited"}, NEW m \in Message
          PROVE  holder[m] \in {None, "gone", connecting}
      BY <2>2, Distinct DEF ConnectionInv, TypeOK, OpenOK, StopOK
    <2>3. ~database /\ ~late => Running = {} /\ ~cycle
      BY DEF ConnectionInv, StopOK
    <2>4. QED
      BY <2>1, <2>2, <2>3 DEF ShutdownIsGraceful
  <1>2. QED
    BY <1>1, ConnectionInvariant, PTL

==============================================================================
