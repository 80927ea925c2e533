-------------------------- MODULE NetClientProofs --------------------------
(***************************************************************************)
(* What NetClient promises for any sockets and any limits: the bytes of a  *)
(* socket reach JavaScript in order, and the loop does not end before all  *)
(* of them have.                                                           *)
(*                                                                         *)
(* Both are statements about a pipeline: chunks a task has read are in its *)
(* scratch, then in the buffer, then in queued events, then delivered. The *)
(* set of chunks in the pipeline (NothingMissing) and, for sockets whose   *)
(* order is promised, their numbering from one end to the other (Numbered) *)
(* are what every step preserves.                                          *)
(***************************************************************************)
EXTENDS NetClient, SequenceTheorems, TLAPS

\* All that two reader tasks, a full channel or a queue jumped do not concern
Single(s) == s \notin doubled
Complete(s) == state[s] = "open" /\ s \notin doubled \cup dropped
Ordered(s) == s \notin doubled \cup dropped \cup overtaken

-----------------------------------------------------------------------------
(* The invariants *)

\* The objects are those of the sockets with a handle.
ObjectsInv == \A s \in Socket : s \in objects <=> HasHandle(s)

\* Only a task that is about to append holds chunks.
ScratchInv ==
  \A s \in Socket, n \in Reader : task[s][n].at # "append" => task[s][n].scratch = <<>>

\* A socket that is not connected has received nothing and has no reader.
UnusedInv ==
  \A s \in Socket : state[s] \in {"none", "failed"} =>
    /\ peer[s] = "open" /\ taken[s] = 0 /\ got[s] = <<>> /\ buffer[s] = <<>>
    /\ Live(s) = {} /\ s \notin reading
    /\ \A n \in DOMAIN queue : queue[n].socket # s

\* All that the peer will ever send was read.
AtEnd(s) == peer[s] # "open" /\ taken[s] = sent[s]

\* A socket that was not read by two tasks at a time has one at most.
OneReader(s) == Single(s) => \A m, n \in Live(s) : m = n

\* A task ends at the end of the stream; a socket nobody reads and that is not
\* paused has reached it.
EndInv(s) ==
  state[s] = "open" =>
    /\ taken[s] <= sent[s]
    /\ peer[s] = "reset" => taken[s] = sent[s]
    /\ \A n \in Reader : task[s][n].at = "end" => AtEnd(s)
    /\ Single(s) /\ s \notin reading /\ s \notin paused => AtEnd(s) /\ Live(s) = {}

\* A socket that does not keep the loop alive has nothing left to deliver but
\* queued events.
InactiveInv(s) ==
  state[s] = "open" /\ Single(s) /\ s \notin active =>
    /\ AtEnd(s) /\ buffer[s] = <<>>
    /\ \A n \in Reader : task[s][n].at # "append"

StreamInv(s) == OneReader(s) /\ EndInv(s) /\ InactiveInv(s)

\* What the harvest has seen of the socket it is at still holds.
VisitInv ==
  /\ at \in {"reading", "buffered"} => visited \notin paused
  /\ at = "buffered" => visited \notin reading

ReturnInv == at = "returned" => active = {} /\ queue = <<>>

\* The chunks of s in queued events, and those its tasks hold.
QueuedChunks(s) ==
  UNION {ToSet(queue[n].chunks) : n \in {m \in DOMAIN queue : queue[m].socket = s}}
ScratchChunks(s) == UNION {ToSet(task[s][n].scratch) : n \in Reader}

\* Every chunk that was read is somewhere in the pipeline or delivered.
NothingMissing(s) ==
  Complete(s) =>
    ToSet(got[s]) \cup QueuedChunks(s) \cup ToSet(buffer[s]) \cup ScratchChunks(s) = 0..taken[s]

HandleInv == ObjectsInv /\ ScratchInv /\ UnusedInv

LoopInv == (\A s \in Socket : StreamInv(s)) /\ VisitInv /\ ReturnInv

-----------------------------------------------------------------------------
(* Runs of consecutive numbers *)

\* The k chunks from a on.
Numbers(a, k) == [i \in 1..k |-> a + i - 1]

\* A run of chunks is a sequence of that length.
LEMMA NumbersSeq ==
  ASSUME NEW a \in Nat, NEW k \in Nat
  PROVE  Numbers(a, k) \in Seq(Nat) /\ Len(Numbers(a, k)) = k
<1>1. Numbers(a, k) \in [1..k -> Nat]
  BY DEF Numbers
<1>2. Numbers(a, k) \in Seq(Nat)
  BY <1>1, SeqDef, Zenon
<1>3. DOMAIN Numbers(a, k) = 1..k
  BY DEF Numbers
<1> QED
  BY <1>2, <1>3

\* Two runs that meet are one.
LEMMA NumbersConcat ==
  ASSUME NEW a \in Nat, NEW k \in Nat, NEW l \in Nat
  PROVE  Numbers(a, k) \o Numbers(a + k, l) = Numbers(a, k + l)
<1> DEFINE x == Numbers(a, k)
           y == Numbers(a + k, l)
           z == Numbers(a, k + l)
<1>1. /\ x \in Seq(Nat) /\ Len(x) = k /\ y \in Seq(Nat) /\ Len(y) = l
      /\ z \in Seq(Nat) /\ Len(z) = k + l
  <2>1. a + k \in Nat /\ k + l \in Nat
    OBVIOUS
  <2> QED
    BY <2>1, NumbersSeq
<1>2. \A i \in 1..k : x[i] = a + i - 1
  BY DEF Numbers
<1>3. \A i \in 1..l : y[i] = a + k + i - 1
  BY DEF Numbers
<1>4. \A i \in 1..(k + l) : z[i] = a + i - 1
  BY DEF Numbers
<1> HIDE DEF x, y, z
<1>5. /\ x \o y \in Seq(Nat) /\ Len(x \o y) = k + l
      /\ \A i \in 1..(k + l) : (x \o y)[i] = IF i <= k THEN x[i] ELSE y[i - k]
  BY <1>1, ConcatProperties
<1>6. \A i \in 1..(k + l) : (x \o y)[i] = z[i]
  <2> TAKE i \in 1..(k + l)
  <2>1. CASE i <= k
    BY <2>1, <1>2, <1>4, <1>5
  <2>2. CASE ~(i <= k)
    <3>1. i - k \in 1..l /\ a + k + (i - k) - 1 = a + i - 1
      BY <2>2
    <3> QED
      BY <2>2, <3>1, <1>3, <1>4, <1>5
  <2> QED
    BY <2>1, <2>2
<1>7. x \o y = z
  BY <1>1, <1>5, <1>6, SeqEqual
<1> QED
  BY <1>7 DEF x, y, z

\* The chunks in a run.
LEMMA NumbersSet ==
  ASSUME NEW a \in Nat, NEW k \in Nat
  PROVE  ToSet(Numbers(a, k)) = a..(a + k - 1)
<1>1. DOMAIN Numbers(a, k) = 1..k /\ \A i \in 1..k : Numbers(a, k)[i] = a + i - 1
  BY DEF Numbers
<1>2. \A j \in a..(a + k - 1) : j - a + 1 \in 1..k /\ a + (j - a + 1) - 1 = j
  OBVIOUS
<1>3. \A i \in 1..k : a + i - 1 \in a..(a + k - 1)
  OBVIOUS
<1>4. ASSUME NEW v \in ToSet(Numbers(a, k)) PROVE v \in a..(a + k - 1)
  <2>1. PICK i \in 1..k : v = a + i - 1
    BY <1>1, <1>4 DEF ToSet
  <2> QED
    BY <2>1, <1>3
<1>5. ASSUME NEW v \in a..(a + k - 1) PROVE v \in ToSet(Numbers(a, k))
  <2>1. Numbers(a, k)[v - a + 1] = v /\ v - a + 1 \in 1..k
    BY <1>1, <1>2
  <2> QED
    BY <1>1, <2>1 DEF ToSet
<1> QED
  BY <1>4, <1>5

\* The chunks of two sequences, one after the other.
LEMMA ConcatSet ==
  ASSUME NEW x \in Seq(Nat), NEW y \in Seq(Nat)
  PROVE  ToSet(x \o y) = ToSet(x) \cup ToSet(y)
<1>1. DOMAIN (x \o y) = 1..(Len(x) + Len(y)) /\ DOMAIN x = 1..Len(x) /\ DOMAIN y = 1..Len(y)
  OBVIOUS
<1>2. \A i \in 1..Len(x) : (x \o y)[i] = x[i] /\ i \in 1..(Len(x) + Len(y))
  OBVIOUS
<1>3. \A i \in 1..Len(y) : (x \o y)[Len(x) + i] = y[i] /\ Len(x) + i \in 1..(Len(x) + Len(y))
  OBVIOUS
<1>4. \A i \in 1..(Len(x) + Len(y)) :
        \/ i \in 1..Len(x)
        \/ i - Len(x) \in 1..Len(y) /\ (x \o y)[i] = y[i - Len(x)]
  OBVIOUS
<1>5. ASSUME NEW v \in ToSet(x \o y) PROVE v \in ToSet(x) \cup ToSet(y)
  <2>1. PICK i \in 1..(Len(x) + Len(y)) : v = (x \o y)[i]
    BY <1>1, <1>5 DEF ToSet
  <2> QED
    BY <2>1, <1>1, <1>2, <1>4 DEF ToSet
<1>6. ASSUME NEW v \in ToSet(x) PROVE v \in ToSet(x \o y)
  BY <1>6, <1>1, <1>2 DEF ToSet
<1>7. ASSUME NEW v \in ToSet(y) PROVE v \in ToSet(x \o y)
  BY <1>7, <1>1, <1>3 DEF ToSet
<1> QED
  BY <1>5, <1>6, <1>7

-----------------------------------------------------------------------------
(* Types *)

\* Every variable keeps its type, with any action of net.rs and of the tasks.
LEMMA TypeInit == Init => TypeOK
BY NetAssumption DEF Init, TypeOK, Tasks, Off, Events

\* try_send changes the queue of events and the history of dropped ones.
LEMMA EnqueueTypes ==
  ASSUME TypeOK, NEW s \in Socket, NEW c \in Seq(Nat), Enqueue(Event(s, c))
  PROVE  queue' \in Seq(Events) /\ dropped' \in SUBSET Socket
<1>1. Event(s, c) \in Events
  BY DEF Event, Events
<1>2. Event(s, c).socket = s
  BY DEF Event
<1> HIDE DEF Events
<1>3. Append(queue, Event(s, c)) \in Seq(Events)
  BY <1>1 DEF TypeOK
<1> QED
  BY <1>2, <1>3 DEF Enqueue, TypeOK

\* A task is replaced by another place with an empty scratch.
LEMMA GoesToTypes ==
  ASSUME TypeOK, NEW s \in Socket, NEW n \in Reader,
         NEW place \in {"off", "check", "read", "append", "end"}, GoesTo(s, n, place)
  PROVE  task' \in [Socket -> [Reader -> Tasks]]
<1>1. [at |-> place, scratch |-> <<>>] \in Tasks
  BY DEF Tasks
<1> QED
  BY <1>1 DEF GoesTo, TypeOK

\* start_reading spawns a task or changes nothing.
LEMMA StartTypes ==
  ASSUME TypeOK, NEW s \in Socket, StartReading(s)
  PROVE  /\ reading' \in SUBSET Socket /\ doubled' \in SUBSET Socket
         /\ task' \in [Socket -> [Reader -> Tasks]]
<1>1. CASE s \in reading
  BY <1>1 DEF StartReading, TypeOK
<1>2. CASE s \notin reading
  <2>1. PICK n \in Reader : GoesTo(s, n, "check")
    BY <1>2 DEF StartReading
  <2>2. task' \in [Socket -> [Reader -> Tasks]]
    BY <2>1, GoesToTypes
  <2> QED
    BY <1>2, <2>2 DEF StartReading, TypeOK
<1> QED
  BY <1>1, <1>2

\* Types are kept by what JavaScript calls.
LEMMA TypeUser == TypeOK /\ User => TypeOK'
<1> SUFFICES ASSUME TypeOK, User PROVE TypeOK'
  OBVIOUS
<1> USE DEF TypeOK, peerVars, handleVars, loopVars, history
<1>1. ASSUME NEW s \in Socket, Connect(s) PROVE TypeOK'
  <2>1. <<0>> \in Seq(Nat)
    OBVIOUS
  <2>2. queue' \in Seq(Events) /\ dropped' \in SUBSET Socket
    BY <1>1, <2>1, EnqueueTypes DEF Connect
  <2>3. /\ reading' \in SUBSET Socket /\ doubled' \in SUBSET Socket
        /\ task' \in [Socket -> [Reader -> Tasks]]
    BY <1>1, StartTypes DEF Connect
  <2> QED
    BY <1>1, <2>2, <2>3 DEF Connect
<1>2. ASSUME NEW s \in Socket, ConnectFails(s) PROVE TypeOK'
  BY <1>2 DEF ConnectFails
<1>3. ASSUME NEW s \in Socket, Pause(s) PROVE TypeOK'
  BY <1>3 DEF Pause
<1>4. ASSUME NEW s \in Socket, Resume(s) PROVE TypeOK'
  <2>1. /\ reading' \in SUBSET Socket /\ doubled' \in SUBSET Socket
        /\ task' \in [Socket -> [Reader -> Tasks]]
    BY <1>4, StartTypes DEF Resume
  <2> QED
    BY <1>4, <2>1, SMTT(30) DEF Resume
<1>5. ASSUME NEW s \in Socket, EndWrite(s) PROVE TypeOK'
  BY <1>5 DEF EndWrite
<1>6. ASSUME NEW s \in Socket, Read(s) PROVE TypeOK'
  <2>1. got[s] \o buffer[s] \in Seq(Nat) /\ <<>> \in Seq(Nat)
    OBVIOUS
  <2>2. got' \in [Socket -> Seq(Nat)] /\ buffer' \in [Socket -> Seq(Nat)]
    BY <1>6, <2>1 DEF Read
  <2> QED
    BY <1>6, <2>2, ZenonT(60) DEF Read
<1>7. ASSUME NEW s \in Socket, Destroy(s) PROVE TypeOK'
  BY <1>7 DEF Destroy
<1> QED
  BY <1>1, <1>2, <1>3, <1>4, <1>5, <1>6, <1>7 DEF User

\* Types are kept by the keep-alive loop.
LEMMA TypeLoop == TypeOK /\ Loop => TypeOK'
<1> SUFFICES ASSUME TypeOK, Loop PROVE TypeOK'
  OBVIOUS
<1> USE DEF TypeOK, peerVars, handleVars, loopVars, history
<1>1. CASE Return
  BY <1>1 DEF Return
<1>2. ASSUME NEW s \in Socket, Harvest(s) PROVE TypeOK'
  <2>1. buffer[s] \in Seq(Nat) /\ <<>> \in Seq(Nat)
    OBVIOUS
  <2>2. queue' \in Seq(Events) /\ dropped' \in SUBSET Socket
    BY <1>2, <2>1, EnqueueTypes DEF Harvest
  <2>3. buffer' \in [Socket -> Seq(Nat)]
    BY <1>2, <2>1 DEF Harvest
  <2> QED
    BY <1>2, <2>2, <2>3, SMTT(30) DEF Harvest
<1>3. CASE LoadReading \/ LoadBuffer \/ Harvested
  BY <1>3, SMTT(30) DEF LoadReading, LoadBuffer, Harvested
<1>4. CASE Emit
  <2>1. Head(queue) \in Events /\ Tail(queue) \in Seq(Events)
    BY <1>4, HeadTailProperties DEF Emit
  <2>2. Head(queue).socket \in Socket /\ Head(queue).chunks \in Seq(Nat)
    BY <2>1 DEF Events
  <2>3. got[Head(queue).socket] \o Head(queue).chunks \in Seq(Nat)
    BY <2>2
  <2>4. got' \in [Socket -> Seq(Nat)]
    BY <1>4, <2>2, <2>3 DEF Emit
  <2>5. /\ processed' \in Nat /\ back' \in {"harvest", "emit"}
        /\ at' \in {"js", "harvest", "reading", "buffered", "emit", "returned"}
    <3>1. CASE Head(queue).socket \in objects
      BY <1>4, <3>1 DEF Emit
    <3>2. CASE Head(queue).socket \notin objects
      BY <1>4, <3>2 DEF Emit
    <3> QED
      BY <3>1, <3>2
  <2>6. /\ queue' = Tail(queue)
        /\ UNCHANGED <<peerVars, taken, handleVars, buffer, task, active, objects, todo, visited,
                       resumes, history>>
    BY <1>4 DEF Emit
  <2> QED
    BY <2>1, <2>4, <2>5, <2>6
<1>5. CASE Check
  BY <1>5 DEF Check
<1> QED
  BY <1>1, <1>2, <1>3, <1>4, <1>5 DEF Loop

\* Types are kept by the reader tasks.
LEMMA TypeTask ==
  ASSUME TypeOK, NEW s \in Socket, NEW n \in Reader, Task(s, n) PROVE TypeOK'
<1> USE DEF TypeOK, peerVars, handleVars, loopVars, history
<1>1. CASE TaskLooks(s, n)
  <2>1. task' \in [Socket -> [Reader -> Tasks]]
    BY <1>1, GoesToTypes DEF TaskLooks
  <2> QED
    BY <1>1, <2>1 DEF TaskLooks
<1>2. CASE TaskReads(s, n)
  <2>1. CASE UNCHANGED taken
    <3>1. PICK place \in {"end", "check"} : GoesTo(s, n, place)
      BY <1>2, <2>1 DEF TaskReads
    <3>2. task' \in [Socket -> [Reader -> Tasks]]
      BY <3>1, GoesToTypes, SMTT(30)
    <3> QED
      BY <1>2, <2>1, <3>2 DEF TaskReads
  <2>2. ASSUME NEW last \in (taken[s] + 1)..sent[s],
               taken' = [taken EXCEPT ![s] = last],
               task' = [task EXCEPT ![s][n] =
                          [at |-> "append",
                           scratch |-> [i \in 1..(last - taken[s]) |-> taken[s] + i]]]
        PROVE TypeOK'
    <3> DEFINE chunks == [i \in 1..(last - taken[s]) |-> taken[s] + i]
    <3>1. chunks \in Seq(Nat)
      <4>1. last - taken[s] \in Nat /\ taken[s] + 1 \in Nat
        BY <2>2
      <4>2. chunks = Numbers(taken[s] + 1, last - taken[s])
        BY <4>1, SMTT(30) DEF Numbers
      <4> QED
        BY <4>1, <4>2, NumbersSeq, SMTT(30)
    <3> HIDE DEF chunks
    <3>2. [at |-> "append", scratch |-> chunks] \in Tasks
      BY <3>1 DEF Tasks
    <3>3. task' \in [Socket -> [Reader -> Tasks]]
      BY <2>2, <3>2 DEF chunks
    <3> QED
      BY <1>2, <2>2, <3>3 DEF TaskReads
  <2> QED
    BY <1>2, <2>1, <2>2 DEF TaskReads
<1>3. CASE TaskAppends(s, n)
  <2>1. task' \in [Socket -> [Reader -> Tasks]]
    BY <1>3, GoesToTypes DEF TaskAppends
  <2>2. task[s][n].scratch \in Seq(Nat)
    BY DEF Tasks
  <2>3. buffer[s] \o task[s][n].scratch \in Seq(Nat)
    BY <2>2
  <2> QED
    BY <1>3, <2>1, <2>3 DEF TaskAppends
<1>4. CASE TaskEnds(s, n)
  <2>1. task' \in [Socket -> [Reader -> Tasks]]
    BY <1>4, GoesToTypes DEF TaskEnds
  <2> QED
    BY <1>4, <2>1 DEF TaskEnds
<1> QED
  BY <1>1, <1>2, <1>3, <1>4 DEF Task

\* Types are kept by the peer.
LEMMA TypePeer ==
  ASSUME TypeOK, NEW s \in Socket, PeerSends(s) \/ PeerEnds(s) \/ PeerResets(s)
  PROVE  TypeOK'
<1> USE DEF TypeOK, peerVars, handleVars, loopVars, history
<1>1. CASE PeerSends(s)
  BY <1>1, SMTT(30) DEF PeerSends
<1>2. CASE PeerEnds(s)
  BY <1>2 DEF PeerEnds
<1>3. CASE PeerResets(s)
  BY <1>3 DEF PeerResets
<1> QED
  BY <1>1, <1>2, <1>3

\* Types are kept by every step.
LEMMA TypeStep == TypeOK /\ [Next]_vars => TypeOK'
<1> SUFFICES ASSUME TypeOK, [Next]_vars PROVE TypeOK'
  OBVIOUS
<1>1. CASE UNCHANGED vars
  BY <1>1 DEF TypeOK, vars, peerVars, handleVars, loopVars, history
<1> QED
  BY <1>1, TypeUser, TypeLoop, TypeTask, TypePeer DEF Next

\* Every variable of NetClient keeps its type.
THEOREM NetTypeCorrect == Spec => []TypeOK
BY TypeInit, TypeStep, PTL DEF Spec

-----------------------------------------------------------------------------
(* What the parts of an action change *)

\* One task is replaced.
Replaced(s, n, r) ==
  \A u \in Socket, m \in Reader : task'[u][m] = IF u = s /\ m = n THEN r ELSE task[u][m]

\* GoesTo replaces one task by one with an empty scratch.
LEMMA GoesToReplaces ==
  ASSUME TypeOK, NEW s \in Socket, NEW n \in Reader, NEW place, GoesTo(s, n, place)
  PROVE  Replaced(s, n, [at |-> place, scratch |-> <<>>])
BY DEF GoesTo, TypeOK, Replaced

\* A step of a task replaces that task, and chunks are held before an append only.
LEMMA TaskReplaces ==
  ASSUME TypeOK, NEW s \in Socket, NEW n \in Reader, Task(s, n)
  PROVE  \E r : Replaced(s, n, r) /\ (r.at # "append" => r.scratch = <<>>)
<1>1. CASE \E place : GoesTo(s, n, place)
  <2>1. PICK place : GoesTo(s, n, place)
    BY <1>1
  <2> DEFINE r == [at |-> place, scratch |-> <<>>]
  <2>2. Replaced(s, n, r)
    BY <2>1, GoesToReplaces
  <2>3. r.scratch = <<>>
    OBVIOUS
  <2> HIDE DEF r
  <2> QED
    BY <2>2, <2>3
<1>2. CASE \E c : task' = [task EXCEPT ![s][n] = [at |-> "append", scratch |-> c]]
  <2>1. PICK c : task' = [task EXCEPT ![s][n] = [at |-> "append", scratch |-> c]]
    BY <1>2
  <2> DEFINE r == [at |-> "append", scratch |-> c]
  <2>2. r.at = "append"
    OBVIOUS
  <2>3. task' = [task EXCEPT ![s][n] = r]
    BY <2>1
  <2> HIDE DEF r
  <2>4. Replaced(s, n, r)
    BY <2>3 DEF Replaced, TypeOK
  <2> QED
    BY <2>2, <2>4
<1> QED
  BY <1>1, <1>2 DEF Task, TaskLooks, TaskReads, TaskAppends, TaskEnds

\* The task that GoesTo moves is there.
LEMMA GoesToThere ==
  ASSUME TypeOK, NEW s \in Socket, NEW n \in Reader, NEW place, GoesTo(s, n, place)
  PROVE  task'[s][n].at = place /\ task'[s][n].scratch = <<>>
BY DEF GoesTo, TypeOK

\* try_send appends the event, or the socket has lost one.
LEMMA EnqueueFacts ==
  ASSUME TypeOK, NEW s \in Socket, NEW c \in Seq(Nat), Enqueue(Event(s, c))
  PROVE  /\ dropped \subseteq dropped' /\ dropped' \subseteq dropped \cup {s}
         /\ \/ queue' = queue /\ s \in dropped'
            \/ queue' = Append(queue, Event(s, c))
         /\ \A n \in DOMAIN queue' : \/ n \in DOMAIN queue /\ queue'[n] = queue[n]
                                     \/ queue'[n] = Event(s, c)
<1>1. Event(s, c).socket = s
  BY DEF Event
<1>2. Event(s, c) \in Events
  BY DEF Event, Events
<1>3. queue \in Seq(Events)
  BY DEF TypeOK
<1>4. \A n \in DOMAIN Append(queue, Event(s, c)) :
        \/ n \in DOMAIN queue /\ Append(queue, Event(s, c))[n] = queue[n]
        \/ Append(queue, Event(s, c))[n] = Event(s, c)
  BY <1>2, <1>3, AppendProperties
<1> QED
  BY <1>1, <1>4 DEF Enqueue

\* start_reading finds a reader, or starts one.
LEMMA StartFacts ==
  ASSUME TypeOK, NEW s \in Socket, StartReading(s)
  PROVE  \/ s \in reading /\ UNCHANGED <<reading, task, doubled>>
         \/ /\ s \notin reading /\ reading' = reading \cup {s}
            /\ \E n \in Reader \ Live(s) :
                 /\ Replaced(s, n, [at |-> "check", scratch |-> <<>>])
                 /\ doubled' = IF Live(s) = {} THEN doubled ELSE doubled \cup {s}
BY GoesToReplaces DEF StartReading

-----------------------------------------------------------------------------
(* Handles, tasks and sockets that are not connected *)

\* HandleInv holds initially.
LEMMA HandleInit == Init => HandleInv
BY DEF Init, HandleInv, ObjectsInv, ScratchInv, UnusedInv, HasHandle, Live, Off

\* HandleInv is kept by what JavaScript calls.
LEMMA HandleUser == TypeOK /\ HandleInv /\ User => HandleInv'
<1> SUFFICES ASSUME TypeOK, HandleInv, User PROVE HandleInv'
  OBVIOUS
<1> USE DEF HandleInv, ObjectsInv, ScratchInv, UnusedInv, HasHandle, Live, handleVars, peerVars
<1>1. ASSUME NEW s \in Socket, Connect(s) PROVE HandleInv'
  <2>1. \A n \in DOMAIN queue' : \/ n \in DOMAIN queue /\ queue'[n] = queue[n]
                                 \/ queue'[n] = Event(s, <<0>>)
    <3> DEFINE c == <<0>>
    <3>1. c \in Seq(Nat) /\ Enqueue(Event(s, c))
      BY <1>1 DEF Connect
    <3> HIDE DEF c
    <3>2. \A n \in DOMAIN queue' : \/ n \in DOMAIN queue /\ queue'[n] = queue[n]
                                   \/ queue'[n] = Event(s, c)
      BY <3>1, EnqueueFacts
    <3> QED
      BY <3>2 DEF c
  <2>2. Event(s, <<0>>).socket = s
    BY DEF Event
  <2>3. state' = [state EXCEPT ![s] = "open"] /\ objects' = objects \cup {s}
    BY <1>1 DEF Connect
  <2>4. ObjectsInv'
    BY <2>3 DEF TypeOK
  <2>5. PICK n \in Reader : Replaced(s, n, [at |-> "check", scratch |-> <<>>])
    BY <1>1, StartFacts DEF Connect
  <2>6. ScratchInv'
    BY <2>5 DEF Replaced
  <2>7. ASSUME NEW u \in Socket, state'[u] \in {"none", "failed"}
        PROVE /\ peer'[u] = "open" /\ taken'[u] = 0 /\ got'[u] = <<>> /\ buffer'[u] = <<>>
              /\ Live(u)' = {} /\ u \notin reading'
              /\ \A m \in DOMAIN queue' : queue'[m].socket # u
    <3>1. u # s /\ state[u] \in {"none", "failed"}
      BY <2>3, <2>7 DEF TypeOK
    <3>2. UNCHANGED <<peer, taken, got, buffer>> /\ reading' \subseteq reading \cup {s}
      BY <1>1, StartFacts DEF Connect
    <3>3. Live(u)' = {}
      BY <3>1, <2>5 DEF Replaced
    <3> QED
      BY <3>1, <3>2, <3>3, <2>1, <2>2
  <2> QED
    BY <2>4, <2>6, <2>7
<1>2. ASSUME NEW s \in Socket, ConnectFails(s) PROVE HandleInv'
  BY <1>2 DEF ConnectFails, TypeOK
<1>3. ASSUME NEW s \in Socket, Pause(s) \/ EndWrite(s) PROVE HandleInv'
  BY <1>3 DEF Pause, EndWrite
<1>4. ASSUME NEW s \in Socket, Resume(s) PROVE HandleInv'
  <2>1. CASE state[s] = "open"
    <3>1. \/ UNCHANGED <<reading, task>>
          \/ /\ reading' = reading \cup {s}
             /\ \E n \in Reader : Replaced(s, n, [at |-> "check", scratch |-> <<>>])
      BY <1>4, <2>1, StartFacts DEF Resume
    <3>2. UNCHANGED <<state, objects, peer, taken, got, buffer, queue>>
      BY <1>4 DEF Resume
    <3>3. CASE UNCHANGED <<reading, task>>
      BY <3>2, <3>3
    <3>4. CASE /\ reading' = reading \cup {s}
               /\ \E n \in Reader : Replaced(s, n, [at |-> "check", scratch |-> <<>>])
      <4>1. PICK n \in Reader : Replaced(s, n, [at |-> "check", scratch |-> <<>>])
        BY <3>4
      <4>2. ScratchInv'
        BY <4>1 DEF Replaced
      <4>3. \A u \in Socket \ {s} : Live(u)' = Live(u)
        BY <4>1 DEF Replaced
      <4>4. UnusedInv'
        BY <2>1, <3>2, <3>4, <4>3
      <4> QED
        BY <3>2, <4>2, <4>4
    <3> QED
      BY <3>1, <3>3, <3>4
  <2>2. CASE state[s] # "open"
    BY <1>4, <2>2 DEF Resume
  <2> QED
    BY <2>1, <2>2
<1>5. ASSUME NEW s \in Socket, Read(s) PROVE HandleInv'
  BY <1>5, SMTT(30) DEF Read, TypeOK
<1>6. ASSUME NEW s \in Socket, Destroy(s) PROVE HandleInv'
  BY <1>6 DEF Destroy, TypeOK
<1> QED
  BY <1>1, <1>2, <1>3, <1>4, <1>5, <1>6 DEF User

\* HandleInv is kept by the keep-alive loop.
LEMMA HandleLoop == TypeOK /\ HandleInv /\ Loop => HandleInv'
<1> SUFFICES ASSUME TypeOK, HandleInv, Loop PROVE HandleInv'
  OBVIOUS
<1> USE DEF HandleInv, ObjectsInv, ScratchInv, UnusedInv, HasHandle, Live, handleVars, peerVars
<1>1. CASE Return \/ LoadReading \/ LoadBuffer \/ Harvested \/ Check
  BY <1>1 DEF Return, LoadReading, LoadBuffer, Harvested, Check
<1>2. ASSUME NEW s \in Socket, Harvest(s) PROVE HandleInv'
  <2>1. UNCHANGED <<state, reading, objects, peer, taken, got, task>>
    BY <1>2 DEF Harvest
  <2>2. CASE UNCHANGED <<buffer, queue>>
    BY <2>1, <2>2
  <2>3. CASE buffer' = [buffer EXCEPT ![s] = <<>>] /\ UNCHANGED queue
    BY <2>1, <2>3 DEF TypeOK
  <2>4. CASE /\ buffer' = [buffer EXCEPT ![s] = <<>>]
             /\ buffer[s] # <<>> /\ Enqueue(Event(s, buffer[s]))
    <3>1. buffer[s] \in Seq(Nat)
      BY DEF TypeOK
    <3>2. \A n \in DOMAIN queue' : \/ n \in DOMAIN queue /\ queue'[n] = queue[n]
                                   \/ queue'[n] = Event(s, buffer[s])
      BY <2>4, <3>1, EnqueueFacts
    <3>3. Event(s, buffer[s]).socket = s
      BY DEF Event
    <3>4. \A u \in Socket : state[u] \in {"none", "failed"} =>
            u # s /\ buffer'[u] = <<>> /\ \A n \in DOMAIN queue' : queue'[n].socket # u
      <4> SUFFICES ASSUME NEW u \in Socket, state[u] \in {"none", "failed"}
                   PROVE  u # s /\ buffer'[u] = <<>>
                          /\ \A n \in DOMAIN queue' : queue'[n].socket # u
        OBVIOUS
      <4>1. buffer[u] = <<>> /\ \A n \in DOMAIN queue : queue[n].socket # u
        OBVIOUS
      <4>2. u # s
        BY <4>1, <2>4
      <4>3. buffer'[u] = <<>>
        BY <4>1, <4>2, <2>4 DEF TypeOK
      <4>4. \A n \in DOMAIN queue' : queue'[n].socket # u
        BY <3>2, <3>3, <4>1, <4>2
      <4> QED
        BY <4>2, <4>3, <4>4
    <3> QED
      BY <2>1, <3>4
  <2> QED
    BY <1>2, <2>2, <2>3, <2>4 DEF Harvest
<1>3. CASE Emit
  <2>1. /\ Head(queue) = queue[1] /\ Tail(queue) \in Seq(Events) /\ 1 \in DOMAIN queue
        /\ queue[1] \in Events
        /\ \A n \in DOMAIN Tail(queue) : n + 1 \in DOMAIN queue /\ Tail(queue)[n] = queue[n + 1]
    BY <1>3 DEF Emit, TypeOK
  <2>2. /\ queue' = Tail(queue)
        /\ UNCHANGED <<state, reading, objects, peer, taken, buffer, task>>
    BY <1>3 DEF Emit
  <2>3. \A u \in Socket : u # Head(queue).socket => got'[u] = got[u]
    BY <1>3, ZenonT(60) DEF Emit, TypeOK
  <2>4. UnusedInv'
    BY <2>1, <2>2, <2>3
  <2> QED
    BY <2>2, <2>4
<1> QED
  BY <1>1, <1>2, <1>3 DEF Loop

\* HandleInv is kept by the reader tasks: those of connected sockets only.
LEMMA HandleTask ==
  ASSUME TypeOK, HandleInv, NEW s \in Socket, NEW n \in Reader, Task(s, n) PROVE HandleInv'
<1> USE DEF HandleInv, ObjectsInv, ScratchInv, UnusedInv, HasHandle, Live, handleVars, peerVars
<1>1. task[s][n].at # "off" /\ n \in Live(s)
  BY DEF Task, TaskLooks, TaskReads, TaskAppends, TaskEnds
<1>2. state[s] \notin {"none", "failed"}
  BY <1>1
<1>3. UNCHANGED <<state, objects, peer, got, queue>> /\ reading' \subseteq reading
  BY DEF Task, TaskLooks, TaskReads, TaskAppends, TaskEnds
<1>4. \A u \in Socket : u # s => taken'[u] = taken[u] /\ buffer'[u] = buffer[u]
  BY DEF Task, TaskLooks, TaskReads, TaskAppends, TaskEnds, TypeOK
<1>6. PICK r : Replaced(s, n, r) /\ (r.at # "append" => r.scratch = <<>>)
  BY TaskReplaces
<1>7. ScratchInv'
  BY <1>6 DEF Replaced
<1>8. \A u \in Socket : u # s => Live(u)' = Live(u)
  BY <1>6 DEF Replaced
<1>9. UnusedInv'
  BY <1>2, <1>3, <1>4, <1>8
<1> QED
  BY <1>3, <1>7, <1>9

\* HandleInv is kept by every step.
LEMMA HandleStep == TypeOK /\ HandleInv /\ [Next]_vars => HandleInv'
<1> SUFFICES ASSUME TypeOK, HandleInv, [Next]_vars PROVE HandleInv'
  OBVIOUS
<1>1. ASSUME NEW s \in Socket, PeerSends(s) \/ PeerEnds(s) \/ PeerResets(s) PROVE HandleInv'
  <2>1. UNCHANGED <<state, objects, reading, taken, got, buffer, task, queue>>
    BY <1>1 DEF PeerSends, PeerEnds, PeerResets, handleVars
  <2>2. \A u \in Socket : state[u] \in {"none", "failed"} => peer'[u] = peer[u]
    BY <1>1 DEF PeerSends, PeerEnds, PeerResets, TypeOK
  <2> QED
    BY <2>1, <2>2 DEF HandleInv, ObjectsInv, ScratchInv, UnusedInv, HasHandle, Live
<1>2. CASE UNCHANGED vars
  BY <1>2
  DEF vars, peerVars, handleVars, HandleInv, ObjectsInv, ScratchInv, UnusedInv, HasHandle, Live
<1> QED
  BY <1>1, <1>2, HandleUser, HandleLoop, HandleTask DEF Next

-----------------------------------------------------------------------------
(* Readers, the end of the stream and what keeps the loop alive *)

\* Nothing that StreamInv says of a socket is changed.
SameStream(u) ==
  /\ <<state[u], taken[u], sent[u], peer[u], buffer[u]>>' =
       <<state[u], taken[u], sent[u], peer[u], buffer[u]>>
  /\ u \in reading' <=> u \in reading
  /\ u \in paused' <=> u \in paused
  /\ u \in active' <=> u \in active
  /\ u \in doubled' <=> u \in doubled
  /\ \A n \in Reader : task'[u][n] = task[u][n]

\* StreamInv is kept by a step that leaves the socket alone.
LEMMA StreamFrame ==
  ASSUME NEW u \in Socket, StreamInv(u), SameStream(u) PROVE StreamInv(u)'
BY DEF StreamInv, OneReader, EndInv, InactiveInv, Single, Live, AtEnd, SameStream

\* LoopInv holds initially.
LEMMA LoopInit == Init => LoopInv
BY DEF Init, LoopInv, StreamInv, OneReader, EndInv, InactiveInv, Single, Live, AtEnd, Off,
       VisitInv, ReturnInv

\* start_reading changes one socket.
LEMMA StartOthers ==
  ASSUME TypeOK, NEW s \in Socket, StartReading(s), NEW u \in Socket, u # s
  PROVE  /\ u \in reading' <=> u \in reading
         /\ u \in doubled' <=> u \in doubled
         /\ \A n \in Reader : task'[u][n] = task[u][n]
<1>1. CASE s \in reading /\ UNCHANGED <<reading, task, doubled>>
  BY <1>1
<1>2. CASE s \notin reading
  <2>1. PICK n \in Reader \ Live(s) :
          /\ Replaced(s, n, [at |-> "check", scratch |-> <<>>])
          /\ doubled' = IF Live(s) = {} THEN doubled ELSE doubled \cup {s}
    BY <1>2, StartFacts
  <2>2. reading' = reading \cup {s}
    BY <1>2, StartFacts
  <2> QED
    BY <2>1, <2>2 DEF Replaced
<1> QED
  BY <1>1, <1>2, StartFacts

\* After start_reading there is one reader, or the socket is read twice.
LEMMA StartReads ==
  ASSUME TypeOK, NEW s \in Socket, StartReading(s), OneReader(s)
  PROVE  /\ OneReader(s)' /\ s \in reading' /\ doubled \subseteq doubled'
         /\ \A n \in Reader : task'[s][n].at # "check" => task'[s][n] = task[s][n]
<1>1. CASE s \in reading /\ UNCHANGED <<reading, task, doubled>>
  BY <1>1 DEF OneReader, Live, Single
<1>2. CASE s \notin reading
  <2>1. PICK n \in Reader \ Live(s) :
          /\ Replaced(s, n, [at |-> "check", scratch |-> <<>>])
          /\ doubled' = IF Live(s) = {} THEN doubled ELSE doubled \cup {s}
    BY <1>2, StartFacts
  <2>2. reading' = reading \cup {s}
    BY <1>2, StartFacts
  <2>3. \A m \in Reader : m # n => task'[s][m] = task[s][m]
    BY <2>1 DEF Replaced
  <2>4. task'[s][n].at = "check"
    BY <2>1 DEF Replaced
  <2>5. OneReader(s)'
    BY <2>1, <2>3 DEF OneReader, Live, Single
  <2> QED
    BY <2>1, <2>2, <2>3, <2>4, <2>5
<1> QED
  BY <1>1, <1>2, StartFacts

\* LoopInv is kept by what JavaScript calls.
LEMMA LoopUser == TypeOK /\ HandleInv /\ LoopInv /\ User => LoopInv'
<1> SUFFICES ASSUME TypeOK, HandleInv, LoopInv, User PROVE LoopInv'
  OBVIOUS
<1> USE DEF peerVars, handleVars, history
<1>1. VisitInv' /\ ReturnInv'
  <2>1. at' = "js"
    BY DEF User, Connect, ConnectFails, Pause, Resume, EndWrite, Read, Destroy
  <2> QED
    BY <2>1 DEF VisitInv, ReturnInv
<1>2. ASSUME NEW s \in Socket, NEW u \in Socket,
             \/ Connect(s) \/ ConnectFails(s) \/ Pause(s) \/ Resume(s)
             \/ EndWrite(s) \/ Read(s) \/ Destroy(s)
      PROVE  StreamInv(u)'
  <2>1. StreamInv(u) /\ StreamInv(s)
    BY DEF LoopInv
  <2>2. CASE u # s
    <3>1. CASE Connect(s)
      <4>1. /\ u \in reading' <=> u \in reading
            /\ u \in doubled' <=> u \in doubled
            /\ \A n \in Reader : task'[u][n] = task[u][n]
        BY <2>2, <3>1, StartOthers DEF Connect
      <4>2. SameStream(u)
        BY <2>2, <3>1, <4>1 DEF Connect, SameStream, TypeOK
      <4> QED
        BY <4>2, <2>1, StreamFrame
    <3>2. CASE Resume(s)
      <4>1. /\ u \in reading' <=> u \in reading
            /\ u \in doubled' <=> u \in doubled
            /\ \A n \in Reader : task'[u][n] = task[u][n]
        BY <2>2, <3>2, StartOthers DEF Resume
      <4>2. SameStream(u)
        BY <2>2, <3>2, <4>1 DEF Resume, SameStream
      <4> QED
        BY <4>2, <2>1, StreamFrame
    <3>3. CASE ConnectFails(s) \/ Pause(s) \/ EndWrite(s) \/ Read(s) \/ Destroy(s)
      <4>1. SameStream(u)
        BY <2>2, <3>3 DEF ConnectFails, Pause, EndWrite, Read, Destroy, SameStream, TypeOK
      <4> QED
        BY <4>1, <2>1, StreamFrame
    <3> QED
      BY <1>2, <3>1, <3>2, <3>3
  <2>3. CASE u = s
    <3> USE DEF StreamInv, EndInv, InactiveInv, AtEnd
    <3>1. CASE Connect(s)
      <4>1. Live(s) = {} /\ taken[s] = 0 /\ peer[s] = "open"
        BY <3>1 DEF Connect, HandleInv, UnusedInv
      <4>2. /\ OneReader(s)' /\ s \in reading'
            /\ \A n \in Reader : task'[s][n].at # "check" => task'[s][n] = task[s][n]
        BY <3>1, <2>1, StartReads DEF Connect
      <4>3. \A n \in Reader : task'[s][n].at # "end"
        BY <4>1, <4>2 DEF Live
      <4>4. s \in active' /\ UNCHANGED <<taken, sent, peer, paused>>
        BY <3>1 DEF Connect
      <4>5. taken[s] <= sent[s]
        BY <4>1 DEF TypeOK
      <4>6. peer[s] = "reset" => taken[s] = sent[s]
        BY <4>1
      <4> QED
        BY <2>3, <4>2, <4>3, <4>4, <4>5, <4>6
    <3>2. CASE Resume(s) /\ state[s] = "open"
      <4>1. /\ OneReader(s)' /\ s \in reading' /\ doubled \subseteq doubled'
            /\ \A n \in Reader : task'[s][n].at # "check" => task'[s][n] = task[s][n]
        BY <3>2, <2>1, StartReads DEF Resume
      <4>2. UNCHANGED <<state, taken, sent, peer, buffer, active>>
        BY <3>2 DEF Resume
      <4> QED
        BY <2>1, <2>3, <3>2, <4>1, <4>2 DEF Single
    <3>3. CASE Resume(s) /\ state[s] # "open"
      BY <2>1, <2>3, <3>3 DEF Resume, OneReader, Single, Live
    <3>4. CASE ConnectFails(s) \/ Pause(s) \/ EndWrite(s)
      BY <2>1, <2>3, <3>4 DEF ConnectFails, Pause, EndWrite, OneReader, Single, Live, TypeOK
    <3>5. CASE Read(s)
      BY <2>1, <2>3, <3>5 DEF Read, OneReader, Single, Live, TypeOK
    <3>6. CASE Destroy(s)
      BY <2>1, <2>3, <3>6 DEF Destroy, OneReader, Single, Live, TypeOK
    <3> QED
      BY <1>2, <3>1, <3>2, <3>3, <3>4, <3>5, <3>6
  <2> QED
    BY <2>2, <2>3
<1> QED
  BY <1>1, <1>2 DEF User, LoopInv

\* LoopInv is kept by the keep-alive loop: the socket it releases is at its end.
LEMMA LoopLoop == TypeOK /\ LoopInv /\ Loop => LoopInv'
<1> SUFFICES ASSUME TypeOK, LoopInv, Loop PROVE LoopInv'
  OBVIOUS
<1> USE DEF peerVars, handleVars, history, loopVars
<1>1. CASE Return \/ LoadReading \/ Harvested \/ Emit \/ Check
  <2>1. \A u \in Socket : SameStream(u)
    BY <1>1 DEF Return, LoadReading, Harvested, Emit, Check, SameStream
  <2>2. \A u \in Socket : StreamInv(u)'
    BY <2>1, StreamFrame DEF LoopInv
  <2>3. VisitInv' /\ ReturnInv'
    BY <1>1 DEF Return, LoadReading, Harvested, Emit, Check, LoopInv, VisitInv, ReturnInv, TypeOK
  <2> QED
    BY <2>2, <2>3 DEF LoopInv
<1>2. ASSUME NEW s \in Socket, Harvest(s) PROVE LoopInv'
  <2>1. VisitInv' /\ ReturnInv'
    BY <1>2 DEF Harvest, LoopInv, VisitInv, ReturnInv
  <2>2. ASSUME NEW u \in Socket, u # s PROVE StreamInv(u)'
    <3>1. SameStream(u)
      BY <1>2, <2>2 DEF Harvest, SameStream, TypeOK
    <3> QED
      BY <3>1, StreamFrame DEF LoopInv
  <2>3. StreamInv(s)'
    <3>1. StreamInv(s)
      BY DEF LoopInv
    <3>2. buffer'[s] = buffer[s] \/ buffer'[s] = <<>>
      BY <1>2 DEF Harvest, TypeOK
    <3> QED
      BY <1>2, <3>1, <3>2 DEF Harvest, StreamInv, OneReader, EndInv, InactiveInv, AtEnd, Single,
                              Live
  <2> QED
    BY <2>1, <2>2, <2>3 DEF LoopInv
<1>3. CASE LoadBuffer
  <2>1. VisitInv' /\ ReturnInv'
    BY <1>3 DEF LoadBuffer, LoopInv, VisitInv, ReturnInv
  <2>2. ASSUME NEW u \in Socket PROVE StreamInv(u)'
    <3>1. StreamInv(u)
      BY DEF LoopInv
    <3>2. OneReader(u)' /\ EndInv(u)'
      BY <1>3, <3>1 DEF LoadBuffer, StreamInv, OneReader, EndInv, AtEnd, Single, Live
    <3>3. CASE u # visited \/ u \in active'
      BY <1>3, <3>1, <3>2, <3>3 DEF LoadBuffer, StreamInv, InactiveInv, AtEnd, Single
    <3>4. CASE u = visited /\ u \notin active'
      <4>1. u \notin reading /\ u \notin paused
        BY <1>3, <3>4 DEF LoadBuffer, LoopInv, VisitInv
      <4>2. state[u] = "open" /\ Single(u) => AtEnd(u) /\ Live(u) = {}
        BY <3>1, <4>1 DEF StreamInv, EndInv
      <4>3. u \notin active \/ buffer[u] = <<>>
        BY <1>3, <3>4 DEF LoadBuffer
      <4>4. UNCHANGED <<state, doubled, peer, taken, sent, buffer, task>>
        BY <1>3 DEF LoadBuffer
      <4>5. state[u] = "open" /\ Single(u) =>
              buffer[u] = <<>> /\ \A n \in Reader : task[u][n].at # "append"
        BY <4>2, <4>3, <3>1 DEF Live, StreamInv, InactiveInv
      <4> QED
        BY <3>2, <4>2, <4>4, <4>5 DEF StreamInv, InactiveInv, AtEnd, Single
    <3> QED
      BY <3>3, <3>4
  <2> QED
    BY <2>1, <2>2 DEF LoopInv
<1> QED
  BY <1>1, <1>2, <1>3 DEF Loop

\* LoopInv is kept by the reader tasks.
LEMMA LoopTask ==
  ASSUME TypeOK, LoopInv, NEW s \in Socket, NEW n \in Reader, Task(s, n) PROVE LoopInv'
<1> USE DEF peerVars, handleVars, history, loopVars
<1>1. VisitInv' /\ ReturnInv'
  BY DEF Task, TaskLooks, TaskReads, TaskAppends, TaskEnds, LoopInv, VisitInv, ReturnInv
<1>2. StreamInv(s)
  BY DEF LoopInv
<1>3. UNCHANGED <<state, sent, peer, paused, active, doubled>>
  BY DEF Task, TaskLooks, TaskReads, TaskAppends, TaskEnds
<1>4. \E r : Replaced(s, n, r)
  BY TaskReplaces
<1>5. ASSUME NEW u \in Socket, u # s PROVE StreamInv(u)'
  <2>1. \A m \in Reader : task'[u][m] = task[u][m]
    BY <1>4, <1>5 DEF Replaced
  <2>2. taken'[u] = taken[u] /\ buffer'[u] = buffer[u] /\ (u \in reading' <=> u \in reading)
    BY <1>5 DEF Task, TaskLooks, TaskReads, TaskAppends, TaskEnds, TypeOK
  <2>3. SameStream(u)
    BY <2>1, <2>2, <1>3 DEF SameStream
  <2> QED
    BY <2>3, StreamFrame DEF LoopInv
<1>6. n \in Live(s)
  BY DEF Task, TaskLooks, TaskReads, TaskAppends, TaskEnds, Live
<1>7. OneReader(s)'
  BY <1>2, <1>3, <1>4, <1>6 DEF StreamInv, OneReader, Single, Live, Replaced
<1>8. \A m \in Reader : m # n => task'[s][m] = task[s][m]
  BY <1>4 DEF Replaced
<1>9. state[s] = "open" /\ Single(s) => s \in reading \/ s \in paused
  BY <1>2, <1>6 DEF StreamInv, EndInv
<1>10. EndInv(s)' /\ InactiveInv(s)'
  <2> USE DEF StreamInv, EndInv, InactiveInv, AtEnd
  <2>1. CASE TaskLooks(s, n)
    <3>1. task'[s][n].at \in {"read", "off"}
      BY <2>1, GoesToThere DEF TaskLooks
    <3>2. UNCHANGED <<taken, reading, buffer>>
      BY <2>1 DEF TaskLooks
    <3> QED
      BY <1>2, <1>3, <1>8, <1>9, <3>1, <3>2 DEF Single
  <2>2. CASE TaskReads(s, n) /\ taken' = taken
    <3>1. PICK place \in {"end", "check"} : GoesTo(s, n, place)
      BY <2>2 DEF TaskReads, TypeOK
    <3>2. task'[s][n].at = place
      BY <3>1, GoesToThere
    <3>3. UNCHANGED <<reading, buffer>>
      BY <2>2 DEF TaskReads
    <3>4. state[s] = "open" /\ place = "end" => AtEnd(s)
      BY <2>2, <3>2, <1>2 DEF TaskReads, GoesTo, TypeOK
    <3> QED
      BY <1>2, <1>3, <1>8, <1>9, <2>2, <3>2, <3>3, <3>4 DEF Single
  <2>3. CASE TaskReads(s, n) /\ taken' # taken
    <3>1. taken[s] # sent[s] /\ taken'[s] \in Nat /\ taken'[s] <= sent[s]
      BY <2>3 DEF TaskReads, TypeOK
    <3>2. UNCHANGED <<reading, buffer>>
      BY <2>3 DEF TaskReads
    <3>3. task'[s][n].at = "append"
      BY <2>3 DEF TaskReads, TypeOK
    <3>4. peer[s] # "reset" \/ state[s] # "open"
      BY <3>1, <1>2
    <3> QED
      BY <1>2, <1>3, <1>8, <1>9, <3>1, <3>2, <3>3, <3>4 DEF Single
  <2>4. CASE TaskAppends(s, n)
    <3>1. task'[s][n].at = "check" /\ task[s][n].at = "append"
      BY <2>4, GoesToThere DEF TaskAppends
    <3>2. UNCHANGED <<taken, reading>>
      BY <2>4 DEF TaskAppends
    <3> QED
      BY <1>2, <1>3, <1>8, <1>9, <3>1, <3>2 DEF Single
  <2>5. CASE TaskEnds(s, n)
    <3>1. task'[s][n].at = "off" /\ task[s][n].at = "end"
      BY <2>5, GoesToThere DEF TaskEnds
    <3>2. UNCHANGED <<taken, buffer>>
      BY <2>5 DEF TaskEnds
    <3>3. state[s] = "open" => AtEnd(s)
      BY <1>2, <3>1
    <3>4. Single(s) => Live(s)' = {}
      BY <1>2, <1>6, <1>8, <3>1 DEF OneReader, Live
    <3> QED
      BY <1>2, <1>3, <1>8, <1>9, <3>1, <3>2, <3>3, <3>4 DEF Single
  <2> QED
    BY <2>1, <2>2, <2>3, <2>4, <2>5 DEF Task
<1> QED
  BY <1>1, <1>2, <1>5, <1>7, <1>10 DEF LoopInv, StreamInv

\* LoopInv is kept by every step.
LEMMA LoopStep == TypeOK /\ HandleInv /\ LoopInv /\ [Next]_vars => LoopInv'
<1> SUFFICES ASSUME TypeOK, HandleInv, LoopInv, [Next]_vars PROVE LoopInv'
  OBVIOUS
<1> USE DEF peerVars, handleVars, history, loopVars
<1>1. ASSUME NEW s \in Socket, PeerSends(s) \/ PeerEnds(s) \/ PeerResets(s) PROVE LoopInv'
  <2>1. VisitInv' /\ ReturnInv'
    BY <1>1 DEF PeerSends, PeerEnds, PeerResets, LoopInv, VisitInv, ReturnInv
  <2>2. ASSUME NEW u \in Socket, u # s PROVE StreamInv(u)'
    <3>1. SameStream(u)
      BY <1>1, <2>2 DEF PeerSends, PeerEnds, PeerResets, SameStream, TypeOK
    <3> QED
      BY <3>1, StreamFrame DEF LoopInv
  <2>3. StreamInv(s)'
    <3>1. StreamInv(s) /\ peer[s] = "open"
      BY <1>1 DEF LoopInv, PeerSends, PeerEnds, PeerResets
    <3>2. UNCHANGED <<state, taken, reading, paused, active, doubled, buffer, task>>
      BY <1>1 DEF PeerSends, PeerEnds, PeerResets
    <3>3. /\ taken[s] \in Nat /\ sent[s] \in Nat
          /\ \/ peer'[s] = "open" /\ sent'[s] = sent[s] + 1
             \/ peer'[s] = "ended" /\ sent'[s] = sent[s]
             \/ peer'[s] = "reset" /\ sent'[s] = taken[s]
      BY <1>1 DEF PeerSends, PeerEnds, PeerResets, TypeOK
    <3> QED
      BY <3>1, <3>2, <3>3 DEF StreamInv, OneReader, EndInv, InactiveInv, AtEnd, Single, Live
  <2> QED
    BY <2>1, <2>2, <2>3 DEF LoopInv
<1>2. CASE UNCHANGED vars
  <2>1. \A u \in Socket : SameStream(u)
    BY <1>2 DEF vars, SameStream
  <2>2. \A u \in Socket : StreamInv(u)'
    BY <2>1, StreamFrame DEF LoopInv
  <2> QED
    BY <1>2, <2>2 DEF LoopInv, vars, VisitInv, ReturnInv
<1> QED
  BY <1>1, <1>2, LoopUser, LoopLoop, LoopTask DEF Next

-----------------------------------------------------------------------------
(* Every chunk that was read is in the pipeline *)

\* A queued event adds its chunks to those of its socket.
LEMMA AppendChunks ==
  ASSUME TypeOK, NEW s \in Socket, NEW c \in Seq(Nat), queue' = Append(queue, Event(s, c))
  PROVE  /\ QueuedChunks(s)' = QueuedChunks(s) \cup ToSet(c)
         /\ \A u \in Socket \ {s} : QueuedChunks(u)' = QueuedChunks(u)
<1> DEFINE e == Event(s, c)
<1>1. e.socket = s /\ e.chunks = c /\ e \in Events
  BY DEF Event, Events
<1> HIDE DEF e
<1>2. queue \in Seq(Events) /\ queue' = Append(queue, e)
  BY DEF TypeOK, e
<1>3. /\ DOMAIN queue' = DOMAIN queue \cup {Len(queue) + 1} /\ queue'[Len(queue) + 1] = e
      /\ \A n \in DOMAIN queue : queue'[n] = queue[n]
  BY <1>1, <1>2
<1>4. QueuedChunks(s)' = QueuedChunks(s) \cup ToSet(c)
  <2>1. ASSUME NEW v \in QueuedChunks(s)' PROVE v \in QueuedChunks(s) \cup ToSet(c)
    <3>1. PICK n \in DOMAIN queue' : queue'[n].socket = s /\ v \in ToSet(queue'[n].chunks)
      BY <2>1 DEF QueuedChunks
    <3>2. CASE n \in DOMAIN queue
      BY <3>1, <3>2, <1>3 DEF QueuedChunks
    <3>3. CASE n = Len(queue) + 1
      BY <3>1, <3>3, <1>1, <1>3
    <3> QED
      BY <3>2, <3>3, <1>3
  <2>2. ASSUME NEW v \in QueuedChunks(s) PROVE v \in QueuedChunks(s)'
    BY <2>2, <1>3 DEF QueuedChunks
  <2>3. ASSUME NEW v \in ToSet(c) PROVE v \in QueuedChunks(s)'
    BY <2>3, <1>1, <1>3 DEF QueuedChunks
  <2> QED
    BY <2>1, <2>2, <2>3
<1>5. ASSUME NEW u \in Socket \ {s} PROVE QueuedChunks(u)' = QueuedChunks(u)
  <2>1. ASSUME NEW v \in QueuedChunks(u)' PROVE v \in QueuedChunks(u)
    <3>1. PICK n \in DOMAIN queue' : queue'[n].socket = u /\ v \in ToSet(queue'[n].chunks)
      BY <2>1 DEF QueuedChunks
    <3>2. n \in DOMAIN queue
      BY <3>1, <1>1, <1>3
    <3> QED
      BY <3>1, <3>2, <1>3 DEF QueuedChunks
  <2>2. ASSUME NEW v \in QueuedChunks(u) PROVE v \in QueuedChunks(u)'
    BY <2>2, <1>3 DEF QueuedChunks
  <2> QED
    BY <2>1, <2>2
<1> QED
  BY <1>4, <1>5

\* The first event takes its chunks from those of its socket.
LEMMA TailChunks ==
  ASSUME TypeOK, queue # <<>>, queue' = Tail(queue), NEW u \in Socket
  PROVE  /\ queue[1].socket = u =>
              QueuedChunks(u) = ToSet(queue[1].chunks) \cup QueuedChunks(u)'
         /\ queue[1].socket # u => QueuedChunks(u) = QueuedChunks(u)'
<1>1. queue \in Seq(Events)
  BY DEF TypeOK
<1>2. /\ 1 \in DOMAIN queue
      /\ \A n \in DOMAIN queue' : n + 1 \in DOMAIN queue /\ queue'[n] = queue[n + 1]
      /\ \A n \in DOMAIN queue \ {1} : n - 1 \in DOMAIN queue' /\ queue'[n - 1] = queue[n]
  BY <1>1
<1>3. ASSUME NEW v \in QueuedChunks(u)' PROVE v \in QueuedChunks(u)
  <2>1. PICK n \in DOMAIN queue' : queue'[n].socket = u /\ v \in ToSet(queue'[n].chunks)
    BY <1>3 DEF QueuedChunks
  <2>2. n + 1 \in DOMAIN queue /\ queue[n + 1].socket = u /\ v \in ToSet(queue[n + 1].chunks)
    BY <2>1, <1>2
  <2> QED
    BY <2>2 DEF QueuedChunks
<1>4. ASSUME NEW v \in QueuedChunks(u)
      PROVE v \in QueuedChunks(u)' \/ (queue[1].socket = u /\ v \in ToSet(queue[1].chunks))
  <2>1. PICK n \in DOMAIN queue : queue[n].socket = u /\ v \in ToSet(queue[n].chunks)
    BY <1>4 DEF QueuedChunks
  <2>2. CASE n = 1
    BY <2>1, <2>2
  <2>3. CASE n # 1
    <3>1. n - 1 \in DOMAIN queue' /\ queue'[n - 1] = queue[n]
      BY <2>3, <1>2
    <3>2. queue'[n - 1].socket = u /\ v \in ToSet(queue'[n - 1].chunks)
      BY <2>1, <3>1
    <3> QED
      BY <3>1, <3>2 DEF QueuedChunks
  <2> QED
    BY <2>2, <2>3
<1>5. ASSUME NEW v \in ToSet(queue[1].chunks), queue[1].socket = u PROVE v \in QueuedChunks(u)
  BY <1>5, <1>2 DEF QueuedChunks
<1> QED
  BY <1>3, <1>4, <1>5

\* The chunks of a task that is replaced are exchanged.
LEMMA ReplacedScratch ==
  ASSUME NEW s \in Socket, NEW n \in Reader, NEW r, Replaced(s, n, r)
  PROVE  /\ \A u \in Socket \ {s} : ScratchChunks(u)' = ScratchChunks(u)
         /\ ScratchChunks(s)' \cup ToSet(task[s][n].scratch) =
              ScratchChunks(s) \cup ToSet(r.scratch)
         /\ task[s][n].scratch = r.scratch => ScratchChunks(s)' = ScratchChunks(s)
         /\ (\A m \in Reader : m # n => task[s][m].scratch = <<>>) =>
              /\ ScratchChunks(s) = ToSet(task[s][n].scratch)
              /\ ScratchChunks(s)' = ToSet(r.scratch)
<1>1. task'[s][n] = r /\ \A m \in Reader \ {n} : task'[s][m] = task[s][m]
  BY DEF Replaced
<1>2. ASSUME NEW u \in Socket \ {s} PROVE ScratchChunks(u)' = ScratchChunks(u)
  <2>1. \A m \in Reader : task'[u][m] = task[u][m]
    BY DEF Replaced
  <2> QED
    BY <2>1 DEF ScratchChunks
<1>3. \A v : v \in ScratchChunks(s)' <=>
               v \in ToSet(r.scratch) \/ \E m \in Reader \ {n} : v \in ToSet(task[s][m].scratch)
  BY <1>1 DEF ScratchChunks
<1>4. \A v : v \in ScratchChunks(s) <=>
               \/ v \in ToSet(task[s][n].scratch)
               \/ \E m \in Reader \ {n} : v \in ToSet(task[s][m].scratch)
  BY DEF ScratchChunks
<1>5. ToSet(<<>>) = {}
  BY DEF ToSet
<1> HIDE DEF Replaced
<1>6. ScratchChunks(s)' \cup ToSet(task[s][n].scratch) = ScratchChunks(s) \cup ToSet(r.scratch)
  BY <1>3, <1>4
<1>7. task[s][n].scratch = r.scratch => ScratchChunks(s)' = ScratchChunks(s)
  BY <1>3, <1>4
<1>8. (\A m \in Reader : m # n => task[s][m].scratch = <<>>) =>
        ScratchChunks(s) = ToSet(task[s][n].scratch) /\ ScratchChunks(s)' = ToSet(r.scratch)
  <2> SUFFICES ASSUME \A m \in Reader : m # n => task[s][m].scratch = <<>>
               PROVE  /\ ScratchChunks(s) = ToSet(task[s][n].scratch)
                      /\ ScratchChunks(s)' = ToSet(r.scratch)
    OBVIOUS
  <2>1. \A m \in Reader \ {n} : ToSet(task[s][m].scratch) = {}
    BY <1>5
  <2>2. \A v : v \in ScratchChunks(s)' <=> v \in ToSet(r.scratch)
    BY <1>3, <2>1
  <2>3. \A v : v \in ScratchChunks(s) <=> v \in ToSet(task[s][n].scratch)
    BY <1>4, <2>1
  <2> QED
    BY <2>2, <2>3
<1> QED
  BY <1>2, <1>6, <1>7, <1>8

\* Nothing that NothingMissing says of a socket is changed.
SamePipe(u) ==
  /\ Complete(u)' => Complete(u)
  /\ got'[u] = got[u] /\ buffer'[u] = buffer[u] /\ taken'[u] = taken[u]
  /\ QueuedChunks(u)' = QueuedChunks(u)
  /\ ScratchChunks(u)' = ScratchChunks(u)

\* NothingMissing is kept by a step that leaves the pipeline of the socket alone.
LEMMA PipeFrame ==
  ASSUME NEW u \in Socket, NothingMissing(u), SamePipe(u) PROVE NothingMissing(u)'
BY DEF NothingMissing, SamePipe

\* The pipelines are empty at first, when no socket is connected.
LEMMA MissingInit == Init => \A s \in Socket : NothingMissing(s)
BY DEF Init, NothingMissing, Complete

\* The tasks of other sockets, and those that hold nothing before and after,
\* leave the chunks in scratches alone when a reader is started.
LEMMA StartScratch ==
  ASSUME TypeOK, ScratchInv, NEW s \in Socket, StartReading(s), NEW u \in Socket
  PROVE  ScratchChunks(u)' = ScratchChunks(u) /\ doubled \subseteq doubled'
<1>1. CASE s \in reading /\ UNCHANGED <<reading, task, doubled>>
  BY <1>1 DEF ScratchChunks
<1>2. CASE s \notin reading
  <2>1. PICK n \in Reader \ Live(s) :
          /\ Replaced(s, n, [at |-> "check", scratch |-> <<>>])
          /\ doubled' = IF Live(s) = {} THEN doubled ELSE doubled \cup {s}
    BY <1>2, StartFacts
  <2> DEFINE r == [at |-> "check", scratch |-> <<>>]
  <2>2. r.scratch = <<>> /\ Replaced(s, n, r)
    BY <2>1
  <2>3. task[s][n].scratch = <<>>
    BY <2>1 DEF Live, ScratchInv
  <2> HIDE DEF r
  <2>4. \A w \in Socket \ {s} : ScratchChunks(w)' = ScratchChunks(w)
    BY <2>2, ReplacedScratch
  <2>5. ScratchChunks(s)' = ScratchChunks(s)
    BY <2>2, <2>3, ReplacedScratch
  <2> QED
    BY <2>1, <2>4, <2>5
<1> QED
  BY <1>1, <1>2, StartFacts

\* A chunk that is queued is in the pipeline of its socket or the socket has lost one.
LEMMA EnqueueChunks ==
  ASSUME TypeOK, NEW s \in Socket, NEW c \in Seq(Nat), Enqueue(Event(s, c)), NEW u \in Socket
  PROVE  /\ dropped \subseteq dropped'
         /\ u # s => QueuedChunks(u)' = QueuedChunks(u)
         /\ u = s => s \in dropped' \/ QueuedChunks(s)' = QueuedChunks(s) \cup ToSet(c)
<1>1. CASE queue' = queue /\ s \in dropped'
  BY <1>1, EnqueueFacts DEF QueuedChunks
<1>2. CASE queue' = Append(queue, Event(s, c))
  BY <1>2, EnqueueFacts, AppendChunks
<1> QED
  BY <1>1, <1>2, EnqueueFacts

\* NothingMissing is kept by what JavaScript calls.
LEMMA MissingUser ==
  ASSUME TypeOK, HandleInv, User, \A u \in Socket : NothingMissing(u), NEW u \in Socket
  PROVE  NothingMissing(u)'
<1> USE DEF peerVars, handleVars, history
<1>1. ASSUME NEW s \in Socket, Connect(s) PROVE NothingMissing(u)'
  <2> DEFINE c == <<0>>
  <2>1. c \in Seq(Nat) /\ Enqueue(Event(s, c)) /\ ToSet(c) = {0}
    BY <1>1 DEF Connect, ToSet
  <2> HIDE DEF c
  <2>2. /\ dropped \subseteq dropped'
        /\ u # s => QueuedChunks(u)' = QueuedChunks(u)
        /\ u = s => s \in dropped' \/ QueuedChunks(s)' = QueuedChunks(s) \cup {0}
    BY <2>1, EnqueueChunks
  <2>3. ScratchChunks(u)' = ScratchChunks(u) /\ doubled \subseteq doubled'
    BY <1>1, StartScratch DEF Connect, HandleInv
  <2>4. UNCHANGED <<got, buffer, taken>> /\ \A w \in Socket \ {s} : state'[w] = state[w]
    BY <1>1 DEF Connect, TypeOK
  <2>5. CASE u # s
    <3>1. SamePipe(u)
      BY <2>2, <2>3, <2>4, <2>5 DEF SamePipe, Complete
    <3> QED
      BY <3>1, PipeFrame
  <2>6. CASE u = s
    <3>1. /\ got[s] = <<>> /\ buffer[s] = <<>> /\ taken[s] = 0 /\ Live(s) = {}
          /\ \A n \in DOMAIN queue : queue[n].socket # s
      BY <1>1 DEF Connect, HandleInv, UnusedInv
    <3>2. QueuedChunks(s) = {}
      BY <3>1 DEF QueuedChunks
    <3>3. ToSet(<<>>) = {} /\ 0..0 = {0}
      BY DEF ToSet
    <3>4. ScratchChunks(s) = {}
      BY <3>1, <3>3 DEF Live, HandleInv, ScratchInv, ScratchChunks
    <3> QED
      BY <2>2, <2>3, <2>4, <2>6, <3>1, <3>2, <3>3, <3>4 DEF NothingMissing, Complete
  <2> QED
    BY <2>5, <2>6
<1>2. ASSUME NEW s \in Socket, ConnectFails(s) \/ Pause(s) \/ EndWrite(s) \/ Destroy(s)
      PROVE NothingMissing(u)'
  <2>1. /\ UNCHANGED <<got, buffer, taken, task, queue, doubled, dropped>>
        /\ state'[u] = "open" => state[u] = "open"
    BY <1>2 DEF ConnectFails, Pause, EndWrite, Destroy, TypeOK
  <2>2. SamePipe(u)
    BY <2>1 DEF SamePipe, Complete, QueuedChunks, ScratchChunks
  <2> QED
    BY <2>2, PipeFrame
<1>3. ASSUME NEW s \in Socket, Resume(s) PROVE NothingMissing(u)'
  <2>1. UNCHANGED <<got, buffer, taken, queue, dropped, state>>
    BY <1>3 DEF Resume
  <2>2. ScratchChunks(u)' = ScratchChunks(u) /\ doubled \subseteq doubled'
    <3>1. CASE state[s] = "open"
      BY <1>3, <3>1, StartScratch DEF Resume, HandleInv
    <3>2. CASE state[s] # "open"
      BY <1>3, <3>2 DEF Resume, ScratchChunks
    <3> QED
      BY <3>1, <3>2
  <2>3. SamePipe(u)
    BY <2>1, <2>2 DEF SamePipe, Complete, QueuedChunks
  <2> QED
    BY <2>3, PipeFrame
<1>4. ASSUME NEW s \in Socket, Read(s) PROVE NothingMissing(u)'
  <2>1. UNCHANGED <<taken, queue, task, doubled, dropped, state>>
    BY <1>4 DEF Read
  <2>2. QueuedChunks(u)' = QueuedChunks(u) /\ ScratchChunks(u)' = ScratchChunks(u)
    BY <2>1 DEF QueuedChunks, ScratchChunks
  <2>3. CASE u # s
    <3>1. got'[u] = got[u] /\ buffer'[u] = buffer[u]
      BY <1>4, <2>3 DEF Read, TypeOK
    <3>2. SamePipe(u)
      BY <2>1, <2>2, <3>1 DEF SamePipe, Complete
    <3> QED
      BY <3>2, PipeFrame
  <2>4. CASE u = s
    <3>1. got'[s] = got[s] \o buffer[s] /\ buffer'[s] = <<>>
      BY <1>4 DEF Read, TypeOK
    <3>2. ToSet(got'[s]) = ToSet(got[s]) \cup ToSet(buffer[s])
      BY <3>1, ConcatSet DEF TypeOK
    <3>3. ToSet(<<>>) = {}
      BY DEF ToSet
    <3> QED
      BY <2>1, <2>2, <2>4, <3>1, <3>2, <3>3 DEF NothingMissing, Complete
  <2> QED
    BY <2>3, <2>4
<1> QED
  BY <1>1, <1>2, <1>3, <1>4 DEF User

\* NothingMissing is kept by the keep-alive loop, which moves chunks on.
LEMMA MissingLoop ==
  ASSUME TypeOK, HandleInv, Loop, \A u \in Socket : NothingMissing(u), NEW u \in Socket
  PROVE  NothingMissing(u)'
<1> USE DEF peerVars, handleVars, history
<1>1. CASE Return \/ LoadReading \/ LoadBuffer \/ Harvested \/ Check
  <2>1. SamePipe(u)
    BY <1>1 DEF Return, LoadReading, LoadBuffer, Harvested, Check, SamePipe, Complete,
                QueuedChunks, ScratchChunks
  <2> QED
    BY <2>1, PipeFrame
<1>2. ASSUME NEW s \in Socket, Harvest(s) PROVE NothingMissing(u)'
  <2>1. UNCHANGED <<taken, task, doubled, state, got>>
    BY <1>2 DEF Harvest
  <2>2. ScratchChunks(u)' = ScratchChunks(u)
    BY <2>1 DEF ScratchChunks
  <2>3. CASE UNCHANGED <<queue, dropped>> /\ buffer'[u] = buffer[u]
    <3>1. SamePipe(u)
      BY <2>1, <2>2, <2>3 DEF SamePipe, Complete, QueuedChunks
    <3> QED
      BY <3>1, PipeFrame
  <2>4. CASE /\ buffer[s] # <<>> /\ Enqueue(Event(s, buffer[s]))
             /\ buffer' = [buffer EXCEPT ![s] = <<>>]
    <3>1. buffer[s] \in Seq(Nat) /\ ToSet(<<>>) = {}
      BY DEF TypeOK, ToSet
    <3>2. /\ dropped \subseteq dropped'
          /\ u # s => QueuedChunks(u)' = QueuedChunks(u)
          /\ u = s => s \in dropped' \/ QueuedChunks(s)' = QueuedChunks(s) \cup ToSet(buffer[s])
      BY <2>4, <3>1, EnqueueChunks
    <3>3. CASE u # s
      <4>1. buffer'[u] = buffer[u]
        BY <2>4, <3>3 DEF TypeOK
      <4>2. SamePipe(u)
        BY <2>1, <2>2, <3>2, <3>3, <4>1 DEF SamePipe, Complete
      <4> QED
        BY <4>2, PipeFrame
    <3>4. CASE u = s
      <4>1. buffer'[s] = <<>>
        BY <2>4 DEF TypeOK
      <4> QED
        BY <2>1, <2>2, <3>1, <3>2, <3>4, <4>1 DEF NothingMissing, Complete
    <3> QED
      BY <3>3, <3>4
  <2> QED
    BY <1>2, <2>3, <2>4 DEF Harvest, TypeOK
<1>3. CASE Emit
  <2> DEFINE e == queue[1]
  <2>1. e \in Events /\ Head(queue) = e /\ queue # <<>> /\ queue' = Tail(queue)
    BY <1>3 DEF Emit, TypeOK
  <2>2. e.socket \in Socket /\ e.chunks \in Seq(Nat)
    BY <2>1 DEF Events
  <2>3. /\ e.socket = u => QueuedChunks(u) = ToSet(e.chunks) \cup QueuedChunks(u)'
        /\ e.socket # u => QueuedChunks(u) = QueuedChunks(u)'
    BY <2>1, TailChunks
  <2>4. UNCHANGED <<taken, buffer, task, doubled, dropped, state>>
    BY <1>3 DEF Emit
  <2>5. ScratchChunks(u)' = ScratchChunks(u)
    BY <2>4 DEF ScratchChunks
  <2>6. got' = IF e.socket \in objects THEN [got EXCEPT ![e.socket] = got[e.socket] \o e.chunks]
               ELSE got
    BY <1>3, <2>1 DEF Emit, TypeOK
  <2> HIDE DEF e
  <2>7. CASE e.socket # u
    <3>1. got'[u] = got[u]
      BY <2>2, <2>6, <2>7 DEF TypeOK
    <3>2. SamePipe(u)
      BY <2>3, <2>4, <2>5, <2>7, <3>1 DEF SamePipe, Complete
    <3> QED
      BY <3>2, PipeFrame
  <2>8. CASE e.socket = u
    <3> SUFFICES ASSUME Complete(u)'
                 PROVE  ToSet(got'[u]) \cup QueuedChunks(u)' \cup ToSet(buffer'[u])
                          \cup ScratchChunks(u)' = 0..taken'[u]
      BY DEF NothingMissing
    <3>1. Complete(u)
      BY <2>4 DEF Complete
    <3>2. u \in objects
      BY <3>1 DEF Complete, HandleInv, ObjectsInv, HasHandle
    <3>3. got'[u] = got[u] \o e.chunks
      BY <2>6, <2>8, <3>2 DEF TypeOK
    <3>4. ToSet(got'[u]) = ToSet(got[u]) \cup ToSet(e.chunks)
      BY <2>2, <3>3, ConcatSet DEF TypeOK
    <3> QED
      BY <2>3, <2>4, <2>5, <2>8, <3>1, <3>4 DEF NothingMissing
  <2> QED
    BY <2>7, <2>8
<1> QED
  BY <1>1, <1>2, <1>3 DEF Loop

\* NothingMissing is kept by the reader tasks.
LEMMA MissingTask ==
  ASSUME TypeOK, HandleInv, LoopInv, NEW s \in Socket, NEW n \in Reader, Task(s, n),
         \A u \in Socket : NothingMissing(u), NEW u \in Socket
  PROVE  NothingMissing(u)'
<1> USE DEF peerVars, handleVars, history
<1>1. UNCHANGED <<got, queue, state, doubled, dropped>>
  BY DEF Task, TaskLooks, TaskReads, TaskAppends, TaskEnds
<1>2. QueuedChunks(u)' = QueuedChunks(u) /\ (Complete(u)' <=> Complete(u))
  BY <1>1 DEF QueuedChunks, Complete
<1>3. CASE u # s
  <2>1. PICK r : Replaced(s, n, r)
    BY TaskReplaces
  <2>2. ScratchChunks(u)' = ScratchChunks(u)
    BY <1>3, <2>1, ReplacedScratch
  <2>3. taken'[u] = taken[u] /\ buffer'[u] = buffer[u]
    BY <1>3 DEF Task, TaskLooks, TaskReads, TaskAppends, TaskEnds, TypeOK
  <2>4. SamePipe(u)
    BY <1>1, <1>2, <2>2, <2>3 DEF SamePipe
  <2> QED
    BY <2>4, PipeFrame
<1>4. CASE u = s
  <2>1. CASE task[s][n].at # "append" /\ UNCHANGED <<taken, buffer>> /\ \E p : GoesTo(s, n, p)
    <3>1. PICK p : GoesTo(s, n, p)
      BY <2>1
    <3> DEFINE r == [at |-> p, scratch |-> <<>>]
    <3>2. Replaced(s, n, r) /\ r.scratch = <<>>
      BY <3>1, GoesToReplaces
    <3> HIDE DEF r
    <3>3. task[s][n].scratch = <<>>
      BY <2>1 DEF HandleInv, ScratchInv
    <3>4. ScratchChunks(s)' = ScratchChunks(s)
      BY <3>2, <3>3, ReplacedScratch
    <3>5. SamePipe(u)
      BY <1>1, <1>2, <1>4, <2>1, <3>4 DEF SamePipe
    <3> QED
      BY <3>5, PipeFrame
  <2>2. CASE TaskReads(s, n) /\ taken' # taken
    <3>1. PICK last \in (taken[s] + 1)..sent[s] :
            /\ taken' = [taken EXCEPT ![s] = last]
            /\ task' = [task EXCEPT ![s][n] =
                          [at |-> "append",
                           scratch |-> [i \in 1..(last - taken[s]) |-> taken[s] + i]]]
      BY <2>2 DEF TaskReads
    <3>2. /\ taken[s] \in Nat /\ last \in Nat /\ last - taken[s] \in Nat
          /\ taken[s] + 1 \in Nat /\ taken'[s] = last
      <4>1. taken[s] \in Nat /\ sent[s] \in Nat
        BY DEF TypeOK
      <4>2. taken'[s] = last
        BY <3>1 DEF TypeOK
      <4> QED
        BY <4>1, <4>2
    <3> DEFINE c == Numbers(taken[s] + 1, last - taken[s])
               r == [at |-> "append", scratch |-> c]
    <3>3. [i \in 1..(last - taken[s]) |-> taken[s] + i] = c
      BY <3>2 DEF Numbers
    <3>4. ToSet(c) = (taken[s] + 1)..last
      <4>1. ToSet(c) = (taken[s] + 1)..((taken[s] + 1) + (last - taken[s]) - 1)
        BY <3>2, NumbersSet
      <4>2. (taken[s] + 1) + (last - taken[s]) - 1 = last
        BY <3>2
      <4> QED
        BY <4>1, <4>2
    <3> HIDE DEF c
    <3>5. r.scratch = c /\ task' = [task EXCEPT ![s][n] = r]
      BY <3>1, <3>3
    <3> HIDE DEF r
    <3>6. Replaced(s, n, r)
      BY <3>5 DEF Replaced, TypeOK
    <3>7. task[s][n].scratch = <<>> /\ ToSet(<<>>) = {}
      BY <2>2 DEF TaskReads, HandleInv, ScratchInv, ToSet
    <3>8. ScratchChunks(s)' = ScratchChunks(s) \cup ToSet(c)
      BY <3>5, <3>6, <3>7, ReplacedScratch
    <3>9. 0..last = 0..taken[s] \cup (taken[s] + 1)..last
      BY <3>1, <3>2
    <3>10. buffer'[s] = buffer[s]
      BY <2>2 DEF TaskReads
    <3> QED
      BY <1>1, <1>2, <1>4, <3>2, <3>4, <3>8, <3>9, <3>10 DEF NothingMissing
  <2>3. CASE TaskAppends(s, n)
    <3> DEFINE x == task[s][n].scratch
               r == [at |-> "check", scratch |-> <<>>]
    <3>1. x \in Seq(Nat) /\ buffer[s] \in Seq(Nat)
      BY DEF TypeOK, Tasks
    <3>2. buffer'[s] = buffer[s] \o x /\ taken' = taken
      BY <2>3 DEF TaskAppends, TypeOK
    <3>3. Replaced(s, n, r) /\ r.scratch = <<>>
      BY <2>3, GoesToReplaces DEF TaskAppends
    <3> HIDE DEF r
    <3>4. ToSet(buffer'[s]) = ToSet(buffer[s]) \cup ToSet(x)
      BY <3>1, <3>2, ConcatSet
    <3>5. ScratchChunks(s)' \cup ToSet(x) = ScratchChunks(s)
      <4>1. ToSet(<<>>) = {}
        BY DEF ToSet
      <4> QED
        BY <3>3, <4>1, ReplacedScratch
    <3> HIDE DEF x
    <3> QED
      BY <1>1, <1>2, <1>4, <3>2, <3>4, <3>5 DEF NothingMissing
  <2>4. CASE TaskReads(s, n) /\ taken' = taken
    <3>1. task[s][n].at # "append" /\ UNCHANGED buffer
      BY <2>4 DEF TaskReads
    <3>2. ASSUME NEW last \in (taken[s] + 1)..sent[s], taken' = [taken EXCEPT ![s] = last]
          PROVE FALSE
      <4>1. taken[s] \in Nat /\ sent[s] \in Nat /\ taken[s] = last
        BY <2>4, <3>2 DEF TypeOK
      <4> QED
        BY <3>2, <4>1
    <3>3. \E p : GoesTo(s, n, p)
      BY <2>4, <3>2 DEF TaskReads
    <3> QED
      BY <2>1, <2>4, <3>1, <3>3
  <2>5. CASE TaskLooks(s, n) \/ TaskEnds(s, n)
    BY <2>1, <2>5 DEF TaskLooks, TaskEnds
  <2> QED
    BY <2>2, <2>3, <2>4, <2>5 DEF Task
<1> QED
  BY <1>3, <1>4

\* NothingMissing is kept by every step.
LEMMA MissingStep ==
  ASSUME TypeOK, HandleInv, LoopInv, [Next]_vars, \A u \in Socket : NothingMissing(u)
  PROVE  \A u \in Socket : NothingMissing(u)'
<1> SUFFICES ASSUME NEW u \in Socket PROVE NothingMissing(u)'
  OBVIOUS
<1>1. ASSUME NEW s \in Socket, PeerSends(s) \/ PeerEnds(s) \/ PeerResets(s)
      PROVE NothingMissing(u)'
  <2>1. SamePipe(u)
    BY <1>1 DEF PeerSends, PeerEnds, PeerResets, SamePipe, Complete, QueuedChunks,
                ScratchChunks, handleVars, history
  <2> QED
    BY <2>1, PipeFrame
<1>2. CASE UNCHANGED vars
  <2>1. SamePipe(u)
    BY <1>2 DEF vars, handleVars, history, SamePipe, Complete, QueuedChunks, ScratchChunks
  <2> QED
    BY <2>1, PipeFrame
<1> QED
  BY <1>1, <1>2, MissingUser, MissingLoop, MissingTask DEF Next

\* What the loop and the pipelines keep, with the types
LossInv == TypeOK /\ HandleInv /\ LoopInv /\ \A s \in Socket : NothingMissing(s)

\* A loop that has returned has delivered everything.
LEMMA ReturnedDelivered == LossInv => NothingLost
<1> SUFFICES ASSUME LossInv, at = "returned", NEW s \in Socket \ (doubled \cup dropped),
                    state[s] = "open"
             PROVE  ToSet(got[s]) = 0..sent[s]
  BY DEF NothingLost
<1>1. active = {} /\ queue = <<>>
  BY DEF LossInv, LoopInv, ReturnInv
<1>2. AtEnd(s) /\ buffer[s] = <<>> /\ \A n \in Reader : task[s][n].at # "append"
  BY <1>1 DEF LossInv, LoopInv, StreamInv, InactiveInv, Single
<1>3. ToSet(<<>>) = {}
  BY DEF ToSet
<1>4. ScratchChunks(s) = {}
  BY <1>2, <1>3 DEF LossInv, HandleInv, ScratchInv, ScratchChunks
<1>5. QueuedChunks(s) = {}
  BY <1>1 DEF QueuedChunks
<1>6. Complete(s)
  BY DEF Complete
<1>7. ToSet(got[s]) = 0..taken[s]
  BY <1>2, <1>3, <1>4, <1>5, <1>6 DEF LossInv, NothingMissing
<1> QED
  BY <1>2, <1>7 DEF AtEnd

\* The loop never ends before every byte of every open socket was delivered:
\* the harvest's three looks at buffer and flag, each of which a reader task may
\* change in between, release a socket only when nothing is left of it.
THEOREM NothingEverLost == Spec => []NothingLost
<1>1. Init => LossInv
  BY TypeInit, HandleInit, LoopInit, MissingInit DEF LossInv
<1>2. LossInv /\ [Next]_vars => LossInv'
  BY TypeStep, HandleStep, LoopStep, MissingStep DEF LossInv
<1> QED
  BY <1>1, <1>2, ReturnedDelivered, PTL DEF Spec

-----------------------------------------------------------------------------
(* The numbering of the pipeline *)

\* The queued events of s hold the chunks from Len(got[s]) to b - 1 in order:
\* mark[n] chunks of s are delivered or in the first n events.
Marks(s, b, mark) ==
  /\ mark[0] = Len(got[s]) /\ mark[Len(queue)] = b
  /\ \A n \in 1..Len(queue) :
       IF queue[n].socket = s
       THEN /\ queue[n].chunks = Numbers(mark[n - 1], Len(queue[n].chunks))
            /\ mark[n] = mark[n - 1] + Len(queue[n].chunks)
       ELSE mark[n] = mark[n - 1]
  /\ \A m \in 0..Len(queue) :
       (\A n \in (m + 1)..Len(queue) : queue[n].socket # s) => mark[m] = b

QueueRun(s, b) == \E mark \in [0..Len(queue) -> Nat] : Marks(s, b, mark)

\* The buffer goes on at b, and the scratch of the reader after it; together
\* they hold what was read of the stream.
BufferRun(s, b) ==
  /\ buffer[s] = Numbers(b, Len(buffer[s]))
  /\ \A n \in Reader : task[s][n].at = "append" =>
       /\ task[s][n].scratch = Numbers(b + Len(buffer[s]), Len(task[s][n].scratch))
       /\ b + Len(buffer[s]) + Len(task[s][n].scratch) = taken[s] + 1
  /\ (\A n \in Reader : task[s][n].at # "append") => b + Len(buffer[s]) = taken[s] + 1

\* What was delivered is in order, and the pipeline goes on where it ends.
Numbered(s) ==
  Ordered(s) =>
    /\ got[s] = Numbers(0, Len(got[s]))
    /\ state[s] = "open" => \E b \in Nat : QueueRun(s, b) /\ BufferRun(s, b)

\* An event of another socket is appended: the numbering goes on as it was.
LEMMA RunAppendOther ==
  ASSUME TypeOK, NEW s \in Socket, NEW u \in Socket, u # s, NEW c \in Seq(Nat),
         queue' = Append(queue, Event(u, c)), got'[s] = got[s], NEW b \in Nat, QueueRun(s, b)
  PROVE  QueueRun(s, b)'
<1> DEFINE e == Event(u, c)
           k == Len(queue)
<1>1. e.socket = u /\ e \in Events
  BY DEF Event, Events
<1> HIDE DEF e
<1>2. queue \in Seq(Events) /\ queue' = Append(queue, e)
  BY DEF TypeOK, e
<1>3. /\ Len(queue') = k + 1 /\ queue'[k + 1] = e /\ k \in Nat
      /\ \A n \in 1..k : queue'[n] = queue[n]
  BY <1>1, <1>2
<1> HIDE DEF k
<1>4. PICK mark \in [0..k -> Nat] : Marks(s, b, mark)
  BY DEF QueueRun, k
<1> DEFINE new == [n \in 0..(k + 1) |-> IF n = k + 1 THEN b ELSE mark[n]]
<1>5. new \in [0..(k + 1) -> Nat]
  BY <1>3
<1>6. new[k + 1] = b /\ \A n \in 0..k : new[n] = mark[n]
  BY <1>3
<1> HIDE DEF new
<1>7. /\ mark[0] = Len(got[s]) /\ mark[k] = b
      /\ \A n \in 1..k : IF queue[n].socket = s
                         THEN /\ queue[n].chunks = Numbers(mark[n - 1], Len(queue[n].chunks))
                              /\ mark[n] = mark[n - 1] + Len(queue[n].chunks)
                         ELSE mark[n] = mark[n - 1]
      /\ \A m \in 0..k : (\A n \in (m + 1)..k : queue[n].socket # s) => mark[m] = b
  BY <1>4 DEF Marks, k
<1>8. new[0] = Len(got'[s]) /\ new[Len(queue')] = b
  BY <1>3, <1>6, <1>7
<1>9. \A n \in 1..Len(queue') :
        IF queue'[n].socket = s
        THEN /\ queue'[n].chunks = Numbers(new[n - 1], Len(queue'[n].chunks))
             /\ new[n] = new[n - 1] + Len(queue'[n].chunks)
        ELSE new[n] = new[n - 1]
  <2> SUFFICES ASSUME NEW n \in 1..(k + 1)
               PROVE  IF queue'[n].socket = s
                      THEN /\ queue'[n].chunks = Numbers(new[n - 1], Len(queue'[n].chunks))
                           /\ new[n] = new[n - 1] + Len(queue'[n].chunks)
                      ELSE new[n] = new[n - 1]
    BY <1>3
  <2>1. CASE n = k + 1
    <3>1. queue'[n].socket # s
      BY <2>1, <1>1, <1>3
    <3>2. new[n] = b /\ new[n - 1] = b
      BY <2>1, <1>3, <1>6, <1>7
    <3> QED
      BY <3>1, <3>2
  <2>2. CASE n # k + 1
    <3>1. n \in 1..k /\ n \in 0..k /\ n - 1 \in 0..k
      BY <2>2, <1>3
    <3>2. queue'[n] = queue[n] /\ new[n] = mark[n] /\ new[n - 1] = mark[n - 1]
      BY <3>1, <1>3, <1>6
    <3> QED
      BY <3>1, <3>2, <1>7
  <2> QED
    BY <2>1, <2>2
<1>10. \A m \in 0..Len(queue') :
         (\A n \in (m + 1)..Len(queue') : queue'[n].socket # s) => new[m] = b
  <2> SUFFICES ASSUME NEW m \in 0..(k + 1), \A n \in (m + 1)..(k + 1) : queue'[n].socket # s
               PROVE  new[m] = b
    BY <1>3
  <2>1. CASE m = k + 1
    BY <2>1, <1>6
  <2>2. CASE m # k + 1
    <3>1. m \in 0..k
      BY <2>2, <1>3
    <3>2. \A n \in (m + 1)..k : n \in 1..k /\ n \in (m + 1)..(k + 1)
      BY <3>1, <1>3
    <3>3. \A n \in (m + 1)..k : queue[n].socket # s
      BY <3>2, <1>3
    <3> QED
      BY <3>1, <3>3, <1>6, <1>7
  <2> QED
    BY <2>1, <2>2
<1>11. Len(queue') = k + 1
  BY <1>3
<1> QED
  BY <1>5, <1>8, <1>9, <1>10, <1>11 DEF QueueRun, Marks

\* An event of s with the next chunks is appended.
LEMMA RunAppend ==
  ASSUME TypeOK, NEW s \in Socket, NEW c \in Seq(Nat), queue' = Append(queue, Event(s, c)),
         got'[s] = got[s], NEW b \in Nat, QueueRun(s, b), c = Numbers(b, Len(c))
  PROVE  QueueRun(s, b + Len(c))'
<1> DEFINE e == Event(s, c)
           k == Len(queue)
           l == Len(c)
<1>1. e.socket = s /\ e.chunks = c /\ e \in Events
  BY DEF Event, Events
<1> HIDE DEF e
<1>2. queue \in Seq(Events) /\ queue' = Append(queue, e)
  BY DEF TypeOK, e
<1>3. /\ Len(queue') = k + 1 /\ queue'[k + 1] = e /\ k \in Nat /\ l \in Nat
      /\ \A n \in 1..k : queue'[n] = queue[n]
  BY <1>1, <1>2
<1>c. c = Numbers(b, l)
  OBVIOUS
<1> HIDE DEF k, l
<1>4. PICK mark \in [0..k -> Nat] : Marks(s, b, mark)
  BY DEF QueueRun, k
<1> DEFINE new == [n \in 0..(k + 1) |-> IF n = k + 1 THEN b + l ELSE mark[n]]
<1>5. new \in [0..(k + 1) -> Nat]
  BY <1>3
<1>6. new[k + 1] = b + l /\ \A n \in 0..k : new[n] = mark[n]
  BY <1>3
<1> HIDE DEF new
<1>7. /\ mark[0] = Len(got[s]) /\ mark[k] = b
      /\ \A n \in 1..k : IF queue[n].socket = s
                         THEN /\ queue[n].chunks = Numbers(mark[n - 1], Len(queue[n].chunks))
                              /\ mark[n] = mark[n - 1] + Len(queue[n].chunks)
                         ELSE mark[n] = mark[n - 1]
  BY <1>4 DEF Marks, k
<1>8. new[0] = Len(got'[s]) /\ new[Len(queue')] = b + l
  BY <1>3, <1>6, <1>7
<1>9. \A n \in 1..Len(queue') :
        IF queue'[n].socket = s
        THEN /\ queue'[n].chunks = Numbers(new[n - 1], Len(queue'[n].chunks))
             /\ new[n] = new[n - 1] + Len(queue'[n].chunks)
        ELSE new[n] = new[n - 1]
  <2> SUFFICES ASSUME NEW n \in 1..(k + 1)
               PROVE  IF queue'[n].socket = s
                      THEN /\ queue'[n].chunks = Numbers(new[n - 1], Len(queue'[n].chunks))
                           /\ new[n] = new[n - 1] + Len(queue'[n].chunks)
                      ELSE new[n] = new[n - 1]
    BY <1>3
  <2>1. CASE n = k + 1
    <3>1. queue'[n].socket = s /\ queue'[n].chunks = c /\ Len(c) = l
      BY <2>1, <1>1, <1>3 DEF l
    <3>2. new[n] = b + l /\ new[n - 1] = b
      BY <2>1, <1>3, <1>6, <1>7
    <3> QED
      BY <3>1, <3>2, <1>c
  <2>2. CASE n # k + 1
    <3>1. n \in 1..k /\ n \in 0..k /\ n - 1 \in 0..k
      BY <2>2, <1>3
    <3>2. queue'[n] = queue[n] /\ new[n] = mark[n] /\ new[n - 1] = mark[n - 1]
      BY <3>1, <1>3, <1>6
    <3> QED
      BY <3>1, <3>2, <1>7
  <2> QED
    BY <2>1, <2>2
<1>10. \A m \in 0..Len(queue') :
         (\A n \in (m + 1)..Len(queue') : queue'[n].socket # s) => new[m] = b + l
  <2> SUFFICES ASSUME NEW m \in 0..(k + 1), \A n \in (m + 1)..(k + 1) : queue'[n].socket # s
               PROVE  new[m] = b + l
    BY <1>3
  <2>1. m = k + 1
    <3>1. m # k + 1 => k + 1 \in (m + 1)..(k + 1)
      BY <1>3
    <3> QED
      BY <3>1, <1>1, <1>3
  <2> QED
    BY <2>1, <1>6
<1>11. Len(queue') = k + 1 /\ l = Len(c)
  BY <1>3 DEF l
<1> QED
  BY <1>5, <1>8, <1>9, <1>10, <1>11 DEF QueueRun, Marks

\* The first event is taken: it is not of s, or it holds what comes next.
LEMMA RunTail ==
  ASSUME TypeOK, NEW s \in Socket, queue # <<>>, queue' = Tail(queue),
         NEW b \in Nat, QueueRun(s, b)
  PROVE  /\ queue[1].socket # s /\ got'[s] = got[s] => QueueRun(s, b)'
         /\ queue[1].socket = s =>
              /\ queue[1].chunks = Numbers(Len(got[s]), Len(queue[1].chunks))
              /\ Len(got'[s]) = Len(got[s]) + Len(queue[1].chunks) => QueueRun(s, b)'
<1> DEFINE k == Len(queue)
           a == Len(queue[1].chunks)
           g == Len(got[s])
<1>1. queue \in Seq(Events)
  BY DEF TypeOK
<1>2. /\ k \in Nat \ {0} /\ Len(queue') = k - 1
      /\ \A n \in 1..(k - 1) : queue'[n] = queue[n + 1]
  BY <1>1
<1> HIDE DEF k
<1>3. PICK mark \in [0..k -> Nat] : Marks(s, b, mark)
  BY DEF QueueRun, k
<1>4. /\ mark[0] = g /\ mark[k] = b
      /\ \A n \in 1..k : IF queue[n].socket = s
                         THEN /\ queue[n].chunks = Numbers(mark[n - 1], Len(queue[n].chunks))
                              /\ mark[n] = mark[n - 1] + Len(queue[n].chunks)
                         ELSE mark[n] = mark[n - 1]
      /\ \A m \in 0..k : (\A n \in (m + 1)..k : queue[n].socket # s) => mark[m] = b
  BY <1>3 DEF Marks, k
<1>5. /\ queue[1].socket # s => mark[1] = g
      /\ queue[1].socket = s => queue[1].chunks = Numbers(g, a) /\ mark[1] = g + a
  <2>1. 1 \in 1..k /\ 1 - 1 = 0
    BY <1>2
  <2> QED
    BY <2>1, <1>4
<1> HIDE DEF a, g
<1>6. ASSUME mark[1] = Len(got'[s]) PROVE QueueRun(s, b)'
  <2> DEFINE new == [n \in 0..(k - 1) |-> mark[n + 1]]
  <2>1. new \in [0..(k - 1) -> Nat]
    BY <1>2
  <2>2. \A n \in 0..(k - 1) : new[n] = mark[n + 1]
    OBVIOUS
  <2> HIDE DEF new
  <2>3. new[0] = Len(got'[s]) /\ new[Len(queue')] = b
    BY <1>2, <1>4, <1>6, <2>2
  <2>4. \A n \in 1..Len(queue') :
          IF queue'[n].socket = s
          THEN /\ queue'[n].chunks = Numbers(new[n - 1], Len(queue'[n].chunks))
               /\ new[n] = new[n - 1] + Len(queue'[n].chunks)
          ELSE new[n] = new[n - 1]
    <3> SUFFICES ASSUME NEW n \in 1..(k - 1)
                 PROVE  IF queue'[n].socket = s
                        THEN /\ queue'[n].chunks = Numbers(new[n - 1], Len(queue'[n].chunks))
                             /\ new[n] = new[n - 1] + Len(queue'[n].chunks)
                        ELSE new[n] = new[n - 1]
      BY <1>2
    <3>1. n + 1 \in 1..k /\ n \in 0..(k - 1) /\ n - 1 \in 0..(k - 1) /\ (n + 1) - 1 = n
          /\ (n - 1) + 1 = n
      BY <1>2
    <3>2. queue'[n] = queue[n + 1] /\ new[n] = mark[n + 1] /\ new[n - 1] = mark[n]
      BY <3>1, <1>2, <2>2
    <3>3. IF queue[n + 1].socket = s
          THEN /\ queue[n + 1].chunks = Numbers(mark[n], Len(queue[n + 1].chunks))
               /\ mark[n + 1] = mark[n] + Len(queue[n + 1].chunks)
          ELSE mark[n + 1] = mark[n]
      BY <3>1, <1>4
    <3> QED
      BY <3>2, <3>3
  <2>5. \A m \in 0..Len(queue') :
          (\A n \in (m + 1)..Len(queue') : queue'[n].socket # s) => new[m] = b
    <3> SUFFICES ASSUME NEW m \in 0..(k - 1), \A n \in (m + 1)..(k - 1) : queue'[n].socket # s
                 PROVE  new[m] = b
      BY <1>2
    <3>1. m + 1 \in 0..k /\ new[m] = mark[m + 1]
      BY <1>2, <2>2
    <3>2. ASSUME NEW n \in ((m + 1) + 1)..k PROVE queue[n].socket # s
      <4>1. n - 1 \in (m + 1)..(k - 1) /\ n - 1 \in 1..(k - 1) /\ (n - 1) + 1 = n
        BY <1>2
      <4> QED
        BY <4>1, <1>2
    <3> QED
      BY <3>1, <3>2, <1>4
  <2>6. Len(queue') = k - 1
    BY <1>2
  <2> QED
    BY <2>1, <2>3, <2>4, <2>5, <2>6 DEF QueueRun, Marks
<1>7. queue[1].socket # s /\ got'[s] = got[s] => QueueRun(s, b)'
  BY <1>5, <1>6 DEF g
<1>8. queue[1].socket = s => queue[1].chunks = Numbers(Len(got[s]), Len(queue[1].chunks))
  BY <1>5 DEF g, a
<1>9. queue[1].socket = s /\ Len(got'[s]) = Len(got[s]) + Len(queue[1].chunks) =>
        QueueRun(s, b)'
  BY <1>5, <1>6 DEF g, a
<1> QED
  BY <1>7, <1>8, <1>9

\* Without queued events of s the numbering is that of what was delivered.
LEMMA RunNone ==
  ASSUME TypeOK, NEW s \in Socket, \A n \in DOMAIN queue : queue[n].socket # s
  PROVE  /\ \A b \in Nat : QueueRun(s, b) => b = Len(got[s])
         /\ QueueRun(s, Len(got[s]))
<1> DEFINE k == Len(queue)
           g == Len(got[s])
<1>1. k \in Nat /\ DOMAIN queue = 1..k /\ g \in Nat
  BY DEF TypeOK
<1>2. ASSUME NEW b \in Nat, QueueRun(s, b) PROVE b = g
  <2>1. PICK mark \in [0..k -> Nat] : Marks(s, b, mark)
    BY <1>2 DEF QueueRun
  <2>2. 0 \in 0..k /\ \A n \in (0 + 1)..k : queue[n].socket # s
    BY <1>1
  <2> QED
    BY <2>1, <2>2 DEF Marks
<1> HIDE DEF k, g
<1>3. QueueRun(s, g)
  <2> DEFINE mark == [n \in 0..k |-> g]
  <2>1. mark \in [0..k -> Nat] /\ \A n \in 0..k : mark[n] = g
    BY <1>1
  <2> HIDE DEF mark
  <2>2. \A n \in 1..k : queue[n].socket # s /\ n \in 0..k /\ n - 1 \in 0..k
    BY <1>1
  <2>3. 0 \in 0..k /\ k \in 0..k
    BY <1>1
  <2>4. Marks(s, g, mark)
    BY <2>1, <2>2, <2>3 DEF Marks, k, g
  <2> QED
    BY <2>1, <2>4 DEF QueueRun, k
<1> QED
  BY <1>2, <1>3 DEF g

\* After a read() that overtakes nothing, no event of s is queued.
LEMMA RunRead ==
  ASSUME TypeOK, NEW s \in Socket, \A n \in DOMAIN queue : queue[n].socket # s,
         UNCHANGED queue, NEW h \in Nat, Len(got'[s]) = h
  PROVE  QueueRun(s, h)'
<1> DEFINE k == Len(queue)
           mark == [n \in 0..k |-> h]
<1>1. k \in Nat /\ DOMAIN queue = 1..k /\ Len(queue') = k
  <2>1. queue \in Seq(Events)
    BY DEF TypeOK
  <2> QED
    BY <2>1
<1>2. mark \in [0..k -> Nat] /\ \A n \in 0..k : mark[n] = h
  BY <1>1
<1> HIDE DEF k, mark
<1>3. \A n \in 1..k : queue'[n].socket # s /\ n \in 0..k /\ n - 1 \in 0..k
  BY <1>1
<1>4. 0 \in 0..k /\ k \in 0..k
  BY <1>1
<1>5. /\ mark[0] = Len(got'[s]) /\ mark[Len(queue')] = h
      /\ \A n \in 1..Len(queue') :
           IF queue'[n].socket = s
           THEN /\ queue'[n].chunks = Numbers(mark[n - 1], Len(queue'[n].chunks))
                /\ mark[n] = mark[n - 1] + Len(queue'[n].chunks)
           ELSE mark[n] = mark[n - 1]
      /\ \A m \in 0..Len(queue') :
           (\A n \in (m + 1)..Len(queue') : queue'[n].socket # s) => mark[m] = h
  BY <1>1, <1>2, <1>3, <1>4
<1> QED
  BY <1>1, <1>2, <1>5 DEF QueueRun, Marks

\* Nothing that Numbered says of a socket is changed.
SameRun(u) ==
  /\ Ordered(u)' => Ordered(u)
  /\ state'[u] = "open" => state[u] = "open"
  /\ got'[u] = got[u]
  /\ state'[u] = "open" =>
       /\ UNCHANGED queue /\ buffer'[u] = buffer[u] /\ taken'[u] = taken[u]
       /\ \A n \in Reader : \/ task'[u][n] = task[u][n]
                            \/ task'[u][n].at # "append" /\ task[u][n].at # "append"

\* Numbered is kept by a step that moves no chunk of the socket.
LEMMA RunFrame ==
  ASSUME NEW u \in Socket, Numbered(u), SameRun(u) PROVE Numbered(u)'
<1> SUFFICES ASSUME Ordered(u)'
             PROVE  /\ got'[u] = Numbers(0, Len(got'[u]))
                    /\ state'[u] = "open" => \E b \in Nat : QueueRun(u, b)' /\ BufferRun(u, b)'
  BY DEF Numbered
<1>1. got'[u] = Numbers(0, Len(got'[u]))
  BY DEF Numbered, SameRun
<1>2. ASSUME state'[u] = "open" PROVE \E b \in Nat : QueueRun(u, b)' /\ BufferRun(u, b)'
  <2>1. PICK b \in Nat : QueueRun(u, b) /\ BufferRun(u, b)
    BY <1>2 DEF Numbered, SameRun
  <2>2. QueueRun(u, b)'
    <3>1. queue' = queue /\ got'[u] = got[u]
      BY <1>2 DEF SameRun
    <3>2. PICK mark \in [0..Len(queue) -> Nat] : Marks(u, b, mark)
      BY <2>1 DEF QueueRun
    <3>3. Marks(u, b, mark)'
      BY <3>1, <3>2 DEF Marks
    <3> QED
      BY <3>1, <3>2, <3>3 DEF QueueRun
  <2>3. BufferRun(u, b)'
    <3>1. /\ buffer'[u] = buffer[u] /\ taken'[u] = taken[u]
          /\ \A n \in Reader : \/ task'[u][n] = task[u][n]
                               \/ task'[u][n].at # "append" /\ task[u][n].at # "append"
      BY <1>2 DEF SameRun
    <3>2. \A n \in Reader : task'[u][n].at = "append" =>
            task'[u][n] = task[u][n] /\ task[u][n].at = "append"
      BY <3>1
    <3>3. (\A n \in Reader : task'[u][n].at # "append") =>
            \A n \in Reader : task[u][n].at # "append"
      BY <3>1
    <3> QED
      BY <2>1, <3>1, <3>2, <3>3 DEF BufferRun
  <2> QED
    BY <2>2, <2>3
<1> QED
  BY <1>1, <1>2

\* Nothing is numbered before a socket is connected.
LEMMA NumberedInit == Init => \A s \in Socket : Numbered(s)
<1> SUFFICES ASSUME Init, NEW s \in Socket PROVE Numbered(s)
  OBVIOUS
<1>1. <<>> = Numbers(0, 0) /\ Len(<<>>) = 0
  BY NumbersSeq DEF Numbers
<1> QED
  BY <1>1 DEF Init, Numbered

\* The socket that connects.
LEMMA NumberedConnect ==
  ASSUME TypeOK, HandleInv, NEW s \in Socket, Connect(s) PROVE Numbered(s)'
<1> USE DEF peerVars, handleVars, history
<1>1. /\ got[s] = <<>> /\ buffer[s] = <<>> /\ taken[s] = 0 /\ Live(s) = {}
      /\ \A n \in DOMAIN queue : queue[n].socket # s
  BY DEF Connect, HandleInv, UnusedInv
<1> DEFINE c == <<0>>
<1>2. c \in Seq(Nat) /\ Enqueue(Event(s, c)) /\ Len(c) = 1 /\ c[1] = 0
  BY DEF Connect
<1> HIDE DEF c
<1>3. c = Numbers(0, 1)
  <2>1. Numbers(0, 1) \in Seq(Nat) /\ Len(Numbers(0, 1)) = 1 /\ Numbers(0, 1)[1] = 0
    BY NumbersSeq DEF Numbers
  <2>2. \A i \in 1..Len(c) : c[i] = Numbers(0, 1)[i]
    BY <1>2, <2>1
  <2> QED
    BY <1>2, <2>1, <2>2, SeqEqual
<1>4. <<>> = Numbers(0, 0) /\ <<>> = Numbers(1, 0) /\ Len(<<>>) = 0
  BY DEF Numbers
<1>5. UNCHANGED <<got, buffer, taken>>
  BY DEF Connect
<1>6. QueueRun(s, 0)
  BY <1>1, <1>4, RunNone
<1>7. ASSUME Ordered(s)' PROVE QueueRun(s, 1)'
  <2>1. queue' = Append(queue, Event(s, c))
    BY <1>2, <1>7, EnqueueFacts DEF Ordered
  <2>2. QueueRun(s, 0 + Len(c))'
    BY <1>2, <1>3, <1>5, <1>6, <2>1, RunAppend
  <2> QED
    BY <2>2, <1>2
<1>8. \A n \in Reader : task'[s][n].at # "append"
  <2>1. \A n \in Reader : task[s][n].at = "off"
    BY <1>1 DEF Live
  <2>2. s \notin reading
    BY DEF Connect, HandleInv, UnusedInv
  <2>3. PICK n \in Reader : Replaced(s, n, [at |-> "check", scratch |-> <<>>])
    BY <2>2, StartFacts DEF Connect
  <2> QED
    BY <2>1, <2>3 DEF Replaced
<1>9. BufferRun(s, 1)'
  <2>1. buffer'[s] = Numbers(1, 0) /\ Len(buffer'[s]) = 0 /\ taken'[s] = 0
    BY <1>1, <1>4, <1>5
  <2>2. 1 + 0 = 0 + 1
    OBVIOUS
  <2> QED
    BY <1>8, <2>1, <2>2 DEF BufferRun
<1> QED
  BY <1>1, <1>4, <1>5, <1>7, <1>9 DEF Numbered

\* read() takes the buffer, when no event is queued.
LEMMA NumberedRead ==
  ASSUME TypeOK, HandleInv, NEW s \in Socket, Read(s), Numbered(s) PROVE Numbered(s)'
<1> USE DEF peerVars, handleVars, history
<1> SUFFICES ASSUME Ordered(s)'
             PROVE  /\ got'[s] = Numbers(0, Len(got'[s]))
                    /\ state'[s] = "open" => \E b \in Nat : QueueRun(s, b)' /\ BufferRun(s, b)'
  BY DEF Numbered
<1>1. Ordered(s) /\ \A n \in DOMAIN queue : queue[n].socket # s
  BY DEF Read, Ordered
<1>2. state[s] = "open"
  <2>1. HasHandle(s) /\ buffer[s] # <<>>
    BY DEF Read
  <2>2. state[s] # "failed"
    BY <2>1 DEF HandleInv, UnusedInv
  <2> QED
    BY <2>1, <2>2 DEF HasHandle
<1>3. PICK b \in Nat : QueueRun(s, b) /\ BufferRun(s, b)
  BY <1>1, <1>2 DEF Numbered
<1>4. b = Len(got[s])
  BY <1>1, <1>3, RunNone
<1>5. got[s] \in Seq(Nat) /\ buffer[s] \in Seq(Nat)
  BY DEF TypeOK
<1>6. PICK l \in Nat : l = Len(buffer[s])
  BY <1>5
<1>7. PICK h \in Nat : h = b + l
  OBVIOUS
<1>8. got[s] = Numbers(0, b) /\ buffer[s] = Numbers(0 + b, l)
  BY <1>1, <1>3, <1>4, <1>6 DEF Numbered, BufferRun
<1>9. /\ got'[s] = got[s] \o buffer[s] /\ buffer'[s] = <<>>
      /\ UNCHANGED <<queue, task, taken>>
  BY DEF Read, TypeOK
<1>10. got'[s] = Numbers(0, h)
  <2>1. Numbers(0, b) \o Numbers(0 + b, l) = Numbers(0, b + l)
    BY NumbersConcat
  <2> QED
    BY <1>7, <1>8, <1>9, <2>1
<1>11. Len(got'[s]) = h
  BY <1>10, NumbersSeq
<1>12. QueueRun(s, h)'
  BY <1>1, <1>9, <1>11, RunRead
<1>13. BufferRun(s, h)'
  <2>1. /\ \A n \in Reader : task[s][n].at = "append" =>
             /\ task[s][n].scratch = Numbers(h, Len(task[s][n].scratch))
             /\ h + Len(task[s][n].scratch) = taken[s] + 1
        /\ (\A n \in Reader : task[s][n].at # "append") => h = taken[s] + 1
    BY <1>3, <1>6, <1>7 DEF BufferRun
  <2>2. h + 0 = h /\ Len(buffer'[s]) = 0 /\ buffer'[s] = Numbers(h, 0)
    BY <1>9 DEF Numbers
  <2> QED
    BY <1>9, <2>1, <2>2 DEF BufferRun
<1> QED
  BY <1>10, <1>11, <1>12, <1>13

\* Numbered is kept by what JavaScript calls.
LEMMA NumberedUser ==
  ASSUME TypeOK, HandleInv, User, \A u \in Socket : Numbered(u), NEW u \in Socket
  PROVE  Numbered(u)'
<1> USE DEF peerVars, handleVars, history
<1>1. ASSUME NEW s \in Socket, Connect(s) PROVE Numbered(u)'
  <2>1. CASE u = s
    BY <1>1, <2>1, NumberedConnect
  <2>2. CASE u # s
    <3> DEFINE c == <<0>>
    <3>1. c \in Seq(Nat) /\ Enqueue(Event(s, c))
      BY <1>1 DEF Connect
    <3> HIDE DEF c
    <3>2. dropped \subseteq dropped' /\ (queue' = queue \/ queue' = Append(queue, Event(s, c)))
      BY <3>1, EnqueueFacts
    <3>3. /\ u \in doubled' <=> u \in doubled
          /\ \A n \in Reader : task'[u][n] = task[u][n]
      BY <1>1, <2>2, StartOthers DEF Connect
    <3>4. UNCHANGED <<got, buffer, taken, overtaken>> /\ state'[u] = state[u]
      BY <1>1, <2>2 DEF Connect, TypeOK
    <3>5. Ordered(u)' => Ordered(u)
      BY <3>2, <3>3, <3>4 DEF Ordered
    <3>6. CASE queue' = queue
      <4>1. SameRun(u)
        BY <3>3, <3>4, <3>5, <3>6 DEF SameRun
      <4> QED
        BY <4>1, RunFrame
    <3>7. CASE queue' = Append(queue, Event(s, c))
      <4>1. \A b \in Nat : QueueRun(u, b) => QueueRun(u, b)'
        BY <2>2, <3>1, <3>4, <3>7, RunAppendOther
      <4>2. \A b \in Nat : BufferRun(u, b) => BufferRun(u, b)'
        BY <3>3, <3>4 DEF BufferRun
      <4> QED
        BY <3>4, <3>5, <4>1, <4>2 DEF Numbered
    <3> QED
      BY <3>2, <3>6, <3>7
  <2> QED
    BY <2>1, <2>2
<1>2. ASSUME NEW s \in Socket, ConnectFails(s) \/ Pause(s) \/ EndWrite(s) \/ Destroy(s)
      PROVE Numbered(u)'
  <2>1. SameRun(u)
    BY <1>2 DEF ConnectFails, Pause, EndWrite, Destroy, SameRun, Ordered, TypeOK
  <2> QED
    BY <2>1, RunFrame
<1>3. ASSUME NEW s \in Socket, Resume(s) PROVE Numbered(u)'
  <2>1. UNCHANGED <<got, buffer, taken, queue, state, dropped, overtaken>>
    BY <1>3 DEF Resume
  <2>2. doubled \subseteq doubled' /\
        \A n \in Reader : \/ task'[u][n] = task[u][n]
                          \/ task'[u][n].at # "append" /\ task[u][n].at # "append"
    <3>1. CASE UNCHANGED <<task, doubled>>
      BY <3>1
    <3>2. CASE StartReading(s) /\ s \notin reading
      <4>1. PICK n \in Reader \ Live(s) :
              /\ Replaced(s, n, [at |-> "check", scratch |-> <<>>])
              /\ doubled' = IF Live(s) = {} THEN doubled ELSE doubled \cup {s}
        BY <3>2, StartFacts
      <4> QED
        BY <4>1 DEF Replaced, Live
    <3> QED
      BY <1>3, <3>1, <3>2 DEF Resume, StartReading
  <2>3. SameRun(u)
    BY <2>1, <2>2 DEF SameRun, Ordered
  <2> QED
    BY <2>3, RunFrame
<1>4. ASSUME NEW s \in Socket, Read(s) PROVE Numbered(u)'
  <2>1. CASE u = s
    BY <1>4, <2>1, NumberedRead
  <2>2. CASE u # s
    <3>1. SameRun(u)
      BY <1>4, <2>2 DEF Read, SameRun, Ordered, TypeOK
    <3> QED
      BY <3>1, RunFrame
  <2> QED
    BY <2>1, <2>2
<1> QED
  BY <1>1, <1>2, <1>3, <1>4 DEF User

\* The buffer of s becomes the chunks of an event.
LEMMA NumberedHarvest ==
  ASSUME TypeOK, NEW s \in Socket, Harvest(s), Numbered(s), s \notin paused, buffer[s] # <<>>
  PROVE  Numbered(s)'
<1> USE DEF peerVars, handleVars, history
<1> SUFFICES ASSUME Ordered(s)'
             PROVE  /\ got'[s] = Numbers(0, Len(got'[s]))
                    /\ state'[s] = "open" => \E b \in Nat : QueueRun(s, b)' /\ BufferRun(s, b)'
  BY DEF Numbered
<1>1. PICK c \in Seq(Nat) : c = buffer[s]
  BY DEF TypeOK
<1>2. /\ Enqueue(Event(s, c)) /\ buffer'[s] = <<>>
      /\ UNCHANGED <<got, state, task, taken, doubled, overtaken>>
  BY <1>1 DEF Harvest, TypeOK
<1>3. dropped \subseteq dropped' /\ queue' = Append(queue, Event(s, c))
  BY <1>1, <1>2, EnqueueFacts DEF Ordered
<1>4. Ordered(s)
  BY <1>2, <1>3 DEF Ordered
<1>5. got'[s] = Numbers(0, Len(got'[s]))
  BY <1>2, <1>4 DEF Numbered
<1>6. ASSUME state'[s] = "open" PROVE \E b \in Nat : QueueRun(s, b)' /\ BufferRun(s, b)'
  <2>1. PICK b \in Nat : QueueRun(s, b) /\ BufferRun(s, b)
    BY <1>2, <1>4, <1>6 DEF Numbered
  <2>2. PICK h \in Nat : h = b + Len(c)
    BY <1>1
  <2>3. c = Numbers(b, Len(c))
    BY <1>1, <2>1 DEF BufferRun
  <2>4. QueueRun(s, b + Len(c))'
    BY <1>1, <1>2, <1>3, <2>1, <2>3, RunAppend
  <2>5. BufferRun(s, h)'
    <3>1. /\ \A n \in Reader : task[s][n].at = "append" =>
               /\ task[s][n].scratch = Numbers(h, Len(task[s][n].scratch))
               /\ h + Len(task[s][n].scratch) = taken[s] + 1
          /\ (\A n \in Reader : task[s][n].at # "append") => h = taken[s] + 1
      BY <1>1, <2>1, <2>2 DEF BufferRun
    <3>2. h + 0 = h /\ Len(buffer'[s]) = 0 /\ buffer'[s] = Numbers(h, 0)
      BY <1>2 DEF Numbers
    <3> QED
      BY <1>2, <3>1, <3>2 DEF BufferRun
  <2> QED
    BY <2>2, <2>4, <2>5
<1> QED
  BY <1>5, <1>6

\* The first event of the queue is delivered, or dropped with its socket.
LEMMA NumberedEmit ==
  ASSUME TypeOK, HandleInv, HandleInv', Emit, NEW u \in Socket, Numbered(u)
  PROVE  Numbered(u)'
<1> USE DEF peerVars, handleVars, history
<1> SUFFICES ASSUME Ordered(u)'
             PROVE  /\ got'[u] = Numbers(0, Len(got'[u]))
                    /\ state'[u] = "open" => \E b \in Nat : QueueRun(u, b)' /\ BufferRun(u, b)'
  BY DEF Numbered
<1> DEFINE e == queue[1]
<1>1. e \in Events /\ Head(queue) = e /\ queue # <<>> /\ queue' = Tail(queue)
  BY DEF Emit, TypeOK
<1>2. e.socket \in Socket /\ e.chunks \in Seq(Nat)
  BY <1>1 DEF Events
<1>3. UNCHANGED <<taken, buffer, task, doubled, dropped, overtaken, state>>
  BY DEF Emit
<1>4. got' = IF e.socket \in objects THEN [got EXCEPT ![e.socket] = got[e.socket] \o e.chunks]
             ELSE got
  BY <1>1 DEF Emit, TypeOK
<1>5. Ordered(u)
  BY <1>3 DEF Ordered
<1>6. \A b \in Nat : BufferRun(u, b) => BufferRun(u, b)'
  BY <1>3 DEF BufferRun
<1>7. CASE e.socket # u
  <2> HIDE DEF e
  <2>1. got'[u] = got[u]
    BY <1>2, <1>4, <1>7 DEF TypeOK
  <2>2. \A b \in Nat : QueueRun(u, b) => QueueRun(u, b)'
    BY <1>1, <1>7, <2>1, RunTail DEF e
  <2> QED
    BY <1>3, <1>5, <1>6, <2>1, <2>2 DEF Numbered
<1>8. CASE e.socket = u /\ state[u] # "open"
  <2> HIDE DEF e
  <2>1. state[u] = "gone"
    <3>1. 1 \in DOMAIN queue
      BY <1>1 DEF TypeOK
    <3>2. state[u] \notin {"none", "failed"}
      BY <1>8, <3>1 DEF HandleInv, UnusedInv, e
    <3> QED
      BY <1>8, <3>2 DEF TypeOK
  <2>2. u \notin objects
    BY <2>1 DEF HandleInv, ObjectsInv, HasHandle
  <2>3. got'[u] = got[u]
    BY <1>4, <1>8, <2>2
  <2> QED
    BY <1>3, <1>5, <1>8, <2>3 DEF Numbered
<1>9. CASE e.socket = u /\ state[u] = "open"
  <2>1. u \in objects
    BY <1>9 DEF HandleInv, ObjectsInv, HasHandle
  <2>2. got'[u] = got[u] \o e.chunks
    BY <1>4, <1>9, <2>1 DEF TypeOK
  <2>3. PICK b \in Nat : QueueRun(u, b) /\ BufferRun(u, b)
    BY <1>5, <1>9 DEF Numbered
  <2>4. got[u] \in Seq(Nat)
    BY DEF TypeOK
  <2>5. PICK g \in Nat : g = Len(got[u])
    BY <2>4
  <2>6. PICK l \in Nat : l = Len(e.chunks)
    BY <1>2
  <2>7. e.chunks = Numbers(0 + g, l)
    <3>1. e.chunks = Numbers(Len(got[u]), Len(e.chunks))
      BY <1>1, <1>9, <2>3, RunTail
    <3> QED
      BY <2>5, <2>6, <3>1
  <2>8. got[u] = Numbers(0, g)
    BY <1>5, <2>5 DEF Numbered
  <2>9. got'[u] = Numbers(0, g + l) /\ Len(got'[u]) = g + l
    <3>1. Numbers(0, g) \o Numbers(0 + g, l) = Numbers(0, g + l)
      BY NumbersConcat
    <3>2. got'[u] = Numbers(0, g + l)
      BY <2>2, <2>7, <2>8, <3>1
    <3> QED
      BY <3>2, NumbersSeq
  <2>10. QueueRun(u, b)'
    <3>1. Len(got'[u]) = Len(got[u]) + Len(queue[1].chunks)
      BY <2>5, <2>6, <2>9
    <3> QED
      BY <1>1, <1>9, <2>3, <3>1, RunTail
  <2> HIDE DEF e
  <2> QED
    BY <1>6, <2>3, <2>9, <2>10
<1> QED
  BY <1>7, <1>8, <1>9

\* Numbered is kept by the keep-alive loop.
LEMMA NumberedLoop ==
  ASSUME TypeOK, HandleInv, HandleInv', Loop, \A u \in Socket : Numbered(u), NEW u \in Socket
  PROVE  Numbered(u)'
<1> USE DEF peerVars, handleVars, history
<1>1. CASE Return \/ LoadReading \/ LoadBuffer \/ Harvested \/ Check
  <2>1. SameRun(u)
    BY <1>1 DEF Return, LoadReading, LoadBuffer, Harvested, Check, SameRun, Ordered
  <2> QED
    BY <2>1, RunFrame
<1>2. ASSUME NEW s \in Socket, Harvest(s) PROVE Numbered(u)'
  <2>1. UNCHANGED <<taken, task, doubled, overtaken, state, got>>
    BY <1>2 DEF Harvest
  <2>2. CASE UNCHANGED <<queue, dropped>> /\ buffer'[u] = buffer[u]
    <3>1. SameRun(u)
      BY <2>1, <2>2 DEF SameRun, Ordered
    <3> QED
      BY <3>1, RunFrame
  <2>3. CASE s \notin paused /\ buffer[s] # <<>> /\ u = s
    BY <1>2, <2>3, NumberedHarvest
  <2>4. CASE s \notin paused /\ buffer[s] # <<>> /\ u # s
    <3>1. PICK c \in Seq(Nat) : c = buffer[s]
      BY DEF TypeOK
    <3>2. Enqueue(Event(s, c)) /\ buffer'[u] = buffer[u]
      BY <1>2, <2>4, <3>1 DEF Harvest, TypeOK
    <3>3. dropped \subseteq dropped' /\ (queue' = queue \/ queue' = Append(queue, Event(s, c)))
      BY <3>2, EnqueueFacts
    <3>4. Ordered(u)' => Ordered(u)
      BY <2>1, <3>3 DEF Ordered
    <3>5. CASE queue' = queue
      <4>1. SameRun(u)
        BY <2>1, <3>2, <3>4, <3>5 DEF SameRun
      <4> QED
        BY <4>1, RunFrame
    <3>6. CASE queue' = Append(queue, Event(s, c))
      <4>1. \A b \in Nat : QueueRun(u, b) => QueueRun(u, b)'
        BY <2>1, <2>4, <3>6, RunAppendOther
      <4>2. \A b \in Nat : BufferRun(u, b) => BufferRun(u, b)'
        BY <2>1, <3>2 DEF BufferRun
      <4> QED
        BY <2>1, <3>4, <4>1, <4>2 DEF Numbered
    <3> QED
      BY <3>3, <3>5, <3>6
  <2> QED
    BY <1>2, <2>2, <2>3, <2>4 DEF Harvest, TypeOK
<1>3. CASE Emit
  BY <1>3, NumberedEmit
<1> QED
  BY <1>1, <1>2, <1>3 DEF Loop

\* Numbered is kept by the reader tasks: one reader goes on where it stopped.
LEMMA NumberedTask ==
  ASSUME TypeOK, HandleInv, LoopInv, NEW s \in Socket, NEW n \in Reader, Task(s, n),
         \A u \in Socket : Numbered(u), NEW u \in Socket
  PROVE  Numbered(u)'
<1> USE DEF peerVars, handleVars, history
<1>1. UNCHANGED <<got, queue, state, doubled, dropped, overtaken>>
  BY DEF Task, TaskLooks, TaskReads, TaskAppends, TaskEnds
<1>2. PICK r : Replaced(s, n, r)
  BY TaskReplaces
<1>3. CASE u # s
  <2>1. taken'[u] = taken[u] /\ buffer'[u] = buffer[u]
    BY <1>3 DEF Task, TaskLooks, TaskReads, TaskAppends, TaskEnds, TypeOK
  <2>2. SameRun(u)
    BY <1>1, <1>2, <1>3, <2>1 DEF SameRun, Ordered, Replaced
  <2> QED
    BY <2>2, RunFrame
<1>4. CASE u = s
  <2>1. \A m \in Reader : m # n => task'[s][m] = task[s][m]
    BY <1>2 DEF Replaced
  <2>2. CASE task[s][n].at # "append" /\ UNCHANGED <<taken, buffer>> /\ task'[s][n].at # "append"
    <3>1. SameRun(u)
      BY <1>1, <1>4, <2>1, <2>2 DEF SameRun, Ordered
    <3> QED
      BY <3>1, RunFrame
  <2>3. ASSUME Ordered(s)', state'[s] = "open"
        PROVE /\ \A m \in Reader : m # n => task[s][m].at # "append" /\ task'[s][m].at # "append"
              /\ \E b \in Nat : QueueRun(s, b)' /\ BufferRun(s, b)
              /\ Ordered(s)
    <3>1. Ordered(s)
      BY <1>1, <2>3 DEF Ordered
    <3>2. n \in Live(s)
      BY DEF Task, TaskLooks, TaskReads, TaskAppends, TaskEnds, Live
    <3>3. \A m \in Reader : m # n => task[s][m].at = "off"
      BY <3>1, <3>2 DEF Ordered, LoopInv, StreamInv, OneReader, Single, Live
    <3>4. PICK b \in Nat : QueueRun(s, b) /\ BufferRun(s, b)
      BY <1>1, <2>3, <3>1 DEF Numbered
    <3>5. QueueRun(s, b)'
      BY <1>1, <3>4 DEF QueueRun, Marks
    <3> QED
      BY <2>1, <3>1, <3>3, <3>4, <3>5
  <2>4. (\E b \in Nat : Ordered(s)' /\ state'[s] = "open" => QueueRun(s, b)' /\ BufferRun(s, b)')
          => Numbered(s)'
    <3>1. Ordered(s)' => got'[s] = Numbers(0, Len(got'[s]))
      BY <1>1 DEF Ordered, Numbered
    <3> QED
      BY <3>1 DEF Numbered
  <2>5. CASE TaskReads(s, n) /\ taken' # taken /\ Ordered(s)' /\ state'[s] = "open"
    <3>1. PICK last \in (taken[s] + 1)..sent[s] :
            /\ taken' = [taken EXCEPT ![s] = last]
            /\ task' = [task EXCEPT ![s][n] =
                          [at |-> "append",
                           scratch |-> [i \in 1..(last - taken[s]) |-> taken[s] + i]]]
      BY <2>5 DEF TaskReads
    <3>2. PICK t \in Nat : t = taken[s]
      BY DEF TypeOK
    <3>3. PICK l \in Nat : l = last - t /\ last = t + l
      <4>1. sent[s] \in Nat
        BY DEF TypeOK
      <4> QED
        BY <3>2, <4>1
    <3>4. [i \in 1..(last - taken[s]) |-> taken[s] + i] = Numbers(t + 1, l)
      BY <3>2, <3>3 DEF Numbers
    <3>5. /\ task'[s][n].at = "append" /\ task'[s][n].scratch = Numbers(t + 1, l)
          /\ taken'[s] = t + l /\ buffer'[s] = buffer[s]
      BY <2>5, <3>1, <3>3, <3>4 DEF TaskReads, TypeOK
    <3>6. PICK b \in Nat : QueueRun(s, b)' /\ BufferRun(s, b)
      BY <2>3, <2>5
    <3>7. \A m \in Reader : task[s][m].at # "append"
      BY <2>3, <2>5 DEF TaskReads
    <3>8. b + Len(buffer[s]) = t + 1 /\ buffer[s] = Numbers(b, Len(buffer[s]))
      BY <3>2, <3>6, <3>7 DEF BufferRun
    <3>9. Len(task'[s][n].scratch) = l
      <4>1. t + 1 \in Nat
        OBVIOUS
      <4> QED
        BY <3>5, <4>1, NumbersSeq
    <3>10. (t + 1) + l = (t + l) + 1
      OBVIOUS
    <3>11. BufferRun(s, b)'
      <4>1. \A m \in Reader : task'[s][m].at = "append" => m = n
        BY <2>3, <2>5
      <4> QED
        BY <3>5, <3>8, <3>9, <3>10, <4>1 DEF BufferRun
    <3> QED
      BY <1>4, <2>4, <3>6, <3>11
  <2>6. CASE TaskAppends(s, n) /\ Ordered(s)' /\ state'[s] = "open"
    <3>1. PICK x \in Seq(Nat) : x = task[s][n].scratch
      BY DEF TypeOK, Tasks
    <3>2. /\ buffer'[s] = buffer[s] \o x /\ taken' = taken
          /\ task'[s][n].at = "check" /\ task[s][n].at = "append"
      BY <2>6, <3>1, GoesToThere DEF TaskAppends, TypeOK
    <3>3. PICK b \in Nat : QueueRun(s, b)' /\ BufferRun(s, b)
      BY <2>3, <2>6
    <3>4. buffer[s] \in Seq(Nat)
      BY DEF TypeOK
    <3>5. PICK l \in Nat : l = Len(buffer[s])
      BY <3>4
    <3>6. PICK k \in Nat : k = Len(x)
      BY <3>1
    <3>7. buffer[s] = Numbers(b, l) /\ x = Numbers(b + l, k) /\ b + l + k = taken[s] + 1
      BY <3>1, <3>2, <3>3, <3>5, <3>6 DEF BufferRun
    <3>8. buffer'[s] = Numbers(b, l + k)
      BY <3>2, <3>7, NumbersConcat, ZenonT(60)
    <3>9. Len(buffer'[s]) = l + k /\ b + (l + k) = taken'[s] + 1
      <4>1. l + k \in Nat /\ b + (l + k) = b + l + k
        OBVIOUS
      <4> QED
        BY <3>2, <3>7, <3>8, <4>1, NumbersSeq
    <3>10. \A m \in Reader : task'[s][m].at # "append"
      BY <2>3, <2>6, <3>2
    <3>11. BufferRun(s, b)'
      BY <3>8, <3>9, <3>10 DEF BufferRun
    <3> QED
      BY <1>4, <2>4, <3>3, <3>11
  <2>7. CASE ~(Ordered(s)' /\ state'[s] = "open")
    BY <1>4, <2>4, <2>7
  <2>8. CASE TaskReads(s, n) /\ taken' = taken
    <3>1. task[s][n].at # "append" /\ UNCHANGED buffer
      BY <2>8 DEF TaskReads
    <3>2. ASSUME NEW last \in (taken[s] + 1)..sent[s], taken' = [taken EXCEPT ![s] = last]
          PROVE FALSE
      <4>1. taken[s] \in Nat /\ sent[s] \in Nat /\ taken[s] = last
        BY <2>8, <3>2 DEF TypeOK
      <4> QED
        BY <3>2, <4>1
    <3>3. PICK p \in {"end", "check"} : GoesTo(s, n, p)
      BY <2>8, <3>2 DEF TaskReads
    <3>4. task'[s][n].at # "append"
      BY <3>3, GoesToThere
    <3> QED
      BY <2>2, <2>8, <3>1, <3>4
  <2>9. CASE TaskLooks(s, n) \/ TaskEnds(s, n)
    <3>1. task'[s][n].at # "append"
      BY <2>9, GoesToThere DEF TaskLooks, TaskEnds
    <3> QED
      BY <2>2, <2>9, <3>1 DEF TaskLooks, TaskEnds
  <2> QED
    BY <2>5, <2>6, <2>7, <2>8, <2>9 DEF Task
<1> QED
  BY <1>3, <1>4

\* Numbered is kept by every step.
LEMMA NumberedStep ==
  ASSUME TypeOK, HandleInv, HandleInv', LoopInv, [Next]_vars, \A u \in Socket : Numbered(u)
  PROVE  \A u \in Socket : Numbered(u)'
<1> SUFFICES ASSUME NEW u \in Socket PROVE Numbered(u)'
  OBVIOUS
<1>1. ASSUME NEW s \in Socket, PeerSends(s) \/ PeerEnds(s) \/ PeerResets(s) PROVE Numbered(u)'
  <2>1. SameRun(u)
    BY <1>1 DEF PeerSends, PeerEnds, PeerResets, SameRun, Ordered, handleVars, history
  <2> QED
    BY <2>1, RunFrame
<1>2. CASE UNCHANGED vars
  <2>1. SameRun(u)
    BY <1>2 DEF vars, handleVars, history, SameRun, Ordered
  <2> QED
    BY <2>1, RunFrame
<1> QED
  BY <1>1, <1>2, NumberedUser, NumberedLoop, NumberedTask DEF Next

\* What the loop and the numbering keep, with the types
OrderInv == TypeOK /\ HandleInv /\ LoopInv /\ \A s \in Socket : Numbered(s)

\* 'connect' comes first and then the bytes in the order in which the peer sent
\* them, however reader tasks, harvests, pumps, pause() and resume() interleave.
THEOREM AlwaysInOrder == Spec => []InOrder
<1>1. Init => OrderInv
  BY TypeInit, HandleInit, LoopInit, NumberedInit DEF OrderInv
<1>2. OrderInv /\ [Next]_vars => OrderInv'
  BY TypeStep, HandleStep, LoopStep, NumberedStep DEF OrderInv
<1>3. OrderInv => InOrder
  <2> SUFFICES ASSUME OrderInv, NEW s \in Socket \ (doubled \cup dropped \cup overtaken)
               PROVE  got[s] = [n \in 1..Len(got[s]) |-> n - 1]
    BY DEF InOrder
  <2>1. got[s] = Numbers(0, Len(got[s]))
    BY DEF OrderInv, Numbered, Ordered
  <2>2. \A k : Numbers(0, k) = [n \in 1..k |-> n - 1]
    BY DEF Numbers
  <2> QED
    BY <2>1, <2>2
<1> QED
  BY <1>1, <1>2, <1>3, PTL DEF Spec

=============================================================================
