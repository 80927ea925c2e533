----------------------------- MODULE NetClient -----------------------------
(***************************************************************************)
(* TCP client sockets of the net module (nodejs_core/net.rs and            *)
(* tcp_async.rs): net.connect, the reader tasks of the shared Tokio        *)
(* runtime, pause, resume, read, end and destroy, the harvest of the       *)
(* buffers, the bounded queue of socket events, and the keep-alive loop of *)
(* runtime_minimal.rs that pumps both and decides when the program ends.   *)
(*                                                                         *)
(* There is one JavaScript thread, and one step is what a thread does      *)
(* between two accesses another can see: buffer and `reading` are all that *)
(* a reader task shares with it. Bytes are numbered chunks, a 'connect'    *)
(* event counts as chunk 0. What write() sends and what a peer does with   *)
(* it are left out, as are addresses, options and encodings.               *)
(***************************************************************************)
EXTENDS Naturals, Sequences, FiniteSets, SequencesExt

CONSTANTS
  Socket,      \* the sockets a program may open
  MaxChunks,   \* bound: chunks all peers send together
  MaxResumes,  \* bound: calls of resume()
  QueueLimit,  \* capacity of the event channel (4096)
  PumpLimit    \* events one pump delivers (256)

ASSUME NetAssumption ==
  /\ IsFiniteSet(Socket) /\ {MaxChunks, MaxResumes, QueueLimit, PumpLimit} \subseteq Nat

VARIABLES
  sent,        \* sent[s]: chunks the peer has sent
  peer,        \* peer[s]: "open", "ended" or "reset"
  taken,       \* taken[s]: chunks read from the stream
  state,       \* state[s]: "none", "open", "failed" or, after destroy(), "gone"
  reading, paused, writeEnded,  \* the flags of the handles
  buffer,      \* buffer[s]: chunks read and not yet harvested
  task,        \* task[s][n]: where the n-th reader task of s is, and its scratch
  active,      \* ACTIVE_CLIENT_HANDLE_IDS
  queue,       \* the channel of PendingSocketEvents
  objects,     \* globalThis._netClientSockets
  at,          \* where the JavaScript thread is
  back,        \* where it goes when the JavaScript it runs returns
  todo,        \* sockets the harvest has not visited
  visited,     \* the socket it is at
  resumes,     \* calls of resume() so far
  processed,   \* events delivered in this pump
  got,         \* history: got[s], the chunks given to JavaScript
  doubled,     \* history: sockets that two tasks read at a time
  dropped,     \* history: sockets that lost an event to a full channel
  overtaken    \* history: sockets of which read() took bytes before queued events

peerVars == <<sent, peer>>
handleVars == <<state, reading, paused, writeEnded>>
loopVars == <<back, todo, visited, processed, resumes>>
history == <<doubled, dropped, overtaken>>
vars == <<peerVars, taken, handleVars, buffer, task, active, queue, objects, at, loopVars, got,
          history>>

\* A reader task is started by connect and by resume.
Reader == 1..(MaxResumes + 1)

Off == [at |-> "off", scratch |-> <<>>]

Init ==
  /\ sent = [s \in Socket |-> 0] /\ peer = [s \in Socket |-> "open"]
  /\ taken = [s \in Socket |-> 0] /\ state = [s \in Socket |-> "none"]
  /\ reading = {} /\ paused = {} /\ writeEnded = {}
  /\ buffer = [s \in Socket |-> <<>>]
  /\ task = [s \in Socket |-> [n \in Reader |-> Off]]
  /\ active = {} /\ queue = <<>> /\ objects = {}
  /\ at = "js" /\ back = "harvest" /\ todo = {} /\ visited \in Socket /\ processed = 0
  /\ resumes = 0
  /\ got = [s \in Socket |-> <<>>]
  /\ doubled = {} /\ dropped = {} /\ overtaken = {}

-----------------------------------------------------------------------------
(* JavaScript: the script, a handler, a timer *)

Event(s, chunks) == [socket |-> s, chunks |-> chunks]

\* try_send: an event that finds the channel full is gone.
Enqueue(e) ==
  IF Len(queue) < QueueLimit
  THEN queue' = Append(queue, e) /\ UNCHANGED dropped
  ELSE dropped' = dropped \cup {e.socket} /\ UNCHANGED queue

Live(s) == {n \in Reader : task[s][n].at # "off"}

GoesTo(s, n, place) == task' = [task EXCEPT ![s][n] = [at |-> place, scratch |-> <<>>]]

\* start_reading: a task is spawned unless the flag was set already.
StartReading(s) ==
  IF s \in reading THEN UNCHANGED <<reading, task, doubled>>
  ELSE /\ reading' = reading \cup {s}
       /\ \E n \in Reader \ Live(s) :
            /\ \A m \in 1..(n - 1) : m \in Live(s)
            /\ GoesTo(s, n, "check")
       /\ doubled' = IF Live(s) = {} THEN doubled ELSE doubled \cup {s}

Connect(s) ==
  /\ at = "js" /\ state[s] = "none"
  /\ state' = [state EXCEPT ![s] = "open"]
  /\ objects' = objects \cup {s}
  /\ active' = active \cup {s}
  /\ StartReading(s)
  /\ Enqueue(Event(s, <<0>>))
  /\ UNCHANGED <<peerVars, taken, paused, writeEnded, buffer, at, loopVars, got, overtaken>>

\* Refused or timed out: the object and the handle stay, and no event comes.
ConnectFails(s) ==
  /\ at = "js" /\ state[s] = "none"
  /\ state' = [state EXCEPT ![s] = "failed"]
  /\ objects' = objects \cup {s}
  /\ UNCHANGED <<peerVars, taken, reading, paused, writeEnded, buffer, task, active, queue, at,
                 loopVars, got, history>>

\* TCP_MANAGER still has the handle.
HasHandle(s) == state[s] \in {"open", "failed"}

Pause(s) ==
  /\ at = "js" /\ HasHandle(s)
  /\ paused' = paused \cup {s}
  /\ reading' = reading \ {s}
  /\ UNCHANGED <<peerVars, taken, state, writeEnded, buffer, task, active, queue, objects, at,
                 loopVars, got, history>>

Resume(s) ==
  /\ at = "js" /\ HasHandle(s) /\ resumes < MaxResumes
  /\ resumes' = resumes + 1
  /\ paused' = paused \ {s}
  /\ IF state[s] = "open" THEN StartReading(s) ELSE UNCHANGED <<reading, task, doubled>>
  /\ UNCHANGED <<peerVars, taken, state, writeEnded, buffer, active, queue, objects, at, back,
                 todo, visited, processed, got, dropped, overtaken>>

\* socket.end(): the write side is shut down.
EndWrite(s) ==
  /\ at = "js" /\ HasHandle(s)
  /\ writeEnded' = writeEnded \cup {s}
  /\ UNCHANGED <<peerVars, taken, state, reading, paused, buffer, task, active, queue, objects,
                 at, loopVars, got, history>>

\* socket.read() takes the buffer, past the events that are queued.
Read(s) ==
  /\ at = "js" /\ HasHandle(s) /\ buffer[s] # <<>>
  /\ got' = [got EXCEPT ![s] = @ \o buffer[s]]
  /\ buffer' = [buffer EXCEPT ![s] = <<>>]
  /\ overtaken' = IF \E n \in DOMAIN queue : queue[n].socket = s
                  THEN overtaken \cup {s} ELSE overtaken
  /\ UNCHANGED <<peerVars, taken, handleVars, task, active, queue, objects, at, loopVars,
                 doubled, dropped>>

Destroy(s) ==
  /\ at = "js" /\ HasHandle(s)
  /\ state' = [state EXCEPT ![s] = "gone"]
  /\ reading' = reading \ {s}
  /\ active' = active \ {s}
  /\ objects' = objects \ {s}
  /\ UNCHANGED <<peerVars, taken, paused, writeEnded, buffer, task, queue, at, loopVars, got,
                 history>>

\* The script or the handler returns.
Return ==
  /\ at = "js"
  /\ at' = back
  /\ todo' = IF back = "harvest" THEN active ELSE todo
  /\ processed' = IF back = "harvest" THEN 0 ELSE processed
  /\ UNCHANGED <<peerVars, taken, handleVars, buffer, task, active, queue, objects, back,
                 visited, resumes, got, history>>

-----------------------------------------------------------------------------
(* The keep-alive loop *)

\* Mutant of Harvest: the buffer is copied and not taken.
HarvestCopies(s) ==
  /\ at = "harvest" /\ s \in todo
  /\ todo' = todo \ {s}
  /\ IF s \in paused THEN UNCHANGED <<queue, dropped, at, visited>>
     ELSE /\ IF buffer[s] = <<>> THEN UNCHANGED <<queue, dropped>>
             ELSE Enqueue(Event(s, buffer[s]))
          /\ at' = "reading" /\ visited' = s
  /\ UNCHANGED <<peerVars, taken, handleVars, buffer, task, active, objects, back, processed,
                 resumes, got, doubled, overtaken>>

\* harvest_client_socket_buffers takes what a socket has read ...
Harvest(s) ==
  /\ at = "harvest" /\ s \in todo
  /\ todo' = todo \ {s}
  /\ IF s \in paused THEN UNCHANGED <<buffer, queue, dropped, at, visited>>
     ELSE /\ buffer' = [buffer EXCEPT ![s] = <<>>]
          /\ IF buffer[s] = <<>> THEN UNCHANGED <<queue, dropped>>
             ELSE Enqueue(Event(s, buffer[s]))
          /\ at' = "reading" /\ visited' = s
  /\ UNCHANGED <<peerVars, taken, handleVars, task, active, objects, back, processed, resumes, got,
                 doubled, overtaken>>

\* ... and stops keeping the loop alive for it when its reader has finished,
\* then its buffer is empty, and its write side has ended.
LoadReading ==
  /\ at = "reading"
  /\ at' = IF visited \in reading THEN "harvest" ELSE "buffered"
  /\ UNCHANGED <<peerVars, taken, handleVars, buffer, task, active, queue, objects, loopVars, got,
                 history>>

\* Mutant of LoadBuffer: bytes that came since the buffer was taken are not looked for.
LoadBufferBlind ==
  /\ at = "buffered"
  /\ active' = IF visited \in writeEnded \/ state[visited] # "open" THEN active \ {visited}
               ELSE active
  /\ at' = "harvest"
  /\ UNCHANGED <<peerVars, taken, handleVars, buffer, task, queue, objects, loopVars, got,
                 history>>

LoadBuffer ==
  /\ at = "buffered"
  /\ active' = IF buffer[visited] = <<>> /\ (visited \in writeEnded \/ state[visited] # "open")
               THEN active \ {visited} ELSE active
  /\ at' = "harvest"
  /\ UNCHANGED <<peerVars, taken, handleVars, buffer, task, queue, objects, loopVars, got,
                 history>>

Harvested ==
  /\ at = "harvest" /\ todo = {}
  /\ at' = "emit"
  /\ UNCHANGED <<peerVars, taken, handleVars, buffer, task, active, queue, objects, loopVars, got,
                 history>>

\* One queued event: its handlers run, unless the socket was destroyed.
Emit ==
  /\ at = "emit" /\ queue # <<>> /\ processed < PumpLimit
  /\ LET e == Head(queue) IN
       IF e.socket \in objects
       THEN /\ got' = [got EXCEPT ![e.socket] = @ \o e.chunks]
            /\ processed' = processed + 1
            /\ at' = "js" /\ back' = "emit"
       ELSE UNCHANGED <<got, processed, at, back>>
  /\ queue' = Tail(queue)
  /\ UNCHANGED <<peerVars, taken, handleVars, buffer, task, active, objects, todo, visited, resumes,
                 history>>

\* The loop ends, or runs timers, ticks and immediates and pumps again.
Check ==
  /\ at = "emit" /\ (queue = <<>> \/ processed = PumpLimit)
  /\ IF active = {} /\ queue = <<>> THEN at' = "returned" /\ UNCHANGED back
     ELSE at' = "js" /\ back' = "harvest"
  /\ UNCHANGED <<peerVars, taken, handleVars, buffer, task, active, queue, objects, todo,
                 visited, processed, resumes, got, history>>

-----------------------------------------------------------------------------
(* Reader tasks *)

\* while reading.load()
TaskLooks(s, n) ==
  /\ task[s][n].at = "check"
  /\ GoesTo(s, n, IF s \in reading THEN "read" ELSE "off")
  /\ UNCHANGED <<peerVars, taken, handleVars, buffer, active, queue, objects, at, loopVars, got,
                 history>>

\* try_read: bytes, nothing yet, or the end of the stream or an error.
TaskReads(s, n) ==
  /\ task[s][n].at = "read"
  /\ IF state[s] = "gone" \/ peer[s] = "reset" THEN GoesTo(s, n, "end") /\ UNCHANGED taken
     ELSE IF taken[s] = sent[s]
     THEN GoesTo(s, n, IF peer[s] = "ended" THEN "end" ELSE "check") /\ UNCHANGED taken
     ELSE \E last \in (taken[s] + 1)..sent[s] :
            /\ taken' = [taken EXCEPT ![s] = last]
            /\ task' = [task EXCEPT ![s][n] =
                          [at |-> "append",
                           scratch |-> [i \in 1..(last - taken[s]) |-> taken[s] + i]]]
  /\ UNCHANGED <<peerVars, handleVars, buffer, active, queue, objects, at, loopVars, got,
                 history>>

TaskAppends(s, n) ==
  /\ task[s][n].at = "append"
  /\ buffer' = [buffer EXCEPT ![s] = @ \o task[s][n].scratch]
  /\ GoesTo(s, n, "check")
  /\ UNCHANGED <<peerVars, taken, handleVars, active, queue, objects, at, loopVars, got, history>>

\* Mutant of TaskEnds: the task breaks out of its loop and leaves the flag set.
TaskEndsSilently(s, n) ==
  /\ task[s][n].at = "end"
  /\ GoesTo(s, n, "off")
  /\ UNCHANGED <<peerVars, taken, handleVars, buffer, active, queue, objects, at, loopVars, got,
                 history>>

TaskEnds(s, n) ==
  /\ task[s][n].at = "end"
  /\ reading' = reading \ {s}
  /\ GoesTo(s, n, "off")
  /\ UNCHANGED <<peerVars, taken, state, paused, writeEnded, buffer, active, queue, objects, at,
                 loopVars, got, history>>

-----------------------------------------------------------------------------
(* The peer of a connected socket *)

Total == MapThenSumSet(LAMBDA s : sent[s], Socket)

PeerSends(s) ==
  /\ state[s] = "open" /\ peer[s] = "open" /\ Total < MaxChunks
  /\ sent' = [sent EXCEPT ![s] = @ + 1]
  /\ UNCHANGED <<peer, taken, handleVars, buffer, task, active, queue, objects, at, loopVars, got,
                 history>>

PeerEnds(s) ==
  /\ state[s] = "open" /\ peer[s] = "open"
  /\ peer' = [peer EXCEPT ![s] = "ended"]
  /\ UNCHANGED <<sent, taken, handleVars, buffer, task, active, queue, objects, at, loopVars, got,
                 history>>

\* A reset: what was not read yet is lost with the connection.
PeerResets(s) ==
  /\ state[s] = "open" /\ peer[s] = "open"
  /\ peer' = [peer EXCEPT ![s] = "reset"]
  /\ sent' = [sent EXCEPT ![s] = taken[s]]
  /\ UNCHANGED <<taken, handleVars, buffer, task, active, queue, objects, at, loopVars, got,
                 history>>

-----------------------------------------------------------------------------

User ==
  \E s \in Socket :
    \/ Connect(s) \/ ConnectFails(s) \/ Pause(s) \/ Resume(s)
    \/ EndWrite(s) \/ Read(s) \/ Destroy(s)

\* What the JavaScript thread does by itself, JavaScript returning included
Loop ==
  \/ Return \/ (\E s \in Socket : Harvest(s)) \/ LoadReading \/ LoadBuffer \/ Harvested
  \/ Emit \/ Check

Task(s, n) == TaskLooks(s, n) \/ TaskReads(s, n) \/ TaskAppends(s, n) \/ TaskEnds(s, n)

Next ==
  \/ User \/ Loop
  \/ \E s \in Socket : \/ PeerSends(s) \/ PeerEnds(s) \/ PeerResets(s)
                       \/ \E n \in Reader : Task(s, n)

Spec == Init /\ [][Next]_vars

\* Threads and tasks are scheduled, and handlers return.
FairSpec == Spec /\ WF_vars(Loop) /\ \A s \in Socket, n \in Reader : WF_vars(Task(s, n))
-----------------------------------------------------------------------------
(* Properties *)

Events == [socket : Socket, chunks : Seq(Nat)]

Tasks == [at : {"off", "check", "read", "append", "end"}, scratch : Seq(Nat)]

\* The types.
TypeOK ==
  /\ sent \in [Socket -> Nat] /\ peer \in [Socket -> {"open", "ended", "reset"}]
  /\ taken \in [Socket -> Nat] /\ state \in [Socket -> {"none", "open", "failed", "gone"}]
  /\ {reading, paused, writeEnded, active, objects, todo} \subseteq SUBSET Socket
  /\ {doubled, dropped, overtaken} \subseteq SUBSET Socket
  /\ buffer \in [Socket -> Seq(Nat)] /\ got \in [Socket -> Seq(Nat)]
  /\ task \in [Socket -> [Reader -> Tasks]]
  /\ queue \in Seq(Events)
  /\ at \in {"js", "harvest", "reading", "buffered", "emit", "returned"}
  /\ back \in {"harvest", "emit"}
  /\ visited \in Socket /\ processed \in Nat /\ resumes \in Nat

\* 'connect' comes first and the bytes follow in the order the peer sent them,
\* through a task's scratch, the buffer and the channel, however tasks, pumps,
\* pause() and resume() interleave; unless resume() started a second reader,
\* read() jumped the queue or the channel was full.
InOrder ==
  \A s \in Socket \ (doubled \cup dropped \cup overtaken) :
    got[s] = [n \in 1..Len(got[s]) |-> n - 1]

\* The loop ends only when every byte of every socket that was not destroyed
\* has been delivered: the last bytes a reader appends before it sees the end
\* of the stream are not missed by the test that releases the socket.
NothingLost ==
  at = "returned" =>
    \A s \in Socket \ (doubled \cup dropped) : state[s] = "open" => ToSet(got[s]) = 0..sent[s]

\* "Open client sockets keep CLI `amber run` keep-alive until `destroy()`,
\* write-ended + read-finished": a socket whose two sides have ended does not
\* keep the loop alive for ever, if it is not left paused.
Released ==
  \A s \in Socket : s \in writeEnded /\ peer[s] # "open" ~> s \notin active \/ s \in paused
=============================================================================
