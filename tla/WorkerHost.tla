----------------------------- MODULE WorkerHost -----------------------------
(***************************************************************************)
(* Worker threads (src/src/web_api/worker_host.rs): the process-wide HOST  *)
(* table, the channel to each worker and the one channel all workers share *)
(* back to their parents, the worker threads, the Worker objects of each   *)
(* runtime, terminate() with its preemption, and the part of the event     *)
(* loop (src/src/runtime_minimal.rs) that pumps the messages and decides   *)
(* whether workers keep it running.                                        *)
(*                                                                         *)
(* A runtime is one thread with one isolate. User code is whatever calls a *)
(* runtime's JavaScript or a worker's script makes, in any order.          *)
(***************************************************************************)
EXTENDS Naturals, Sequences, SequencesExt, FiniteSets

CONSTANTS
  Runtime,    \* the threads that run an event loop
  MaxWorker,  \* bound on the workers started
  MaxPosts,   \* bound on the messages to each worker
  MaxSends,   \* bound on the messages of each worker
  MaxTurns,   \* bound on the turns a loop makes for work other than workers
  Tries,      \* how often terminate() looks for the isolate handle: 20
  Faults      \* what may fail: "thread", "setup"

ASSUME WorkerAssumption ==
  /\ Runtime # {}
  /\ MaxWorker \in Nat /\ MaxPosts \in Nat /\ MaxSends \in Nat /\ MaxTurns \in Nat
  /\ Tries \in Nat \ {0} /\ Faults \subseteq {"thread", "setup"}

Worker == 1..MaxWorker

VARIABLES
  nextWorker,  \* NEXT_WORKER_ID
  owner,       \* the runtime that constructed each worker
  known,       \* the keys of HOST.workers
  refed,       \* the workers with is_refed
  terminated,  \* the workers with is_terminated
  inbox,       \* what waits in the channel of each worker
  parentRx,    \* what waits in the channel to the parents
  pending,     \* HOST.pending_messages
  slot,        \* the workers whose isolate handle can be taken
  phase,       \* where each worker thread is
  code,        \* the exit code a closing worker will report
  listening,   \* the workers with a 'message' listener
  timers,      \* the workers with a pending timer
  abort,       \* the workers whose isolate was told to stop executing
  posts,       \* messages posted to each worker so far
  sends,       \* messages each worker has sent so far
  at,          \* who runs on each runtime's thread: user code, a call, or the loop
  stage,       \* the place of execute_code where the loop goes on
  callee,      \* the worker a spawn or terminate call is about
  tries,       \* the attempts a terminate call has left
  batch,       \* the messages a pump has yet to dispatch
  objects,     \* __amber_workers of each runtime
  dead,        \* the Worker objects with _isTerminated
  turns,       \* turns made for other work
  got,         \* history: the events each Worker object has emitted
  late         \* history: the workers made or ref'd after their loop was left

hostVars == <<known, refed, terminated, pending>>
threadVars == <<phase, code, listening, timers, sends>>
objectVars == <<objects, dead, got>>
loopVars == <<at, stage, batch, turns>>
callVars == <<callee, tries>>
vars == <<nextWorker, owner, inbox, parentRx, slot, abort, posts,
          late, hostVars, threadVars, objectVars, loopVars, callVars>>

Event(w, kind, n) == [worker |-> w, kind |-> kind, n |-> n]

Post == "post"
Terminate == "terminate"

Init ==
  /\ nextWorker = 1
  /\ owner = [w \in Worker |-> CHOOSE r \in Runtime : TRUE]
  /\ known = {} /\ refed = {} /\ terminated = {}
  /\ inbox = [w \in Worker |-> <<>>]
  /\ parentRx = <<>> /\ pending = <<>>
  /\ slot = {} /\ abort = {}
  /\ phase = [w \in Worker |-> "none"]
  /\ code = [w \in Worker |-> 0]
  /\ listening = {} /\ timers = {}
  /\ posts = [w \in Worker |-> 0] /\ sends = [w \in Worker |-> 0]
  /\ at = [r \in Runtime |-> "js"] /\ stage = [r \in Runtime |-> "pump1"]
  /\ callee = [r \in Runtime |-> 0] /\ tries = [r \in Runtime |-> 0]
  /\ batch = [r \in Runtime |-> <<>>]
  /\ objects = [r \in Runtime |-> {}]
  /\ dead = {}
  /\ turns = [r \in Runtime |-> 0]
  /\ got = [w \in Worker |-> <<>>]
  /\ late = {}

\* Mutant of Active: is_terminated is not looked at.
ActiveForEver == known \cap refed

\* has_active_workers
Active == (known \cap refed) \ terminated

\* The thread of the worker has finished and its receiver is gone.
Gone(w) == phase[w] \in {"ended", "failed"}

Goes(r, place) == at' = [at EXCEPT ![r] = place]

\* The loop of runtime r goes on at next, with user code in between if any runs.
Leads(r, runs, next) == Goes(r, runs) /\ stage' = [stage EXCEPT ![r] = next]

\* A worker of runtime r that begins to hold the loop, after the loop was left or before.
Holding(r, w) == late' = IF stage[r] = "returned" THEN late \cup {w} ELSE late

-----------------------------------------------------------------------------
(* Calls of a runtime's JavaScript *)

\* new Worker: the thread is started, or cannot be and the constructor throws.
Spawn(r) ==
  /\ at[r] = "js" /\ nextWorker <= MaxWorker
  /\ nextWorker' = nextWorker + 1
  /\ owner' = [owner EXCEPT ![nextWorker] = r]
  /\ \/ /\ phase' = [phase EXCEPT ![nextWorker] = "starting"]
        /\ callee' = [callee EXCEPT ![r] = nextWorker]
        /\ Goes(r, "spawn")
     \/ "thread" \in Faults /\ UNCHANGED <<phase, callee, at>>
  /\ UNCHANGED <<inbox, parentRx, slot, abort, posts, late, hostVars, code, listening,
                 timers, sends, objectVars, stage, batch, turns, tries>>

\* The thread is already running when its handle enters the table.
Insert(r) ==
  LET w == callee[r]
  IN /\ at[r] = "spawn"
     /\ known' = known \cup {w}
     /\ refed' = refed \cup {w}
     /\ objects' = [objects EXCEPT ![r] = @ \cup {w}]
     /\ Holding(r, w)
     /\ Goes(r, "js")
     /\ UNCHANGED <<nextWorker, owner, terminated, pending, inbox, parentRx, slot, abort,
                    posts, threadVars, dead, got, stage, batch, turns, callVars>>

\* A reference to a Worker object that user code can hold
Holds(r, w) == at[r] = "js" /\ w \in known /\ owner[w] = r

\* postMessage: it throws on a dead object, on a worker marked terminated and
\* when the worker's receiver is gone.
PostMessage(r, w) ==
  /\ Holds(r, w) /\ posts[w] < MaxPosts
  /\ w \notin dead /\ w \notin terminated /\ ~Gone(w)
  /\ inbox' = [inbox EXCEPT ![w] = Append(@, Post)]
  /\ posts' = [posts EXCEPT ![w] = @ + 1]
  /\ UNCHANGED <<nextWorker, owner, late, parentRx, slot, abort, hostVars, threadVars,
                 objectVars, loopVars, callVars>>

\* terminate: the object is dead, the table says so, and Terminate is queued.
StartTerminate(r, w) ==
  /\ Holds(r, w) /\ w \notin dead
  /\ dead' = dead \cup {w}
  /\ refed' = refed \ {w}
  /\ terminated' = terminated \cup {w}
  /\ inbox' = IF Gone(w) THEN inbox ELSE [inbox EXCEPT ![w] = Append(@, Terminate)]
  /\ callee' = [callee EXCEPT ![r] = w]
  /\ tries' = [tries EXCEPT ![r] = Tries]
  /\ Goes(r, "terminate")
  /\ UNCHANGED <<nextWorker, owner, late, known, pending, parentRx, slot, abort, posts,
                 threadVars, objects, got, stage, batch, turns>>

\* One attempt to stop what the isolate is executing: without a handle the call
\* sleeps 10 ms and tries again, unless the thread has finished.
Preempt(r) ==
  LET w == callee[r]
  IN /\ at[r] = "terminate"
     /\ IF w \in slot
        THEN slot' = slot \ {w} /\ abort' = abort \cup {w}
        ELSE UNCHANGED <<slot, abort>>
     /\ tries' = [tries EXCEPT ![r] = @ - 1]
     /\ Goes(r, IF w \in slot \/ Gone(w) \/ tries[r] = 1 THEN "join" ELSE "terminate")
     /\ UNCHANGED <<nextWorker, owner, late, inbox, parentRx, posts, hostVars, threadVars,
                    objectVars, stage, batch, turns, callee>>

\* Mutant of Join: the object stays in __amber_workers.
JoinKeepsObject(r) ==
  LET w == callee[r]
  IN /\ at[r] = "join"
     /\ got' = [got EXCEPT ![w] = Append(@, Event(w, "exit", 0))]
     /\ Goes(r, "js")
     /\ UNCHANGED <<nextWorker, owner, late, inbox, parentRx, slot, abort, posts, hostVars,
                    threadVars, objects, dead, stage, batch, turns, callVars>>

\* The thread has finished or 250 ms are over: the object is forgotten and
\* emits 'exit' 0.
Join(r) ==
  LET w == callee[r]
  IN /\ at[r] = "join"
     /\ objects' = [objects EXCEPT ![r] = @ \ {w}]
     /\ got' = [got EXCEPT ![w] = Append(@, Event(w, "exit", 0))]
     /\ Goes(r, "js")
     /\ UNCHANGED <<nextWorker, owner, late, inbox, parentRx, slot, abort, posts, hostVars,
                    threadVars, dead, stage, batch, turns, callVars>>

\* ref() and unref()
SetRef(r, w, value) ==
  /\ Holds(r, w) /\ (w \in refed) # value
  /\ IF value
     THEN refed' = refed \cup {w} /\ Holding(r, w)
     ELSE refed' = refed \ {w} /\ UNCHANGED late
  /\ UNCHANGED <<nextWorker, owner, known, terminated, pending, inbox, parentRx, slot, abort,
                 posts, threadVars, objectVars, loopVars, callVars>>

-----------------------------------------------------------------------------
(* The event loop of a runtime *)

\* User code returns to the loop: the script, a handler of the batch, a callback.
Return(r) ==
  /\ at[r] = "js"
  /\ Goes(r, IF batch[r] = <<>> THEN "loop" ELSE "dispatch")
  /\ UNCHANGED <<nextWorker, owner, late, inbox, parentRx, slot, abort, posts, hostVars,
                 threadVars, objectVars, stage, batch, turns, callVars>>

Exits(events) == {events[n].worker : n \in {m \in DOMAIN events : events[m].kind = "exit"}}

\* poll_messages: what an Exit of a known worker means for the table
Polled == terminated \cup (Exits(parentRx) \cap known)

\* What follows each pump: the first test at once, or with the callbacks of a
\* WebSocket before it; fired timers; ticks, microtasks and immediates. After the
\* loop it is whatever still runs there.
AfterPump == [pump1 |-> "test1", pump2 |-> "pump3", pump3 |-> "test2", returned |-> "returned"]

\* pump_parent_messages: takes the messages of all workers.
Take(r) ==
  /\ terminated' = Polled
  /\ batch' = [batch EXCEPT ![r] = pending \o parentRx]
  /\ pending' = <<>> /\ parentRx' = <<>>
  /\ Leads(r, IF pending \o parentRx = <<>> THEN "js" ELSE "dispatch", AfterPump[stage[r]])
  /\ UNCHANGED <<nextWorker, owner, late, known, refed, inbox, slot, abort, posts,
                 threadVars, objectVars, turns, callVars>>

\* The three pumps of an iteration. (The second is left out without messages and
\* active workers, when it would take nothing.)
Pump(r) == at[r] = "loop" /\ stage[r] \in {"pump1", "pump2", "pump3"} /\ Take(r)

\* After the loop: the final cleanup and the keep-alive loop of `amber run` run
\* user code and pump no messages; a script whose result is a promise waits up to
\* 5 s for it and pumps.
Settle(r) == at[r] = "loop" /\ stage[r] = "returned" /\ Take(r)

\* One message of the batch goes to the object of that id, if this runtime has
\* one: message and error are emitted, exit also ends the object.
Dispatch(r) ==
  LET e == Head(batch[r])
      rest == Tail(batch[r])
  IN /\ at[r] = "dispatch"
     /\ batch' = [batch EXCEPT ![r] = rest]
     /\ IF e.worker \in objects[r]
        THEN /\ got' = [got EXCEPT ![e.worker] = Append(@, e)]
             /\ IF e.kind = "exit"
                THEN /\ dead' = dead \cup {e.worker}
                     /\ objects' = [objects EXCEPT ![r] = @ \ {e.worker}]
                ELSE UNCHANGED <<dead, objects>>
             /\ Goes(r, "js")
        ELSE /\ Goes(r, IF rest = <<>> THEN "js" ELSE "dispatch")
             /\ UNCHANGED objectVars
     /\ UNCHANGED <<nextWorker, owner, late, inbox, parentRx, slot, abort, posts, hostVars,
                    threadVars, stage, turns, callVars>>

\* The tests before the wait and at the end of an iteration: without active
\* workers, of any runtime, and without other work the loop is left. Microtasks
\* of the handlers of the first pump have not run when the first test is made.
Check(r) ==
  /\ at[r] = "loop" /\ stage[r] \in {"test1", "test2"}
  /\ \/ Active = {} /\ Leads(r, "js", "returned") /\ UNCHANGED turns
     \/ /\ \/ Active # {} /\ UNCHANGED turns
           \/ turns[r] < MaxTurns /\ turns' = [turns EXCEPT ![r] = @ + 1]
        /\ IF stage[r] = "test1" THEN Leads(r, "loop", "wait") ELSE Leads(r, "js", "pump1")
  /\ UNCHANGED <<nextWorker, owner, late, inbox, parentRx, slot, abort, posts, hostVars,
                 threadVars, objectVars, batch, callVars>>

\* Mutant of Wait: a message that was polled ends the wait and is not pumped.
WaitSkipsPump(r) ==
  /\ at[r] = "loop" /\ stage[r] = "wait"
  /\ terminated' = Polled
  /\ pending' = pending \o parentRx
  /\ parentRx' = <<>>
  /\ pending' # <<>> \/ Active = {}
  /\ Leads(r, "js", "test2")
  /\ UNCHANGED <<nextWorker, owner, late, known, refed, inbox, slot, abort, posts,
                 threadVars, objectVars, batch, turns, callVars>>

\* The wait loop: has_parent_messages polls without taking, and the loop waits
\* while there is nothing and a worker is active. (A wait without news changes
\* nothing.) Other work ends the wait too, and MAX_WAIT_ITERATIONS do.
Wait(r) ==
  /\ at[r] = "loop" /\ stage[r] = "wait"
  /\ terminated' = Polled
  /\ pending' = pending \o parentRx
  /\ parentRx' = <<>>
  /\ \/ (pending' # <<>> \/ Active = {}) /\ UNCHANGED turns
     \/ turns[r] < MaxTurns /\ turns' = [turns EXCEPT ![r] = @ + 1]
  /\ Leads(r, "js", "pump2")
  /\ UNCHANGED <<nextWorker, owner, late, known, refed, inbox, slot, abort, posts,
                 threadVars, objectVars, batch, callVars>>

-----------------------------------------------------------------------------
(* The thread of a worker: run_worker_thread *)

Moves(w, place) == phase' = [phase EXCEPT ![w] = place]

SendParent(e) == parentRx' = Append(parentRx, e)

\* The isolate exists and its handle can be taken.
Register(w) ==
  /\ phase[w] = "starting"
  /\ slot' = slot \cup {w}
  /\ Moves(w, "setup")
  /\ UNCHANGED <<nextWorker, owner, late, inbox, parentRx, abort, posts, hostVars, code, listening,
                 timers, sends, objectVars, loopVars, callVars>>

\* V8, the fetch API or the cache API cannot be set up: the thread ends with an
\* error nobody is told of.
SetupFails(w) ==
  /\ "setup" \in Faults
  /\ phase[w] \in {"starting", "setup"}
  /\ inbox' = [inbox EXCEPT ![w] = <<>>]
  /\ Moves(w, "failed")
  /\ UNCHANGED <<nextWorker, owner, late, parentRx, slot, abort, posts, hostVars, code,
                 listening, timers, sends, objectVars, loopVars, callVars>>

\* The bootstrap script absorbs a request to stop that came early; its result
\* is ignored.
Bootstrap(w) ==
  /\ phase[w] = "setup"
  /\ abort' = abort \ {w}
  /\ Moves(w, "script")
  /\ UNCHANGED <<nextWorker, owner, late, inbox, parentRx, slot, posts, hostVars, code, listening,
                 timers, sends, objectVars, loopVars, callVars>>

\* parentPort.postMessage
SendMessage(w) ==
  /\ phase[w] \in {"script", "handler"} /\ sends[w] < MaxSends
  /\ sends' = [sends EXCEPT ![w] = @ + 1]
  /\ SendParent(Event(w, "message", sends[w] + 1))
  /\ UNCHANGED <<nextWorker, owner, late, inbox, slot, abort, posts, hostVars, phase, code,
                 listening, timers, objectVars, loopVars, callVars>>

\* Listeners and timers are what the code that has just run left behind.
Leaves(w) ==
  /\ listening' \in {listening \ {w}, listening \cup {w}}
  /\ timers' \in {timers \ {w}, timers \cup {w}}

ScriptEnds(w) ==
  /\ phase[w] = "script"
  /\ Leaves(w)
  /\ Moves(w, "loop")
  /\ UNCHANGED <<nextWorker, owner, late, inbox, parentRx, slot, abort, posts, hostVars, code,
                 sends, objectVars, loopVars, callVars>>

\* The script does not compile, throws, or was told to stop.
ScriptFails(w) ==
  /\ phase[w] = "script"
  /\ SendParent(Event(w, "error", 0))
  /\ code' = [code EXCEPT ![w] = 1]
  /\ abort' = abort \ {w}
  /\ Moves(w, "closing")
  /\ UNCHANGED <<nextWorker, owner, late, inbox, slot, posts, hostVars, listening, timers, sends,
                 objectVars, loopVars, callVars>>

\* The top of the worker's loop. Asking for the next timer runs JavaScript: a
\* request to stop makes the answer "none".
LoopTop(w) ==
  /\ phase[w] = "loop"
  /\ abort' = abort \ {w}
  /\ Moves(w, IF w \in timers \ abort THEN "timed"
              ELSE IF w \in listening THEN "recv" ELSE "closing")
  /\ UNCHANGED <<nextWorker, owner, late, inbox, parentRx, slot, posts, hostVars, code, listening,
                 timers, sends, objectVars, loopVars, callVars>>

\* recv and recv_timeout take the oldest message.
Receive(w) ==
  /\ phase[w] \in {"recv", "timed"} /\ inbox[w] # <<>>
  /\ inbox' = [inbox EXCEPT ![w] = Tail(@)]
  /\ Moves(w, IF Head(inbox[w]) = Post THEN "handler" ELSE "closing")
  /\ UNCHANGED <<nextWorker, owner, late, parentRx, slot, abort, posts, hostVars, code, listening,
                 timers, sends, objectVars, loopVars, callVars>>

\* The time of the next timer has come: the due timers run.
TimerDue(w) ==
  /\ phase[w] = "timed" /\ inbox[w] = <<>>
  /\ timers' = timers \ {w}
  /\ Moves(w, "handler")
  /\ UNCHANGED <<nextWorker, owner, late, inbox, parentRx, slot, abort, posts, hostVars, code,
                 listening, sends, objectVars, loopVars, callVars>>

\* The handler and the timers that became due return, throw or are stopped.
HandlerEnds(w) ==
  /\ phase[w] = "handler"
  /\ abort' = abort \ {w}
  /\ Leaves(w)
  /\ Moves(w, "loop")
  /\ UNCHANGED <<nextWorker, owner, late, inbox, parentRx, slot, posts, hostVars, code,
                 sends, objectVars, loopVars, callVars>>

SendExit(w) ==
  /\ phase[w] = "closing"
  /\ SendParent(Event(w, "exit", code[w]))
  /\ Moves(w, "exiting")
  /\ UNCHANGED <<nextWorker, owner, late, inbox, slot, abort, posts, hostVars, code, listening,
                 timers, sends, objectVars, loopVars, callVars>>

\* The thread returns and drops its receiver.
End(w) ==
  /\ phase[w] = "exiting"
  /\ inbox' = [inbox EXCEPT ![w] = <<>>]
  /\ Moves(w, "ended")
  /\ UNCHANGED <<nextWorker, owner, late, parentRx, slot, abort, posts, hostVars, code, listening,
                 timers, sends, objectVars, loopVars, callVars>>

-----------------------------------------------------------------------------

\* What user code decides to do
User(r) ==
  \/ Spawn(r)
  \/ \E w \in Worker :
       PostMessage(r, w) \/ StartTerminate(r, w) \/ \E value \in BOOLEAN : SetRef(r, w, value)

\* What the thread of a runtime does by itself, its user code returning included
Loop(r) ==
  \/ Insert(r) \/ Preempt(r) \/ Join(r) \/ Return(r)
  \/ Pump(r) \/ Dispatch(r) \/ Check(r) \/ Wait(r)

\* What the thread of a worker does by itself
Thread(w) ==
  \/ Register(w) \/ Bootstrap(w) \/ LoopTop(w) \/ Receive(w) \/ TimerDue(w)
  \/ SendExit(w) \/ End(w)

\* A worker's JavaScript returns.
CodeReturns(w) == ScriptEnds(w) \/ HandlerEnds(w)

Next ==
  \/ \E r \in Runtime : User(r) \/ Loop(r) \/ Settle(r)
  \/ \E w \in Worker :
       Thread(w) \/ CodeReturns(w) \/ ScriptFails(w) \/ SetupFails(w) \/ SendMessage(w)

Spec == Init /\ [][Next]_vars

\* Threads are scheduled, and the parent's code returns. Nothing is assumed of
\* what a worker executes.
FairSpec ==
  Spec /\ (\A r \in Runtime : WF_vars(Loop(r))) /\ (\A w \in Worker : WF_vars(Thread(w)))
-----------------------------------------------------------------------------
(* Properties *)

Places == {"js", "spawn", "terminate", "join", "dispatch", "loop"}
Stages == {"pump1", "test1", "wait", "pump2", "pump3", "test2", "returned"}
Phases == {"none", "starting", "setup", "script", "loop", "recv", "timed", "handler",
           "closing", "exiting", "ended", "failed"}
Events == {Event(w, "message", n) : w \in Worker, n \in 1..MaxSends}
          \cup {Event(w, "error", 0) : w \in Worker}
          \cup {Event(w, "exit", n) : w \in Worker, n \in 0..1}

\* Every variable keeps its type; an isolate handle is taken at most once.
TypeOK ==
  /\ nextWorker \in 1..(MaxWorker + 1) /\ owner \in [Worker -> Runtime]
  /\ known \subseteq 1..(nextWorker - 1) /\ refed \subseteq known
  /\ terminated \subseteq known
  /\ inbox \in [Worker -> Seq({Post, Terminate})]
  /\ parentRx \in Seq(Events) /\ pending \in Seq(Events)
  /\ slot \subseteq Worker /\ abort \subseteq Worker /\ slot \cap abort = {}
  /\ listening \subseteq Worker /\ timers \subseteq Worker
  /\ phase \in [Worker -> Phases] /\ code \in [Worker -> 0..1]
  /\ posts \in [Worker -> 0..MaxPosts] /\ sends \in [Worker -> 0..MaxSends]
  /\ at \in [Runtime -> Places] /\ stage \in [Runtime -> Stages]
  /\ callee \in [Runtime -> Worker \cup {0}]
  /\ tries \in [Runtime -> 0..Tries] /\ turns \in [Runtime -> 0..MaxTurns]
  /\ batch \in [Runtime -> Seq(Events)]
  /\ objects \in [Runtime -> SUBSET known]
  /\ dead \subseteq known /\ late \subseteq known
  /\ got \in [Worker -> Seq(Events)]

\* The Worker object has emitted 'exit'.
Ended(w) == \E n \in DOMAIN got[w] : got[w][n].kind = "exit"

\* "A ref'd worker keeps the main runtime alive": the loop is never left while a
\* worker of its own that holds it has not reported its exit, however the polls,
\* the pumps and the calls of handlers interleave with the worker's last sends.
\* Only a worker made or ref'd by the user code that runs after the last test (the
\* final cleanup, where microtasks of the first pump's handlers end up, and the
\* keep-alive loop) comes too late.
NoneLeftBehind ==
  \A w \in (known \cap refed) \ late : stage[owner[w]] = "returned" => Ended(w)

\* Messages in the order runtime r will dispatch them
Mail(r) == batch[r] \o pending \o parentRx

\* Those of worker w among them
Only(events, w) ==
  LET only[n \in 0..Len(events)] ==
        IF n = 0 THEN <<>>
        ELSE IF events[n].worker = w THEN Append(only[n - 1], events[n]) ELSE only[n - 1]
  IN only[Len(events)]

\* What is on its way to the object of a worker
InTransit(w) == IF Ended(w) THEN <<>> ELSE Only(Mail(owner[w]), w)

Transit == [w \in Worker |-> InTransit(w)]

Closed == {w \in Worker : phase[w] \in {"exiting", "ended"} \/ Ended(w)}

Stream == INSTANCE WorkerStream WITH queue <- Transit, closed <- Closed, stopped <- dead

\* "'message' receives each parentPort.postMessage from the worker": with
\* terminate() called at any moment, also from a handler in the middle of a
\* batch, the object emits the worker's events in order, each once, and 'exit'
\* once and last.
ImplementsStream == Stream!Spec

\* A worker that has ended stops keeping the event loop alive, unless it began to
\* hold it after the last test, when nobody polls its exit.
EndedReleases == \A w \in Worker : phase[w] = "ended" /\ w \notin late ~> w \notin Active
=============================================================================
