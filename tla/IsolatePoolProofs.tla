------------------------- MODULE IsolatePoolProofs -------------------------
(***************************************************************************)
(* No call of an isolate pool shares its worker with another and the       *)
(* counters are exact, for any number of clients, workers and calls.       *)
(***************************************************************************)
EXTENDS IsolatePool, FiniteSetTheorems, SequenceTheorems, TLAPS

\* Workers that exist: the stack and the calls know none that was not started,
\* so the next one to be started is nobody's.
OnlyStarted ==
  /\ \A n \in DOMAIN workers : workers[n] <= created
  /\ \A c \in Client : held[c] <= created

\* A call holds a worker from taking it to putting it back, and has a number as
\* long as it lasts.
HeldInCall ==
  \A c \in Client :
    /\ held[c] # 0 <=> pc[c] \in {"send", "wait", "recycle"}
    /\ pc[c] # "out" => call[c] \in Call

\* The inductive invariant of the pool.
PoolInv == OnlyStarted /\ HeldInCall /\ Exclusive

\* There is at least one worker at the start, and no more than the bound.
LEMMA InitialWorkers == Initial \in 1..MaxWorker
  BY PoolAssumption DEF Initial

\* Popping the last element of a sequence.
LEMMA PopLast ==
  ASSUME NEW S, NEW s \in Seq(S), s # <<>>
  PROVE  /\ s[Len(s)] \in S
         /\ Len(s) \in DOMAIN s
         /\ SubSeq(s, 1, Len(s) - 1) \in Seq(S)
         /\ Len(SubSeq(s, 1, Len(s) - 1)) = Len(s) - 1
         /\ DOMAIN SubSeq(s, 1, Len(s) - 1) = 1..(Len(s) - 1)
         /\ DOMAIN s = 1..Len(s)
         /\ \A n \in 1..(Len(s) - 1) : SubSeq(s, 1, Len(s) - 1)[n] = s[n]
<1>1. Len(s) \in Nat /\ Len(s) # 0 /\ DOMAIN s = 1..Len(s)
  OBVIOUS
<1>2. Len(SubSeq(s, 1, Len(s) - 1)) = Len(s) - 1
  BY <1>1, SubSeqProperties
<1> QED
  BY <1>1, <1>2

\* The end of a worker thread leaves types, clients and stack alone.
LEMMA EndsType ==
  ASSUME StateType, NEW w \in Worker, Ends(w)
  PROVE  StateType'
<1>1. reply' \in [Call -> {"none", "ok", "err", "closed"}]
  BY DEF Ends, Closed, StateType
<1>2. queue' \in [Worker -> Seq(Call)]
  BY DEF Ends, StateType
<1> QED
  BY <1>1, <1>2 DEF Ends, StateType, pool, metrics, clients

\* A worker thread's steps keep every variable's type.
LEMMA WorkerType ==
  ASSUME StateType, NEW w \in Worker, WorkerStep(w) \/ TaskStep(w)
  PROVE  StateType'
<1>1. CASE Start(w) \/ CheckShutdown(w) \/ ReceiveTimesOut(w)
  BY <1>1 DEF Start, CheckShutdown, ReceiveTimesOut, StateType, pool, metrics, clients
<1>2. CASE StopRequested(w) \/ Disconnected(w) \/ Panic(w) \/ StartFails(w)
  BY <1>2, EndsType DEF StopRequested, Disconnected, Panic, StartFails
<1>3. CASE ReceiveTask(w)
  <2>1. Head(queue[w]) \in Call /\ Tail(queue[w]) \in Seq(Call)
    BY <1>3 DEF ReceiveTask, StateType
  <2> QED
    BY <1>3, <2>1 DEF ReceiveTask, StateType, pool, metrics, clients
<1>4. CASE \E answer \in {"ok", "err"} : Finish(w, answer)
  <2> PICK answer \in {"ok", "err"} : Finish(w, answer)
    BY <1>4
  <2>1. reply' \in [Call -> {"none", "ok", "err", "closed"}]
    BY DEF Finish, StateType
  <2> QED
    BY <2>1 DEF Finish, StateType, pool, metrics, clients
<1> QED
  BY <1>1, <1>2, <1>3, <1>4 DEF WorkerStep, TaskStep

\* A client's steps keep every variable's type.
LEMMA ClientType ==
  ASSUME StateType, PoolInv, NEW c \in Client, Execute(c) \/ ClientStep(c)
  PROVE  StateType'
<1> USE PoolAssumption
<1>1. CASE Execute(c)
  BY <1>1 DEF Execute, Goto, StateType, Call, pool, threads
<1>2. CASE Take(c)
  <2>1. /\ workers[Len(workers)] \in Worker
        /\ SubSeq(workers, 1, Len(workers) - 1) \in Seq(Worker)
    BY <1>2, PopLast DEF Take, StateType
  <2> QED
    BY <1>2, <2>1 DEF Take, Goto, StateType, metrics, threads
<1>3. CASE Spawn(c)
  <2>1. created + 1 \in Worker /\ created + 1 \in 0..MaxWorker
    BY <1>3 DEF Spawn, StateType, Worker
  <2> QED
    BY <1>3, <2>1 DEF Spawn, Goto, StateType, pool
<1>4. CASE Send(c)
  <2>1. call[c] \in Call
    BY <1>4 DEF Send, PoolInv, HeldInCall
  <2>2. held[c] \in Worker
    BY <1>4 DEF Send, PoolInv, HeldInCall, StateType
  <2>3. Append(queue[held[c]], call[c]) \in Seq(Call)
    BY <2>1, <2>2, AppendProperties DEF StateType
  <2>4. queue' \in [Worker -> Seq(Call)]
    BY <1>4, <2>3 DEF Send, StateType
  <2> QED
    BY <1>4, <2>4 DEF Send, Goto, StateType, pool, metrics
<1>5. CASE SendFails(c) \/ Receive(c) \/ TimesOut(c)
  BY <1>5, ZenonT(60) DEF SendFails, Receive, TimesOut, Goto, StateType, pool, metrics, threads
<1>6. CASE Recycle(c)
  <2>1. held[c] \in Worker
    BY <1>6 DEF Recycle, PoolInv, HeldInCall, StateType
  <2>2. workers \in Seq(Worker)
    BY DEF StateType
  <2>3. Append(workers, held[c]) \in Seq(Worker)
    BY <2>1, <2>2
  <2>4. workers' \in {workers, Append(workers, held[c])}
    BY <1>6 DEF Recycle
  <2>5. workers' \in Seq(Worker)
    BY <2>2, <2>3, <2>4
  <2>6. shutdown' \in [Worker -> BOOLEAN]
    BY <1>6 DEF Recycle, StateType
  <2> QED
    BY <1>6, <2>5, <2>6 DEF Recycle, Goto, StateType, metrics
<1>7. CASE Leave(c)
  BY <1>7 DEF Leave, Goto, StateType, pool, threads
<1>8. CASE Return(c)
  <2>1. completed' \in Nat /\ failed' \in Nat
    BY <1>8 DEF Return, StateType
  <2> QED
    BY <1>8, <2>1 DEF Return, Goto, StateType, pool, threads
<1> QED
  BY <1>1, <1>2, <1>3, <1>4, <1>5, <1>6, <1>7, <1>8 DEF ClientStep

\* Destroying the pool keeps every variable's type.
LEMMA DestroyType ==
  ASSUME StateType, Destroy \/ Drain \/ DropPool
  PROVE  StateType'
<1>1. CASE Destroy
  BY <1>1 DEF Destroy, StateType, metrics, threads, clients
<1>2. CASE Drain
  <2>1. shutdown' \in [Worker -> BOOLEAN]
    BY <1>2 DEF Drain, StateType, InStack
  <2>2. workers' \in Seq(Worker)
    BY <1>2 DEF Drain
  <2> QED
    BY <1>2, <2>1, <2>2 DEF Drain, StateType, metrics, clients
<1>3. CASE DropPool
  <2>1. workers' \in Seq(Worker)
    BY <1>3 DEF DropPool
  <2> QED
    BY <1>3, <2>1 DEF DropPool, StateType, metrics, threads, clients
<1> QED
  BY <1>1, <1>2, <1>3 DEF Destroy

\* A worker thread's steps and the flag of destroy concern neither the stack nor
\* the clients.
LEMMA ThreadsApart ==
  ASSUME NEW w \in Worker, WorkerStep(w) \/ TaskStep(w)
  PROVE  UNCHANGED <<workers, metrics, clients>>
  BY DEF WorkerStep, TaskStep, Start, CheckShutdown, ReceiveTimesOut, StopRequested, Disconnected,
         Panic, StartFails, ReceiveTask, Finish, Ends, pool

\* A client's step keeps the invariant: the worker it takes leaves the stack, the
\* one it starts is new, and the one it puts back was its own.
LEMMA ClientKeepsPoolInv ==
  ASSUME StateType, PoolInv, NEW c \in Client, Execute(c) \/ ClientStep(c)
  PROVE  PoolInv'
<1> USE PoolAssumption
<1>0. DOMAIN workers = 1..Len(workers) /\ Len(workers) \in Nat
  BY DEF StateType
<1>1. CASE Execute(c)
  <2>1. UNCHANGED <<workers, created, held>>
    BY <1>1 DEF Execute, pool
  <2>2. HeldInCall'
    BY <1>1, <2>1 DEF Execute, Goto, StateType, PoolInv, HeldInCall, Call
  <2> QED
    BY <2>1, <2>2 DEF PoolInv, OnlyStarted, Exclusive, InStack
<1>2. CASE Take(c)
  <2> DEFINE w == workers[Len(workers)]
  <2>1. /\ w \in Worker /\ Len(workers) \in DOMAIN workers
        /\ DOMAIN workers' = 1..(Len(workers) - 1)
        /\ \A n \in DOMAIN workers' : workers'[n] = workers[n] /\ n \in DOMAIN workers
    BY <1>0, <1>2, PopLast DEF Take, StateType
  <2>2. held' = [held EXCEPT ![c] = w] /\ created' = created
    BY <1>2 DEF Take, metrics
  <2>3. OnlyStarted'
    BY <2>1, <2>2 DEF OnlyStarted, PoolInv, StateType
  <2>4. HeldInCall'
    BY <1>2, <2>1, <2>2 DEF Take, Goto, HeldInCall, PoolInv, StateType, Worker
  <2>5. \A d \in Client : held[d] # 0 => held[d] # w
    BY <2>1 DEF PoolInv, Exclusive, InStack
  <2>6. \A n \in DOMAIN workers' : workers'[n] # w
    BY <1>0, <2>1 DEF PoolInv, Exclusive
  <2>7. Exclusive'
    BY <2>1, <2>2, <2>5, <2>6 DEF Exclusive, InStack, PoolInv, StateType
  <2> QED
    BY <2>3, <2>4, <2>7 DEF PoolInv
<1>3. CASE Spawn(c)
  <2>1. /\ held' = [held EXCEPT ![c] = created + 1] /\ created' = created + 1
        /\ workers' = workers
    BY <1>3 DEF Spawn, pool
  <2>2. OnlyStarted'
    <3>1. \A n \in DOMAIN workers : workers[n] \in Int /\ workers[n] <= created
      BY <1>0 DEF OnlyStarted, PoolInv, StateType, Worker
    <3>2. \A d \in Client : held[d] \in Int /\ held[d] <= created
      BY DEF OnlyStarted, PoolInv, StateType, Worker
    <3>3. created \in Int /\ \A d \in Client : held'[d] \in {held[d], created + 1}
      BY <2>1 DEF StateType
    <3> QED
      BY <2>1, <3>1, <3>2, <3>3 DEF OnlyStarted
  <2>3. HeldInCall'
    BY <1>3, <2>1 DEF Spawn, Goto, HeldInCall, PoolInv, StateType
  <2>4. \A d \in Client : held[d] # created + 1
    BY DEF OnlyStarted, PoolInv, StateType, Worker
  <2>5. \A n \in DOMAIN workers : workers[n] # created + 1
    BY <1>0 DEF OnlyStarted, PoolInv, StateType, Worker
  <2>6. Exclusive'
    BY <2>1, <2>4, <2>5 DEF Exclusive, InStack, PoolInv, StateType
  <2> QED
    BY <2>2, <2>3, <2>6 DEF PoolInv
<1>4. CASE Send(c) \/ SendFails(c) \/ Receive(c) \/ TimesOut(c)
  <2>1. UNCHANGED <<workers, created, held>>
    BY <1>4 DEF Send, SendFails, Receive, TimesOut, pool, metrics
  <2>2. HeldInCall'
    BY <1>4, <2>1 DEF Send, SendFails, Receive, TimesOut, Goto, HeldInCall, PoolInv, StateType
  <2> QED
    BY <2>1, <2>2 DEF PoolInv, OnlyStarted, Exclusive, InStack
<1>5. CASE Recycle(c)
  <2>1. held[c] \in Worker /\ held[c] # 0 /\ held[c] <= created
    BY <1>5 DEF Recycle, PoolInv, HeldInCall, OnlyStarted, StateType
  <2>2. held' = [held EXCEPT ![c] = 0] /\ created' = created
    BY <1>5 DEF Recycle, metrics
  <2>3. HeldInCall'
    BY <1>5, <2>2 DEF Recycle, Goto, HeldInCall, PoolInv, StateType
  <2>4. \A d \in Client : held'[d] # 0 => d # c /\ held'[d] = held[d] /\ held[d] # held[c]
    BY <2>1, <2>2 DEF PoolInv, Exclusive, StateType
  <2>5. CASE workers' = workers
    BY <2>2, <2>3, <2>4, <2>5 DEF PoolInv, OnlyStarted, Exclusive, InStack, StateType
  <2>6. CASE workers' = Append(workers, held[c])
    <3>1. /\ DOMAIN workers' = 1..(Len(workers) + 1)
          /\ \A n \in 1..Len(workers) : workers'[n] = workers[n]
          /\ workers'[Len(workers) + 1] = held[c]
      BY <1>0, <2>1, <2>6, AppendProperties DEF StateType
    <3>2. \A n \in DOMAIN workers : workers[n] # held[c]
      BY <2>1 DEF PoolInv, Exclusive, InStack
    <3>3. \A n \in DOMAIN workers' :
            \/ n \in DOMAIN workers /\ workers'[n] = workers[n]
            \/ n = Len(workers) + 1 /\ workers'[n] = held[c]
      BY <1>0, <3>1
    <3>4. OnlyStarted'
      BY <2>1, <2>2, <3>3 DEF PoolInv, OnlyStarted, StateType
    <3>5. \A m, n \in DOMAIN workers' : workers'[m] = workers'[n] => m = n
      BY <3>2, <3>3 DEF PoolInv, Exclusive
    <3>6. \A d \in Client : held'[d] # 0 => ~InStack(held[d])'
      BY <2>4, <3>3 DEF PoolInv, Exclusive, InStack
    <3>7. \A d, e \in Client : held'[d] # 0 /\ held'[d] = held'[e] => d = e
      BY <2>4 DEF PoolInv, Exclusive
    <3> QED
      BY <2>3, <3>4, <3>5, <3>6, <3>7 DEF PoolInv, Exclusive
  <2> QED
    BY <1>5, <2>5, <2>6 DEF Recycle
<1>6. CASE Leave(c) \/ Return(c)
  <2>1. UNCHANGED <<workers, created, held>>
    BY <1>6 DEF Leave, Return, pool
  <2>2. HeldInCall'
    BY <1>6, <2>1, ZenonT(60) DEF Leave, Return, Goto, HeldInCall, PoolInv, StateType
  <2> QED
    BY <2>1, <2>2 DEF PoolInv, OnlyStarted, Exclusive, InStack
<1> QED
  BY <1>1, <1>2, <1>3, <1>4, <1>5, <1>6 DEF ClientStep

\* Every step keeps types and invariant.
LEMMA PoolStep == StateType /\ PoolInv /\ [Next]_vars => StateType' /\ PoolInv'
<1> SUFFICES ASSUME StateType, PoolInv, [Next]_vars
             PROVE  StateType' /\ PoolInv'
  OBVIOUS
<1>1. CASE UNCHANGED vars
  BY <1>1 DEF vars, pool, metrics, threads, clients, StateType, PoolInv, OnlyStarted, HeldInCall,
              Exclusive, InStack
<1>2. CASE Destroy \/ Drain \/ DropPool
  <2>1. UNCHANGED <<created, pc, held, call>> /\ workers' \in {workers, <<>>}
    BY <1>2 DEF Destroy, Drain, DropPool, metrics, clients
  <2>2. PoolInv'
    BY <2>1 DEF PoolInv, OnlyStarted, HeldInCall, Exclusive, InStack
  <2> QED
    BY <1>2, <2>2, DestroyType
<1>3. CASE \E c \in Client : Execute(c) \/ ClientStep(c)
  BY <1>3, ClientType, ClientKeepsPoolInv
<1>4. ASSUME NEW w \in Worker, WorkerStep(w) \/ TaskStep(w)
      PROVE  StateType' /\ PoolInv'
  <2>1. UNCHANGED <<workers, created, pc, held, call>>
    BY <1>4, ThreadsApart DEF metrics, clients
  <2> QED
    BY <1>4, <2>1, WorkerType DEF PoolInv, OnlyStarted, HeldInCall, Exclusive, InStack
<1> QED
  BY <1>1, <1>2, <1>3, <1>4 DEF Next

\* The state the pool starts in.
LEMMA PoolInit == Init => StateType /\ PoolInv
<1> SUFFICES ASSUME Init PROVE StateType /\ PoolInv
  OBVIOUS
<1> USE PoolAssumption, InitialWorkers
<1>1. workers \in Seq(Worker) /\ DOMAIN workers = 1..Initial /\ \A n \in 1..Initial : workers[n] = n
  BY DEF Init, Worker
<1>2. queue \in [Worker -> Seq(Call)]
  BY DEF Init
<1>3. created \in 0..MaxWorker /\ calls \in 0..MaxCalls
  BY DEF Init
<1>4. /\ thread \in [Worker -> {"none", "starting", "loop", "recv", "busy", "dead"}]
      /\ shutdown \in [Worker -> BOOLEAN] /\ task \in [Worker -> Call \cup {0}]
  BY DEF Init
<1>5. /\ reply \in [Call -> {"none", "ok", "err", "closed"}]
      /\ pc \in [Client -> {"out", "take", "send", "wait", "recycle", "leave", "count"}]
      /\ held \in [Client -> Worker \cup {0}] /\ call \in [Client -> Call \cup {0}]
      /\ result \in [Client -> {"none", "ok", "err"}]
  BY DEF Init
<1>6. active \in Int /\ completed \in Nat /\ failed \in Nat
  BY DEF Init
<1>7. destroyed \in BOOLEAN /\ drained \in BOOLEAN
  BY Zenon DEF Init
<1>8. StateType
  BY <1>1, <1>2, <1>3, <1>4, <1>5, <1>6, <1>7 DEF StateType
<1>9. PoolInv
  BY <1>1 DEF Init, PoolInv, OnlyStarted, HeldInCall, Exclusive, InStack
<1> QED
  BY <1>8, <1>9

\* Types and invariant hold in every reachable state.
LEMMA PoolInvariant == Spec => [](StateType /\ PoolInv)
  BY PoolInit, PoolStep, PTL DEF Spec

\* NativeIsolatePool::execute: two calls never share a worker, and a worker in
\* the stack is no call's, for any number of clients, workers and calls.
THEOREM CallsExclusive == Spec => []Exclusive
  BY PoolInvariant, PTL DEF PoolInv
-----------------------------------------------------------------------------
(* The stack *)

\* Only Recycle makes the stack grow, and only below max_isolates.
LEMMA StackStep == StateType /\ StackBounded /\ [Next]_vars => StackBounded'
<1> SUFFICES ASSUME StateType, StackBounded, [Next]_vars
             PROVE  StackBounded'
  OBVIOUS
<1> USE PoolAssumption, InitialWorkers
<1>0. workers \in Seq(Worker) /\ Len(workers) \in Nat
  BY DEF StateType
<1>1. CASE workers' = workers
  BY <1>1 DEF StackBounded
<1>2. CASE workers' = <<>>
  BY <1>2 DEF StackBounded
<1>3. ASSUME NEW c \in Client, Take(c)
      PROVE  StackBounded'
  <2>1. workers # <<>> /\ workers' = SubSeq(workers, 1, Len(workers) - 1)
    BY <1>3 DEF Take
  <2>2. Len(workers') = Len(workers) - 1
    BY <1>0, <2>1, PopLast
  <2> QED
    BY <1>0, <2>2 DEF StackBounded
<1>4. ASSUME NEW c \in Client, Recycle(c)
      PROVE  StackBounded' \/ workers' = workers
  <2>1. CASE Len(workers) < MaxIsolates
    <3>1. workers' = Append(workers, held[c])
      BY <1>4, <2>1 DEF Recycle
    <3>2. Len(workers') = Len(workers) + 1
      BY <1>0, <3>1
    <3> QED
      BY <1>0, <2>1, <3>2 DEF StackBounded
  <2>2. CASE ~(Len(workers) < MaxIsolates)
    BY <1>4, <2>2 DEF Recycle
  <2> QED
    BY <2>1, <2>2
<1>5. ASSUME NEW c \in Client, Execute(c) \/ ClientStep(c), ~Take(c), ~Recycle(c)
      PROVE  workers' = workers
  BY <1>5 DEF ClientStep, Execute, Spawn, Send, SendFails, Receive, TimesOut, Leave, Return, pool
<1>6. CASE Destroy \/ Drain \/ DropPool
  BY <1>1, <1>2, <1>6 DEF Destroy, Drain, DropPool
<1>7. CASE \E w \in Worker : WorkerStep(w) \/ TaskStep(w)
  BY <1>1, <1>7, ThreadsApart
<1>8. CASE UNCHANGED vars
  BY <1>1, <1>8 DEF vars, pool
<1> QED
  BY <1>1, <1>3, <1>4, <1>5, <1>6, <1>7, <1>8 DEF Next

\* The stack the pool starts with.
LEMMA StackInit == Init => StackBounded
<1> SUFFICES ASSUME Init PROVE StackBounded
  OBVIOUS
<1>1. Len(workers) = Initial
  BY InitialWorkers, PoolAssumption DEF Init
<1> QED
  BY <1>1, InitialWorkers DEF StackBounded

\* NativeIsolatePool::execute recycles at most max_isolates workers, whatever the
\* order in which calls that ran at the same time put theirs back.
THEOREM StackNeverOverflows == Spec => []StackBounded
  BY StackInit, StackStep, PoolInvariant, PTL DEF Spec

-----------------------------------------------------------------------------
(* The counters *)

\* The sets that the counters count are finite.
LEMMA FiniteCalls ==
  /\ IsFiniteSet(ActiveCalls) /\ IsFiniteSet(OpenCalls)
  /\ Cardinality(ActiveCalls) \in Nat /\ Cardinality(OpenCalls) \in Nat
<1>1. ActiveCalls \subseteq Client /\ OpenCalls \subseteq Client
  BY DEF ActiveCalls, OpenCalls
<1>2. IsFiniteSet(ActiveCalls) /\ IsFiniteSet(OpenCalls)
  BY <1>1, PoolAssumption, FS_Subset
<1> QED
  BY <1>2, FS_CardinalityType

\* A client's step moves its call and the counters together.
LEMMA ClientCounts ==
  ASSUME StateType, MetricsAgree, NEW c \in Client, Execute(c) \/ ClientStep(c)
  PROVE  MetricsAgree'
<1>0. completed \in Nat /\ failed \in Nat /\ calls \in Nat
  BY PoolAssumption DEF StateType
<1>1. CASE Execute(c)
  <2>1. /\ c \notin ActiveCalls /\ ActiveCalls' = ActiveCalls \cup {c}
        /\ c \notin OpenCalls /\ OpenCalls' = OpenCalls \cup {c}
    BY <1>1 DEF Execute, Goto, ActiveCalls, OpenCalls, StateType
  <2>2. /\ Cardinality(ActiveCalls') = Cardinality(ActiveCalls) + 1
        /\ Cardinality(OpenCalls') = Cardinality(OpenCalls) + 1
    BY <2>1, FiniteCalls, FS_AddElement
  <2>3. active' = active + 1 /\ calls' = calls + 1 /\ UNCHANGED <<completed, failed>>
    BY <1>1 DEF Execute
  <2> QED
    BY <1>0, <2>2, <2>3, FiniteCalls DEF MetricsAgree
<1>2. CASE Leave(c)
  <2>1. /\ c \in ActiveCalls /\ ActiveCalls' = ActiveCalls \ {c}
        /\ OpenCalls' = OpenCalls
    BY <1>2 DEF Leave, Goto, ActiveCalls, OpenCalls, StateType
  <2>2. Cardinality(ActiveCalls') = Cardinality(ActiveCalls) - 1
    BY <2>1, FiniteCalls, FS_RemoveElement
  <2>3. active' = active - 1 /\ UNCHANGED <<completed, failed, calls>>
    BY <1>2 DEF Leave
  <2> QED
    BY <1>0, <2>1, <2>2, <2>3, FiniteCalls DEF MetricsAgree
<1>3. CASE Return(c)
  <2>1. /\ ActiveCalls' = ActiveCalls
        /\ c \in OpenCalls /\ OpenCalls' = OpenCalls \ {c}
    BY <1>3 DEF Return, Goto, ActiveCalls, OpenCalls, StateType
  <2>2. Cardinality(OpenCalls') = Cardinality(OpenCalls) - 1
    BY <2>1, FiniteCalls, FS_RemoveElement
  <2>3. /\ UNCHANGED <<active, calls>>
        /\ \/ completed' = completed + 1 /\ failed' = failed
           \/ completed' = completed /\ failed' = failed + 1
    BY <1>3 DEF Return, clients
  <2> QED
    BY <1>0, <2>1, <2>2, <2>3, FiniteCalls DEF MetricsAgree
<1>4. CASE ClientStep(c) /\ ~Leave(c) /\ ~Return(c)
  <2>1. UNCHANGED <<active, completed, failed, calls>>
    BY <1>4 DEF ClientStep, Take, Spawn, Send, SendFails, Receive, TimesOut, Recycle, metrics
  <2>2. \E to \in {"send", "wait", "recycle", "leave"} :
          pc' = [pc EXCEPT ![c] = to] /\ pc[c] \in {"take", "send", "wait", "recycle"}
    BY <1>4 DEF ClientStep, Take, Spawn, Send, SendFails, Receive, TimesOut, Recycle, Goto
  <2>3. ActiveCalls' = ActiveCalls /\ OpenCalls' = OpenCalls
    BY <2>2 DEF ActiveCalls, OpenCalls, StateType
  <2> QED
    BY <2>1, <2>3 DEF MetricsAgree
<1> QED
  BY <1>1, <1>2, <1>3, <1>4

\* Every step keeps the counters exact.
LEMMA CountStep == StateType /\ MetricsAgree /\ [Next]_vars => MetricsAgree'
<1> SUFFICES ASSUME StateType, MetricsAgree, [Next]_vars
             PROVE  MetricsAgree'
  OBVIOUS
<1>1. CASE UNCHANGED <<metrics, clients>>
  BY <1>1 DEF metrics, clients, MetricsAgree, ActiveCalls, OpenCalls
<1>2. CASE Destroy \/ Drain \/ DropPool
  BY <1>1, <1>2 DEF Destroy, Drain, DropPool
<1>3. CASE \E c \in Client : Execute(c) \/ ClientStep(c)
  BY <1>3, ClientCounts
<1>4. CASE \E w \in Worker : WorkerStep(w) \/ TaskStep(w)
  BY <1>1, <1>4, ThreadsApart
<1>5. CASE UNCHANGED vars
  BY <1>1, <1>5 DEF vars
<1> QED
  BY <1>2, <1>3, <1>4, <1>5 DEF Next

\* No call, and every counter at zero.
LEMMA CountInit == Init => MetricsAgree
<1> SUFFICES ASSUME Init PROVE MetricsAgree
  OBVIOUS
<1>1. ActiveCalls = {} /\ OpenCalls = {}
  BY DEF Init, ActiveCalls, OpenCalls
<1> QED
  BY <1>1, FS_EmptySet DEF Init, MetricsAgree

\* stats() never counts a call twice or not at all: active_tasks, tasks_completed
\* and tasks_failed follow every call, timed out, failed or overtaken by destroy.
THEOREM CountersExact == Spec => []MetricsAgree
  BY CountInit, CountStep, PoolInvariant, PTL DEF Spec

\* Every variable keeps its type, and fetch_sub on active_tasks never wraps below
\* zero: it is the number of calls between their two updates.
THEOREM TypesKept == Spec => []TypeOK
<1>1. StateType /\ MetricsAgree => TypeOK
  BY FiniteCalls DEF MetricsAgree, TypeOK
<1> QED
  BY <1>1, PoolInvariant, CountersExact, PTL
=============================================================================
