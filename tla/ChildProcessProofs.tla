------------------------- MODULE ChildProcessProofs -------------------------
(***************************************************************************)
(* What the child process jobs keep to for any number of jobs, forks and   *)
(* messages: the counters are exact, and a runtime alone in its process    *)
(* leaves no job or child behind and reports an exit once, after           *)
(* everything the child sent. With two runtimes each drops what belongs to *)
(* the other, so those theorems have one runtime as their hypothesis.      *)
(***************************************************************************)
EXTENDS ChildProcess, FiniteSetTheorems, SequenceTheorems, TLAPS

-----------------------------------------------------------------------------
(* Types, one group of variables after the other *)

JobType ==
  /\ nextJob \in 1..(MaxJobs + 1) /\ inFlight = Cardinality(Working)
  /\ completed \in Seq(Dones)
  /\ thread \in [Job -> {"none", "work", "pushed", "done"}]
  /\ callbacks \in [Runtime -> SUBSET Job] /\ ran \subseteq Job
  /\ \A j \in Job : j >= nextJob => thread[j] = "none"

ForkType ==
  /\ nextFork \in 1..(MaxForks + 1) /\ alive = Cardinality(Living)
  /\ events \in Seq(Events) /\ connected \subseteq Fork /\ writers \subseteq Fork
  /\ owner \in [Fork -> Runtime]
  /\ waiter \in [Fork -> {"none", "accept", "wait", "pushed", "done", "unheard", "thrown"}]
  /\ \A f \in Fork : f >= nextFork => waiter[f] = "none"

ChannelType ==
  /\ reader \subseteq Fork /\ shut \subseteq Fork
  /\ toParent \in [Fork -> Seq(1..MaxFrames)] /\ toChild \in [Fork -> Seq(1..MaxSends)]

ChildType ==
  /\ child \in [Fork -> {"none", "starting", "js", "loop", "wait", "exited"}]
  /\ linked \subseteq Fork /\ heard \subseteq Fork /\ incoming \in [Fork -> Seq(1..MaxSends)]

\* A batch is worked off before anything else is looked at, and holds what the
\* pump that comes next after it has not taken yet.
LoopType ==
  /\ at \in [Runtime -> Places] /\ resume \in [Runtime -> Resumes]
  /\ batch \in [Runtime -> Seq(Dones) \cup Seq(Events)]
  /\ \A r \in Runtime :
       /\ batch[r] = <<>> => at[r] # "dispatch"
       /\ batch[r] # <<>> => /\ at[r] \in {"js", "fork", "try", "dispatch"}
                             /\ resume[r] \in {"forks", "tasks"}
       /\ resume[r] = "forks" => batch[r] \in Seq(Dones)
       /\ resume[r] # "forks" => batch[r] \in Seq(Events)

LeaveType == left \subseteq Runtime /\ lateJobs \subseteq Job /\ lateForks \subseteq Fork

HistoryType ==
  /\ sent \in [Fork -> [parent : 0..MaxSends, child : 0..MaxFrames, cuts : 0..MaxSends]]
  /\ got \in [Fork -> Seq(Events)]

Types == JobType /\ ForkType /\ ChannelType /\ ChildType /\ LoopType /\ HistoryType

\* Together they say more than TypeOK.
LEMMA TypesSuffice == Types /\ LeaveType => TypeOK
  BY DEF Types, LeaveType, JobType, ForkType, ChannelType, ChildType, LoopType, HistoryType, TypeOK

\* A group whose variables stay as they are keeps its types.
LEMMA TypesKept ==
  /\ JobType /\ UNCHANGED jobVars => JobType'
  /\ ForkType /\ UNCHANGED parentVars => ForkType'
  /\ ChannelType /\ UNCHANGED channelVars => ChannelType'
  /\ ChildType /\ UNCHANGED childVars => ChildType'
  /\ LoopType /\ UNCHANGED <<at, resume, batch>> => LoopType'
  /\ HistoryType /\ UNCHANGED <<sent, got>> => HistoryType'
<1>1. JobType /\ UNCHANGED jobVars => JobType'
  BY DEF JobType, jobVars, Working
<1>2. ForkType /\ UNCHANGED parentVars => ForkType'
  BY DEF ForkType, parentVars, Living
<1>3. ChannelType /\ UNCHANGED channelVars => ChannelType'
  BY DEF ChannelType, channelVars
<1>4. ChildType /\ UNCHANGED childVars => ChildType'
  BY DEF ChildType, childVars
<1>5. LoopType /\ UNCHANGED <<at, resume, batch>> => LoopType'
  BY DEF LoopType
<1>6. HistoryType /\ UNCHANGED <<sent, got>> => HistoryType'
  BY DEF HistoryType
<1> QED
  BY <1>1, <1>2, <1>3, <1>4, <1>5, <1>6

\* What events and results are made of.
LEMMA EventTypes ==
  /\ \A e \in Events : e.fork \in Fork /\ e.kind \in {"message", "disconnect", "exit"}
  /\ \A f \in Fork :
       /\ \A n \in 1..MaxFrames : Event(f, "message", n) \in Events
       /\ Event(f, "disconnect", 0) \in Events /\ Event(f, "exit", 0) \in Events
  /\ \A f, kind, n : /\ Event(f, kind, n).fork = f /\ Event(f, kind, n).kind = kind
                     /\ Event(f, kind, n).n = n
  /\ \A j \in Job : JobDone(j) \in Dones /\ JobDone(j).job = j
  /\ \A e \in Dones : e.job \in Job
<1>1. \A f, kind, n : /\ Event(f, kind, n).fork = f /\ Event(f, kind, n).kind = kind
                      /\ Event(f, kind, n).n = n
  BY DEF Event
<1>2. ASSUME NEW e \in Events PROVE e.fork \in Fork /\ e.kind \in {"message", "disconnect", "exit"}
  <2>1. \/ \E f \in Fork, n \in 1..MaxFrames : e = Event(f, "message", n)
        \/ \E f \in Fork, kind \in {"disconnect", "exit"} : e = Event(f, kind, 0)
    BY DEF Events
  <2> QED
    BY <1>1, <2>1
<1>3. ASSUME NEW f \in Fork
      PROVE  /\ \A n \in 1..MaxFrames : Event(f, "message", n) \in Events
             /\ Event(f, "disconnect", 0) \in Events /\ Event(f, "exit", 0) \in Events
  BY DEF Events
<1>4. /\ \A j \in Job : JobDone(j) \in Dones /\ JobDone(j).job = j
      /\ \A e \in Dones : e.job \in Job
  BY DEF Dones, JobDone
<1> QED
  BY <1>1, <1>2, <1>3, <1>4

\* The sets that the counters count are finite.
LEMMA CountersFinite == IsFiniteSet(Working) /\ IsFiniteSet(Living)
<1>1. IsFiniteSet(Job) /\ IsFiniteSet(Fork)
  BY FS_Interval, ChildAssumption DEF Job, Fork
<1> QED
  BY <1>1, FS_Subset DEF Working, Living

\* One more and one less to count.
LEMMA CountsOne ==
  ASSUME NEW S, IsFiniteSet(S), NEW x
  PROVE  /\ x \notin S => Cardinality(S \cup {x}) = Cardinality(S) + 1
         /\ x \in S => Cardinality(S \ {x}) = Cardinality(S) - 1
  BY FS_AddElement, FS_RemoveElement

\* The next number is one of the bounded ones.
LEMMA CountsUp == \A k \in Nat : \A n \in 0..k : n < k => n + 1 \in 0..k /\ n + 1 \in 1..k
  OBVIOUS

\* A sequence that grows or shrinks keeps its elements in S.
LEMMA GrowsShrinks ==
  ASSUME NEW S, NEW q \in Seq(S), NEW e \in S
  PROVE  Append(q, e) \in Seq(S) /\ (q # <<>> => Head(q) \in S /\ Tail(q) \in Seq(S))
  OBVIOUS

\* Only the place of a runtime changes.
LEMMA PlaceType ==
  ASSUME LoopType, NEW r \in Runtime, NEW p \in Places, Goes(r, p), UNCHANGED <<resume, batch>>,
         batch[r] = <<>> => p # "dispatch",
         batch[r] # <<>> => p \in {"js", "fork", "try", "dispatch"}
  PROVE  LoopType'
  BY DEF LoopType, Goes

\* The types hold at first.
LEMMA TypeInit == Init => Types
<1> SUFFICES ASSUME Init PROVE Types
  OBVIOUS
<1> USE DEF Init
<1>0. 1 \in 1..(MaxJobs + 1) /\ 1 \in 1..(MaxForks + 1)
      /\ 0 \in 0..MaxSends /\ 0 \in 0..MaxFrames
  BY ChildAssumption
<1>1. Working = {} /\ Living = {}
  BY DEF Working, Living
<1>2. JobType
  BY <1>0, <1>1, FS_EmptySet DEF JobType
<1>3. (CHOOSE r \in Runtime : TRUE) \in Runtime
  BY ChildAssumption
<1>4. ForkType
  BY <1>0, <1>1, <1>3, FS_EmptySet DEF ForkType
<1>5. ChannelType /\ ChildType
  BY DEF ChannelType, ChildType
<1>6. LoopType
  BY DEF LoopType, Places, Resumes
<1>7. HistoryType
  BY <1>0 DEF HistoryType
<1> QED
  BY <1>2, <1>4, <1>5, <1>6, <1>7 DEF Types

\* The types are kept by the threads of the jobs.
LEMMA TypeJobs ==
  ASSUME Types, (\E r \in Runtime : StartJob(r)) \/ (\E j \in Job : Host(j))
  PROVE  Types'
<1>0. /\ JobType /\ thread \in [Job -> {"none", "work", "pushed", "done"}] /\ nextJob \in Nat
      /\ completed \in Seq(Dones) /\ callbacks \in [Runtime -> SUBSET Job]
  BY ChildAssumption DEF Types, JobType
<1>1. UNCHANGED <<parentVars, channelVars, childVars, at, resume, batch, sent, got>>
  BY DEF StartJob, Host, PushJob, CountDown, loopVars
<1>2. ForkType' /\ ChannelType' /\ ChildType' /\ LoopType' /\ HistoryType'
  BY <1>1, TypesKept DEF Types
<1>3. ASSUME NEW r \in Runtime, StartJob(r) PROVE JobType'
  <2>1. nextJob \in Job /\ nextJob + 1 \in 1..(MaxJobs + 1)
    BY <1>0, <1>3, ChildAssumption DEF StartJob, Job, JobType
  <2>2. nextJob >= nextJob
    BY <1>0
  <2>3. thread[nextJob] = "none"
    BY <1>0, <2>1, <2>2 DEF JobType
  <2>4. Working' = Working \cup {nextJob} /\ nextJob \notin Working
    BY <1>0, <1>3, <2>1, <2>3 DEF Working, StartJob
  <2>5. inFlight' = Cardinality(Working')
    BY <1>3, <2>4, CountersFinite, CountsOne DEF StartJob, JobType, Types
  <2>6. \A j \in Job : j >= nextJob' => thread'[j] = "none"
    BY <1>0, <1>3, <2>1 DEF StartJob, JobType, Job
  <2> QED
    BY <1>0, <1>3, <2>1, <2>5, <2>6 DEF StartJob, JobType
<1>4. ASSUME NEW j \in Job, PushJob(j) PROVE JobType'
  <2>1. Working' = Working
    BY <1>0, <1>4 DEF Working, PushJob
  <2>2. Append(completed, JobDone(j)) \in Seq(Dones)
    BY <1>0, EventTypes
  <2> QED
    BY <1>0, <1>4, <2>1, <2>2 DEF PushJob, JobType
<1>5. ASSUME NEW j \in Job, CountDown(j) PROVE JobType'
  <2>1. Working' = Working \ {j} /\ j \in Working
    BY <1>0, <1>5 DEF Working, CountDown
  <2>2. inFlight' = Cardinality(Working')
    BY <1>5, <2>1, CountersFinite, CountsOne DEF CountDown, JobType, Types
  <2> QED
    BY <1>0, <1>5, <2>2 DEF CountDown, JobType
<1>6. JobType'
  BY <1>3, <1>4, <1>5 DEF Host
<1> QED
  BY <1>2, <1>6 DEF Types

\* The types are kept by fork() and what it waits for.
LEMMA TypeFork ==
  ASSUME Types, NEW r \in Runtime,
         \/ StartFork(r)
         \/ \E f \in Fork : \/ Accept(r, f) \/ NotYet(r, f) \/ Retry(r, f)
                            \/ AcceptExited(r, f) \/ Throws(r, f)
  PROVE  Types'
<1> USE DEF jobVars, channelVars, childVars, parentVars
<1>0. /\ JobType /\ ForkType /\ ChannelType /\ ChildType /\ LoopType /\ HistoryType
      /\ waiter \in [Fork -> {"none", "accept", "wait", "pushed", "done", "unheard", "thrown"}]
      /\ nextFork \in Nat /\ at \in [Runtime -> Places]
  BY ChildAssumption DEF Types, ForkType, LoopType
<1>1. UNCHANGED <<jobVars, sent, got, resume, batch>>
  BY DEF StartFork, Accept, NotYet, Retry, AcceptExited, Throws
<1>2. JobType' /\ HistoryType'
  BY <1>0, <1>1, TypesKept
<1>3. LoopType'
  <2>1. PICK p \in {"fork", "js", "try"} : Goes(r, p)
    BY DEF StartFork, Accept, NotYet, Retry, AcceptExited, Throws
  <2>2. p \in Places /\ p # "dispatch" /\ p \in {"js", "fork", "try", "dispatch"}
    BY <2>1 DEF Places
  <2> QED
    BY <1>0, <1>1, <2>1, <2>2, PlaceType
<1>4. CASE StartFork(r)
  <2>1. nextFork \in Fork /\ nextFork + 1 \in 1..(MaxForks + 1) /\ nextFork >= nextFork
    BY <1>0, <1>4, ChildAssumption DEF StartFork, Fork, ForkType
  <2>3. waiter[nextFork] = "none"
    BY <1>0, <2>1 DEF ForkType
  <2>4. Living' = Living \cup {nextFork} /\ nextFork \notin Living
    BY <1>0, <1>4, <2>1, <2>3 DEF Living, StartFork
  <2>5. alive' = Cardinality(Living')
    BY <1>0, <1>4, <2>4, CountersFinite, CountsOne DEF StartFork, ForkType
  <2>6. \A f \in Fork : f >= nextFork' => waiter'[f] = "none"
    BY <1>0, <1>4, <2>1 DEF StartFork, ForkType, Fork
  <2>7. ForkType'
    BY <1>0, <1>4, <2>1, <2>5, <2>6 DEF StartFork, ForkType
  <2>8. ChannelType' /\ ChildType'
    BY <1>0, <1>4, <2>1 DEF StartFork, ChannelType, ChildType
  <2> QED
    BY <1>2, <1>3, <2>7, <2>8 DEF Types
<1>5. ASSUME NEW f \in Fork, Accept(r, f) \/ NotYet(r, f) \/ Retry(r, f) PROVE Types'
  <2>1. Living' = Living
    BY <1>0, <1>5 DEF Living, Accept, NotYet, Retry
  <2>2. ForkType'
    BY <1>0, <1>5, <2>1 DEF ForkType, Accept, NotYet, Retry
  <2>3. ChannelType' /\ ChildType'
    BY <1>0, <1>5 DEF Accept, NotYet, Retry, ChannelType, ChildType
  <2> QED
    BY <1>2, <1>3, <2>2, <2>3 DEF Types
<1>6. ASSUME NEW f \in Fork, AcceptExited(r, f) \/ Throws(r, f) PROVE Types'
  <2>1. Living' = Living \ {f} /\ f \in Living
    BY <1>0, <1>6 DEF Living, AcceptExited, Throws
  <2>2. alive' = Cardinality(Living')
    BY <1>0, <1>6, <2>1, CountersFinite, CountsOne DEF AcceptExited, Throws, ForkType
  <2>3. events' \in Seq(Events)
    <3>1. events \in Seq(Events) /\ Event(f, "exit", 0) \in Events
      BY <1>0, EventTypes DEF ForkType
    <3>2. UNCHANGED events \/ events' = Append(events, Event(f, "exit", 0))
      BY <1>6 DEF AcceptExited, Throws, PushExit
    <3> QED
      BY <3>1, <3>2
  <2>4. /\ waiter' \in [Fork -> {"none", "accept", "wait", "pushed", "done", "unheard", "thrown"}]
        /\ \A g \in Fork : g >= nextFork => waiter'[g] = "none"
    BY <1>0, <1>6 DEF AcceptExited, Throws, ForkType
  <2>5. ForkType'
    BY <1>0, <1>6, <2>2, <2>3, <2>4 DEF ForkType, AcceptExited, Throws, PushExit
  <2>6. ChannelType' /\ ChildType'
    BY <1>0, <1>6 DEF AcceptExited, Throws, ChannelType, ChildType
  <2> QED
    BY <1>2, <1>3, <2>5, <2>6 DEF Types
<1> QED
  BY <1>4, <1>5, <1>6

\* The types are kept by the other calls on a fork object.
LEMMA TypeObject ==
  ASSUME Types, NEW r \in Runtime, NEW f \in Fork, Send(r, f) \/ Disconnect(r, f)
  PROVE  Types'
<1> USE DEF jobVars, channelVars, childVars, parentVars
<1>0. /\ JobType /\ ForkType /\ ChannelType /\ ChildType /\ LoopType /\ HistoryType
      /\ sent[f] \in [parent : 0..MaxSends, child : 0..MaxFrames, cuts : 0..MaxSends]
  BY DEF Types, HistoryType
<1>1. UNCHANGED <<jobVars, childVars, at, resume, batch, got>>
  BY DEF Send, Disconnect, loopVars
<1>2. JobType' /\ ChildType' /\ LoopType'
  BY <1>0, <1>1, TypesKept
<1>3. CASE Send(r, f)
  <2>1. sent[f].parent + 1 \in 0..MaxSends /\ sent[f].parent + 1 \in 1..MaxSends
    BY <1>0, <1>3, CountsUp, ChildAssumption DEF Send
  <2>2. toChild' \in [Fork -> Seq(1..MaxSends)]
    <3>1. toChild \in [Fork -> Seq(1..MaxSends)] /\ toChild[f] \in Seq(1..MaxSends)
      BY <1>0 DEF ChannelType
    <3>2. Append(toChild[f], sent[f].parent + 1) \in Seq(1..MaxSends)
      BY <2>1, <3>1, GrowsShrinks
    <3> QED
      BY <1>3, <3>1, <3>2 DEF Send
  <2>3. sent' \in [Fork -> [parent : 0..MaxSends, child : 0..MaxFrames, cuts : 0..MaxSends]]
    BY <1>0, <1>3, <2>1 DEF Send, HistoryType
  <2>4. ForkType'
    BY <1>0, <1>3, TypesKept DEF Send
  <2> QED
    BY <1>0, <1>2, <1>3, <2>2, <2>3, <2>4 DEF Send, Types, ChannelType, HistoryType
<1>4. CASE Disconnect(r, f)
  <2>1. sent[f].cuts + 1 \in 0..MaxSends
    BY <1>0, <1>4, CountsUp, ChildAssumption DEF Disconnect
  <2>2. sent' \in [Fork -> [parent : 0..MaxSends, child : 0..MaxFrames, cuts : 0..MaxSends]]
    BY <1>0, <1>4, <2>1 DEF Disconnect, HistoryType
  <2>3. events' \in Seq(Events)
    BY <1>0, <1>4, EventTypes DEF Disconnect, ForkType
  <2>4. ForkType'
    BY <1>0, <1>4, <2>3 DEF Disconnect, ForkType, Living
  <2>5. ChannelType'
    BY <1>0, <1>4 DEF Disconnect, ChannelType
  <2> QED
    BY <1>0, <1>1, <1>2, <2>2, <2>4, <2>5 DEF Types, HistoryType
<1> QED
  BY <1>3, <1>4

\* The types are kept by the reader and the waiter of a fork.
LEMMA TypeThreads ==
  ASSUME Types, NEW f \in Fork, Reader(f) \/ Waiter(f)
  PROVE  Types'
<1> USE DEF jobVars, channelVars, childVars, parentVars
<1>0. /\ JobType /\ ForkType /\ ChannelType /\ ChildType /\ LoopType /\ HistoryType
      /\ waiter \in [Fork -> {"none", "accept", "wait", "pushed", "done", "unheard", "thrown"}]
      /\ events \in Seq(Events) /\ toParent \in [Fork -> Seq(1..MaxFrames)]
  BY DEF Types, ForkType, ChannelType
<1>1. UNCHANGED <<jobVars, childVars, at, resume, batch, sent, got>>
  BY DEF Reader, ReadFrame, ReadEnd, Waiter, Join, NotAlive, loopVars
<1>2. JobType' /\ ChildType' /\ LoopType' /\ HistoryType'
  BY <1>0, <1>1, TypesKept
<1>3. CASE Reader(f)
  <2>1. events' \in Seq(Events) /\ toParent' \in [Fork -> Seq(1..MaxFrames)]
    <3>1. CASE ReadFrame(f)
      <4>1. toParent[f] # <<>> /\ toParent[f] \in Seq(1..MaxFrames)
        BY <1>0, <3>1 DEF ReadFrame
      <4>2. Head(toParent[f]) \in 1..MaxFrames /\ Tail(toParent[f]) \in Seq(1..MaxFrames)
        BY <4>1, HeadTailProperties
      <4>3. Event(f, "message", Head(toParent[f])) \in Events
        BY <4>2, EventTypes
      <4> QED
        BY <1>0, <3>1, <4>2, <4>3 DEF ReadFrame
    <3>2. CASE ReadEnd(f)
      <4>1. Event(f, "disconnect", 0) \in Events
        BY EventTypes
      <4> QED
        BY <1>0, <3>2, <4>1 DEF ReadEnd
    <3> QED
      BY <1>3, <3>1, <3>2 DEF Reader
  <2>2. ForkType'
    BY <1>0, <1>3, <2>1 DEF Reader, ReadFrame, ReadEnd, ForkType, Living
  <2>3. ChannelType'
    BY <1>0, <1>3, <2>1 DEF Reader, ReadFrame, ReadEnd, ChannelType
  <2> QED
    BY <1>2, <2>2, <2>3 DEF Types
<1>4. CASE Waiter(f)
  <2>1. ChannelType'
    BY <1>0, <1>4, TypesKept DEF Waiter, Join, NotAlive
  <2>2. /\ waiter' \in [Fork -> {"none", "accept", "wait", "pushed", "done", "unheard", "thrown"}]
        /\ \A g \in Fork : g >= nextFork => waiter'[g] = "none"
    BY <1>0, <1>4 DEF Waiter, Join, NotAlive, ForkType
  <2>3. CASE Join(f)
    <3>1. Living' = Living
      BY <1>0, <2>3 DEF Living, Join
    <3>2. events' \in Seq(Events)
      <4>1. Append(events, Event(f, "exit", 0)) \in Seq(Events)
        BY <1>0, EventTypes, GrowsShrinks
      <4> QED
        BY <1>0, <2>3, <4>1 DEF Join, PushExit
    <3>3. ForkType'
      BY <1>0, <2>2, <2>3, <3>1, <3>2 DEF ForkType, Join, PushExit
    <3> QED
      BY <1>2, <2>1, <3>3 DEF Types
  <2>4. CASE NotAlive(f)
    <3>1. Living' = Living \ {f} /\ f \in Living
      BY <1>0, <2>4 DEF Living, NotAlive
    <3>2. alive' = Cardinality(Living')
      BY <1>0, <2>4, <3>1, CountersFinite, CountsOne DEF NotAlive, ForkType
    <3>3. ForkType'
      BY <1>0, <2>2, <2>4, <3>2 DEF ForkType, NotAlive
    <3> QED
      BY <1>2, <2>1, <3>3 DEF Types
  <2> QED
    BY <1>4, <2>3, <2>4 DEF Waiter
<1> QED
  BY <1>3, <1>4

\* What the process of a fork does
Forked(f) ==
  Connect(f) \/ Listen(f) \/ ChildSend(f) \/ ChildDies(f) \/ ChildReader(f) \/ ChildLoop(f)

\* The types are kept by the forked processes.
LEMMA TypeForked ==
  ASSUME Types, NEW f \in Fork, Forked(f)
  PROVE  Types'
<1> USE DEF jobVars, channelVars, childVars, parentVars
<1>0. /\ JobType /\ ForkType /\ ChannelType /\ ChildType /\ LoopType /\ HistoryType
      /\ sent[f] \in [parent : 0..MaxSends, child : 0..MaxFrames, cuts : 0..MaxSends]
  BY DEF Types, HistoryType
<1>1. UNCHANGED <<jobVars, parentVars, at, resume, batch, got>>
  BY DEF loopVars, Forked, Connect, Listen, ChildSend, ChildDies, ChildReader, ChildReads,
         ChildReadsEnd, ChildLoop, ChildReturns, ChildHears, ChildWaits, ChildValve,
         ChildEnds, Exits
<1>2. JobType' /\ ForkType' /\ LoopType'
  BY <1>0, <1>1, TypesKept
<1>3. CASE ChildSend(f)
  <2>1. sent[f].child + 1 \in 0..MaxFrames /\ sent[f].child + 1 \in 1..MaxFrames
    BY <1>0, <1>3, CountsUp, ChildAssumption DEF ChildSend
  <2>2. toParent' \in [Fork -> Seq(1..MaxFrames)]
    BY <1>0, <1>3, <2>1 DEF ChildSend, ChannelType
  <2>3. sent' \in [Fork -> [parent : 0..MaxSends, child : 0..MaxFrames, cuts : 0..MaxSends]]
    BY <1>0, <1>3, <2>1 DEF ChildSend, HistoryType
  <2>4. ChildType'
    BY <1>0, <1>3, TypesKept DEF ChildSend
  <2> QED
    BY <1>0, <1>2, <1>3, <2>2, <2>3, <2>4 DEF ChildSend, Types, ChannelType, HistoryType
<1>4. CASE ~ChildSend(f)
  <2>1. HistoryType'
    BY <1>0, <1>4, TypesKept
    DEF Forked, Connect, Listen, ChildDies, ChildReader, ChildReads, ChildReadsEnd,
        ChildLoop, ChildReturns, ChildHears, ChildWaits, ChildValve,
        ChildEnds, Exits
  <2>2. CASE ChildReads(f)
    <3>1. /\ toChild[f] \in Seq(1..MaxSends) /\ toChild[f] # <<>>
          /\ incoming[f] \in Seq(1..MaxSends)
      BY <1>0, <2>2 DEF ChildReads, ChannelType, ChildType
    <3>2. /\ Head(toChild[f]) \in 1..MaxSends /\ Tail(toChild[f]) \in Seq(1..MaxSends)
          /\ Append(incoming[f], Head(toChild[f])) \in Seq(1..MaxSends)
      BY <3>1, HeadTailProperties, GrowsShrinks
    <3>3. ChannelType' /\ ChildType'
      BY <1>0, <2>2, <3>2 DEF ChildReads, ChannelType, ChildType
    <3> QED
      BY <1>2, <2>1, <3>3 DEF Types
  <2>3. CASE Exits(f)
    <3>1. <<>> \in Seq(1..MaxSends)
      OBVIOUS
    <3>2. ChannelType' /\ ChildType'
      BY <1>0, <2>3, <3>1 DEF Exits, ChannelType, ChildType
    <3> QED
      BY <1>2, <2>1, <3>2 DEF Types
  <2>4. CASE \/ Connect(f) \/ Listen(f) \/ ChildReadsEnd(f) \/ ChildReturns(f) \/ ChildHears(f)
            \/ ChildWaits(f) \/ ChildValve(f)
    <3>1. <<>> \in Seq(1..MaxSends)
      OBVIOUS
    <3>2. ChannelType'
      BY <1>0, <2>4, TypesKept 
      DEF Connect, Listen, ChildReadsEnd, ChildReturns, ChildHears, ChildWaits, ChildValve
    <3>3. ChildType'
      BY <1>0, <2>4, <3>1 
      DEF Connect, Listen, ChildReadsEnd, ChildReturns, ChildHears, ChildWaits, ChildValve,
          ChildType
    <3> QED
      BY <1>2, <2>1, <3>2, <3>3 DEF Types
  <2> QED
    BY <1>4, <2>2, <2>3, <2>4 DEF Forked, ChildReader, ChildLoop, ChildDies, ChildEnds
<1> QED
  BY <1>3, <1>4

\* The types are kept by the loop of a runtime when it delivers a batch.
LEMMA TypeDeliver ==
  ASSUME Types, NEW r \in Runtime, DeliverJob(r) \/ DeliverEvent(r)
  PROVE  Types'
<1> USE DEF jobVars, channelVars, childVars, parentVars
<1>0. /\ JobType /\ ForkType /\ ChannelType /\ ChildType /\ LoopType /\ HistoryType
      /\ batch \in [Runtime -> Seq(Dones) \cup Seq(Events)] /\ at \in [Runtime -> Places]
      /\ resume[r] \in Resumes
  BY DEF Types, LoopType
<1>1. at[r] = "dispatch" /\ batch[r] # <<>>
  BY <1>0 DEF DeliverJob, DeliverEvent, LoopType
<1>2. ChannelType' /\ ChildType'
  BY <1>0, TypesKept DEF DeliverJob, DeliverEvent
<1>3. ASSUME NEW S, batch[r] \in Seq(S)
      PROVE  Tail(batch[r]) \in Seq(S) /\ (Tail(batch[r]) = <<>> <=> Len(batch[r]) = 1)
  <2>1. PICK q \in Seq(S) : q = batch[r] /\ q # <<>>
    BY <1>1, <1>3
  <2>2. Tail(q) \in Seq(S) /\ Len(Tail(q)) = Len(q) - 1 /\ Len(q) \in Nat \ {0}
    BY <2>1, HeadTailProperties
  <2>3. Tail(q) = <<>> <=> Len(Tail(q)) = 0
    BY <2>2, EmptySeq
  <2>4. Tail(q) = <<>> <=> Len(q) = 1
    BY <2>2, <2>3
  <2> QED
    BY <2>1, <2>2, <2>4
<1>4. ASSUME NEW mine \in BOOLEAN, Delivered(r, mine) PROVE LoopType'
  <2>1. /\ resume' = resume /\ batch'[r] = Tail(batch[r])
        /\ \A q \in Runtime : q # r => batch'[q] = batch[q] /\ at'[q] = at[q]
        /\ at'[r] = IF mine THEN "js" ELSE IF Len(batch[r]) = 1 THEN resume[r] ELSE "dispatch"
    BY <1>0, <1>4 DEF Delivered, Goes
  <2>2. /\ resume[r] = "forks" => Tail(batch[r]) \in Seq(Dones)
        /\ resume[r] # "forks" => Tail(batch[r]) \in Seq(Events)
        /\ Tail(batch[r]) = <<>> <=> Len(batch[r]) = 1
    BY <1>0, <1>3 DEF LoopType
  <2>3. batch' \in [Runtime -> Seq(Dones) \cup Seq(Events)]
    BY <1>0, <1>4, <2>2 DEF Delivered
  <2>4. at' \in [Runtime -> Places]
    BY <1>0, <1>4 DEF Delivered, Goes, Places, Resumes
  <2>5. resume[r] \in {"forks", "tasks"}
    BY <1>0, <1>1 DEF LoopType
  <2> QED
    BY <1>0, <2>1, <2>2, <2>3, <2>4, <2>5 DEF LoopType
<1>5. CASE DeliverJob(r)
  <2>a. Delivered(r, TRUE) \/ Delivered(r, FALSE)
    <3>1. /\ batch' = [batch EXCEPT ![r] = Tail(@)] /\ UNCHANGED <<resume, leaveVars>>
          /\ \/ Goes(r, "js")
             \/ Goes(r, IF Len(batch[r]) = 1 THEN resume[r] ELSE "dispatch")
      BY <1>5 DEF DeliverJob, Delivered
    <3> QED
      BY <3>1 DEF Delivered
  <2>1. LoopType'
    BY <1>4, <2>a
  <2>2. JobType'
    BY <1>0, <1>5 DEF DeliverJob, JobType, Working
  <2>3. ForkType' /\ HistoryType'
    BY <1>0, <1>5, TypesKept DEF DeliverJob
  <2> QED
    BY <1>2, <2>1, <2>2, <2>3 DEF Types
<1>6. CASE DeliverEvent(r)
  <2>a. PICK mine \in BOOLEAN : Delivered(r, mine)
    BY <1>6 DEF DeliverEvent
  <2>1. LoopType'
    BY <1>4, <2>a
  <2>2. JobType'
    BY <1>0, <1>6, TypesKept DEF DeliverEvent
  <2>3. batch[r] \in Seq(Events)
    BY <1>0, <1>6 DEF DeliverEvent, LoopType
  <2>4. PICK e \in Events : e = Head(batch[r])
    BY <1>1, <2>3, HeadTailProperties
  <2>5. ForkType'
    BY <1>0, <1>6 DEF DeliverEvent, ForkType, Living
  <2>6. HistoryType'
    <3>1. got \in [Fork -> Seq(Events)] /\ e.fork \in Fork
      BY <1>0, EventTypes DEF HistoryType
    <3>2. Append(got[e.fork], e) \in Seq(Events)
      BY <3>1, GrowsShrinks
    <3>3. UNCHANGED got \/ got' = [got EXCEPT ![e.fork] = Append(@, e)]
      BY <1>6, <2>4 DEF DeliverEvent
    <3> QED
      BY <1>0, <1>6, <3>1, <3>2, <3>3 DEF HistoryType, DeliverEvent
  <2> QED
    BY <1>2, <2>1, <2>2, <2>5, <2>6 DEF Types
<1> QED
  BY <1>5, <1>6

\* What a runtime does between its pumps without looking at a batch
Passes(r) ==
  \/ Tasks(r) \/ Turn(r) \/ Leave(r) \/ Settle(r)
  \/ CheckInFlight(r) \/ CheckAlive(r) \/ CheckEvents(r) \/ CheckCompleted(r)

\* Its batch is empty then, and only its place changes and where it goes next.
LEMMA PassesFacts ==
  ASSUME Types, NEW r \in Runtime, Passes(r)
  PROVE  /\ UNCHANGED <<jobVars, channelVars, childVars, parentVars, batch, sent, got>>
         /\ batch[r] = <<>>
         /\ \E p \in Places \ {"dispatch"}, n \in Resumes :
              Goes(r, p) /\ resume' = [resume EXCEPT ![r] = n]
<1> USE DEF Tasks, Turn, Leave, Settle, CheckInFlight, CheckAlive, CheckEvents, CheckCompleted,
            Sees, Runs
<1>1. UNCHANGED <<jobVars, channelVars, childVars, parentVars, batch, sent, got>>
  BY DEF Passes
<1>2. at[r] \in {"tasks", "inFlight", "alive", "events", "completed", "leave", "returned"}
  BY DEF Passes
<1>3. batch[r] = <<>>
  BY <1>2 DEF Types, LoopType
<1>4. resume \in [Runtime -> Resumes] /\ resume = [resume EXCEPT ![r] = resume[r]]
  BY DEF Types, LoopType
<1>5. /\ {"js", "jobs", "alive", "events", "completed", "leave"} \subseteq Places \ {"dispatch"}
      /\ {"jobs", "inFlight", "returned", resume[r]} \subseteq Resumes
  BY <1>4 DEF Places, Resumes
<1>6. \/ \E n \in {"jobs", "inFlight", "returned"} :
           Goes(r, "js") /\ resume' = [resume EXCEPT ![r] = n]
      \/ \E p \in {"jobs", "alive", "events", "completed", "leave"} :
           Goes(r, p) /\ resume' = resume
  BY DEF Passes
<1>7. \E p \in Places \ {"dispatch"}, n \in Resumes :
        Goes(r, p) /\ resume' = [resume EXCEPT ![r] = n]
  BY <1>4, <1>5, <1>6
<1> QED
  BY <1>1, <1>3, <1>7

\* The types are kept by the loop of a runtime in its other steps.
LEMMA TypeLoop ==
  ASSUME Types, NEW r \in Runtime, Return(r) \/ TakeJobs(r) \/ TakeEvents(r) \/ Passes(r)
  PROVE  Types'
<1> USE DEF jobVars, channelVars, childVars, parentVars
<1>0. /\ JobType /\ ForkType /\ ChannelType /\ ChildType /\ LoopType /\ HistoryType
      /\ at \in [Runtime -> Places] /\ resume \in [Runtime -> Resumes]
      /\ batch \in [Runtime -> Seq(Dones) \cup Seq(Events)]
  BY DEF Types, LoopType
<1>2. CASE Return(r)
  <2>1. JobType' /\ ForkType' /\ ChannelType' /\ ChildType' /\ HistoryType'
    BY <1>0, <1>2, TypesKept DEF Return
  <2>2. PICK p \in Places : p = IF batch[r] = <<>> THEN resume[r] ELSE "dispatch"
    BY <1>0 DEF Places, Resumes
  <2>3. LoopType'
    <3>1. batch[r] = <<>> => p # "dispatch"
      BY <1>0, <2>2 DEF Resumes
    <3> QED
      BY <1>0, <1>2, <2>2, <3>1, PlaceType DEF Return
  <2> QED
    BY <2>1, <2>3 DEF Types
<1>3. CASE Passes(r)
  <2>1. JobType' /\ ForkType' /\ ChannelType' /\ ChildType' /\ HistoryType'
    BY <1>0, <1>3, PassesFacts, TypesKept
  <2>2. PICK p \in Places \ {"dispatch"}, n \in Resumes :
          Goes(r, p) /\ resume' = [resume EXCEPT ![r] = n]
    BY <1>3, PassesFacts
  <2>3. /\ batch' = batch /\ batch[r] = <<>> /\ at'[r] = p /\ resume'[r] = n
        /\ \A q \in Runtime : q # r => at'[q] = at[q] /\ resume'[q] = resume[q]
        /\ at' \in [Runtime -> Places] /\ resume' \in [Runtime -> Resumes]
        /\ <<>> \in Seq(Dones) /\ <<>> \in Seq(Events)
    BY <1>0, <1>3, <2>2, PassesFacts DEF Goes
  <2>4. LoopType'
    BY <1>0, <2>2, <2>3 DEF LoopType
  <2> QED
    BY <2>1, <2>4 DEF Types
<1>5. ASSUME NEW next \in {"forks", "tasks"}, NEW items, Takes(r, items, next),
             next = "forks" => items \in Seq(Dones), next = "tasks" => items \in Seq(Events)
      PROVE  LoopType'
  <2>1. /\ batch'[r] = items /\ resume'[r] = next
        /\ at'[r] = (IF items = <<>> THEN next ELSE "dispatch")
        /\ \A q \in Runtime : q # r => /\ at'[q] = at[q] /\ resume'[q] = resume[q]
                                       /\ batch'[q] = batch[q]
    BY <1>0, <1>5 DEF Takes, Goes
  <2>2. /\ at' \in [Runtime -> Places] /\ resume' \in [Runtime -> Resumes]
        /\ batch' \in [Runtime -> Seq(Dones) \cup Seq(Events)]
    BY <1>0, <1>5 DEF Takes, Goes, Places, Resumes
  <2>3. ASSUME NEW q \in Runtime
        PROVE  /\ batch'[q] = <<>> => at'[q] # "dispatch"
               /\ batch'[q] # <<>> => at'[q] \in {"js", "fork", "try", "dispatch"}
                                     /\ resume'[q] \in {"forks", "tasks"}
               /\ resume'[q] = "forks" => batch'[q] \in Seq(Dones)
               /\ resume'[q] # "forks" => batch'[q] \in Seq(Events)
    <3>1. CASE q = r
      BY <1>5, <2>1, <3>1
    <3>2. CASE q # r
      BY <1>0, <2>1, <3>2 DEF LoopType
    <3> QED
      BY <3>1, <3>2
  <2> QED
    BY <2>2, <2>3 DEF LoopType
<1>6. CASE TakeJobs(r)
  <2>1. completed \in Seq(Dones)
    BY <1>0 DEF JobType
  <2>2. LoopType'
    BY <1>5, <1>6, <2>1 DEF TakeJobs
  <2>3. JobType'
    BY <1>0, <1>6 DEF TakeJobs, JobType, Working
  <2>4. ForkType' /\ ChannelType' /\ ChildType' /\ HistoryType'
    BY <1>0, <1>6, TypesKept DEF TakeJobs
  <2> QED
    BY <2>2, <2>3, <2>4 DEF Types
<1>7. CASE TakeEvents(r)
  <2>1. events \in Seq(Events)
    BY <1>0 DEF ForkType
  <2>2. LoopType'
    BY <1>5, <1>7, <2>1 DEF TakeEvents
  <2>3. ForkType'
    BY <1>0, <1>7 DEF TakeEvents, ForkType, Living
  <2>4. JobType' /\ ChannelType' /\ ChildType' /\ HistoryType'
    BY <1>0, <1>7, TypesKept DEF TakeEvents
  <2> QED
    BY <2>2, <2>3, <2>4 DEF Types
<1> QED
  BY <1>2, <1>3, <1>6, <1>7

\* What a step can be, by the lemmas that are about it
LEMMA StepCases ==
  ASSUME Next
  PROVE  \/ (\E r \in Runtime : StartJob(r)) \/ (\E j \in Job : Host(j))
         \/ \E r \in Runtime :
              \/ StartFork(r)
              \/ \E f \in Fork : \/ Accept(r, f) \/ NotYet(r, f) \/ Retry(r, f)
                                 \/ AcceptExited(r, f) \/ Throws(r, f)
         \/ \E r \in Runtime, f \in Fork : Send(r, f) \/ Disconnect(r, f)
         \/ \E f \in Fork : Reader(f) \/ Waiter(f)
         \/ \E f \in Fork : Forked(f)
         \/ \E r \in Runtime : DeliverJob(r) \/ DeliverEvent(r)
         \/ \E r \in Runtime : Return(r) \/ TakeJobs(r) \/ TakeEvents(r) \/ Passes(r)
  BY DEF Next, User, Loop, Forked, Passes, AcceptTimeout, AcceptFails

\* Every step keeps the types.
LEMMA TypeStep == Types /\ [Next]_vars => Types'
<1> SUFFICES ASSUME Types, [Next]_vars PROVE Types'
  OBVIOUS
<1>1. CASE UNCHANGED vars
  BY <1>1, TypesKept DEF vars, loopVars, Types
<1>2. CASE Next
  BY <1>2, StepCases, TypeJobs, TypeFork, TypeObject, TypeThreads, TypeForked, TypeDeliver, TypeLoop
<1> QED
  BY <1>1, <1>2

\* Which steps change the callbacks, the waiters, what was emitted, and what is
\* known of runtimes that have left their loop.
LEMMA Changes ==
  ASSUME Types, [Next]_vars
  PROVE  /\ \/ callbacks' = callbacks
            \/ \E r \in Runtime : StartJob(r) \/ DeliverJob(r)
         /\ \/ waiter' = waiter
            \/ \E r \in Runtime : StartFork(r)
            \/ \E r \in Runtime, f \in Fork : Accept(r, f) \/ AcceptExited(r, f) \/ Throws(r, f)
            \/ \E f \in Fork : Waiter(f)
         /\ got' = got \/ \E r \in Runtime : DeliverEvent(r)
         /\ \/ UNCHANGED leaveVars
            \/ \E r \in Runtime : StartJob(r) \/ StartFork(r) \/ Leave(r)
<1> USE DEF jobVars, channelVars, childVars, parentVars, loopVars, leaveVars
<1>1. CASE UNCHANGED vars
  BY <1>1 DEF vars
<1>2. ASSUME NEW r \in Runtime, StartJob(r) PROVE UNCHANGED <<waiter, got>>
  BY <1>2 DEF StartJob
<1>3. ASSUME NEW j \in Job, Host(j) PROVE UNCHANGED <<callbacks, waiter, got, leaveVars>>
  BY <1>3 DEF Host, PushJob, CountDown
<1>4. ASSUME NEW r \in Runtime, StartFork(r) PROVE UNCHANGED <<callbacks, got>>
  BY <1>4 DEF StartFork
<1>5. ASSUME NEW r \in Runtime, NEW f \in Fork,
             Accept(r, f) \/ AcceptExited(r, f) \/ Throws(r, f)
      PROVE  UNCHANGED <<callbacks, got, leaveVars>>
  BY <1>5 DEF Accept, AcceptExited, Throws
<1>6. ASSUME NEW r \in Runtime, NEW f \in Fork,
             NotYet(r, f) \/ Retry(r, f) \/ Send(r, f) \/ Disconnect(r, f)
      PROVE  UNCHANGED <<callbacks, waiter, got, leaveVars>>
  BY <1>6 DEF NotYet, Retry, Send, Disconnect
<1>7. ASSUME NEW f \in Fork, Waiter(f) PROVE UNCHANGED <<callbacks, got, leaveVars>>
  BY <1>7 DEF Waiter, Join, NotAlive
<1>8. ASSUME NEW f \in Fork, Reader(f) \/ Forked(f)
      PROVE  UNCHANGED <<callbacks, waiter, got, leaveVars>>
  BY <1>8
  DEF Reader, ReadFrame, ReadEnd, Forked, Connect, Listen, ChildSend, ChildDies, ChildReader,
      ChildReads, ChildReadsEnd, ChildLoop, ChildReturns, ChildHears, ChildWaits, ChildValve,
      ChildEnds, Exits
<1>9. ASSUME NEW r \in Runtime, DeliverJob(r) PROVE UNCHANGED <<waiter, got, leaveVars>>
  BY <1>9 DEF DeliverJob, Delivered
<1>10. ASSUME NEW r \in Runtime, DeliverEvent(r) PROVE UNCHANGED <<callbacks, waiter, leaveVars>>
  BY <1>10 DEF DeliverEvent, Delivered
<1>11. ASSUME NEW r \in Runtime, Return(r) \/ TakeJobs(r) \/ TakeEvents(r)
       PROVE  UNCHANGED <<callbacks, waiter, got, leaveVars>>
  BY <1>11 DEF Return, TakeJobs, TakeEvents, Takes
<1>12. ASSUME NEW r \in Runtime, Passes(r)
       PROVE  UNCHANGED <<callbacks, waiter, got>> /\ (Leave(r) \/ UNCHANGED leaveVars)
  BY <1>12
  DEF Passes, Tasks, Turn, Leave, Settle, CheckInFlight, CheckAlive, CheckEvents, CheckCompleted,
      Sees
<1>13. CASE (\E r \in Runtime : StartJob(r)) \/ (\E j \in Job : Host(j))
  BY <1>2, <1>3, <1>13
<1>14. CASE \E r \in Runtime :
              \/ StartFork(r)
              \/ \E f \in Fork : \/ Accept(r, f) \/ NotYet(r, f) \/ Retry(r, f)
                                 \/ AcceptExited(r, f) \/ Throws(r, f)
  BY <1>4, <1>5, <1>6, <1>14
<1>15. CASE (\E r \in Runtime, f \in Fork : Send(r, f) \/ Disconnect(r, f))
            \/ \E f \in Fork : Reader(f) \/ Waiter(f) \/ Forked(f)
  BY <1>6, <1>7, <1>8, <1>15
<1>16. CASE \E r \in Runtime : DeliverJob(r) \/ DeliverEvent(r)
  BY <1>9, <1>10, <1>16
<1>17. CASE \E r \in Runtime : Return(r) \/ TakeJobs(r) \/ TakeEvents(r) \/ Passes(r)
  BY <1>11, <1>12, <1>17
<1> QED
  BY <1>1, <1>13, <1>14, <1>15, <1>16, <1>17, StepCases

\* What is known of runtimes that have left their loop keeps its type and grows.
LEMMA LeaveStep ==
  ASSUME Types, LeaveType, [Next]_vars
  PROVE  LeaveType' /\ lateJobs \subseteq lateJobs' /\ lateForks \subseteq lateForks'
<1>1. CASE UNCHANGED leaveVars
  BY <1>1 DEF LeaveType, leaveVars
<1>2. ASSUME NEW r \in Runtime, StartJob(r)
      PROVE  LeaveType' /\ lateJobs \subseteq lateJobs' /\ lateForks \subseteq lateForks'
  <2>1. nextJob \in Job
    BY <1>2, ChildAssumption DEF StartJob, Types, JobType, Job
  <2> QED
    BY <1>2, <2>1 DEF StartJob, LeaveType
<1>3. ASSUME NEW r \in Runtime, StartFork(r)
      PROVE  LeaveType' /\ lateJobs \subseteq lateJobs' /\ lateForks \subseteq lateForks'
  <2>1. nextFork \in Fork
    BY <1>3, ChildAssumption DEF StartFork, Types, ForkType, Fork
  <2> QED
    BY <1>3, <2>1 DEF StartFork, LeaveType
<1>4. ASSUME NEW r \in Runtime, Leave(r)
      PROVE  LeaveType' /\ lateJobs \subseteq lateJobs' /\ lateForks \subseteq lateForks'
  BY <1>4 DEF Leave, LeaveType
<1> QED
  BY <1>1, <1>2, <1>3, <1>4, Changes

\* The types always hold.
LEMMA TypeInvariant == Spec => [](Types /\ LeaveType)
<1>1. Init => Types /\ LeaveType
  BY TypeInit DEF Init, LeaveType
<1>2. Types /\ LeaveType /\ [Next]_vars => (Types /\ LeaveType)'
  BY TypeStep, LeaveStep
<1> QED
  BY <1>1, <1>2, PTL DEF Spec

\* Every variable keeps its type, and ASYNC_IN_FLIGHT and FORK_ALIVE, unsigned
\* numbers, count the jobs and the children they stand for at every moment, for
\* any number of runtimes.
THEOREM ChildTypeCorrect == Spec => []TypeOK
  BY TypeInvariant, TypesSuffice, PTL

-----------------------------------------------------------------------------
(* What a fork object has emitted and what is queued for it. Nothing here is  *)
(* about the state: g is what fork f has emitted, q a queue of events of all  *)
(* forks, k the number of frames read so far and t the number of events, the  *)
(* exit included, that its threads have queued.                               *)

\* The event number i of fork f: the messages, then the exit
Item(f, k, i) == IF i <= k THEN Event(f, "message", i) ELSE Event(f, "exit", 0)

\* Where the queue holds messages and exits of f
Kept(q, f) == {n \in DOMAIN q : q[n].fork = f /\ q[n].kind # "disconnect"}

\* The order in which a fork object emits
Rank(e) == IF e.kind = "exit" THEN MaxFrames + 1 ELSE e.n

\* What was emitted are the first events, the queue holds the others, in order.
Emits(g, q, f, k, t) ==
  /\ Len(g) <= t /\ \A i \in 1..Len(g) : g[i] = Item(f, k, i)
  /\ \A n \in Kept(q, f) : \E i \in (Len(g) + 1)..t : q[n] = Item(f, k, i)
  /\ \A i \in (Len(g) + 1)..t : \E n \in Kept(q, f) : q[n] = Item(f, k, i)
  /\ \A m, n \in Kept(q, f) : m < n => Rank(q[m]) < Rank(q[n])

\* An event is recognised by its fork and its rank.
LEMMA ItemFacts ==
  ASSUME NEW f \in Fork, NEW k \in 0..MaxFrames, NEW i \in Nat \ {0}
  PROVE  /\ Item(f, k, i).fork = f /\ Item(f, k, i).kind # "disconnect"
         /\ i <= k => Item(f, k, i) = Event(f, "message", i) /\ Rank(Item(f, k, i)) = i
         /\ i > k => Item(f, k, i) = Event(f, "exit", 0) /\ Rank(Item(f, k, i)) = MaxFrames + 1
  BY EventTypes, ChildAssumption DEF Item, Rank

\* Appending to a queue.
LEMMA KeptAppend ==
  ASSUME NEW q \in Seq(Events), NEW e \in Events, NEW f \in Fork
  PROVE  /\ Len(q) \in Nat /\ Append(q, e)[Len(q) + 1] = e
         /\ \A n \in Kept(q, f) : n \in 1..Len(q) /\ Append(q, e)[n] = q[n]
         /\ Kept(Append(q, e), f) = IF e.fork = f /\ e.kind # "disconnect"
                                    THEN Kept(q, f) \cup {Len(q) + 1} ELSE Kept(q, f)
<1>1. /\ DOMAIN q = 1..Len(q) /\ Len(q) \in Nat /\ DOMAIN Append(q, e) = 1..(Len(q) + 1)
      /\ Append(q, e)[Len(q) + 1] = e /\ \A n \in 1..Len(q) : Append(q, e)[n] = q[n]
  OBVIOUS
<1> DEFINE p == Append(q, e)
<1>2. /\ DOMAIN p = 1..(Len(q) + 1) /\ p[Len(q) + 1] = e /\ \A n \in 1..Len(q) : p[n] = q[n]
  BY <1>1
<1> HIDE DEF p
<1>3. \A n : n \in 1..(Len(q) + 1) <=> n \in 1..Len(q) \/ n = Len(q) + 1
  BY <1>1
<1>4. Kept(p, f) = IF e.fork = f /\ e.kind # "disconnect"
                   THEN Kept(q, f) \cup {Len(q) + 1} ELSE Kept(q, f)
  BY <1>1, <1>2, <1>3 DEF Kept
<1> QED
  BY <1>1, <1>4 DEF p, Kept

\* p is what is left of q without its head
Behind(p, q) == q # <<>> /\ p = Tail(q)

\* Taking the head of a queue.
LEMMA KeptTail ==
  ASSUME NEW q \in Seq(Events), NEW p, Behind(p, q), NEW f \in Fork
  PROVE  /\ \A n \in Kept(p, f) : n \in Nat \ {0} /\ n + 1 \in Kept(q, f) /\ p[n] = q[n + 1]
         /\ \A n \in Kept(q, f) :
              n \in Nat \ {0} /\ (n # 1 => n - 1 \in Kept(p, f) /\ p[n - 1] = q[n])
         /\ 1 \in Kept(q, f) <=> Head(q).fork = f /\ Head(q).kind # "disconnect"
         /\ q[1] = Head(q)
<1>1. /\ DOMAIN q = 1..Len(q) /\ Len(q) \in Nat \ {0} /\ DOMAIN Tail(q) = 1..(Len(q) - 1)
      /\ \A n \in 1..(Len(q) - 1) : Tail(q)[n] = q[n + 1]
      /\ Head(q) = q[1]
  BY DEF Behind
<1>2. DOMAIN p = 1..(Len(q) - 1) /\ \A n \in 1..(Len(q) - 1) : p[n] = q[n + 1]
  BY <1>1 DEF Behind
<1>3. \A n \in Kept(p, f) : n \in Nat \ {0} /\ n + 1 \in Kept(q, f) /\ p[n] = q[n + 1]
  BY <1>1, <1>2 DEF Kept
<1>4. \A n \in Kept(q, f) : n \in Nat \ {0} /\ (n # 1 => n - 1 \in Kept(p, f) /\ p[n - 1] = q[n])
  BY <1>1, <1>2 DEF Kept
<1>5. 1 \in Kept(q, f) <=> Head(q).fork = f /\ Head(q).kind # "disconnect"
  BY <1>1 DEF Kept
<1> QED
  BY <1>1, <1>3, <1>4, <1>5

\* Events of others and disconnects come and go.
LEMMA EmitsOthers ==
  ASSUME NEW g, NEW q \in Seq(Events), NEW f \in Fork, NEW k, NEW t, Emits(g, q, f, k, t)
  PROVE  /\ \A e \in Events : e.fork # f \/ e.kind = "disconnect" => Emits(g, Append(q, e), f, k, t)
         /\ q # <<>> /\ (Head(q).fork # f \/ Head(q).kind = "disconnect")
              => Emits(g, Tail(q), f, k, t)
<1>1. ASSUME NEW e \in Events, e.fork # f \/ e.kind = "disconnect"
      PROVE  Emits(g, Append(q, e), f, k, t)
  <2>1. Kept(Append(q, e), f) = Kept(q, f) /\ \A n \in Kept(q, f) : Append(q, e)[n] = q[n]
    BY <1>1, KeptAppend
  <2> QED
    BY <2>1, Zenon DEF Emits
<1>2. ASSUME q # <<>>, Head(q).fork # f \/ Head(q).kind = "disconnect"
      PROVE  Emits(g, Tail(q), f, k, t)
  <2>0. PICK p : Behind(p, q) /\ p = Tail(q)
    BY <1>2 DEF Behind
  <2>a. Behind(p, q)
    BY <2>0
  <2>1. /\ \A n \in Kept(p, f) : n \in Nat \ {0} /\ n + 1 \in Kept(q, f) /\ p[n] = q[n + 1]
        /\ \A n \in Kept(q, f) : n - 1 \in Kept(p, f) /\ p[n - 1] = q[n]
    BY <1>2, <2>a, KeptTail
  <2>2. \A n \in Kept(p, f) : \E i \in (Len(g) + 1)..t : p[n] = Item(f, k, i)
    <3> TAKE n \in Kept(p, f)
    <3>1. n + 1 \in Kept(q, f) /\ p[n] = q[n + 1]
      BY <2>1
    <3>2. PICK i \in (Len(g) + 1)..t : q[n + 1] = Item(f, k, i)
      BY <3>1 DEF Emits
    <3> QED
      BY <3>1, <3>2
  <2>3. \A i \in (Len(g) + 1)..t : \E n \in Kept(p, f) : p[n] = Item(f, k, i)
    BY <2>1 DEF Emits
  <2>4. ASSUME NEW m \in Kept(p, f), NEW n \in Kept(p, f), m < n
        PROVE  Rank(p[m]) < Rank(p[n])
    <3>1. m + 1 < n + 1 /\ m + 1 \in Kept(q, f) /\ n + 1 \in Kept(q, f)
      BY <2>1, <2>4
    <3> QED
      BY <2>1, <3>1 DEF Emits
  <2>5. Emits(g, p, f, k, t)
    BY <2>2, <2>3, <2>4 DEF Emits
  <2> QED
    BY <2>0, <2>5
<1> QED
  BY <1>1, <1>2

\* The reader queues the next message, or the waiter the exit.
LEMMA EmitsNext ==
  ASSUME NEW g \in Seq(Events), NEW q \in Seq(Events), NEW f \in Fork, NEW k \in 0..MaxFrames,
         Emits(g, q, f, k, k)
  PROVE  /\ k < MaxFrames =>
              Emits(g, Append(q, Event(f, "message", k + 1)), f, k + 1, k + 1)
         /\ Emits(g, Append(q, Event(f, "exit", 0)), f, k, k + 1)
<1>0. /\ Len(g) \in Nat /\ k \in Nat /\ MaxFrames \in Nat /\ k <= MaxFrames /\ Len(g) <= k
      /\ \A i \in 1..(k + 1) : i \in 1..k \/ i = k + 1
  BY ChildAssumption DEF Emits
<1>1. ASSUME NEW h \in k..MaxFrames, NEW e \in Events, e = Item(f, h, k + 1), h \in {k, k + 1}
      PROVE  Emits(g, Append(q, e), f, h, k + 1)
  <2>1. e.fork = f /\ e.kind # "disconnect" /\ Rank(e) > k
    <3>1. h \in 0..MaxFrames /\ k + 1 \in Nat \ {0} /\ (h = k + 1 \/ k + 1 > h)
      BY <1>0, <1>1
    <3> QED
      BY <1>0, <1>1, <3>1, ItemFacts
  <2>2. \A i \in 1..k : Item(f, h, i) = Item(f, k, i)
    BY <1>0, <1>1 DEF Item
  <2> DEFINE p == Append(q, e)
             z == Len(q) + 1
  <2>3. /\ Kept(p, f) = Kept(q, f) \cup {z} /\ p[z] = e
        /\ ~(z < z) /\ \A n \in Kept(q, f) : n < z /\ ~(z < n) /\ p[n] = q[n]
    BY <2>1, KeptAppend
  <2> HIDE DEF p, z
  <2>4. Len(g) <= k + 1 /\ \A i \in 1..Len(g) : g[i] = Item(f, h, i)
    BY <1>0, <2>2 DEF Emits
  <2>5. \A n \in Kept(p, f) : \E i \in (Len(g) + 1)..(k + 1) : p[n] = Item(f, h, i)
    <3>1. k + 1 \in (Len(g) + 1)..(k + 1) /\ p[z] = Item(f, h, k + 1)
      BY <1>0, <1>1, <2>3
    <3>2. ASSUME NEW n \in Kept(q, f)
          PROVE  \E i \in (Len(g) + 1)..(k + 1) : p[n] = Item(f, h, i)
      <4>1. PICK i \in (Len(g) + 1)..k : q[n] = Item(f, k, i)
        BY DEF Emits
      <4>2. i \in 1..k /\ i \in (Len(g) + 1)..(k + 1)
        BY <1>0
      <4> QED
        BY <2>2, <2>3, <4>1, <4>2
    <3> QED
      BY <2>3, <3>1, <3>2
  <2>6. \A i \in (Len(g) + 1)..(k + 1) : \E n \in Kept(p, f) : p[n] = Item(f, h, i)
    <3>1. ASSUME NEW i \in (Len(g) + 1)..k PROVE \E n \in Kept(p, f) : p[n] = Item(f, h, i)
      <4>1. PICK n \in Kept(q, f) : q[n] = Item(f, k, i)
        BY DEF Emits
      <4>2. i \in 1..k
        BY <1>0
      <4> QED
        BY <2>2, <2>3, <4>1, <4>2
    <3>2. \A i \in (Len(g) + 1)..(k + 1) : i \in (Len(g) + 1)..k \/ i = k + 1
      BY <1>0
    <3> QED
      BY <1>1, <2>3, <3>1, <3>2
  <2>7. \A n \in Kept(q, f) : Rank(p[n]) < Rank(p[z])
    <3> TAKE n \in Kept(q, f)
    <3>1. PICK i \in (Len(g) + 1)..k : q[n] = Item(f, k, i)
      BY DEF Emits
    <3>2. i \in Nat \ {0} /\ i <= k
      BY <1>0
    <3>3. Rank(q[n]) = i
      BY <3>1, <3>2, ItemFacts
    <3>4. Rank(e) > i
      <4>1. h \in 0..MaxFrames /\ k + 1 \in Nat \ {0} /\ (h = k + 1 \/ k + 1 > h)
        BY <1>0, <1>1
      <4>2. Rank(e) = k + 1 \/ Rank(e) = MaxFrames + 1
        BY <1>0, <1>1, <4>1, ItemFacts
      <4> QED
        BY <1>0, <3>2, <4>2
    <3> QED
      BY <2>3, <3>2, <3>3, <3>4
  <2>8. \A m, n \in Kept(p, f) : m < n => Rank(p[m]) < Rank(p[n])
    BY <2>3, <2>7 DEF Emits
  <2>9. Emits(g, p, f, h, k + 1)
    BY <2>4, <2>5, <2>6, <2>8 DEF Emits
  <2> QED
    BY <2>9 DEF p
<1>2. k < MaxFrames => Emits(g, Append(q, Event(f, "message", k + 1)), f, k + 1, k + 1)
  <2> SUFFICES ASSUME k < MaxFrames
               PROVE  Emits(g, Append(q, Event(f, "message", k + 1)), f, k + 1, k + 1)
    OBVIOUS
  <2>1. k + 1 \in k..MaxFrames /\ k + 1 \in 1..MaxFrames
    BY <1>0
  <2>2. Event(f, "message", k + 1) \in Events /\ Event(f, "message", k + 1) = Item(f, k + 1, k + 1)
    BY <2>1, EventTypes DEF Item
  <2> QED
    BY <1>1, <2>1, <2>2
<1>3. Emits(g, Append(q, Event(f, "exit", 0)), f, k, k + 1)
  <2>1. k \in k..MaxFrames /\ ~(k + 1 <= k)
    BY <1>0
  <2>2. Event(f, "exit", 0) \in Events /\ Event(f, "exit", 0) = Item(f, k, k + 1)
    BY <2>1, EventTypes DEF Item
  <2> QED
    BY <1>1, <2>1, <2>2
<1> QED
  BY <1>2, <1>3

\* The loop delivers the next event of the fork.
LEMMA EmitsDelivery ==
  ASSUME NEW g \in Seq(Events), NEW q \in Seq(Events), NEW f \in Fork, NEW k \in 0..MaxFrames,
         NEW t \in {k, k + 1}, Emits(g, q, f, k, t), q # <<>>,
         Head(q).fork = f, Head(q).kind # "disconnect"
  PROVE  Emits(Append(g, Head(q)), Tail(q), f, k, t)
<1>0. /\ Len(g) \in Nat /\ k \in Nat /\ t \in Nat /\ MaxFrames \in Nat /\ k <= MaxFrames
      /\ t <= k + 1
  BY ChildAssumption
<1>a. PICK p : Behind(p, q) /\ p = Tail(q)
  BY DEF Behind
<1>c. Behind(p, q)
  BY <1>a
<1>1. /\ \A n \in Kept(p, f) : n \in Nat \ {0} /\ n + 1 \in Kept(q, f) /\ p[n] = q[n + 1]
      /\ \A n \in Kept(q, f) : n \in Nat \ {0} /\ (n # 1 => n - 1 \in Kept(p, f) /\ p[n - 1] = q[n])
      /\ 1 \in Kept(q, f) /\ q[1] = Head(q)
  BY <1>c, KeptTail
<1>2. PICK e \in Events : e = Head(q)
  BY HeadTailProperties
<1> DEFINE h == Append(g, e)
<1>3. Len(h) = Len(g) + 1 /\ h[Len(g) + 1] = e /\ \A i \in 1..Len(g) : h[i] = g[i]
  OBVIOUS
<1> HIDE DEF h
<1>b. q[1] = e
  BY <1>1, <1>2
<1>4. \A i \in (Len(g) + 1)..t : i \in Nat \ {0} /\ i <= k + 1
  BY <1>0
<1>5. \A i, j \in (Len(g) + 1)..t : i < j => Rank(Item(f, k, i)) < Rank(Item(f, k, j))
  <2> TAKE i, j \in (Len(g) + 1)..t
  <2> HAVE i < j
  <2>1. i <= k /\ Rank(Item(f, k, i)) = i
    BY <1>0, <1>4, ItemFacts
  <2>2. Rank(Item(f, k, j)) = j \/ Rank(Item(f, k, j)) = MaxFrames + 1
    BY <1>0, <1>4, ItemFacts
  <2> QED
    BY <1>0, <1>4, <2>1, <2>2
<1>6. \A i \in (Len(g) + 1)..t : Rank(Item(f, k, i)) \in Nat
  BY <1>0, <1>4, ItemFacts
<1>7. PICK i \in (Len(g) + 1)..t : e = Item(f, k, i)
  BY <1>1, <1>b DEF Emits
<1>8. i = Len(g) + 1
  <2> SUFFICES ASSUME i # Len(g) + 1
               PROVE  FALSE
    OBVIOUS
  <2>1. Len(g) + 1 \in (Len(g) + 1)..t /\ Len(g) + 1 < i
    BY <1>0
  <2>2. PICK n \in Kept(q, f) : q[n] = Item(f, k, Len(g) + 1)
    BY <2>1 DEF Emits
  <2>3. Rank(q[n]) < Rank(q[1])
    BY <1>1, <1>5, <1>7, <1>b, <2>1, <2>2
  <2>a. Rank(q[n]) \in Nat /\ Rank(q[1]) \in Nat
    BY <1>1, <1>6, <1>7, <1>b, <2>1, <2>2
  <2>4. ~(Rank(q[1]) < Rank(q[n])) /\ n # 1
    BY <2>3, <2>a
  <2>5. 1 < n
    BY <1>1, <2>4
  <2> QED
    BY <1>1, <2>4, <2>5 DEF Emits
<1>9. /\ Len(h) <= t /\ \A j \in (Len(h) + 1)..t : j \in (Len(g) + 1)..t /\ i < j
      /\ \A j \in (Len(g) + 1)..t : j # i => j \in (Len(h) + 1)..t
      /\ \A j \in 1..Len(h) : j \in 1..Len(g) \/ j = i
  BY <1>0, <1>3, <1>8
<1>10. \A j \in 1..Len(h) : h[j] = Item(f, k, j)
  BY <1>3, <1>7, <1>8, <1>9 DEF Emits
<1>11. ASSUME NEW n \in Kept(p, f) PROVE \E j \in (Len(h) + 1)..t : p[n] = Item(f, k, j)
  <2>1. n + 1 \in Kept(q, f) /\ 1 < n + 1 /\ p[n] = q[n + 1]
    BY <1>1
  <2>2. PICK j \in (Len(g) + 1)..t : q[n + 1] = Item(f, k, j)
    BY <2>1 DEF Emits
  <2>3. Rank(q[1]) < Rank(q[n + 1])
    BY <1>1, <2>1 DEF Emits
  <2>4. j # i
    BY <1>1, <1>6, <1>7, <1>b, <2>2, <2>3
  <2> QED
    BY <1>9, <2>1, <2>2, <2>4
<1>12. ASSUME NEW j \in (Len(h) + 1)..t PROVE \E n \in Kept(p, f) : p[n] = Item(f, k, j)
  <2>1. j \in (Len(g) + 1)..t /\ i < j
    BY <1>9
  <2>2. PICK n \in Kept(q, f) : q[n] = Item(f, k, j)
    BY <2>1 DEF Emits
  <2>3. Rank(q[1]) < Rank(q[n])
    BY <1>1, <1>5, <1>7, <1>b, <2>1, <2>2
  <2>4. n # 1
    BY <1>1, <1>6, <1>7, <1>b, <2>3
  <2> QED
    BY <1>1, <2>2, <2>4
<1>13. ASSUME NEW m \in Kept(p, f), NEW n \in Kept(p, f), m < n
       PROVE  Rank(p[m]) < Rank(p[n])
  <2>1. m + 1 < n + 1 /\ m + 1 \in Kept(q, f) /\ n + 1 \in Kept(q, f)
    BY <1>1, <1>13
  <2> QED
    BY <1>1, <2>1 DEF Emits
<1>14. Emits(h, p, f, k, t)
  BY <1>9, <1>10, <1>11, <1>12, <1>13 DEF Emits
<1> QED
  BY <1>2, <1>14, <1>a DEF h

-----------------------------------------------------------------------------
(* The threads of a fork and the frames of its channel *)

\* A reader belongs to a waiter that waits for it. Once it has ended, and unless
\* the parent has shut the socket down, the child has exited and nothing is left
\* to read.
WaitInv ==
  /\ \A f \in reader : waiter[f] = "wait"
  /\ \A f \in Fork : waiter[f] \in {"wait", "pushed", "done"} /\ f \notin reader \cup shut
                       => child[f] = "exited" /\ toParent[f] = <<>>

\* The frames of the child that the reader has read
Read(f) == sent[f].child - Len(toParent[f])

\* The channel holds the other frames, in order.
FrameInv ==
  \A f \in Fork : /\ Len(toParent[f]) <= sent[f].child
                  /\ \A n \in 1..Len(toParent[f]) : toParent[f][n] = Read(f) + n

\* No step starts a reader without its waiter or ends one too early.
LEMMA WaitStep ==
  ASSUME Types, WaitInv, [Next]_vars
  PROVE  WaitInv'
<1> USE DEF jobVars, channelVars, childVars, parentVars, loopVars, leaveVars
<1>0. /\ waiter \in [Fork -> {"none", "accept", "wait", "pushed", "done", "unheard", "thrown"}]
      /\ child \in [Fork -> {"none", "starting", "js", "loop", "wait", "exited"}]
      /\ toParent \in [Fork -> Seq(1..MaxFrames)] /\ reader \subseteq Fork
  BY DEF Types, ForkType, ChildType, ChannelType
<1>1. CASE UNCHANGED <<reader, waiter, shut, child, toParent>>
  BY <1>1 DEF WaitInv
<1>2. ASSUME NEW r \in Runtime, StartFork(r) PROVE WaitInv'
  <2>1. nextFork \in Fork /\ waiter[nextFork] = "none"
    <3>1. nextFork \in Fork /\ nextFork >= nextFork
      BY <1>2, ChildAssumption DEF StartFork, Types, ForkType, Fork
    <3> QED
      BY <3>1 DEF Types, ForkType
  <2>2. /\ UNCHANGED <<reader, shut, toParent>>
        /\ \A f \in Fork : f # nextFork => waiter'[f] = waiter[f] /\ child'[f] = child[f]
        /\ waiter'[nextFork] = "accept"
    BY <1>0, <1>2, <2>1 DEF StartFork
  <2> QED
    BY <1>0, <2>1, <2>2 DEF WaitInv
<1>3. ASSUME NEW r \in Runtime, NEW f \in Fork,
             Accept(r, f) \/ AcceptExited(r, f) \/ Throws(r, f)
      PROVE  WaitInv'
  <2>1. CASE Accept(r, f)
    <3>1. /\ UNCHANGED <<shut, toParent, child>> /\ reader' = reader \cup {f}
          /\ waiter'[f] = "wait" /\ \A g \in Fork : g # f => waiter'[g] = waiter[g]
      BY <1>0, <2>1 DEF Accept
    <3> QED
      BY <1>0, <3>1 DEF WaitInv
  <2>2. CASE AcceptExited(r, f) \/ Throws(r, f)
    <3>1. /\ UNCHANGED <<reader, shut, toParent>> /\ waiter[f] = "accept"
          /\ waiter'[f] \in {"unheard", "thrown"}
          /\ \A g \in Fork : g # f => waiter'[g] = waiter[g] /\ child'[g] = child[g]
      BY <1>0, <2>2 DEF AcceptExited, Throws
    <3> QED
      BY <1>0, <3>1 DEF WaitInv
  <2> QED
    BY <1>3, <2>1, <2>2
<1>4. ASSUME NEW r \in Runtime, NEW f \in Fork, Disconnect(r, f) PROVE WaitInv'
  BY <1>0, <1>4 DEF Disconnect, WaitInv
<1>5. ASSUME NEW f \in Fork, Reader(f) PROVE WaitInv'
  <2>1. CASE ReadFrame(f)
    <3>1. /\ UNCHANGED <<reader, shut, waiter, child>> /\ f \in reader
          /\ \A g \in Fork : g # f => toParent'[g] = toParent[g]
      BY <1>0, <2>1 DEF ReadFrame
    <3> QED
      BY <1>0, <3>1 DEF WaitInv
  <2>2. CASE ReadEnd(f)
    BY <1>0, <2>2 DEF ReadEnd, WaitInv
  <2> QED
    BY <1>5, <2>1, <2>2 DEF Reader
<1>6. ASSUME NEW f \in Fork, Waiter(f) PROVE WaitInv'
  <2>1. /\ UNCHANGED <<reader, shut, child, toParent>>
        /\ \A g \in Fork : g # f => waiter'[g] = waiter[g]
        /\ \/ waiter[f] = "wait" /\ f \notin reader /\ waiter'[f] = "pushed"
           \/ waiter[f] = "pushed" /\ waiter'[f] = "done"
    BY <1>0, <1>6 DEF Waiter, Join, NotAlive
  <2> QED
    BY <1>0, <2>1 DEF WaitInv
<1>7. ASSUME NEW f \in Fork, Forked(f) PROVE WaitInv'
  <2>1. /\ UNCHANGED <<reader, shut, waiter>>
        /\ \A g \in Fork : g # f => child'[g] = child[g] /\ toParent'[g] = toParent[g]
        /\ \/ toParent'[f] = toParent[f] /\ (child[f] = "exited" => child'[f] = "exited")
           \/ child[f] = "js"
    BY <1>0, <1>7
    DEF Forked, Connect, Listen, ChildSend, ChildDies, ChildReader, ChildReads, ChildReadsEnd,
        ChildLoop, ChildReturns, ChildHears, ChildWaits, ChildValve,
        ChildEnds, Exits
  <2> QED
    BY <1>0, <2>1 DEF WaitInv
<1>8. ASSUME ~UNCHANGED <<reader, waiter, shut, child, toParent>> PROVE WaitInv'
  <2>1. CASE UNCHANGED vars
    BY <1>8, <2>1 DEF vars
  <2>2. CASE (\E r \in Runtime : StartJob(r)) \/ (\E j \in Job : Host(j))
    BY <1>8, <2>2 DEF StartJob, Host, PushJob, CountDown
  <2>3. CASE \E r \in Runtime : DeliverJob(r) \/ DeliverEvent(r)
    BY <1>8, <2>3 DEF DeliverJob, DeliverEvent
  <2>4. CASE \E r \in Runtime : Return(r) \/ TakeJobs(r) \/ TakeEvents(r) \/ Passes(r)
    BY <1>8, <2>4, PassesFacts DEF Return, TakeJobs, TakeEvents
  <2>5. ASSUME NEW r \in Runtime, NEW f \in Fork, NotYet(r, f) \/ Retry(r, f) \/ Send(r, f)
        PROVE  WaitInv'
    BY <1>8, <2>5 DEF NotYet, Retry, Send
  <2> QED
    BY <1>2, <1>3, <1>4, <1>5, <1>6, <1>7, <2>1, <2>2, <2>3, <2>4, <2>5, StepCases
<1> QED
  BY <1>1, <1>8

\* The bounds of what was read.
LEMMA ReadBounds ==
  ASSUME Types, FrameInv, NEW f \in Fork
  PROVE  /\ Read(f) \in 0..MaxFrames /\ Len(toParent[f]) \in Nat /\ sent[f].child \in 0..MaxFrames
         /\ Read(f) + Len(toParent[f]) = sent[f].child
<1>1. /\ sent[f].child \in 0..MaxFrames /\ Len(toParent[f]) \in Nat /\ MaxFrames \in Nat
      /\ Len(toParent[f]) <= sent[f].child
  BY ChildAssumption DEF Types, HistoryType, ChannelType, FrameInv
<1> QED
  BY <1>1 DEF Read

\* The frames are read in order, and nothing else touches them.
LEMMA FrameStep ==
  ASSUME Types, FrameInv, [Next]_vars
  PROVE  /\ FrameInv'
         /\ \A f \in Fork :
              \/ Read(f)' = Read(f) /\ ~ReadFrame(f)
              \/ /\ ReadFrame(f) /\ Head(toParent[f]) = Read(f) + 1 /\ Read(f) < MaxFrames
                 /\ Read(f)' = Read(f) + 1
<1> USE DEF jobVars, channelVars, childVars, parentVars, loopVars, leaveVars
<1>0. /\ toParent \in [Fork -> Seq(1..MaxFrames)]
      /\ sent \in [Fork -> [parent : 0..MaxSends, child : 0..MaxFrames, cuts : 0..MaxSends]]
  BY DEF Types, HistoryType, ChannelType
<1> SUFFICES ASSUME NEW f \in Fork
             PROVE  /\ Len(toParent'[f]) <= sent'[f].child
                    /\ \A n \in 1..Len(toParent'[f]) : toParent'[f][n] = Read(f)' + n
                    /\ \/ Read(f)' = Read(f) /\ ~ReadFrame(f)
                       \/ /\ ReadFrame(f) /\ Head(toParent[f]) = Read(f) + 1 /\ Read(f) < MaxFrames
                          /\ Read(f)' = Read(f) + 1
  BY DEF FrameInv
<1>a. PICK t \in Seq(1..MaxFrames) : t = toParent[f]
  BY <1>0
<1>b. /\ Read(f) \in Nat /\ Len(t) \in Nat /\ sent[f].child \in Nat
      /\ Read(f) + Len(t) = sent[f].child /\ sent[f].child <= MaxFrames /\ MaxFrames \in Nat
      /\ \A n \in 1..Len(t) : t[n] = Read(f) + n
  BY <1>a, ReadBounds, ChildAssumption DEF FrameInv
<1>1. CASE ReadFrame(f)
  <2>1. toParent'[f] = Tail(t) /\ sent' = sent /\ t # <<>>
    BY <1>0, <1>1, <1>a DEF ReadFrame
  <2>2. /\ Len(t) >= 1 /\ Len(Tail(t)) = Len(t) - 1 /\ Head(t) = t[1]
        /\ \A n \in 1..(Len(t) - 1) : Tail(t)[n] = t[n + 1]
    BY <2>1
  <2>3. Read(f)' = sent[f].child - (Len(t) - 1)
    BY <2>1, <2>2 DEF Read
  <2>4. Read(f)' = Read(f) + 1 /\ Read(f) < MaxFrames /\ Head(t) = Read(f) + 1
    BY <1>b, <2>2, <2>3
  <2>5. ASSUME NEW n \in 1..Len(toParent'[f]) PROVE toParent'[f][n] = Read(f)' + n
    <3>1. n \in 1..(Len(t) - 1) /\ n + 1 \in 1..Len(t) /\ toParent'[f][n] = t[n + 1]
      BY <1>b, <2>1, <2>2
    <3> QED
      BY <1>b, <2>4, <3>1
  <2>6. Len(toParent'[f]) <= sent'[f].child
    BY <1>b, <2>1, <2>2
  <2> QED
    BY <1>1, <1>a, <2>4, <2>5, <2>6
<1>2. CASE ChildSend(f)
  <2>1. toParent'[f] = Append(t, sent[f].child + 1) /\ sent'[f].child = sent[f].child + 1
    BY <1>0, <1>2, <1>a DEF ChildSend
  <2>2. /\ Len(Append(t, sent[f].child + 1)) = Len(t) + 1
        /\ Append(t, sent[f].child + 1)[Len(t) + 1] = sent[f].child + 1
        /\ \A n \in 1..Len(t) : Append(t, sent[f].child + 1)[n] = t[n]
    OBVIOUS
  <2>3. Len(toParent'[f]) = Len(t) + 1
    BY <2>1, <2>2
  <2>4. Read(f)' = Read(f)
    <3>1. Read(f)' = sent'[f].child - Len(toParent'[f])
      BY DEF Read
    <3>2. Read(f)' = (sent[f].child + 1) - (Len(t) + 1)
      BY <2>1, <2>3, <3>1
    <3>3. PICK c \in Nat, l \in Nat, d \in Nat : c = sent[f].child /\ l = Len(t) /\ d = Read(f)
      BY <1>b
    <3>4. d + l = c
      BY <1>b, <3>3
    <3>5. (c + 1) - (l + 1) = d
      BY <3>4
    <3> QED
      BY <3>2, <3>3, <3>5
  <2>5. ASSUME NEW n \in 1..Len(toParent'[f]) PROVE toParent'[f][n] = Read(f)' + n
    <3>1. n \in 1..Len(t) \/ n = Len(t) + 1
      BY <1>b, <2>1, <2>2
    <3> QED
      BY <1>b, <2>1, <2>2, <2>4, <3>1
  <2>6. Len(toParent'[f]) <= sent'[f].child
    BY <1>b, <2>1, <2>2
  <2>7. ~ReadFrame(f)
    <3>1. sent' # sent
      BY <1>b, <2>1
    <3> QED
      BY <3>1 DEF ReadFrame
  <2> QED
    BY <2>4, <2>5, <2>6, <2>7
<1>3. CASE ~ReadFrame(f) /\ ~ChildSend(f)
  <2>1. toParent'[f] = toParent[f] /\ sent'[f].child = sent[f].child
    <3>1. CASE UNCHANGED <<toParent, sent>>
      BY <3>1
    <3>2. ASSUME NEW r \in Runtime, NEW g \in Fork, Send(r, g) \/ Disconnect(r, g)
          PROVE  toParent'[f] = toParent[f] /\ sent'[f].child = sent[f].child
      <4>1. toParent' = toParent
        BY <3>2 DEF Send, Disconnect
      <4>2. \/ sent' = [sent EXCEPT ![g].parent = @ + 1]
            \/ sent' = [sent EXCEPT ![g].cuts = @ + 1]
        BY <3>2 DEF Send, Disconnect
      <4>3. sent'[f].child = sent[f].child
        <5>1. CASE f = g
          BY <1>0, <4>2, <5>1
        <5>2. CASE f # g
          BY <1>0, <4>2, <5>2
        <5> QED
          BY <5>1, <5>2
      <4> QED
        BY <4>1, <4>3
    <3>3. ASSUME NEW g \in Fork, ReadFrame(g) \/ ChildSend(g)
          PROVE  toParent'[f] = toParent[f] /\ sent'[f].child = sent[f].child
      <4>1. g # f
        BY <1>3, <3>3
      <4> QED
        BY <1>0, <3>3, <4>1 DEF ReadFrame, ChildSend
    <3>4. CASE UNCHANGED vars
      BY <3>1, <3>4 DEF vars
    <3>5. CASE (\E r \in Runtime : StartJob(r)) \/ (\E j \in Job : Host(j))
      BY <3>1, <3>5 DEF StartJob, Host, PushJob, CountDown
    <3>6. CASE \E r \in Runtime : DeliverJob(r) \/ DeliverEvent(r)
      BY <3>1, <3>6 DEF DeliverJob, DeliverEvent
    <3>7. CASE \E r \in Runtime : Return(r) \/ TakeJobs(r) \/ TakeEvents(r) \/ Passes(r)
      BY <3>1, <3>7, PassesFacts DEF Return, TakeJobs, TakeEvents
    <3>8. CASE \E r \in Runtime :
                 \/ StartFork(r)
                 \/ \E g \in Fork : \/ Accept(r, g) \/ NotYet(r, g) \/ Retry(r, g)
                                    \/ AcceptExited(r, g) \/ Throws(r, g)
      BY <3>1, <3>8 DEF StartFork, Accept, NotYet, Retry, AcceptExited, Throws
    <3>9. ASSUME NEW g \in Fork, Waiter(g) \/ ReadEnd(g)
          PROVE  toParent'[f] = toParent[f] /\ sent'[f].child = sent[f].child
      BY <3>1, <3>9 DEF Waiter, Join, NotAlive, ReadEnd
    <3>10. ASSUME NEW g \in Fork, Forked(g), ~ChildSend(g)
           PROVE  toParent'[f] = toParent[f] /\ sent'[f].child = sent[f].child
      <4>1. UNCHANGED <<toParent, sent>>
        BY <3>10
        DEF Forked, Connect, Listen, ChildDies, ChildReader, ChildReads, ChildReadsEnd, ChildLoop,
            ChildReturns, ChildHears, ChildWaits, ChildValve, ChildEnds, Exits
      <4> QED
        BY <3>1, <4>1
    <3> QED
      BY <3>2, <3>3, <3>4, <3>5, <3>6, <3>7, <3>8, <3>9, <3>10, StepCases DEF Reader
  <2>2. Read(f)' = Read(f)
    BY <2>1 DEF Read
  <2>3. Len(t) <= sent'[f].child
    BY <1>b, <2>1
  <2>4. toParent'[f] = t
    BY <1>a, <2>1
  <2>5. \A n \in 1..Len(t) : t[n] = Read(f)' + n
    BY <1>b, <2>2
  <2> QED
    BY <1>3, <2>2, <2>3, <2>4, <2>5
<1> QED
  BY <1>1, <1>2, <1>3


-----------------------------------------------------------------------------
(* What a runtime knows when it reads has_pending_child_process_work *)

\* The process has one runtime. Another one takes and drops what is not its own.
OneRuntime == \A q, r \in Runtime : q = r

\* A batch or the queue holds the result of job j.
Has(q, j) == \E n \in DOMAIN q : q[n].job = j

\* A callback waits for a job that works, is queued, or is in the batch.
JobInv ==
  \A r \in Runtime : \A j \in callbacks[r] :
    thread[j] = "work" \/ Has(completed, j) \/ (resume[r] = "forks" /\ Has(batch[r], j))

\* What a runtime has read is still so: nothing works any more, no child lives,
\* nothing is queued.
CheckInv ==
  \A r \in Runtime :
    /\ at[r] \in {"alive", "events", "completed", "leave"} => Working = {}
    /\ at[r] \in {"events", "completed", "leave"} => Living = {}
    /\ at[r] \in {"completed", "leave"} => events = <<>>
    /\ at[r] = "leave" => completed = <<>>

\* What a queue holds when it grows and shrinks.
LEMMA HasFacts ==
  ASSUME NEW q \in Seq(Dones), NEW j
  PROVE  /\ ~Has(<<>>, j)
         /\ \A e : e \in Dones => /\ Has(q, j) => Has(Append(q, e), j)
                                  /\ e.job = j => Has(Append(q, e), j)
         /\ Has(q, j) /\ q # <<>> /\ Head(q).job # j => Has(Tail(q), j)
<1>1. ~Has(<<>>, j)
  BY DEF Has
<1>2. ASSUME NEW e \in Dones
      PROVE  /\ Has(q, j) => Has(Append(q, e), j)
             /\ e.job = j => Has(Append(q, e), j)
  <2> DEFINE p == Append(q, e)
  <2>1. /\ DOMAIN q = 1..Len(q) /\ Len(q) \in Nat /\ DOMAIN p = 1..(Len(q) + 1)
        /\ p[Len(q) + 1] = e /\ \A n \in 1..Len(q) : p[n] = q[n]
    OBVIOUS
  <2> HIDE DEF p
  <2>2. Len(q) + 1 \in DOMAIN p /\ \A n \in DOMAIN q : n \in DOMAIN p
    BY <2>1
  <2>3. (Has(q, j) => Has(p, j)) /\ (e.job = j => Has(p, j))
    BY <2>1, <2>2 DEF Has
  <2> QED
    BY <2>3 DEF p
<1>3. ASSUME Has(q, j), q # <<>>, Head(q).job # j PROVE Has(Tail(q), j)
  <2>1. PICK n \in DOMAIN q : q[n].job = j
    BY <1>3 DEF Has
  <2> DEFINE p == Tail(q)
  <2>2. /\ DOMAIN q = 1..Len(q) /\ Len(q) \in Nat \ {0} /\ DOMAIN p = 1..(Len(q) - 1)
        /\ \A m \in 1..(Len(q) - 1) : p[m] = q[m + 1]
        /\ Head(q) = q[1]
    BY <1>3
  <2> HIDE DEF p
  <2>3. n # 1 /\ n \in 1..Len(q)
    BY <1>3, <2>1, <2>2
  <2>4. n - 1 \in 1..(Len(q) - 1) /\ (n - 1) + 1 = n
    BY <2>2, <2>3
  <2>5. n - 1 \in DOMAIN p /\ p[n - 1] = q[n]
    BY <2>2, <2>4
  <2>6. Has(p, j)
    BY <2>1, <2>5 DEF Has
  <2> QED
    BY <2>6 DEF p
<1> QED
  BY <1>1, <1>2, <1>3

\* No job is lost between its host thread and its callback.
LEMMA JobStep ==
  ASSUME OneRuntime, Types, JobInv, [Next]_vars
  PROVE  JobInv'
<1> USE DEF jobVars, channelVars, childVars, parentVars, loopVars, leaveVars
<1>0. /\ callbacks \in [Runtime -> SUBSET Job] /\ completed \in Seq(Dones)
      /\ thread \in [Job -> {"none", "work", "pushed", "done"}]
      /\ resume \in [Runtime -> Resumes]
      /\ batch \in [Runtime -> Seq(Dones) \cup Seq(Events)]
      /\ \A r \in Runtime : resume[r] = "forks" => batch[r] \in Seq(Dones)
      /\ \A r \in Runtime : at[r] \in {"jobs", "forks"} => batch[r] = <<>>
      /\ \A r \in Runtime : at[r] = "dispatch" => batch[r] # <<>>
  BY DEF Types, JobType, LoopType
<1>1. CASE UNCHANGED <<callbacks, thread, completed, resume, batch>>
  BY <1>1 DEF JobInv
<1>2. ASSUME NEW r \in Runtime, StartJob(r) PROVE JobInv'
  <2>1. nextJob \in Job
    BY <1>2, ChildAssumption DEF StartJob, Types, JobType, Job
  <2>2. /\ UNCHANGED <<completed, resume, batch>> /\ thread'[nextJob] = "work"
        /\ \A j \in Job : j # nextJob => thread'[j] = thread[j]
        /\ callbacks'[r] = callbacks[r] \cup {nextJob}
        /\ \A q \in Runtime : q = r
    BY <1>0, <1>2, <2>1 DEF StartJob, OneRuntime
  <2> QED
    BY <1>0, <2>1, <2>2 DEF JobInv
<1>3. ASSUME NEW k \in Job, PushJob(k) PROVE JobInv'
  <2>1. /\ UNCHANGED <<callbacks, resume, batch>>
        /\ \A j \in Job : j # k => thread'[j] = thread[j]
        /\ completed' = Append(completed, JobDone(k))
    BY <1>0, <1>3 DEF PushJob
  <2>2. \A j \in Job : (Has(completed, j) => Has(completed', j)) /\ (j = k => Has(completed', j))
    BY <1>0, <2>1, HasFacts, EventTypes
  <2> QED
    BY <1>0, <2>1, <2>2 DEF JobInv
<1>4. ASSUME NEW k \in Job, CountDown(k) PROVE JobInv'
  <2>1. /\ UNCHANGED <<callbacks, completed, resume, batch>> /\ thread[k] = "pushed"
        /\ \A j \in Job : j # k => thread'[j] = thread[j]
    BY <1>0, <1>4 DEF CountDown
  <2> QED
    BY <1>0, <2>1 DEF JobInv
<1>5. ASSUME NEW r \in Runtime, TakeJobs(r) \/ TakeEvents(r) \/ Passes(r) PROVE JobInv'
  <2>1. batch[r] = <<>> /\ \A j : ~Has(batch[r], j)
    BY <1>0, <1>5, HasFacts, PassesFacts DEF TakeJobs, TakeEvents
  <2>2. UNCHANGED <<callbacks, thread>>
    BY <1>5, PassesFacts DEF TakeJobs, TakeEvents
  <2>3. CASE TakeJobs(r)
    <3>1. resume'[r] = "forks" /\ batch'[r] = completed
      BY <1>0, <2>3 DEF TakeJobs, Takes
    <3> QED
      BY <1>0, <2>1, <2>2, <3>1 DEF JobInv, OneRuntime
  <2>4. CASE TakeEvents(r) \/ Passes(r)
    <3>1. UNCHANGED completed
      BY <2>4, PassesFacts DEF TakeEvents
    <3> QED
      BY <1>0, <2>1, <2>2, <3>1 DEF JobInv, OneRuntime
  <2> QED
    BY <1>5, <2>3, <2>4
<1>6. ASSUME NEW r \in Runtime, DeliverJob(r) PROVE JobInv'
  <2>1. PICK q \in Seq(Dones) : q = batch[r] /\ q # <<>>
    BY <1>0, <1>6 DEF DeliverJob
  <2>2. /\ UNCHANGED <<thread, completed, resume>> /\ resume[r] = "forks" /\ batch'[r] = Tail(q)
        /\ callbacks'[r] = callbacks[r] \ {Head(q).job}
    BY <1>0, <1>6, <2>1 DEF DeliverJob, Delivered
  <2>3. \A j \in callbacks'[r] : Has(q, j) => Has(batch'[r], j)
    BY <2>1, <2>2, HasFacts
  <2> QED
    BY <1>0, <2>1, <2>2, <2>3 DEF JobInv, OneRuntime
<1>7. ASSUME NEW r \in Runtime, DeliverEvent(r) PROVE JobInv'
  <2>1. UNCHANGED <<callbacks, thread, completed, resume>> /\ resume[r] = "tasks"
    BY <1>7 DEF DeliverEvent, Delivered
  <2> QED
    BY <2>1 DEF JobInv, OneRuntime
<1>8. ASSUME ~UNCHANGED <<callbacks, thread, completed, resume, batch>> PROVE JobInv'
  <2>1. CASE UNCHANGED vars
    BY <1>8, <2>1 DEF vars
  <2>2. CASE \E r \in Runtime : Return(r)
    BY <1>8, <2>2 DEF Return
  <2>3. CASE \E r \in Runtime :
               \/ StartFork(r)
               \/ \E f \in Fork : \/ Accept(r, f) \/ NotYet(r, f) \/ Retry(r, f)
                                  \/ AcceptExited(r, f) \/ Throws(r, f)
                                  \/ Send(r, f) \/ Disconnect(r, f)
    BY <1>8, <2>3
    DEF StartFork, Accept, NotYet, Retry, AcceptExited, Throws, Send, Disconnect
  <2>4. CASE \E f \in Fork : Reader(f) \/ Waiter(f)
    BY <1>8, <2>4 DEF Reader, ReadFrame, ReadEnd, Waiter, Join, NotAlive
  <2>5. CASE \E f \in Fork : Forked(f)
    BY <1>8, <2>5
    DEF Forked, Connect, Listen, ChildSend, ChildDies, ChildReader, ChildReads, ChildReadsEnd,
        ChildLoop, ChildReturns, ChildHears, ChildWaits, ChildValve,
        ChildEnds, Exits
  <2> QED
    BY <1>2, <1>3, <1>4, <1>5, <1>6, <1>7, <2>1, <2>2, <2>3, <2>4, <2>5, StepCases DEF Host
<1> QED
  BY <1>1, <1>8

\* Where a runtime is that has read nothing yet
Unread ==
  {"js", "fork", "try", "jobs", "forks", "dispatch", "tasks", "inFlight", "returned"}

\* What a runtime has read stays so until it runs again.
LEMMA CheckStep ==
  ASSUME OneRuntime, Types, WaitInv, CheckInv, [Next]_vars
  PROVE  CheckInv'
<1> USE DEF jobVars, channelVars, childVars, parentVars, loopVars, leaveVars
<1>0. /\ at \in [Runtime -> Places] /\ resume \in [Runtime -> Resumes]
      /\ inFlight = Cardinality(Working) /\ alive = Cardinality(Living)
      /\ inFlight \in Nat /\ alive \in Nat
      /\ inFlight = 0 => Working = {}
      /\ alive = 0 => Living = {}
  <2>1. inFlight = Cardinality(Working) /\ alive = Cardinality(Living)
    BY DEF Types, JobType, ForkType
  <2> QED
    BY <2>1, CountersFinite, FS_CardinalityType, FS_EmptySet DEF Types, LoopType
<1>1. ASSUME NEW r \in Runtime, at'[r] \in Unread PROVE CheckInv'
  BY <1>1 DEF CheckInv, OneRuntime, Unread
<1>2. ASSUME NEW r \in Runtime,
             \/ Return(r) \/ TakeJobs(r) \/ TakeEvents(r) \/ Tasks(r) \/ Turn(r) \/ Leave(r)
             \/ Settle(r) \/ DeliverJob(r) \/ DeliverEvent(r) \/ StartFork(r) \/ StartJob(r)
      PROVE  CheckInv'
  <2>1. at'[r] \in Unread
    BY <1>0, <1>2
    DEF Return, TakeJobs, TakeEvents, Takes, Tasks, Turn, Leave, Settle, Sees, Runs, Resumes,
        DeliverJob, DeliverEvent, Delivered, StartFork, StartJob, Goes, Unread
  <2> QED
    BY <1>1, <2>1
<1>3. ASSUME NEW r \in Runtime, NEW f \in Fork,
             \/ Accept(r, f) \/ NotYet(r, f) \/ Retry(r, f)
             \/ AcceptExited(r, f) \/ Throws(r, f) \/ Send(r, f) \/ Disconnect(r, f)
      PROVE  CheckInv'
  <2>1. at'[r] \in Unread
    BY <1>0, <1>3
    DEF Accept, NotYet, Retry, AcceptExited, Throws, Send, Disconnect, Holds, Goes, Unread
  <2> QED
    BY <1>1, <2>1
<1>4. ASSUME NEW r \in Runtime,
             CheckInFlight(r) \/ CheckAlive(r) \/ CheckEvents(r) \/ CheckCompleted(r)
      PROVE  CheckInv'
  <2>1. /\ UNCHANGED <<thread, completed, waiter, events>>
        /\ \/ at'[r] = "js"
           \/ at[r] = "inFlight" /\ inFlight = 0 /\ at'[r] = "alive"
           \/ at[r] = "alive" /\ alive = 0 /\ at'[r] = "events"
           \/ at[r] = "events" /\ events = <<>> /\ at'[r] = "completed"
           \/ at[r] = "completed" /\ completed = <<>> /\ at'[r] = "leave"
    BY <1>0, <1>4 DEF CheckInFlight, CheckAlive, CheckEvents, CheckCompleted, Sees, Runs, Goes
  <2>2. Working' = Working /\ Living' = Living
    BY <2>1 DEF Working, Living
  <2> QED
    BY <1>0, <2>1, <2>2 DEF CheckInv, OneRuntime
<1>5. ASSUME NEW j \in Job, Host(j) PROVE CheckInv'
  <2>1. j \in Working /\ at' = at
    BY <1>5 DEF Host, PushJob, CountDown, Working
  <2> QED
    BY <2>1 DEF CheckInv
<1>6. ASSUME NEW f \in Fork, Reader(f) \/ Waiter(f) PROVE CheckInv'
  <2>1. UNCHANGED <<at, thread, completed>> /\ waiter[f] \in {"wait", "pushed"}
    BY <1>6 DEF Reader, ReadFrame, ReadEnd, Waiter, Join, NotAlive, WaitInv
  <2>2. f \in Living /\ Working' = Working
    BY <2>1 DEF Living, Working
  <2> QED
    BY <2>1, <2>2 DEF CheckInv
<1>7. ASSUME UNCHANGED <<at, thread, completed, waiter, events>> PROVE CheckInv'
  BY <1>7 DEF CheckInv, Working, Living
<1>8. CASE \E f \in Fork : Forked(f)
  BY <1>7, <1>8
  DEF Forked, Connect, Listen, ChildSend, ChildDies, ChildReader, ChildReads, ChildReadsEnd,
      ChildLoop, ChildReturns, ChildHears, ChildWaits, ChildValve,
      ChildEnds, Exits
<1>9. CASE UNCHANGED vars
  BY <1>7, <1>9 DEF vars
<1> QED
  BY <1>2, <1>3, <1>4, <1>5, <1>6, <1>8, <1>9, StepCases DEF Passes


-----------------------------------------------------------------------------
(* Everything the threads of a fork have queued reaches its object, in order *)

\* The exit of the fork has been queued.
Reported(f) == waiter[f] \in {"pushed", "done", "unheard"}

\* The number of messages and exits queued for the fork so far
Total(f) == IF Reported(f) THEN Read(f) + 1 ELSE Read(f)

\* The events that the runtime has taken and the ones it has not taken yet
Front(r) == IF resume[r] = "tasks" THEN batch[r] ELSE <<>>
Queue(r) == Front(r) \o events

StreamInv == \A r \in Runtime, f \in Fork : Emits(got[f], Queue(r), f, Read(f), Total(f))

\* The two parts of a queue when the second grows or the first loses its head.
LEMMA TwoParts ==
  ASSUME NEW p \in Seq(Events), NEW q \in Seq(Events)
  PROVE  /\ p \o q \in Seq(Events) /\ <<>> \o q = q /\ q \o <<>> = q
         /\ \A e \in Events : p \o Append(q, e) = Append(p \o q, e)
         /\ p # <<>> => /\ p \o q # <<>> /\ Head(p \o q) = Head(p)
                        /\ Tail(p \o q) = Tail(p) \o q
<1>1. p \o q \in Seq(Events) /\ <<>> \o q = q /\ q \o <<>> = q
  BY ConcatProperties, ConcatEmptySeq
<1>2. ASSUME NEW e \in Events PROVE p \o Append(q, e) = Append(p \o q, e)
  <2>1. Append(q, e) = q \o <<e>> /\ Append(p \o q, e) = (p \o q) \o <<e>> /\ <<e>> \in Seq(Events)
    BY <1>1, AppendIsConcat
  <2> QED
    BY <2>1, ConcatAssociative
<1>3. ASSUME p # <<>>
      PROVE  p \o q # <<>> /\ Head(p \o q) = Head(p) /\ Tail(p \o q) = Tail(p) \o q
  <2>1. /\ Len(p) \in Nat \ {0} /\ Len(q) \in Nat
        /\ p \o q \in Seq(Events) /\ Len(p \o q) = Len(p) + Len(q)
    BY <1>3
  <2>2. /\ Tail(p \o q) \in Seq(Events) /\ Len(Tail(p \o q)) = Len(p) + Len(q) - 1
        /\ Tail(p) \in Seq(Events) /\ Len(Tail(p)) = Len(p) - 1
        /\ Tail(p) \o q \in Seq(Events) /\ Len(Tail(p) \o q) = Len(p) - 1 + Len(q)
    BY <2>1
  <2>3. ASSUME NEW n \in 1..Len(Tail(p \o q))
        PROVE  Tail(p \o q)[n] = (Tail(p) \o q)[n]
    <3>1. Tail(p \o q)[n] = (p \o q)[n + 1]
      BY <2>1, <2>2
    <3>2. CASE n <= Len(p) - 1
      BY <2>1, <2>2, <3>1, <3>2
    <3>3. CASE n > Len(p) - 1
      BY <2>1, <2>2, <3>1, <3>3
    <3> QED
      BY <2>1, <2>2, <3>2, <3>3, SMTT(30)
  <2>4. Tail(p \o q) = Tail(p) \o q
    BY <2>2, <2>3, SeqEqual
  <2> QED
    BY <2>1, <2>4
<1> QED
  BY <1>1, <1>2, <1>3

\* The queue is one of events; what the reader, the waiter or disconnect() add
\* goes to its end.
LEMMA QueueFacts ==
  ASSUME Types, NEW r \in Runtime
  PROVE  /\ Queue(r) \in Seq(Events) /\ Front(r) \in Seq(Events) /\ events \in Seq(Events)
         /\ UNCHANGED <<resume, batch, events>> => Queue(r)' = Queue(r)
         /\ \A e \in Events : UNCHANGED <<resume, batch>> /\ events' = Append(events, e)
                                => Queue(r)' = Append(Queue(r), e)
<1>1. Front(r) \in Seq(Events) /\ events \in Seq(Events)
  BY DEF Types, LoopType, ForkType, Front
<1>2. ASSUME UNCHANGED <<resume, batch>> PROVE Front(r)' = Front(r)
  BY <1>2 DEF Front
<1>3. ASSUME NEW e \in Events, UNCHANGED <<resume, batch>>, events' = Append(events, e)
      PROVE  Queue(r)' = Append(Queue(r), e)
  <2>1. Queue(r)' = Front(r) \o Append(events, e)
    BY <1>2, <1>3 DEF Queue
  <2>2. \A p \in Seq(Events) : p \o Append(events, e) = Append(p \o events, e)
    BY <1>1, TwoParts
  <2>3. Front(r) \o Append(events, e) = Append(Front(r) \o events, e)
    BY <1>1, <2>2
  <2> QED
    BY <2>1, <2>3 DEF Queue
<1>4. ASSUME UNCHANGED <<resume, batch, events>> PROVE Queue(r)' = Queue(r)
  BY <1>2, <1>4 DEF Queue
<1>5. \A p, q \in Seq(Events) : p \o q \in Seq(Events)
  BY TwoParts
<1> QED
  BY <1>1, <1>3, <1>4, <1>5 DEF Queue

\* Taking the queue as a batch leaves what is to come, and delivering takes its
\* head.
LEMMA QueueTaken ==
  ASSUME Types, NEW r \in Runtime
  PROVE  /\ TakeJobs(r) \/ TakeEvents(r) \/ Passes(r) \/ DeliverJob(r) => Queue(r)' = Queue(r)
         /\ DeliverEvent(r) => /\ Queue(r) # <<>> /\ Head(Queue(r)) = Head(batch[r])
                               /\ Queue(r)' = Tail(Queue(r))
<1> USE DEF jobVars, channelVars, childVars, parentVars, loopVars, leaveVars
<1>0. /\ batch \in [Runtime -> Seq(Dones) \cup Seq(Events)]
      /\ resume \in [Runtime -> Resumes]
      /\ at[r] \in {"jobs", "forks"} => batch[r] = <<>>
      /\ at[r] = "dispatch" => batch[r] # <<>>
      /\ Front(r) \in Seq(Events) /\ events \in Seq(Events)
  BY QueueFacts DEF Types, LoopType
<1>a. \A q \in Seq(Events) : <<>> \o q = q /\ q \o <<>> = q
  BY TwoParts
<1>1. ASSUME TakeJobs(r) \/ Passes(r) \/ DeliverJob(r) PROVE Queue(r)' = Queue(r)
  <2>1. Front(r) = <<>> /\ events' = events
    BY <1>0, <1>1, PassesFacts DEF TakeJobs, DeliverJob, Front
  <2>2. resume'[r] # "tasks" \/ batch'[r] = <<>>
    BY <1>0, <1>1, PassesFacts DEF TakeJobs, Takes, DeliverJob, Delivered
  <2>3. Front(r)' = <<>>
    BY <2>2 DEF Front
  <2>4. Queue(r)' = <<>> \o events /\ Queue(r) = <<>> \o events
    BY <2>1, <2>3, Zenon DEF Queue
  <2> QED
    BY <2>4, Zenon
<1>2. ASSUME TakeEvents(r) PROVE Queue(r)' = Queue(r)
  <2>1. Front(r) = <<>> /\ events' = <<>> /\ resume'[r] = "tasks" /\ batch'[r] = events
    BY <1>0, <1>2 DEF TakeEvents, Takes, Front
  <2>2. Front(r)' = events
    BY <2>1 DEF Front
  <2>3. Queue(r)' = events \o <<>> /\ Queue(r) = <<>> \o events
    BY <2>1, <2>2, Zenon DEF Queue
  <2> QED
    BY <1>0, <1>a, <2>3, Zenon
<1>3. ASSUME DeliverEvent(r)
      PROVE  /\ Queue(r) # <<>> /\ Head(Queue(r)) = Head(batch[r])
             /\ Queue(r)' = Tail(Queue(r))
  <2>1. /\ Front(r) = batch[r] /\ batch[r] # <<>> /\ events' = events
        /\ resume'[r] = "tasks" /\ batch'[r] = Tail(batch[r])
    BY <1>0, <1>3 DEF DeliverEvent, Delivered, Front
  <2>2. PICK p \in Seq(Events) : p = batch[r] /\ p # <<>>
    BY <1>0, <2>1
  <2>3. Front(r)' = Tail(p)
    BY <2>1, <2>2 DEF Front
  <2>4. p \o events # <<>> /\ Head(p \o events) = Head(p) /\ Tail(p \o events) = Tail(p) \o events
    BY <1>0, <2>2, TwoParts
  <2> QED
    BY <2>1, <2>2, <2>3, <2>4 DEF Queue
<1> QED
  BY <1>1, <1>2, <1>3


\* Only the waiter of a fork, or fork itself, reports its exit, and only once.
LEMMA ReportStep ==
  ASSUME Types, [Next]_vars, NEW f \in Fork
  PROVE  \/ /\ Reported(f)' <=> Reported(f)
            /\ ~Join(f) /\ \A r \in Runtime : ~AcceptExited(r, f)
         \/ /\ ~Reported(f) /\ Reported(f)'
            /\ Join(f) \/ \E r \in Runtime : AcceptExited(r, f)
<1> USE DEF jobVars, channelVars, childVars, parentVars, loopVars, leaveVars
<1>0. waiter \in [Fork -> {"none", "accept", "wait", "pushed", "done", "unheard", "thrown"}]
  BY DEF Types, ForkType
<1>1. CASE Join(f) \/ \E r \in Runtime : AcceptExited(r, f)
  BY <1>0, <1>1 DEF Join, AcceptExited, Reported
<1>2. ASSUME ~Join(f), \A r \in Runtime : ~AcceptExited(r, f)
      PROVE  Reported(f)' <=> Reported(f)
  <2>1. CASE waiter' = waiter
    BY <2>1 DEF Reported
  <2>2. ASSUME NEW r \in Runtime, StartFork(r) PROVE Reported(f)' <=> Reported(f)
    <3>1. nextFork \in Fork /\ waiter[nextFork] = "none"
      <4>1. nextFork \in Fork /\ nextFork >= nextFork
        BY <2>2, ChildAssumption DEF StartFork, Types, ForkType, Fork
      <4> QED
        BY <4>1 DEF Types, ForkType
    <3> QED
      BY <1>0, <2>2, <3>1 DEF StartFork, Reported
  <2>3. ASSUME NEW r \in Runtime, NEW g \in Fork,
               Accept(r, g) \/ AcceptExited(r, g) \/ Throws(r, g)
        PROVE  Reported(f)' <=> Reported(f)
    BY <1>0, <1>2, <2>3 DEF Accept, AcceptExited, Throws, Reported
  <2>4. ASSUME NEW g \in Fork, Waiter(g) PROVE Reported(f)' <=> Reported(f)
    BY <1>0, <1>2, <2>4 DEF Waiter, Join, NotAlive, Reported
  <2>5. ASSUME waiter' # waiter PROVE Reported(f)' <=> Reported(f)
    <3>1. CASE UNCHANGED vars
      BY <2>5, <3>1 DEF vars
    <3>2. CASE (\E r \in Runtime : StartJob(r)) \/ (\E j \in Job : Host(j))
      BY <2>5, <3>2 DEF StartJob, Host, PushJob, CountDown
    <3>3. CASE \E r \in Runtime : DeliverJob(r) \/ DeliverEvent(r)
      BY <2>5, <3>3 DEF DeliverJob, DeliverEvent
    <3>4. CASE \E r \in Runtime : Return(r) \/ TakeJobs(r) \/ TakeEvents(r) \/ Passes(r)
      BY <2>5, <3>4, PassesFacts DEF Return, TakeJobs, TakeEvents
    <3>5. CASE \E r \in Runtime, g \in Fork :
                 NotYet(r, g) \/ Retry(r, g) \/ Send(r, g) \/ Disconnect(r, g)
      BY <2>5, <3>5 DEF NotYet, Retry, Send, Disconnect
    <3>6. CASE \E g \in Fork : Reader(g) \/ Forked(g)
      BY <2>5, <3>6
      DEF Reader, ReadFrame, ReadEnd, Forked, Connect, Listen, ChildSend, ChildDies, ChildReader,
          ChildReads, ChildReadsEnd, ChildLoop, ChildReturns, ChildHears, ChildWaits, ChildValve,
          ChildEnds, Exits
    <3> QED
      BY <2>2, <2>3, <2>4, <3>1, <3>2, <3>3, <3>4, <3>5, <3>6, StepCases
  <2> QED
    BY <2>1, <2>5
<1> QED
  BY <1>1, <1>2

\* A step that queues or delivers nothing of fork f leaves its stream alone.
LEMMA StreamOthers ==
  ASSUME OneRuntime, Types, [Next]_vars, NEW r \in Runtime, NEW f \in Fork,
         Emits(got[f], Queue(r), f, Read(f), Total(f)),
         ~ReadFrame(f), ~Join(f), ~AcceptExited(r, f), ~DeliverEvent(r)
  PROVE  Emits(got[f], Queue(r)', f, Read(f), Total(f)) /\ got' = got
<1> USE DEF jobVars, channelVars, childVars, parentVars, loopVars, leaveVars
<1>0. Queue(r) \in Seq(Events) /\ \A q \in Runtime : q = r
  BY QueueFacts DEF OneRuntime
<1>1. ASSUME Queue(r)' = Queue(r) PROVE Emits(got[f], Queue(r)', f, Read(f), Total(f))
  BY <1>1
<1>2. ASSUME NEW e \in Events, e.fork # f \/ e.kind = "disconnect", UNCHANGED <<resume, batch>>,
             events' = Append(events, e)
      PROVE  Emits(got[f], Queue(r)', f, Read(f), Total(f))
  <2>1. Queue(r)' = Append(Queue(r), e)
    BY <1>2, QueueFacts
  <2>2. Emits(got[f], Append(Queue(r), e), f, Read(f), Total(f))
    BY <1>0, <1>2, EmitsOthers
  <2> QED
    BY <2>1, <2>2
<1>3. ASSUME UNCHANGED <<resume, batch, events>>
      PROVE  Emits(got[f], Queue(r)', f, Read(f), Total(f))
  BY <1>1, <1>3, QueueFacts
<1>4. CASE UNCHANGED vars
  BY <1>3, <1>4 DEF vars
<1>5. CASE (\E q \in Runtime : StartJob(q)) \/ (\E j \in Job : Host(j))
  BY <1>3, <1>5 DEF StartJob, Host, PushJob, CountDown
<1>6. ASSUME NEW q \in Runtime, TakeJobs(q) \/ TakeEvents(q) \/ Passes(q) \/ DeliverJob(q)
      PROVE  Emits(got[f], Queue(r)', f, Read(f), Total(f)) /\ got' = got
  <2>1. got' = got
    BY <1>6, PassesFacts DEF TakeJobs, TakeEvents, DeliverJob
  <2>2. Queue(r)' = Queue(r)
    BY <1>0, <1>6, QueueTaken
  <2> QED
    BY <1>1, <2>1, <2>2
<1>7. CASE \E q \in Runtime : Return(q)
  BY <1>3, <1>7 DEF Return
<1>8. CASE \E q \in Runtime :
             \/ StartFork(q)
             \/ \E g \in Fork : \/ Accept(q, g) \/ NotYet(q, g) \/ Retry(q, g)
                                \/ Throws(q, g) \/ Send(q, g)
  BY <1>3, <1>8 DEF StartFork, Accept, NotYet, Retry, Throws, Send
<1>9. ASSUME NEW q \in Runtime, NEW g \in Fork, AcceptExited(q, g) \/ Disconnect(q, g)
      PROVE  Emits(got[f], Queue(r)', f, Read(f), Total(f)) /\ got' = got
  <2>1. PICK e \in {Event(g, "exit", 0), Event(g, "disconnect", 0)} :
          /\ UNCHANGED <<resume, batch, got>> /\ events' = Append(events, e)
          /\ g # f \/ e = Event(g, "disconnect", 0)
    BY <1>0, <1>9 DEF AcceptExited, PushExit, Disconnect
  <2>2. e \in Events /\ (e.fork # f \/ e.kind = "disconnect")
    BY <2>1, EventTypes
  <2> QED
    BY <1>2, <2>1, <2>2
<1>10. ASSUME NEW g \in Fork, ReadEnd(g) \/ Join(g)
       PROVE  Emits(got[f], Queue(r)', f, Read(f), Total(f)) /\ got' = got
  <2>1. PICK e \in {Event(g, "exit", 0), Event(g, "disconnect", 0)} :
          /\ UNCHANGED <<resume, batch, got>> /\ events' = Append(events, e)
          /\ g # f \/ e = Event(g, "disconnect", 0)
    BY <1>10 DEF ReadEnd, Join, PushExit
  <2>2. e \in Events /\ (e.fork # f \/ e.kind = "disconnect")
    BY <2>1, EventTypes
  <2> QED
    BY <1>2, <2>1, <2>2
<1>11. ASSUME NEW g \in Fork, ReadFrame(g)
       PROVE  Emits(got[f], Queue(r)', f, Read(f), Total(f)) /\ got' = got
  <2>1. PICK n \in 1..MaxFrames : n = Head(toParent[g])
    <3>1. toParent[g] \in Seq(1..MaxFrames) /\ toParent[g] # <<>>
      BY <1>11 DEF ReadFrame, Types, ChannelType
    <3> QED
      BY <3>1, HeadTailProperties
  <2>2. /\ UNCHANGED <<resume, batch, got>> /\ g # f
        /\ events' = Append(events, Event(g, "message", n))
    BY <1>11, <2>1 DEF ReadFrame
  <2>3. Event(g, "message", n) \in Events /\ Event(g, "message", n).fork # f
    BY <2>1, <2>2, EventTypes
  <2> QED
    BY <1>2, <2>2, <2>3
<1>12. CASE \E g \in Fork : NotAlive(g) \/ Forked(g)
  BY <1>3, <1>12
  DEF NotAlive, Forked, Connect, Listen, ChildSend, ChildDies, ChildReader,
      ChildReads, ChildReadsEnd, ChildLoop, ChildReturns, ChildHears, ChildWaits, ChildValve,
      ChildEnds, Exits
<1>13. ASSUME NEW q \in Runtime, DeliverEvent(q) PROVE FALSE
  BY <1>0, <1>13
<1> QED
  BY <1>4, <1>5, <1>6, <1>7, <1>8, <1>9, <1>10, <1>11, <1>12, <1>13, StepCases DEF Reader, Waiter

\* Every step keeps what a fork object has emitted and what is queued for it
\* together.
LEMMA StreamStep ==
  ASSUME OneRuntime, Types, WaitInv, FrameInv, StreamInv, [Next]_vars
  PROVE  StreamInv'
<1> USE DEF jobVars, channelVars, childVars, parentVars, loopVars, leaveVars
<1> SUFFICES ASSUME NEW r \in Runtime, NEW f \in Fork
             PROVE  Emits(got'[f], Queue(r)', f, Read(f)', Total(f)')
  BY DEF StreamInv
<1>0. /\ Emits(got[f], Queue(r), f, Read(f), Total(f)) /\ got \in [Fork -> Seq(Events)]
      /\ got[f] \in Seq(Events) /\ Queue(r) \in Seq(Events) /\ Read(f) \in 0..MaxFrames
      /\ \A q \in Runtime : q = r
  BY ReadBounds, QueueFacts DEF StreamInv, Types, HistoryType, OneRuntime
<1>1. CASE ReadFrame(f)
  <2>1. waiter[f] = "wait" /\ waiter' = waiter /\ UNCHANGED <<resume, batch, got>>
    BY <1>1 DEF ReadFrame, WaitInv
  <2>2. Total(f) = Read(f) /\ Total(f)' = Read(f)'
    BY <2>1 DEF Total, Reported
  <2>3. Head(toParent[f]) = Read(f) + 1 /\ Read(f) < MaxFrames /\ Read(f)' = Read(f) + 1
    BY <1>1, FrameStep
  <2>4. events' = Append(events, Event(f, "message", Read(f) + 1))
    BY <1>1, <2>3 DEF ReadFrame
  <2>5. Event(f, "message", Read(f) + 1) \in Events
    <3>1. Read(f) + 1 \in 1..MaxFrames
      BY <1>0, <2>3, CountsUp, ChildAssumption
    <3> QED
      BY <3>1, EventTypes
  <2>6. Queue(r)' = Append(Queue(r), Event(f, "message", Read(f) + 1))
    BY <2>1, <2>4, <2>5, QueueFacts
  <2>7. Emits(got[f], Append(Queue(r), Event(f, "message", Read(f) + 1)), f, Read(f) + 1,
              Read(f) + 1)
    <3>1. Emits(got[f], Queue(r), f, Read(f), Read(f))
      BY <1>0, <2>2
    <3> QED
      BY <1>0, <2>3, <3>1, EmitsNext
  <2> QED
    BY <2>1, <2>2, <2>3, <2>6, <2>7
<1>a. ASSUME ~ReadFrame(f) PROVE Read(f)' = Read(f)
  BY <1>a, FrameStep
<1>2. CASE Join(f) \/ AcceptExited(r, f)
  <2>1. /\ UNCHANGED <<resume, batch, got, sent, toParent>>
        /\ events' = Append(events, Event(f, "exit", 0))
    BY <1>2 DEF Join, AcceptExited, PushExit
  <2>2. Read(f)' = Read(f)
    BY <2>1 DEF Read
  <2>3. Total(f) = Read(f) /\ Total(f)' = Read(f) + 1
    BY <1>2, <2>2, ReportStep DEF Total
  <2>4. Queue(r)' = Append(Queue(r), Event(f, "exit", 0))
    BY <2>1, QueueFacts, EventTypes
  <2>5. Emits(got[f], Append(Queue(r), Event(f, "exit", 0)), f, Read(f), Read(f) + 1)
    <3>1. Emits(got[f], Queue(r), f, Read(f), Read(f))
      BY <1>0, <2>3
    <3> QED
      BY <1>0, <3>1, EmitsNext
  <2> QED
    BY <2>1, <2>2, <2>3, <2>4, <2>5
<1>b. ASSUME ~Join(f), ~AcceptExited(r, f), ~ReadFrame(f)
      PROVE  Read(f)' = Read(f) /\ Total(f)' = Total(f)
  <2>1. Reported(f)' <=> Reported(f)
    BY <1>0, <1>b, ReportStep
  <2> QED
    BY <1>a, <1>b, <2>1 DEF Total
<1>3. CASE DeliverEvent(r)
  <2>1. /\ Queue(r) # <<>> /\ Head(Queue(r)) = Head(batch[r])
        /\ Queue(r)' = Tail(Queue(r))
    BY <1>3, QueueTaken
  <2>2. PICK e \in Events : e = Head(Queue(r))
    BY <1>0, <2>1, HeadTailProperties
  <2>3. e.fork \in Fork /\ owner[e.fork] = r
    BY <1>0, EventTypes DEF Types, ForkType
  <2>4. /\ UNCHANGED <<events, waiter, sent, toParent>>
        /\ got' = IF e.kind # "disconnect" THEN [got EXCEPT ![e.fork] = Append(@, e)] ELSE got
    BY <1>3, <2>1, <2>2, <2>3 DEF DeliverEvent
  <2>5. Read(f)' = Read(f) /\ Total(f)' = Total(f)
    BY <2>4 DEF Read, Total, Reported
  <2>6. CASE e.fork = f /\ e.kind # "disconnect"
    <3>1. got'[f] = Append(got[f], e)
      BY <1>0, <2>4, <2>6
    <3>2. Total(f) \in {Read(f), Read(f) + 1}
      BY DEF Total
    <3>3. Emits(Append(got[f], Head(Queue(r))), Tail(Queue(r)), f, Read(f), Total(f))
      BY <1>0, <2>1, <2>2, <2>6, <3>2, EmitsDelivery
    <3> QED
      BY <2>1, <2>2, <2>5, <3>1, <3>3
  <2>7. CASE e.fork # f \/ e.kind = "disconnect"
    <3>1. got'[f] = got[f]
      BY <1>0, <2>3, <2>4, <2>7
    <3>2. Emits(got[f], Tail(Queue(r)), f, Read(f), Total(f))
      BY <1>0, <2>1, <2>2, <2>7, EmitsOthers
    <3> QED
      BY <2>1, <2>5, <3>1, <3>2
  <2> QED
    BY <2>6, <2>7
<1>4. CASE ~ReadFrame(f) /\ ~Join(f) /\ ~AcceptExited(r, f) /\ ~DeliverEvent(r)
  <2>1. Emits(got[f], Queue(r)', f, Read(f), Total(f)) /\ got' = got
    BY <1>0, <1>4, StreamOthers
  <2>2. Read(f)' = Read(f) /\ Total(f)' = Total(f)
    BY <1>4, <1>b
  <2> QED
    BY <2>1, <2>2
<1> QED
  BY <1>1, <1>2, <1>3, <1>4


-----------------------------------------------------------------------------
(* What is so of a runtime that has left its loop *)

\* Every callback it still has is of a late job, and the objects of all forks but
\* the late ones, and the ones fork threw for, have emitted their exit.
LeftInv ==
  \A r \in left :
    /\ callbacks[r] \subseteq lateJobs
    /\ \A f \in Fork \ lateForks : waiter[f] \notin {"none", "thrown"} => Ended(f)

\* Who has emitted everything queued for it has emitted the exit.
LEMMA DrainedEnded ==
  ASSUME Types, FrameInv, StreamInv, NEW r \in Runtime, NEW f \in Fork, Queue(r) = <<>>,
         Reported(f)
  PROVE  Ended(f)
<1>1. /\ Emits(got[f], <<>>, f, Read(f), Read(f) + 1)
      /\ got[f] \in Seq(Events) /\ Len(got[f]) \in Nat /\ Read(f) \in 0..MaxFrames
  BY ReadBounds DEF StreamInv, Total, Types, HistoryType
<1>2. PICK k \in 0..MaxFrames : k = Read(f)
  BY <1>1
<1>3. k \in Nat /\ k + 1 \in Nat \ {0} /\ k + 1 > k
  BY ChildAssumption
<1>4. Kept(<<>>, f) = {}
  BY DEF Kept
<1>5. Len(got[f]) = k + 1
  <2>1. k + 1 \notin (Len(got[f]) + 1)..(k + 1) /\ Len(got[f]) <= k + 1
    BY <1>1, <1>2, <1>4 DEF Emits
  <2> QED
    BY <1>1, <1>3, <2>1
<1>6. k + 1 \in 1..Len(got[f]) /\ DOMAIN got[f] = 1..Len(got[f])
  BY <1>1, <1>3, <1>5
<1>7. got[f][k + 1] = Item(f, k, k + 1)
  BY <1>1, <1>2, <1>6 DEF Emits
<1>8. got[f][k + 1].kind = "exit"
  BY <1>3, <1>7, ItemFacts, EventTypes
<1> QED
  BY <1>6, <1>8 DEF Ended

\* A runtime that leaves has no callback left, and all objects have emitted their
\* exit.
LEMMA LeavesNothing ==
  ASSUME Types, FrameInv, JobInv, CheckInv, StreamInv, NEW r \in Runtime, at[r] = "leave"
  PROVE  /\ callbacks[r] = {}
         /\ \A f \in Fork : waiter[f] \notin {"none", "thrown"} => Ended(f)
<1>1. Working = {} /\ Living = {} /\ events = <<>> /\ completed = <<>>
  BY DEF CheckInv
<1>2. batch[r] = <<>> /\ callbacks[r] \subseteq Job
  BY DEF Types, LoopType, JobType
<1>3. callbacks[r] = {}
  <2> SUFFICES ASSUME NEW j \in callbacks[r] PROVE FALSE
    OBVIOUS
  <2>1. thread[j] # "work"
    BY <1>1, <1>2 DEF Working
  <2>2. ~Has(<<>>, j)
    BY DEF Has
  <2> QED
    BY <1>1, <1>2, <2>1, <2>2 DEF JobInv
<1>4. Queue(r) = <<>>
  <2>1. Front(r) = <<>>
    BY <1>2 DEF Front
  <2>2. <<>> \in Seq(Events) /\ <<>> \o <<>> = <<>>
    BY TwoParts
  <2> QED
    BY <1>1, <2>1, <2>2, Zenon DEF Queue
<1>5. ASSUME NEW f \in Fork, waiter[f] \notin {"none", "thrown"} PROVE Ended(f)
  <2>1. waiter[f] \notin {"accept", "wait", "pushed"}
    BY <1>1 DEF Living
  <2>2. Reported(f)
    BY <1>5, <2>1 DEF Reported, Types, ForkType
  <2> QED
    BY <1>4, <2>2, DrainedEnded
<1> QED
  BY <1>3, <1>5

\* What was emitted stays emitted.
LEMMA EndedKept ==
  ASSUME Types, [Next]_vars, NEW f \in Fork, Ended(f)
  PROVE  Ended(f)'
<1>1. CASE got' = got
  BY <1>1 DEF Ended
<1>2. ASSUME NEW r \in Runtime, DeliverEvent(r) PROVE Ended(f)'
  <2>1. PICK q \in Seq(Events) : q = got[f] /\ got \in [Fork -> Seq(Events)]
    BY DEF Types, HistoryType
  <2>2. got'[f] = q \/ \E e : got'[f] = Append(q, e)
    BY <1>2, <2>1 DEF DeliverEvent
  <2>3. ASSUME NEW e PROVE \A n \in DOMAIN q : n \in DOMAIN Append(q, e) /\ Append(q, e)[n] = q[n]
    BY <2>1
  <2>4. PICK n \in DOMAIN q : q[n].kind = "exit"
    BY <2>1 DEF Ended
  <2>5. n \in DOMAIN got'[f] /\ got'[f][n] = q[n]
    BY <2>2, <2>3, <2>4
  <2> QED
    BY <2>4, <2>5 DEF Ended
<1> QED
  BY <1>1, <1>2, Changes

\* A fork that does not live stays so unless it is made.
LEMMA WaiterKept ==
  ASSUME Types, [Next]_vars, NEW f \in Fork, waiter[f] \in {"none", "thrown"},
         waiter'[f] # waiter[f]
  PROVE  f = nextFork /\ \E r \in Runtime : StartFork(r)
<1>0. waiter \in [Fork -> {"none", "accept", "wait", "pushed", "done", "unheard", "thrown"}]
  BY DEF Types, ForkType
<1>1. ASSUME NEW r \in Runtime, NEW g \in Fork,
             Accept(r, g) \/ AcceptExited(r, g) \/ Throws(r, g)
      PROVE  FALSE
  <2>1. \E v : waiter[g] = "accept" /\ waiter' = [waiter EXCEPT ![g] = v]
    BY <1>1 DEF Accept, AcceptExited, Throws
  <2> QED
    BY <1>0, <2>1
<1>2. ASSUME NEW g \in Fork, Waiter(g) PROVE FALSE
  <2>1. \E v : waiter[g] \in {"wait", "pushed"} /\ waiter' = [waiter EXCEPT ![g] = v]
    BY <1>2 DEF Waiter, Join, NotAlive
  <2> QED
    BY <1>0, <2>1
<1>3. ASSUME NEW r \in Runtime, StartFork(r) PROVE f = nextFork
  BY <1>0, <1>3 DEF StartFork
<1> QED
  BY <1>1, <1>2, <1>3, Changes

\* Only late jobs and children are added to what a runtime that has left knows.
LEMMA LeftStep ==
  ASSUME OneRuntime, Types, LeaveType, FrameInv, JobInv, CheckInv, StreamInv, LeftInv, [Next]_vars
  PROVE  LeftInv'
<1> USE DEF jobVars, channelVars, childVars, parentVars
<1>0. callbacks \in [Runtime -> SUBSET Job]
  BY DEF Types, JobType
<1>1. ASSUME NEW r \in Runtime, Leave(r) PROVE LeftInv'
  <2>1. UNCHANGED <<callbacks, waiter, got>> /\ at[r] = "leave"
    BY <1>1 DEF Leave
  <2>2. /\ callbacks'[r] = {}
        /\ \A f \in Fork : waiter'[f] \notin {"none", "thrown"} => Ended(f)'
    BY <2>1, LeavesNothing DEF Ended
  <2>3. \A q \in left' : q = r
    BY <1>1 DEF Leave, LeaveType, OneRuntime
  <2> QED
    BY <2>2, <2>3 DEF LeftInv
<1>2. ASSUME \A r \in Runtime : ~Leave(r) PROVE LeftInv'
  <2>1. left' = left
    BY <1>2, Changes DEF leaveVars, StartJob, StartFork
  <2> SUFFICES ASSUME NEW r \in left
               PROVE  /\ callbacks'[r] \subseteq lateJobs'
                      /\ \A f \in Fork \ lateForks' :
                           waiter'[f] \notin {"none", "thrown"} => Ended(f)'
    BY <2>1 DEF LeftInv
  <2>2. r \in Runtime /\ \A q \in Runtime : q = r
    BY DEF LeaveType, OneRuntime
  <2>3. lateJobs \subseteq lateJobs' /\ lateForks \subseteq lateForks'
    BY LeaveStep
  <2>4. callbacks'[r] \subseteq lateJobs'
    <3>1. CASE callbacks' = callbacks
      BY <2>3, <3>1 DEF LeftInv
    <3>2. CASE StartJob(r)
      BY <1>0, <2>2, <3>2 DEF LeftInv, StartJob
    <3>3. CASE DeliverJob(r)
      <4>1. callbacks'[r] \subseteq callbacks[r]
        BY <1>0, <2>2, <3>3 DEF DeliverJob
      <4> QED
        BY <2>3, <4>1 DEF LeftInv
    <3> QED
      BY <2>2, <3>1, <3>2, <3>3, Changes
  <2>5. ASSUME NEW f \in Fork \ lateForks', waiter'[f] \notin {"none", "thrown"}
        PROVE  Ended(f)'
    <3>1. waiter[f] \notin {"none", "thrown"}
      <4> SUFFICES ASSUME waiter[f] \in {"none", "thrown"} PROVE FALSE
        OBVIOUS
      <4>1. f = nextFork /\ StartFork(r)
        BY <2>2, <2>5, WaiterKept
      <4> QED
        BY <2>5, <4>1 DEF StartFork
    <3>2. Ended(f)
      BY <2>3, <2>5, <3>1 DEF LeftInv
    <3> QED
      BY <3>2, EndedKept
  <2> QED
    BY <2>4, <2>5
<1> QED
  BY <1>1, <1>2

-----------------------------------------------------------------------------
(* The theorems about a process with one runtime *)

ChildInv ==
  Types /\ LeaveType /\ WaitInv /\ FrameInv /\ JobInv /\ CheckInv /\ StreamInv /\ LeftInv

\* At first nothing was started, read or queued.
LEMMA ChildInit == Init => ChildInv
<1> SUFFICES ASSUME Init PROVE ChildInv
  OBVIOUS
<1>1. Types /\ LeaveType /\ LeftInv
  BY TypeInit DEF Init, LeaveType, LeftInv
<1>2. WaitInv
  BY DEF Init, WaitInv
<1>3. ASSUME NEW f \in Fork PROVE toParent[f] = <<>> /\ Len(toParent[f]) = 0 /\ sent[f].child = 0
  BY DEF Init
<1>4. FrameInv
  BY <1>3 DEF FrameInv
<1>5. JobInv /\ CheckInv
  BY DEF Init, JobInv, CheckInv
<1>6. ASSUME NEW r \in Runtime, NEW f \in Fork
      PROVE  Emits(got[f], Queue(r), f, Read(f), Total(f))
  <2>1. Read(f) = 0 /\ Total(f) = 0
    BY <1>3 DEF Init, Read, Total, Reported
  <2>2. Front(r) = <<>> /\ events = <<>> /\ got[f] = <<>>
    BY DEF Init, Front
  <2>3. <<>> \in Seq(Events) /\ <<>> \o <<>> = <<>>
    BY TwoParts
  <2>4. Queue(r) = <<>>
    BY <2>2, <2>3, Zenon DEF Queue
  <2>5. Kept(<<>>, f) = {} /\ Len(<<>>) = 0
    BY DEF Kept
  <2>6. Emits(<<>>, <<>>, f, 0, 0)
    BY <2>5 DEF Emits
  <2> QED
    BY <2>1, <2>2, <2>4, <2>6
<1> QED
  BY <1>1, <1>2, <1>4, <1>5, <1>6 DEF ChildInv, StreamInv

\* In a process with one runtime the invariant always holds.
LEMMA ChildInvariant ==
  ASSUME OneRuntime
  PROVE  Spec => []ChildInv
<1>1. ChildInv /\ [Next]_vars => ChildInv'
  BY TypeStep, LeaveStep, WaitStep, FrameStep, JobStep, CheckStep, StreamStep, LeftStep DEF ChildInv
<1> QED
  BY <1>1, ChildInit, PTL DEF Spec

\* A runtime that is alone in its process leaves its loop only when every exec,
\* execFile and spawn has called back and every fork object has emitted its exit:
\* each host thread queues its result before it counts down, and
\* has_pending_child_process_work reads the counters before the queues. From then on
\* the only callbacks and live forks it has are of jobs and children started by user
\* code that runs after the loop: the final cleanup, the wait for a promise and the
\* keep-alive loop. Another runtime of the process would take and drop what belongs
\* to this one.
THEOREM NobodyLeftBehind ==
  ASSUME OneRuntime
  PROVE  Spec => []NoneLeftBehind
<1>1. ChildInv => NoneLeftBehind
  BY DEF ChildInv, LeftInv, NoneLeftBehind
<1> QED
  BY <1>1, ChildInvariant, PTL

\* In a process with one runtime 'exit' is emitted once and last. Unless the parent
\* cut the channel, or fork found the child gone before it accepted its connection,
\* all that the child sent comes before it, in order: run_parent_ipc waits for its
\* reader, which reads to the end of the stream, before it queues the exit.
THEOREM ExitComesLast ==
  ASSUME OneRuntime
  PROVE  Spec => []ExitAfterMessages
<1>1. ChildInv => ExitAfterMessages
  <2> SUFFICES ASSUME ChildInv, NEW f \in Fork, Ended(f)
               PROVE  /\ \A n \in DOMAIN got[f] : got[f][n].kind = "exit" <=> n = Len(got[f])
                      /\ f \notin shut /\ waiter[f] # "unheard" =>
                           got[f] = Append([n \in 1..sent[f].child |-> Event(f, "message", n)],
                                           Event(f, "exit", 0))
    BY DEF ExitAfterMessages
  <2>1. PICK g \in Seq(Events) : g = got[f]
    BY DEF ChildInv, Types, HistoryType
  <2>2. PICK k \in 0..MaxFrames : k = Read(f)
    BY ReadBounds DEF ChildInv
  <2>3. PICK r \in Runtime : TRUE
    BY ChildAssumption
  <2>4. Emits(g, Queue(r), f, k, Total(f))
    BY <2>1, <2>2 DEF ChildInv, StreamInv
  <2>5. /\ k \in Nat /\ Len(g) \in Nat /\ DOMAIN g = 1..Len(g) /\ Total(f) \in {k, k + 1}
        /\ Total(f) = k + 1 => Reported(f)
    BY <2>2, ChildAssumption DEF Total
  <2>6. \A n \in 1..Len(g) : n \in Nat \ {0} /\ g[n] = Item(f, k, n) /\ n <= k + 1
    BY <2>4, <2>5 DEF Emits
  <2>7. \A n \in 1..Len(g) : /\ n <= k => g[n] = Event(f, "message", n)
                             /\ n > k => g[n] = Event(f, "exit", 0)
    BY <2>6, ItemFacts
  <2>8. \A n \in 1..Len(g) : g[n].kind = "exit" <=> n > k
    BY <2>5, <2>6, <2>7, EventTypes
  <2>9. Len(g) = k + 1 /\ Reported(f)
    <3>1. PICK n \in 1..Len(g) : n > k
      BY <2>1, <2>5, <2>8 DEF Ended
    <3>2. Len(g) <= Total(f)
      BY <2>4 DEF Emits
    <3>3. n <= Len(g) /\ k + 1 <= Len(g)
      BY <2>5, <3>1
    <3>4. Total(f) # k
      BY <2>5, <3>2, <3>3
    <3>5. Total(f) = k + 1
      BY <2>5, <3>4
    <3>6. Len(g) <= k + 1
      BY <3>2, <3>5
    <3>a. PICK l \in Nat : l = Len(g) /\ k \in Nat
      BY <2>5
    <3>b. k + 1 <= l /\ l <= k + 1
      BY <3>3, <3>6, <3>a
    <3>c. l = k + 1
      BY <3>a, <3>b
    <3>7. Len(g) = k + 1
      BY <3>a, <3>c
    <3>8. Reported(f)
      BY <2>5, <3>5, Zenon
    <3> QED
      BY <3>7, <3>8
  <2>10. \A n \in DOMAIN g : g[n].kind = "exit" <=> n = Len(g)
    BY <2>5, <2>8, <2>9
  <2>11. ASSUME f \notin shut, waiter[f] # "unheard"
         PROVE  g = Append([n \in 1..sent[f].child |-> Event(f, "message", n)],
                           Event(f, "exit", 0))
    <3>1. waiter[f] \in {"pushed", "done"}
      BY <2>9, <2>11 DEF Reported
    <3>2. toParent[f] = <<>>
      BY <2>11, <3>1 DEF ChildInv, WaitInv
    <3>3. sent[f].child = k
      BY <2>2, <3>2, ReadBounds DEF ChildInv
    <3> DEFINE m == [n \in 1..k |-> Event(f, "message", n)]
               a == Append(m, Event(f, "exit", 0))
    <3>4. m \in Seq(Events) /\ Len(m) = k /\ \A n \in 1..k : m[n] = Event(f, "message", n)
      <4>1. \A n \in 1..k : Event(f, "message", n) \in Events
        BY <2>5, EventTypes, ChildAssumption
      <4> QED
        BY <2>5, <4>1
    <3> HIDE DEF m
    <3>5. /\ a \in Seq(Events) /\ Len(a) = k + 1 /\ a[k + 1] = Event(f, "exit", 0)
          /\ \A n \in 1..k : a[n] = Event(f, "message", n)
      BY <2>5, <3>4, EventTypes
    <3> HIDE DEF a
    <3>6. ASSUME NEW n \in 1..Len(g) PROVE g[n] = a[n]
      <4>1. (n \in 1..k /\ n <= k) \/ (n = k + 1 /\ n > k)
        BY <2>5, <2>9
      <4> QED
        BY <2>7, <3>5, <4>1
    <3>7. g = a
      BY <2>9, <3>5, <3>6, SeqEqual
    <3> QED
      BY <3>3, <3>7 DEF a, m
  <2> QED
    BY <2>1, <2>10, <2>11
<1> QED
  BY <1>1, ChildInvariant, PTL
=============================================================================
