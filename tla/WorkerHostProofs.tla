-------------------------- MODULE WorkerHostProofs --------------------------
(***************************************************************************)
(* What the worker host keeps to for any number of workers, messages and   *)
(* turns: a runtime alone in its process loses no worker and implements    *)
(* WorkerStream. With two runtimes each takes what belongs to the other,   *)
(* so those theorems have one runtime as their hypothesis.                 *)
(***************************************************************************)
EXTENDS WorkerHost, SequenceTheorems, WellFoundedInduction, TLAPS

-----------------------------------------------------------------------------
(* The events of one worker in a sequence of events. Only filters the events *)
(* one by one, so what it is for every sequence is shown by its least        *)
(* counterexample.                                                           *)

\* A set of numbers has a least one.
LEMMA LeastNumber ==
  ASSUME NEW T \in SUBSET Nat, T # {}
  PROVE  \E x \in T : \A y \in T : x <= y
<1>1. \A x, y \in Nat : y < x => <<y, x>> \in OpToRel(<, Nat)
  BY DEF OpToRel
<1>2. \E R : IsWellFoundedOn(R, Nat) /\ \A x, y \in Nat : y < x => <<y, x>> \in R
  BY <1>1, NatLessThanWellFounded, Zenon
<1>3. PICK R : IsWellFoundedOn(R, Nat) /\ \A x, y \in Nat : y < x => <<y, x>> \in R
  BY <1>2
<1>4. PICK x \in T : \A y \in T : ~(<<y, x>> \in R)
  BY <1>3, WFMin
<1>5. \A y \in T : ~(y < x)
  BY <1>3, <1>4, Zenon
<1>6. \A y \in T : x <= y
  BY <1>5
<1> QED
  BY <1>6

\* What event e adds to the events q of worker w
With(q, e, w) == IF e.worker = w THEN Append(q, e) ELSE q

\* f[m] holds the events of w among the first m.
Filters(f, s, w, n) == f[0] = <<>> /\ \A m \in 1..n : f[m] = With(f[m - 1], s[m], w)

\* Two such filters of the same events agree.
LEMMA FiltersAgree ==
  ASSUME NEW s, NEW t, NEW w, NEW f, NEW g, NEW n \in Nat, Filters(f, s, w, n),
         Filters(g, t, w, n), \A m \in 1..n : s[m] = t[m]
  PROVE  \A m \in 0..n : f[m] = g[m]
<1> SUFFICES ASSUME ~(\A m \in 0..n : f[m] = g[m])
             PROVE  FALSE
  OBVIOUS
<1> DEFINE T == {m \in 0..n : f[m] # g[m]}
<1>1. T # {} /\ T \in SUBSET Nat
  OBVIOUS
<1>2. PICK x \in T : \A y \in T : x <= y
  BY <1>1, LeastNumber
<1>3. x \in 0..n /\ x # 0
  BY <1>2 DEF Filters
<1>4. x - 1 \in 0..n /\ x \in 1..n /\ ~(x <= x - 1)
  BY <1>3
<1>5. f[x - 1] = g[x - 1]
  BY <1>2, <1>4
<1>6. f[x] = With(f[x - 1], s[x], w) /\ g[x] = With(g[x - 1], t[x], w)
  BY <1>4 DEF Filters
<1> QED
  BY <1>2, <1>4, <1>5, <1>6

\* There is such a filter.
LEMMA FilterExists ==
  ASSUME NEW S, NEW s \in Seq(S), NEW w
  PROVE  \E f \in [0..Len(s) -> Seq(S)] : Filters(f, s, w, Len(s))
<1> DEFINE P(n) == \E f \in [0..n -> Seq(S)] : Filters(f, s, w, n)
           T == {n \in 0..Len(s) : ~P(n)}
<1>a. Len(s) \in Nat
  OBVIOUS
<1> SUFFICES ASSUME T # {}
             PROVE  FALSE
  BY <1>a
<1>b. T \in SUBSET Nat
  BY <1>a
<1> HIDE DEF P
<1>1. PICK x \in T : \A y \in T : x <= y
  BY <1>b, LeastNumber
<1>2. P(0)
  <2>1. /\ [n \in 0..0 |-> <<>>] \in [0..0 -> Seq(S)]
        /\ Filters([n \in 0..0 |-> <<>>], s, w, 0)
    BY DEF Filters
  <2> QED
    BY <2>1 DEF P
<1>3. x \in 1..Len(s) /\ x - 1 \in 0..Len(s) /\ ~(x <= x - 1)
  BY <1>1, <1>2, <1>a
<1>4. PICK f \in [0..(x - 1) -> Seq(S)] : Filters(f, s, w, x - 1)
  BY <1>1, <1>3 DEF P
<1>5. s[x] \in S
  BY <1>3
<1> DEFINE g == [n \in 0..x |-> IF n = x THEN With(f[x - 1], s[x], w) ELSE f[n]]
<1>6. f[x - 1] \in Seq(S) /\ \A n \in 0..x : n = x \/ (n \in 0..(x - 1) /\ f[n] \in Seq(S))
  BY <1>3, <1>4
<1>c. With(f[x - 1], s[x], w) \in Seq(S)
  BY <1>5, <1>6 DEF With
<1>7. g \in [0..x -> Seq(S)]
  BY <1>c, <1>6
<1>8. g[x] = With(f[x - 1], s[x], w) /\ \A n \in 0..(x - 1) : g[n] = f[n]
  BY <1>3
<1> HIDE DEF g
<1>9. Filters(g, s, w, x)
  <2>1. g[0] = <<>>
    BY <1>3, <1>4, <1>8, SMTT(30) DEF Filters
  <2>2. ASSUME NEW m \in 1..x
        PROVE  g[m] = With(g[m - 1], s[m], w)
    <3>1. m - 1 \in 0..(x - 1) /\ g[m - 1] = f[m - 1]
      BY <1>3, <1>8
    <3>2. CASE m = x
      BY <1>8, <3>1, <3>2
    <3>3. CASE m # x
      <4>1. m \in 1..(x - 1) /\ m \in 0..(x - 1)
        BY <1>3, <3>3
      <4>2. g[m] = f[m]
        BY <1>8, <4>1
      <4>3. f[m] = With(f[m - 1], s[m], w)
        BY <1>4, <4>1 DEF Filters
      <4> QED
        BY <3>1, <4>2, <4>3
    <3> QED
      BY <3>2, <3>3
  <2> QED
    BY <2>1, <2>2 DEF Filters
<1> QED
  BY <1>1, <1>7, <1>9 DEF P

\* Only is its last value.
LEMMA OnlyIsFilter ==
  ASSUME NEW S, NEW s \in Seq(S), NEW w
  PROVE  \E f \in [0..Len(s) -> Seq(S)] : Filters(f, s, w, Len(s)) /\ Only(s, w) = f[Len(s)]
<1> DEFINE Def(f) == [n \in 0..Len(s) |->
             IF n = 0 THEN <<>>
             ELSE IF s[n].worker = w THEN Append(f[n - 1], s[n]) ELSE f[n - 1]]
           only == CHOOSE f : f = Def(f)
<1>a. Len(s) \in Nat
  OBVIOUS
<1>1. PICK f \in [0..Len(s) -> Seq(S)] : Filters(f, s, w, Len(s))
  BY FilterExists
<1>2. f = Def(f)
  <2>1. ASSUME NEW n \in 0..Len(s)
        PROVE  f[n] = Def(f)[n]
    <3>1. CASE n = 0
      BY <1>1, <3>1 DEF Filters
    <3>2. CASE n # 0
      <4>1. n \in 1..Len(s)
        BY <3>2, <1>a
      <4>2. f[n] = With(f[n - 1], s[n], w)
        BY <1>1, <4>1 DEF Filters
      <4> QED
        BY <3>2, <4>2 DEF With
    <3> QED
      BY <3>1, <3>2
  <2> QED
    BY <1>1, <2>1
<1>3. only = Def(only)
  BY <1>2
<1>4. Filters(only, s, w, Len(s))
  <2> HIDE DEF only
  <2>1. 0 \in 0..Len(s) /\ \A m \in 1..Len(s) : m \in 0..Len(s) /\ m # 0
    BY <1>a
  <2>2. only[0] = <<>>
    BY <1>3, <2>1
  <2>3. \A m \in 1..Len(s) : only[m] = With(only[m - 1], s[m], w)
    BY <1>3, <2>1 DEF With
  <2> QED
    BY <2>2, <2>3 DEF Filters
<1>5. Only(s, w) = only[Len(s)]
  BY DEF Only
<1> HIDE DEF only
<1>6. only[Len(s)] = f[Len(s)]
  <2>1. \A m \in 0..Len(s) : only[m] = f[m]
    BY <1>1, <1>4, <1>a, FiltersAgree
  <2> QED
    BY <2>1, <1>a
<1> QED
  BY <1>1, <1>5, <1>6

\* No events, no events of w.
LEMMA OnlyEmpty == \A w : Only(<<>>, w) = <<>>
<1> TAKE w
<1>1. <<>> \in Seq({}) /\ Len(<<>>) = 0
  OBVIOUS
<1>2. PICK f \in [0..Len(<<>>) -> Seq({})] :
        Filters(f, <<>>, w, Len(<<>>)) /\ Only(<<>>, w) = f[Len(<<>>)]
  BY <1>1, OnlyIsFilter
<1> QED
  BY <1>1, <1>2 DEF Filters

\* One more event at the end.
LEMMA OnlyAppend ==
  ASSUME NEW S, NEW s \in Seq(S), NEW e \in S, NEW w
  PROVE  Only(Append(s, e), w) = With(Only(s, w), e, w)
<1> DEFINE t == Append(s, e)
<1>a. /\ Len(s) \in Nat /\ t \in Seq(S) /\ Len(t) = Len(s) + 1
      /\ t[Len(s) + 1] = e /\ \A m \in 1..Len(s) : t[m] = s[m]
  OBVIOUS
<1> HIDE DEF t
<1>1. PICK f \in [0..Len(s) -> Seq(S)] : Filters(f, s, w, Len(s)) /\ Only(s, w) = f[Len(s)]
  BY OnlyIsFilter
<1>2. PICK g \in [0..Len(t) -> Seq(S)] : Filters(g, t, w, Len(t)) /\ Only(t, w) = g[Len(t)]
  BY <1>a, OnlyIsFilter
<1>3. Filters(g, t, w, Len(s))
  BY <1>2, <1>a DEF Filters
<1>4. f[Len(s)] = g[Len(s)]
  <2>1. Len(s) \in Nat /\ \A m \in 1..Len(s) : s[m] = t[m]
    BY <1>a
  <2>2. \A m \in 0..Len(s) : f[m] = g[m]
    BY <1>1, <1>3, <2>1, FiltersAgree, SMTT(30)
  <2> QED
    BY <2>2, <1>a
<1>5. Len(s) + 1 \in 1..Len(t) /\ (Len(s) + 1) - 1 = Len(s)
  BY <1>a
<1>6. g[Len(s) + 1] = With(g[Len(s)], e, w)
  BY <1>2, <1>5, <1>a DEF Filters
<1> QED
  BY <1>1, <1>2, <1>4, <1>6, <1>a DEF t

\* Appending changes neither the head nor what is in front.
LEMMA AppendBehind ==
  ASSUME NEW S, NEW q \in Seq(S), q # <<>>, NEW e \in S
  PROVE  Append(q, e) # <<>> /\ Head(Append(q, e)) = Head(q)
         /\ Tail(Append(q, e)) = Append(Tail(q), e)
  BY SMTT(30)

\* One event less at the head.
LEMMA OnlyTail ==
  ASSUME NEW S, NEW s \in Seq(S), s # <<>>, NEW w
  PROVE  /\ Head(s).worker # w => Only(Tail(s), w) = Only(s, w)
         /\ Head(s).worker = w => /\ Only(s, w) # <<>> /\ Head(Only(s, w)) = Head(s)
                                  /\ Tail(Only(s, w)) = Only(Tail(s), w)
<1> DEFINE t == Tail(s)
           n == Len(s) - 1
<1>a. /\ Len(s) \in Nat \ {0} /\ n \in Nat /\ t \in Seq(S) /\ Len(t) = n
      /\ Head(s) = s[1] /\ s[1] \in S /\ \A m \in 1..n : t[m] = s[m + 1] /\ t[m] \in S
  OBVIOUS
<1>b. Len(s) = n + 1
  BY <1>a
<1>d. t \in Seq(S)
  BY <1>a
<1> HIDE DEF t, n
<1>1. PICK f \in [0..Len(s) -> Seq(S)] : Filters(f, s, w, Len(s)) /\ Only(s, w) = f[Len(s)]
  BY OnlyIsFilter
<1>c. PICK h \in [0..Len(t) -> Seq(S)] : Filters(h, t, w, Len(t)) /\ Only(t, w) = h[Len(t)]
  BY <1>d, OnlyIsFilter
<1>2. PICK g \in [0..n -> Seq(S)] : Filters(g, t, w, n) /\ Only(t, w) = g[n]
  BY <1>a, <1>c
<1>3. f[0] = <<>> /\ g[0] = <<>> /\ f[1] = With(<<>>, s[1], w)
  BY <1>1, <1>2, <1>a DEF Filters
<1>4. ASSUME NEW m \in 1..n
      PROVE  /\ f[m + 1] = With(f[m], t[m], w) /\ g[m] = With(g[m - 1], t[m], w)
             /\ f[m] \in Seq(S) /\ g[m - 1] \in Seq(S)
  <2>1. m + 1 \in 1..Len(s) /\ (m + 1) - 1 = m /\ m \in 0..Len(s) /\ m - 1 \in 0..n
    BY <1>b, <1>a
  <2> QED
    BY <1>1, <1>2, <1>a, <2>1 DEF Filters
<1> DEFINE Follows(m) ==
             /\ s[1].worker # w => f[m + 1] = g[m]
             /\ s[1].worker = w => f[m + 1] # <<>> /\ Head(f[m + 1]) = s[1] /\ Tail(f[m + 1]) = g[m]
           T == {m \in 0..n : ~Follows(m)}
<1>5. Follows(0)
  <2>1. /\ 0 + 1 = 1 /\ Append(<<>>, s[1]) # <<>> /\ Head(Append(<<>>, s[1])) = s[1]
        /\ Tail(Append(<<>>, s[1])) = <<>>
    BY <1>a
  <2> QED
    BY <1>3, <2>1 DEF With
<1>6. ASSUME NEW m \in 1..n, Follows(m - 1)
      PROVE  Follows(m)
  <2>1. (m - 1) + 1 = m /\ t[m] \in S
    BY <1>a
  <2>2. CASE s[1].worker # w
    BY <1>4, <1>6, <2>1, <2>2
  <2>3. CASE s[1].worker = w
    <3>1. f[m] # <<>> /\ Head(f[m]) = s[1] /\ Tail(f[m]) = g[m - 1]
      BY <1>6, <2>1, <2>3
    <3>a. f[m] \in Seq(S) /\ t[m] \in S
      BY <1>4, <2>1
    <3>2. /\ Append(f[m], t[m]) # <<>> /\ Head(Append(f[m], t[m])) = s[1]
          /\ Tail(Append(f[m], t[m])) = Append(g[m - 1], t[m])
      BY <3>1, <3>a, AppendBehind, ZenonT(60)
    <3> QED
      BY <1>4, <2>3, <3>1, <3>2 DEF With
  <2> QED
    BY <2>2, <2>3
<1> HIDE DEF Follows
<1>7. T = {}
  <2> SUFFICES ASSUME T # {}
               PROVE  FALSE
    OBVIOUS
  <2>1. T \in SUBSET Nat
    BY <1>a
  <2>2. PICK x \in T : \A y \in T : x <= y
    BY <2>1, LeastNumber
  <2>3. x \in 1..n /\ x - 1 \in 0..n /\ ~(x <= x - 1)
    BY <2>2, <1>5, <1>a
  <2> QED
    BY <2>2, <2>3, <1>6
<1>8. Follows(n)
  <2>1. n \in 0..n
    BY <1>a
  <2> QED
    BY <1>7, <2>1
<1> QED
  BY <1>8, <1>1, <1>2, <1>a, <1>b DEF Follows, t

-----------------------------------------------------------------------------
(* Types *)

\* A call in progress is about a worker that was started or is in the table, a
\* dispatch has something to dispatch, threads are started in the order of their
\* ids, and one without isolate cannot be interrupted.
CallType ==
  /\ \A r \in Runtime :
       /\ at[r] = "spawn" => callee[r] \in 1..(nextWorker - 1)
       /\ at[r] \in {"terminate", "join"} => callee[r] \in known
       /\ at[r] = "terminate" => tries[r] >= 1
       /\ at[r] = "dispatch" => batch[r] # <<>>
  /\ \A w \in Worker : w >= nextWorker => phase[w] = "none"
  /\ \A w \in Worker : phase[w] \in {"none", "starting"} => w \notin slot \cup abort

HostType == TypeOK /\ CallType

\* What Events are.
LEMMA EventTypes ==
  /\ \A e \in Events : e.worker \in Worker /\ e.kind \in {"message", "error", "exit"}
  /\ \A w \in Worker :
       /\ \A n \in 1..MaxSends : Event(w, "message", n) \in Events
       /\ Event(w, "error", 0) \in Events
       /\ \A n \in 0..1 : Event(w, "exit", n) \in Events
<1>1. ASSUME NEW e \in Events
      PROVE  e.worker \in Worker /\ e.kind \in {"message", "error", "exit"}
  <2>1. \E w \in Worker, k \in {"message", "error", "exit"}, n \in (1..MaxSends) \cup (0..1) :
          e = Event(w, k, n)
    BY DEF Events
  <2> QED
    BY <2>1 DEF Event
<1>2. ASSUME NEW w \in Worker
      PROVE  /\ \A n \in 1..MaxSends : Event(w, "message", n) \in Events
             /\ Event(w, "error", 0) \in Events
             /\ \A n \in 0..1 : Event(w, "exit", n) \in Events
  BY DEF Events
<1> QED
  BY <1>1, <1>2

\* The workers that were started are workers.
LEMMA KnownWorkers == TypeOK => known \subseteq Worker /\ 1..(nextWorker - 1) \subseteq Worker
  BY WorkerAssumption DEF TypeOK, Worker

\* The types hold at first.
LEMMA TypeInit == Init => HostType
<1> SUFFICES ASSUME Init PROVE HostType
  OBVIOUS
<1>1. \A S : <<>> \in Seq(S)
  OBVIOUS
<1>2. (CHOOSE r \in Runtime : TRUE) \in Runtime
  BY WorkerAssumption
<1>3. TypeOK
  BY <1>1, <1>2, WorkerAssumption DEF Init, TypeOK, Places, Stages, Phases
<1>4. CallType
  BY DEF Init, CallType
<1> QED
  BY <1>3, <1>4 DEF HostType

\* A counter below its bound can be counted up.
LEMMA CountsUp == \A k \in Nat : \A n \in 0..k : n < k => n + 1 \in 0..k /\ n + 1 \in 1..k
  OBVIOUS

\* Types are kept when a worker is started.
LEMMA TypeSpawn ==
  ASSUME HostType, NEW r \in Runtime, Spawn(r)
  PROVE  HostType'
<1>0. TypeOK /\ CallType
  BY DEF HostType
<1>1. /\ nextWorker \in 1..(MaxWorker + 1) /\ nextWorker' = nextWorker + 1
      /\ nextWorker <= MaxWorker /\ MaxWorker \in Nat
  BY <1>0, WorkerAssumption DEF Spawn, TypeOK
<1>2. /\ nextWorker \in Worker /\ nextWorker \in 1..(nextWorker' - 1)
      /\ nextWorker' \in 1..(MaxWorker + 1)
      /\ 1..(nextWorker - 1) \subseteq 1..(nextWorker' - 1)
  BY <1>1 DEF Worker
<1>3. UNCHANGED <<known, refed, terminated, inbox, parentRx, pending, slot, abort, listening,
                  timers, code, posts, sends, tries, turns, batch, stage, objects, dead, got,
                  late>>
  BY DEF Spawn, hostVars, objectVars
<1>4. /\ owner' = [owner EXCEPT ![nextWorker] = r]
      /\ \/ UNCHANGED <<phase, callee, at>>
         \/ /\ phase' = [phase EXCEPT ![nextWorker] = "starting"]
            /\ callee' = [callee EXCEPT ![r] = nextWorker]
            /\ at' = [at EXCEPT ![r] = "spawn"]
  BY DEF Spawn, Goes
<1>5. /\ owner' \in [Worker -> Runtime] /\ phase' \in [Worker -> Phases]
      /\ at' \in [Runtime -> Places] /\ callee' \in [Runtime -> Worker \cup {0}]
  <2>1. /\ owner \in [Worker -> Runtime] /\ phase \in [Worker -> Phases]
        /\ at \in [Runtime -> Places] /\ callee \in [Runtime -> Worker \cup {0}]
    BY <1>0 DEF TypeOK
  <2>2. "starting" \in Phases /\ "spawn" \in Places
    BY DEF Phases, Places
  <2> QED
    BY <1>2, <1>4, <2>1, <2>2
<1>6. TypeOK'
  BY <1>0, <1>2, <1>3, <1>5 DEF TypeOK
<1>7. ASSUME NEW q \in Runtime
      PROVE  \/ UNCHANGED <<at[q], callee[q]>>
             \/ at'[q] = "spawn" /\ callee'[q] = nextWorker
  BY <1>0, <1>4 DEF TypeOK
<1>8. phase[nextWorker] = "none" /\ \A w \in Worker \ {nextWorker} : phase'[w] = phase[w]
  <2>1. nextWorker >= nextWorker
    BY <1>1
  <2>2. phase[nextWorker] = "none"
    BY <1>0, <1>2, <2>1 DEF CallType
  <2> QED
    BY <1>0, <1>4, <2>2, SMTT(30) DEF TypeOK
<1>9. ASSUME NEW w \in Worker
      PROVE  /\ w >= nextWorker' => phase'[w] = "none"
             /\ phase'[w] \in {"none", "starting"} => w \notin slot' \cup abort'
  <2>1. w \in Nat /\ (w >= nextWorker' => w >= nextWorker /\ w # nextWorker)
    BY <1>1 DEF Worker
  <2> QED
    BY <1>0, <2>1, <1>3, <1>8 DEF CallType
<1>10. CallType'
  BY <1>0, <1>2, <1>3, <1>7, <1>9 DEF CallType
<1> QED
  BY <1>6, <1>10 DEF HostType

\* Types are kept by the calls of a runtime.
LEMMA TypeUser ==
  ASSUME HostType, NEW r \in Runtime, User(r)
  PROVE  HostType'
<1> USE DEF HostType, TypeOK, CallType, hostVars, threadVars, objectVars, loopVars, callVars
<1>0. known \subseteq Worker
  BY KnownWorkers
<1>1. CASE Spawn(r)
  BY <1>1, TypeSpawn
<1>2. ASSUME NEW w \in Worker, PostMessage(r, w) PROVE HostType'
  <2>1. Append(inbox[w], Post) \in Seq({Post, Terminate})
    OBVIOUS
  <2>0. posts[w] \in 0..MaxPosts /\ posts[w] < MaxPosts
    BY <1>2 DEF PostMessage
  <2>2. posts[w] + 1 \in 0..MaxPosts
    BY <2>0, CountsUp, WorkerAssumption
  <2>3. posts' \in [Worker -> 0..MaxPosts] /\ inbox' \in [Worker -> Seq({Post, Terminate})]
    BY <1>2, <2>1, <2>2 DEF PostMessage
  <2> QED
    BY <1>2, <2>3 DEF PostMessage
<1>3. ASSUME NEW w \in Worker, StartTerminate(r, w) PROVE HostType'
  <2>1. Append(inbox[w], Terminate) \in Seq({Post, Terminate})
    OBVIOUS
  <2>2. w \in known
    BY <1>3 DEF StartTerminate, Holds
  <2>3. inbox' \in [Worker -> Seq({Post, Terminate})]
    BY <1>3, <2>1 DEF StartTerminate
  <2>4. Tries \in 0..Tries /\ Tries >= 1
    BY WorkerAssumption
  <2>5. /\ at' \in [Runtime -> Places] /\ callee' \in [Runtime -> Worker \cup {0}]
        /\ tries' \in [Runtime -> 0..Tries]
        /\ dead' \subseteq known /\ refed' \subseteq known /\ terminated' \subseteq known
    BY <1>3, <2>2, <2>4 DEF StartTerminate, Goes, Places
  <2>6. UNCHANGED <<nextWorker, owner, known, pending, parentRx, slot, abort, posts, threadVars,
                    objects, got, stage, batch, turns, late>>
    BY <1>3 DEF StartTerminate
  <2>7. TypeOK'
    BY <2>3, <2>5, <2>6
  <2>8. ASSUME NEW q \in Runtime
        PROVE  \/ UNCHANGED <<at[q], callee[q], tries[q]>>
               \/ at'[q] = "terminate" /\ callee'[q] = w /\ tries'[q] = Tries
    BY <1>3 DEF StartTerminate, Goes
  <2>9. CallType'
    BY <2>2, <2>4, <2>6, <2>8
  <2> QED
    BY <2>7, <2>9
<1>4. ASSUME NEW w \in Worker, NEW value \in BOOLEAN, SetRef(r, w, value) PROVE HostType'
  BY <1>4 DEF SetRef, Holds, Holding
<1> QED
  BY <1>1, <1>2, <1>3, <1>4 DEF User

\* What the thread of a runtime does by itself, within the loop and after it
Steps(r) == Loop(r) \/ Settle(r)

\* Where a pump leads.
LEMMA TakeLeads ==
  ASSUME HostType, NEW r \in Runtime, Pump(r) \/ Settle(r)
  PROVE  /\ Take(r) /\ at[r] = "loop" /\ stage' \in [Runtime -> Stages]
         /\ at' \in [Runtime -> Places] /\ stage'[r] \in {"test1", "pump3", "test2", "returned"}
         /\ stage'[r] = "returned" => stage[r] = "returned"
<1>1. at \in [Runtime -> Places] /\ stage \in [Runtime -> Stages]
  BY DEF HostType, TypeOK
<1>2. /\ Take(r) /\ at[r] = "loop" /\ stage[r] \in {"pump1", "pump2", "pump3", "returned"}
  BY DEF Pump, Settle
<1>3. /\ AfterPump[stage[r]] \in {"test1", "pump3", "test2", "returned"}
      /\ AfterPump[stage[r]] = "returned" => stage[r] = "returned"
  BY <1>2 DEF AfterPump
<1>4. /\ stage' = [stage EXCEPT ![r] = AfterPump[stage[r]]]
      /\ \E q \in {"js", "dispatch"} : at' = [at EXCEPT ![r] = q]
  BY <1>2 DEF Take, Leads, Goes
<1> QED
  BY <1>1, <1>2, <1>3, <1>4 DEF Stages, Places

\* Types are kept by the loop of a runtime.
LEMMA TypeLoop ==
  ASSUME HostType, NEW r \in Runtime, Steps(r)
  PROVE  HostType'
<1> USE DEF HostType, TypeOK, CallType, hostVars, threadVars, objectVars, loopVars, callVars
<1>0. known \subseteq Worker /\ 1..(nextWorker - 1) \subseteq Worker
  BY KnownWorkers
<1>1. CASE Insert(r)
  BY <1>0, <1>1 DEF Insert, Goes, Places, Holding
<1>2. CASE Preempt(r)
  <2>0. tries[r] \in 0..Tries /\ tries[r] >= 1
    BY <1>2 DEF Preempt
  <2>1. tries[r] - 1 \in 0..Tries /\ (tries[r] # 1 => tries[r] - 1 >= 1)
    BY <2>0, WorkerAssumption
  <2>2. callee[r] \in known
    BY <1>2 DEF Preempt
  <2>3. TypeOK'
    BY <1>2, <2>1 DEF Preempt, Goes, Places
  <2>4. CallType'
    BY <1>2, <2>1, <2>2 DEF Preempt, Goes
  <2> QED
    BY <2>3, <2>4
<1>3. CASE Join(r)
  <2>1. callee[r] \in Worker
    BY <1>0, <1>3 DEF Join
  <2>2. Append(got[callee[r]], Event(callee[r], "exit", 0)) \in Seq(Events)
    BY <2>1, EventTypes
  <2> QED
    BY <1>3, <2>1, <2>2 DEF Join, Goes, Places
<1>4. CASE Return(r)
  BY <1>4 DEF Return, Goes, Places
<1>5. CASE Pump(r) \/ Settle(r)
  <2>1. pending \o parentRx \in Seq(Events) /\ <<>> \in Seq(Events)
    OBVIOUS
  <2>2. Polled \subseteq known
    BY DEF Polled
  <2>3. Take(r) /\ at' \in [Runtime -> Places] /\ stage' \in [Runtime -> Stages]
    BY <1>5, TakeLeads
  <2>4. TypeOK'
    BY <2>1, <2>2, <2>3 DEF Take
  <2>5. CallType'
    BY <2>3 DEF Take, Leads, Goes
  <2> QED
    BY <2>4, <2>5
<1>6. CASE Dispatch(r)
  <2>1. batch[r] \in Seq(Events) /\ batch[r] # <<>>
    BY <1>6 DEF Dispatch
  <2>2. Head(batch[r]) \in Events /\ Tail(batch[r]) \in Seq(Events)
    BY <2>1
  <2>3. Head(batch[r]).worker \in Worker
    BY <2>2, EventTypes
  <2>4. Append(got[Head(batch[r]).worker], Head(batch[r])) \in Seq(Events)
    BY <2>2, <2>3
  <2>5. got' \in [Worker -> Seq(Events)] /\ batch' \in [Runtime -> Seq(Events)]
    BY <1>6, <2>2, <2>3, <2>4 DEF Dispatch
  <2>6. dead' \subseteq known /\ objects' \in [Runtime -> SUBSET known]
    <3>1. objects[r] \subseteq known /\ \A v : objects[r] \ {v} \subseteq known
      OBVIOUS
    <3>2. \/ UNCHANGED <<dead, objects>>
          \/ \E v \in objects[r] : /\ dead' = dead \cup {v}
                                  /\ objects' = [objects EXCEPT ![r] = @ \ {v}]
      BY <1>6 DEF Dispatch
    <3>3. CASE UNCHANGED <<dead, objects>>
      BY <3>3
    <3>4. ASSUME NEW v \in objects[r], dead' = dead \cup {v},
                 objects' = [objects EXCEPT ![r] = @ \ {v}]
          PROVE  dead' \subseteq known /\ objects' \in [Runtime -> SUBSET known]
      BY <3>1, <3>4
    <3> QED
      BY <3>2, <3>3, <3>4
  <2>7. at' \in [Runtime -> Places]
    BY <1>6 DEF Dispatch, Goes, Places
  <2>8. TypeOK'
    BY <1>6, <2>5, <2>6, <2>7 DEF Dispatch
  <2>9. CallType'
    BY <1>6, SMTT(30) DEF Dispatch, Goes
  <2> QED
    BY <2>8, <2>9
<1>7. CASE Check(r)
  <2>0. turns[r] \in 0..MaxTurns
    OBVIOUS
  <2>1. turns[r] < MaxTurns => turns[r] + 1 \in 0..MaxTurns
    BY <2>0, CountsUp, WorkerAssumption
  <2>2. PICK p \in {"loop", "js"} : at' = [at EXCEPT ![r] = p]
    BY <1>7 DEF Check, Leads, Goes
  <2>a. PICK d \in {"returned", "wait", "pump1"} : stage' = [stage EXCEPT ![r] = d]
    BY <1>7 DEF Check, Leads
  <2>3. turns' = turns \/ (turns[r] < MaxTurns /\ turns' = [turns EXCEPT ![r] = @ + 1])
    BY <1>7 DEF Check
  <2>4. turns' \in [Runtime -> 0..MaxTurns]
    <3>1. CASE turns[r] < MaxTurns /\ turns' = [turns EXCEPT ![r] = @ + 1]
      <4>1. PICK k \in 0..MaxTurns : turns' = [turns EXCEPT ![r] = k]
        BY <2>1, <3>1
      <4> QED
        BY <4>1
    <3> QED
      BY <2>3, <3>1
  <2>5. at' \in [Runtime -> Places] /\ stage' \in [Runtime -> Stages]
    BY <2>2, <2>a DEF Places, Stages
  <2> QED
    BY <1>7, <2>2, <2>4, <2>5, SMTT(30) DEF Check
<1>8. CASE Wait(r)
  <2>1. pending \o parentRx \in Seq(Events) /\ <<>> \in Seq(Events)
    OBVIOUS
  <2>2. Polled \subseteq known
    BY DEF Polled
  <2>0. turns[r] \in 0..MaxTurns
    OBVIOUS
  <2>3. turns[r] < MaxTurns => turns[r] + 1 \in 0..MaxTurns
    BY <2>0, CountsUp, WorkerAssumption
  <2>4. turns' = turns \/ (turns[r] < MaxTurns /\ turns' = [turns EXCEPT ![r] = @ + 1])
    BY <1>8 DEF Wait
  <2>5. turns' \in [Runtime -> 0..MaxTurns]
    <3>1. CASE turns[r] < MaxTurns /\ turns' = [turns EXCEPT ![r] = @ + 1]
      <4>1. PICK k \in 0..MaxTurns : turns' = [turns EXCEPT ![r] = k]
        BY <2>3, <3>1
      <4> QED
        BY <4>1
    <3> QED
      BY <2>4, <3>1
  <2>6. at' = [at EXCEPT ![r] = "js"] /\ stage' = [stage EXCEPT ![r] = "pump2"]
    BY <1>8 DEF Wait, Leads, Goes
  <2>7. at' \in [Runtime -> Places] /\ stage' \in [Runtime -> Stages]
    BY <2>6 DEF Places, Stages
  <2>8. TypeOK'
    BY <1>8, <2>1, <2>2, <2>5, <2>7 DEF Wait
  <2>9. CallType'
    BY <1>8, <2>6 DEF Wait
  <2> QED
    BY <2>8, <2>9
<1> QED
  BY <1>1, <1>2, <1>3, <1>4, <1>5, <1>6, <1>7, <1>8 DEF Loop, Steps

\* What the thread of a worker and its code do.
Runs(w) == Thread(w) \/ CodeReturns(w) \/ ScriptFails(w) \/ SetupFails(w) \/ SendMessage(w)

\* A thread moves on from where it is, never back to its start.
LEMMA PhaseMoves ==
  ASSUME HostType, NEW w \in Worker, phase[w] # "none",
         NEW p \in Phases \ {"none", "starting"}, phase' = [phase EXCEPT ![w] = p],
         slot' \subseteq slot \cup {w}, abort' \subseteq abort,
         UNCHANGED <<nextWorker, known, at, callee, tries, batch>>
  PROVE  phase' \in [Worker -> Phases] /\ CallType'
<1>1. phase \in [Worker -> Phases] /\ CallType
  BY DEF HostType, TypeOK
<1>2. \A v \in Worker : phase'[v] = IF v = w THEN p ELSE phase[v]
  BY <1>1
<1>3. ASSUME NEW v \in Worker
      PROVE  /\ v >= nextWorker => phase'[v] = "none"
             /\ phase'[v] \in {"none", "starting"} => v \notin slot' \cup abort'
  BY <1>1, <1>2 DEF CallType
<1> QED
  BY <1>1, <1>3 DEF CallType

\* Types are kept by the thread of a worker.
LEMMA TypeThread ==
  ASSUME HostType, NEW w \in Worker, Runs(w)
  PROVE  HostType'
<1> USE DEF TypeOK, hostVars, threadVars, objectVars, loopVars, callVars, Moves
<1>0. TypeOK /\ CallType
  BY DEF HostType
<1>1. CASE Register(w)
  <2>1. phase' \in [Worker -> Phases] /\ CallType'
    BY <1>1, PhaseMoves DEF Register, Phases
  <2>2. w \notin abort
    BY <1>0, <1>1 DEF Register, CallType
  <2> QED
    BY <1>0, <1>1, <2>1, <2>2, SMTT(30) DEF Register, HostType
<1>2. CASE Bootstrap(w) \/ LoopTop(w)
  <2>1. phase' \in [Worker -> Phases] /\ CallType'
    BY <1>2, PhaseMoves DEF Bootstrap, LoopTop, Phases
  <2> QED
    BY <1>0, <1>2, <2>1 DEF Bootstrap, LoopTop, HostType
<1>3. CASE Receive(w)
  <2>1. phase' \in [Worker -> Phases] /\ CallType'
    BY <1>3, PhaseMoves DEF Receive, Phases
  <2>2. Tail(inbox[w]) \in Seq({Post, Terminate})
    BY <1>0, <1>3 DEF Receive
  <2> QED
    BY <1>0, <1>3, <2>1, <2>2 DEF Receive, HostType
<1>4. CASE TimerDue(w)
  <2>1. phase' \in [Worker -> Phases] /\ CallType'
    BY <1>4, PhaseMoves DEF TimerDue, Phases
  <2> QED
    BY <1>0, <1>4, <2>1 DEF TimerDue, HostType
<1>5. CASE End(w) \/ SetupFails(w)
  <2>1. phase' \in [Worker -> Phases] /\ CallType'
    BY <1>5, PhaseMoves DEF End, SetupFails, Phases
  <2>2. <<>> \in Seq({Post, Terminate})
    OBVIOUS
  <2>3. inbox' \in [Worker -> Seq({Post, Terminate})]
    BY <1>0, <1>5, <2>2 DEF End, SetupFails
  <2> QED
    BY <1>0, <1>5, <2>1, <2>3 DEF End, SetupFails, HostType
<1>6. CASE CodeReturns(w)
  <2>1. phase' \in [Worker -> Phases] /\ CallType'
    BY <1>6, PhaseMoves DEF CodeReturns, ScriptEnds, HandlerEnds, Phases
  <2>2. listening' \subseteq Worker /\ timers' \subseteq Worker
    BY <1>0, <1>6 DEF CodeReturns, ScriptEnds, HandlerEnds, Leaves
  <2> QED
    BY <1>0, <1>6, <2>1, <2>2 DEF CodeReturns, ScriptEnds, HandlerEnds, HostType
<1>7. CASE SendExit(w)
  <2>1. phase' \in [Worker -> Phases] /\ CallType'
    BY <1>7, PhaseMoves DEF SendExit, Phases
  <2>2. code[w] \in 0..1 /\ parentRx \in Seq(Events)
    BY <1>0
  <2>3. Append(parentRx, Event(w, "exit", code[w])) \in Seq(Events)
    BY <2>2, EventTypes
  <2> QED
    BY <1>0, <1>7, <2>1, <2>3 DEF SendExit, SendParent, HostType
<1>8. CASE ScriptFails(w)
  <2>1. phase' \in [Worker -> Phases] /\ CallType'
    BY <1>8, PhaseMoves DEF ScriptFails, Phases
  <2>2. Append(parentRx, Event(w, "error", 0)) \in Seq(Events)
    BY <1>0, EventTypes
  <2>3. code' \in [Worker -> 0..1]
    BY <1>0, <1>8 DEF ScriptFails
  <2> QED
    BY <1>0, <1>8, <2>1, <2>2, <2>3 DEF ScriptFails, SendParent, HostType
<1>9. CASE SendMessage(w)
  <2>0. sends[w] \in 0..MaxSends /\ sends[w] < MaxSends
    BY <1>0, <1>9 DEF SendMessage
  <2>1. sends[w] + 1 \in 1..MaxSends /\ sends[w] + 1 \in 0..MaxSends
    BY <2>0, WorkerAssumption
  <2>2. Append(parentRx, Event(w, "message", sends[w] + 1)) \in Seq(Events)
    BY <1>0, <2>1, EventTypes
  <2>3. TypeOK'
    BY <1>0, <1>9, <2>1, <2>2 DEF SendMessage, SendParent
  <2> QED
    BY <1>0, <1>9, <2>3 DEF SendMessage, CallType, HostType
<1> QED
  BY <1>1, <1>2, <1>3, <1>4, <1>5, <1>6, <1>7, <1>8, <1>9 DEF Runs, Thread

\* Types are kept by every step.
LEMMA TypeStep == HostType /\ [Next]_vars => HostType'
<1> SUFFICES ASSUME HostType, [Next]_vars PROVE HostType'
  OBVIOUS
<1>1. CASE UNCHANGED vars
  BY <1>1 DEF vars, HostType, TypeOK, CallType, hostVars, threadVars, objectVars, loopVars, callVars
<1>2. CASE Next
  BY <1>2, TypeUser, TypeLoop, TypeThread DEF Next, Runs, Steps
<1> QED
  BY <1>1, <1>2

\* The types hold always, with the facts about pending calls they rest on.
LEMMA TypeInvariant == Spec => []HostType
  BY TypeInit, TypeStep, PTL DEF Spec

\* Every variable of the host, its threads and its runtimes keeps its type, for
\* any number of runtimes; an isolate is interrupted by at most one handle.
THEOREM HostTypeCorrect == Spec => []TypeOK
<1>1. HostType => TypeOK
  BY DEF HostType
<1> QED
  BY <1>1, TypeInvariant, PTL

-----------------------------------------------------------------------------
(* One runtime: what belongs to whom *)

\* The process has one event loop, as `amber run` has unless --workers or
\* AMBER_WORKERS asks for several.
OneRuntime == \A q, r \in Runtime : q = r

\* A batch is worked off before the loop goes on, and what the wait has polled is
\* taken by the next pump.
PlaceInv ==
  \A r \in Runtime :
    /\ at[r] = "loop" => batch[r] = <<>>
    /\ stage[r] # "pump2" => pending = <<>>

\* A worker in the table has an object that can still emit, or has emitted its
\* exit and is dead.
ObjectInv ==
  /\ \A w \in Worker : Ended(w) => w \in dead
  /\ \A r \in Runtime : \A w \in objects[r] : ~Ended(w)
  /\ \A r \in Runtime : \A w \in known : w \in objects[r] \/ Ended(w)

\* terminate() is about a dead object that has not ended, the only one there is; a
\* constructor is about a worker that is not in the table, and all other threads
\* are in the table.
CallInv ==
  /\ \A r \in Runtime :
       /\ IF at[r] \in {"terminate", "join"} THEN objects[r] \cap dead = {callee[r]}
                                             ELSE objects[r] \cap dead = {}
       /\ at[r] = "spawn" => callee[r] \notin known
  /\ \A w \in Worker : phase[w] # "none" =>
       w \in known \/ \E r \in Runtime : at[r] = "spawn" /\ callee[r] = w

HostInv == HostType /\ PlaceInv /\ ObjectInv /\ CallInv

\* The worker has sent its exit.
Exited(w) == phase[w] \in {"exiting", "ended"}

\* What the thread of a worker leaves alone, and what it sends.
LEMMA ThreadFacts ==
  ASSUME HostType, NEW w \in Worker, Runs(w)
  PROVE  /\ UNCHANGED <<nextWorker, owner, known, refed, terminated, pending, objects, dead, got,
                        at, stage, batch, callee, late>>
         /\ phase[w] # "none" /\ \A v \in Worker : v # w => phase'[v] = phase[v]
         /\ \/ UNCHANGED parentRx /\ (Exited(w)' <=> Exited(w))
            \/ \E e \in Events : /\ parentRx' = Append(parentRx, e) /\ e.worker = w
                                 /\ ~Exited(w) /\ (Exited(w)' <=> e.kind = "exit")
<1> USE DEF hostVars, threadVars, objectVars, loopVars, callVars, Moves, Exited
<1>0. TypeOK /\ phase \in [Worker -> Phases]
  BY DEF HostType, TypeOK
<1>1. CASE Register(w) \/ Bootstrap(w) \/ LoopTop(w) \/ Receive(w) \/ TimerDue(w)
  BY <1>0, <1>1 DEF Register, Bootstrap, LoopTop, Receive, TimerDue
<1>2. CASE End(w) \/ SetupFails(w) \/ CodeReturns(w)
  BY <1>0, <1>2 DEF End, SetupFails, CodeReturns, ScriptEnds, HandlerEnds
<1>3. CASE SendExit(w)
  <2>1. code[w] \in 0..1
    BY <1>0 DEF TypeOK
  <2>2. Event(w, "exit", code[w]) \in Events
    BY <2>1, EventTypes
  <2>3. Event(w, "exit", code[w]).worker = w /\ Event(w, "exit", code[w]).kind = "exit"
    BY DEF Event
  <2> QED
    BY <1>0, <1>3, <2>2, <2>3 DEF SendExit, SendParent
<1>4. CASE ScriptFails(w)
  <2>1. Event(w, "error", 0) \in Events
    BY EventTypes
  <2>2. Event(w, "error", 0).worker = w /\ Event(w, "error", 0).kind # "exit"
    BY DEF Event
  <2> QED
    BY <1>0, <1>4, <2>1, <2>2 DEF ScriptFails, SendParent
<1>5. CASE SendMessage(w)
  <2>0. sends[w] \in 0..MaxSends /\ sends[w] < MaxSends
    BY <1>0, <1>5 DEF SendMessage, TypeOK
  <2>1. sends[w] + 1 \in 1..MaxSends
    BY <2>0, CountsUp, WorkerAssumption
  <2> DEFINE e == Event(w, "message", sends[w] + 1)
  <2>2. e \in Events
    BY <2>1, EventTypes
  <2>3. e.worker = w /\ e.kind # "exit"
    BY DEF Event
  <2>4. parentRx' = Append(parentRx, e)
    BY <1>5 DEF SendMessage, SendParent
  <2> HIDE DEF e
  <2> QED
    BY <1>0, <1>5, <2>2, <2>3, <2>4 DEF SendMessage
<1> QED
  BY <1>1, <1>2, <1>3, <1>4, <1>5 DEF Runs, Thread

\* An object that emits another event has ended if it had or if that is its exit.
LEMMA EndedAppend ==
  ASSUME HostType, NEW v \in Worker, NEW e \in Events, got' = [got EXCEPT ![v] = Append(@, e)],
         NEW w \in Worker
  PROVE  Ended(w)' <=> Ended(w) \/ (w = v /\ e.kind = "exit")
<1>1. got \in [Worker -> Seq(Events)]
  BY DEF HostType, TypeOK
<1>2. CASE w # v
  BY <1>1, <1>2 DEF Ended
<1>3. CASE w = v
  <2> DEFINE q == got[v]
             p == Append(q, e)
  <2>1. q \in Seq(Events) /\ got'[v] = p
    BY <1>1
  <2>2. /\ DOMAIN p = DOMAIN q \cup {Len(q) + 1} /\ p[Len(q) + 1] = e
        /\ \A n \in DOMAIN q : p[n] = q[n]
    BY <2>1
  <2> QED
    BY <1>3, <2>1, <2>2 DEF Ended
<1> QED
  BY <1>2, <1>3

\* Nothing has happened at first.
LEMMA HostInit == Init => HostInv
<1>1. Init => HostType
  BY TypeInit
<1>2. Init => PlaceInv /\ ObjectInv /\ CallInv
  BY DEF Init, PlaceInv, ObjectInv, CallInv, Ended
<1> QED
  BY <1>1, <1>2 DEF HostInv

\* The ownership is kept by the calls of the runtime.
LEMMA HostUser ==
  ASSUME OneRuntime, HostInv, NEW r \in Runtime, User(r)
  PROVE  PlaceInv' /\ ObjectInv' /\ CallInv'
<1> USE DEF HostInv, hostVars, threadVars, objectVars, loopVars, callVars
<1>0. /\ TypeOK /\ \A q \in Runtime : q = r
      /\ at \in [Runtime -> Places] /\ stage \in [Runtime -> Stages]
      /\ callee \in [Runtime -> Worker \cup {0}]
      /\ phase \in [Worker -> Phases] /\ known \subseteq Worker
  BY KnownWorkers DEF OneRuntime, HostType, TypeOK
<1>1. CASE Spawn(r)
  <2>1. nextWorker \in Worker /\ nextWorker \notin known
    BY <1>0, <1>1, WorkerAssumption DEF Spawn, TypeOK, Worker
  <2>2. UNCHANGED <<got, dead, objects, known, pending, stage, batch>> /\ at[r] = "js"
    BY <1>1 DEF Spawn
  <2>3. \/ UNCHANGED <<phase, callee, at>>
        \/ /\ phase' = [phase EXCEPT ![nextWorker] = "starting"]
           /\ callee'[r] = nextWorker /\ at'[r] = "spawn"
    BY <1>0, <1>1 DEF Spawn, Goes
  <2>4. ObjectInv'
    BY <2>2 DEF ObjectInv, Ended
  <2>5. PlaceInv'
    BY <1>0, <2>2, <2>3 DEF PlaceInv
  <2>6. CallInv'
    BY <1>0, <2>1, <2>2, <2>3 DEF CallInv
  <2> QED
    BY <2>4, <2>5, <2>6
<1>2. ASSUME NEW w \in Worker, PostMessage(r, w) \/ \E value \in BOOLEAN : SetRef(r, w, value)
      PROVE  PlaceInv' /\ ObjectInv' /\ CallInv'
  BY <1>2 DEF PostMessage, SetRef, PlaceInv, ObjectInv, CallInv, Ended
<1>3. ASSUME NEW w \in Worker, StartTerminate(r, w) PROVE PlaceInv' /\ ObjectInv' /\ CallInv'
  <2>1. UNCHANGED <<got, objects, known, pending, stage, batch, phase>> /\ dead' = dead \cup {w}
    BY <1>3 DEF StartTerminate
  <2>2. at[r] = "js" /\ at'[r] = "terminate" /\ callee'[r] = w
    BY <1>0, <1>3 DEF StartTerminate, Holds, Goes
  <2>3. w \in objects[r]
    BY <1>3 DEF StartTerminate, Holds, ObjectInv
  <2>4. ObjectInv'
    BY <2>1 DEF ObjectInv, Ended
  <2>5. PlaceInv'
    BY <1>0, <2>1, <2>2 DEF PlaceInv
  <2>6. CallInv'
    BY <1>0, <2>1, <2>2, <2>3 DEF CallInv
  <2> QED
    BY <2>4, <2>5, <2>6
<1> QED
  BY <1>1, <1>2, <1>3 DEF User

\* The ownership is kept by the loop of the runtime.
LEMMA HostLoop ==
  ASSUME OneRuntime, HostInv, NEW r \in Runtime, Steps(r)
  PROVE  PlaceInv' /\ ObjectInv' /\ CallInv'
<1> USE DEF HostInv, hostVars, threadVars, objectVars, loopVars, callVars
<1>0. /\ TypeOK /\ HostType /\ CallType /\ \A q \in Runtime : q = r
      /\ at \in [Runtime -> Places] /\ stage \in [Runtime -> Stages]
      /\ callee \in [Runtime -> Worker \cup {0}]
      /\ batch \in [Runtime -> Seq(Events)] /\ objects \in [Runtime -> SUBSET known]
      /\ phase \in [Worker -> Phases] /\ known \subseteq Worker
  BY KnownWorkers DEF OneRuntime, HostType, TypeOK
<1>1. CASE Insert(r)
  <2>1. UNCHANGED <<got, dead, pending, stage, batch, phase, callee>>
    BY <1>1 DEF Insert
  <2>2. at[r] = "spawn" /\ at'[r] = "js"
    BY <1>0, <1>1 DEF Insert, Goes
  <2>3. known' = known \cup {callee[r]} /\ objects'[r] = objects[r] \cup {callee[r]}
    BY <1>0, <1>1 DEF Insert
  <2>4. callee[r] \notin known /\ callee[r] \in Worker
    BY <1>0, <2>2, KnownWorkers DEF CallInv, CallType
  <2>5. ~Ended(callee[r])
    BY <1>0, <2>4 DEF ObjectInv, TypeOK
  <2>6. ObjectInv'
    BY <1>0, <2>1, <2>3, <2>5 DEF ObjectInv, Ended
  <2>7. PlaceInv'
    BY <1>0, <2>1, <2>2 DEF PlaceInv
  <2>a. callee[r] \notin dead
    BY <1>0, <2>4 DEF TypeOK
  <2>8. CallInv'
    BY <1>0, <2>1, <2>2, <2>3, <2>a DEF CallInv
  <2> QED
    BY <2>6, <2>7, <2>8
<1>2. CASE Preempt(r)
  <2>1. UNCHANGED <<got, dead, objects, known, pending, stage, batch, phase, callee>>
    BY <1>2 DEF Preempt
  <2>2. at[r] = "terminate" /\ at'[r] \in {"join", "terminate"}
    BY <1>0, <1>2 DEF Preempt, Goes
  <2> QED
    BY <1>0, <2>1, <2>2 DEF PlaceInv, ObjectInv, CallInv, Ended
<1>3. CASE Join(r)
  <2> DEFINE w == callee[r]
             e == Event(w, "exit", 0)
  <2>1. UNCHANGED <<dead, known, pending, stage, batch, phase, callee>>
    BY <1>3 DEF Join
  <2>2. at[r] = "join" /\ at'[r] = "js"
    BY <1>0, <1>3 DEF Join, Goes
  <2>3. w \in objects[r] /\ w \in known /\ w \in Worker
    BY <1>0, <2>2 DEF CallInv
  <2>a. 0 \in 0..1
    OBVIOUS
  <2>b. e \in Events
    BY <2>3, <2>a, EventTypes
  <2>4. e \in Events /\ e.kind = "exit"
    BY <2>b DEF Event
  <2>5. objects'[r] = objects[r] \ {w} /\ got' = [got EXCEPT ![w] = Append(@, e)]
    BY <1>0, <1>3 DEF Join
  <2> HIDE DEF e, w
  <2>6. \A v \in Worker : Ended(v)' <=> Ended(v) \/ v = w
    BY <1>0, <2>3, <2>4, <2>5, EndedAppend
  <2>7. w \in dead
    BY <2>2 DEF CallInv, w
  <2>8. ObjectInv'
    BY <1>0, <2>1, <2>3, <2>5, <2>6, <2>7 DEF ObjectInv
  <2>c. objects[r] \cap dead = {w} /\ objects'[r] \cap dead = {}
    BY <2>2, <2>5 DEF CallInv, w
  <2>9. PlaceInv' /\ CallInv'
    BY <1>0, <2>1, <2>2, <2>c DEF PlaceInv, CallInv
  <2> QED
    BY <2>8, <2>9
<1>4. CASE Return(r)
  <2>1. UNCHANGED <<got, dead, objects, known, pending, stage, batch, phase, callee>>
    BY <1>4 DEF Return
  <2>2. at[r] = "js" /\ at'[r] = IF batch[r] = <<>> THEN "loop" ELSE "dispatch"
    BY <1>0, <1>4 DEF Return, Goes
  <2> QED
    BY <1>0, <2>1, <2>2 DEF PlaceInv, ObjectInv, CallInv, Ended
<1>5. CASE Pump(r) \/ Settle(r)
  <2>0. Take(r) /\ at[r] = "loop"
    BY <1>0, <1>5, TakeLeads
  <2>1. UNCHANGED <<got, dead, objects, known, phase, callee>> /\ pending' = <<>>
    BY <2>0 DEF Take
  <2>2. at'[r] \in {"js", "dispatch"}
    BY <1>0, <2>0 DEF Take, Leads, Goes
  <2> QED
    BY <1>0, <2>0, <2>1, <2>2 DEF PlaceInv, ObjectInv, CallInv, Ended
<1>6. CASE Dispatch(r)
  <2> DEFINE e == Head(batch[r])
             w == e.worker
  <2>1. UNCHANGED <<known, pending, stage, phase, callee>> /\ at[r] = "dispatch"
    BY <1>6 DEF Dispatch
  <2>2. batch[r] # <<>>
    BY <1>0, <2>1 DEF CallType
  <2>3. e \in Events /\ w \in Worker
    BY <1>0, <2>2, EventTypes
  <2>4. at'[r] \in {"js", "dispatch"}
    BY <1>0, <1>6 DEF Dispatch, Goes
  <2>a. objects'[r] \cap dead' = {}
    <3>1. objects[r] \cap dead = {}
      BY <2>1 DEF CallInv
    <3>2. \/ UNCHANGED <<objects, dead>>
          \/ dead' = dead \cup {w} /\ objects'[r] = objects[r] \ {w}
      BY <1>0, <1>6 DEF Dispatch
    <3> QED
      BY <3>1, <3>2
  <2>5. PlaceInv' /\ CallInv'
    BY <1>0, <2>1, <2>4, <2>a DEF PlaceInv, CallInv
  <2>6. CASE w \notin objects[r]
    <3>1. UNCHANGED <<got, dead, objects>>
      BY <1>6, <2>6 DEF Dispatch
    <3> QED
      BY <2>1, <2>5, <3>1 DEF ObjectInv, Ended
  <2>7. CASE w \in objects[r]
    <3>1. got' = [got EXCEPT ![w] = Append(@, e)]
      BY <1>6, <2>7 DEF Dispatch
    <3>2. \/ e.kind = "exit" /\ dead' = dead \cup {w} /\ objects'[r] = objects[r] \ {w}
          \/ e.kind # "exit" /\ UNCHANGED <<dead, objects>>
      BY <1>0, <1>6, <2>7 DEF Dispatch
    <3> HIDE DEF e, w
    <3>3. \A v \in Worker : Ended(v)' <=> Ended(v) \/ (v = w /\ e.kind = "exit")
      BY <1>0, <2>3, <3>1, EndedAppend
    <3>4. ObjectInv'
      BY <1>0, <2>1, <2>3, <3>2, <3>3 DEF ObjectInv
    <3> QED
      BY <2>5, <3>4
  <2> QED
    BY <2>6, <2>7
<1>7. CASE Check(r)
  <2>1. UNCHANGED <<got, dead, objects, known, pending, batch, phase, callee>>
    BY <1>7 DEF Check
  <2>2. at[r] = "loop" /\ at'[r] \in {"loop", "js"} /\ stage[r] \in {"test1", "test2"}
    BY <1>0, <1>7 DEF Check, Leads, Goes
  <2> QED
    BY <1>0, <2>1, <2>2 DEF PlaceInv, ObjectInv, CallInv, Ended
<1>8. CASE Wait(r)
  <2>1. UNCHANGED <<got, dead, objects, known, batch, phase, callee>>
    BY <1>8 DEF Wait
  <2>2. at[r] = "loop" /\ at'[r] = "js" /\ stage'[r] = "pump2"
    BY <1>0, <1>8 DEF Wait, Leads, Goes
  <2> QED
    BY <1>0, <2>1, <2>2 DEF PlaceInv, ObjectInv, CallInv, Ended
<1> QED
  BY <1>1, <1>2, <1>3, <1>4, <1>5, <1>6, <1>7, <1>8 DEF Loop, Steps

\* The ownership is kept by every step.
LEMMA HostStep ==
  ASSUME OneRuntime, HostInv, [Next]_vars
  PROVE  HostInv'
<1>1. HostType'
  BY TypeStep DEF HostInv
<1>2. CASE UNCHANGED vars
  BY <1>1, <1>2 DEF vars, HostInv, PlaceInv, ObjectInv, CallInv, Ended, hostVars, threadVars,
                    objectVars, loopVars, callVars
<1>3. ASSUME NEW r \in Runtime, User(r) \/ Steps(r) PROVE HostInv'
  BY <1>1, <1>3, HostUser, HostLoop DEF HostInv
<1>4. ASSUME NEW w \in Worker, Runs(w) PROVE HostInv'
  <2>1. /\ UNCHANGED <<known, pending, objects, dead, got, at, stage, batch, callee>>
        /\ phase[w] # "none" /\ \A v \in Worker : v # w => phase'[v] = phase[v]
    BY <1>4, ThreadFacts DEF HostInv
  <2> QED
    BY <1>1, <2>1 DEF HostInv, PlaceInv, ObjectInv, CallInv, Ended
<1> QED
  BY <1>2, <1>3, <1>4 DEF Next, Runs, Steps

\* With one runtime the ownership is an invariant.
LEMMA HostInvariant ==
  ASSUME OneRuntime
  PROVE  Spec => []HostInv
<1>1. HostInv /\ [Next]_vars => HostInv'
  BY HostStep
<1> QED
  BY <1>1, HostInit, PTL DEF Spec

-----------------------------------------------------------------------------
(* No worker is left behind *)

\* A worker marked terminated has emitted its exit, or its exit was polled and
\* waits to be dispatched, or terminate() has yet to emit it.
TerminatedInv ==
  \A r \in Runtime : \A w \in terminated :
    \/ Ended(w) \/ w \in Exits(batch[r]) \/ w \in Exits(pending)
    \/ at[r] \in {"terminate", "join"} /\ callee[r] = w

\* The exits in an empty, a joined and a shortened sequence.
LEMMA ExitsNone == Exits(<<>>) = {}
  BY DEF Exits

\* Exits of two sequences in a row.
LEMMA ExitsConcat ==
  ASSUME NEW a \in Seq(Events), NEW b \in Seq(Events)
  PROVE  Exits(a) \cup Exits(b) \subseteq Exits(a \o b)
<1>1. ASSUME NEW n \in DOMAIN a PROVE n \in DOMAIN (a \o b) /\ (a \o b)[n] = a[n]
  OBVIOUS
<1>2. ASSUME NEW n \in DOMAIN b
      PROVE  Len(a) + n \in DOMAIN (a \o b) /\ (a \o b)[Len(a) + n] = b[n]
  OBVIOUS
<1>3. Exits(a) \subseteq Exits(a \o b)
  BY <1>1 DEF Exits
<1>4. Exits(b) \subseteq Exits(a \o b)
  BY <1>2 DEF Exits
<1> QED
  BY <1>3, <1>4

\* The exits of a sequence are those of its head and its tail.
LEMMA ExitsTail ==
  ASSUME NEW a \in Seq(Events), a # <<>>, NEW w \in Exits(a), w \notin Exits(Tail(a))
  PROVE  w = Head(a).worker /\ Head(a).kind = "exit"
<1>1. PICK n \in DOMAIN a : a[n].kind = "exit" /\ a[n].worker = w
  BY DEF Exits
<1>2. CASE n = 1
  BY <1>1, <1>2
<1>3. CASE n # 1
  <2>1. n - 1 \in DOMAIN Tail(a) /\ Tail(a)[n - 1] = a[n]
    BY <1>3
  <2>2. w \in Exits(Tail(a))
    BY <1>1, <2>1 DEF Exits
  <2> QED
    BY <2>2
<1> QED
  BY <1>2, <1>3

\* Both facts about terminated workers are kept by every step.
LEMMA LeftStep ==
  ASSUME OneRuntime, HostInv, TerminatedInv, NoneLeftBehind, [Next]_vars
  PROVE  TerminatedInv' /\ NoneLeftBehind'
<1> USE DEF hostVars, threadVars, objectVars, loopVars, callVars
<1>0. /\ TypeOK /\ HostType /\ CallType /\ PlaceInv /\ ObjectInv /\ CallInv
      /\ at \in [Runtime -> Places] /\ stage \in [Runtime -> Stages]
      /\ callee \in [Runtime -> Worker \cup {0}]
      /\ batch \in [Runtime -> Seq(Events)] /\ owner \in [Worker -> Runtime]
      /\ pending \in Seq(Events) /\ parentRx \in Seq(Events)
      /\ known \subseteq Worker /\ terminated \subseteq known /\ refed \subseteq known
  BY KnownWorkers DEF HostInv, HostType, TypeOK
<1>a. owner' \in [Worker -> Runtime] /\ known' \subseteq Worker
  <2>1. HostType'
    BY TypeStep, <1>0
  <2>2. TypeOK'
    BY <2>1 DEF HostType
  <2>3. known' \subseteq 1..(nextWorker' - 1) /\ nextWorker' \in 1..(MaxWorker + 1)
    BY <2>2 DEF TypeOK
  <2>a. \A k \in 1..(MaxWorker + 1) : 1..(k - 1) \subseteq Worker
    BY WorkerAssumption DEF Worker
  <2>4. known' \subseteq Worker
    BY <2>3, <2>a
  <2> QED
    BY <2>2, <2>4 DEF TypeOK
<1>1. CASE UNCHANGED vars
  BY <1>1 DEF vars, TerminatedInv, NoneLeftBehind, Ended, Exits
<1>2. ASSUME NEW w \in Worker, Runs(w) PROVE TerminatedInv' /\ NoneLeftBehind'
  <2>1. UNCHANGED <<owner, known, refed, terminated, pending, got, at, stage, batch, callee, late>>
    BY <1>0, <1>2, ThreadFacts
  <2> QED
    BY <2>1 DEF TerminatedInv, NoneLeftBehind, Ended, Exits
<1>3. ASSUME NEW r \in Runtime, User(r) \/ Steps(r) PROVE TerminatedInv' /\ NoneLeftBehind'
  <2>0. \A q \in Runtime : q = r
    BY DEF OneRuntime
  <2>1. ASSUME stage'[r] = "returned" =>
                 /\ stage[r] = "returned"
                 /\ (known' \cap refed') \ late' \subseteq (known \cap refed) \ late,
               \A w \in Worker : Ended(w) => Ended(w)'
        PROVE  NoneLeftBehind'
    BY <1>0, <1>a, <2>0, <2>1 DEF NoneLeftBehind
  <2>2. CASE User(r) \/ Insert(r) \/ Return(r) \/ Preempt(r)
    <3>1. UNCHANGED <<got, batch, pending, stage>>
      BY <2>2 DEF User, Spawn, PostMessage, StartTerminate, SetRef, Insert, Return, Preempt
    <3>a. stage[r] = "returned" => (known' \cap refed') \ late' \subseteq (known \cap refed) \ late
      BY <2>2 DEF User, Spawn, PostMessage, StartTerminate, SetRef, Insert, Return, Preempt, Holding
    <3>b. \A w \in Worker : Ended(w) => Ended(w)'
      BY <3>1 DEF Ended
    <3>2. \/ UNCHANGED terminated /\ at[r] \notin {"terminate", "join"}
          \/ UNCHANGED <<terminated, callee>> /\ at'[r] \in {"terminate", "join"}
          \/ \E w \in Worker : /\ terminated' = terminated \cup {w} /\ callee'[r] = w
                               /\ at'[r] = "terminate" /\ at[r] = "js"
      BY <1>0, <2>2 DEF User, Spawn, PostMessage, StartTerminate, SetRef, Insert, Return, Preempt,
                        Goes, Holds
    <3>3. TerminatedInv'
      BY <2>0, <3>1, <3>2 DEF TerminatedInv, Ended, Exits
    <3> QED
      BY <2>1, <3>1, <3>3, <3>a, <3>b
  <2>3. CASE Join(r)
    <3> DEFINE w == callee[r]
               e == Event(w, "exit", 0)
    <3>1. /\ UNCHANGED <<batch, pending, terminated, known, refed, late, stage>>
          /\ at[r] = "join" /\ at'[r] = "js"
      BY <1>0, <2>3 DEF Join, Goes
    <3>2. w \in Worker
      BY <1>0, <3>1 DEF CallType
    <3>3. got' = [got EXCEPT ![w] = Append(@, e)]
      BY <2>3 DEF Join
    <3>a. 0 \in 0..1
      OBVIOUS
    <3>b. e \in Events
      BY <3>2, <3>a, EventTypes
    <3>4. e \in Events /\ e.kind = "exit"
      BY <3>b DEF Event
    <3> HIDE DEF w, e
    <3>5. \A v \in Worker : Ended(v)' <=> Ended(v) \/ v = w
      BY <1>0, <3>2, <3>3, <3>4, EndedAppend
    <3>6. TerminatedInv'
      BY <1>0, <2>0, <3>1, <3>5 DEF TerminatedInv, w, Exits
    <3> QED
      BY <2>1, <3>1, <3>5, <3>6
  <2>4. CASE Pump(r) \/ Settle(r)
    <3>0. Take(r) /\ at[r] = "loop" /\ (stage'[r] = "returned" => stage[r] = "returned")
      BY <1>0, <2>4, TakeLeads
    <3>1. /\ UNCHANGED <<got, known, refed, late>> /\ batch[r] = <<>> /\ batch'[r] = pending \o parentRx
          /\ terminated' = terminated \cup (Exits(parentRx) \cap known)
      BY <1>0, <3>0 DEF Take, PlaceInv, Polled
    <3>2. Exits(pending) \cup Exits(parentRx) \subseteq Exits(pending \o parentRx)
      BY <1>0, ExitsConcat
    <3>3. ASSUME NEW v \in terminated' PROVE Ended(v) \/ v \in Exits(pending \o parentRx)
      BY <3>0, <3>1, <3>2, <3>3, ExitsNone DEF TerminatedInv
    <3>a. \A w \in Worker : Ended(w) => Ended(w)'
      BY <3>1 DEF Ended
    <3>4. Exits(batch[r])' = Exits(pending \o parentRx)
      BY <3>1 DEF Exits
    <3>5. TerminatedInv'
      BY <2>0, <3>1, <3>3, <3>4 DEF TerminatedInv, Ended
    <3> QED
      BY <2>1, <3>0, <3>1, <3>5, <3>a
  <2>5. CASE Wait(r)
    <3>1. /\ UNCHANGED <<got, batch>> /\ pending' = pending \o parentRx
          /\ terminated' = terminated \cup (Exits(parentRx) \cap known)
          /\ at[r] = "loop" /\ stage'[r] # "returned"
      BY <1>0, <2>5 DEF Wait, Leads, Polled
    <3>2. Exits(pending) \cup Exits(parentRx) \subseteq Exits(pending \o parentRx)
      BY <1>0, ExitsConcat
    <3>3. ASSUME NEW v \in terminated'
          PROVE  Ended(v) \/ v \in Exits(batch[r]) \/ v \in Exits(pending \o parentRx)
      BY <3>1, <3>2, <3>3 DEF TerminatedInv
    <3>4. Exits(pending)' = Exits(pending \o parentRx) /\ Exits(batch[r])' = Exits(batch[r])
      BY <3>1 DEF Exits
    <3>5. TerminatedInv'
      BY <2>0, <3>1, <3>3, <3>4 DEF TerminatedInv, Ended
    <3>6. \A w \in Worker : Ended(w) => Ended(w)'
      BY <3>1 DEF Ended
    <3> QED
      BY <2>1, <3>1, <3>5, <3>6
  <2>6. CASE Dispatch(r)
    <3>1. /\ UNCHANGED <<pending, terminated, known, refed, late, stage>>
          /\ batch'[r] = Tail(batch[r]) /\ at[r] = "dispatch"
      BY <1>0, <2>6 DEF Dispatch
    <3>2. batch[r] # <<>> /\ batch[r] \in Seq(Events)
      BY <1>0, <3>1 DEF CallType
    <3>a. PICK e \in Events : e = Head(batch[r])
      BY <3>2
    <3>3. PICK w \in Worker : w = e.worker
      BY EventTypes
    <3>4. \/ w \notin objects[r] /\ UNCHANGED got
          \/ w \in objects[r] /\ got' = [got EXCEPT ![w] = Append(@, e)]
      BY <2>6, <3>a, <3>3 DEF Dispatch
    <3>5. \A v \in Worker : Ended(v) => Ended(v)'
      <4>1. CASE UNCHANGED got
        BY <4>1 DEF Ended
      <4>2. CASE got' = [got EXCEPT ![w] = Append(@, e)]
        BY <1>0, <4>2, EndedAppend
      <4> QED
        BY <3>4, <4>1, <4>2
    <3>6. w \in known /\ e.kind = "exit" => Ended(w)'
      <4>1. CASE w \in objects[r]
        BY <1>0, <3>3, <3>4, <4>1, EndedAppend
      <4>2. CASE w \notin objects[r]
        BY <1>0, <3>3, <3>5, <4>2 DEF ObjectInv
      <4> QED
        BY <4>1, <4>2
    <3>7. ASSUME NEW v \in terminated, v \in Exits(batch[r])
          PROVE  Ended(v)' \/ v \in Exits(Tail(batch[r]))
      <4>1. CASE v \notin Exits(Tail(batch[r]))
        <5>1. v = w /\ e.kind = "exit"
          BY <3>2, <3>3, <3>7, <3>a, <4>1, ExitsTail
        <5> QED
          BY <1>0, <3>6, <5>1
      <4> QED
        BY <4>1
    <3>8. Exits(batch[r])' = Exits(Tail(batch[r])) /\ Exits(pending)' = Exits(pending)
      BY <3>1 DEF Exits
    <3>9. TerminatedInv'
      BY <1>0, <2>0, <3>1, <3>5, <3>7, <3>8 DEF TerminatedInv
    <3> QED
      BY <2>1, <3>1, <3>5, <3>9
  <2>7. CASE Check(r)
    <3>1. /\ UNCHANGED <<owner, known, refed, late, got, batch, pending, terminated>>
          /\ at[r] = "loop" /\ stage[r] \in {"test1", "test2"}
          /\ stage'[r] = "returned" => Active = {}
      BY <1>0, <2>7 DEF Check, Leads
    <3>2. TerminatedInv'
      BY <2>0, <3>1 DEF TerminatedInv, Ended, Exits
    <3>3. batch[r] = <<>> /\ pending = <<>>
      BY <1>0, <3>1 DEF PlaceInv
    <3>4. \A w \in terminated : Ended(w)
      BY <3>1, <3>3, ExitsNone DEF TerminatedInv
    <3>a. \A w \in Worker : Ended(w) => Ended(w)'
      BY <3>1 DEF Ended
    <3>5. CASE stage'[r] = "returned"
      <4>1. known \cap refed \subseteq terminated
        BY <3>1, <3>5 DEF Active
      <4>2. \A w \in known \cap refed : Ended(w)
        BY <3>4, <4>1
      <4> QED
        BY <3>1, <3>2, <4>2 DEF NoneLeftBehind, Ended
    <3> QED
      BY <2>1, <3>2, <3>5, <3>a
  <2> QED
    BY <1>3, <2>2, <2>3, <2>4, <2>5, <2>6, <2>7 DEF Loop, Steps
<1> QED
  BY <1>1, <1>2, <1>3 DEF Next, Runs, Steps

\* The only runtime of a process never leaves its loop while a worker that holds it
\* has not reported its exit, for any number of workers, messages and turns: a
\* worker that no longer counts as active has its exit in the batch or behind it,
\* and both tests follow a pump. The user code that still runs after the last test
\* changes nothing for the workers it does not make or ref itself.
THEOREM NeverLeftBehind ==
  ASSUME OneRuntime
  PROVE  Spec => []NoneLeftBehind
<1>1. Init => TerminatedInv /\ NoneLeftBehind
  BY DEF Init, TerminatedInv, NoneLeftBehind
<1>2. HostInv /\ TerminatedInv /\ NoneLeftBehind /\ [Next]_vars
        => (TerminatedInv /\ NoneLeftBehind)'
  BY LeftStep
<1> QED
  BY <1>1, <1>2, HostInvariant, PTL DEF Spec

-----------------------------------------------------------------------------
(* The messages on their way *)

\* Messages come from workers that were started, and the exit of one is its last.
Orderly(q) ==
  /\ \A n \in DOMAIN q : phase[q[n].worker] # "none" /\ (q[n].kind = "exit" => Exited(q[n].worker))
  /\ \A m, n \in DOMAIN q : m < n /\ q[m].kind = "exit" => q[n].worker # q[m].worker

MailInv == \A r \in Runtime : Orderly(Mail(r))

\* Three sequences in a row, one of which grows or shrinks.
LEMMA ThreeAppend ==
  ASSUME NEW S, NEW a \in Seq(S), NEW b \in Seq(S), NEW c \in Seq(S), NEW e \in S
  PROVE  a \o b \o Append(c, e) = Append(a \o b \o c, e)
<1>1. a \o b \in Seq(S)
  OBVIOUS
<1>2. \A q \in Seq(S) : q \o Append(c, e) = Append(q \o c, e)
  <2> TAKE q \in Seq(S)
  <2>1. Append(c, e) = c \o <<e>> /\ Append(q \o c, e) = (q \o c) \o <<e>> /\ <<e>> \in Seq(S)
    BY AppendIsConcat
  <2> QED
    BY <2>1, ConcatAssociative
<1> QED
  BY <1>1, <1>2

\* The same when the first of them loses its head.
LEMMA ThreeTail ==
  ASSUME NEW a \in Seq(Events), NEW b \in Seq(Events), NEW c \in Seq(Events), a # <<>>
  PROVE  /\ a \o b \o c # <<>> /\ Head(a \o b \o c) = Head(a)
         /\ Tail(a) \o b \o c = Tail(a \o b \o c)
<1>1. ASSUME NEW p \in Seq(Events), NEW q \in Seq(Events), p # <<>>
      PROVE  p \o q # <<>> /\ Head(p \o q) = Head(p) /\ Tail(p \o q) = Tail(p) \o q
  <2>1. /\ Len(p) \in Nat \ {0} /\ Len(q) \in Nat
        /\ p \o q \in Seq(Events) /\ Len(p \o q) = Len(p) + Len(q)
    BY <1>1
  <2>2. /\ Tail(p \o q) \in Seq(Events) /\ Len(Tail(p \o q)) = Len(p) + Len(q) - 1
        /\ Tail(p) \in Seq(Events) /\ Len(Tail(p)) = Len(p) - 1
        /\ Tail(p) \o q \in Seq(Events) /\ Len(Tail(p) \o q) = Len(p) - 1 + Len(q)
    BY <2>1
  <2>3. ASSUME NEW n \in 1..Len(Tail(p \o q))
        PROVE  Tail(p \o q)[n] = (Tail(p) \o q)[n]
    <3>1. Tail(p \o q)[n] = (p \o q)[n + 1]
      BY <2>1, <2>2
    <3>2. CASE n <= Len(p) - 1
      BY <2>1, <2>2, <3>1, <3>2
    <3>3. CASE n > Len(p) - 1
      BY <2>1, <2>2, <3>1, <3>3
    <3> QED
      BY <2>1, <2>2, <3>2, <3>3, SMTT(30)
  <2>4. Tail(p \o q) = Tail(p) \o q
    BY <2>2, <2>3, SeqEqual
  <2> QED
    BY <2>1, <2>4
<1>2. /\ a \o b \in Seq(Events) /\ a \o b # <<>>
      /\ Head(a \o b) = Head(a) /\ Tail(a \o b) = Tail(a) \o b
  BY <1>1
<1>3. /\ (a \o b) \o c # <<>> /\ Head((a \o b) \o c) = Head(a \o b)
      /\ Tail((a \o b) \o c) = Tail(a \o b) \o c
  BY <1>1, <1>2
<1> QED
  BY <1>2, <1>3

\* No event of w, nothing to select.
LEMMA OnlyNone ==
  ASSUME NEW S, NEW s \in Seq(S), NEW w, \A n \in DOMAIN s : s[n].worker # w
  PROVE  Only(s, w) = <<>>
<1>1. PICK f \in [0..Len(s) -> Seq(S)] : Filters(f, s, w, Len(s)) /\ Only(s, w) = f[Len(s)]
  BY OnlyIsFilter
<1>a. Len(s) \in Nat /\ DOMAIN s = 1..Len(s)
  OBVIOUS
<1> DEFINE T == {m \in 0..Len(s) : f[m] # <<>>}
<1>2. T = {}
  <2> SUFFICES ASSUME T # {}
               PROVE  FALSE
    OBVIOUS
  <2>0. T # {} /\ T \in SUBSET Nat
    BY <1>a
  <2>1. PICK x \in T : \A y \in T : x <= y
    BY <2>0, LeastNumber
  <2>2. x \in 1..Len(s) /\ x - 1 \in 0..Len(s) /\ ~(x <= x - 1)
    BY <1>1, <1>a, <2>1 DEF Filters
  <2>3. f[x] = With(f[x - 1], s[x], w) /\ s[x].worker # w
    BY <1>1, <1>a, <2>2 DEF Filters
  <2> QED
    BY <2>1, <2>2, <2>3 DEF With
<1>3. Len(s) \in 0..Len(s)
  BY <1>a
<1> QED
  BY <1>1, <1>2, <1>3

\* What a step does to the messages of the only runtime.
LEMMA MailTyped == HostType => \A r \in Runtime : Mail(r) \in Seq(Events)
<1>1. HostType => /\ batch \in [Runtime -> Seq(Events)]
                  /\ pending \in Seq(Events) /\ parentRx \in Seq(Events)
  BY DEF HostType, TypeOK
<1> QED
  BY <1>1 DEF Mail

\* What a worker sends comes last.
LEMMA MailSent ==
  ASSUME HostType, NEW r \in Runtime, NEW e \in Events,
         UNCHANGED <<batch, pending>>, parentRx' = Append(parentRx, e)
  PROVE  Mail(r)' = Append(Mail(r), e)
<1>1. batch[r] \in Seq(Events) /\ pending \in Seq(Events) /\ parentRx \in Seq(Events)
  BY DEF HostType, TypeOK
<1>2. Mail(r)' = batch[r] \o pending \o Append(parentRx, e)
  BY DEF Mail
<1>3. PICK a \in Seq(Events), b \in Seq(Events), c \in Seq(Events) :
        a = batch[r] /\ b = pending /\ c = parentRx
  BY <1>1
<1>4. a \o b \o Append(c, e) = Append(a \o b \o c, e)
  BY ThreeAppend
<1> QED
  BY <1>2, <1>3, <1>4, Zenon DEF Mail

\* A dispatch takes the oldest message.
LEMMA MailTaken ==
  ASSUME HostType, NEW r \in Runtime, Dispatch(r)
  PROVE  /\ batch[r] # <<>> /\ Mail(r) # <<>> /\ Head(Mail(r)) = Head(batch[r])
         /\ Mail(r)' = Tail(Mail(r))
<1>1. /\ batch \in [Runtime -> Seq(Events)] /\ batch[r] \in Seq(Events)
      /\ pending \in Seq(Events) /\ parentRx \in Seq(Events)
  BY DEF HostType, TypeOK
<1>2. batch[r] # <<>>
  BY DEF Dispatch, HostType, CallType
<1>3. UNCHANGED <<pending, parentRx>> /\ batch'[r] = Tail(batch[r])
  BY <1>1 DEF Dispatch, hostVars
<1>4. Mail(r)' = Tail(batch[r]) \o pending \o parentRx
  BY <1>3 DEF Mail
<1>5. PICK a \in Seq(Events), b \in Seq(Events), c \in Seq(Events) :
        a = batch[r] /\ b = pending /\ c = parentRx /\ a # <<>>
  BY <1>1, <1>2
<1>a. a # <<>>
  BY <1>5
<1>b. \A x, y, z \in Seq(Events) : x # <<>> =>
        /\ x \o y \o z # <<>> /\ Head(x \o y \o z) = Head(x)
        /\ Tail(x) \o y \o z = Tail(x \o y \o z)
  BY ThreeTail
<1>6. /\ a \o b \o c # <<>> /\ Head(a \o b \o c) = Head(a)
      /\ Tail(a) \o b \o c = Tail(a \o b \o c)
  BY <1>a, <1>b, Zenon
<1>7. Mail(r) = a \o b \o c /\ Mail(r)' = Tail(a) \o b \o c
  BY <1>4, <1>5, Zenon DEF Mail
<1> QED
  BY <1>2, <1>5, <1>6, <1>7, Zenon

\* Everything else the runtime does only moves messages forward.
LEMMA MailKept ==
  ASSUME HostInv, NEW r \in Runtime, User(r) \/ (Steps(r) /\ ~Dispatch(r))
  PROVE  Mail(r)' = Mail(r)
<1>1. /\ batch \in [Runtime -> Seq(Events)] /\ batch[r] \in Seq(Events)
      /\ pending \in Seq(Events) /\ parentRx \in Seq(Events)
  BY DEF HostInv, HostType, TypeOK
<1>a. \A q \in Seq(Events) : <<>> \o q = q /\ q \o <<>> = q
  BY ConcatEmptySeq
<1>2. CASE Pump(r) \/ Settle(r)
  <2>0. Take(r) /\ at[r] = "loop"
    BY <1>2, TakeLeads DEF HostInv
  <2>1. /\ batch[r] = <<>> /\ batch'[r] = pending \o parentRx
        /\ pending' = <<>> /\ parentRx' = <<>>
    BY <1>1, <2>0 DEF Take, HostInv, PlaceInv
  <2>2. Mail(r)' = (pending \o parentRx) \o <<>> \o <<>>
    BY <2>1 DEF Mail
  <2>3. Mail(r) = <<>> \o pending \o parentRx
    BY <2>1 DEF Mail
  <2>4. pending \o parentRx \in Seq(Events)
    BY <1>1
  <2> QED
    BY <1>1, <1>a, <2>2, <2>3, <2>4
<1>3. CASE Wait(r)
  <2>1. /\ batch[r] = <<>> /\ batch' = batch /\ pending' = pending \o parentRx /\ parentRx' = <<>>
    BY <1>3 DEF Wait, HostInv, PlaceInv
  <2>2. Mail(r)' = <<>> \o (pending \o parentRx) \o <<>>
    BY <2>1 DEF Mail
  <2>3. Mail(r) = <<>> \o pending \o parentRx
    BY <2>1 DEF Mail
  <2>4. pending \o parentRx \in Seq(Events)
    BY <1>1
  <2> QED
    BY <1>1, <1>a, <2>2, <2>3, <2>4
<1>4. CASE User(r) \/ Insert(r) \/ Preempt(r) \/ Join(r) \/ Return(r) \/ Check(r)
  <2>1. UNCHANGED <<batch, pending, parentRx>>
    BY <1>4 DEF User, Spawn, PostMessage, StartTerminate, SetRef, Insert, Preempt, Join, Return,
                Check, hostVars, loopVars
  <2> QED
    BY <2>1 DEF Mail
<1> QED
  BY <1>2, <1>3, <1>4 DEF Loop, Steps

\* What a runtime's own steps do to the threads: they start new ones.
LEMMA RuntimeStarts ==
  ASSUME HostType, NEW r \in Runtime, User(r) \/ Steps(r)
  PROVE  \A w \in Worker : /\ phase[w] # "none" => phase'[w] = phase[w]
                           /\ Exited(w)' <=> Exited(w)
<1>0. TypeOK /\ CallType /\ phase \in [Worker -> Phases]
  BY DEF HostType, TypeOK
<1>1. CASE Spawn(r)
  <2>1. nextWorker \in Worker /\ nextWorker >= nextWorker
    BY <1>0, <1>1, WorkerAssumption DEF Spawn, TypeOK, Worker
  <2>2. phase[nextWorker] = "none"
    BY <1>0, <2>1 DEF CallType
  <2>3. UNCHANGED phase \/ phase' = [phase EXCEPT ![nextWorker] = "starting"]
    BY <1>1 DEF Spawn
  <2> QED
    BY <1>0, <2>2, <2>3 DEF Exited
<1>2. CASE ~Spawn(r)
  <2>1. UNCHANGED phase
    BY <1>2 DEF User, PostMessage, StartTerminate, SetRef, Loop, Insert, Preempt, Join, Return,
                Pump, Settle, Take, Steps, Dispatch, Check, Wait, threadVars
  <2> QED
    BY <2>1 DEF Exited
<1> QED
  BY <1>1, <1>2

\* The order of the messages is kept by every step.
LEMMA MailStep ==
  ASSUME OneRuntime, HostInv, MailInv, [Next]_vars
  PROVE  MailInv'
<1> SUFFICES ASSUME NEW r \in Runtime
             PROVE  Orderly(Mail(r))'
  BY DEF MailInv
<1>0. HostType /\ Orderly(Mail(r)) /\ phase \in [Worker -> Phases]
  BY DEF MailInv, HostInv, HostType, TypeOK
<1>a. Mail(r) \in Seq(Events)
  BY <1>0, MailTyped
<1>b. \A n \in DOMAIN Mail(r) : Mail(r)[n].worker \in Worker
  BY <1>a, EventTypes
<1>1. ASSUME Mail(r)' = Mail(r),
             \A w \in Worker : /\ phase[w] # "none" => phase'[w] # "none"
                               /\ Exited(w) => Exited(w)'
      PROVE  Orderly(Mail(r))'
  BY <1>0, <1>1, <1>b DEF Orderly
<1>2. CASE UNCHANGED vars
  <2>1. Mail(r)' = Mail(r) /\ UNCHANGED phase
    BY <1>2 DEF vars, Mail, hostVars, loopVars, threadVars
  <2> QED
    BY <1>1, <2>1 DEF Exited
<1>3. ASSUME NEW q \in Runtime, User(q) \/ Steps(q) PROVE Orderly(Mail(r))'
  <2>1. q = r
    BY DEF OneRuntime
  <2>2. \A w \in Worker : /\ phase[w] # "none" => phase'[w] = phase[w]
                          /\ Exited(w)' <=> Exited(w)
    BY <1>0, <1>3, RuntimeStarts
  <2>3. CASE Dispatch(r)
    <3>1. PICK t \in Seq(Events) : t = Mail(r) /\ t # <<>> /\ Mail(r)' = Tail(t)
      BY <1>0, <1>a, <2>3, MailTaken
    <3>2. \A n \in DOMAIN Tail(t) : n + 1 \in DOMAIN t /\ Tail(t)[n] = t[n + 1]
      BY <3>1
    <3>3. \A m, n \in DOMAIN Tail(t) : m < n => m + 1 < n + 1
      BY <3>1
    <3>4. \A n \in DOMAIN t : t[n].worker \in Worker
      BY <1>b, <3>1
    <3>5. Orderly(t)
      BY <1>0, <3>1
    <3> QED
      BY <2>2, <3>1, <3>2, <3>3, <3>4, <3>5 DEF Orderly
  <2>4. CASE ~Dispatch(r)
    <3>1. Mail(r)' = Mail(r)
      BY <1>3, <2>1, <2>4, MailKept
    <3> QED
      BY <1>1, <2>2, <3>1
  <2> QED
    BY <2>3, <2>4
<1>4. ASSUME NEW w \in Worker, Runs(w) PROVE Orderly(Mail(r))'
  <2>0. /\ UNCHANGED <<batch, pending>>
        /\ phase[w] # "none" /\ \A v \in Worker : v # w => phase'[v] = phase[v]
        /\ \/ UNCHANGED parentRx /\ (Exited(w)' <=> Exited(w))
           \/ \E e \in Events : /\ parentRx' = Append(parentRx, e) /\ e.worker = w
                                /\ ~Exited(w) /\ (Exited(w)' <=> e.kind = "exit")
    BY <1>0, <1>4, ThreadFacts
  <2>1. phase'[w] # "none"
    BY <1>0, <1>4 DEF Runs, Thread, Register, Bootstrap, LoopTop, Receive, TimerDue, SendExit, End,
       CodeReturns, ScriptEnds, HandlerEnds, ScriptFails, SetupFails, SendMessage, Moves
  <2>2. CASE UNCHANGED parentRx /\ (Exited(w)' <=> Exited(w))
    <3>1. Mail(r)' = Mail(r)
      BY <2>0, <2>2 DEF Mail
    <3>2. \A v \in Worker : /\ phase[v] # "none" => phase'[v] # "none"
                            /\ Exited(v) => Exited(v)'
      BY <2>0, <2>1, <2>2 DEF Exited
    <3> QED
      BY <1>1, <3>1, <3>2
  <2>3. ASSUME NEW e \in Events, parentRx' = Append(parentRx, e), e.worker = w,
               ~Exited(w), Exited(w)' <=> e.kind = "exit"
        PROVE  Orderly(Mail(r))'
    <3>1. PICK t \in Seq(Events) : t = Mail(r) /\ Mail(r)' = Append(t, e)
      BY <1>0, <1>a, <2>0, <2>3, MailSent
    <3> DEFINE u == Append(t, e)
    <3>2. /\ DOMAIN u = 1..(Len(t) + 1) /\ DOMAIN t = 1..Len(t) /\ Len(t) \in Nat
          /\ u[Len(t) + 1] = e /\ \A n \in 1..Len(t) : u[n] = t[n]
      OBVIOUS
    <3> HIDE DEF u
    <3>3. Orderly(t) /\ \A n \in DOMAIN t : t[n].worker \in Worker
      BY <1>0, <1>b, <3>1
    <3>4. \A n \in DOMAIN t : t[n].kind = "exit" => t[n].worker # w
      BY <2>3, <3>3 DEF Orderly
    <3>5. ASSUME NEW n \in DOMAIN u
          PROVE  phase'[u[n].worker] # "none" /\ (u[n].kind = "exit" => Exited(u[n].worker)')
      <4>1. CASE n = Len(t) + 1
        BY <2>1, <2>3, <3>2, <4>1
      <4>2. CASE n # Len(t) + 1
        <5>1. n \in DOMAIN t /\ u[n] = t[n]
          BY <3>2, <4>2
        <5>2. PICK v \in Worker : v = t[n].worker
          BY <3>3, <5>1
        <5>3. phase[v] # "none" /\ (t[n].kind = "exit" => Exited(v) /\ v # w)
          BY <3>3, <3>4, <5>1, <5>2 DEF Orderly
        <5> QED
          BY <2>0, <2>1, <5>1, <5>2, <5>3 DEF Exited
      <4> QED
        BY <4>1, <4>2
    <3>6. ASSUME NEW m \in DOMAIN u, NEW n \in DOMAIN u, m < n, u[m].kind = "exit"
          PROVE  u[n].worker # u[m].worker
      <4>1. m \in DOMAIN t /\ u[m] = t[m] /\ (n = Len(t) + 1 \/ (n \in DOMAIN t /\ u[n] = t[n]))
        BY <3>2, <3>6
      <4>2. CASE n = Len(t) + 1
        BY <2>3, <3>2, <3>4, <3>6, <4>1, <4>2
      <4>3. CASE n \in DOMAIN t /\ u[n] = t[n]
        BY <3>3, <3>6, <4>1, <4>3 DEF Orderly
      <4> QED
        BY <4>1, <4>2, <4>3
    <3>7. Mail(r)' = u
      BY <3>1 DEF u
    <3> QED
      BY <3>5, <3>6, <3>7 DEF Orderly
  <2> QED
    BY <2>0, <2>2, <2>3
<1> QED
  BY <1>2, <1>3, <1>4 DEF Next, Runs, Steps

\* Nothing is on its way at first.
LEMMA MailInit == Init => MailInv
<1> SUFFICES ASSUME Init, NEW r \in Runtime
             PROVE  Orderly(Mail(r))
  BY DEF MailInv
<1>1. <<>> \o <<>> = <<>> /\ Mail(r) = <<>> \o <<>> \o <<>>
  BY DEF Init, Mail
<1>2. Mail(r) = <<>>
  BY <1>1
<1> QED
  BY <1>2 DEF Orderly

-----------------------------------------------------------------------------
(* The stream of each worker *)

\* What the mapping shows of the only runtime before and after a step.
LEMMA StreamViews ==
  ASSUME OneRuntime, HostType, HostType', NEW r \in Runtime
  PROVE  /\ Transit = [w \in Worker |-> IF Ended(w) THEN <<>> ELSE Only(Mail(r), w)]
         /\ Transit' = [w \in Worker |-> IF Ended(w)' THEN <<>> ELSE Only(Mail(r)', w)]
         /\ Closed = {w \in Worker : Exited(w) \/ Ended(w)}
         /\ Closed' = {w \in Worker : Exited(w)' \/ Ended(w)'}
<1>1. \A w \in Worker : owner[w] = r /\ owner'[w] = r
  BY DEF OneRuntime, HostType, TypeOK
<1>2. \A w \in Worker : InTransit(w) = IF Ended(w) THEN <<>> ELSE Only(Mail(r), w)
  BY <1>1 DEF InTransit
<1>3. \A w \in Worker : InTransit(w)' = IF Ended(w)' THEN <<>> ELSE Only(Mail(r)', w)
  BY <1>1 DEF InTransit
<1>4. Transit = [w \in Worker |-> IF Ended(w) THEN <<>> ELSE Only(Mail(r), w)]
  BY <1>2, Zenon DEF Transit
<1>5. Transit' = [w \in Worker |-> IF Ended(w)' THEN <<>> ELSE Only(Mail(r)', w)]
  BY <1>3, Zenon DEF Transit
<1>6. /\ Closed = {w \in Worker : Exited(w) \/ Ended(w)}
      /\ Closed' = {w \in Worker : Exited(w)' \/ Ended(w)'}
  BY DEF Closed, Exited
<1> QED
  BY <1>4, <1>5, <1>6

\* Steps that neither send, deliver nor cut leave the streams alone.
LEMMA StreamRests ==
  ASSUME OneRuntime, HostType, HostType', NEW r \in Runtime, UNCHANGED <<got, dead>>, Mail(r)' = Mail(r),
         \A w \in Worker : Exited(w)' <=> Exited(w)
  PROVE  UNCHANGED Stream!vars
<1>1. \A w \in Worker : Ended(w)' <=> Ended(w)
  BY DEF Ended
<1>2. Transit' = Transit
  BY <1>1, StreamViews, Zenon
<1>3. Closed' = Closed
  BY <1>1, StreamViews
<1> QED
  BY <1>2, <1>3 DEF Stream!vars

\* What a worker sends enters its stream, unless terminate() has cut that.
LEMMA StreamSend ==
  ASSUME OneRuntime, HostType, HostType', NEW r \in Runtime, NEW w \in Worker, NEW e \in Events,
         UNCHANGED <<got, dead>>, Mail(r)' = Append(Mail(r), e), e.worker = w,
         \A v \in Worker : v # w => (Exited(v)' <=> Exited(v)),
         ~Exited(w), Exited(w)' <=> e.kind = "exit"
  PROVE  Stream!Send(w, e) \/ UNCHANGED Stream!vars
<1>1. \A v \in Worker : Ended(v)' <=> Ended(v)
  BY DEF Ended
<1>2. PICK t \in Seq(Events) : t = Mail(r) /\ Mail(r)' = Append(t, e)
  BY MailTyped
<1>3. \A v \in Worker : Only(Append(t, e), v) = With(Only(t, v), e, v)
  BY OnlyAppend
<1>4. /\ \A v \in Worker : v # w => Only(Append(t, e), v) = Only(t, v)
      /\ Only(Append(t, e), w) = Append(Only(t, w), e)
  BY <1>3 DEF With
<1>5. /\ Transit = [v \in Worker |-> IF Ended(v) THEN <<>> ELSE Only(t, v)]
      /\ Transit' = [v \in Worker |-> IF Ended(v)' THEN <<>> ELSE Only(Append(t, e), v)]
      /\ Closed = {v \in Worker : Exited(v) \/ Ended(v)}
      /\ Closed' = {v \in Worker : Exited(v)' \/ Ended(v)'}
  BY <1>2, StreamViews
<1>6. CASE Ended(w)
  <2>1. \A v \in Worker : (IF Ended(v)' THEN <<>> ELSE Only(Append(t, e), v))
                            = (IF Ended(v) THEN <<>> ELSE Only(t, v))
    BY <1>1, <1>4, <1>6
  <2>2. Transit' = Transit
    BY <1>5, <2>1, Zenon
  <2>3. Closed' = Closed
    BY <1>1, <1>5, <1>6
  <2> QED
    BY <2>2, <2>3 DEF Stream!vars
<1>7. CASE ~Ended(w)
  <2>1. w \notin Closed
    BY <1>5, <1>7
  <2>2. Closed' = IF e.kind = "exit" THEN Closed \cup {w} ELSE Closed
    BY <1>1, <1>5, <1>7
  <2>3. /\ DOMAIN Transit = Worker /\ DOMAIN Transit' = Worker
        /\ Transit'[w] = Append(Transit[w], e)
        /\ \A v \in Worker : v # w => Transit'[v] = Transit[v]
    BY <1>1, <1>4, <1>5, <1>7
  <2>4. Transit' = [Transit EXCEPT ![w] = Append(@, e)]
    BY <1>5, <2>3, ZenonT(60)
  <2> QED
    BY <2>1, <2>2, <2>4 DEF Stream!Send
<1> QED
  BY <1>6, <1>7

\* terminate() cuts the stream of a worker that has not ended.
LEMMA StreamCut ==
  ASSUME OneRuntime, HostInv, HostType', NEW r \in Runtime, Join(r)
  PROVE  \E w \in Worker : \E e \in Events : Stream!Cut(w, e)
<1>0. at[r] = "join" /\ objects[r] \subseteq known /\ known \subseteq Worker
  BY KnownWorkers DEF Join, HostInv, HostType, TypeOK
<1>a. callee[r] \in objects[r]
  BY <1>0 DEF HostInv, CallInv
<1>1. PICK w \in Worker : w = callee[r] /\ ~Ended(w)
  BY <1>0, <1>a DEF HostInv, ObjectInv
<1>2. PICK e \in Events : e = Event(w, "exit", 0) /\ e.kind = "exit" /\ e.n = 0
  <2>1. 0 \in 0..1 /\ Event(w, "exit", 0).kind = "exit" /\ Event(w, "exit", 0).n = 0
    BY DEF Event
  <2>2. Event(w, "exit", 0) \in Events
    BY <2>1, EventTypes
  <2> QED
    BY <2>1, <2>2
<1>3. HostType
  BY DEF HostInv
<1>4. got' = [got EXCEPT ![w] = Append(@, e)] /\ UNCHANGED dead
  BY <1>1, <1>2 DEF Join
<1>b. w \in dead
  BY <1>0, <1>1 DEF HostInv, CallInv
<1>5. Mail(r)' = Mail(r) /\ UNCHANGED phase
  BY MailKept DEF Loop, Steps, Join, Dispatch, threadVars
<1>6. \A v \in Worker : Ended(v)' <=> Ended(v) \/ v = w
  BY <1>2, <1>3, <1>4, EndedAppend
<1>7. \A v \in Worker : Exited(v)' <=> Exited(v)
  BY <1>5 DEF Exited
<1>8. Closed' = Closed \cup {w}
  BY <1>3, <1>6, <1>7, StreamViews
<1>9. /\ DOMAIN Transit = Worker /\ DOMAIN Transit' = Worker /\ Transit'[w] = <<>>
      /\ \A v \in Worker : v # w => Transit'[v] = Transit[v]
  BY <1>3, <1>5, <1>6, StreamViews
<1>10. Transit' = [Transit EXCEPT ![w] = <<>>]
  BY <1>3, <1>9, StreamViews
<1>11. Stream!Cut(w, e)
  BY <1>1, <1>2, <1>4, <1>8, <1>10, <1>b DEF Stream!Cut, Stream!Ended, Ended
<1> QED
  BY <1>11

\* The loop delivers the oldest event of a stream that terminate() has not cut.
LEMMA StreamDeliver ==
  ASSUME OneRuntime, HostInv, MailInv, HostType', NEW r \in Runtime, Dispatch(r)
  PROVE  (\E w \in Worker : Stream!Deliver(w)) \/ UNCHANGED Stream!vars
<1>0. HostType
  BY DEF HostInv
<1>1. PICK t \in Seq(Events) : t = Mail(r) /\ t # <<>> /\ Head(t) = Head(batch[r])
                               /\ Mail(r)' = Tail(t) /\ Orderly(t)
  BY <1>0, MailTaken, MailTyped DEF MailInv
<1>2. PICK e \in Events : e = Head(t) /\ e = Head(batch[r])
  BY <1>1
<1>3. PICK w \in Worker : w = e.worker
  BY EventTypes
<1>4. \A v \in Worker : Exited(v)' <=> Exited(v)
  BY <1>0, RuntimeStarts DEF Loop, Steps
<1>5. /\ Transit = [v \in Worker |-> IF Ended(v) THEN <<>> ELSE Only(t, v)]
      /\ Transit' = [v \in Worker |-> IF Ended(v)' THEN <<>> ELSE Only(Tail(t), v)]
      /\ Closed = {v \in Worker : Exited(v) \/ Ended(v)}
      /\ Closed' = {v \in Worker : Exited(v)' \/ Ended(v)'}
  BY <1>0, <1>1, StreamViews
<1>a. t # <<>> /\ Head(t).worker = w
  BY <1>1, <1>2, <1>3
<1>6. /\ \A v \in Worker : v # w => Only(Tail(t), v) = Only(t, v)
      /\ Only(t, w) # <<>> /\ Head(Only(t, w)) = e /\ Tail(Only(t, w)) = Only(Tail(t), w)
  <2>1. \A v \in Worker : Head(t).worker # v => Only(Tail(t), v) = Only(t, v)
    BY <1>a, OnlyTail
  <2>2. Only(t, w) # <<>> /\ Head(Only(t, w)) = Head(t) /\ Tail(Only(t, w)) = Only(Tail(t), w)
    BY <1>a, OnlyTail
  <2> QED
    BY <1>2, <1>a, <2>1, <2>2
<1>7. phase[w] # "none" /\ (e.kind = "exit" => Exited(w))
  <2>1. 1 \in DOMAIN t /\ t[1] = e
    BY <1>1, <1>2
  <2> QED
    BY <1>1, <1>3, <2>1 DEF Orderly
<1>8. CASE w \notin objects[r]
  <2>1. w \in known
    BY <1>7 DEF Dispatch, HostInv, CallInv, OneRuntime
  <2>2. Ended(w)
    BY <1>8, <2>1 DEF HostInv, ObjectInv
  <2>3. UNCHANGED <<got, dead>>
    BY <1>2, <1>3, <1>8 DEF Dispatch, objectVars
  <2>4. \A v \in Worker : Ended(v)' <=> Ended(v)
    BY <2>3 DEF Ended
  <2>5. \A v \in Worker : (IF Ended(v)' THEN <<>> ELSE Only(Tail(t), v))
                            = (IF Ended(v) THEN <<>> ELSE Only(t, v))
    BY <1>6, <2>2, <2>4
  <2>6. Transit' = Transit
    BY <1>5, <2>5, Zenon
  <2>7. Closed' = Closed
    BY <1>4, <1>5, <2>4
  <2> QED
    BY <2>3, <2>6, <2>7 DEF Stream!vars
<1>9. CASE w \in objects[r]
  <2>1. ~Ended(w)
    BY <1>9 DEF HostInv, ObjectInv
  <2>2. got' = [got EXCEPT ![w] = Append(@, e)]
    BY <1>2, <1>3, <1>9 DEF Dispatch
  <2>3. \A v \in Worker : Ended(v)' <=> Ended(v) \/ (v = w /\ e.kind = "exit")
    BY <1>0, <2>2, EndedAppend
  <2>4. Closed' = Closed
    BY <1>4, <1>5, <1>7, <2>3
  <2>5. e.kind = "exit" => Only(Tail(t), w) = <<>>
    <3> SUFFICES ASSUME e.kind = "exit"
                 PROVE  Only(Tail(t), w) = <<>>
      OBVIOUS
    <3>1. /\ Tail(t) \in Seq(Events) /\ 1 \in DOMAIN t /\ t[1] = e
          /\ \A n \in DOMAIN Tail(t) : n + 1 \in DOMAIN t /\ 1 < n + 1 /\ Tail(t)[n] = t[n + 1]
      BY <1>1, <1>2
    <3>2. \A n \in DOMAIN Tail(t) : Tail(t)[n].worker # w
      BY <1>1, <1>3, <3>1 DEF Orderly
    <3> QED
      BY <3>1, <3>2, OnlyNone
  <2>6. /\ DOMAIN Transit = Worker /\ DOMAIN Transit' = Worker
        /\ Transit[w] # <<>> /\ Head(Transit[w]) = e /\ Transit'[w] = Tail(Transit[w])
        /\ \A v \in Worker : v # w => Transit'[v] = Transit[v]
    BY <1>5, <1>6, <2>1, <2>3, <2>5
  <2>7. Transit' = [Transit EXCEPT ![w] = Tail(@)]
    BY <1>5, <2>6
  <2>a. w \notin dead
    BY <1>9 DEF Dispatch, HostInv, CallInv
  <2>b. dead' = IF e.kind = "exit" THEN dead \cup {w} ELSE dead
    BY <1>2, <1>3, <1>9 DEF Dispatch
  <2>8. Stream!Deliver(w)
    BY <2>2, <2>4, <2>6, <2>7, <2>a, <2>b DEF Stream!Deliver
  <2> QED
    BY <2>8
<1> QED
  BY <1>8, <1>9

\* terminate() stops a stream when it is called.
LEMMA StreamStop ==
  ASSUME OneRuntime, HostInv, HostType', NEW r \in Runtime, NEW w \in Worker, StartTerminate(r, w)
  PROVE  Stream!Stop(w)
<1>0. HostType
  BY DEF HostInv
<1>1. /\ w \notin dead /\ dead' = dead \cup {w} /\ UNCHANGED got
      /\ User(r) /\ UNCHANGED phase
  BY DEF StartTerminate, User, threadVars
<1>2. Mail(r)' = Mail(r) /\ \A v \in Worker : Exited(v)' <=> Exited(v)
  BY <1>1, MailKept DEF Exited
<1>3. \A v \in Worker : Ended(v)' <=> Ended(v)
  BY <1>1 DEF Ended
<1>4. Transit' = Transit
  BY <1>0, <1>2, <1>3, StreamViews, Zenon
<1>5. Closed' = Closed
  BY <1>0, <1>2, <1>3, StreamViews
<1> QED
  BY <1>1, <1>4, <1>5 DEF Stream!Stop

\* Every step is a step of the streams, or none.
LEMMA StreamStep ==
  ASSUME OneRuntime, HostInv, MailInv, [Next]_vars
  PROVE  [Stream!Next]_(Stream!vars)
<1>0. HostType /\ HostType'
  BY HostStep DEF HostInv
<1>1. CASE UNCHANGED vars
  <2>1. PICK r \in Runtime : TRUE
    BY WorkerAssumption
  <2>2. Mail(r)' = Mail(r) /\ UNCHANGED <<got, dead>> /\ \A w \in Worker : Exited(w)' <=> Exited(w)
    BY <1>1 DEF vars, Mail, Exited, hostVars, loopVars, threadVars, objectVars
  <2> QED
    BY <1>0, <2>2, StreamRests
<1>2. ASSUME NEW r \in Runtime, User(r) \/ Steps(r) PROVE [Stream!Next]_(Stream!vars)
  <2>1. CASE Dispatch(r)
    BY <1>0, <2>1, StreamDeliver DEF Stream!Next
  <2>2. CASE Join(r)
    BY <1>0, <2>2, StreamCut DEF Stream!Next
  <2>a. ASSUME NEW w \in Worker, StartTerminate(r, w) PROVE [Stream!Next]_(Stream!vars)
    BY <1>0, <2>a, StreamStop DEF Stream!Next
  <2>3. CASE ~Dispatch(r) /\ ~Join(r) /\ \A w \in Worker : ~StartTerminate(r, w)
    <3>1. UNCHANGED <<got, dead>>
      BY <1>2, <2>3 DEF User, Spawn, PostMessage, SetRef, Loop, Steps, Insert, Preempt,
                        Return, Pump, Settle, Take, Check, Wait, objectVars
    <3>2. Mail(r)' = Mail(r)
      BY <1>2, <2>3, MailKept
    <3>3. \A w \in Worker : Exited(w)' <=> Exited(w)
      BY <1>0, <1>2, RuntimeStarts
    <3> QED
      BY <1>0, <3>1, <3>2, <3>3, StreamRests
  <2> QED
    BY <2>1, <2>2, <2>3, <2>a
<1>3. ASSUME NEW w \in Worker, Runs(w) PROVE [Stream!Next]_(Stream!vars)
  <2>1. PICK r \in Runtime : TRUE
    BY WorkerAssumption
  <2>2. /\ UNCHANGED <<batch, pending, got, dead>>
        /\ \A v \in Worker : v # w => phase'[v] = phase[v]
        /\ \/ UNCHANGED parentRx /\ (Exited(w)' <=> Exited(w))
           \/ \E e \in Events : /\ parentRx' = Append(parentRx, e) /\ e.worker = w
                                /\ ~Exited(w) /\ (Exited(w)' <=> e.kind = "exit")
    BY <1>0, <1>3, ThreadFacts
  <2>3. \A v \in Worker : v # w => (Exited(v)' <=> Exited(v))
    BY <2>2 DEF Exited
  <2>4. CASE UNCHANGED parentRx /\ (Exited(w)' <=> Exited(w))
    <3>1. Mail(r)' = Mail(r)
      BY <2>2, <2>4 DEF Mail
    <3>2. \A v \in Worker : Exited(v)' <=> Exited(v)
      BY <2>3, <2>4
    <3> QED
      BY <1>0, <2>2, <3>1, <3>2, StreamRests
  <2>5. ASSUME NEW e \in Events, parentRx' = Append(parentRx, e), e.worker = w,
               ~Exited(w), Exited(w)' <=> e.kind = "exit"
        PROVE  [Stream!Next]_(Stream!vars)
    <3>1. Mail(r)' = Append(Mail(r), e)
      BY <1>0, <2>2, <2>5, MailSent
    <3>2. Stream!Send(w, e) \/ UNCHANGED Stream!vars
      BY <1>0, <2>2, <2>3, <2>5, <3>1, StreamSend
    <3> QED
      BY <3>2 DEF Stream!Next
  <2> QED
    BY <2>2, <2>4, <2>5
<1> QED
  BY <1>1, <1>2, <1>3 DEF Next, Runs, Steps

\* The events of every worker of the only runtime of a process form a stream as
\* worker_threads promises it: in order, each once, 'exit' once and last, and cut
\* by terminate() and by nothing else, for any number of workers and messages.
THEOREM HostImplementsStream ==
  ASSUME OneRuntime
  PROVE  Spec => ImplementsStream
<1>1. Init => Stream!Init
  <2> SUFFICES ASSUME Init
               PROVE  Stream!Init
    OBVIOUS
  <2>1. \A r \in Runtime : Mail(r) = <<>> \o <<>> \o <<>> /\ <<>> \o <<>> = <<>>
    BY DEF Init, Mail
  <2>2. \A w \in Worker : InTransit(w) = <<>>
    <3> TAKE w \in Worker
    <3>1. owner[w] \in Runtime
      BY TypeInit DEF HostType, TypeOK
    <3>2. Only(Mail(owner[w]), w) = <<>>
      BY <2>1, <3>1, OnlyEmpty
    <3> QED
      BY <3>2 DEF InTransit
  <2>3. Closed = {} /\ dead = {} /\ got = [w \in Worker |-> <<>>]
    BY DEF Init, Closed, Ended
  <2>4. Transit = [w \in Worker |-> <<>>]
    BY <2>2, Zenon DEF Transit
  <2> QED
    BY <2>3, <2>4 DEF Stream!Init
<1>2. HostInv /\ MailInv /\ [Next]_vars => MailInv' /\ [Stream!Next]_(Stream!vars)
  BY MailStep, StreamStep
<1> QED
  BY <1>1, <1>2, MailInit, HostInvariant, PTL DEF Spec, ImplementsStream, Stream!Spec
=============================================================================
