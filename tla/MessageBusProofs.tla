-------------------------- MODULE MessageBusProofs --------------------------
(***************************************************************************)
(* What a MessageBus object of amber:bus keeps to in every instance: any   *)
(* number of subscriptions, requests, messages and nested dispatches.      *)
(***************************************************************************)
EXTENDS MessageBus, FiniteSetTheorems, SequenceTheorems, WellFoundedInduction, TLAPS

\* The types, and that there are finitely many subscriptions.
BusType == TypeOK /\ IsFiniteSet(subs)

-----------------------------------------------------------------------------
(* The stack of dispatches *)

\* The subscriptions a dispatch in progress still holds.
Held == UNION {Range(stack[n].todo) \cup Range(stack[n].running) : n \in DOMAIN stack}

\* The fields of a dispatch.
LEMMA DispatchFields ==
  ASSUME BusType, NEW n \in DOMAIN stack
  PROVE  /\ stack[n] \in Dispatches
         /\ stack[n].todo \in Seq(Subscriptions) /\ stack[n].running \in Seq(Subscriptions)
         /\ Range(stack[n].todo) \subseteq Held /\ Range(stack[n].running) \subseteq Held
<1>1. stack[n] \in Dispatches
  BY DEF BusType, TypeOK
<1>2. stack[n].todo \in Seq(Subscriptions) /\ stack[n].running \in Seq(Subscriptions)
  BY <1>1 DEF Dispatches
<1> QED
  BY <1>1, <1>2 DEF Held

\* The innermost dispatch.
LEMMA LastDispatch ==
  ASSUME BusType, stack # <<>>
  PROVE  /\ Len(stack) \in DOMAIN stack /\ Last(stack) = stack[Len(stack)]
         /\ DOMAIN stack = 1..Len(stack) /\ Len(stack) \in Nat \ {0}
         /\ Last(stack) \in Dispatches
  BY DispatchFields DEF BusType, TypeOK, Last

\* The next handler is one of those the innermost dispatch holds.
LEMMA UpcomingHeld ==
  ASSUME BusType, Calls
  PROVE  /\ Upcoming \in Held /\ Upcoming \in Subscriptions
         /\ Tail(Last(stack).todo) \in Seq(Subscriptions)
         /\ Range(Tail(Last(stack).todo)) \subseteq Held
<1> DEFINE todo == Last(stack).todo
<1>1. todo \in Seq(Subscriptions) /\ todo # <<>> /\ Range(todo) \subseteq Held
  BY LastDispatch, DispatchFields DEF Calls
<1>2. Head(todo) = todo[1] /\ 1 \in DOMAIN todo
  BY <1>1
<1>3. Head(todo) \in Range(todo) /\ Range(Tail(todo)) \subseteq Range(todo)
  BY <1>1, <1>2 DEF Range
<1> QED
  BY <1>1, <1>3, HeadTailProperties DEF Upcoming

\* A dispatch that goes on, with fewer handlers to call.
LEMMA ContinueDispatch ==
  ASSUME BusType, stack # <<>>, NEW todo \in Seq(Subscriptions), NEW running \in Seq(Subscriptions),
         Range(todo) \subseteq Held, Range(running) \subseteq Held, Continue(todo, running)
  PROVE  /\ stack' \in Seq(Dispatches) /\ Len(stack') = Len(stack)
         /\ \A n \in DOMAIN stack : n # Len(stack) => stack'[n] = stack[n]
         /\ stack'[Len(stack)].todo = todo /\ stack'[Len(stack)].running = running
         /\ Held' \subseteq Held
<1> DEFINE d == [msg |-> Last(stack).msg, todo |-> todo, running |-> running]
<1>1. d \in Dispatches /\ d.todo = todo /\ d.running = running
  BY LastDispatch DEF Dispatches
<1>2. stack' = [stack EXCEPT ![Len(stack)] = d]
  BY DEF Continue
<1> HIDE DEF d
<1>3. /\ stack' \in Seq(Dispatches) /\ Len(stack') = Len(stack) /\ DOMAIN stack' = DOMAIN stack
      /\ \A n \in DOMAIN stack : stack'[n] = IF n = Len(stack) THEN d ELSE stack[n]
  BY <1>1, <1>2, LastDispatch DEF BusType, TypeOK
<1>4. Held' \subseteq Held
  BY <1>1, <1>3 DEF Held
<1> QED
  BY <1>1, <1>3, <1>4, LastDispatch

\* A dispatch that begins, with handlers out of a set of subscriptions.
LEMMA BeginDispatch ==
  ASSUME BusType, NEW d \in Dispatches, NEW S, Range(d.todo) \subseteq S, d.running = <<>>,
         stack' = Append(stack, d)
  PROVE  /\ stack' \in Seq(Dispatches) /\ Len(stack') = Len(stack) + 1
         /\ \A n \in 1..Len(stack) : stack'[n] = stack[n]
         /\ stack'[Len(stack) + 1] = d
         /\ Held' \subseteq Held \cup S
<1>1. /\ stack' \in Seq(Dispatches) /\ Len(stack') = Len(stack) + 1
      /\ DOMAIN stack = 1..Len(stack) /\ DOMAIN stack' = 1..(Len(stack) + 1)
      /\ Len(stack) \in Nat
      /\ \A n \in 1..Len(stack) : stack'[n] = stack[n]
      /\ stack'[Len(stack) + 1] = d
  BY DEF BusType, TypeOK
<1>2. Range(d.running) = {}
  BY DEF Range
<1>3. \A n \in DOMAIN stack' : n \in DOMAIN stack \/ n = Len(stack) + 1
  BY <1>1
<1> QED
  BY <1>1, <1>2, <1>3 DEF Held

\* The order of the handlers holds just the subscriptions it is made of.
LEMMA OrderOf ==
  ASSUME NEW S \in SUBSET Subscriptions, IsFiniteSet(S), NEW todo \in Orders(S)
  PROVE  /\ todo \in Seq(Subscriptions) /\ Range(todo) \subseteq S
         /\ Len(todo) \in Nat
<1>1. Cardinality(S) \in Nat
  BY FS_CardinalityType
<1>2. todo \in [1..Cardinality(S) -> S]
  BY DEF Orders
<1> QED
  BY <1>1, <1>2 DEF Range

-----------------------------------------------------------------------------
(* Types *)

\* The subscriptions that are known: those in the Map and those a dispatch holds.
Known == subs \cup Held

\* What the calls of publish in progress keep to.
StackType ==
  /\ stack \in Seq(Dispatches)
  /\ \A n \in 1..(Len(stack) - 1) : stack[n].running # <<>>

\* What the native record keeps to.
NativeType ==
  /\ published \in Nat /\ delivered \in Nat /\ deadCount \in Nat /\ calls \in Nat
  /\ lost \in Seq(Nat) /\ deadLetters \in Seq(Nat)

\* What the subscriptions and the requests keep to.
UserType ==
  /\ nextSub \in Nat \ {0} /\ filtered \in BOOLEAN
  /\ subs \in SUBSET Subscriptions
  /\ \A s \in subs : s.id < nextSub
  /\ \A s, t \in subs : s.id = t.id => s = t
  /\ IsFiniteSet(subs)
  /\ promise \in [Req -> {"none", "pending", "resolved", "rejected"}]
  /\ timers \subseteq Req /\ asked \subseteq Req

\* BusType falls into these parts.
LEMMA TypeParts == BusType <=> StackType /\ NativeType /\ UserType
  BY Zenon DEF BusType, TypeOK, StackType, NativeType, UserType

\* publish keeps the types of what it changes, and the handlers it will call
\* are taken from the subscriptions it was given.
LEMMA PublishesType ==
  ASSUME BusType, Runs, NEW all \in SUBSET Subscriptions, IsFiniteSet(all),
         NEW message \in Messages, Publishes(all, message)
  PROVE  StackType' /\ NativeType' /\ Held' \subseteq Held \cup all
<1>a. StackType /\ NativeType /\ stack \in Seq(Dispatches)
  BY TypeParts DEF StackType
<1> DEFINE matching == Matching(all, message.topic)
<1>b. matching \in SUBSET Subscriptions /\ matching \subseteq all /\ IsFiniteSet(matching)
  BY FS_Subset DEF Matching
<1>1. CASE filtered /\ UNCHANGED <<stack, native, history>>
  BY <1>1, <1>a DEF StackType, NativeType, Held, native, history
<1>2. CASE /\ published' = published + 1
           /\ \/ AddDeadLetter(published + 1)
              \/ UNCHANGED <<deadLetters, deadCount, lost>>
           /\ UNCHANGED <<stack, delivered, calls>>
  <2>1. StackType' /\ Held' \subseteq Held
    BY <1>2, <1>a DEF StackType, Held
  <2>2. published + 1 \in Nat
    BY <1>a DEF NativeType
  <2>3. (IF Len(deadLetters) >= MaxDead THEN Tail(deadLetters) ELSE deadLetters) \in Seq(Nat)
    BY <1>a, BusAssumption DEF NativeType
  <2>4. ASSUME AddDeadLetter(published + 1)
        PROVE  deadCount' \in Nat /\ lost' \in Seq(Nat) /\ deadLetters' \in Seq(Nat)
    BY <1>a, <2>2, <2>3, <2>4, AppendProperties DEF AddDeadLetter, NativeType
  <2>5. deadCount' \in Nat /\ lost' \in Seq(Nat) /\ deadLetters' \in Seq(Nat)
    BY <1>2, <1>a, <2>4 DEF NativeType
  <2> QED
    BY <1>2, <1>a, <2>1, <2>5 DEF NativeType
<1>3. CASE /\ published' = published + 1
           /\ \E todo \in Orders(matching) :
                /\ delivered' = delivered + Len(todo)
                /\ stack' = Append(stack, [msg |-> message, todo |-> todo, running |-> <<>>])
           /\ UNCHANGED <<deadLetters, deadCount, history>>
  <2>1. PICK todo \in Orders(matching) :
          /\ delivered' = delivered + Len(todo)
          /\ stack' = Append(stack, [msg |-> message, todo |-> todo, running |-> <<>>])
    BY <1>3
  <2>2. todo \in Seq(Subscriptions) /\ Range(todo) \subseteq matching /\ Len(todo) \in Nat
    BY <1>b, OrderOf
  <2> DEFINE d == [msg |-> message, todo |-> todo, running |-> <<>>]
  <2>3. d \in Dispatches /\ d.todo = todo /\ d.running = <<>>
    BY <2>2 DEF Dispatches
  <2>4. stack' = Append(stack, d)
    BY <2>1
  <2> HIDE DEF d
  <2>5. /\ stack' \in Seq(Dispatches) /\ Len(stack') = Len(stack) + 1
        /\ \A n \in 1..Len(stack) : stack'[n] = stack[n]
        /\ Held' \subseteq Held \cup all
    BY <1>b, <2>2, <2>3, <2>4, BeginDispatch
  <2>6. \A n \in 1..Len(stack) : stack[n].running # <<>>
    BY <1>a, LastDispatch DEF Runs, StackType
  <2>7. StackType'
    BY <1>a, <2>5, <2>6 DEF StackType
  <2>8. NativeType'
    BY <1>3, <1>a, <2>1, <2>2 DEF NativeType, history
  <2> QED
    BY <2>5, <2>7, <2>8
<1> QED
  BY <1>1, <1>2, <1>3 DEF Publishes

\* The subscription a call makes: well-typed, and the only one with its id.
LEMMA NewSubscription ==
  ASSUME BusType,
         NEW pattern \in Pattern \cup {ReplyTopic(q) : q \in Req}, NEW prio \in 0..1,
         NEW once \in BOOLEAN, NEW q \in Req \cup {NoReq},
         subs' = subs \cup {Subscription(pattern, prio, once, q)}, nextSub' = nextSub + 1
  PROVE  /\ nextSub' \in Nat \ {0} /\ subs' \in SUBSET Subscriptions /\ IsFiniteSet(subs')
         /\ \A s \in subs' : s.id < nextSub'
         /\ \A s, t \in subs' : s.id = t.id => s = t
<1> DEFINE new == Subscription(pattern, prio, once, q)
<1>1. UserType
  BY TypeParts
<1>2. new \in Subscriptions /\ new.id = nextSub
  BY <1>1 DEF Subscription, Subscriptions, UserType
<1> HIDE DEF new
<1>3. subs' = subs \cup {new} /\ IsFiniteSet(subs')
  BY <1>1, FS_AddElement DEF new, UserType
<1>4. \A s \in subs : s.id \in Nat /\ s.id < nextSub
  BY <1>1 DEF UserType, Subscriptions
<1> QED
  BY <1>1, <1>2, <1>3, <1>4 DEF UserType

\* Subscriptions that are dropped.
LEMMA FewerSubscriptions ==
  ASSUME BusType, subs' \subseteq subs, nextSub' = nextSub
  PROVE  /\ nextSub' \in Nat \ {0} /\ subs' \in SUBSET Subscriptions /\ IsFiniteSet(subs')
         /\ \A s \in subs' : s.id < nextSub'
         /\ \A s, t \in subs' : s.id = t.id => s = t
<1>1. IsFiniteSet(subs')
  BY FS_Subset DEF BusType
<1> QED
  BY <1>1 DEF BusType, TypeOK

\* What a request subscribes to and sets before it publishes.
LEMMA AwaitsType ==
  ASSUME BusType, NEW q \in Req, NEW timed \in BOOLEAN, Awaits(q, timed),
         NEW answer \in {"pending", "rejected"}, promise' = [promise EXCEPT ![q] = answer],
         UNCHANGED <<filtered, asked>>
  PROVE  UserType'
<1>a. /\ ReplyTopic(q) \in Pattern \cup {ReplyTopic(r) : r \in Req}
      /\ 0 \in 0..1 /\ TRUE \in BOOLEAN /\ q \in Req \cup {NoReq}
      /\ subs' = subs \cup {Subscription(ReplyTopic(q), 0, TRUE, q)} /\ nextSub' = nextSub + 1
  BY DEF Awaits
<1>1. /\ nextSub' \in Nat \ {0} /\ subs' \in SUBSET Subscriptions /\ IsFiniteSet(subs')
      /\ \A s \in subs' : s.id < nextSub'
      /\ \A s, t \in subs' : s.id = t.id => s = t
  BY <1>a, NewSubscription, Zenon
<1>2. timers' \subseteq Req
  BY TypeParts DEF Awaits, UserType
<1> QED
  BY <1>1, <1>2, TypeParts DEF UserType

\* The messages that are published.
LEMMA MessageTypes ==
  /\ \A t \in Topic : Message(t, NoReq) \in Messages
  /\ \A q \in Req : Message(ReplyTopic(q), NoReq) \in Messages
  /\ \A q \in Req, t \in Topic : Message(t, q) \in Messages
  BY DEF Message, Messages

\* A step of the system keeps the types, and a dispatch holds only what it held
\* and subscriptions of the Map.
LEMMA TypeStep ==
  ASSUME BusType, [Next]_vars
  PROVE  BusType' /\ Held' \subseteq Held \cup subs'
<1>a. StackType /\ NativeType /\ UserType
  BY TypeParts
<1>b. ASSUME StackType', NativeType', UserType'
      PROVE  BusType'
  BY <1>b, Zenon DEF BusType, TypeOK, StackType, NativeType, UserType
<1>c. ASSUME UNCHANGED stack
      PROVE  StackType' /\ Held' \subseteq Held
  BY <1>a, <1>c DEF StackType, Held
<1>d. ASSUME UNCHANGED <<native, history>>
      PROVE  NativeType'
  BY <1>a, <1>d DEF NativeType, native, history
<1>1. ASSUME NEW p \in Pattern, NEW prio \in 0..1, NEW once \in BOOLEAN, Subscribe(p, prio, once)
      PROVE  BusType' /\ Held' \subseteq Held \cup subs'
  <2>1. /\ p \in Pattern \cup {ReplyTopic(r) : r \in Req} /\ NoReq \in Req \cup {NoReq}
        /\ subs' = subs \cup {Subscription(p, prio, once, NoReq)} /\ nextSub' = nextSub + 1
    BY <1>1 DEF Subscribe
  <2>2. /\ nextSub' \in Nat \ {0} /\ subs' \in SUBSET Subscriptions /\ IsFiniteSet(subs')
        /\ \A s \in subs' : s.id < nextSub'
        /\ \A s, t \in subs' : s.id = t.id => s = t
    BY <2>1, NewSubscription, Zenon
  <2>3. UserType'
    BY <1>1, <1>a, <2>2 DEF UserType, Subscribe
  <2> QED
    BY <1>1, <1>b, <1>c, <1>d, <2>3 DEF Subscribe
<1>2. ASSUME NEW s \in subs, Unsubscribe(s)
      PROVE  BusType' /\ Held' \subseteq Held \cup subs'
  <2>1. UserType'
    BY <1>2, <1>a, FewerSubscriptions DEF UserType, Unsubscribe, Without
  <2> QED
    BY <1>2, <1>b, <1>c, <1>d, <2>1 DEF Unsubscribe
<1>3. ASSUME NEW t \in Topic, Publish(t)
      PROVE  BusType' /\ Held' \subseteq Held \cup subs'
  <2>1. UserType' /\ subs' = subs
    BY <1>3, <1>a DEF UserType, Publish
  <2>2. StackType' /\ NativeType' /\ Held' \subseteq Held \cup subs
    BY <1>3, <1>a, PublishesType, MessageTypes DEF Publish, UserType
  <2> QED
    BY <1>b, <2>1, <2>2
<1>4. ASSUME NEW q \in Req, Reply(q)
      PROVE  BusType' /\ Held' \subseteq Held \cup subs'
  <2>1. UserType' /\ subs' = subs
    BY <1>4, <1>a DEF UserType, Reply
  <2>2. StackType' /\ NativeType' /\ Held' \subseteq Held \cup subs
    BY <1>4, <1>a, PublishesType, MessageTypes DEF Reply, UserType
  <2> QED
    BY <1>b, <2>1, <2>2
<1>5. ASSUME NEW q \in Req, NEW t \in Topic, NEW timed \in BOOLEAN, Request(q, t, timed)
      PROVE  BusType' /\ Held' \subseteq Held \cup subs'
  <2>1. UserType'
    BY <1>5, AwaitsType DEF Request
  <2>2. StackType' /\ NativeType' /\ Held' \subseteq Held \cup subs'
    BY <1>5, <2>1, PublishesType, MessageTypes DEF Request, UserType
  <2> QED
    BY <1>b, <2>1, <2>2
<1>6. ASSUME NEW q \in Req, NEW timed \in BOOLEAN, RequestThrows(q, timed)
      PROVE  BusType' /\ Held' \subseteq Held \cup subs'
  <2>1. UserType'
    BY <1>6, AwaitsType DEF RequestThrows
  <2> QED
    BY <1>6, <1>b, <1>c, <1>d, <2>1 DEF RequestThrows
<1>7. CASE Use
  <2>1. UserType'
    BY <1>7, <1>a DEF Use, UserType
  <2> QED
    BY <1>7, <1>b, <1>c, <1>d, <2>1 DEF Use
<1>8. CASE Clear \/ ClearLetters
  <2>1. subs' \subseteq subs /\ nextSub' = nextSub
    BY <1>8 DEF Clear, ClearLetters
  <2>2. UserType'
    BY <1>8, <1>a, <2>1, FewerSubscriptions DEF Clear, ClearLetters, UserType
  <2>3. <<>> \in Seq(Nat)
    OBVIOUS
  <2>4. /\ deadLetters' = <<>> /\ deadCount' = 0 /\ lost' = <<>>
        /\ UNCHANGED <<published, delivered, calls>>
    BY <1>8 DEF Clear, ClearLetters, ClearDeadLetters
  <2>5. NativeType'
    BY <1>a, <2>3, <2>4, Zenon DEF NativeType
  <2> QED
    BY <1>8, <1>b, <1>c, <2>2, <2>5 DEF Clear, ClearLetters
<1>9. CASE CallHandler \/ CallReply
  <2>1. Calls /\ stack # <<>> /\ DOMAIN stack = 1..Len(stack) /\ Len(stack) \in Nat \ {0}
    BY <1>9, LastDispatch DEF CallHandler, CallReply, Calls
  <2>2. PICK running \in {<<>>, <<Upcoming>>} : Continue(Tail(Last(stack).todo), running)
    BY <1>9 DEF CallHandler, CallReply
  <2>3. Range(<<Upcoming>>) = {Upcoming} /\ Range(<<>>) = {}
    BY DEF Range
  <2>4. running \in Seq(Subscriptions) /\ Range(running) \subseteq Held
    <3>1. Upcoming \in Held /\ Upcoming \in Subscriptions
      BY <2>1, UpcomingHeld
    <3>2. <<Upcoming>> \in Seq(Subscriptions) /\ <<>> \in Seq(Subscriptions)
      BY <3>1
    <3> QED
      BY <2>2, <2>3, <3>1, <3>2, Zenon
  <2>5. /\ stack' \in Seq(Dispatches) /\ Len(stack') = Len(stack)
        /\ \A n \in DOMAIN stack : n # Len(stack) => stack'[n] = stack[n]
        /\ Held' \subseteq Held
    BY <2>1, <2>2, <2>4, UpcomingHeld, ContinueDispatch
  <2>6. StackType'
    BY <1>a, <2>1, <2>5 DEF StackType
  <2>7. NativeType'
    BY <1>9, <1>a DEF CallHandler, CallReply, NativeType, native
  <2>8. UserType'
    <3>1. CASE CallHandler
      BY <1>a, <3>1 DEF CallHandler, UserType
    <3>2. CASE CallReply
      <4>1. subs' \subseteq subs /\ nextSub' = nextSub
        BY <3>2 DEF CallReply, Without
      <4>2. Upcoming.req \in Req
        BY <2>1, <3>2, UpcomingHeld DEF CallReply, Subscriptions
      <4> QED
        BY <1>a, <3>2, <4>1, <4>2, FewerSubscriptions DEF CallReply, UserType
    <3> QED
      BY <1>9, <3>1, <3>2
  <2> QED
    BY <1>b, <2>5, <2>6, <2>7, <2>8
<1>10. CASE HandlerEnds
  <2>1. stack # <<>> /\ DOMAIN stack = 1..Len(stack) /\ Len(stack) \in Nat \ {0}
    BY <1>10, LastDispatch DEF HandlerEnds
  <2>2. Last(stack).todo \in Seq(Subscriptions) /\ Range(Last(stack).todo) \subseteq Held
    BY <2>1, LastDispatch, DispatchFields
  <2>3. Range(<<>>) \subseteq Held /\ <<>> \in Seq(Subscriptions)
    BY DEF Range
  <2>4. /\ stack' \in Seq(Dispatches) /\ Len(stack') = Len(stack)
        /\ \A n \in DOMAIN stack : n # Len(stack) => stack'[n] = stack[n]
        /\ Held' \subseteq Held
    BY <1>10, <2>1, <2>2, <2>3, ContinueDispatch DEF HandlerEnds
  <2>5. StackType'
    BY <1>a, <2>1, <2>4 DEF StackType
  <2>6. NativeType'
    BY <1>10, <1>a DEF HandlerEnds, NativeType, native
  <2>7. subs' \subseteq subs /\ nextSub' = nextSub
    BY <1>10 DEF HandlerEnds, Without
  <2>8. UserType'
    BY <1>10, <1>a, <2>7, FewerSubscriptions DEF HandlerEnds, UserType
  <2> QED
    BY <1>b, <2>4, <2>5, <2>6, <2>8
<1>11. CASE PublishEnds
  <2>1. stack # <<>> /\ DOMAIN stack = 1..Len(stack) /\ Len(stack) \in Nat \ {0}
    BY <1>11, LastDispatch DEF PublishEnds
  <2>2. /\ stack' \in Seq(Dispatches) /\ Len(stack') = Len(stack) - 1
        /\ DOMAIN stack' = 1..(Len(stack) - 1)
        /\ \A n \in 1..(Len(stack) - 1) : stack'[n] = stack[n]
    BY <1>11, <1>a, <2>1 DEF PublishEnds, Front, StackType
  <2>3. StackType'
    BY <1>a, <2>1, <2>2 DEF StackType
  <2>4. \A n \in DOMAIN stack' : n \in DOMAIN stack /\ stack'[n] = stack[n]
    BY <2>1, <2>2
  <2>5. Held' \subseteq Held
    BY <2>4 DEF Held
  <2>6. UserType'
    BY <1>11, <1>a DEF PublishEnds, UserType
  <2> QED
    BY <1>11, <1>b, <1>d, <2>3, <2>5, <2>6 DEF PublishEnds
<1>12. ASSUME NEW q \in Req, TimerFires(q)
       PROVE  BusType' /\ Held' \subseteq Held \cup subs'
  <2>1. subs' \subseteq subs /\ nextSub' = nextSub
    BY <1>12 DEF TimerFires
  <2>2. UserType'
    BY <1>12, <1>a, <2>1, FewerSubscriptions DEF TimerFires, UserType
  <2> QED
    BY <1>12, <1>b, <1>c, <1>d, <2>2 DEF TimerFires
<1>13. CASE UNCHANGED vars
  <2>1. UserType'
    BY <1>13, <1>a DEF vars, UserType
  <2> QED
    BY <1>13, <1>b, <1>c, <1>d, <2>1 DEF vars
<1> QED
  BY <1>1, <1>2, <1>3, <1>4, <1>5, <1>6, <1>7, <1>8, <1>9, <1>10, <1>11, <1>12, <1>13
     DEF Next, User, Dispatch

\* BusType holds in every state.
LEMMA TypeInvariant == Spec => []BusType
<1>1. ASSUME Init
      PROVE  BusType
  <2>a. IsFiniteSet(subs) /\ subs = {}
    BY <1>1, FS_EmptySet DEF Init
  <2>b. promise \in [Req -> {"none", "pending", "resolved", "rejected"}]
    BY <1>1 DEF Init
  <2>c. nextSub \in Nat \ {0} /\ timers \subseteq Req /\ asked \subseteq Req
    BY <1>1 DEF Init
  <2>d. filtered \in BOOLEAN
    BY <1>1, Zenon DEF Init
  <2>1. UserType
    BY <2>a, <2>b, <2>c, <2>d, Zenon DEF UserType
  <2>2. <<>> \in Seq(Dispatches) /\ <<>> \in Seq(Nat) /\ Len(<<>>) = 0
    OBVIOUS
  <2>3. StackType /\ NativeType
    BY <1>1, <2>2 DEF Init, StackType, NativeType
  <2> QED
    BY <2>1, <2>3, TypeParts
<1>2. BusType /\ [Next]_vars => BusType'
  BY TypeStep
<1> QED
  BY <1>1, <1>2, PTL DEF Spec

\* Every variable of a MessageBus object keeps its type, no two subscriptions
\* have one id, and of the calls of publish in progress all but the innermost
\* are in a handler.
THEOREM BusTypeCorrect == Spec => []TypeOK
<1>1. BusType => TypeOK
  BY DEF BusType
<1> QED
  BY <1>1, TypeInvariant, PTL

-----------------------------------------------------------------------------
(* Answered requests *)

\* The reply subscription of a request is one subscription, wherever it is still
\* known, and the request has been made. A dispatch may hold it long after it
\* has gone from the Map.
ReplyInv ==
  /\ \A s, t \in Known : s.req = t.req /\ s.req # NoReq => s.id = t.id
  /\ \A s \in Known : s.req # NoReq => promise[s.req] # "none"

\* Every known subscription has its type.
LEMMA KnownTyped == BusType => Known \subseteq Subscriptions
<1> SUFFICES ASSUME BusType, NEW s \in Known
             PROVE  s \in Subscriptions
  OBVIOUS
<1>1. CASE s \in subs
  BY <1>1 DEF BusType, TypeOK
<1>2. CASE s \in Held
  <2>1. PICK n \in DOMAIN stack : s \in Range(stack[n].todo) \cup Range(stack[n].running)
    BY <1>2 DEF Held
  <2>2. stack[n].todo \in Seq(Subscriptions) /\ stack[n].running \in Seq(Subscriptions)
    BY DispatchFields
  <2>3. \E f \in Seq(Subscriptions) : s \in Range(f)
    BY <2>1, <2>2
  <2> QED
    BY <2>3 DEF Range
<1> QED
  BY <1>1, <1>2 DEF Known

\* What a step may do to requests: make one, answer one, or neither.
LEMMA RequestStep ==
  ASSUME BusType, [Next]_vars
  PROVE  \/ \E q \in Req, timed \in BOOLEAN, answer \in {"pending", "rejected"} :
              Awaits(q, timed) /\ promise' = [promise EXCEPT ![q] = answer]
         \/ CallReply
         \/ /\ \A s \in subs' : s \in subs \/ s.req = NoReq
            /\ timers' \subseteq timers
            /\ \A q \in Req : \/ promise'[q] = promise[q]
                              \/ promise[q] = "pending" /\ promise'[q] = "rejected"
<1> DEFINE Nothing == /\ \A s \in subs' : s \in subs \/ s.req = NoReq
                      /\ timers' \subseteq timers
                      /\ \A q \in Req : \/ promise'[q] = promise[q]
                                        \/ promise[q] = "pending" /\ promise'[q] = "rejected"
<1>1. ASSUME NEW p \in Pattern, NEW prio \in 0..1, NEW once \in BOOLEAN, Subscribe(p, prio, once)
      PROVE  Nothing
  <2>1. Subscription(p, prio, once, NoReq).req = NoReq
    BY DEF Subscription
  <2> QED
    BY <1>1, <2>1, Zenon DEF Subscribe
<1>2. ASSUME NEW q \in Req, TimerFires(q)
      PROVE  Nothing
  BY <1>2 DEF TimerFires, BusType, TypeOK
<1>3. CASE HandlerEnds
  BY <1>3 DEF HandlerEnds, Without
<1>4. ASSUME NEW s \in subs, Unsubscribe(s)
      PROVE  Nothing
  BY <1>4 DEF Unsubscribe, Without
<1>5. CASE \/ \E t \in Topic : Publish(t)
           \/ \E q \in Req : Reply(q)
           \/ Use \/ ClearLetters \/ CallHandler \/ PublishEnds \/ UNCHANGED vars
  BY <1>5 DEF Publish, Reply, Use, ClearLetters, CallHandler, PublishEnds, vars
<1>6. CASE Clear
  BY <1>6 DEF Clear
<1> QED
  BY <1>1, <1>2, <1>3, <1>4, <1>5, <1>6 DEF Next, User, Dispatch, Request, RequestThrows

\* Every step keeps ReplyInv and what it is for.
LEMMA ReplyInvStep ==
  ASSUME BusType, ReplyInv, AnsweredReleases, [Next]_vars
  PROVE  ReplyInv' /\ AnsweredReleases'
<1>a. Known' \subseteq Known \cup subs'
  BY TypeStep DEF Known
<1>b. \A q \in Req : q # NoReq
  BY BusAssumption
<1>c. promise \in [Req -> {"none", "pending", "resolved", "rejected"}] /\ timers \subseteq Req
  BY DEF BusType, TypeOK
<1>1. CASE \E q \in Req, timed \in BOOLEAN, answer \in {"pending", "rejected"} :
             Awaits(q, timed) /\ promise' = [promise EXCEPT ![q] = answer]
  <2>1. PICK q \in Req, timed \in BOOLEAN, answer \in {"pending", "rejected"} :
          Awaits(q, timed) /\ promise' = [promise EXCEPT ![q] = answer]
    BY <1>1
  <2> DEFINE new == Subscription(ReplyTopic(q), 0, TRUE, q)
  <2>2. new.req = q
    BY DEF Subscription
  <2>3. subs' = subs \cup {new} /\ promise[q] = "none" /\ timers' \subseteq timers \cup {q}
    BY <2>1 DEF Awaits
  <2> HIDE DEF new
  <2>4. Known' \subseteq Known \cup {new}
    BY <1>a, <2>3 DEF Known
  <2>5. promise'[q] # "none" /\ promise'[q] # "resolved"
    BY <2>1, <1>c
  <2>6. \A r \in Req : r # q => promise'[r] = promise[r]
    BY <2>1, <1>c
  <2>7. \A s \in Known : s.req # q
    BY <2>3, <1>b DEF ReplyInv
  <2>8. \A s \in Known : s.req # NoReq => s.req \in Req
    BY KnownTyped DEF Subscriptions
  <2>9. ReplyInv'
    BY <2>2, <2>4, <2>5, <2>6, <2>7, <2>8 DEF ReplyInv
  <2> QED
    BY <2>2, <2>3, <2>5, <2>6, <2>9 DEF AnsweredReleases, ReplySubs
<1>2. CASE CallReply
  <2>1. Upcoming \in Held /\ Upcoming \in Subscriptions /\ Upcoming.req \in Req
    BY <1>2, UpcomingHeld DEF CallReply, Subscriptions
  <2> DEFINE q == Upcoming.req
  <2>2. /\ timers' = timers \ {q} /\ subs' = {s \in subs : s.id # Upcoming.id}
        /\ promise' = [promise EXCEPT ![q] = IF @ = "pending" THEN "resolved" ELSE @]
    BY <1>2 DEF CallReply, Without
  <2>3. Known' \subseteq Known
    BY <1>a, <2>2 DEF Known
  <2>4. \A r \in Req : promise[r] # "none" => promise'[r] # "none"
    BY <2>1, <2>2, <1>c
  <2>5. \A r \in Req : r # q => promise'[r] = promise[r]
    BY <2>1, <2>2, <1>c
  <2>6. \A s \in subs' : s.req # q
    BY <2>1, <2>2, <1>b DEF ReplyInv, Known
  <2>7. \A s \in Known : s.req # NoReq => s.req \in Req
    BY KnownTyped DEF Subscriptions
  <2>8. ReplyInv'
    BY <2>3, <2>4, <2>7 DEF ReplyInv
  <2> QED
    BY <2>2, <2>5, <2>6, <2>8 DEF AnsweredReleases, ReplySubs
<1>3. CASE /\ \A s \in subs' : s \in subs \/ s.req = NoReq
           /\ timers' \subseteq timers
           /\ \A q \in Req : \/ promise'[q] = promise[q]
                             \/ promise[q] = "pending" /\ promise'[q] = "rejected"
  <2>1. \A s \in Known' : s \in Known \/ s.req = NoReq
    BY <1>3, <1>a DEF Known
  <2>2. \A s \in Known : s.req # NoReq => s.req \in Req
    BY KnownTyped DEF Subscriptions
  <2>3. \A r \in Req : promise[r] # "none" => promise'[r] # "none"
    BY <1>3
  <2>4. ReplyInv'
    BY <2>1, <2>2, <2>3 DEF ReplyInv
  <2> QED
    BY <1>3, <1>b, <2>4 DEF AnsweredReleases, ReplySubs
<1> QED
  BY <1>1, <1>2, <1>3, RequestStep

\* A request that has been answered holds neither its timer nor its reply
\* subscription in any state: publish and the timeout release both, however many
\* dispatches still hold the subscription.
THEOREM AnswerReleases == Spec => []AnsweredReleases
<1>1. ASSUME Init
      PROVE  ReplyInv /\ AnsweredReleases
  <2>1. Held = {} /\ subs = {}
    BY <1>1 DEF Init, Held
  <2> QED
    BY <1>1, <2>1 DEF Init, ReplyInv, Known, AnsweredReleases
<1>2. BusType /\ ReplyInv /\ AnsweredReleases /\ [Next]_vars => ReplyInv' /\ AnsweredReleases'
  BY ReplyInvStep
<1> QED
  BY <1>1, <1>2, TypeInvariant, PTL DEF Spec

-----------------------------------------------------------------------------
(* Dead letters *)

\* The dead letter queue by its length and its elements.
LettersAt ==
  /\ deadCount = Len(lost)
  /\ Len(deadLetters) = (IF Len(lost) > MaxDead THEN MaxDead ELSE Len(lost))
  /\ \A n \in 1..Len(deadLetters) :
       deadLetters[n] = lost[Len(lost) - Len(deadLetters) + n]

\* The two ways of saying it are one.
LEMMA LettersAtLatest ==
  ASSUME BusType
  PROVE  LettersAt <=> DeadLettersAreLatest
<1>1. lost \in Seq(Nat) /\ deadLetters \in Seq(Nat) /\ MaxDead \in Nat \ {0}
  BY TypeParts, BusAssumption DEF NativeType
<1> DEFINE first == IF Len(lost) > MaxDead THEN Len(lost) - MaxDead + 1 ELSE 1
           latest == SubSeq(lost, first, Len(lost))
<1>2. first \in Nat \ {0} /\ first <= Len(lost) + 1 /\ Len(lost) \in Nat
  BY <1>1
<1>3. /\ latest \in Seq(Nat)
      /\ Len(latest) = (IF Len(lost) > MaxDead THEN MaxDead ELSE Len(lost))
      /\ \A n \in 1..Len(latest) : latest[n] = lost[Len(lost) - Len(latest) + n]
  <2>1. \A n \in first..Len(lost) : lost[n] \in Nat
    BY <1>1, <1>2
  <2> HIDE DEF first
  <2>2. /\ latest \in Seq(Nat)
        /\ Len(latest) = (IF first <= Len(lost) THEN Len(lost) - first + 1 ELSE 0)
        /\ \A n \in 1..(Len(lost) - first + 1) : latest[n] = lost[first + n - 1]
    BY <1>2, <2>1, SubSeqProperties
  <2>3. Len(latest) = Len(lost) - first + 1
    BY <1>2, <2>2
  <2>4. ASSUME NEW n \in 1..Len(latest)
        PROVE  latest[n] = lost[Len(lost) - Len(latest) + n]
    <3>1. Len(lost) - Len(latest) + n = first + n - 1 /\ n \in 1..(Len(lost) - first + 1)
      BY <1>2, <2>3
    <3> QED
      BY <2>2, <3>1
  <2>5. Len(lost) - first + 1 = (IF Len(lost) > MaxDead THEN MaxDead ELSE Len(lost))
    BY <1>1, <1>2 DEF first
  <2> QED
    BY <2>2, <2>3, <2>4, <2>5
<1>4. ASSUME LettersAt
      PROVE  DeadLettersAreLatest
  <2>1. Len(deadLetters) = Len(latest)
    BY <1>3, <1>4 DEF LettersAt
  <2>2. \A n \in 1..Len(deadLetters) : deadLetters[n] = latest[n]
    BY <1>3, <1>4, <2>1 DEF LettersAt
  <2>3. deadLetters = latest
    BY <1>1, <1>3, <2>1, <2>2, SeqEqual
  <2> QED
    BY <1>4, <2>3 DEF LettersAt, DeadLettersAreLatest
<1>5. ASSUME DeadLettersAreLatest
      PROVE  LettersAt
  <2>1. deadLetters = latest /\ deadCount = Len(lost)
    BY <1>5 DEF DeadLettersAreLatest
  <2> QED
    BY <1>3, <2>1 DEF LettersAt
<1> QED
  BY <1>4, <1>5

\* A dead letter more.
LEMMA LetterAdded ==
  ASSUME BusType, LettersAt, NEW id \in Nat, AddDeadLetter(id)
  PROVE  LettersAt'
<1>1. lost \in Seq(Nat) /\ deadLetters \in Seq(Nat) /\ MaxDead \in Nat \ {0}
  BY TypeParts, BusAssumption DEF NativeType
<1> DEFINE kept == IF Len(deadLetters) >= MaxDead THEN Tail(deadLetters) ELSE deadLetters
<1>2. /\ kept \in Seq(Nat)
      /\ Len(kept) = (IF Len(lost) >= MaxDead THEN MaxDead - 1 ELSE Len(lost))
      /\ \A n \in 1..Len(kept) : kept[n] = lost[Len(lost) - Len(kept) + n]
  <2>1. CASE Len(deadLetters) >= MaxDead
    <3>1. Len(deadLetters) = MaxDead /\ Len(lost) >= MaxDead /\ kept = Tail(deadLetters)
      BY <1>1, <2>1 DEF LettersAt
    <3>2. /\ kept \in Seq(Nat) /\ Len(kept) = MaxDead - 1
          /\ \A n \in 1..Len(kept) : kept[n] = deadLetters[n + 1]
      BY <1>1, <3>1
    <3> HIDE DEF kept
    <3>3. Len(kept) = (IF Len(lost) >= MaxDead THEN MaxDead - 1 ELSE Len(lost))
      BY <1>1, <3>1, <3>2
    <3>4. ASSUME NEW n \in 1..Len(kept)
          PROVE  kept[n] = lost[Len(lost) - Len(kept) + n]
      <4>1. n + 1 \in 1..Len(deadLetters) /\ n \in Int /\ Len(lost) \in Nat
        BY <1>1, <3>1, <3>2
      <4>2. deadLetters[n + 1] = lost[Len(lost) - Len(deadLetters) + (n + 1)]
        BY <4>1 DEF LettersAt
      <4>3. Len(lost) - Len(deadLetters) + (n + 1) = Len(lost) - Len(kept) + n
        <5>1. Len(deadLetters) = MaxDead /\ Len(kept) = MaxDead - 1 /\ MaxDead \in Nat
          BY <1>1, <3>1, <3>2
        <5>2. PICK l \in Nat : l = Len(lost)
          BY <4>1
        <5>3. l - MaxDead + (n + 1) = l - (MaxDead - 1) + n
          BY <4>1, <5>1
        <5> QED
          BY <5>1, <5>2, <5>3
      <4> QED
        BY <3>2, <4>2, <4>3
    <3> QED
      BY <3>2, <3>3, <3>4
  <2>2. CASE ~(Len(deadLetters) >= MaxDead)
    <3>1. kept = deadLetters
      BY <2>2
    <3> HIDE DEF kept
    <3>2. Len(kept) = (IF Len(lost) >= MaxDead THEN MaxDead - 1 ELSE Len(lost))
      BY <1>1, <2>2, <3>1 DEF LettersAt
    <3> QED
      BY <1>1, <3>1, <3>2 DEF LettersAt
  <2> QED
    BY <2>1, <2>2
<1>3. deadLetters' = Append(kept, id) /\ lost' = Append(lost, id)
  BY DEF AddDeadLetter
<1> HIDE DEF kept
<1>4. /\ Len(lost') = Len(lost) + 1 /\ lost'[Len(lost) + 1] = id
      /\ \A n \in 1..Len(lost) : lost'[n] = lost[n]
  BY <1>1, <1>3
<1>5. /\ Len(deadLetters') = Len(kept) + 1 /\ deadLetters'[Len(kept) + 1] = id
      /\ \A n \in 1..Len(kept) : deadLetters'[n] = kept[n]
  BY <1>2, <1>3
<1>6. Len(deadLetters') = (IF Len(lost') > MaxDead THEN MaxDead ELSE Len(lost'))
  BY <1>1, <1>2, <1>4, <1>5
<1>7. ASSUME NEW n \in 1..Len(deadLetters')
      PROVE  deadLetters'[n] = lost'[Len(lost') - Len(deadLetters') + n]
  <2> DEFINE place == Len(lost) - Len(kept) + n
  <2>1. /\ Len(kept) \in Nat /\ Len(lost) \in Nat /\ n \in Nat /\ Len(kept) <= Len(lost)
        /\ n = Len(kept) + 1 \/ n \in 1..Len(kept)
    BY <1>1, <1>2, <1>5
  <2>2. Len(lost') - Len(deadLetters') + n = place
    BY <1>4, <1>5, <2>1
  <2>3. CASE n = Len(kept) + 1
    <3>1. place = Len(lost) + 1
      BY <2>1, <2>3
    <3> HIDE DEF place
    <3> QED
      BY <1>4, <1>5, <2>2, <2>3, <3>1
  <2>4. CASE n \in 1..Len(kept)
    <3>1. place \in 1..Len(lost)
      BY <2>1, <2>4
    <3>2. kept[n] = lost[place]
      BY <1>2, <2>4
    <3> HIDE DEF place
    <3> QED
      BY <1>4, <1>5, <2>2, <2>4, <3>1, <3>2
  <2> QED
    BY <2>1, <2>3, <2>4
<1>8. deadCount' = Len(lost')
  BY <1>4 DEF AddDeadLetter, LettersAt
<1> QED
  BY <1>6, <1>7, <1>8 DEF LettersAt

\* A step adds a dead letter, clears them all, or leaves them alone.
LEMMA LetterStep ==
  ASSUME BusType, [Next]_vars
  PROVE  \/ \E id \in Nat : AddDeadLetter(id)
         \/ ClearDeadLetters
         \/ UNCHANGED <<deadLetters, deadCount, lost>>
<1>1. ASSUME NEW all, NEW message \in Messages, Publishes(all, message)
      PROVE  \/ \E id \in Nat : AddDeadLetter(id)
             \/ UNCHANGED <<deadLetters, deadCount, lost>>
  <2>1. published + 1 \in Nat
    BY TypeParts DEF NativeType
  <2> QED
    BY <1>1, <2>1 DEF Publishes, native, history
<1>2. CASE \/ \E t \in Topic : Publish(t)
           \/ \E q \in Req : Reply(q)
           \/ \E q \in Req, t \in Topic, timed \in BOOLEAN : Request(q, t, timed)
  BY <1>1, <1>2, MessageTypes DEF Publish, Reply, Request
<1>3. CASE Clear \/ ClearLetters
  BY <1>3 DEF Clear, ClearLetters
<1>4. CASE \/ \E p \in Pattern, prio \in 0..1, once \in BOOLEAN : Subscribe(p, prio, once)
           \/ \E s \in subs : Unsubscribe(s)
           \/ \E q \in Req, timed \in BOOLEAN : RequestThrows(q, timed)
           \/ Use \/ Dispatch \/ (\E q \in Req : TimerFires(q)) \/ UNCHANGED vars
  BY <1>4 DEF Subscribe, Unsubscribe, RequestThrows, Use, Dispatch, CallHandler, CallReply,
              HandlerEnds, PublishEnds, TimerFires, vars, native, history
<1> QED
  BY <1>2, <1>3, <1>4 DEF Next, User

\* In every state the dead letter queue holds the latest dead letters since it
\* was cleared, in order, as many as there are up to its limit, and the metric
\* counts them all: add_dead_letter drops the oldest, and only when it must.
THEOREM LettersAreLatest == Spec => []DeadLettersAreLatest
<1>1. Init => LettersAt
  <2>1. Len(<<>>) = 0
    OBVIOUS
  <2> QED
    BY <2>1, BusAssumption DEF Init, LettersAt
<1>2. BusType /\ LettersAt /\ [Next]_vars => LettersAt'
  <2> SUFFICES ASSUME BusType, LettersAt, [Next]_vars
               PROVE  LettersAt'
    OBVIOUS
  <2>1. CASE \E id \in Nat : AddDeadLetter(id)
    BY <2>1, LetterAdded
  <2>2. CASE ClearDeadLetters
    <3>1. Len(<<>>) = 0
      OBVIOUS
    <3> QED
      BY <2>2, <3>1, BusAssumption DEF ClearDeadLetters, LettersAt
  <2>3. CASE UNCHANGED <<deadLetters, deadCount, lost>>
    BY <2>3 DEF LettersAt
  <2> QED
    BY <2>1, <2>2, <2>3, LetterStep
<1>3. BusType /\ LettersAt => DeadLettersAreLatest
  BY LettersAtLatest
<1> QED
  BY <1>1, <1>2, <1>3, TypeInvariant, PTL DEF Spec

-----------------------------------------------------------------------------
(* Handlers still to be called. Waiting adds up the dispatches of a stack one  *)
(* by one, so what it is for every stack is shown by its least counterexample. *)

\* A set of numbers has a least one.
LEMMA LeastNumber ==
  ASSUME NEW T \in SUBSET Nat, T # {}
  PROVE  \E x \in T : \A y \in T : x <= y
<1>1. \A x, y \in Nat : y < x => <<y, x>> \in OpToRel(<, Nat)
  BY DEF OpToRel
<1>2. \E R : IsWellFoundedOn(R, Nat) /\ \A x, y \in Nat : y < x => <<y, x>> \in R
  BY <1>1, NatLessThanWellFounded, Zenon
<1>3. PICK R : IsWellFoundedOn(R, Nat) /\ \A x, y \in Nat : y < x => <<y, x>> \in R
  BY <1>2
<1>4. PICK x \in T : \A y \in T : ~(<<y, x>> \in R)
  BY <1>3, WFMin
<1>5. \A y \in T : ~(y < x)
  BY <1>3, <1>4, Zenon
<1>6. \A y \in T : x <= y
  BY <1>5
<1> QED
  BY <1>6

\* f adds up the handlers the first n dispatches still have to call.
Adds(f, d, n) ==
  f[0] = 0 /\ \A m \in 1..n : f[m] = f[m - 1] + Len(d[m].todo)

\* Two such sums over dispatches with the same handlers agree.
LEMMA SumsAgree ==
  ASSUME NEW d, NEW e, NEW f, NEW g, NEW n \in Nat, Adds(f, d, n), Adds(g, e, n),
         \A m \in 1..n : d[m].todo = e[m].todo
  PROVE  \A m \in 0..n : f[m] = g[m]
<1> SUFFICES ASSUME ~(\A m \in 0..n : f[m] = g[m])
             PROVE  FALSE
  OBVIOUS
<1> DEFINE T == {m \in 0..n : f[m] # g[m]}
<1>1. T # {} /\ T \in SUBSET Nat
  OBVIOUS
<1>2. PICK x \in T : \A y \in T : x <= y
  BY <1>1, LeastNumber
<1>3. x \in 0..n /\ x # 0
  BY <1>2 DEF Adds
<1>4. x - 1 \in 0..n /\ x \in 1..n /\ ~(x <= x - 1)
  BY <1>3
<1>5. f[x - 1] = g[x - 1]
  BY <1>2, <1>4
<1>6. f[x] = f[x - 1] + Len(d[x].todo) /\ g[x] = g[x - 1] + Len(e[x].todo)
  BY <1>4 DEF Adds
<1> QED
  BY <1>2, <1>4, <1>5, <1>6

\* There is such a sum.
LEMMA SumExists ==
  ASSUME NEW d \in Seq(Dispatches)
  PROVE  \E f \in [0..Len(d) -> Nat] : Adds(f, d, Len(d))
<1> DEFINE P(n) == \E f \in [0..n -> Nat] : Adds(f, d, n)
           T == {n \in 0..Len(d) : ~P(n)}
<1>a. Len(d) \in Nat
  OBVIOUS
<1> SUFFICES ASSUME T # {}
             PROVE  FALSE
  BY <1>a
<1>b. T \in SUBSET Nat
  BY <1>a
<1> HIDE DEF P
<1>1. PICK x \in T : \A y \in T : x <= y
  BY <1>b, LeastNumber
<1>2. P(0)
  <2>1. [n \in 0..0 |-> 0] \in [0..0 -> Nat] /\ Adds([n \in 0..0 |-> 0], d, 0)
    BY DEF Adds
  <2> QED
    BY <2>1 DEF P
<1>3. x \in 1..Len(d) /\ x - 1 \in 0..Len(d) /\ ~(x <= x - 1)
  BY <1>1, <1>2, <1>a
<1>4. PICK f \in [0..(x - 1) -> Nat] : Adds(f, d, x - 1)
  BY <1>1, <1>3 DEF P
<1>5. Len(d[x].todo) \in Nat
  BY <1>3, SMTT(30) DEF Dispatches
<1> DEFINE g == [n \in 0..x |-> IF n = x THEN f[x - 1] + Len(d[x].todo) ELSE f[n]]
<1>6. f[x - 1] \in Nat /\ \A n \in 0..x : n = x \/ (n \in 0..(x - 1) /\ f[n] \in Nat)
  BY <1>3, <1>4
<1>7. g \in [0..x -> Nat]
  BY <1>5, <1>6
<1>8. g[x] = f[x - 1] + Len(d[x].todo) /\ \A n \in 0..(x - 1) : g[n] = f[n]
  BY <1>3
<1> HIDE DEF g
<1>9. Adds(g, d, x)
  <2>1. g[0] = 0
    BY <1>3, <1>4, <1>8 DEF Adds
  <2>2. ASSUME NEW m \in 1..x
        PROVE  g[m] = g[m - 1] + Len(d[m].todo)
    <3>1. m - 1 \in 0..(x - 1) /\ g[m - 1] = f[m - 1]
      BY <1>3, <1>8
    <3>2. CASE m = x
      BY <1>8, <3>1, <3>2
    <3>3. CASE m # x
      <4>1. m \in 1..(x - 1) /\ m \in 0..(x - 1)
        BY <1>3, <3>3
      <4>2. g[m] = f[m]
        BY <1>8, <4>1
      <4>3. f[m] = f[m - 1] + Len(d[m].todo)
        BY <1>4, <4>1 DEF Adds
      <4> QED
        BY <3>1, <4>2, <4>3
    <3> QED
      BY <3>2, <3>3
  <2> QED
    BY <2>1, <2>2 DEF Adds
<1> QED
  BY <1>1, <1>7, <1>9 DEF P

\* Waiting is its last value.
LEMMA WaitingIsSum ==
  ASSUME NEW d \in Seq(Dispatches)
  PROVE  \E f \in [0..Len(d) -> Nat] : Adds(f, d, Len(d)) /\ Waiting(d) = f[Len(d)]
<1> DEFINE Def(f) == [n \in 0..Len(d) |-> IF n = 0 THEN 0 ELSE f[n - 1] + Len(d[n].todo)]
           waiting == CHOOSE f : f = Def(f)
<1>a. Len(d) \in Nat
  OBVIOUS
<1>1. PICK f \in [0..Len(d) -> Nat] : Adds(f, d, Len(d))
  BY SumExists
<1>2. f = Def(f)
  <2>1. ASSUME NEW n \in 0..Len(d)
        PROVE  f[n] = Def(f)[n]
    <3>1. CASE n = 0
      BY <1>1, <3>1 DEF Adds
    <3>2. CASE n # 0
      <4>1. n \in 1..Len(d)
        BY <3>2, <1>a
      <4> QED
        BY <1>1, <3>2, <4>1 DEF Adds
    <3> QED
      BY <3>1, <3>2
  <2> QED
    BY <1>1, <2>1
<1>3. waiting = Def(waiting)
  BY <1>2
<1>4. Adds(waiting, d, Len(d))
  <2> HIDE DEF waiting
  <2>1. 0 \in 0..Len(d) /\ \A m \in 1..Len(d) : m \in 0..Len(d) /\ m # 0
    BY <1>a
  <2>2. waiting[0] = 0
    BY <1>3, <2>1
  <2>3. \A m \in 1..Len(d) : waiting[m] = waiting[m - 1] + Len(d[m].todo)
    BY <1>3, <2>1
  <2> QED
    BY <2>2, <2>3 DEF Adds
<1>5. Waiting(d) = waiting[Len(d)]
  BY DEF Waiting
<1> HIDE DEF waiting
<1>6. waiting[Len(d)] = f[Len(d)]
  <2>1. \A m \in 0..Len(d) : waiting[m] = f[m]
    BY <1>1, <1>4, <1>a, SumsAgree
  <2> QED
    BY <2>1, <1>a
<1> QED
  BY <1>1, <1>5, <1>6

\* A stack without its innermost dispatch.
LEMMA FrontOf ==
  ASSUME NEW d \in Seq(Dispatches), d # <<>>
  PROVE  /\ Len(d) \in Nat \ {0}
         /\ Front(d) \in Seq(Dispatches) /\ Len(Front(d)) = Len(d) - 1
         /\ \A n \in 1..(Len(d) - 1) : Front(d)[n] = d[n]
<1>1. Len(d) \in Nat \ {0} /\ \A n \in 1..(Len(d) - 1) : d[n] \in Dispatches
  BY EmptySeq
<1>2. /\ Front(d) \in Seq(Dispatches)
      /\ Len(Front(d)) = (IF 1 <= Len(d) - 1 THEN (Len(d) - 1) - 1 + 1 ELSE 0)
      /\ \A n \in 1..((Len(d) - 1) - 1 + 1) : Front(d)[n] = d[1 + n - 1]
  BY <1>1, SubSeqProperties DEF Front
<1>a. \A n \in Nat \ {0} : (IF 1 <= n - 1 THEN (n - 1) - 1 + 1 ELSE 0) = n - 1
  OBVIOUS
<1>3. Len(Front(d)) = Len(d) - 1
  BY <1>1, <1>2, <1>a, Zenon
<1>4. ASSUME NEW n \in 1..(Len(d) - 1)
      PROVE  Front(d)[n] = d[n]
  <2>1. n \in 1..((Len(d) - 1) - 1 + 1) /\ 1 + n - 1 = n
    BY <1>1
  <2> QED
    BY <1>2, <2>1
<1> QED
  BY <1>1, <1>2, <1>3, <1>4

\* What the innermost dispatch adds.
LEMMA WaitingLast ==
  ASSUME NEW d \in Seq(Dispatches), d # <<>>
  PROVE  /\ Waiting(Front(d)) \in Nat /\ Len(d[Len(d)].todo) \in Nat
         /\ Waiting(d) = Waiting(Front(d)) + Len(d[Len(d)].todo)
<1> DEFINE e == Front(d)
<1>1. Len(d) \in Nat \ {0}
  BY FrontOf
<1>2. /\ e \in Seq(Dispatches) /\ Len(e) = Len(d) - 1
      /\ \A n \in 1..(Len(d) - 1) : e[n] = d[n]
  BY FrontOf
<1> HIDE DEF e
<1>3. PICK f \in [0..Len(d) -> Nat] : Adds(f, d, Len(d)) /\ Waiting(d) = f[Len(d)]
  BY WaitingIsSum
<1>4. PICK g \in [0..Len(e) -> Nat] : Adds(g, e, Len(e)) /\ Waiting(e) = g[Len(e)]
  BY <1>2, WaitingIsSum
<1>5. Adds(f, d, Len(e)) /\ Len(e) \in Nat /\ \A m \in 1..Len(e) : d[m].todo = e[m].todo
  BY <1>1, <1>2, <1>3 DEF Adds
<1>6. f[Len(e)] = g[Len(e)]
  BY <1>4, <1>5, SumsAgree
<1>7. f[Len(d)] = f[Len(e)] + Len(d[Len(d)].todo)
  BY <1>1, <1>2, <1>3 DEF Adds
<1>8. g[Len(e)] \in Nat
  BY <1>4, <1>5
<1>9. Len(d[Len(d)].todo) \in Nat
  BY <1>1 DEF Dispatches
<1> QED
  BY <1>3, <1>4, <1>6, <1>7, <1>8, <1>9 DEF e

\* An empty stack waits for nobody.
LEMMA WaitingNone == Waiting(<<>>) = 0
<1>1. <<>> \in Seq(Dispatches) /\ Len(<<>>) = 0
  OBVIOUS
<1>2. PICK f \in [0..0 -> Nat] : Adds(f, <<>>, 0) /\ Waiting(<<>>) = f[0]
  BY <1>1, WaitingIsSum
<1> QED
  BY <1>2 DEF Adds

\* What a stack waits for when its innermost dispatch changes.
LEMMA WaitingChanged ==
  ASSUME NEW d \in Seq(Dispatches), NEW e \in Seq(Dispatches), d # <<>>, Len(e) = Len(d),
         \A n \in 1..Len(d) : n # Len(d) => e[n] = d[n]
  PROVE  Waiting(e) + Len(d[Len(d)].todo) = Waiting(d) + Len(e[Len(d)].todo)
<1>1. Len(d) \in Nat \ {0} /\ e # <<>>
  BY FrontOf
<1>2. /\ Front(d) \in Seq(Dispatches) /\ Len(Front(d)) = Len(d) - 1
      /\ \A n \in 1..(Len(d) - 1) : Front(d)[n] = d[n]
  BY <1>1, FrontOf
<1>3. /\ Front(e) \in Seq(Dispatches) /\ Len(Front(e)) = Len(d) - 1
      /\ \A n \in 1..(Len(d) - 1) : Front(e)[n] = e[n]
  BY <1>1, FrontOf
<1>4. \A n \in 1..(Len(d) - 1) : n \in 1..Len(d) /\ n # Len(d)
  BY <1>1
<1>a. \A n \in 1..Len(Front(d)) : Front(d)[n] = Front(e)[n]
  BY <1>2, <1>3, <1>4
<1>5. Front(d) = Front(e)
  BY <1>2, <1>3, <1>a, SeqEqual
<1>6. Waiting(d) = Waiting(Front(d)) + Len(d[Len(d)].todo)
  BY WaitingLast
<1>7. Waiting(e) = Waiting(Front(e)) + Len(e[Len(d)].todo)
  BY <1>1, WaitingLast
<1>8. Waiting(Front(d)) \in Nat /\ Len(d[Len(d)].todo) \in Nat /\ Len(e[Len(d)].todo) \in Nat
  BY <1>1, WaitingLast
<1> QED
  BY <1>5, <1>6, <1>7, <1>8

\* What a stack waits for when a dispatch begins.
LEMMA WaitingAppended ==
  ASSUME NEW d \in Seq(Dispatches), NEW x \in Dispatches
  PROVE  Waiting(Append(d, x)) = Waiting(d) + Len(x.todo)
<1> DEFINE e == Append(d, x)
<1>1. /\ e \in Seq(Dispatches) /\ e # <<>> /\ Len(e) = Len(d) + 1 /\ e[Len(d) + 1] = x
      /\ \A n \in 1..Len(d) : e[n] = d[n]
  BY AppendProperties
<1> HIDE DEF e
<1>2. Len(d) \in Nat
  OBVIOUS
<1>3. /\ Front(e) \in Seq(Dispatches) /\ Len(Front(e)) = Len(d)
      /\ \A n \in 1..Len(d) : Front(e)[n] = e[n]
  BY <1>1, <1>2 DEF Front
<1>4. Front(e) = d
  BY <1>1, <1>3, SeqEqual
<1> QED
  BY <1>1, <1>4, WaitingLast DEF e

\* A stack waits for a number of handlers.
LEMMA WaitingNat ==
  ASSUME NEW d \in Seq(Dispatches)
  PROVE  Waiting(d) \in Nat
<1>1. PICK f \in [0..Len(d) -> Nat] : Waiting(d) = f[Len(d)]
  BY WaitingIsSum
<1>2. Len(d) \in 0..Len(d)
  OBVIOUS
<1> QED
  BY <1>1, <1>2

\* publish counts as delivered the handlers it will call.
LEMMA PublishesCounts ==
  ASSUME BusType, EveryDeliveryIsCalled, NEW all \in SUBSET Subscriptions, IsFiniteSet(all),
         NEW message \in Messages, Publishes(all, message)
  PROVE  EveryDeliveryIsCalled'
<1>1. CASE UNCHANGED <<stack, delivered, calls>>
  BY <1>1 DEF EveryDeliveryIsCalled
<1>2. ASSUME NEW todo \in Orders(Matching(all, message.topic)),
             delivered' = delivered + Len(todo), calls' = calls,
             stack' = Append(stack, [msg |-> message, todo |-> todo, running |-> <<>>])
      PROVE  EveryDeliveryIsCalled'
  <2>1. /\ Matching(all, message.topic) \in SUBSET Subscriptions
        /\ IsFiniteSet(Matching(all, message.topic))
    BY FS_Subset DEF Matching
  <2>2. todo \in Seq(Subscriptions) /\ Len(todo) \in Nat
    BY <2>1, OrderOf
  <2> DEFINE x == [msg |-> message, todo |-> todo, running |-> <<>>]
  <2>3. x \in Dispatches /\ x.todo = todo /\ stack' = Append(stack, x)
    BY <1>2, <2>2 DEF Dispatches
  <2> HIDE DEF x
  <2>4. stack \in Seq(Dispatches) /\ calls \in Nat /\ delivered \in Nat
    BY DEF BusType, TypeOK
  <2>5. Waiting(stack') = Waiting(stack) + Len(todo)
    BY <2>3, <2>4, WaitingAppended
  <2>6. Waiting(stack) \in Nat
    BY <2>4, WaitingNat
  <2>7. Waiting(stack)' = Waiting(stack')
    BY DEF Waiting
  <2> QED
    BY <1>2, <2>2, <2>4, <2>5, <2>6, <2>7 DEF EveryDeliveryIsCalled
<1> QED
  BY <1>1, <1>2 DEF Publishes, native, history

\* The handlers that delivered_count promises are all called, or are still to be
\* called by a dispatch in progress, in every state: whatever the handlers of
\* nested dispatches publish, unsubscribe, clear or throw, publish goes on with
\* the list it took when it began.
THEOREM DeliveriesAreCalled == Spec => []EveryDeliveryIsCalled
<1>1. Init => EveryDeliveryIsCalled
  <2> SUFFICES ASSUME Init
               PROVE  EveryDeliveryIsCalled
    OBVIOUS
  <2>1. delivered = 0 /\ calls = 0 /\ stack = <<>>
    BY DEF Init
  <2>2. Waiting(stack) = 0
    BY <2>1, WaitingNone, Zenon
  <2> QED
    BY <2>1, <2>2 DEF EveryDeliveryIsCalled
<1>2. BusType /\ EveryDeliveryIsCalled /\ [Next]_vars => EveryDeliveryIsCalled'
  <2> SUFFICES ASSUME BusType, EveryDeliveryIsCalled, [Next]_vars
               PROVE  EveryDeliveryIsCalled'
    OBVIOUS
  <2>a. stack \in Seq(Dispatches) /\ calls \in Nat /\ delivered \in Nat
    BY DEF BusType, TypeOK
  <2>b. Waiting(stack)' = Waiting(stack') /\ delivered = calls + Waiting(stack)
    BY DEF Waiting, EveryDeliveryIsCalled
  <2>c. UserType /\ UserType'
    BY TypeStep, TypeParts DEF UserType, BusType, TypeOK
  <2>1. CASE UNCHANGED <<stack, delivered, calls>>
    BY <2>1 DEF EveryDeliveryIsCalled
  <2>2. CASE \/ \E t \in Topic : Publish(t)
             \/ \E q \in Req : Reply(q)
             \/ \E q \in Req, t \in Topic, timed \in BOOLEAN : Request(q, t, timed)
    BY <2>2, <2>c, PublishesCounts, MessageTypes DEF Publish, Reply, Request, UserType
  <2>3. CASE CallHandler \/ CallReply
    <3>1. Calls /\ calls' = calls + 1 /\ delivered' = delivered
      BY <2>3 DEF CallHandler, CallReply, native
    <3>2. stack # <<>> /\ Last(stack) = stack[Len(stack)] /\ Len(stack) \in DOMAIN stack
      BY <3>1, LastDispatch DEF Calls
    <3> DEFINE todo == stack[Len(stack)].todo
    <3>3. todo \in Seq(Subscriptions) /\ todo # <<>>
      BY <3>1, <3>2, DispatchFields DEF Calls
    <3>4. PICK running : Continue(Tail(todo), running)
      BY <2>3, <3>2 DEF CallHandler, CallReply
    <3>5. /\ stack' = [stack EXCEPT ![Len(stack)] =
                         [msg |-> Last(stack).msg, todo |-> Tail(todo), running |-> running]]
      BY <3>4 DEF Continue
    <3>6. /\ Len(stack') = Len(stack) /\ stack'[Len(stack)].todo = Tail(todo)
          /\ \A n \in 1..Len(stack) : n # Len(stack) => stack'[n] = stack[n]
      BY <2>a, <3>2, <3>5
    <3>7. stack' \in Seq(Dispatches)
      BY TypeStep DEF BusType, TypeOK
    <3>8. Waiting(stack') + Len(todo) = Waiting(stack) + Len(Tail(todo))
      BY <2>a, <3>2, <3>6, <3>7, WaitingChanged
    <3>9. Len(Tail(todo)) = Len(todo) - 1 /\ Len(todo) \in Nat
      BY <3>3, HeadTailProperties
    <3>10. Waiting(stack') \in Nat /\ Waiting(stack) \in Nat
      BY <2>a, <3>7, WaitingNat
    <3> HIDE DEF todo
    <3>11. Waiting(stack') = Waiting(stack) - 1
      BY <3>8, <3>9, <3>10
    <3>12. delivered' = calls' + Waiting(stack')
      BY <2>a, <2>b, <3>1, <3>10, <3>11
    <3> QED
      BY <2>b, <3>12, Zenon DEF EveryDeliveryIsCalled
  <2>4. CASE HandlerEnds
    <3>1. stack # <<>> /\ Last(stack) = stack[Len(stack)] /\ Len(stack) \in DOMAIN stack
      BY <2>4, LastDispatch DEF HandlerEnds
    <3> DEFINE todo == stack[Len(stack)].todo
    <3>2. todo \in Seq(Subscriptions)
      BY <3>1, DispatchFields
    <3>3. stack' = [stack EXCEPT ![Len(stack)] =
                      [msg |-> Last(stack).msg, todo |-> todo, running |-> <<>>]]
      BY <2>4, <3>1 DEF HandlerEnds, Continue
    <3>4. /\ Len(stack') = Len(stack) /\ stack'[Len(stack)].todo = todo
          /\ \A n \in 1..Len(stack) : n # Len(stack) => stack'[n] = stack[n]
      BY <2>a, <3>1, <3>3
    <3>5. stack' \in Seq(Dispatches)
      BY TypeStep DEF BusType, TypeOK
    <3>6. Waiting(stack') + Len(todo) = Waiting(stack) + Len(todo)
      BY <2>a, <3>1, <3>4, <3>5, WaitingChanged
    <3>7. Waiting(stack') \in Nat /\ Waiting(stack) \in Nat /\ Len(todo) \in Nat
      BY <2>a, <3>2, <3>5, WaitingNat
    <3> QED
      BY <2>4, <2>a, <2>b, <3>6, <3>7, SMTT(30) DEF EveryDeliveryIsCalled, HandlerEnds, native
  <2>5. CASE PublishEnds
    <3>1. stack # <<>> /\ Len(stack[Len(stack)].todo) = 0 /\ stack' = Front(stack)
      BY <2>5, LastDispatch DEF PublishEnds
    <3>2. Waiting(stack) = Waiting(stack') /\ Waiting(stack') \in Nat
      BY <2>a, <3>1, WaitingLast
    <3> QED
      BY <2>5, <2>b, <3>2 DEF EveryDeliveryIsCalled, PublishEnds, native, history
  <2>6. CASE \/ \E p \in Pattern, prio \in 0..1, once \in BOOLEAN : Subscribe(p, prio, once)
             \/ \E s \in subs : Unsubscribe(s)
             \/ \E q \in Req, timed \in BOOLEAN : RequestThrows(q, timed)
             \/ Use \/ Clear \/ ClearLetters \/ (\E q \in Req : TimerFires(q)) \/ UNCHANGED vars
    <3>1. UNCHANGED <<stack, delivered, calls>>
      BY <2>6 DEF Subscribe, Unsubscribe, RequestThrows, Use, Clear, ClearLetters, TimerFires,
                  vars, native, history
    <3> QED
      BY <2>1, <3>1
  <2> QED
    BY <2>2, <2>3, <2>4, <2>5, <2>6 DEF Next, User, Dispatch
<1> QED
  BY <1>1, <1>2, TypeInvariant, PTL DEF Spec

-----------------------------------------------------------------------------
(* topic_matches decides whether a pattern fits a topic, for all lengths       *)

\* The i-th token of p takes the tokens of t after the a-th and up to the b-th.
Takes(p, t, i, a, b) ==
  IF p[i] = "#" THEN b >= a ELSE b = a + 1 /\ p[i] \in {"*", t[b]}

\* The tokens of p from the i-th on fit those of t from the j-th on.
FitsFrom(p, t, i, j) ==
  \E cut \in [(i - 1)..Len(p) -> 0..Len(t)] :
    /\ cut[i - 1] = j - 1 /\ cut[Len(p)] = Len(t)
    /\ \A n \in i..Len(p) : Takes(p, t, n, cut[n - 1], cut[n])

\* A pattern that has been used up fits the end of the topic.
LEMMA FitsAtEnd ==
  ASSUME NEW S, NEW p \in Seq(S), NEW t \in Seq(S), NEW j \in 1..(Len(t) + 1)
  PROVE  FitsFrom(p, t, Len(p) + 1, j) <=> j > Len(t)
<1>a. Len(p) \in Nat /\ Len(t) \in Nat /\ (Len(p) + 1) - 1 = Len(p)
  OBVIOUS
<1>1. ASSUME FitsFrom(p, t, Len(p) + 1, j)
      PROVE  j > Len(t)
  <2>1. PICK cut : cut[(Len(p) + 1) - 1] = j - 1 /\ cut[Len(p)] = Len(t)
    BY <1>1 DEF FitsFrom
  <2>2. j - 1 = Len(t)
    BY <1>a, <2>1, Zenon
  <2> QED
    BY <1>a, <2>2
<1>2. ASSUME j > Len(t)
      PROVE  FitsFrom(p, t, Len(p) + 1, j)
  <2> DEFINE cut == [n \in Len(p)..Len(p) |-> Len(t)]
  <2>1. cut \in [Len(p)..Len(p) -> 0..Len(t)] /\ cut[Len(p)] = Len(t) /\ j - 1 = Len(t)
    BY <1>2, <1>a
  <2>2. \A n \in (Len(p) + 1)..Len(p) : FALSE
    BY <1>a
  <2> HIDE DEF cut
  <2> QED
    BY <1>a, <2>1, <2>2 DEF FitsFrom
<1> QED
  BY <1>1, <1>2

\* A pattern fits when its first token takes some of the topic and the others
\* fit what is left.
LEMMA FitsNext ==
  ASSUME NEW S, NEW p \in Seq(S), NEW t \in Seq(S), NEW i \in 1..Len(p), NEW j \in 1..(Len(t) + 1)
  PROVE  FitsFrom(p, t, i, j) <=>
           \E k \in 1..(Len(t) + 1) : Takes(p, t, i, j - 1, k - 1) /\ FitsFrom(p, t, i + 1, k)
<1>a. /\ Len(p) \in Nat /\ Len(t) \in Nat /\ i \in Nat /\ i <= Len(p) /\ (i + 1) - 1 = i
      /\ i \in i..Len(p) /\ i \in (i - 1)..Len(p) /\ i - 1 \in (i - 1)..Len(p)
      /\ Len(p) \in i..Len(p) /\ Len(p) \in (i - 1)..Len(p)
      /\ \A n \in (i + 1)..Len(p) : n \in i..Len(p) /\ n - 1 \in i..Len(p)
      /\ \A n \in i..Len(p) : n \in (i - 1)..Len(p) /\ n - 1 \in (i - 1)..Len(p)
      /\ \A n \in i..Len(p) : n # i - 1 /\ (n = i \/ n \in (i + 1)..Len(p))
      /\ \A n \in (i - 1)..Len(p) : n = i - 1 \/ n \in i..Len(p)
  OBVIOUS
<1>1. ASSUME FitsFrom(p, t, i, j)
      PROVE  \E k \in 1..(Len(t) + 1) : Takes(p, t, i, j - 1, k - 1) /\ FitsFrom(p, t, i + 1, k)
  <2>1. PICK cut \in [(i - 1)..Len(p) -> 0..Len(t)] :
          /\ cut[i - 1] = j - 1 /\ cut[Len(p)] = Len(t)
          /\ \A n \in i..Len(p) : Takes(p, t, n, cut[n - 1], cut[n])
    BY <1>1 DEF FitsFrom
  <2> DEFINE k == cut[i] + 1
             rest == [n \in i..Len(p) |-> cut[n]]
  <2>a. cut[i] \in 0..Len(t)
    BY <1>a, <2>1, Zenon
  <2>2. cut[i] \in 0..Len(t) /\ k \in 1..(Len(t) + 1) /\ k - 1 = cut[i]
    BY <1>a, <2>a
  <2>3. Takes(p, t, i, j - 1, k - 1)
    BY <1>a, <2>1, <2>2
  <2>4. rest \in [i..Len(p) -> 0..Len(t)] /\ \A n \in i..Len(p) : rest[n] = cut[n]
    BY <1>a, <2>1
  <2> HIDE DEF rest, k
  <2>5. \A n \in (i + 1)..Len(p) : Takes(p, t, n, rest[n - 1], rest[n])
    BY <1>a, <2>1, <2>4
  <2>6. rest[i] = k - 1 /\ rest[Len(p)] = Len(t)
    BY <1>a, <2>1, <2>2, <2>4
  <2>7. FitsFrom(p, t, i + 1, k)
    BY <1>a, <2>4, <2>5, <2>6 DEF FitsFrom
  <2> QED
    BY <2>2, <2>3, <2>7
<1>2. ASSUME NEW k \in 1..(Len(t) + 1), Takes(p, t, i, j - 1, k - 1), FitsFrom(p, t, i + 1, k)
      PROVE  FitsFrom(p, t, i, j)
  <2>1. PICK rest \in [i..Len(p) -> 0..Len(t)] :
          /\ rest[i] = k - 1 /\ rest[Len(p)] = Len(t)
          /\ \A n \in (i + 1)..Len(p) : Takes(p, t, n, rest[n - 1], rest[n])
    BY <1>2, <1>a DEF FitsFrom
  <2> DEFINE cut == [n \in (i - 1)..Len(p) |-> IF n = i - 1 THEN j - 1 ELSE rest[n]]
  <2>2. /\ cut \in [(i - 1)..Len(p) -> 0..Len(t)]
        /\ cut[i - 1] = j - 1 /\ \A n \in i..Len(p) : cut[n] = rest[n]
    BY <1>a, <2>1
  <2> HIDE DEF cut
  <2>3. ASSUME NEW n \in i..Len(p)
        PROVE  Takes(p, t, n, cut[n - 1], cut[n])
    <3>1. CASE n = i
      BY <1>2, <1>a, <2>1, <2>2, <3>1
    <3>2. CASE n # i
      BY <1>a, <2>1, <2>2, <3>2
    <3> QED
      BY <3>1, <3>2
  <2> QED
    BY <1>a, <2>1, <2>2, <2>3 DEF FitsFrom
<1> QED
  BY <1>1, <1>2

\* The table of FitsFrom is a table match_recursive could fill.
LEMMA FitsTable ==
  ASSUME NEW S, NEW p \in Seq(S), NEW t \in Seq(S), NEW i \in 1..(Len(p) + 1),
         NEW j \in 1..(Len(t) + 1)
  PROVE  FitsFrom(p, t, i, j) <=>
           IF i > Len(p) THEN j > Len(t)
           ELSE IF p[i] = "#"
                THEN i = Len(p) \/ \E k \in j..(Len(t) + 1) : FitsFrom(p, t, i + 1, k)
                ELSE j <= Len(t) /\ p[i] \in {"*", t[j]} /\ FitsFrom(p, t, i + 1, j + 1)
<1>a. Len(p) \in Nat /\ Len(t) \in Nat
  OBVIOUS
<1>1. CASE i > Len(p)
  <2>1. i = Len(p) + 1
    BY <1>1, <1>a
  <2> QED
    BY <1>1, <2>1, FitsAtEnd
<1>2. CASE ~(i > Len(p))
  <2>1. i \in 1..Len(p)
    BY <1>2, <1>a
  <2>2. FitsFrom(p, t, i, j) <=>
          \E k \in 1..(Len(t) + 1) : Takes(p, t, i, j - 1, k - 1) /\ FitsFrom(p, t, i + 1, k)
    BY <2>1, FitsNext
  <2>3. CASE p[i] = "#"
    <3>1. \A k \in 1..(Len(t) + 1) : Takes(p, t, i, j - 1, k - 1) <=> k \in j..(Len(t) + 1)
      BY <1>a, <2>3 DEF Takes
    <3>2. \A k \in j..(Len(t) + 1) : k \in 1..(Len(t) + 1)
      BY <1>a
    <3>3. FitsFrom(p, t, i, j) <=> \E k \in j..(Len(t) + 1) : FitsFrom(p, t, i + 1, k)
      BY <2>2, <3>1, <3>2, Zenon
    <3>4. ASSUME i = Len(p)
          PROVE  \E k \in j..(Len(t) + 1) : FitsFrom(p, t, i + 1, k)
      <4>1. Len(t) + 1 \in 1..(Len(t) + 1) /\ Len(t) + 1 \in j..(Len(t) + 1) /\ Len(t) + 1 > Len(t)
        BY <1>a
      <4> QED
        BY <3>4, <4>1, FitsAtEnd
    <3> QED
      BY <1>2, <2>3, <3>3, <3>4
  <2>4. CASE p[i] # "#"
    <3>1. \A k \in 1..(Len(t) + 1) :
            Takes(p, t, i, j - 1, k - 1) <=> k = j + 1 /\ p[i] \in {"*", t[j]}
      <4> TAKE k \in 1..(Len(t) + 1)
      <4>1. Takes(p, t, i, j - 1, k - 1) <=> k - 1 = (j - 1) + 1 /\ p[i] \in {"*", t[k - 1]}
        BY <2>4, Zenon DEF Takes
      <4>2. k - 1 = (j - 1) + 1 <=> k = j + 1
        BY <1>a
      <4>3. k = j + 1 => k - 1 = j
        BY <1>a
      <4> QED
        BY <4>1, <4>2, <4>3, Zenon
    <3>2. j + 1 \in 1..(Len(t) + 1) <=> j <= Len(t)
      BY <1>a
    <3>3. FitsFrom(p, t, i, j) <=>
            j <= Len(t) /\ p[i] \in {"*", t[j]} /\ FitsFrom(p, t, i + 1, j + 1)
      BY <2>2, <3>1, <3>2, Zenon
    <3> QED
      BY <1>2, <2>4, <3>3
  <2> QED
    BY <2>3, <2>4
<1> QED
  BY <1>1, <1>2

\* topic_matches decides what its comment says, "Supports `*` for single token and
\* `#` for zero or more tokens", on every pattern and every topic: its two
\* shortcuts and its early return for a last '#' change nothing.
LEMMA TopicMatchesDecides ==
  ASSUME NEW S, NEW p \in Seq(S), NEW t \in Seq(S)
  PROVE  topic_matches(p, t) = Fits(p, t)
<1> DEFINE I == 1..(Len(p) + 1)
           J == 1..(Len(t) + 1)
           Row(f, i) == [j \in J |->
             IF i > Len(p) THEN j > Len(t)
             ELSE IF p[i] = "#" THEN i = Len(p) \/ \E k \in j..(Len(t) + 1) : f[i + 1][k]
             ELSE j <= Len(t) /\ p[i] \in {"*", t[j]} /\ f[i + 1][j + 1]]
           Def(f) == [i \in I |-> Row(f, i)]
           match == CHOOSE f : f = Def(f)
           table == [i \in I |-> [j \in J |-> FitsFrom(p, t, i, j)]]
<1>a. Len(p) \in Nat /\ Len(t) \in Nat /\ 1 \in I /\ 1 \in J
  OBVIOUS
<1>b. \A i \in I, j \in J : table[i][j] = FitsFrom(p, t, i, j)
  BY Zenon
<1>c. \A i \in I : i > Len(p) \/ (i + 1 \in I /\ i \in 1..Len(p))
  BY <1>a
<1>d. \A j \in J : \A k \in j..(Len(t) + 1) : k \in J
  BY <1>a
<1>e. \A j \in J : j <= Len(t) => j + 1 \in J
  BY <1>a
<1>1. table = Def(table)
  <2>1. ASSUME NEW i \in I, NEW j \in J
        PROVE  table[i][j] = Row(table, i)[j]
    <3> DEFINE value ==
          IF i > Len(p) THEN j > Len(t)
          ELSE IF p[i] = "#" THEN i = Len(p) \/ \E k \in j..(Len(t) + 1) : table[i + 1][k]
          ELSE j <= Len(t) /\ p[i] \in {"*", t[j]} /\ table[i + 1][j + 1]
    <3>1. Row(table, i)[j] = value
      BY Zenon
    <3> HIDE DEF table
    <3>2. FitsFrom(p, t, i, j) <=>
            IF i > Len(p) THEN j > Len(t)
            ELSE IF p[i] = "#"
                 THEN i = Len(p) \/ \E k \in j..(Len(t) + 1) : FitsFrom(p, t, i + 1, k)
                 ELSE j <= Len(t) /\ p[i] \in {"*", t[j]} /\ FitsFrom(p, t, i + 1, j + 1)
      BY FitsTable
    <3>3. CASE i > Len(p)
      <4>1. value = (j > Len(t))
        BY <3>3
      <4>2. (j > Len(t)) \in BOOLEAN
        OBVIOUS
      <4>3. (j > Len(t)) = FitsFrom(p, t, i, j)
        BY <3>2, <3>3, <4>2, Zenon DEF FitsFrom
      <4> QED
        BY <1>b, <3>1, <4>1, <4>3, Zenon
    <3>4. CASE ~(i > Len(p)) /\ p[i] = "#"
      <4>1. i + 1 \in I /\ \A k \in j..(Len(t) + 1) : table[i + 1][k] = FitsFrom(p, t, i + 1, k)
        BY <1>b, <1>c, <1>d, <3>4, Zenon
      <4>2. value = (i = Len(p) \/ \E k \in j..(Len(t) + 1) : table[i + 1][k])
        BY <3>4, Zenon
      <4>3. (i = Len(p) \/ \E k \in j..(Len(t) + 1) : table[i + 1][k]) <=> FitsFrom(p, t, i, j)
        BY <3>2, <3>4, <4>1, Zenon
      <4>4. value = FitsFrom(p, t, i, j)
        BY <4>2, <4>3, Zenon DEF FitsFrom
      <4> QED
        BY <1>b, <3>1, <4>4, Zenon
    <3>5. CASE ~(i > Len(p)) /\ p[i] # "#"
      <4>1. i + 1 \in I /\ (j <= Len(t) => table[i + 1][j + 1] = FitsFrom(p, t, i + 1, j + 1))
        BY <1>b, <1>c, <1>e, <3>5, Zenon
      <4>2. value = (j <= Len(t) /\ p[i] \in {"*", t[j]} /\ table[i + 1][j + 1])
        BY <3>5, Zenon
      <4>3. (j <= Len(t) /\ p[i] \in {"*", t[j]} /\ table[i + 1][j + 1]) <=> FitsFrom(p, t, i, j)
        BY <3>2, <3>5, <4>1, Zenon
      <4>4. value = FitsFrom(p, t, i, j)
        BY <4>2, <4>3, Zenon DEF FitsFrom
      <4> QED
        BY <1>b, <3>1, <4>4, Zenon
    <3> QED
      BY <3>3, <3>4, <3>5
  <2> QED
    BY <2>1, Zenon
<1>2. match = Def(match)
  BY <1>1, Zenon
<1>3. topic_matches(p, t) <=> p = <<"#">> \/ p = t \/ match[1][1]
  BY Zenon DEF topic_matches
<1> HIDE DEF match, table
<1>f. ASSUME NEW i \in I, NEW j \in J
      PROVE  match[i][j] <=>
               IF i > Len(p) THEN j > Len(t)
               ELSE IF p[i] = "#" THEN i = Len(p) \/ \E k \in j..(Len(t) + 1) : match[i + 1][k]
               ELSE j <= Len(t) /\ p[i] \in {"*", t[j]} /\ match[i + 1][j + 1]
  <2>1. match[i] = Row(match, i)
    BY <1>2, Zenon
  <2>2. match[i][j] = Row(match, i)[j]
    BY <2>1, Zenon
  <2> QED
    BY <2>2, Zenon
<1>4. \A i \in I, j \in J : match[i][j] <=> FitsFrom(p, t, i, j)
  <2> DEFINE Agree(n) == \A j \in J : match[Len(p) + 1 - n][j] <=> FitsFrom(p, t, Len(p) + 1 - n, j)
             T == {n \in 0..Len(p) : ~Agree(n)}
  <2>a. \A i \in I : Len(p) + 1 - i \in 0..Len(p) /\ Len(p) + 1 - (Len(p) + 1 - i) = i
    BY <1>a
  <2>1. ASSUME \A n \in 0..Len(p) : Agree(n)
        PROVE  \A i \in I, j \in J : match[i][j] <=> FitsFrom(p, t, i, j)
    BY <2>1, <2>a, Zenon
  <2> HIDE DEF Agree
  <2> SUFFICES ASSUME T # {}
               PROVE  FALSE
    BY <2>1, Zenon
  <2>b. T \in SUBSET Nat
    BY <1>a
  <2>2. PICK x \in T : \A y \in T : x <= y
    BY <2>b, LeastNumber
  <2> DEFINE i == Len(p) + 1 - x
  <2>3. x \in 0..Len(p) /\ i \in I /\ (x = 0 => i > Len(p)) /\ (x # 0 => ~(i > Len(p)))
    BY <2>2, <1>a
  <2>4. ASSUME x # 0
        PROVE  \A j \in J : match[i + 1][j] <=> FitsFrom(p, t, i + 1, j)
    <3>1. x - 1 \in 0..Len(p) /\ ~(x <= x - 1) /\ Len(p) + 1 - (x - 1) = i + 1
      BY <2>3, <2>4, <1>a
    <3>2. Agree(x - 1)
      BY <2>2, <3>1
    <3> HIDE DEF i
    <3> QED
      BY <3>1, <3>2, Zenon DEF Agree
  <2> HIDE DEF i
  <2>5. ASSUME NEW j \in J
        PROVE  match[i][j] <=> FitsFrom(p, t, i, j)
    <3>1. FitsFrom(p, t, i, j) <=>
            IF i > Len(p) THEN j > Len(t)
            ELSE IF p[i] = "#"
                 THEN i = Len(p) \/ \E k \in j..(Len(t) + 1) : FitsFrom(p, t, i + 1, k)
                 ELSE j <= Len(t) /\ p[i] \in {"*", t[j]} /\ FitsFrom(p, t, i + 1, j + 1)
      BY <2>3, FitsTable
    <3>2. match[i][j] <=>
            IF i > Len(p) THEN j > Len(t)
            ELSE IF p[i] = "#" THEN i = Len(p) \/ \E k \in j..(Len(t) + 1) : match[i + 1][k]
            ELSE j <= Len(t) /\ p[i] \in {"*", t[j]} /\ match[i + 1][j + 1]
      BY <1>f, <2>3, Zenon
    <3>3. CASE i > Len(p)
      BY <3>1, <3>2, <3>3, Zenon
    <3>4. CASE ~(i > Len(p)) /\ p[i] = "#"
      BY <2>3, <2>4, <3>1, <3>2, <3>4, <1>d, Zenon
    <3>5. CASE ~(i > Len(p)) /\ p[i] # "#"
      BY <2>3, <2>4, <3>1, <3>2, <3>5, <1>e, Zenon
    <3> QED
      BY <3>3, <3>4, <3>5
  <2>6. Agree(x)
    BY <2>5, Zenon DEF Agree, i
  <2> QED
    BY <2>2, <2>6
<1>5. Fits(p, t) <=> FitsFrom(p, t, 1, 1)
  BY <1>a DEF Fits, FitsFrom, Takes
<1>6. p = <<"#">> => Fits(p, t)
  <2> SUFFICES ASSUME p = <<"#">>
               PROVE  FitsFrom(p, t, 1, 1)
    BY <1>5
  <2>1. Len(p) = 1 /\ p[1] = "#"
    OBVIOUS
  <2>2. ~(1 > Len(p)) /\ 1 \in 1..(Len(p) + 1) /\ 1 \in 1..(Len(t) + 1)
    BY <2>1, <1>a
  <2>3. FitsFrom(p, t, 1, 1) <=>
          IF 1 > Len(p) THEN 1 > Len(t)
          ELSE IF p[1] = "#"
               THEN 1 = Len(p) \/ \E k \in 1..(Len(t) + 1) : FitsFrom(p, t, 1 + 1, k)
               ELSE 1 <= Len(t) /\ p[1] \in {"*", t[1]} /\ FitsFrom(p, t, 1 + 1, 1 + 1)
    BY <2>2, FitsTable, Zenon
  <2> QED
    BY <2>1, <2>2, <2>3, Zenon
<1>7. p = t => Fits(p, t)
  <2> SUFFICES ASSUME p = t
               PROVE  Fits(p, t)
    OBVIOUS
  <2> DEFINE cut == [n \in 0..Len(p) |-> n]
  <2>1. /\ cut \in [0..Len(p) -> 0..Len(t)] /\ cut[0] = 0 /\ cut[Len(p)] = Len(t)
        /\ \A n \in 1..Len(p) : cut[n] = n /\ cut[n - 1] = n - 1
    BY <1>a
  <2> HIDE DEF cut
  <2>2. \A n \in 1..Len(p) : IF p[n] = "#" THEN cut[n] >= cut[n - 1]
                             ELSE cut[n] = cut[n - 1] + 1 /\ p[n] \in {"*", t[cut[n]]}
    BY <1>a, <2>1
  <2> QED
    BY <2>1, <2>2 DEF Fits
<1>8. topic_matches(p, t) <=> Fits(p, t)
  BY <1>3, <1>4, <1>5, <1>6, <1>7, <1>a, Zenon
<1> QED
  BY <1>8, Zenon DEF topic_matches, Fits

\* The same as an invariant: topic_matches decides Fits on every pattern and topic
\* up to MaxTokens tokens, whatever MaxTokens is.
THEOREM TopicMatchesCorrect == Spec => []TopicMatchesFits
<1>1. TopicMatchesFits
  <2> SUFFICES ASSUME NEW n \in 1..MaxTokens, NEW m \in 1..MaxTokens,
                      NEW p \in [1..n -> Word \cup {"*", "#"}], NEW t \in [1..m -> Word]
               PROVE  topic_matches(p, t) = Fits(p, t)
    BY DEF TopicMatchesFits
  <2>1. n \in Nat /\ m \in Nat
    BY BusAssumption
  <2>2. p \in Seq(Word \cup {"*", "#"}) /\ t \in Seq(Word \cup {"*", "#"})
    BY <2>1
  <2> QED
    BY <2>2, TopicMatchesDecides
<1> QED
  BY <1>1, PTL DEF Spec
=============================================================================
