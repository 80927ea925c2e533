----------------------------- MODULE MessageBus -----------------------------
(***************************************************************************)
(* amber:bus (src/src/bus/mod.rs): a MessageBus object with its            *)
(* subscriptions, synchronous publish, request and reply, and the native   *)
(* record of metrics and dead letters behind it.                           *)
(*                                                                         *)
(* publish calls the handlers itself, so a handler that publishes, replies *)
(* or unsubscribes does so in the middle of the dispatch that called it:   *)
(* the state keeps the stack of dispatches. A middleware is modelled by    *)
(* its answer only, and a topic or a pattern is the sequence of its        *)
(* dot-separated tokens.                                                   *)
(***************************************************************************)
EXTENDS Naturals, Sequences, SequencesExt, FiniteSets

CONSTANTS
  Word,       \* the words of topics
  Used,       \* those of the topics user code uses
  Req,        \* the requests user code may make
  NoReq,      \* stands for an absent replyTo
  MaxSubs,    \* bound on the subscription ids user code is given
  MaxMsgs,    \* bound on the messages published
  MaxDead,    \* max_dead_letters
  MaxTokens   \* length of the patterns and topics topic_matches is tried on

ASSUME BusAssumption ==
  /\ NoReq \notin Req /\ Used \subseteq Word
  /\ MaxSubs \in Nat /\ MaxMsgs \in Nat /\ MaxTokens \in Nat
  /\ MaxDead \in Nat \ {0}

VARIABLES
  subs,       \* #subscriptions; the order of the Map is that of the ids
  nextSub,    \* #subIdCounter
  filtered,   \* a middleware that may answer false is in use
  stack,      \* the publish calls in progress, innermost last
  promise,    \* the promise of each request
  timers,     \* the requests whose timeout is set
  asked,      \* requests whose message user code has been given
  published,  \* published_count
  delivered,  \* delivered_count
  deadLetters,\* dead_letters, each by the number of its publish
  deadCount,  \* dead_letter_count
  calls,      \* history: handlers called
  lost        \* history: dead-lettered messages since the last clear

native == <<published, delivered, deadLetters, deadCount>>
history == <<calls, lost>>
vars == <<subs, nextSub, filtered, stack, promise, timers, asked, native, history>>

-----------------------------------------------------------------------------
(* topic_matches *)

\* Mutant of topic_matches: '#' takes at least one token when others follow.
topic_matches_greedy(p, t) ==
  LET match[i \in 1..(Len(p) + 1)] ==
        [j \in 1..(Len(t) + 1) |->
           IF i > Len(p) THEN j > Len(t)
           ELSE IF p[i] = "#" THEN i = Len(p) \/ \E k \in (j + 1)..(Len(t) + 1) : match[i + 1][k]
           ELSE j <= Len(t) /\ p[i] \in {"*", t[j]} /\ match[i + 1][j + 1]]
  IN p = <<"#">> \/ p = t \/ match[1][1]

\* match_recursive on the tokens of p from i on and those of t from j on
topic_matches(p, t) ==
  LET match[i \in 1..(Len(p) + 1)] ==
        [j \in 1..(Len(t) + 1) |->
           IF i > Len(p) THEN j > Len(t)
           ELSE IF p[i] = "#" THEN i = Len(p) \/ \E k \in j..(Len(t) + 1) : match[i + 1][k]
           ELSE j <= Len(t) /\ p[i] \in {"*", t[j]} /\ match[i + 1][j + 1]]
  IN p = <<"#">> \/ p = t \/ match[1][1]

-----------------------------------------------------------------------------

Topic == {<<w>> : w \in Used}
Pattern == {<<w>> : w \in Used \cup {"#"}}
ReplyTopic(q) == <<"_reply", q>>

Message(topic, q) == [topic |-> topic, req |-> q]

Init ==
  /\ subs = {} /\ nextSub = 1 /\ filtered = FALSE
  /\ stack = <<>>
  /\ promise = [q \in Req |-> "none"] /\ timers = {} /\ asked = {}
  /\ published = 0 /\ delivered = 0 /\ deadLetters = <<>> /\ deadCount = 0
  /\ calls = 0 /\ lost = <<>>

\* User code runs: a task of the event loop, or the handler publish has called.
Runs == stack # <<>> => Last(stack).running # <<>>

Matching(all, topic) == {s \in all : topic_matches(s.pattern, topic)}

\* The order of the handlers: by descending priority, those of one priority in
\* the order of the Map. There is exactly one for each set of subscriptions.
CalledBefore(s, t) == s.prio > t.prio \/ (s.prio = t.prio /\ s.id < t.id)
Orders(S) ==
  {order \in [1..Cardinality(S) -> S] :
     \A m, n \in DOMAIN order : m < n => CalledBefore(order[m], order[n])}

Subscription(pattern, prio, once, q) ==
  [id |-> nextSub, pattern |-> pattern, prio |-> prio, once |-> once, req |-> q]

Without(id) == {s \in subs : s.id # id}

-----------------------------------------------------------------------------
(* Operations of user code *)

\* subscribe and once
Subscribe(pattern, prio, once) ==
  /\ Runs /\ nextSub <= MaxSubs
  /\ subs' = subs \cup {Subscription(pattern, prio, once, NoReq)}
  /\ nextSub' = nextSub + 1
  /\ UNCHANGED <<filtered, stack, promise, timers, asked, native, history>>

Unsubscribe(s) ==
  /\ Runs /\ s.req = NoReq
  /\ subs' = Without(s.id)
  /\ UNCHANGED <<nextSub, filtered, stack, promise, timers, asked, native, history>>

\* use
Use ==
  /\ Runs /\ ~filtered
  /\ filtered' = TRUE
  /\ UNCHANGED <<subs, nextSub, stack, promise, timers, asked, native, history>>

\* Mutant of AddDeadLetter: the newest goes to make room.
AddDeadLetterPops(id) ==
  /\ deadCount' = deadCount + 1
  /\ deadLetters' = Append(IF Len(deadLetters) >= MaxDead THEN Front(deadLetters) ELSE deadLetters,
                           id)
  /\ lost' = Append(lost, id)

\* add_dead_letter. The queue keeps the Message with this id; its replyTo is dropped,
\* whose JSON name is not the one Message reads.
AddDeadLetter(id) ==
  /\ deadCount' = deadCount + 1
  /\ deadLetters' = Append(IF Len(deadLetters) >= MaxDead THEN Tail(deadLetters) ELSE deadLetters,
                           id)
  /\ lost' = Append(lost, id)

\* publish up to its first handler, with the subscriptions there are. A
\* middleware may cancel it; a message without subscriber becomes a dead letter
\* if its JSON reads as a Message, and is only counted otherwise. A publish that
\* throws, on a blank topic or because nobody subscribed and the payload has no
\* JSON, has changed nothing.
Publishes(all, message) ==
  LET matching == Matching(all, message.topic)
  IN /\ published < MaxMsgs
     /\ \/ /\ filtered
           /\ UNCHANGED <<stack, native, history>>
        \/ /\ matching = {}
           /\ published' = published + 1
           /\ \/ AddDeadLetter(published + 1)
              \/ UNCHANGED <<deadLetters, deadCount, lost>>
           /\ UNCHANGED <<stack, delivered, calls>>
        \/ /\ matching # {}
           /\ published' = published + 1
           /\ \E todo \in Orders(matching) :
                /\ delivered' = delivered + Len(todo)
                /\ stack' = Append(stack, [msg |-> message, todo |-> todo, running |-> <<>>])
           /\ UNCHANGED <<deadLetters, deadCount, history>>

\* publish and broadcast
Publish(topic) ==
  /\ Runs
  /\ Publishes(subs, Message(topic, NoReq))
  /\ UNCHANGED <<subs, nextSub, filtered, promise, timers, asked>>

\* reply to a message user code was given, now or long ago
Reply(q) ==
  /\ Runs /\ q \in asked
  /\ Publishes(subs, Message(ReplyTopic(q), NoReq))
  /\ UNCHANGED <<subs, nextSub, filtered, promise, timers, asked>>

\* What request does before it publishes: the reply subscription and, unless
\* timeoutMs is 0, the timer.
Awaits(q, timed) ==
  /\ promise[q] = "none"
  /\ subs' = subs \cup {Subscription(ReplyTopic(q), 0, TRUE, q)}
  /\ nextSub' = nextSub + 1
  /\ timers' = IF timed THEN timers \cup {q} ELSE timers

Request(q, topic, timed) ==
  /\ Runs /\ Awaits(q, timed)
  /\ promise' = [promise EXCEPT ![q] = "pending"]
  /\ Publishes(subs', Message(topic, q))
  /\ UNCHANGED <<filtered, asked>>

\* publish throws: the promise is rejected at once, with the subscription and the
\* timer in place.
RequestThrows(q, timed) ==
  /\ Runs /\ Awaits(q, timed)
  /\ promise' = [promise EXCEPT ![q] = "rejected"]
  /\ UNCHANGED <<filtered, stack, asked, native, history>>

ClearDeadLetters ==
  /\ deadLetters' = <<>> /\ deadCount' = 0 /\ lost' = <<>>

\* clear
Clear ==
  /\ Runs
  /\ subs' = {} /\ filtered' = FALSE
  /\ ClearDeadLetters
  /\ UNCHANGED <<nextSub, stack, promise, timers, asked, published, delivered, calls>>

\* clearDeadLetters
ClearLetters ==
  /\ Runs /\ deadLetters # <<>>
  /\ ClearDeadLetters
  /\ UNCHANGED <<subs, nextSub, filtered, stack, promise, timers, asked, published, delivered,
                 calls>>

-----------------------------------------------------------------------------
(* The dispatch loop of publish *)

Calls == stack # <<>> /\ Last(stack).running = <<>> /\ Last(stack).todo # <<>>
Upcoming == Head(Last(stack).todo)
Continue(todo, running) ==
  stack' = [stack EXCEPT ![Len(stack)] =
              [msg |-> Last(stack).msg, todo |-> todo, running |-> running]]

\* A handler of user code starts.
CallHandler ==
  /\ Calls /\ Upcoming.req = NoReq
  /\ Continue(Tail(Last(stack).todo), <<Upcoming>>)
  /\ asked' = asked \cup ({Last(stack).msg.req} \cap Req)
  /\ calls' = calls + 1
  /\ UNCHANGED <<subs, nextSub, filtered, promise, timers, native, lost>>

\* Mutant of CallReply: the timer is left running.
CallReplyKeepsTimer ==
  /\ Calls /\ Upcoming.req # NoReq
  /\ Continue(Tail(Last(stack).todo), <<>>)
  /\ promise' = [promise EXCEPT ![Upcoming.req] = IF @ = "pending" THEN "resolved" ELSE @]
  /\ subs' = Without(Upcoming.id)
  /\ calls' = calls + 1
  /\ UNCHANGED <<nextSub, filtered, timers, asked, native, lost>>

\* The handler of a request: it clears the timer, unsubscribes and resolves.
CallReply ==
  /\ Calls /\ Upcoming.req # NoReq
  /\ Continue(Tail(Last(stack).todo), <<>>)
  /\ timers' = timers \ {Upcoming.req}
  /\ promise' = [promise EXCEPT ![Upcoming.req] = IF @ = "pending" THEN "resolved" ELSE @]
  /\ subs' = Without(Upcoming.id)
  /\ calls' = calls + 1
  /\ UNCHANGED <<nextSub, filtered, asked, native, lost>>

\* A handler returns or throws; publish catches the exception.
HandlerEnds ==
  /\ stack # <<>> /\ Last(stack).running # <<>>
  /\ LET s == Last(stack).running[1] IN subs' = IF s.once THEN Without(s.id) ELSE subs
  /\ Continue(Last(stack).todo, <<>>)
  /\ UNCHANGED <<nextSub, filtered, promise, timers, asked, native, calls, lost>>

\* Mutant of PublishEnds: a handler that publishes ends the dispatch it is in.
PublishEndsAll ==
  /\ stack # <<>> /\ Last(stack).running = <<>> /\ Last(stack).todo = <<>>
  /\ stack' = <<>>
  /\ UNCHANGED <<subs, nextSub, filtered, promise, timers, asked, native, history>>

PublishEnds ==
  /\ stack # <<>> /\ Last(stack).running = <<>> /\ Last(stack).todo = <<>>
  /\ stack' = Front(stack)
  /\ UNCHANGED <<subs, nextSub, filtered, promise, timers, asked, native, history>>

ReplySubs(q) == {s \in subs : s.req = q}

\* Mutant of TimerFires: it rejects only while the subscription is there.
TimerFiresSubscribed(q) ==
  /\ stack = <<>> /\ q \in timers
  /\ timers' = timers \ {q}
  /\ subs' = subs \ ReplySubs(q)
  /\ promise' = [promise EXCEPT ![q] =
                   IF @ = "pending" /\ ReplySubs(q) # {} THEN "rejected" ELSE @]
  /\ UNCHANGED <<nextSub, filtered, stack, asked, native, history>>

\* The event loop runs the timeout of a request.
TimerFires(q) ==
  /\ stack = <<>> /\ q \in timers
  /\ timers' = timers \ {q}
  /\ subs' = subs \ ReplySubs(q)
  /\ promise' = [promise EXCEPT ![q] = IF @ = "pending" THEN "rejected" ELSE @]
  /\ UNCHANGED <<nextSub, filtered, stack, asked, native, history>>

-----------------------------------------------------------------------------

User ==
  \/ \E p \in Pattern, prio \in 0..1, once \in BOOLEAN : Subscribe(p, prio, once)
  \/ \E s \in subs : Unsubscribe(s)
  \/ \E t \in Topic : Publish(t)
  \/ \E q \in Req : Reply(q)
  \/ \E q \in Req, t \in Topic, timed \in BOOLEAN : Request(q, t, timed)
  \/ \E q \in Req, timed \in BOOLEAN : RequestThrows(q, timed)
  \/ Use \/ Clear \/ ClearLetters

Dispatch == CallHandler \/ CallReply \/ HandlerEnds \/ PublishEnds

Next == User \/ Dispatch \/ \E q \in Req : TimerFires(q)

Spec == Init /\ [][Next]_vars

\* Handlers return and the event loop runs a timer that is due; what user code
\* decides to do is not fair.
FairSpec == Spec /\ WF_vars(Dispatch) /\ \A q \in Req : WF_vars(TimerFires(q))

-----------------------------------------------------------------------------
(* Properties *)

Subscriptions ==
  [id : Nat \ {0}, pattern : Pattern \cup {ReplyTopic(q) : q \in Req}, prio : 0..1,
   once : BOOLEAN, req : Req \cup {NoReq}]

Messages == [topic : Topic \cup {ReplyTopic(q) : q \in Req}, req : Req \cup {NoReq}]

Dispatches == [msg : Messages, todo : Seq(Subscriptions), running : Seq(Subscriptions)]

\* Every variable keeps its type, no two subscriptions have one id, and of the
\* dispatches in progress all but the innermost are in a handler.
TypeOK ==
  /\ nextSub \in Nat \ {0} /\ filtered \in BOOLEAN
  /\ subs \in SUBSET Subscriptions
  /\ \A s \in subs : s.id < nextSub
  /\ \A s, t \in subs : s.id = t.id => s = t
  /\ stack \in Seq(Dispatches)
  /\ \A n \in 1..(Len(stack) - 1) : stack[n].running # <<>>
  /\ promise \in [Req -> {"none", "pending", "resolved", "rejected"}]
  /\ timers \subseteq Req /\ asked \subseteq Req
  /\ published \in Nat /\ delivered \in Nat /\ deadCount \in Nat /\ calls \in Nat
  /\ lost \in Seq(Nat) /\ deadLetters \in Seq(Nat)

\* A pattern fits a topic when the topic can be cut into one piece for each
\* token of the pattern: any piece for '#', one token for '*', the word itself
\* for a word.
Fits(p, t) ==
  \E cut \in [0..Len(p) -> 0..Len(t)] :
    /\ cut[0] = 0 /\ cut[Len(p)] = Len(t)
    /\ \A i \in 1..Len(p) :
         IF p[i] = "#" THEN cut[i] >= cut[i - 1]
         ELSE cut[i] = cut[i - 1] + 1 /\ p[i] \in {"*", t[cut[i]]}

\* topic_matches decides what its comment says ("Supports `*` for single token
\* and `#` for zero or more tokens") on every pattern and topic up to MaxTokens
\* tokens: its two shortcuts and its early return for a last '#' change nothing.
\* It is evaluated where nothing has happened yet.
TopicMatchesFits ==
  nextSub = 1 /\ published = 0 => \A n, m \in 1..MaxTokens :
    \A p \in [1..n -> Word \cup {"*", "#"}], t \in [1..m -> Word] :
      topic_matches(p, t) = Fits(p, t)

\* The handlers that the dispatches of a stack still have to call.
Waiting(dispatches) ==
  LET waiting[n \in 0..Len(dispatches)] ==
        IF n = 0 THEN 0 ELSE waiting[n - 1] + Len(dispatches[n].todo)
  IN waiting[Len(dispatches)]

\* The handlers that delivered_count promises have been called or are still to
\* be called by a dispatch in progress, whatever handlers publish, unsubscribe,
\* clear or throw meanwhile.
EveryDeliveryIsCalled == delivered = calls + Waiting(stack)

\* A request that has been answered holds neither its timer nor its reply
\* subscription, however often and from wherever it is answered.
AnsweredReleases ==
  \A q \in Req : promise[q] = "resolved" => q \notin timers /\ ReplySubs(q) = {}

\* The dead letter queue holds the latest dead letters since it was cleared, in
\* order, as many as there are up to its limit, and the metric counts them all.
DeadLettersAreLatest ==
  /\ deadCount = Len(lost)
  /\ deadLetters = SubSeq(lost, IF Len(lost) > MaxDead THEN Len(lost) - MaxDead + 1 ELSE 1,
                          Len(lost))

\* A request with a timeout settles, and its reply subscription goes, even when
\* a middleware cancels it, clear() drops the subscription, nobody answers or
\* publish throws.
RequestSettles ==
  \A q \in Req : q \in timers ~> promise[q] # "pending" /\ ReplySubs(q) = {}
=============================================================================
