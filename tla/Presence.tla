------------------------------ MODULE Presence ------------------------------
(***************************************************************************)
(* Who is logged in: Presence (src/src/core/presence.cpp).                 *)
(*                                                                         *)
(* A subscriber is known by its SubscriptionId, a querent by the number of *)
(* its call of get_all().  The other end of send_ is Connection::send(),   *)
(* as in module Event; but Connection does not tell Presence about its     *)
(* state.  No call of Presence notifies anybody by itself, so at most one  *)
(* notification is in progress.                                            *)
(***************************************************************************)
EXTENDS Lists, FiniteSets

CONSTANTS
    MaxIds,         \* bound: calls of subscribe()
    MaxQueries      \* bound: calls of get_all()

ASSUME BoundsAssumption == MaxIds \in Nat /\ MaxQueries \in Nat

VARIABLES
    subscribers_,           \* list of subscription ids
    subscribe_fn_map_,      \* the keys of the map from ids to callbacks
    empty_fns,              \* those of them whose std::function is empty
    subscription_counter_,
    querents_,              \* the callers of get_all() that wait for an answer
    frame,                  \* the notification in progress
    online,                 \* the connection state is OPEN
    session,                \* the server's view of this client
    late,                   \* queries of earlier connections without an answer
    asked,                  \* history: number of calls of get_all()
    answered,               \* history: the querents called, in order
    thrown,                 \* history: the querents that waited when one of them threw
    presence_crashed        \* the process has died in a call of Presence

subVars == <<subscribers_, subscribe_fn_map_, empty_fns, subscription_counter_>>
queryVars == <<querents_, asked, answered, thrown>>
linkVars == <<online, session, late>>
vars == <<subVars, queryVars, frame, linkVars, presence_crashed>>

Idle == [kind |-> "none", todo |-> <<>>, running |-> FALSE]

NoSession == [subscribed |-> FALSE, queries |-> 0]

\* Every variable holds a value its C++ counterpart can have.
TypeOK ==
    /\ subscribers_ \in Seq(Nat)
    /\ subscribe_fn_map_ \subseteq Nat
    /\ empty_fns \subseteq Nat
    /\ subscription_counter_ \in Nat
    /\ querents_ \in Seq(Nat)
    /\ frame \in [kind : {"none", "presence", "query"}, todo : Seq(Nat), running : BOOLEAN]
    /\ online \in BOOLEAN
    /\ session \in [subscribed : BOOLEAN, queries : Nat]
    /\ late \in Nat
    /\ asked \in Nat
    /\ answered \in Seq(Nat)
    /\ thrown \subseteq Nat
    /\ presence_crashed \in BOOLEAN

Init ==
    /\ subscribers_ = <<>>
    /\ subscribe_fn_map_ = {}
    /\ empty_fns = {}
    /\ subscription_counter_ = 0
    /\ querents_ = <<>>
    /\ frame = Idle
    /\ online = FALSE
    /\ session = NoSession
    /\ late = 0
    /\ asked = 0
    /\ answered = <<>>
    /\ thrown = {}
    /\ presence_crashed = FALSE

-----------------------------------------------------------------------------
\* send_ returns ok, which is not used; a failed write closes the session.
Sends(ok, newSession) ==
    IF ok THEN /\ online
               /\ session' = newSession
               /\ UNCHANGED <<online, late>>
          ELSE /\ online' = FALSE
               /\ session' = NoSession
               /\ late' = late + session.queries

\* send_(message), if needed.
Tells(needed, newSession) ==
    IF needed THEN \E ok \in BOOLEAN : Sends(ok, newSession)
              ELSE UNCHANGED linkVars

\* The ids whose callback can be called.
Callable == subscribe_fn_map_ \ empty_fns

\* Some code of the application is on top of the stack.
UserRuns == ~presence_crashed /\ (frame.kind = "none" \/ frame.running)

-----------------------------------------------------------------------------
\* Calls of the application.

AddSubscriber(counter) ==
    /\ UserRuns
    /\ subscription_counter_ < MaxIds
    /\ subscription_counter_' = counter
    /\ subscribe_fn_map_' = subscribe_fn_map_ \cup {subscription_counter_}
    /\ subscribers_' = Append(subscribers_, subscription_counter_)
    /\ UNCHANGED <<empty_fns, queryVars, frame, presence_crashed>>

SubscribeAlone ==           \* a counter of its own
    AddSubscriber(subscription_counter_)

SubscribeLocal == AddSubscriber(subscription_counter_ + 1)

SubscribeTells == subscribers_ = <<>>

Subscribe == SubscribeLocal /\ Tells(SubscribeTells, [session EXCEPT !.subscribed = TRUE])

\* unsubscribe(id): the others stay as they are.
RemoveSubscriber(id, fns) ==
    /\ UserRuns
    /\ \E i \in 1 .. Len(subscribers_) :
        /\ subscribers_[i] = id
        /\ subscribers_' = RemoveAt(subscribers_, i)
    /\ subscribe_fn_map_' = fns
    /\ UNCHANGED <<empty_fns, subscription_counter_, queryVars, frame, presence_crashed>>

UnsubscribeIdOnly(id) ==    \* the callback stays behind
    RemoveSubscriber(id, subscribe_fn_map_)

UnsubscribeIdLocal(id) == RemoveSubscriber(id, subscribe_fn_map_ \ {id})

UnsubscribeTellsFirst(id) ==    \* asks before it erases
    id \in Elements(subscribers_) /\ subscribers_ = <<>>

UnsubscribeTells(id) == subscribers_ = <<id>>

UnsubscribeId(id) ==
    /\ UnsubscribeIdLocal(id)
    /\ Tells(UnsubscribeTells(id), [session EXCEPT !.subscribed = FALSE])

\* unsubscribe(): clears the list and the map, the empty entries included.
UnsubscribeAllLocal ==
    /\ UserRuns
    /\ subscribers_' = <<>>
    /\ subscribe_fn_map_' = {}
    /\ empty_fns' = {}
    /\ UNCHANGED <<subscription_counter_, queryVars, frame, presence_crashed>>

UnsubscribeAll ==
    UnsubscribeAllLocal /\ Tells(TRUE, [session EXCEPT !.subscribed = FALSE])

\* push_back() while notify_() iterates over querents_ is undefined: the loop
\* either keeps the end it has read before, or goes on in the memory that the
\* vector has left.
GetAllLocal ==
    /\ UserRuns
    /\ asked < MaxQueries
    /\ asked' = asked + 1
    /\ querents_' = Append(querents_, asked + 1)
    /\ presence_crashed' \in IF frame.kind = "query" THEN BOOLEAN ELSE {FALSE}
    /\ UNCHANGED <<subVars, answered, thrown, frame>>

\* The first querent asks the server, for all that come before its answer.
GetAllTells == querents_ = <<>>

GetAll == GetAllLocal /\ Tells(GetAllTells, [session EXCEPT !.queries = @ + 1])

\* Event::subscribe() takes its id from the same counter.
EventSubscribes ==
    /\ UserRuns
    /\ subscription_counter_ < MaxIds
    /\ subscription_counter_' = subscription_counter_ + 1
    /\ UNCHANGED <<subscribers_, subscribe_fn_map_, empty_fns, queryVars, frame,
                   presence_crashed>>
    /\ \E needed \in BOOLEAN : Tells(needed, session)

-----------------------------------------------------------------------------
\* notify_(), called by Connection.

\* PRESENCE_JOIN and PRESENCE_LEAVE: over a copy of the list of subscribers.
PresenceArrives ==
    /\ ~presence_crashed
    /\ frame.kind = "none"
    /\ frame' = [kind |-> "presence", todo |-> subscribers_, running |-> FALSE]
    /\ UNCHANGED <<subVars, queryVars, linkVars, presence_crashed>>

\* QUERY: over the list of querents itself.
Answer(querents) ==
    /\ ~presence_crashed
    /\ frame.kind = "none"
    /\ frame' = [kind |-> "query", todo |-> querents, running |-> FALSE]
    /\ UNCHANGED <<subVars, queryVars, presence_crashed>>

AnswerFirst ==              \* only the one who asked
    Answer(IF querents_ = <<>> THEN <<>> ELSE <<Head(querents_)>>)

AnswerLocal == Answer(querents_)

\* The answer to a query of this connection, ...
AnswerArrives ==
    /\ AnswerLocal
    /\ online /\ session.queries > 0
    /\ session' = [session EXCEPT !.queries = @ - 1]
    /\ UNCHANGED <<online, late>>

\* ... or of an earlier one, read before that connection was lost.
LateAnswerArrives ==
    /\ AnswerLocal
    /\ late > 0
    /\ late' = late - 1
    /\ UNCHANGED <<online, session>>

CallSubscriber ==
    /\ ~presence_crashed
    /\ frame.kind = "presence" /\ ~frame.running /\ frame.todo # <<>>
    /\ Head(frame.todo) \in Callable
    /\ frame' = [frame EXCEPT !.running = TRUE]
    /\ UNCHANGED <<subVars, queryVars, linkVars, presence_crashed>>

\* For a subscriber erased in the meantime operator[] makes a new entry with an
\* empty function, and calling that throws std::bad_function_call out of notify_().
CallErased ==
    /\ ~presence_crashed
    /\ frame.kind = "presence" /\ ~frame.running /\ frame.todo # <<>>
    /\ Head(frame.todo) \notin Callable
    /\ subscribe_fn_map_' = subscribe_fn_map_ \cup {Head(frame.todo)}
    /\ empty_fns' = empty_fns \cup {Head(frame.todo)}
    /\ frame' = Idle
    /\ UNCHANGED <<subscribers_, subscription_counter_, queryVars, linkVars,
                   presence_crashed>>

\* A callback throws: querents_ is left as it is.
CallbackThrows ==
    /\ ~presence_crashed
    /\ frame.running
    /\ frame' = Idle
    /\ thrown' = IF frame.kind = "query" THEN thrown \cup Elements(querents_) ELSE thrown
    /\ UNCHANGED <<subVars, querents_, asked, answered, linkVars, presence_crashed>>

CallQuerent ==
    /\ ~presence_crashed
    /\ frame.kind = "query" /\ ~frame.running /\ frame.todo # <<>>
    /\ frame' = [frame EXCEPT !.running = TRUE]
    /\ answered' = Append(answered, Head(frame.todo))
    /\ UNCHANGED <<subVars, querents_, asked, thrown, linkVars, presence_crashed>>

\* A subscriber that has unsubscribed itself ran on after its std::function was
\* destroyed, which is undefined.
CallbackReturns ==
    /\ ~presence_crashed
    /\ frame.running
    /\ frame' = [frame EXCEPT !.running = FALSE, !.todo = Tail(@)]
    /\ presence_crashed' \in {FALSE, frame.kind = "presence"
                              /\ Head(frame.todo) \notin Callable}
    /\ UNCHANGED <<subVars, queryVars, linkVars>>

NotifyReturnsUncleared ==   \* the querents are not forgotten
    /\ ~presence_crashed
    /\ frame.kind # "none" /\ ~frame.running /\ frame.todo = <<>>
    /\ frame' = Idle
    /\ UNCHANGED <<subVars, queryVars, linkVars, presence_crashed>>

\* After the answer, querents_ is cleared.
NotifyReturns ==
    /\ ~presence_crashed
    /\ frame.kind # "none" /\ ~frame.running /\ frame.todo = <<>>
    /\ frame' = Idle
    /\ querents_' = IF frame.kind = "query" THEN <<>> ELSE querents_
    /\ UNCHANGED <<subVars, asked, answered, thrown, linkVars, presence_crashed>>

\* Connection keeps its changes of state to itself (connection.cpp:118).
ConnectionOpens ==
    /\ ~presence_crashed
    /\ frame.kind = "none"
    /\ ~online
    /\ online' = TRUE
    /\ UNCHANGED <<subVars, queryVars, frame, session, late, presence_crashed>>

\* Between the calls of Presence, or inside a callback that closes the connection
\* or sends something else.
ConnectionLost ==
    /\ UserRuns
    /\ online
    /\ Sends(FALSE, session)
    /\ UNCHANGED <<subVars, queryVars, frame, presence_crashed>>

-----------------------------------------------------------------------------
User ==
    \/ Subscribe \/ UnsubscribeAll \/ GetAll \/ EventSubscribes
    \/ \E id \in Elements(subscribers_) : UnsubscribeId(id)

Loops ==
    \/ CallSubscriber \/ CallErased \/ CallQuerent \/ CallbackReturns
    \/ NotifyReturns

Link ==
    \/ PresenceArrives \/ AnswerArrives \/ LateAnswerArrives
    \/ ConnectionOpens \/ ConnectionLost

Next == User \/ Loops \/ CallbackThrows \/ Link

Spec == Init /\ [][Next]_vars

\* The loops go on, callbacks return, the server answers, the client reconnects.
Fairness ==
    /\ WF_vars(Loops)
    /\ SF_vars(AnswerArrives)
    /\ WF_vars(ConnectionOpens)

FairSpec == Spec /\ Fairness

-----------------------------------------------------------------------------
(***************************************************************************)
(* Properties                                                              *)
(***************************************************************************)

\* What both unsubscribe() assert.  (presence.cpp:61, 84)
SizesAgree == Cardinality(subscribe_fn_map_) = Len(subscribers_)

\* Exactly the subscribers in the list can be called, and they are notified in the
\* order of subscription.  The sizes of the list and the map agree, as
\* unsubscribe() asserts, up to the notification that calls a subscriber already
\* erased, and from then on no more until unsubscribe() has cleared the map.
\* (subscribe, both unsubscribe, notify_)
ListMatchesCallbacks ==
    /\ Callable = Elements(subscribers_)
    /\ empty_fns \subseteq subscribe_fn_map_
    /\ StrictlyIncreasing(subscribers_)
    /\ SizesAgree <=> empty_fns = {}
    /\ \A id \in subscribe_fn_map_ : id < subscription_counter_
    /\ StrictlyIncreasing(frame.todo)

\* A querent is called once and in the order of get_all(), unless it was waiting
\* when a querent threw: who has been called is not waiting any more, but for the
\* answer that is being delivered.  (get_all, notify_)
AnsweredOnce ==
    /\ \A i, j \in DOMAIN answered :
         i < j => answered[i] < answered[j] \/ answered[j] \in thrown
    /\ frame.kind # "query" => Elements(answered) \cap Elements(querents_) \subseteq thrown

\* The server sends presence events only to a client that has a subscriber:
\* it is told when the last one leaves.  (subscribe, both unsubscribe)
NoOrphanSubscription == session.subscribed => subscribers_ # <<>>

\* A query on its way stands for everybody who waits, not only for the one who
\* sent it: each is called unless the connection is lost first, or one of those who
\* wait with it throws.  (Those who ask during an answer are dropped with the others, uncalled.)
\* (get_all, notify_)
QueriesEnd ==
    \A n \in 1 .. MaxQueries :
        n \in Elements(querents_) /\ session.queries > 0 /\ frame.kind # "query"
            ~> n \in Elements(answered) \/ ~online \/ n \in thrown \/ presence_crashed

-----------------------------------------------------------------------------
\* What the code says of itself, and does not keep.

\* "callback will be invoked with the username": the server of an open
\* connection knows that there is a subscriber.  (deepstream.hpp:362)
ServerKnowsSubscriber == online => (subscribers_ # <<>> => session.subscribed)
=============================================================================
