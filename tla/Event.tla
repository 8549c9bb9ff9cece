------------------------------- MODULE Event --------------------------------
(***************************************************************************)
(* Publish/subscribe: Event (src/src/core/event.cpp).                      *)
(*                                                                         *)
(* An event or a pattern is a model value, its payload is left out, and a  *)
(* callback is known by its SubscriptionId.  Callbacks run inside the      *)
(* calls of Event and may call it again, so what is modelled of the C++    *)
(* stack is one frame for every notification in progress.                  *)
(*                                                                         *)
(* The other end of send_ is Connection::send() (module Connection): it    *)
(* refuses unless the connection is OPEN, and a failed write takes the     *)
(* connection out of OPEN before it returns.  session is what the server   *)
(* has been told on the connection that is open now; it forgets all of it  *)
(* when the connection goes.                                               *)
(*                                                                         *)
(* An operation that sends is the conjunction of what Event does (...Local)*)
(* and of what becomes of the link; module Client conjoins the former with *)
(* the steps of Connection instead.                                        *)
(***************************************************************************)
EXTENDS Lists

CONSTANTS
    Names,          \* event names
    Patterns,       \* listener patterns
    MaxIds,         \* bound: calls of subscribe()
    MaxEmits,       \* bound: calls of emit()
    MaxDepth        \* bound: nested notifications

ASSUME BoundsAssumption == MaxIds \in Nat /\ MaxEmits \in Nat /\ MaxDepth \in Nat

VARIABLES
    subscriber_map_,        \* name |-> list of subscription ids, <<>> if absent
    subscribe_fn_map_,      \* the ids that have a callback
    empty_fns,              \* the ids for which operator[] made up an empty one
    subscription_counter_,
    listener_map_,          \* the patterns with a listener
    send_queue_,            \* emits that could not be sent, oldest first
    frames,                 \* notifications in progress, outermost first
    online,                 \* the connection state is OPEN
    session,                \* the server's view of this client
    emitted,                \* history: number of calls of emit()
    sent,                   \* history: the emits written to a socket, in order
    event_crashed           \* the process has died in a call of Event

mapVars == <<subscriber_map_, subscribe_fn_map_, empty_fns, subscription_counter_>>
linkVars == <<online, session>>
outVars == <<send_queue_, emitted, sent>>
vars == <<mapVars, listener_map_, frames, linkVars, outVars, event_crashed>>

Ids == Nat

\* A running frame is inside the callback of Head(todo), or of the listener.
Frame == [kind : {"event", "found", "removed"}, todo : Seq(Ids), running : BOOLEAN]

NoSession == [subs |-> {}, listens |-> {}]

\* Every variable holds a value its C++ counterpart can have.
TypeOK ==
    /\ subscriber_map_ \in [Names -> Seq(Ids)]
    /\ subscribe_fn_map_ \subseteq Ids
    /\ empty_fns \subseteq Ids
    /\ subscription_counter_ \in Nat
    /\ listener_map_ \subseteq Patterns
    /\ send_queue_ \in Seq(Nat)
    /\ frames \in Seq(Frame)
    /\ online \in BOOLEAN
    /\ session \in [subs : SUBSET Names, listens : SUBSET Patterns]
    /\ emitted \in Nat
    /\ sent \in Seq(Nat)
    /\ event_crashed \in BOOLEAN

Init ==
    /\ subscriber_map_ = [name \in Names |-> <<>>]
    /\ subscribe_fn_map_ = {}
    /\ empty_fns = {}
    /\ subscription_counter_ = 0
    /\ listener_map_ = {}
    /\ send_queue_ = <<>>
    /\ frames = <<>>
    /\ online = FALSE
    /\ session = NoSession
    /\ emitted = 0
    /\ sent = <<>>
    /\ event_crashed = FALSE

-----------------------------------------------------------------------------
Subscribed == {name \in Names : subscriber_map_[name] # <<>>}

\* send_ returns ok: true, and the server learns what the message says, or
\* false, because the connection is or has just gone down.
Sends(ok, newSession) ==
    IF ok THEN /\ online
               /\ session' = newSession
               /\ UNCHANGED online
          ELSE /\ online' = FALSE
               /\ session' = NoSession

\* send_(message), if needed, whose result is not used.
Tells(needed, newSession) ==
    IF needed THEN \E ok \in BOOLEAN : Sends(ok, newSession)
              ELSE UNCHANGED linkVars

Top == frames[Len(frames)]
Below == SubSeq(frames, 1, Len(frames) - 1)

\* Some code of the application is on top of the stack.
UserRuns == ~event_crashed /\ (frames # <<>> => Top.running)

\* Event::notify_subscribers_(): copy the list, then call one after the other.
Notify(name) ==
    frames' = Append(frames,
        [kind |-> "event", todo |-> subscriber_map_[name], running |-> FALSE])

-----------------------------------------------------------------------------
\* Calls of the application.

EmitUnqueued(name, ok) ==   \* what could not be sent is dropped
    /\ UserRuns
    /\ emitted < MaxEmits
    /\ Len(frames) < MaxDepth
    /\ emitted' = emitted + 1
    /\ sent' = IF ok THEN Append(sent, emitted + 1) ELSE sent
    /\ IF name \in Subscribed THEN Notify(name) ELSE UNCHANGED frames
    /\ UNCHANGED <<mapVars, listener_map_, send_queue_, event_crashed>>

\* Sent or queued, then delivered to the local subscribers.
EmitLocal(name, ok) ==
    /\ UserRuns
    /\ emitted < MaxEmits
    /\ Len(frames) < MaxDepth
    /\ emitted' = emitted + 1
    /\ IF ok
       THEN sent' = Append(sent, emitted + 1) /\ UNCHANGED send_queue_
       ELSE send_queue_' = Append(send_queue_, emitted + 1) /\ UNCHANGED sent
    /\ IF name \in Subscribed THEN Notify(name) ELSE UNCHANGED frames
    /\ UNCHANGED <<mapVars, listener_map_, event_crashed>>

Emit(name) == \E ok \in BOOLEAN : EmitLocal(name, ok) /\ Sends(ok, session)

\* subscribe() with the list and the counter as parameters.
AddSubscriber(name, list, counter) ==
    /\ UserRuns
    /\ subscription_counter_ < MaxIds
    /\ subscription_counter_' = counter
    /\ subscribe_fn_map_' = subscribe_fn_map_ \cup {subscription_counter_}
    /\ subscriber_map_' = [subscriber_map_ EXCEPT ![name] = list]
    /\ UNCHANGED <<empty_fns, listener_map_, frames, outVars, event_crashed>>

SubscribeDown(name) ==      \* the counter goes the wrong way
    AddSubscriber(name, Append(subscriber_map_[name], subscription_counter_),
                  subscription_counter_ - 1)

SubscribeFront(name) ==     \* the new subscriber comes first
    AddSubscriber(name, <<subscription_counter_>> \o subscriber_map_[name],
                  subscription_counter_ + 1)

SubscribeLocal(name) ==
    AddSubscriber(name, Append(subscriber_map_[name], subscription_counter_),
                  subscription_counter_ + 1)

TellsFirstOnly(name) == Subscribed = {}     \* for the first name only

\* SUBSCRIBE is sent for the first subscription of a name.
SubscribeTells(name) == name \notin Subscribed

Subscribe(name) ==
    /\ SubscribeLocal(name)
    /\ Tells(SubscribeTells(name), [session EXCEPT !.subs = @ \cup {name}])

RemoveNameOnly(name, fns) ==    \* the callbacks stay behind
    /\ subscribe_fn_map_' = fns
    /\ subscriber_map_' = [subscriber_map_ EXCEPT ![name] = <<>>]

\* unsubscribe(name) with the callbacks fns still there.
RemoveName(name, fns) ==
    /\ subscribe_fn_map_' = fns \ Elements(subscriber_map_[name])
    /\ subscriber_map_' = [subscriber_map_ EXCEPT ![name] = <<>>]

UnsubscribeNameLocal(name) ==
    /\ UserRuns
    /\ name \in Subscribed
    /\ RemoveName(name, subscribe_fn_map_)
    /\ UNCHANGED <<empty_fns, subscription_counter_, listener_map_, frames,
                   outVars, event_crashed>>

UnsubscribeIdLocal(name, id) ==
    /\ UserRuns
    /\ \E i \in 1 .. Len(subscriber_map_[name]) :
        /\ subscriber_map_[name][i] = id
        /\ subscriber_map_' = [subscriber_map_ EXCEPT ![name] = RemoveAt(@, i)]
    /\ subscribe_fn_map_' = subscribe_fn_map_ \ {id}
    /\ UNCHANGED <<empty_fns, subscription_counter_, listener_map_, frames,
                   outVars, event_crashed>>

\* UNSUBSCRIBE is sent when no subscription at all is left.
UnsubscribeTells(name) == Subscribed = {name}
LastOf(name) == Len(subscriber_map_[name]) = 1

UnsubscribeName(name) ==
    /\ UnsubscribeNameLocal(name)
    /\ Tells(UnsubscribeTells(name), [session EXCEPT !.subs = @ \ {name}])

UnsubscribeId(name, id) ==
    /\ UnsubscribeIdLocal(name, id)
    /\ Tells(LastOf(name) /\ UnsubscribeTells(name), [session EXCEPT !.subs = @ \ {name}])

\* An existing listener is not replaced.
ListenLocal(pattern) ==
    /\ UserRuns
    /\ pattern \notin listener_map_
    /\ listener_map_' = listener_map_ \cup {pattern}
    /\ UNCHANGED <<mapVars, frames, outVars, event_crashed>>

Listen(pattern) ==
    /\ ListenLocal(pattern)
    /\ Tells(TRUE, [session EXCEPT !.listens = @ \cup {pattern}])

\* The message has the header (EVENT, UNLISTEN), which is not in HEADERS:
\* Connection::send() refuses it unread when the connection is down, and
\* serialising it takes the length of a null pointer otherwise.
Unlisten(pattern) ==
    /\ UserRuns
    /\ pattern \in listener_map_
    /\ listener_map_' = listener_map_ \ {pattern}
    /\ event_crashed' = online
    /\ UNCHANGED <<mapVars, frames, linkVars, outVars>>

\* Presence::subscribe() takes its id from the same counter.
PresenceSubscribes ==
    /\ UserRuns
    /\ subscription_counter_ < MaxIds
    /\ subscription_counter_' = subscription_counter_ + 1
    /\ UNCHANGED <<subscriber_map_, subscribe_fn_map_, empty_fns, listener_map_,
                   frames, outVars, event_crashed>>
    /\ \E needed \in BOOLEAN : Tells(needed, session)

-----------------------------------------------------------------------------
\* The body of the loops over the callbacks.

\* notify_subscribers_() looks the next callback up with operator[].
CallNext ==
    /\ ~event_crashed
    /\ frames # <<>> /\ ~Top.running /\ Top.todo # <<>>
    /\ Head(Top.todo) \in subscribe_fn_map_
    /\ frames' = [frames EXCEPT ![Len(frames)].running = TRUE]
    /\ UNCHANGED <<mapVars, listener_map_, linkVars, outVars, event_crashed>>

\* An exception leaves all the frames above the callback that catches it, the
\* n-th; or all of them.
Unwinds(n) ==
    /\ n < Len(frames)
    /\ frames' = SubSeq(frames, 1, n)

\* A callback erased in the meantime comes back empty, and calling it throws
\* std::bad_function_call.
CallErased(n) ==
    /\ ~event_crashed
    /\ frames # <<>> /\ ~Top.running /\ Top.todo # <<>>
    /\ Head(Top.todo) \notin subscribe_fn_map_
    /\ empty_fns' = empty_fns \cup {Head(Top.todo)}
    /\ Unwinds(n)
    /\ UNCHANGED <<subscriber_map_, subscribe_fn_map_, subscription_counter_,
                   listener_map_, linkVars, outVars, event_crashed>>

\* A callback throws an exception of its own.
CallbackThrows(n) ==
    /\ ~event_crashed
    /\ frames # <<>> /\ Top.running
    /\ Unwinds(n)
    /\ UNCHANGED <<mapVars, listener_map_, linkVars, outVars, event_crashed>>

\* The callback is called through a reference into subscribe_fn_map_: one that
\* has unsubscribed itself ran on after its std::function was destroyed, which
\* is undefined (it works as long as it reads none of its captures).
CallbackReturns ==
    /\ ~event_crashed
    /\ frames # <<>> /\ Top.running /\ Top.kind = "event" /\ Top.todo # <<>>
    /\ frames' = [frames EXCEPT ![Len(frames)] =
         [kind |-> "event", todo |-> Tail(Top.todo), running |-> FALSE]]
    /\ event_crashed' \in {FALSE, Head(Top.todo) \notin subscribe_fn_map_}
    /\ UNCHANGED <<mapVars, listener_map_, linkVars, outVars>>

NotifyReturns ==
    /\ ~event_crashed
    /\ frames # <<>> /\ ~Top.running /\ Top.todo = <<>>
    /\ frames' = Below
    /\ UNCHANGED <<mapVars, listener_map_, linkVars, outVars, event_crashed>>

ListenerReturnsLocal ==
    /\ ~event_crashed
    /\ frames # <<>> /\ Top.running /\ Top.kind \in {"found", "removed"}
    /\ frames' = Below
    /\ UNCHANGED <<mapVars, listener_map_, outVars, event_crashed>>

\* notify_listeners_() answers SUBSCRIPTION_FOR_PATTERN_FOUND only.
ListenerReturns == ListenerReturnsLocal /\ Tells(Top.kind = "found", session)

-----------------------------------------------------------------------------
\* Calls of Connection: notify_() and on_connection_state_change_().

EventArrives(name) ==
    /\ ~event_crashed
    /\ frames = <<>>
    /\ MaxDepth > 0
    /\ name \in Subscribed
    /\ Notify(name)
    /\ UNCHANGED <<mapVars, listener_map_, linkVars, outVars, event_crashed>>

PatternArrives(kind, pattern) ==
    /\ ~event_crashed
    /\ frames = <<>>
    /\ MaxDepth > 0
    /\ pattern \in listener_map_
    /\ frames' = <<[kind |-> kind, todo |-> <<>>, running |-> TRUE]>>
    /\ UNCHANGED <<mapVars, listener_map_, linkVars, outVars, event_crashed>>

\* The first n entries of the queue are written, the first k are popped.
WriteAndPop(n, k) ==
    /\ sent' = sent \o SubSeq(send_queue_, 1, n)
    /\ send_queue_' = SubSeq(send_queue_, k + 1, Len(send_queue_))
    /\ UNCHANGED <<emitted, mapVars, listener_map_, frames, event_crashed>>

FlushedLossy(n) == WriteAndPop(n, n + 1)    \* pops before it sends
FlushedAgain(n) == WriteAndPop(n, 0)        \* does not pop

\* on_connection_state_change_(OPEN) with the first n entries of the queue
\* written: all of them ...
Flushed(n) == WriteAndPop(n, n)

Reconnect ==
    /\ ~event_crashed
    /\ frames = <<>>
    /\ ~online
    /\ online' = TRUE
    /\ session' = [subs |-> Subscribed, listens |-> listener_map_]
    /\ Flushed(Len(send_queue_))

\* ... or, after a send_ that failed, none of the later ones.
ReconnectAndFail(n) ==
    /\ ~event_crashed
    /\ frames = <<>>
    /\ ~online
    /\ Flushed(n)
    /\ UNCHANGED linkVars

\* Between the calls of Event, or inside a callback that closes the connection
\* or sends something else.
ConnectionLost ==
    /\ UserRuns
    /\ online
    /\ Sends(FALSE, session)
    /\ UNCHANGED <<mapVars, listener_map_, frames, outVars, event_crashed>>

-----------------------------------------------------------------------------
User ==
    \/ \E name \in Names :
        \/ Emit(name) \/ Subscribe(name) \/ UnsubscribeName(name)
        \/ \E id \in Elements(subscriber_map_[name]) : UnsubscribeId(name, id)
    \/ \E pattern \in Patterns : Listen(pattern) \/ Unlisten(pattern)
    \/ PresenceSubscribes

Loops ==
    \/ CallNext \/ CallbackReturns \/ NotifyReturns \/ ListenerReturns
    \/ \E n \in 0 .. MaxDepth : CallErased(n)

Throws == \E n \in 0 .. MaxDepth : CallbackThrows(n)

Link ==
    \/ \E name \in Names : EventArrives(name)
    \/ \E pattern \in Patterns, kind \in {"found", "removed"} :
        PatternArrives(kind, pattern)
    \/ Reconnect
    \/ \E n \in 0 .. Len(send_queue_) - 1 : ReconnectAndFail(n)
    \/ ConnectionLost

Next == User \/ Loops \/ Throws \/ Link

Spec == Init /\ [][Next]_vars

(***************************************************************************)
(* Callbacks return, the loops go on, and a connection that is retried     *)
(* again and again is one day good for a whole flush.                      *)
(***************************************************************************)
Fairness == WF_vars(Loops) /\ SF_vars(Reconnect)

FairSpec == Spec /\ Fairness

-----------------------------------------------------------------------------
(***************************************************************************)
(* Properties                                                              *)
(***************************************************************************)

\* What was written to the sockets, followed by what is queued, is every emit
\* once and in order: failed writes, reconnections, partial flushes and emits
\* from callbacks neither lose, nor repeat, nor reorder any.  Nothing waits in
\* the queue of an open connection.  (emit, on_connection_state_change_)
EmitsInOrder ==
    /\ sent \o send_queue_ = [i \in 1 .. emitted |-> i]
    /\ online => send_queue_ = <<>>

\* While the connection is open, the server knows every subscription and every
\* listener the application has, also those made offline, in a callback or
\* while a write failed.  (subscribe, listen, on_connection_state_change_)
ServerKnowsSubscriptions ==
    online => Subscribed \subseteq session.subs /\ listener_map_ \subseteq session.listens

\* The lists of subscribers and the map of their callbacks agree: every id in
\* use is in one list, once, in the order of subscription, and has a callback.
\* (subscribe, both unsubscribe, the assertions on erase)
ListsMatchCallbacks ==
    /\ subscribe_fn_map_ = UNION {Elements(subscriber_map_[name]) : name \in Names}
    /\ \A name \in Names : StrictlyIncreasing(subscriber_map_[name])
    /\ \A n1, n2 \in Names : n1 # n2 =>
         Elements(subscriber_map_[n1]) \cap Elements(subscriber_map_[n2]) = {}
    /\ \A id \in subscribe_fn_map_ \cup empty_fns : id < subscription_counter_
    /\ subscribe_fn_map_ \cap empty_fns = {}

\* A notification calls callbacks in the order of their subscription, each one
\* once, however the lists change meanwhile.  (the copy in notify_subscribers_)
NotifiesInOrder ==
    \A d \in 1 .. Len(frames) :
        /\ StrictlyIncreasing(frames[d].todo)
        /\ \A i \in 1 .. Len(frames[d].todo) : frames[d].todo[i] < subscription_counter_

\* The emits are an outbox that delivers in order, exactly once.
Promise == INSTANCE Outbox WITH
    Events <- 1 .. MaxEmits,
    log <- [i \in 1 .. emitted |-> i],
    delivered <- sent

\* emit() and the flush implement module Outbox.
ImplementsOutbox == Promise!Spec

\* Every emit is written to a socket some day, unless the process dies first.
\* (emit, the flush)
EmitsReachServer ==
    \A n \in 1 .. MaxEmits : emitted >= n ~> Len(sent) >= n \/ event_crashed

-----------------------------------------------------------------------------
\* What the code says of itself, and does not keep.

\* "This function unsubscribes *all* callbacks from the given event": a server
\* with an open connection no longer sends what nobody is subscribed to.
\* (event.hpp:99)
ServerForgetsUnsubscribed == online => session.subs \subseteq Subscribed
=============================================================================
