------------------------------- MODULE Client --------------------------------
(***************************************************************************)
(* The whole client: Client (src/src/core/client.cpp) puts Event and       *)
(* Presence on top of one Connection.                                      *)
(*                                                                         *)
(* The steps are those of modules Connection, Event and Presence, and a    *)
(* call that sends is one step of two of them: it does what the first two  *)
(* lines of Event or Presence say (...Local) and what SendApp of           *)
(* Connection says, with the result of the one handed to the other.  The   *)
(* frames of Event are above the one of Presence on the stack, and both    *)
(* are above the callers in pc.                                            *)
(*                                                                         *)
(* Connection abstracts what Event and Presence exchange with the server   *)
(* to "APP"; uplink, downlink and inbox hold the contents of these         *)
(* messages, in order.  The flush, one step in Event, is a loop of writes  *)
(* here.                                                                   *)
(*                                                                         *)
(* An application that calls process_messages() in a callback is left out. *)
(***************************************************************************)
EXTENDS SequencesExt

CONSTANTS
    Names, Patterns, MaxIds, MaxEmits, MaxDepth,                \* of Event
    MaxQueries,                                                 \* of Presence
    Replies, Verdicts, MaxInFlight, Callbacks, Throwing, Secure,  \* of Connection
    MaxUnasked      \* bound: messages of the server that are not yet handled

ASSUME BoundsAssumption ==
    /\ MaxIds \in Nat /\ MaxEmits \in Nat /\ MaxDepth \in Nat
    /\ MaxQueries \in Nat /\ MaxUnasked \in Nat

VARIABLES
    ws, toClient, toServer, srv, state, deliberate_close, reconnection_attempt,
    login, opening, pc, batch, stale, tainted,
    subscriber_map_, subscribe_fn_map_, empty_fns, listener_map_, send_queue_,
    frames, emitted, sent, event_crashed,
    subscribers_, presence_fn_map_, presence_empty_fns, querents_, frame, late,
    asked, answered, thrown, presence_crashed,
    subscription_counter_,  \* Client's, shared by Event and Presence
    uplink,                 \* the contents of the messages in toServer ...
    downlink,               \* ... in toClient ...
    inbox,                  \* ... and in batch
    told,                   \* what was written to the current socket
    known,                  \* what the server at its other end has taken in
    received,               \* history: the emits that reached a server, in order
    flush,                  \* what is left of the loops of the flush
    flushed                 \* the number of emits this flush has written

connVars == <<ws, toClient, toServer, srv, state, deliberate_close,
              reconnection_attempt, login, opening, pc, batch, stale, tainted>>
eventVars == <<subscriber_map_, subscribe_fn_map_, empty_fns, listener_map_,
               send_queue_, frames, emitted, sent, event_crashed>>
presenceVars == <<subscribers_, presence_fn_map_, presence_empty_fns, querents_,
                  frame, asked, answered, thrown, presence_crashed>>
wireVars == <<uplink, downlink, inbox, told, known, late, received>>
flushVars == <<flush, flushed>>
vars == <<connVars, eventVars, presenceVars, subscription_counter_, wireVars, flushVars>>

Nothing == [subs |-> {}, listens |-> {}, subscribed |-> FALSE, queries |-> 0]

NoFlush == [subs |-> {}, listens |-> {}]

C == INSTANCE Connection

ASSUME ConnectionAssumption ==
    /\ Replies \subseteq C!ChallengeReply /\ Verdicts \subseteq C!Verdict
    /\ Callbacks \subseteq {"fn", "empty"} /\ Throwing \subseteq {"event_cb", "login_cb"}
    /\ Secure \in BOOLEAN /\ MaxInFlight \in Nat

\* Event, for its steps: whether it is online is what Connection says ...
E == INSTANCE Event WITH
    online <- (state = "OPEN"),
    session <- [subs |-> {}, listens |-> {}]

\* ... and for what these steps amount to: the flush happens all at its end.
Online == state = "OPEN" /\ ~opening
EventOnline == Online /\ pc # "flush"

EventSession ==
    IF EventOnline THEN [subs |-> told.subs, listens |-> told.listens] ELSE NoFlush
EventSent == SubSeq(sent, 1, Len(sent) - flushed)
EventQueue == SubSeq(sent, Len(sent) - flushed + 1, Len(sent)) \o send_queue_

EventView == INSTANCE Event WITH
    online <- EventOnline,
    session <- EventSession,
    sent <- EventSent,
    send_queue_ <- EventQueue

PresenceSession ==
    IF Online THEN [subscribed |-> told.subscribed, queries |-> told.queries]
              ELSE [subscribed |-> FALSE, queries |-> 0]

P == INSTANCE Presence WITH
    subscribe_fn_map_ <- presence_fn_map_,
    empty_fns <- presence_empty_fns,
    online <- Online,
    session <- PresenceSession

\* What the client and the server tell each other.
ToServer == [act : {"SUBSCRIBE", "UNSUBSCRIBE"}, what : Names]
       \cup [act : {"LISTEN"}, what : Patterns]
       \cup [act : {"EVENT"}, what : Nat]
       \cup [act : {"LISTEN_ANSWER", "U|S", "U|US", "QUERY"}, what : {"-"}]
ToClient == [act : {"EVENT"}, what : Names]
       \cup [act : {"found", "removed"}, what : Patterns]
       \cup [act : {"PRESENCE", "ANSWER"}, what : {"-"}]

View == [subs : SUBSET Names, listens : SUBSET Patterns, subscribed : BOOLEAN, queries : Nat]

Apps(q) == Cardinality({i \in 1 .. Len(q) : q[i] = "APP"})

\* Every variable holds a value its C++ counterpart can have, and the contents
\* of the messages go with them.
TypeOK ==
    /\ C!TypeOK
    /\ EventView!TypeOK
    /\ P!TypeOK
    /\ uplink \in Seq(ToServer) /\ Len(uplink) = Apps(toServer)
    /\ downlink \in Seq(ToClient) /\ Len(downlink) = Apps(toClient)
    /\ inbox \in Seq(ToClient) /\ Len(inbox) = Apps(batch)
    /\ told \in View /\ known \in View
    /\ received \in Seq(Nat)
    /\ flush \in [subs : SUBSET Names, listens : SUBSET Patterns]
    /\ flushed \in 0 .. Len(sent)

Init ==
    /\ C!Init
    /\ E!Init
    /\ P!Init
    /\ uplink = <<>>
    /\ downlink = <<>>
    /\ inbox = <<>>
    /\ told = Nothing
    /\ known = Nothing
    /\ received = <<>>
    /\ flush = NoFlush
    /\ flushed = 0

-----------------------------------------------------------------------------
\* The wire.

\* What a message adds to the view of the one who gets it.
Learn(view, m) ==
    CASE m.act = "SUBSCRIBE" -> [view EXCEPT !.subs = @ \cup {m.what}]
      [] m.act = "UNSUBSCRIBE" -> [view EXCEPT !.subs = @ \ {m.what}]
      [] m.act = "LISTEN" -> [view EXCEPT !.listens = @ \cup {m.what}]
      [] m.act = "U|S" -> [view EXCEPT !.subscribed = TRUE]
      [] m.act = "U|US" -> [view EXCEPT !.subscribed = FALSE]
      [] m.act = "QUERY" -> [view EXCEPT !.queries = @ + 1]
      [] OTHER -> view

WireFollowsPart ==          \* an exception leaves the buffer as it is
    /\ uplink' = SubSeq(uplink, 1, Apps(toServer'))
    /\ downlink' = SubSeq(downlink, 1, Apps(toClient'))
    /\ IF srv' = "none"
       THEN told' = Nothing /\ known' = Nothing /\ late' = late + told.queries
       ELSE UNCHANGED <<told, known, late>>
    /\ UNCHANGED <<inbox, received>>

\* A step of Connection loses the contents of the messages that it loses.
WireFollows ==
    /\ uplink' = SubSeq(uplink, 1, Apps(toServer'))
    /\ downlink' = SubSeq(downlink, 1, Apps(toClient'))
    /\ inbox' = IF batch' = <<>> THEN <<>> ELSE inbox
    /\ IF srv' = "none"
       THEN told' = Nothing /\ known' = Nothing /\ late' = late + told.queries
       ELSE UNCHANGED <<told, known, late>>
    /\ UNCHANGED received

SendUnchecked(ok, m) ==     \* in any state
    \/ /\ ok
       /\ C!SendAppUnchecked(TRUE)
       /\ uplink' = Append(uplink, m)
       /\ told' = Learn(told, m)
       /\ UNCHANGED <<downlink, inbox, known, late, received>>
    \/ /\ ~ok
       /\ C!SendAppUnchecked(FALSE)
       /\ WireFollows

\* Connection::send(m) returns ok.
Send(ok, m) ==
    \/ /\ ok
       /\ C!SendApp(TRUE)
       /\ uplink' = Append(uplink, m)
       /\ told' = Learn(told, m)
       /\ UNCHANGED <<downlink, inbox, known, late, received>>
    \/ /\ ~ok
       /\ C!SendApp(FALSE)
       /\ WireFollows
    \/ /\ ~ok
       /\ state # "OPEN"
       /\ UNCHANGED <<connVars, wireVars>>

\* send(m), if needed, whose result is not used.
SendIf(needed, m) ==
    IF needed THEN \E ok \in BOOLEAN : Send(ok, m)
              ELSE UNCHANGED <<connVars, wireVars>>

Msg(act, what) == [act |-> act, what |-> what]

-----------------------------------------------------------------------------
\* The stack.

Alive == ~event_crashed /\ ~presence_crashed

InEvent == frames # <<>>
InPresence == frame.kind # "none"
InNeither == ~InEvent /\ ~InPresence

\* The application may call the client.
AppRuns ==
    /\ Alive
    /\ C!UserRuns
    /\ pc = "event_cb" => ~InNeither
    /\ IF InEvent THEN E!Top.running ELSE InPresence => frame.running

\* An exception that left all the frames of Event goes on if it was Connection
\* that called Event, and then leaves process_messages().
Escapes(n) ==
    IF n = 0 /\ pc = "event_cb" /\ ~InPresence
    THEN C!CallbackThrows /\ WireFollows
    ELSE UNCHANGED <<connVars, wireVars>>

-----------------------------------------------------------------------------
\* Calls of the application.

Login(callback) ==
    /\ AppRuns
    /\ C!Login(callback)
    /\ WireFollows
    /\ UNCHANGED <<eventVars, presenceVars, subscription_counter_, flushVars>>

Close ==
    /\ AppRuns
    /\ C!Close
    /\ WireFollows
    /\ UNCHANGED <<eventVars, presenceVars, subscription_counter_, flushVars>>

Emit(name) ==
    /\ AppRuns
    /\ \E ok \in BOOLEAN :
        /\ Send(ok, Msg("EVENT", emitted + 1))
        /\ E!EmitLocal(name, ok)
    /\ UNCHANGED <<presenceVars, flushVars>>

Subscribe(name) ==
    /\ AppRuns
    /\ SendIf(E!SubscribeTells(name), Msg("SUBSCRIBE", name))
    /\ E!SubscribeLocal(name)
    /\ UNCHANGED <<presenceVars, flushVars>>

UnsubscribeName(name) ==
    /\ AppRuns
    /\ SendIf(E!UnsubscribeTells(name), Msg("UNSUBSCRIBE", name))
    /\ E!UnsubscribeNameLocal(name)
    /\ UNCHANGED <<presenceVars, flushVars>>

UnsubscribeId(name, id) ==
    /\ AppRuns
    /\ SendIf(E!LastOf(name) /\ E!UnsubscribeTells(name), Msg("UNSUBSCRIBE", name))
    /\ E!UnsubscribeIdLocal(name, id)
    /\ UNCHANGED <<presenceVars, flushVars>>

Listen(pattern) ==
    /\ AppRuns
    /\ SendIf(TRUE, Msg("LISTEN", pattern))
    /\ E!ListenLocal(pattern)
    /\ UNCHANGED <<presenceVars, flushVars, subscription_counter_>>

Unlisten(pattern) ==
    /\ AppRuns
    /\ UNCHANGED <<connVars, presenceVars, wireVars, flushVars>>
    /\ E!Unlisten(pattern)

PresenceSubscribe ==
    /\ AppRuns
    /\ SendIf(P!SubscribeTells, Msg("U|S", "-"))
    /\ P!SubscribeLocal
    /\ UNCHANGED <<eventVars, flushVars>>

PresenceUnsubscribeId(id) ==
    /\ AppRuns
    /\ SendIf(P!UnsubscribeTells(id), Msg("U|US", "-"))
    /\ P!UnsubscribeIdLocal(id)
    /\ UNCHANGED <<eventVars, flushVars>>

PresenceUnsubscribeAll ==
    /\ AppRuns
    /\ SendIf(TRUE, Msg("U|US", "-"))
    /\ P!UnsubscribeAllLocal
    /\ UNCHANGED <<eventVars, flushVars>>

GetAll ==
    /\ AppRuns
    /\ SendIf(P!GetAllTells, Msg("QUERY", "-"))
    /\ P!GetAllLocal
    /\ UNCHANGED <<eventVars, flushVars, subscription_counter_>>

-----------------------------------------------------------------------------
\* The loops of Event over its callbacks, ...

EventLoops ==
    /\ Alive
    /\ InEvent
    /\ UNCHANGED <<presenceVars, flushVars, subscription_counter_>>
    /\ \/ /\ UNCHANGED <<connVars, wireVars>>
          /\ E!CallNext \/ E!CallbackReturns \/ E!NotifyReturns
       \/ /\ E!Top.running
          /\ SendIf(E!Top.kind = "found", Msg("LISTEN_ANSWER", "-"))
          /\ E!ListenerReturnsLocal
       \/ \E n \in 0 .. Len(frames) - 1 : Escapes(n) /\ E!CallErased(n)

EventCallbackThrows ==
    /\ Alive
    /\ InEvent
    /\ \E n \in 0 .. Len(frames) - 1 : Escapes(n) /\ E!CallbackThrows(n)
    /\ UNCHANGED <<presenceVars, flushVars, subscription_counter_>>

\* ... of Presence over its own, with none of Event on top, ...
PresenceLoops ==
    /\ Alive
    /\ InPresence /\ ~InEvent
    /\ UNCHANGED <<eventVars, flushVars>>
    /\ \/ /\ UNCHANGED <<connVars, wireVars>>
          /\ P!CallSubscriber \/ P!CallQuerent \/ P!CallbackReturns \/ P!NotifyReturns
       \/ /\ C!CallbackThrows
          /\ WireFollows
          /\ P!CallErased

PresenceCallbackThrows ==
    /\ Alive
    /\ InPresence /\ ~InEvent
    /\ C!CallbackThrows
    /\ WireFollows
    /\ P!CallbackThrows
    /\ UNCHANGED <<eventVars, flushVars>>

LoginCallbackThrows ==
    /\ Alive
    /\ InNeither
    /\ pc = "login_cb"
    /\ C!CallbackThrows
    /\ WireFollows
    /\ UNCHANGED <<eventVars, presenceVars, subscription_counter_, flushVars>>

\* ... and those of the flush, on_connection_state_change_(OPEN).
FlushGoesOn ==
    /\ Alive
    /\ C!Running("flush")
    /\ state = "OPEN"
    /\ UNCHANGED <<presenceVars, subscription_counter_>>

FlushSubscribes(name) ==
    /\ FlushGoesOn
    /\ name \in flush.subs
    /\ flush' = [flush EXCEPT !.subs = @ \ {name}]
    /\ SendIf(TRUE, Msg("SUBSCRIBE", name))
    /\ UNCHANGED <<eventVars, flushed>>

FlushListens(pattern) ==
    /\ FlushGoesOn
    /\ flush.subs = {} /\ pattern \in flush.listens
    /\ flush' = [flush EXCEPT !.listens = @ \ {pattern}]
    /\ SendIf(TRUE, Msg("LISTEN", pattern))
    /\ UNCHANGED <<eventVars, flushed>>

FlushPopsNever(ok) == UNCHANGED send_queue_     \* what is written stays queued

FlushPops(ok) == IF ok THEN send_queue_' = Tail(send_queue_) ELSE UNCHANGED send_queue_

FlushEmits ==
    /\ FlushGoesOn
    /\ flush = NoFlush /\ send_queue_ # <<>>
    /\ \E ok \in BOOLEAN :
        /\ Send(ok, Msg("EVENT", Head(send_queue_)))
        /\ FlushPops(ok)
        /\ sent' = IF ok THEN Append(sent, Head(send_queue_)) ELSE sent
        /\ flushed' = IF ok THEN flushed + 1 ELSE flushed
    /\ UNCHANGED <<flush, subscriber_map_, subscribe_fn_map_, empty_fns, listener_map_,
                   frames, emitted, event_crashed>>

FlushReturnsEarly ==        \* does not wait for the queue
    /\ Alive
    /\ pc = "flush"
    /\ C!CallbacksReturn
    /\ WireFollows
    /\ flush' = NoFlush
    /\ flushed' = 0
    /\ UNCHANGED <<eventVars, presenceVars, subscription_counter_>>

\* All is written, or a write has failed: none of the loops goes on then.
FlushReturns ==
    /\ Alive
    /\ pc = "flush"
    /\ state # "OPEN" \/ (flush = NoFlush /\ send_queue_ = <<>>)
    /\ C!CallbacksReturn
    /\ WireFollows
    /\ flush' = NoFlush
    /\ flushed' = 0
    /\ UNCHANGED <<eventVars, presenceVars, subscription_counter_>>

Flushes ==
    \/ \E name \in Names : FlushSubscribes(name)
    \/ \E pattern \in Patterns : FlushListens(pattern)
    \/ FlushEmits
    \/ FlushReturns

-----------------------------------------------------------------------------
\* Connection on its own, under no frame of Event or Presence.

Opening ==
    /\ Alive
    /\ C!Opening
    /\ WireFollows
    /\ UNCHANGED <<eventVars, presenceVars, subscription_counter_, flushVars>>

FlushBeginsBare ==          \* the listeners are forgotten
    /\ flush' = IF pc' = "flush" THEN [subs |-> E!Subscribed, listens |-> {}] ELSE flush
    /\ UNCHANGED flushed

\* What FinishAuth starts.
FlushBegins ==
    /\ flush' = IF pc' = "flush"
                THEN [subs |-> E!Subscribed, listens |-> listener_map_]
                ELSE flush
    /\ UNCHANGED flushed

ConnectionSteps ==
    /\ Alive
    /\ InNeither
    /\ \/ C!ProcessMessages
       \/ \E m \in C!FromServer \ {"APP"} : C!ReadFrame(m)
       \/ C!ReadEnd \/ C!ReadPauses
       \/ C!HandlePing \/ C!HandleChallenge \/ C!HandleChallengeAccepted
       \/ C!HandleRedirect \/ C!HandleReject \/ C!HandleAuthError \/ C!HandleAuthAck
       \/ C!OnMessageReturns
       \/ C!ConstructorReturns \/ C!LoginCallbackReturns
       \/ pc = "event_cb" /\ C!CallbacksReturn
    /\ WireFollows
    /\ FlushBegins
    /\ UNCHANGED <<eventVars, presenceVars, subscription_counter_>>

ReadApp ==
    /\ Alive
    /\ C!ReadFrame("APP")
    /\ inbox' = Append(inbox, Head(downlink))
    /\ downlink' = Tail(downlink)
    /\ UNCHANGED <<uplink, told, known, late, received>>
    /\ UNCHANGED <<eventVars, presenceVars, subscription_counter_, flushVars>>

\* on_message() gives the next message to Event or Presence.
Handle(act, what) ==
    /\ Alive
    /\ C!HandleApp
    /\ Head(inbox) = Msg(act, what)
    /\ inbox' = Tail(inbox)
    /\ UNCHANGED <<uplink, downlink, known, received, flushVars, subscription_counter_>>

HandleEvent(name) ==
    /\ Handle("EVENT", name)
    /\ UNCHANGED <<told, late, presenceVars>>
    /\ IF name \in E!Subscribed THEN E!EventArrives(name) ELSE UNCHANGED eventVars

HandlePattern(kind, pattern) ==
    /\ Handle(kind, pattern)
    /\ UNCHANGED <<told, late, presenceVars>>
    /\ IF pattern \in listener_map_
       THEN E!PatternArrives(kind, pattern) ELSE UNCHANGED eventVars

HandlePresenceAsAnswer ==   \* the topics are mixed up
    /\ Handle("PRESENCE", "-")
    /\ UNCHANGED <<told, late, eventVars>>
    /\ P!AnswerLocal

HandlePresence ==
    /\ Handle("PRESENCE", "-")
    /\ UNCHANGED <<told, late, eventVars>>
    /\ P!PresenceArrives

HandleAnswer ==
    /\ Handle("ANSWER", "-")
    /\ UNCHANGED eventVars
    /\ IF stale
       THEN late' = late - 1 /\ UNCHANGED told
       ELSE told' = [told EXCEPT !.queries = @ - 1] /\ UNCHANGED late
    /\ P!AnswerLocal

Handles ==
    \/ \E name \in Names : HandleEvent(name)
    \/ \E pattern \in Patterns, kind \in {"found", "removed"} : HandlePattern(kind, pattern)
    \/ HandlePresence
    \/ HandleAnswer

-----------------------------------------------------------------------------
\* The server and the network.

PeerOnly ==
    /\ Alive
    /\ UNCHANGED <<state, deliberate_close, reconnection_attempt, login, opening, pc,
                   batch, stale, tainted>>
    /\ UNCHANGED <<eventVars, presenceVars, subscription_counter_, flushVars>>

ServerAnswers ==
    /\ PeerOnly
    /\ C!ServerAnswers
    /\ Head(toServer) # "APP"
    /\ WireFollows

\* A server that has not accepted the login ignores the message.
ServerLearns ==
    /\ PeerOnly
    /\ C!ServerConsumes
    /\ Head(toServer) = "APP"
    /\ uplink' = Tail(uplink)
    /\ IF srv = "authed"
       THEN /\ known' = Learn(known, Head(uplink))
            /\ received' = IF Head(uplink).act = "EVENT"
                           THEN Append(received, Head(uplink).what) ELSE received
       ELSE UNCHANGED <<known, received>>
    /\ UNCHANGED <<downlink, inbox, told, late>>

\* It sends what it was asked for.
Wanted ==
    {Msg("EVENT", name) : name \in known.subs}
    \cup {Msg(kind, pattern) : kind \in {"found", "removed"}, pattern \in known.listens}
    \cup {Msg("PRESENCE", "-") : t \in {known.subscribed} \ {FALSE}}
    \cup {Msg("ANSWER", "-") : t \in {known.queries} \ {0}}

ServerSends(m) ==
    /\ PeerOnly
    /\ m \in Wanted
    /\ Len(downlink) + Len(inbox) < MaxUnasked
    /\ C!ServerSends(C!InFlight)
    /\ toClient' = Append(toClient, "APP")
    /\ downlink' = Append(downlink, m)
    /\ known' = IF m.act = "ANSWER" THEN [known EXCEPT !.queries = @ - 1] ELSE known
    /\ UNCHANGED <<uplink, inbox, told, late, received>>

LinkEnds ==
    /\ PeerOnly
    /\ C!LinkEnds
    /\ WireFollows

-----------------------------------------------------------------------------
User ==
    \/ \E callback \in Callbacks : Login(callback)
    \/ Close
    \/ \E name \in Names :
        \/ Emit(name) \/ Subscribe(name) \/ UnsubscribeName(name)
        \/ \E id \in E!Elements(subscriber_map_[name]) : UnsubscribeId(name, id)
    \/ \E pattern \in Patterns : Listen(pattern) \/ Unlisten(pattern)
    \/ PresenceSubscribe \/ PresenceUnsubscribeAll \/ GetAll
    \/ \E id \in P!Elements(subscribers_) : PresenceUnsubscribeId(id)

Throws == EventCallbackThrows \/ PresenceCallbackThrows \/ LoginCallbackThrows

Loops == EventLoops \/ PresenceLoops \/ Flushes

System == Opening \/ ConnectionSteps \/ ReadApp \/ Handles

Peer == ServerAnswers \/ ServerLearns \/ (\E m \in Wanted : ServerSends(m)) \/ LinkEnds

Next == User \/ Throws \/ Loops \/ System \/ Peer

Spec == Init /\ [][Next]_vars

(***************************************************************************)
(* The thread of the client goes on, callbacks return, the application     *)
(* keeps polling, and the server reads what it is sent.  No other call of  *)
(* the application and nothing that goes wrong is fair.                    *)
(***************************************************************************)
Fairness ==
    /\ WF_vars(System \/ Loops)
    /\ WF_vars(ServerAnswers \/ ServerLearns)

FairSpec == Spec /\ Fairness

-----------------------------------------------------------------------------
(***************************************************************************)
(* Properties                                                              *)
(***************************************************************************)

\* The client's steps, contents left out, are steps of Connection: whatever
\* holds of Connection holds of the client.  (client.cpp)
ImplementsConnection == C!Spec

\* Connection is the link that Event assumes: it refuses and loses what Event
\* thinks it does, and a flush, with failures anywhere in it, is one step.
\* (client.cpp, Connection::send, on_connection_state_change_)
ImplementsEvent == EventView!Spec

\* Connection is the link that Presence assumes, and what Event does to it and
\* to the shared counter is what Presence expects.  (client.cpp, Connection::send)
ImplementsPresence == P!Spec

\* No server gets an emit twice, or after a later one, on whatever connections
\* they were written.  (emit, on_connection_state_change_)
ReceivedInOrder == E!StrictlyIncreasing(received)

\* A SubscriptionId names one subscription of the whole client, be it to an event
\* or to presence, also when it is of no use any more.  (subscription_counter_ of
\* Client, referenced by Event and Presence)
IdsAreUnique ==
    /\ subscribe_fn_map_ \cap presence_fn_map_ = {}
    /\ \A n \in 1 .. Len(frames) :
        E!Elements(frames[n].todo) \cap presence_fn_map_ = {}
    /\ frame.kind = "presence" => E!Elements(frame.todo) \cap subscribe_fn_map_ = {}

\* What the server holds when all that is in flight has arrived, if it holds now
\* or not: the last message about it decides.
WillHold(on, off, what, now) ==
    \/ \E i \in 1 .. Len(uplink) :
        /\ uplink[i] = Msg(on, what)
        /\ \A j \in i + 1 .. Len(uplink) : uplink[j] # Msg(off, what)
    \/ now /\ \A i \in 1 .. Len(uplink) : uplink[i] # Msg(off, what)

\* Unless a stale message drove the handshake, a server that reads on will know
\* every subscription and listener of an open client, and no presence
\* subscription that is gone.  (the flush, Event::subscribe, Presence::unsubscribe)
ServerWillKnow ==
    C!Undisturbed /\ EventOnline =>
        /\ \A name \in E!Subscribed :
            WillHold("SUBSCRIBE", "UNSUBSCRIBE", name, name \in known.subs)
        /\ \A pattern \in listener_map_ :
            WillHold("LISTEN", "UNLISTEN", pattern, pattern \in known.listens)
        /\ WillHold("U|S", "U|US", "-", known.subscribed) => subscribers_ # <<>>

\* Once a socket lasts and the application has logged in, the server knows all
\* subscriptions and listeners, and every emit is written, however many
\* connections were lost in between and wherever a flush was cut short.
\* (Event::emit, on_connection_state_change_, handle_authentication_response)
ServerCatchesUp ==
    <>[](C!Undisturbed /\ login = "fn" /\ Alive)
        => <>[](/\ Len(sent) = emitted
                /\ E!Subscribed \subseteq known.subs
                /\ listener_map_ \subseteq known.listens)
=============================================================================
