----------------------------- MODULE Client_proofs -----------------------------
(***************************************************************************)
(* The client implements its Connection: leaving out what Event, Presence  *)
(* and the contents of the messages are, every step of module Client is a  *)
(* step of module Connection or none.                                      *)
(*                                                                         *)
(* A SubscriptionId is used once: no id is both one of Event and one of    *)
(* Presence, and all of them are below the counter.                        *)
(*                                                                         *)
(* The client implements the link that Presence assumes: the answers that  *)
(* may still come are counted wherever they are, from the query in the     *)
(* client's own socket to the batch that process_messages() is handling.   *)
(***************************************************************************)
EXTENDS Client, SequenceTheorems, FiniteSetTheorems, TLAPS

L == INSTANCE Lists_proofs
K == INSTANCE Connection_proofs

\* The variables of Connection as one tuple.
LEMMA ConnVars == UNCHANGED connVars => UNCHANGED C!vars
BY DEF connVars, C!vars, C!socketVars, C!clientVars, C!stackVars

\* Connection::send(), as Event and Presence see it, is SendApp or refuses.
LEMMA SendStep ==
    ASSUME NEW ok \in BOOLEAN, NEW m, Send(ok, m)
    PROVE  C!Next \/ UNCHANGED C!vars
BY ConnVars DEF Send, C!Next, C!User

LEMMA SendIfStep ==
    ASSUME NEW needed, NEW m, SendIf(needed, m)
    PROVE  C!Next \/ UNCHANGED C!vars
BY SendStep, ConnVars DEF SendIf

-----------------------------------------------------------------------------
\* One fact for every part of Next.

LEMMA UserStep ==
    ASSUME User
    PROVE  C!Next \/ UNCHANGED C!vars
<1>1. ASSUME NEW callback \in Callbacks, Login(callback)
      PROVE  C!Next
  BY <1>1 DEF Login, C!Next, C!User
<1>2. ASSUME Close
      PROVE  C!Next
  BY <1>2 DEF Close, C!Next, C!User
<1>3. ASSUME NEW name \in Names, Emit(name)
      PROVE  C!Next \/ UNCHANGED C!vars
  BY <1>3, SendStep DEF Emit
<1>4. ASSUME NEW name \in Names, Subscribe(name)
      PROVE  C!Next \/ UNCHANGED C!vars
  BY <1>4, SendIfStep DEF Subscribe
<1>5. ASSUME NEW name \in Names, UnsubscribeName(name)
      PROVE  C!Next \/ UNCHANGED C!vars
  BY <1>5, SendIfStep DEF UnsubscribeName
<1>6. ASSUME NEW name \in Names, NEW id, UnsubscribeId(name, id)
      PROVE  C!Next \/ UNCHANGED C!vars
  BY <1>6, SendIfStep DEF UnsubscribeId
<1>7. ASSUME NEW pattern \in Patterns, Listen(pattern)
      PROVE  C!Next \/ UNCHANGED C!vars
  BY <1>7, SendIfStep DEF Listen
<1>8. ASSUME NEW pattern \in Patterns, Unlisten(pattern)
      PROVE  UNCHANGED C!vars
  <2>1. UNCHANGED connVars
    BY <1>8 DEF Unlisten
  <2> QED BY <2>1, ConnVars
<1>9. ASSUME PresenceSubscribe \/ PresenceUnsubscribeAll \/ GetAll
      PROVE  C!Next \/ UNCHANGED C!vars
  BY <1>9, SendIfStep DEF PresenceSubscribe, PresenceUnsubscribeAll, GetAll
<1>10. ASSUME NEW id, PresenceUnsubscribeId(id)
       PROVE  C!Next \/ UNCHANGED C!vars
  BY <1>10, SendIfStep DEF PresenceUnsubscribeId
<1> QED
  BY <1>1, <1>2, <1>3, <1>4, <1>5, <1>6, <1>7, <1>8, <1>9, <1>10 DEF User

LEMMA EscapesStep ==
    ASSUME NEW n, Escapes(n)
    PROVE  C!Next \/ UNCHANGED C!vars
BY ConnVars DEF Escapes, C!Next, C!User

LEMMA ThrowsStep ==
    ASSUME Throws
    PROVE  C!Next \/ UNCHANGED C!vars
<1>1. ASSUME EventCallbackThrows
      PROVE  C!Next \/ UNCHANGED C!vars
  BY <1>1, EscapesStep DEF EventCallbackThrows
<1>2. ASSUME PresenceCallbackThrows \/ LoginCallbackThrows
      PROVE  C!Next
  BY <1>2 DEF PresenceCallbackThrows, LoginCallbackThrows, C!Next, C!User
<1> QED
  BY <1>1, <1>2 DEF Throws

LEMMA LoopsStep ==
    ASSUME Loops
    PROVE  C!Next \/ UNCHANGED C!vars
<1>1. ASSUME EventLoops
      PROVE  C!Next \/ UNCHANGED C!vars
  <2>1. \/ UNCHANGED connVars
        \/ SendIf(E!Top.kind = "found", Msg("LISTEN_ANSWER", "-"))
        \/ \E n \in 0 .. Len(frames) - 1 : Escapes(n)
    BY <1>1 DEF EventLoops
  <2> QED BY <2>1, ConnVars, SendIfStep, EscapesStep
<1>2. ASSUME PresenceLoops
      PROVE  C!Next \/ UNCHANGED C!vars
  <2>1. UNCHANGED connVars \/ C!CallbackThrows
    BY <1>2 DEF PresenceLoops
  <2> QED BY <2>1, ConnVars DEF C!Next, C!User
<1>3. ASSUME Flushes
      PROVE  C!Next \/ UNCHANGED C!vars
  <2>1. ASSUME NEW name \in Names, FlushSubscribes(name)
        PROVE  C!Next \/ UNCHANGED C!vars
    BY <2>1, SendIfStep DEF FlushSubscribes
  <2>2. ASSUME NEW pattern \in Patterns, FlushListens(pattern)
        PROVE  C!Next \/ UNCHANGED C!vars
    BY <2>2, SendIfStep DEF FlushListens
  <2>3. ASSUME FlushEmits
        PROVE  C!Next \/ UNCHANGED C!vars
    BY <2>3, SendStep DEF FlushEmits
  <2>4. ASSUME FlushReturns
        PROVE  C!Next
    BY <2>4 DEF FlushReturns, C!Next, C!Returns
  <2> QED BY <1>3, <2>1, <2>2, <2>3, <2>4 DEF Flushes
<1> QED
  BY <1>1, <1>2, <1>3 DEF Loops

LEMMA HandleStep ==
    ASSUME NEW act, NEW what, Handle(act, what)
    PROVE  C!Next
BY DEF Handle, C!Next, C!Dispatching

LEMMA SystemStep ==
    ASSUME System
    PROVE  C!Next
<1>1. ASSUME Opening
      PROVE  C!Next
  BY <1>1 DEF Opening, C!Next
<1>2. ASSUME ConnectionSteps
      PROVE  C!Next
  BY <1>2 DEF ConnectionSteps, C!Next, C!Reading, C!Dispatching, C!Returns
<1>3. ASSUME ReadApp
      PROVE  C!Next
  BY <1>3 DEF ReadApp, C!Next, C!Reading, C!FromServer
<1>4. ASSUME Handles
      PROVE  C!Next
  BY <1>4, HandleStep DEF Handles, HandleEvent, HandlePattern, HandlePresence,
                          HandleAnswer
<1> QED
  BY <1>1, <1>2, <1>3, <1>4 DEF System

LEMMA PeerStep ==
    ASSUME Peer
    PROVE  C!Next
<1>1. ASSUME PeerOnly
      PROVE  UNCHANGED <<C!clientVars, C!stackVars, stale, tainted>>
  BY <1>1 DEF PeerOnly, C!clientVars, C!stackVars
<1>2. ASSUME ServerAnswers \/ ServerLearns \/ LinkEnds
      PROVE  C!Peer
  BY <1>2, <1>1 DEF ServerAnswers, ServerLearns, LinkEnds, C!Peer, C!ServerAnswers
<1>3. ASSUME NEW m \in Wanted, ServerSends(m)
      PROVE  C!Peer
  BY <1>3, <1>1 DEF ServerSends, C!Peer
<1> QED
  BY <1>2, <1>3 DEF Peer, C!Next

-----------------------------------------------------------------------------
LEMMA NextStep == [Next]_vars => [C!Next]_(C!vars)
<1>1. ASSUME Next
      PROVE  C!Next \/ UNCHANGED C!vars
  BY <1>1, UserStep, ThrowsStep, LoopsStep, SystemStep, PeerStep DEF Next
<1>2. ASSUME UNCHANGED vars
      PROVE  UNCHANGED C!vars
  BY <1>2, ConnVars DEF vars
<1> QED BY <1>1, <1>2

\* Every behaviour of the client is one of its connection, for all constants
\* and whatever Event and Presence do with it.  (client.cpp, Connection::send)
THEOREM ClientImplementsConnection == Spec => ImplementsConnection
<1>1. Init => C!Init
  BY DEF Init
<1> QED
  BY <1>1, NextStep, PTL DEF Spec, ImplementsConnection, C!Spec

-----------------------------------------------------------------------------
\* The ids of Event and of Presence.

Lists == /\ subscriber_map_ \in [Names -> Seq(Nat)]
         /\ subscribe_fn_map_ \subseteq Nat
         /\ frames \in Seq(E!Frame)

PresenceLists ==
    /\ subscribers_ \in Seq(Nat)
    /\ presence_fn_map_ \subseteq Nat
    /\ querents_ \in Seq(Nat)
    /\ asked \in Nat
    /\ frame \in [kind : {"none", "presence", "query"}, todo : Seq(Nat), running : BOOLEAN]
    /\ frame.running => frame.todo # <<>>

ListedIds == subscribe_fn_map_ \cup UNION {E!Elements(subscriber_map_[name]) : name \in Names}

CalledIds == UNION {E!Elements(frames[n].todo) : n \in 1 .. Len(frames)}

PresenceIds ==
    presence_fn_map_ \cup E!Elements(subscribers_)
        \cup (IF frame.kind = "presence" THEN E!Elements(frame.todo) ELSE {})

EventIds == ListedIds \cup CalledIds

IdsInv ==
    /\ Lists /\ PresenceLists /\ subscription_counter_ \in Nat
    /\ EventIds \cap PresenceIds = {}
    /\ EventIds \cup PresenceIds \subseteq 0 .. subscription_counter_ - 1

LEMMA ListOps ==
    /\ E!Elements(<<>>) = {}
    /\ \A q \in Seq(Nat) :
        /\ \A m \in Nat : Append(q, m) \in Seq(Nat)
                          /\ E!Elements(Append(q, m)) = E!Elements(q) \cup {m}
        /\ q # <<>> => Head(q) \in E!Elements(q)
                       /\ Tail(q) \in Seq(Nat) /\ E!Elements(Tail(q)) \subseteq E!Elements(q)
        /\ \A i \in 1 .. Len(q) : RemoveAt(q, i) \in Seq(Nat)
                                  /\ E!Elements(RemoveAt(q, i)) \subseteq E!Elements(q)
<1>1. E!Elements(<<>>) = {}
  BY EmptySeq DEF E!Elements
<1>2. ASSUME NEW q \in Seq(Nat), NEW m \in Nat
      PROVE  Append(q, m) \in Seq(Nat) /\ E!Elements(Append(q, m)) = E!Elements(q) \cup {m}
  BY L!ElementsAppend DEF E!Elements, L!Elements
<1>3. ASSUME NEW q \in Seq(Nat), q # <<>>
      PROVE  Head(q) \in E!Elements(q)
             /\ Tail(q) \in Seq(Nat) /\ E!Elements(Tail(q)) \subseteq E!Elements(q)
  <2>1. /\ Len(q) \in Nat \ {0} /\ Tail(q) \in Seq(Nat) /\ Len(Tail(q)) = Len(q) - 1
        /\ Head(q) = q[1] /\ \A i \in 1 .. Len(Tail(q)) : Tail(q)[i] = q[i + 1]
    BY <1>3, HeadTailProperties, LenProperties, EmptySeq
  <2>2. \A i \in 1 .. Len(Tail(q)) : i + 1 \in 1 .. Len(q)
    BY <2>1
  <2>3. 1 \in 1 .. Len(q)
    BY <2>1
  <2> QED BY <2>1, <2>2, <2>3 DEF E!Elements
<1>4. ASSUME NEW q \in Seq(Nat), NEW i \in 1 .. Len(q)
      PROVE  RemoveAt(q, i) \in Seq(Nat) /\ E!Elements(RemoveAt(q, i)) \subseteq E!Elements(q)
  <2>1. /\ RemoveAt(q, i) \in Seq(Nat) /\ Len(RemoveAt(q, i)) = Len(q) - 1
        /\ \A k \in 1 .. Len(q) - 1 : RemoveAt(q, i)[k] = IF k < i THEN q[k] ELSE q[k + 1]
    BY L!RemoveAtProperties DEF RemoveAt, L!RemoveAt
  <2>2. Len(q) \in Nat
    BY LenProperties
  <2>3. \A k \in 1 .. Len(q) - 1 : k \in 1 .. Len(q) /\ k + 1 \in 1 .. Len(q)
    BY <2>2
  <2> QED BY <2>1, <2>3 DEF E!Elements
<1> QED BY <1>1, <1>2, <1>3, <1>4

\* The stack of notifications: one more, one changed at the top, or some less.
LEMMA FramesPushed ==
    ASSUME frames \in Seq(E!Frame), NEW f \in E!Frame, frames' = Append(frames, f)
    PROVE  frames' \in Seq(E!Frame) /\ CalledIds' = CalledIds \cup E!Elements(f.todo)
<1>1. /\ frames' \in Seq(E!Frame) /\ Len(frames') = Len(frames) + 1 /\ Len(frames) \in Nat
      /\ \A i \in 1 .. Len(frames) : frames'[i] = frames[i]
      /\ frames'[Len(frames) + 1] = f
  BY AppendProperties, LenProperties
<1>2. \A i \in 1 .. Len(frames) + 1 : i \in 1 .. Len(frames) \/ i = Len(frames) + 1
  BY <1>1
<1>3. 1 .. Len(frames) \subseteq 1 .. Len(frames) + 1 /\ Len(frames) + 1 \in 1 .. Len(frames) + 1
  BY <1>1
<1> QED BY <1>1, <1>2, <1>3 DEF CalledIds, E!Elements

LEMMA FramesCut ==
    ASSUME frames \in Seq(E!Frame), NEW n \in Nat, n <= Len(frames), frames' = SubSeq(frames, 1, n)
    PROVE  frames' \in Seq(E!Frame) /\ CalledIds' \subseteq CalledIds
<1>1. /\ frames' \in Seq(E!Frame) /\ Len(frames') = n
      /\ \A i \in 1 .. n : i \in 1 .. Len(frames) /\ frames'[i] = frames[i]
  BY L!PrefixProperties
<1> QED BY <1>1 DEF CalledIds, E!Elements

LEMMA FramesChanged ==
    ASSUME frames \in Seq(E!Frame), frames # <<>>, NEW f \in E!Frame,
           E!Elements(f.todo) \subseteq E!Elements(E!Top.todo),
           frames' = [frames EXCEPT ![Len(frames)] = f]
    PROVE  frames' \in Seq(E!Frame) /\ CalledIds' \subseteq CalledIds
<1>1. /\ Len(frames) \in Nat \ {0} /\ Len(frames) \in 1 .. Len(frames)
  BY LenProperties, EmptySeq
<1>2. /\ frames' \in Seq(E!Frame) /\ Len(frames') = Len(frames)
      /\ \A i \in 1 .. Len(frames) : frames'[i] = IF i = Len(frames) THEN f ELSE frames[i]
  BY <1>1, ExceptSeq
<1>3. ASSUME NEW i \in 1 .. Len(frames)
      PROVE  E!Elements(frames'[i].todo) \subseteq E!Elements(frames[i].todo)
  <2>1. CASE i = Len(frames)
    BY <1>2, <2>1 DEF E!Top
  <2>2. CASE i # Len(frames)
    <3>1. frames'[i] = frames[i]
      BY <1>2, <2>2
    <3> QED BY <3>1
  <2> QED BY <2>1, <2>2
<1>4. CalledIds' = UNION {E!Elements(frames'[n].todo) : n \in 1 .. Len(frames)}
  BY <1>2 DEF CalledIds, E!Elements
<1>5. ASSUME NEW id \in CalledIds' PROVE id \in CalledIds
  <2>1. PICK i \in 1 .. Len(frames) : id \in E!Elements(frames'[i].todo)
    BY <1>4
  <2>2. id \in E!Elements(frames[i].todo)
    BY <1>3, <2>1
  <2> QED BY <2>2 DEF CalledIds
<1> QED BY <1>2, <1>5

-----------------------------------------------------------------------------
\* A step of Event takes no id that it did not have, but the next one.
EventStep ==
    /\ Lists'
    /\ \/ /\ EventIds' \subseteq EventIds
          /\ UNCHANGED subscription_counter_
       \/ /\ EventIds' \subseteq EventIds \cup {subscription_counter_}
          /\ subscription_counter_' = subscription_counter_ + 1

LEMMA MapsChanged ==
    ASSUME Lists, subscription_counter_ \in Nat, NEW name \in Names, NEW q \in Seq(Nat),
           subscriber_map_' = [subscriber_map_ EXCEPT ![name] = q],
           UNCHANGED frames,
           \/ /\ subscribe_fn_map_' \subseteq subscribe_fn_map_
              /\ E!Elements(q) \subseteq E!Elements(subscriber_map_[name])
              /\ UNCHANGED subscription_counter_
           \/ /\ subscribe_fn_map_' = subscribe_fn_map_ \cup {subscription_counter_}
              /\ E!Elements(q) = E!Elements(subscriber_map_[name]) \cup {subscription_counter_}
              /\ subscription_counter_' = subscription_counter_ + 1
    PROVE  EventStep
<1>1. /\ subscriber_map_' \in [Names -> Seq(Nat)]
      /\ \A n \in Names : subscriber_map_'[n] = IF n = name THEN q ELSE subscriber_map_[n]
  BY DEF Lists
<1>2. subscribe_fn_map_' \subseteq Nat
  BY DEF Lists
<1>3. Lists'
  BY <1>1, <1>2 DEF Lists
<1>4. CalledIds' = CalledIds
  BY DEF CalledIds
<1>5. ASSUME NEW id \in UNION {E!Elements(subscriber_map_'[n]) : n \in Names}
      PROVE  id \in E!Elements(q) \cup UNION {E!Elements(subscriber_map_[n]) : n \in Names}
  <2>1. PICK n \in Names : id \in E!Elements(subscriber_map_'[n])
    OBVIOUS
  <2>2. CASE n = name
    BY <1>1, <2>1, <2>2
  <2>3. CASE n # name
    <3>1. subscriber_map_'[n] = subscriber_map_[n]
      BY <1>1, <2>3
    <3> QED BY <2>1, <3>1
  <2> QED BY <2>2, <2>3
<1>6. EventIds' \subseteq subscribe_fn_map_' \cup E!Elements(q) \cup EventIds
  <2>1. EventIds' = subscribe_fn_map_' \cup CalledIds
                      \cup UNION {E!Elements(subscriber_map_'[n]) : n \in Names}
    BY <1>4 DEF EventIds, ListedIds, E!Elements
  <2> QED BY <1>5, <2>1 DEF EventIds, ListedIds
<1>7. E!Elements(subscriber_map_[name]) \subseteq EventIds /\ subscribe_fn_map_ \subseteq EventIds
  BY DEF EventIds, ListedIds
<1> QED BY <1>3, <1>6, <1>7 DEF EventStep

LEMMA FramesStep ==
    ASSUME Lists, UNCHANGED <<subscriber_map_, subscribe_fn_map_, subscription_counter_>>,
           frames' \in Seq(E!Frame), CalledIds' \subseteq EventIds
    PROVE  EventStep
<1>1. Lists' /\ ListedIds' = ListedIds
  BY DEF Lists, ListedIds
<1> QED BY <1>1 DEF EventStep, EventIds

-----------------------------------------------------------------------------
\* What Event does to its ids, ...

LEMMA NotifyStep ==
    ASSUME Lists, NEW name \in Names, E!Notify(name),
           UNCHANGED <<subscriber_map_, subscribe_fn_map_, subscription_counter_>>
    PROVE  EventStep
<1> DEFINE f == [kind |-> "event", todo |-> subscriber_map_[name], running |-> FALSE]
<1>1. f \in E!Frame
  BY DEF Lists, E!Frame, E!Ids
<1>2. frames' = Append(frames, f) /\ frames \in Seq(E!Frame)
  BY DEF Lists, E!Notify
<1>3. f.todo = subscriber_map_[name]
  OBVIOUS
<1> HIDE DEF f
<1>4. frames' \in Seq(E!Frame) /\ CalledIds' = CalledIds \cup E!Elements(subscriber_map_[name])
  BY <1>1, <1>2, <1>3, FramesPushed
<1>5. E!Elements(subscriber_map_[name]) \subseteq EventIds /\ CalledIds \subseteq EventIds
  BY DEF EventIds, ListedIds
<1> QED BY <1>4, <1>5, FramesStep

LEMMA NoEventStep ==
    ASSUME Lists, UNCHANGED <<subscriber_map_, subscribe_fn_map_, frames>>,
           subscription_counter_' \in {subscription_counter_, subscription_counter_ + 1}
    PROVE  EventStep /\ EventIds' = EventIds
<1>1. Lists' /\ EventIds' = EventIds
  BY DEF Lists, EventIds, ListedIds, CalledIds
<1> QED BY <1>1 DEF EventStep

\* What the application calls of Event.
LEMMA EventCallStep ==
    ASSUME Lists, subscription_counter_ \in Nat, NEW name \in Names, NEW id, NEW pattern, NEW ok,
           \/ E!EmitLocal(name, ok) \/ E!SubscribeLocal(name)
           \/ E!UnsubscribeNameLocal(name) \/ E!UnsubscribeIdLocal(name, id)
           \/ (E!ListenLocal(pattern) \/ E!Unlisten(pattern)) /\ UNCHANGED subscription_counter_
    PROVE  EventStep
<1> DEFINE list == subscriber_map_[name]
<1>0. list \in Seq(Nat)
  BY DEF Lists
<1>1. CASE E!EmitLocal(name, ok)
  BY <1>1, NotifyStep, NoEventStep DEF E!EmitLocal, E!mapVars
<1>2. CASE E!SubscribeLocal(name)
  <2>1. /\ Append(list, subscription_counter_) \in Seq(Nat)
        /\ E!Elements(Append(list, subscription_counter_))
             = E!Elements(list) \cup {subscription_counter_}
    BY <1>0, ListOps
  <2> QED BY <1>2, <2>1, MapsChanged DEF E!SubscribeLocal, E!AddSubscriber
<1>3. CASE E!UnsubscribeNameLocal(name)
  <2>1. <<>> \in Seq(Nat) /\ E!Elements(<<>>) \subseteq E!Elements(list)
    BY ListOps
  <2> QED BY <1>3, <2>1, MapsChanged DEF E!UnsubscribeNameLocal, E!RemoveName
<1>4. CASE E!UnsubscribeIdLocal(name, id)
  <2>1. PICK i \in 1 .. Len(list) :
            subscriber_map_' = [subscriber_map_ EXCEPT ![name] = RemoveAt(list, i)]
    BY <1>4 DEF E!UnsubscribeIdLocal, E!RemoveAt, RemoveAt
  <2>2. /\ RemoveAt(list, i) \in Seq(Nat)
        /\ E!Elements(RemoveAt(list, i)) \subseteq E!Elements(list)
    BY <1>0, ListOps
  <2>3. /\ subscribe_fn_map_' \subseteq subscribe_fn_map_
        /\ UNCHANGED <<frames, subscription_counter_>>
    BY <1>4 DEF E!UnsubscribeIdLocal
  <2> QED BY <2>1, <2>2, <2>3, MapsChanged
<1>5. CASE (E!ListenLocal(pattern) \/ E!Unlisten(pattern)) /\ UNCHANGED subscription_counter_
  BY <1>5, NoEventStep DEF E!ListenLocal, E!Unlisten, E!mapVars
<1> QED BY <1>1, <1>2, <1>3, <1>4, <1>5

\* The loops of Event over its callbacks, and what Connection calls.
LEMMA EventLoopStep ==
    ASSUME Lists, UNCHANGED subscription_counter_,
           \/ E!CallNext \/ E!CallbackReturns \/ E!NotifyReturns \/ E!ListenerReturnsLocal
           \/ \E n \in 0 .. Len(frames) - 1 : E!CallErased(n) \/ E!CallbackThrows(n)
           \/ \E name \in Names : E!EventArrives(name)
           \/ \E kind \in {"found", "removed"}, pattern \in Patterns : E!PatternArrives(kind, pattern)
    PROVE  EventStep
<1>0. frames \in Seq(E!Frame) /\ Len(frames) \in Nat /\ CalledIds \subseteq EventIds
  BY LenProperties DEF Lists, EventIds
<1>1. ASSUME frames # <<>>
      PROVE  /\ E!Top \in E!Frame /\ E!Top.todo \in Seq(Nat)
             /\ Len(frames) - 1 \in Nat /\ Len(frames) - 1 <= Len(frames)
  <2>1. Len(frames) \in 1 .. Len(frames)
    BY <1>0, <1>1, EmptySeq
  <2>2. E!Top \in E!Frame
    BY <1>0, <2>1, ElementOfSeq DEF E!Top
  <2> QED BY <1>0, <2>1, <2>2 DEF E!Frame, E!Ids
<1>2. CASE E!CallNext
  <2> DEFINE f == [E!Top EXCEPT !.running = TRUE]
  <2>1. /\ frames # <<>> /\ frames' = [frames EXCEPT ![Len(frames)] = f]
        /\ UNCHANGED <<subscriber_map_, subscribe_fn_map_>>
    BY <1>2 DEF E!CallNext, E!Top, E!mapVars
  <2>2. f \in E!Frame /\ f.todo = E!Top.todo
    BY <1>1, <2>1 DEF E!Frame
  <2> HIDE DEF f
  <2> QED BY <1>0, <2>1, <2>2, FramesChanged, FramesStep
<1>3. CASE E!CallbackReturns
  <2> DEFINE f == [kind |-> "event", todo |-> Tail(E!Top.todo), running |-> FALSE]
  <2>1. /\ frames # <<>> /\ E!Top.todo # <<>> /\ frames' = [frames EXCEPT ![Len(frames)] = f]
        /\ UNCHANGED <<subscriber_map_, subscribe_fn_map_>>
    BY <1>3 DEF E!CallbackReturns, E!mapVars
  <2>2. Tail(E!Top.todo) \in Seq(Nat) /\ E!Elements(Tail(E!Top.todo)) \subseteq E!Elements(E!Top.todo)
    BY <1>1, <2>1, ListOps
  <2>3. f \in E!Frame /\ f.todo = Tail(E!Top.todo)
    BY <2>2 DEF E!Frame, E!Ids
  <2> HIDE DEF f
  <2> QED BY <1>0, <2>1, <2>2, <2>3, FramesChanged, FramesStep
<1>4. CASE E!NotifyReturns \/ E!ListenerReturnsLocal
  <2>1. /\ frames # <<>> /\ frames' = SubSeq(frames, 1, Len(frames) - 1)
        /\ UNCHANGED <<subscriber_map_, subscribe_fn_map_>>
    BY <1>4 DEF E!NotifyReturns, E!ListenerReturnsLocal, E!Below, E!mapVars
  <2> QED BY <1>0, <1>1, <2>1, FramesCut, FramesStep
<1>5. CASE \E n \in 0 .. Len(frames) - 1 : E!CallErased(n) \/ E!CallbackThrows(n)
  <2>1. PICK n \in 0 .. Len(frames) - 1 : E!CallErased(n) \/ E!CallbackThrows(n)
    BY <1>5
  <2>2. /\ frames' = SubSeq(frames, 1, n)
        /\ UNCHANGED <<subscriber_map_, subscribe_fn_map_>>
    BY <2>1 DEF E!CallErased, E!CallbackThrows, E!Unwinds, E!mapVars
  <2>3. n \in Nat /\ n <= Len(frames)
    BY <1>0
  <2> QED BY <1>0, <2>2, <2>3, FramesCut, FramesStep
<1>6. CASE \E name \in Names : E!EventArrives(name)
  BY <1>6, NotifyStep DEF E!EventArrives, E!mapVars
<1>7. CASE \E kind \in {"found", "removed"}, pattern \in Patterns : E!PatternArrives(kind, pattern)
  <2>1. PICK kind \in {"found", "removed"} :
            /\ frames = <<>>
            /\ frames' = <<[kind |-> kind, todo |-> <<>>, running |-> TRUE]>>
            /\ UNCHANGED <<subscriber_map_, subscribe_fn_map_>>
    BY <1>7 DEF E!PatternArrives, E!mapVars
  <2> DEFINE f == [kind |-> kind, todo |-> <<>>, running |-> TRUE]
  <2>2. f \in E!Frame /\ E!Elements(f.todo) = {} /\ frames' = Append(frames, f)
    BY <2>1, ListOps, EmptySeq DEF E!Frame, E!Ids
  <2> HIDE DEF f
  <2> QED BY <1>0, <2>1, <2>2, FramesPushed, FramesStep
<1> QED BY <1>2, <1>3, <1>4, <1>5, <1>6, <1>7

-----------------------------------------------------------------------------
\* ... and Presence to its own.

CalledSubscribers == IF frame.kind = "presence" THEN E!Elements(frame.todo) ELSE {}

LEMMA PresenceIdsParts ==
    PresenceIds = presence_fn_map_ \cup E!Elements(subscribers_) \cup CalledSubscribers
BY DEF PresenceIds, CalledSubscribers

\* The same of Presence.
PresenceStep ==
    /\ PresenceLists'
    /\ \/ /\ PresenceIds' \subseteq PresenceIds
          /\ UNCHANGED subscription_counter_
       \/ /\ PresenceIds' \subseteq PresenceIds \cup {subscription_counter_}
          /\ subscription_counter_' = subscription_counter_ + 1

LEMMA NoPresenceStep ==
    ASSUME PresenceLists, UNCHANGED presenceVars,
           subscription_counter_' \in {subscription_counter_, subscription_counter_ + 1}
    PROVE  PresenceStep /\ PresenceIds' = PresenceIds
BY DEF PresenceLists, PresenceStep, PresenceIds, presenceVars, E!Elements

LEMMA PresenceCallStep ==
    ASSUME PresenceLists, subscription_counter_ \in Nat, NEW id,
           \/ P!SubscribeLocal \/ P!UnsubscribeIdLocal(id) \/ P!UnsubscribeAllLocal
           \/ P!GetAllLocal
    PROVE  PresenceStep
<1>0. UNCHANGED frame
  BY DEF P!SubscribeLocal, P!AddSubscriber, P!UnsubscribeIdLocal, P!RemoveSubscriber,
         P!UnsubscribeAllLocal, P!GetAllLocal
<1>1. CalledSubscribers' = CalledSubscribers
  BY <1>0 DEF CalledSubscribers, E!Elements
<1>2. PresenceIds' = presence_fn_map_' \cup E!Elements(subscribers_)' \cup CalledSubscribers
  BY <1>1, PresenceIdsParts DEF PresenceIds, CalledSubscribers
<1>3. CASE P!SubscribeLocal
  <2>1. /\ Append(subscribers_, subscription_counter_) \in Seq(Nat)
        /\ E!Elements(Append(subscribers_, subscription_counter_))
             = E!Elements(subscribers_) \cup {subscription_counter_}
    BY ListOps DEF PresenceLists
  <2>2. /\ subscribers_' = Append(subscribers_, subscription_counter_)
        /\ presence_fn_map_' = presence_fn_map_ \cup {subscription_counter_}
        /\ subscription_counter_' = subscription_counter_ + 1
        /\ UNCHANGED <<querents_, asked>>
    BY <1>3 DEF P!SubscribeLocal, P!AddSubscriber, P!queryVars
  <2>3. PresenceLists'
    BY <1>0, <2>1, <2>2 DEF PresenceLists
  <2>4. E!Elements(subscribers_)' = E!Elements(subscribers_) \cup {subscription_counter_}
    BY <2>1, <2>2 DEF E!Elements
  <2> QED BY <1>2, <2>2, <2>3, <2>4, PresenceIdsParts DEF PresenceStep
<1>4. CASE P!UnsubscribeIdLocal(id)
  <2>1. PICK i \in 1 .. Len(subscribers_) : subscribers_' = RemoveAt(subscribers_, i)
    BY <1>4 DEF P!UnsubscribeIdLocal, P!RemoveSubscriber, P!RemoveAt, RemoveAt
  <2>2. /\ RemoveAt(subscribers_, i) \in Seq(Nat)
        /\ E!Elements(RemoveAt(subscribers_, i)) \subseteq E!Elements(subscribers_)
    BY ListOps DEF PresenceLists
  <2>3. /\ presence_fn_map_' = presence_fn_map_ \ {id}
        /\ UNCHANGED <<querents_, asked, subscription_counter_>>
    BY <1>4 DEF P!UnsubscribeIdLocal, P!RemoveSubscriber, P!queryVars
  <2>4. PresenceLists'
    BY <1>0, <2>1, <2>2, <2>3 DEF PresenceLists
  <2>5. E!Elements(subscribers_)' \subseteq E!Elements(subscribers_)
    BY <2>1, <2>2 DEF E!Elements
  <2> QED BY <1>2, <2>3, <2>4, <2>5, PresenceIdsParts DEF PresenceStep
<1>5. CASE P!UnsubscribeAllLocal
  <2>1. /\ subscribers_' = <<>> /\ presence_fn_map_' = {}
        /\ UNCHANGED <<querents_, asked, subscription_counter_>>
    BY <1>5 DEF P!UnsubscribeAllLocal, P!queryVars
  <2>2. E!Elements(subscribers_)' = {}
    BY <2>1, ListOps DEF E!Elements
  <2>3. <<>> \in Seq(Nat)
    OBVIOUS
  <2>4. PresenceLists'
    BY <1>0, <2>1, <2>3 DEF PresenceLists
  <2> QED BY <1>2, <2>1, <2>2, <2>4, PresenceIdsParts DEF PresenceStep
<1>6. CASE P!GetAllLocal
  <2>1. /\ querents_' = Append(querents_, asked + 1) /\ asked' = asked + 1
        /\ UNCHANGED <<subscribers_, presence_fn_map_, subscription_counter_>>
    BY <1>6 DEF P!GetAllLocal, P!subVars
  <2>2. Append(querents_, asked + 1) \in Seq(Nat)
    BY ListOps DEF PresenceLists
  <2>3. PresenceLists'
    BY <1>0, <2>1, <2>2 DEF PresenceLists
  <2>4. E!Elements(subscribers_)' = E!Elements(subscribers_)
    BY <2>1 DEF E!Elements
  <2> QED BY <1>2, <2>1, <2>3, <2>4, PresenceIdsParts DEF PresenceStep
<1> QED BY <1>3, <1>4, <1>5, <1>6

LEMMA PresenceLoopStep ==
    ASSUME PresenceLists, UNCHANGED subscription_counter_,
           \/ P!CallSubscriber \/ P!CallQuerent \/ P!CallbackReturns \/ P!NotifyReturns
           \/ P!CallErased \/ P!CallbackThrows \/ P!PresenceArrives \/ P!AnswerLocal
    PROVE  PresenceStep
<1>1. /\ UNCHANGED <<subscribers_, asked>>
      /\ querents_' \in {querents_, <<>>}
  BY DEF P!CallSubscriber, P!CallQuerent, P!CallbackReturns, P!NotifyReturns, P!CallErased,
         P!CallbackThrows, P!PresenceArrives, P!AnswerLocal, P!Answer, P!subVars,
         P!queryVars
\* operator[] gives an id back that was about to be called.
<1>m. presence_fn_map_' \subseteq presence_fn_map_ \cup CalledSubscribers
  <2>1. CASE P!CallErased
    <3>1. /\ presence_fn_map_' = presence_fn_map_ \cup {Head(frame.todo)}
          /\ frame.kind = "presence" /\ frame.todo # <<>>
      BY <2>1 DEF P!CallErased
    <3>2. frame.todo \in Seq(Nat)
      BY DEF PresenceLists
    <3>3. Head(frame.todo) \in E!Elements(frame.todo)
      BY <3>1, <3>2, ListOps
    <3> QED BY <3>1, <3>3 DEF CalledSubscribers
  <2>2. CASE ~P!CallErased
    BY <2>2 DEF P!CallSubscriber, P!CallQuerent, P!CallbackReturns, P!NotifyReturns,
           P!CallbackThrows, P!PresenceArrives, P!AnswerLocal, P!Answer, P!subVars
  <2> QED BY <2>1, <2>2
<1>n. presence_fn_map_' \subseteq Nat
  <2>1. frame.todo \in Seq(Nat)
    BY DEF PresenceLists
  <2>2. CalledSubscribers \subseteq Nat
    BY <2>1, ElementOfSeq DEF CalledSubscribers, E!Elements
  <2> QED BY <1>m, <2>2 DEF PresenceLists
<1>2. querents_' \in Seq(Nat)
  <2>1. <<>> \in Seq(Nat)
    OBVIOUS
  <2> QED BY <1>1, <2>1 DEF PresenceLists
<1> DEFINE Kinds == {"none", "presence", "query"}
           Good == /\ frame' \in [kind : Kinds, todo : Seq(Nat), running : BOOLEAN]
                   /\ frame'.running => frame'.todo # <<>>
                   /\ frame'.kind = "presence" =>
                        E!Elements(frame'.todo) \subseteq CalledSubscribers \cup E!Elements(subscribers_)
<1>3. ASSUME Good PROVE PresenceStep
  <2>1. PresenceLists'
    BY <1>1, <1>2, <1>3, <1>n DEF PresenceLists
  <2>2. CalledSubscribers' \subseteq CalledSubscribers \cup E!Elements(subscribers_)
    BY <1>3 DEF CalledSubscribers, E!Elements
  <2>3. PresenceIds' = presence_fn_map_' \cup E!Elements(subscribers_) \cup CalledSubscribers'
    BY <1>1 DEF PresenceIds, CalledSubscribers, E!Elements
  <2> QED BY <1>m, <2>1, <2>2, <2>3, PresenceIdsParts DEF PresenceStep
<1>4. frame \in [kind : Kinds, todo : Seq(Nat), running : BOOLEAN]
  BY DEF PresenceLists
<1>5. CASE P!CallSubscriber \/ P!CallQuerent
  <2>1. frame' = [frame EXCEPT !.running = TRUE]
    BY <1>5 DEF P!CallSubscriber, P!CallQuerent
  <2>2. /\ frame' \in [kind : Kinds, todo : Seq(Nat), running : BOOLEAN]
        /\ frame'.kind = frame.kind /\ frame'.todo = frame.todo
    BY <1>4, <2>1
  <2>3. frame.todo # <<>>
    BY <1>5 DEF P!CallSubscriber, P!CallQuerent
  <2> QED BY <1>3, <2>2, <2>3 DEF CalledSubscribers
<1>6. CASE P!NotifyReturns \/ P!CallErased \/ P!CallbackThrows
  <2>1. frame' = P!Idle
    BY <1>6 DEF P!NotifyReturns, P!CallErased, P!CallbackThrows
  <2>2. <<>> \in Seq(Nat)
    OBVIOUS
  <2>3. P!Idle \in [kind : Kinds, todo : Seq(Nat), running : BOOLEAN] /\ P!Idle.kind = "none" /\ ~P!Idle.running
    BY <2>2 DEF P!Idle
  <2> QED BY <1>3, <2>1, <2>3
<1>7. CASE P!CallbackReturns
  <2>1. frame' = [frame EXCEPT !.running = FALSE, !.todo = Tail(frame.todo)]
    BY <1>7 DEF P!CallbackReturns
  <2>2. frame.todo # <<>>
    BY <1>7 DEF P!CallbackReturns, PresenceLists
  <2>3. Tail(frame.todo) \in Seq(Nat) /\ E!Elements(Tail(frame.todo)) \subseteq E!Elements(frame.todo)
    BY <1>4, <2>2, ListOps
  <2>4. /\ frame' \in [kind : Kinds, todo : Seq(Nat), running : BOOLEAN]
        /\ frame'.kind = frame.kind /\ frame'.todo = Tail(frame.todo) /\ ~frame'.running
    BY <1>4, <2>1, <2>3
  <2> QED BY <1>3, <2>3, <2>4 DEF CalledSubscribers
<1>8. CASE P!PresenceArrives
  <2>1. frame' = [kind |-> "presence", todo |-> subscribers_, running |-> FALSE]
    BY <1>8 DEF P!PresenceArrives
  <2> QED BY <1>3, <2>1 DEF PresenceLists
<1>9. CASE P!AnswerLocal
  <2>1. frame' = [kind |-> "query", todo |-> querents_, running |-> FALSE]
    BY <1>9 DEF P!AnswerLocal, P!Answer
  <2> QED BY <1>3, <2>1 DEF PresenceLists
<1> QED BY <1>5, <1>6, <1>7, <1>8, <1>9

-----------------------------------------------------------------------------
\* All steps of the client.

IdsStep ==
    /\ EventStep /\ PresenceStep
    /\ EventIds' \subseteq EventIds \/ PresenceIds' \subseteq PresenceIds

LEMMA IdsKept ==
    ASSUME IdsInv, IdsStep PROVE IdsInv'
<1>1. subscription_counter_ \in Nat /\ subscription_counter_ \notin EventIds \cup PresenceIds
  BY DEF IdsInv
<1>2. EventIds' \cap PresenceIds' = {}
  BY <1>1 DEF IdsInv, EventStep, PresenceStep, IdsStep
<1>3. ASSUME NEW id \in EventIds' \cup PresenceIds' PROVE id \in 0 .. subscription_counter_' - 1
  BY <1>1 DEF IdsInv, EventStep, PresenceStep, IdsStep
<1> QED BY <1>1, <1>2, <1>3 DEF IdsInv, EventStep, PresenceStep, IdsStep

LEMMA EventAlone ==
    ASSUME IdsInv, EventStep, UNCHANGED presenceVars PROVE IdsStep
BY NoPresenceStep DEF IdsInv, IdsStep, EventStep

LEMMA PresenceAlone ==
    ASSUME IdsInv, PresenceStep, UNCHANGED eventVars PROVE IdsStep
BY NoEventStep DEF IdsInv, IdsStep, PresenceStep, eventVars

LEMMA NoIds ==
    ASSUME IdsInv, UNCHANGED <<subscriber_map_, subscribe_fn_map_, frames, presenceVars, subscription_counter_>>
    PROVE  IdsStep
BY NoEventStep, EventAlone DEF IdsInv

LEMMA UserIds ==
    ASSUME IdsInv, User PROVE IdsStep
<1> USE DEF IdsInv
<1>1. ASSUME NEW callback, Login(callback) \/ Close PROVE IdsStep
  BY <1>1, NoIds DEF Login, Close, eventVars
<1>2. ASSUME NEW name \in Names, NEW id,
             Emit(name) \/ Subscribe(name) \/ UnsubscribeName(name) \/ UnsubscribeId(name, id)
      PROVE  IdsStep
  <2>1. CASE Emit(name)
    <3>1. PICK ok \in BOOLEAN : E!EmitLocal(name, ok)
      BY <2>1 DEF Emit
    <3> QED BY <2>1, <3>1, EventCallStep, EventAlone DEF Emit
  <2>2. CASE ~Emit(name)
    BY <1>2, <2>2, EventCallStep, EventAlone DEF Subscribe, UnsubscribeName, UnsubscribeId
  <2> QED BY <2>1, <2>2
<1>3. ASSUME NEW pattern \in Patterns, Listen(pattern) \/ Unlisten(pattern) PROVE IdsStep
  <2>1. UNCHANGED <<subscriber_map_, subscribe_fn_map_, frames, presenceVars, subscription_counter_>>
    BY <1>3 DEF Listen, Unlisten, E!ListenLocal, E!Unlisten, E!mapVars
  <2> QED BY <2>1, NoIds
<1>4. ASSUME NEW id, PresenceSubscribe \/ PresenceUnsubscribeId(id) \/ PresenceUnsubscribeAll \/ GetAll
      PROVE  IdsStep
  BY <1>4, PresenceCallStep, PresenceAlone
     DEF PresenceSubscribe, PresenceUnsubscribeId, PresenceUnsubscribeAll, GetAll
<1> QED BY <1>1, <1>2, <1>3, <1>4 DEF User

LEMMA LoopsIds ==
    ASSUME IdsInv, Loops \/ Throws PROVE IdsStep
<1> USE DEF IdsInv
<1>1. CASE EventLoops \/ EventCallbackThrows
  BY <1>1, EventLoopStep, EventAlone DEF EventLoops, EventCallbackThrows
<1>2. ASSUME PresenceLoops \/ PresenceCallbackThrows PROVE IdsStep
  <2>1. UNCHANGED subscription_counter_
    BY <1>2 DEF PresenceLoops, PresenceCallbackThrows, P!CallSubscriber, P!CallQuerent,
                P!CallbackReturns, P!NotifyReturns, P!CallErased, P!CallbackThrows,
                P!subVars
  <2> QED BY <1>2, <2>1, PresenceLoopStep, PresenceAlone DEF PresenceLoops,
             PresenceCallbackThrows
<1>3. CASE LoginCallbackThrows \/ Flushes
  BY <1>3, NoIds DEF LoginCallbackThrows, Flushes, FlushGoesOn, FlushSubscribes,
     FlushListens,
                     FlushEmits, FlushReturns, eventVars
<1> QED BY <1>1, <1>2, <1>3 DEF Loops, Throws

LEMMA SystemIds ==
    ASSUME IdsInv, System \/ Peer PROVE IdsStep
<1> USE DEF IdsInv
<1>1. CASE Peer \/ Opening \/ ConnectionSteps \/ ReadApp
  BY <1>1, NoIds DEF Peer, ServerAnswers, ServerLearns, ServerSends, LinkEnds, PeerOnly,
     Opening,
                     ConnectionSteps, ReadApp, eventVars
<1>2. ASSUME NEW name \in Names, HandleEvent(name) PROVE IdsStep
  <2>1. UNCHANGED <<subscription_counter_, presenceVars>> /\ (E!EventArrives(name) \/ UNCHANGED eventVars)
    BY <1>2 DEF HandleEvent, Handle
  <2> QED BY <2>1, EventLoopStep, EventAlone, NoIds DEF eventVars
<1>3. ASSUME NEW pattern \in Patterns, NEW kind \in {"found", "removed"}, HandlePattern(kind, pattern)
      PROVE  IdsStep
  <2>1. /\ UNCHANGED <<subscription_counter_, presenceVars>>
        /\ E!PatternArrives(kind, pattern) \/ UNCHANGED eventVars
    BY <1>3 DEF HandlePattern, Handle
  <2> QED BY <2>1, EventLoopStep, EventAlone, NoIds DEF eventVars
<1>4. CASE HandlePresence \/ HandleAnswer
  BY <1>4, PresenceLoopStep, PresenceAlone DEF HandlePresence, HandleAnswer, Handle
<1> QED BY <1>1, <1>2, <1>3, <1>4 DEF System, Handles

LEMMA IdsInit == Init => IdsInv
<1> SUFFICES ASSUME Init PROVE IdsInv
  OBVIOUS
<1>1. /\ subscriber_map_ = [name \in Names |-> <<>>] /\ subscribe_fn_map_ = {} /\ frames = <<>>
      /\ subscribers_ = <<>> /\ presence_fn_map_ = {} /\ querents_ = <<>> /\ asked = 0
      /\ frame = P!Idle /\ subscription_counter_ = 0
  BY DEF Init, E!Init, P!Init
<1>2. Lists /\ PresenceLists
  <2>1. <<>> \in Seq(Nat) /\ <<>> \in Seq(E!Frame)
    OBVIOUS
  <2> QED BY <1>1, <2>1 DEF Lists, PresenceLists, P!Idle
<1>3. EventIds = {} /\ PresenceIds = {}
  <2>1. CalledIds = {}
    BY <1>1, EmptySeq DEF CalledIds
  <2>2. ListedIds = {}
    BY <1>1, ListOps DEF ListedIds
  <2>3. PresenceIds = {}
    BY <1>1, ListOps DEF PresenceIds, P!Idle
  <2> QED BY <2>1, <2>2, <2>3 DEF EventIds
<1> QED BY <1>1, <1>2, <1>3 DEF IdsInv

LEMMA IdsNext == IdsInv /\ [Next]_vars => IdsInv'
<1> SUFFICES ASSUME IdsInv, [Next]_vars PROVE IdsInv'
  OBVIOUS
<1>1. CASE Next
  BY <1>1, UserIds, LoopsIds, SystemIds, IdsKept DEF Next
<1>2. CASE UNCHANGED vars
  BY <1>2, NoIds, IdsKept DEF vars, eventVars
<1> QED BY <1>1, <1>2

THEOREM IdsAlwaysUnique == Spec => []IdsAreUnique
<1>1. IdsInv => IdsAreUnique
  BY DEF IdsInv, IdsAreUnique, EventIds, ListedIds, CalledIds, PresenceIds
<1> QED BY <1>1, IdsInit, IdsNext, PTL DEF Spec

-----------------------------------------------------------------------------
\* Counting the messages of a kind.

\* How many of the elements of q are in S.
Places(q, S) == {i \in 1 .. Len(q) : q[i] \in S}

Count(q, S) == Cardinality(Places(q, S))

LEMMA PlacesFinite ==
    ASSUME NEW T, NEW q \in Seq(T), NEW S
    PROVE  IsFiniteSet(Places(q, S)) /\ Count(q, S) \in Nat
<1>1. IsFiniteSet(1 .. Len(q)) /\ Places(q, S) \subseteq 1 .. Len(q)
  BY FS_Interval, LenProperties DEF Places
<1> QED BY <1>1, FS_Subset, FS_CardinalityType DEF Count

LEMMA CountEmpty ==
    ASSUME NEW S PROVE Count(<<>>, S) = 0
<1>1. Places(<<>>, S) = {}
  BY EmptySeq DEF Places
<1> QED BY <1>1, FS_EmptySet DEF Count

LEMMA CountAppend ==
    ASSUME NEW T, NEW q \in Seq(T), NEW m \in T, NEW S
    PROVE  Count(Append(q, m), S) = Count(q, S) + (IF m \in S THEN 1 ELSE 0)
<1>1. /\ Len(q) \in Nat /\ Len(Append(q, m)) = Len(q) + 1
      /\ \A i \in 1 .. Len(q) : Append(q, m)[i] = q[i]
      /\ Append(q, m)[Len(q) + 1] = m
  BY LenProperties, AppendProperties
<1>2. IsFiniteSet(Places(q, S)) /\ Len(q) + 1 \notin Places(q, S)
  BY <1>1, PlacesFinite DEF Places
<1>3. CASE m \in S
  <2>1. Places(Append(q, m), S) = Places(q, S) \cup {Len(q) + 1}
    BY <1>1, <1>3 DEF Places
  <2> QED BY <2>1, <1>2, <1>3, FS_AddElement DEF Count
<1>4. CASE m \notin S
  <2>1. Places(Append(q, m), S) = Places(q, S)
    BY <1>1, <1>4 DEF Places
  <2> QED BY <2>1, <1>2, <1>4, PlacesFinite DEF Count
<1> QED BY <1>3, <1>4

LEMMA CountTail ==
    ASSUME NEW T, NEW q \in Seq(T), q # <<>>, NEW S
    PROVE  Count(q, S) = Count(Tail(q), S) + (IF Head(q) \in S THEN 1 ELSE 0)
<1> DEFINE t == Tail(q)
<1>1. /\ t \in Seq(T) /\ Len(q) \in Nat \ {0} /\ Len(t) = Len(q) - 1
      /\ \A i \in 1 .. Len(t) : t[i] = q[i + 1]
      /\ Head(q) = q[1]
  BY HeadTailProperties, LenProperties, EmptySeq
<1>2. /\ IsFiniteSet(Places(t, S)) /\ IsFiniteSet(Places(q, S))
      /\ Count(t, S) \in Nat /\ Count(q, S) \in Nat
  BY <1>1, PlacesFinite
<1>3. /\ IsFiniteSet(Places(q, S) \ {1})
      /\ Cardinality(Places(q, S) \ {1}) = Count(t, S)
  <2> DEFINE f == [i \in Places(t, S) |-> i + 1]
  <2>1. \A i \in Places(t, S) : i \in Nat /\ i + 1 \in Places(q, S) \ {1}
    BY <1>1 DEF Places
  <2>2. \A j \in Places(q, S) \ {1} : j - 1 \in Places(t, S) /\ (j - 1) + 1 = j
    BY <1>1 DEF Places
  <2>3. f \in Bijection(Places(t, S), Places(q, S) \ {1})
    <3>1. f \in Injection(Places(t, S), Places(q, S) \ {1})
      BY <2>1 DEF Injection, IsInjective
    <3>2. f \in Surjection(Places(t, S), Places(q, S) \ {1})
      BY <2>1, <2>2 DEF Surjection
    <3> QED BY <3>1, <3>2 DEF Bijection
  <2>4. ExistsBijection(Places(t, S), Places(q, S) \ {1})
    BY <2>3 DEF ExistsBijection
  <2> QED BY <2>4, <1>2, FS_Bijection DEF Count
<1>4. 1 \in Places(q, S) <=> Head(q) \in S
  BY <1>1 DEF Places
<1>5. Cardinality(Places(q, S) \ {1})
        = IF 1 \in Places(q, S) THEN Count(q, S) - 1 ELSE Count(q, S)
  BY <1>2, FS_RemoveElement DEF Count
<1> HIDE DEF t
<1> QED BY <1>2, <1>3, <1>4, <1>5 DEF t

LEMMA CountPrefix ==
    ASSUME NEW T, NEW q \in Seq(T), NEW n \in Nat, n <= Len(q), NEW S
    PROVE  /\ SubSeq(q, 1, n) \in Seq(T) /\ Len(SubSeq(q, 1, n)) = n
           /\ Count(SubSeq(q, 1, n), S) <= Count(q, S)
<1> DEFINE p == SubSeq(q, 1, n)
<1>1. /\ Len(q) \in Nat
      /\ \A i \in 1 .. n : q[i] \in T
  BY LenProperties, ElementOfSeq
<1>2. /\ p \in Seq(T) /\ Len(p) = n
      /\ \A i \in 1 .. n : p[i] = q[i]
  BY <1>1, SubSeqProperties
<1>3. Places(p, S) \subseteq Places(q, S)
  BY <1>1, <1>2 DEF Places
<1>4. IsFiniteSet(Places(q, S))
  BY PlacesFinite
<1>5. Cardinality(Places(p, S)) <= Cardinality(Places(q, S))
  BY <1>3, <1>4, FS_Subset
<1> HIDE DEF p
<1> QED BY <1>2, <1>5 DEF Count, p

LEMMA AppsCount == ASSUME NEW q PROVE Apps(q) = Count(q, {"APP"})
<1>1. {i \in 1 .. Len(q) : q[i] = "APP"} = Places(q, {"APP"})
  BY DEF Places
<1> QED BY <1>1 DEF Apps, Count

-----------------------------------------------------------------------------
\* Connection_proofs is about an instance of its own of module Connection, with
\* the same variables and constants: each action is the same formula.
USE DEF C!ConnectionState, K!ConnectionState, C!ChallengeReply, K!ChallengeReply,
        C!AuthError, K!AuthError, C!Verdict, K!Verdict,
        C!ServerHandshake, K!ServerHandshake,
        C!ClientHandshake, K!ClientHandshake, C!FromServer, K!FromServer,
        C!FromClient, K!FromClient, C!socketVars, K!socketVars,
        C!clientVars, K!clientVars, C!stackVars, K!stackVars,
        C!DropSocket, K!DropSocket, C!SocketOpens, K!SocketOpens,
        C!SocketFailsToOpen, K!SocketFailsToOpen, C!SocketSends, K!SocketSends,
        C!SocketFailsToSend, K!SocketFailsToSend, C!SocketCloses, K!SocketCloses,
        C!SocketReads, K!SocketReads, C!SocketReadsEnd, K!SocketReadsEnd,
        C!MaxAttempts, K!MaxAttempts, C!InFlight, K!InFlight,
        C!GiveUpOrReopen, K!GiveUpOrReopen, C!on_close, K!on_close,
        C!SendSucceeds, K!SendSucceeds, C!SendFails, K!SendFails,
        C!SendIn, K!SendIn, C!CloseSocket, K!CloseSocket, C!Unwind, K!Unwind,
        C!NoSocketUse, K!NoSocketUse, C!Running, K!Running,
        C!UserRuns, K!UserRuns, C!AfterRead, K!AfterRead, C!Upcoming, K!Upcoming,
        C!Receive, K!Receive, C!Continue, K!Continue, C!FinishAuth, K!FinishAuth

LEMMA SameTransition ==
    ASSUME NEW s, NEW m
    PROVE  /\ C!transition_incoming(s, m) = K!transition_incoming(s, m)
           /\ C!transition_outgoing(s, m) = K!transition_outgoing(s, m)
BY DEF C!transition_incoming, K!transition_incoming,
       C!transition_outgoing, K!transition_outgoing

LEMMA SameOpening == C!Opening <=> K!Opening
BY SameTransition DEF C!Opening, K!Opening, C!OpenSucceeds, K!OpenSucceeds,
                      C!OpenFails, K!OpenFails

LEMMA SameProcessMessages == C!ProcessMessages <=> K!ProcessMessages
BY SameTransition DEF C!ProcessMessages, K!ProcessMessages

LEMMA SameUser == C!User <=> K!User
BY SameTransition DEF C!User, K!User, C!Login, K!Login, C!Close, K!Close,
                      C!SendApp, K!SendApp, C!CallbackThrows, K!CallbackThrows

LEMMA SameReading == C!Reading <=> K!Reading
BY SameTransition DEF C!Reading, K!Reading, C!ReadFrame, K!ReadFrame,
                      C!ReadEnd, K!ReadEnd, C!ReadPauses, K!ReadPauses,
                      C!SocketEnd, K!SocketEnd

LEMMA SameHandlePing == C!HandlePing <=> K!HandlePing
BY SameTransition DEF C!HandlePing, K!HandlePing

LEMMA SameHandleChallenge == C!HandleChallenge <=> K!HandleChallenge
BY SameTransition DEF C!HandleChallenge, K!HandleChallenge

LEMMA SameHandleChallengeAccepted == C!HandleChallengeAccepted <=> K!HandleChallengeAccepted
BY SameTransition DEF C!HandleChallengeAccepted, K!HandleChallengeAccepted

LEMMA SameHandleRedirect == C!HandleRedirect <=> K!HandleRedirect
BY SameTransition DEF C!HandleRedirect, K!HandleRedirect

LEMMA SameHandleReject == C!HandleReject <=> K!HandleReject
BY SameTransition DEF C!HandleReject, K!HandleReject

LEMMA SameHandleAuthError == C!HandleAuthError <=> K!HandleAuthError
BY SameTransition DEF C!HandleAuthError, K!HandleAuthError

LEMMA SameHandleAuthAck == C!HandleAuthAck <=> K!HandleAuthAck
BY SameTransition DEF C!HandleAuthAck, K!HandleAuthAck

LEMMA SameHandleApp == C!HandleApp <=> K!HandleApp
BY SameTransition DEF C!HandleApp, K!HandleApp

LEMMA SameOnMessageReturns == C!OnMessageReturns <=> K!OnMessageReturns
BY SameTransition DEF C!OnMessageReturns, K!OnMessageReturns

LEMMA SameReturns == C!Returns <=> K!Returns
BY SameTransition DEF C!Returns, K!Returns,
                      C!ConstructorReturns, K!ConstructorReturns,
                      C!LoginCallbackReturns, K!LoginCallbackReturns,
                      C!CallbacksReturn, K!CallbacksReturn

LEMMA SamePeer == C!Peer <=> K!Peer
BY SameTransition DEF C!Peer, K!Peer, C!ServerAnswers, K!ServerAnswers,
                      C!LinkUp, K!LinkUp, C!ServerReceives, K!ServerReceives,
                      C!ServerAnswersChallenge, K!ServerAnswersChallenge,
                      C!ServerAnswersLogin, K!ServerAnswersLogin,
                      C!ServerConsumes, K!ServerConsumes,
                      C!ServerSends, K!ServerSends, C!LinkEnds, K!LinkEnds,
                      C!SocketEnd, K!SocketEnd

HIDE DEF C!ConnectionState, K!ConnectionState,
         C!ChallengeReply, K!ChallengeReply, C!AuthError, K!AuthError,
         C!Verdict, K!Verdict, C!ServerHandshake, K!ServerHandshake,
         C!ClientHandshake, K!ClientHandshake, C!FromServer, K!FromServer,
         C!FromClient, K!FromClient, C!socketVars, K!socketVars,
         C!clientVars, K!clientVars, C!stackVars, K!stackVars,
         C!DropSocket, K!DropSocket, C!SocketOpens, K!SocketOpens,
         C!SocketFailsToOpen, K!SocketFailsToOpen, C!SocketSends, K!SocketSends,
         C!SocketFailsToSend, K!SocketFailsToSend,
         C!SocketCloses, K!SocketCloses, C!SocketReads, K!SocketReads,
         C!SocketReadsEnd, K!SocketReadsEnd, C!MaxAttempts, K!MaxAttempts,
         C!InFlight, K!InFlight, C!GiveUpOrReopen, K!GiveUpOrReopen,
         C!on_close, K!on_close, C!SendSucceeds, K!SendSucceeds,
         C!SendFails, K!SendFails, C!SendIn, K!SendIn,
         C!CloseSocket, K!CloseSocket, C!Unwind, K!Unwind,
         C!NoSocketUse, K!NoSocketUse, C!Running, K!Running,
         C!UserRuns, K!UserRuns, C!AfterRead, K!AfterRead,
         C!Upcoming, K!Upcoming, C!Receive, K!Receive, C!Continue, K!Continue,
         C!FinishAuth, K!FinishAuth

LEMMA SameNext == C!Next <=> K!Next
BY SameOpening, SameProcessMessages, SameUser, SameReading, SameHandlePing,
   SameHandleChallenge, SameHandleChallengeAccepted, SameHandleRedirect,
   SameHandleReject, SameHandleAuthError, SameHandleAuthAck, SameHandleApp,
   SameOnMessageReturns, SameReturns, SamePeer
   DEF C!Next, K!Next, C!Dispatching, K!Dispatching

LEMMA SameVars == (UNCHANGED C!vars <=> UNCHANGED K!vars) /\ (C!Init <=> K!Init)
BY DEF C!vars, K!vars, C!socketVars, K!socketVars, C!clientVars, K!clientVars,
       C!stackVars, K!stackVars, C!Init, K!Init, C!SocketInit, K!SocketInit

LEMMA ConnectionAssumptions ==
    /\ Replies \subseteq K!ChallengeReply /\ Verdicts \subseteq K!Verdict
    /\ Callbacks \subseteq {"fn", "empty"} /\ Throwing \subseteq {"event_cb", "login_cb"}
    /\ Secure \in BOOLEAN /\ MaxInFlight \in Nat
BY ConnectionAssumption
   DEF C!ChallengeReply, K!ChallengeReply, C!Verdict, K!Verdict, C!AuthError, K!AuthError

-----------------------------------------------------------------------------
\* What is always true of the connection below.

ConnInv ==
    /\ K!TypeOK
    /\ K!DownForAReason
    /\ ws = "OPEN" /\ ~opening => srv # "none"
    /\ pc = "read" => ~stale /\ ~opening
    /\ pc \in {"ctor", "app"} => batch = <<>>

LEMMA SendInServer ==
    ASSUME NEW s, NEW m, C!SendIn(s, m), ws = "OPEN" /\ ~opening => srv # "none"
    PROVE  ws' = "OPEN" /\ ~opening' => srv' # "none"
BY DEF C!SendIn, C!SendSucceeds, C!SendFails, C!SocketSends, C!SocketFailsToSend,
       C!on_close, C!GiveUpOrReopen, C!DropSocket

LEMMA ConnInvStep ==
    ASSUME ConnInv, [C!Next]_(C!vars) PROVE ConnInv'
<1> DEFINE Rest ==
    /\ ws = "OPEN" /\ ~opening => srv # "none"
    /\ pc = "read" => ~stale /\ ~opening
    /\ pc \in {"ctor", "app"} => batch = <<>>
<1>0. Rest /\ K!TypeOK /\ K!DownForAReason
  BY DEF ConnInv
<1>1. K!TypeOK' /\ K!DownForAReason'
  BY <1>0, SameVars, SameNext, K!TypeStep, K!DownStep, ConnectionAssumptions
<1> USE DEF C!Running, C!NoSocketUse, C!socketVars, C!clientVars, C!Unwind, C!UserRuns
<1>2. CASE C!Opening
  BY <1>0, <1>1, <1>2 DEF C!Opening, C!OpenSucceeds, C!OpenFails, C!SocketOpens,
       C!SocketFailsToOpen, C!DropSocket, C!on_close, C!GiveUpOrReopen, ConnInv
<1>3. CASE C!User
  <2>1. ASSUME NEW callback \in Callbacks, C!Login(callback) PROVE Rest'
    BY <1>0, <2>1, SendInServer DEF C!Login
  <2>2. ASSUME C!Close PROVE Rest'
    BY <1>0, <2>2 DEF C!Close, C!CloseSocket, C!SocketCloses, C!DropSocket
  <2>3. ASSUME NEW ok \in BOOLEAN, C!SendApp(ok) PROVE Rest'
    <3>1. C!SendIn(state, "APP") /\ UNCHANGED <<pc, batch>> /\ pc # "read"
      BY <2>3 DEF C!SendApp, C!SendIn
    <3> QED BY <1>0, <3>1, SendInServer
  <2>4. ASSUME C!CallbackThrows PROVE Rest'
    BY <1>0, <2>4 DEF C!CallbackThrows
  <2> QED BY <1>1, <1>3, <2>1, <2>2, <2>3, <2>4 DEF C!User, ConnInv
<1>4. CASE C!ProcessMessages
  BY <1>0, <1>1, <1>4 DEF C!ProcessMessages, ConnInv
<1>5. CASE C!Reading
  <2>1. ASSUME NEW m, C!ReadFrame(m) PROVE Rest'
    BY <1>0, <2>1 DEF C!ReadFrame, C!SocketReads
  <2>2. ASSUME C!ReadEnd PROVE Rest'
    BY <1>0, <2>2 DEF C!ReadEnd, C!SocketReadsEnd, C!DropSocket, C!AfterRead, C!on_close,
       C!GiveUpOrReopen
  <2>3. ASSUME C!ReadPauses PROVE Rest'
    BY <1>0, <2>3 DEF C!ReadPauses, C!AfterRead
  <2> QED BY <1>1, <1>5, <2>1, <2>2, <2>3 DEF C!Reading, ConnInv
<1>6. CASE C!Dispatching
  <2> USE DEF C!Receive, C!Upcoming, C!Continue
  <2>1. ASSUME C!HandlePing PROVE Rest'
    BY <1>0, <2>1, SendInServer DEF C!HandlePing
  <2>2. ASSUME C!HandleChallenge PROVE Rest'
    BY <1>0, <2>2, SendInServer DEF C!HandleChallenge
  <2>3. ASSUME C!HandleChallengeAccepted PROVE Rest'
    BY <1>0, <2>3, SendInServer DEF C!HandleChallengeAccepted
  <2>4. ASSUME C!HandleRedirect PROVE Rest'
    BY <1>0, <2>4 DEF C!HandleRedirect, C!DropSocket
  <2>5. ASSUME C!HandleReject \/ C!HandleApp \/ C!OnMessageReturns PROVE Rest'
    BY <1>0, <2>5 DEF C!HandleReject, C!HandleApp, C!OnMessageReturns
  <2>6. ASSUME C!HandleAuthError PROVE Rest'
    BY <1>0, <2>6 DEF C!HandleAuthError, C!CloseSocket, C!SocketCloses, C!DropSocket
  <2>7. ASSUME C!HandleAuthAck PROVE Rest'
    BY <1>0, <2>7 DEF C!HandleAuthAck, C!FinishAuth
  <2> QED BY <1>1, <1>6, <2>1, <2>2, <2>3, <2>4, <2>5, <2>6, <2>7 DEF C!Dispatching, ConnInv
<1>7. CASE C!Returns
  BY <1>0, <1>1, <1>7 DEF C!Returns, C!ConstructorReturns, C!LoginCallbackReturns,
     C!CallbacksReturn,
                    C!FinishAuth, ConnInv
<1>8. CASE C!Peer
  <2>1. UNCHANGED <<ws, opening, pc, batch, stale>>
    BY <1>8 DEF C!Peer, C!ServerAnswers, C!ServerSends, C!LinkEnds, C!stackVars,
       C!ServerAnswersChallenge, C!ServerAnswersLogin, C!ServerConsumes, C!ServerReceives
  <2>2. srv # "none" => srv' # "none"
    <3>1. CASE C!ServerAnswersChallenge
      <4>1. srv' \in {"ready", "redirected", "rejected"}
        <5>1. PICK r \in Replies : srv' = CASE r = "CA" -> "ready"
                    [] r = "RED" -> "redirected"
                    [] r = "REJ" -> "rejected"
          BY <3>1 DEF C!ServerAnswersChallenge
        <5> QED BY <5>1, ConnectionAssumptions DEF K!ChallengeReply
      <4> QED BY <4>1
    <3>2. CASE ~C!ServerAnswersChallenge
      BY <1>8, <3>2 DEF C!Peer, C!ServerAnswers, C!ServerSends, C!LinkEnds,
         C!ServerAnswersLogin, C!ServerConsumes, C!ServerReceives
    <3> QED BY <3>1, <3>2
  <2> QED BY <1>0, <1>1, <2>1, <2>2 DEF ConnInv
<1>9. CASE UNCHANGED C!vars
  BY <1>0, <1>1, <1>9 DEF C!vars, C!stackVars, ConnInv
<1> QED BY <1>2, <1>3, <1>4, <1>5, <1>6, <1>7, <1>8, <1>9 DEF C!Next

-----------------------------------------------------------------------------
\* The steps of Connection that carry no message of Event or Presence: Quiet.

LEMMA AppsProperties ==
    /\ Apps(<<>>) = 0
    /\ \A T : \A q \in Seq(T) :
        /\ Apps(q) \in Nat
        /\ \A m \in T : Apps(Append(q, m)) = Apps(q) + (IF m = "APP" THEN 1 ELSE 0)
        /\ q # <<>> => Apps(q) = Apps(Tail(q)) + (IF Head(q) = "APP" THEN 1 ELSE 0)
<1>1. Apps(<<>>) = 0
  BY CountEmpty, AppsCount
<1>2. ASSUME NEW T, NEW q \in Seq(T)
      PROVE  /\ Apps(q) \in Nat
             /\ \A m \in T : Apps(Append(q, m)) = Apps(q) + (IF m = "APP" THEN 1 ELSE 0)
             /\ q # <<>> => Apps(q) = Apps(Tail(q)) + (IF Head(q) = "APP" THEN 1 ELSE 0)
  BY CountAppend, CountTail, AppsCount, PlacesFinite
<1> QED BY <1>1, <1>2

QuietLink ==
    /\ Apps(toServer') <= Apps(toServer) /\ Apps(toClient') <= Apps(toClient)
    /\ \/ Apps(toServer') = Apps(toServer)
       \/ toServer' = <<>> /\ (srv' = "none" \/ opening)
    /\ srv' = "none" => srv = "none" \/ (toServer' = <<>> /\ toClient' = <<>> /\ stale')
    /\ stale' => stale \/ srv' = "none"

QuietBatch ==
    /\ batch' = <<>> \/ Apps(batch') = Apps(batch)
    /\ stale /\ ~stale' => batch' = <<>>

\* What Connection does without a message of Event or Presence.
Quiet == QuietLink /\ QuietBatch /\ (Online /\ ~Online' => srv' = "none")

LEMMA Types ==
    ASSUME ConnInv
    PROVE  /\ toServer \in Seq(K!FromClient) /\ batch \in Seq(K!FromServer)
           /\ toClient \in Seq(K!FromServer \cup K!SocketEnd)
           /\ Apps(toServer) \in Nat /\ Apps(toClient) \in Nat /\ Apps(batch) \in Nat
<1>1. /\ toServer \in Seq(K!FromClient) /\ batch \in Seq(K!FromServer)
      /\ toClient \in Seq(K!FromServer \cup K!SocketEnd)
  BY DEF ConnInv, K!TypeOK, K!SocketTypeOK
<1> QED BY <1>1, AppsProperties

LEMMA LostQuiet ==
    ASSUME ConnInv, toServer' = <<>>, toClient' = <<>>, srv' = "none", stale'
    PROVE  QuietLink
BY Types, AppsProperties DEF QuietLink

LEMMA SendInQuiet ==
    ASSUME ConnInv, NEW s, NEW m \in {"CHR", "REQ", "PO"}, C!SendIn(s, m)
    PROVE  /\ QuietLink
           /\ stale => stale'
           /\ srv' = "none" \/ (state' = s /\ opening' = opening)
<1>1. CASE C!SendSucceeds(s, m)
  <2>1. toServer' = Append(toServer, m) /\ m \in K!FromClient
    BY <1>1 DEF C!SendSucceeds, C!SocketSends, K!FromClient, K!ClientHandshake
  <2>2. Apps(toServer') = Apps(toServer)
    BY <2>1, Types, AppsProperties
  <2>3. Apps(toClient') = Apps(toClient)
    BY <1>1 DEF C!SendSucceeds, C!SocketSends
  <2> QED BY <1>1, <2>2, <2>3, Types DEF C!SendSucceeds, C!SocketSends, QuietLink
<1>2. CASE C!SendFails
  BY <1>2, LostQuiet DEF C!SendFails, C!SocketFailsToSend, C!DropSocket, C!on_close,
     C!GiveUpOrReopen
<1> QED BY <1>1, <1>2 DEF C!SendIn

\* A message is handled that is not for Event or Presence.
LEMMA BatchQuiet ==
    ASSUME ConnInv, stale => stale',
           batch' \in {batch, <<>>} \/ (batch # <<>> /\ batch' = Tail(batch) /\ Head(batch) # "APP")
    PROVE  QuietBatch
<1>1. CASE batch' \in {batch, <<>>}
  BY <1>1 DEF QuietBatch
<1>2. CASE batch # <<>> /\ batch' = Tail(batch) /\ Head(batch) # "APP"
  <2>1. Apps(batch) = Apps(Tail(batch)) + 0 /\ Tail(batch) \in Seq(K!FromServer)
    BY <1>2, Types, AppsProperties, HeadTailProperties
  <2>2. Apps(Tail(batch)) \in Nat
    BY <2>1, AppsProperties
  <2> QED BY <1>2, <2>1, <2>2 DEF QuietBatch
<1> QED BY <1>1, <1>2

LEMMA NothingQuiet ==
    ASSUME ConnInv, UNCHANGED <<toServer, toClient, srv, stale>> PROVE QuietLink
BY Types DEF QuietLink

LEMMA OpenStays ==
    /\ \A m : C!transition_incoming("OPEN", m) = "OPEN"
    /\ C!transition_outgoing("OPEN", "PO") = "OPEN"
BY DEF C!transition_incoming, C!transition_outgoing

LEMMA UserQuiet ==
    ASSUME ConnInv,
           \/ \E callback \in Callbacks : C!Login(callback)
           \/ C!Close \/ C!SendApp(FALSE) \/ C!CallbackThrows
    PROVE  Quiet
<1>1. ASSUME NEW callback \in Callbacks, C!Login(callback) PROVE Quiet
  BY <1>1, SendInQuiet, BatchQuiet, NothingQuiet
     DEF C!Login, Quiet, Online, C!NoSocketUse, C!socketVars
<1>2. ASSUME C!Close \/ C!SendApp(FALSE) PROVE Quiet
  BY <1>2, LostQuiet, BatchQuiet
     DEF C!Close, C!SendApp, C!CloseSocket, C!SocketCloses, C!SendFails,
        C!SocketFailsToSend, C!DropSocket,
         C!on_close, C!GiveUpOrReopen, Quiet
<1>3. ASSUME C!CallbackThrows PROVE Quiet
  BY <1>3, NothingQuiet, BatchQuiet
     DEF C!CallbackThrows, C!NoSocketUse, C!socketVars, C!Unwind, C!clientVars, Quiet,
        Online
<1> QED BY <1>1, <1>2, <1>3

LEMMA OwnQuiet ==
    ASSUME ConnInv,
           \/ C!Opening \/ C!ProcessMessages \/ C!Returns \/ C!ReadEnd \/ C!ReadPauses
           \/ \E m \in C!FromServer \ {"APP"} : C!ReadFrame(m)
    PROVE  Quiet
<1> USE DEF C!NoSocketUse, C!socketVars, C!clientVars, Quiet, Online
<1>1. ASSUME C!OpenSucceeds PROVE Quiet
  <2>1. <<"CH">> = Append(<<>>, "CH") /\ <<>> \in Seq({"CH"})
    BY EmptySeq
  <2>2. Apps(toClient') = 0 /\ Apps(toServer') = 0
    <3>1. toClient' = Append(<<>>, "CH") /\ toServer' = <<>>
      BY <1>1, <2>1 DEF C!OpenSucceeds, C!SocketOpens
    <3>2. Apps(<<>>) = 0
      BY AppsProperties
    <3>3. "CH" \in {"CH"} /\ "CH" # "APP"
      OBVIOUS
    <3>4. Apps(Append(<<>>, "CH")) = Apps(<<>>) + 0
      BY <2>1, <3>3, AppsProperties
    <3> QED BY <3>1, <3>2, <3>4
  <2>3. UNCHANGED <<batch, stale>> /\ opening /\ srv' = "challenged" /\ toServer' = <<>>
    BY <1>1 DEF C!OpenSucceeds, C!SocketOpens
  <2>4. QuietLink
    BY <2>2, <2>3, Types DEF QuietLink
  <2>5. QuietBatch
    BY <2>3 DEF QuietBatch
  <2> QED BY <2>3, <2>4, <2>5
<1>2. ASSUME C!OpenFails \/ C!ReadEnd PROVE Quiet
  BY <1>2, LostQuiet, BatchQuiet
     DEF C!OpenFails, C!SocketFailsToOpen, C!ReadEnd, C!SocketReadsEnd, C!DropSocket,
         C!on_close, C!GiveUpOrReopen
<1>3. ASSUME C!ProcessMessages PROVE Quiet
  BY <1>3, Types DEF C!ProcessMessages, QuietLink, QuietBatch, ConnInv, C!Running
<1>4. ASSUME C!Returns \/ C!ReadPauses PROVE Quiet
  BY <1>4, NothingQuiet, BatchQuiet, OpenStays
     DEF C!Returns, C!ConstructorReturns, C!LoginCallbackReturns, C!CallbacksReturn,
        C!FinishAuth,
         C!ReadPauses
<1>5. ASSUME NEW m \in C!FromServer \ {"APP"}, C!ReadFrame(m) PROVE Quiet
  <2>1. toClient # <<>> /\ Head(toClient) # "APP" /\ toClient' = Tail(toClient)
        /\ batch' = Append(batch, m) /\ UNCHANGED <<toServer, srv, stale, state, opening>>
    BY <1>5 DEF C!ReadFrame, C!SocketReads
  <2>2. m \in K!FromServer
    BY DEF C!FromServer, K!FromServer, C!ServerHandshake, K!ServerHandshake,
       C!ChallengeReply,
           K!ChallengeReply, C!Verdict, K!Verdict, C!AuthError, K!AuthError
  <2>3. Apps(toClient') = Apps(toClient) /\ Apps(batch') = Apps(batch)
    <3>1. m # "APP" /\ batch \in Seq(K!FromServer)
      BY Types
    <3>2. Apps(Append(batch, m)) = Apps(batch) + 0
      BY <2>2, <3>1, AppsProperties
    <3>3. /\ Apps(toClient) = Apps(Tail(toClient)) + 0
          /\ Tail(toClient) \in Seq(K!FromServer \cup K!SocketEnd)
      BY <2>1, Types, AppsProperties, HeadTailProperties
    <3>4. Apps(Tail(toClient)) \in Nat
      BY <3>3, AppsProperties
    <3> QED BY <2>1, <3>2, <3>3, <3>4, Types
  <2>4. QuietLink
    BY <2>1, <2>3, Types DEF QuietLink
  <2>5. QuietBatch
    BY <2>1, <2>3 DEF QuietBatch
  <2> QED BY <2>1, <2>4, <2>5
<1> QED BY <1>1, <1>2, <1>3, <1>4, <1>5 DEF C!Opening

LEMMA HandlersQuiet ==
    ASSUME ConnInv,
           \/ C!HandlePing \/ C!HandleChallenge \/ C!HandleChallengeAccepted
           \/ C!HandleRedirect \/ C!HandleReject \/ C!HandleAuthError \/ C!HandleAuthAck
           \/ C!OnMessageReturns
    PROVE  Quiet
<1> USE DEF C!NoSocketUse, C!socketVars, C!clientVars, C!Receive, C!Upcoming, C!Continue,
   C!Unwind,
            Quiet, Online
<1>1. ASSUME C!HandlePing PROVE Quiet
  <2>1. /\ C!transition_incoming(state, "PI") = state
        /\ state = "OPEN" => C!transition_outgoing(state, "PO") # "ERROR"
    BY DEF C!transition_incoming, C!transition_outgoing
  <2> QED BY <1>1, <2>1, SendInQuiet, NothingQuiet, BatchQuiet, OpenStays DEF C!HandlePing
<1>2. ASSUME C!HandleChallenge PROVE Quiet
  <2>1. C!transition_outgoing("OPEN", "CHR") = "ERROR"
    BY DEF C!transition_outgoing
  <2> QED BY <1>2, <2>1, SendInQuiet, NothingQuiet, BatchQuiet, OpenStays
             DEF C!HandleChallenge
<1>3. ASSUME C!HandleChallengeAccepted PROVE Quiet
  <2>1. C!transition_outgoing("OPEN", "REQ") = "ERROR"
    BY DEF C!transition_outgoing
  <2> QED BY <1>3, <2>1, SendInQuiet, NothingQuiet, BatchQuiet, OpenStays
             DEF C!HandleChallengeAccepted
<1>4. ASSUME C!HandleRedirect PROVE Quiet
  BY <1>4, LostQuiet, NothingQuiet, BatchQuiet, OpenStays DEF C!HandleRedirect, C!DropSocket
<1>5. ASSUME C!HandleReject \/ C!OnMessageReturns PROVE Quiet
  BY <1>5, NothingQuiet, BatchQuiet, OpenStays DEF C!HandleReject, C!OnMessageReturns
<1>6. ASSUME C!HandleAuthError PROVE Quiet
  <2>1. PICK m \in C!AuthError : C!Receive(m) /\ C!CloseSocket /\ C!Continue
    BY <1>6 DEF C!HandleAuthError
  <2>2. m # "APP"
    BY DEF C!AuthError
  <2> QED BY <2>1, <2>2, LostQuiet, BatchQuiet DEF C!CloseSocket, C!SocketCloses,
             C!DropSocket
<1>7. ASSUME C!HandleAuthAck PROVE Quiet
  BY <1>7, NothingQuiet, BatchQuiet, OpenStays DEF C!HandleAuthAck, C!FinishAuth
<1> QED BY <1>1, <1>2, <1>3, <1>4, <1>5, <1>6, <1>7

LEMMA PeerStaysUp ==
    ASSUME C!ServerAnswers \/ C!LinkEnds, srv # "none"
    PROVE  srv' # "none"
<1>1. CASE C!ServerAnswersChallenge
  <2>1. PICK r \in Replies : srv' = CASE r = "CA" -> "ready"
                                      [] r = "RED" -> "redirected"
                                      [] r = "REJ" -> "rejected"
    BY <1>1 DEF C!ServerAnswersChallenge
  <2> QED BY <2>1, ConnectionAssumptions DEF K!ChallengeReply
<1>2. CASE ~C!ServerAnswersChallenge
  BY <1>2 DEF C!ServerAnswers, C!LinkEnds, C!ServerAnswersLogin, C!ServerConsumes
<1> QED BY <1>1, <1>2

LEMMA PeerQuiet ==
    ASSUME ConnInv, C!LinkEnds \/ (C!ServerAnswers /\ Head(toServer) # "APP"),
           UNCHANGED <<state, opening, batch, stale>>
    PROVE  Quiet
<1>0. ASSUME Apps(toServer') = Apps(toServer), Apps(toClient') <= Apps(toClient), srv # "none"
      PROVE  Quiet
  <2>1. srv' # "none"
    BY <1>0, PeerStaysUp
  <2> QED BY <1>0, <2>1, Types DEF Quiet, QuietLink, QuietBatch, Online
<1>1. CASE C!LinkEnds
  <2>1. PICK n \in 0 .. Len(toClient), end \in C!SocketEnd :
            toClient' = Append(SubSeq(toClient, 1, n), end)
    BY <1>1 DEF C!LinkEnds
  <2>2. end \in K!FromServer \cup K!SocketEnd /\ end # "APP"
    BY DEF C!SocketEnd, K!SocketEnd
  <2>3. n \in Nat /\ n <= Len(toClient)
    BY Types, LenProperties
  <2>4. /\ SubSeq(toClient, 1, n) \in Seq(K!FromServer \cup K!SocketEnd)
        /\ Apps(SubSeq(toClient, 1, n)) <= Apps(toClient)
    BY <2>3, Types, CountPrefix, AppsCount
  <2>5. Apps(Append(SubSeq(toClient, 1, n), end)) = Apps(SubSeq(toClient, 1, n)) + 0
    BY <2>2, <2>4, AppsProperties
  <2>6. Apps(SubSeq(toClient, 1, n)) \in Nat
    BY <2>4, AppsProperties
  <2>7. Apps(toClient') <= Apps(toClient)
    BY <2>1, <2>4, <2>5, <2>6
  <2>8. toServer' = toServer /\ srv # "none"
    BY <1>1 DEF C!LinkEnds, C!LinkUp
  <2> QED BY <1>0, <2>7, <2>8, Types
<1>2. CASE C!ServerAnswers /\ Head(toServer) # "APP"
  <2>1. \E m : C!ServerReceives(m)
    BY <1>2 DEF C!ServerAnswers, C!ServerAnswersChallenge, C!ServerAnswersLogin,
       C!ServerConsumes
  <2>2. /\ toServer # <<>> /\ toServer' = Tail(toServer) /\ srv # "none"
    BY <2>1 DEF C!ServerReceives, C!LinkUp
  <2>3. Apps(toServer) = Apps(Tail(toServer)) + 0 /\ Tail(toServer) \in Seq(K!FromClient)
    BY <1>2, <2>2, Types, AppsProperties, HeadTailProperties
  <2>4. Apps(Tail(toServer)) \in Nat
    BY <2>3, AppsProperties
  <2>5. toClient' = toClient \/ \E m \in Replies \cup Verdicts : toClient' = Append(toClient, m)
    BY <1>2 DEF C!ServerAnswers, C!ServerAnswersChallenge, C!ServerAnswersLogin,
       C!ServerConsumes
  <2>6. ASSUME NEW m \in Replies \cup Verdicts PROVE Apps(Append(toClient, m)) = Apps(toClient) + 0
    <3>1. m \in K!FromServer \cup K!SocketEnd /\ m # "APP"
      BY ConnectionAssumptions DEF K!FromServer, K!ServerHandshake, K!ChallengeReply,
         K!Verdict, K!AuthError
    <3> QED BY <3>1, Types, AppsProperties
  <2>7. Apps(toClient') <= Apps(toClient)
    <3>1. CASE toClient' = toClient
      BY <3>1, Types
    <3>2. CASE \E m \in Replies \cup Verdicts : toClient' = Append(toClient, m)
      <4>1. PICK m \in Replies \cup Verdicts : toClient' = Append(toClient, m)
        BY <3>2
      <4>2. Apps(toClient') = Apps(toClient) + 0
        BY <2>6, <4>1
      <4> QED BY <4>2, Types
    <3> QED BY <2>5, <3>1, <3>2
  <2>8. Apps(toServer') = Apps(toServer)
    BY <2>2, <2>3, <2>4
  <2> QED BY <1>0, <2>2, <2>7, <2>8
<1> QED BY <1>1, <1>2

-----------------------------------------------------------------------------
\* The answers that may still come, and what a quiet step does to them.

Query == {Msg("QUERY", "-")}
Answers == {Msg("ANSWER", "-")}

WireTypeOK ==
    /\ uplink \in Seq(ToServer) /\ Len(uplink) = Apps(toServer)
    /\ downlink \in Seq(ToClient) /\ Len(downlink) = Apps(toClient)
    /\ inbox \in Seq(ToClient) /\ Len(inbox) = Apps(batch)
    /\ told \in View /\ known \in View /\ late \in Nat

InFlightQueries == Count(downlink, Answers) + known.queries + Count(uplink, Query)

\* The answers that can still come were asked for, on this connection or, if the
\* batch is stale, before.
AnswersCounted ==
    /\ ~Online => told = Nothing
    /\ stale => Count(inbox, Answers) <= late /\ InFlightQueries <= told.queries
    /\ ~stale => Count(inbox, Answers) + InFlightQueries <= told.queries

WireInv == WireTypeOK /\ AnswersCounted

LEMMA OnlineUp ==
    /\ ConnInv /\ Online => srv # "none"
    /\ ConnInv' /\ Online' => srv' # "none"
BY DEF ConnInv, K!DownForAReason, K!TypeOK, K!SocketTypeOK, Online

LEMMA AppsLater ==
    ASSUME ConnInv'
    PROVE  Apps(toServer') \in Nat /\ Apps(toClient') \in Nat /\ Apps(batch') \in Nat
<1>1. /\ toServer' \in Seq(K!FromClient) /\ batch' \in Seq(K!FromServer)
      /\ toClient' \in Seq(K!FromServer \cup K!SocketEnd)
  BY DEF ConnInv, K!TypeOK, K!SocketTypeOK
<1> QED BY <1>1, AppsProperties

LEMMA NothingView == Nothing \in View /\ Nothing.queries = 0
BY DEF Nothing, View

\* What becomes of the link of Presence.
LinkStep ==
    \/ /\ Online' <=> Online
       /\ PresenceSession' = PresenceSession /\ late' = late
    \/ /\ Online /\ ~Online'
       /\ PresenceSession' = P!NoSession /\ late' = late + PresenceSession.queries
    \/ /\ ~Online /\ Online'
       /\ PresenceSession' = PresenceSession /\ late' = late

LEMMA WireCounts ==
    ASSUME WireTypeOK
    PROVE  /\ Count(uplink, Query) \in Nat /\ Count(downlink, Answers) \in Nat
           /\ Count(inbox, Answers) \in Nat /\ known.queries \in Nat /\ told.queries \in Nat
           /\ InFlightQueries \in Nat
<1>1. /\ Count(uplink, Query) \in Nat /\ Count(downlink, Answers) \in Nat
      /\ Count(inbox, Answers) \in Nat
  BY PlacesFinite DEF WireTypeOK
<1>2. known.queries \in Nat /\ told.queries \in Nat
  BY DEF WireTypeOK, View
<1> QED BY <1>1, <1>2 DEF InFlightQueries

LEMMA QuietWire ==
    ASSUME ConnInv, ConnInv', WireInv, Quiet, WireFollows
    PROVE  WireInv' /\ LinkStep
<1>0. WireTypeOK /\ AnswersCounted
  BY DEF WireInv
<1> DEFINE up == Count(uplink', Query)
           down == Count(downlink', Answers)
           in == Count(inbox', Answers)
<1>1. /\ uplink' \in Seq(ToServer) /\ Len(uplink') = Apps(toServer')
      /\ up \in Nat /\ up <= Count(uplink, Query)
      /\ downlink' \in Seq(ToClient) /\ Len(downlink') = Apps(toClient')
      /\ down \in Nat /\ down <= Count(downlink, Answers)
  <2>1. /\ Apps(toServer') <= Len(uplink) /\ uplink' = SubSeq(uplink, 1, Apps(toServer'))
        /\ Apps(toClient') <= Len(downlink) /\ downlink' = SubSeq(downlink, 1, Apps(toClient'))
    BY <1>0 DEF WireTypeOK, Quiet, QuietLink, WireFollows
  <2>2. uplink' \in Seq(ToServer) /\ Len(uplink') = Apps(toServer') /\ up <= Count(uplink, Query)
    BY <1>0, <2>1, AppsLater, CountPrefix DEF WireTypeOK
  <2>3. downlink' \in Seq(ToClient) /\ Len(downlink') = Apps(toClient') /\ down <= Count(downlink, Answers)
    BY <1>0, <2>1, AppsLater, CountPrefix DEF WireTypeOK
  <2> QED BY <2>2, <2>3, PlacesFinite
<1>2. /\ inbox' \in Seq(ToClient) /\ Len(inbox') = Apps(batch')
      /\ in \in Nat /\ in <= Count(inbox, Answers)
      /\ batch' = <<>> => in = 0
  <2>1. CASE batch' = <<>>
    <3>1. inbox' = <<>> /\ <<>> \in Seq(ToClient) /\ Len(<<>>) = 0
      BY <2>1, EmptySeq DEF WireFollows
    <3> QED BY <1>0, <2>1, <3>1, CountEmpty, AppsProperties, WireCounts
  <2>2. CASE batch' # <<>>
    <3>1. inbox' = inbox /\ Apps(batch') = Apps(batch)
      BY <2>2 DEF WireFollows, Quiet, QuietBatch
    <3> QED BY <1>0, <2>2, <3>1, WireCounts DEF WireTypeOK
  <2> QED BY <2>1, <2>2
<1> HIDE DEF up, down, in
<1>3. CASE srv' = "none"
  <2>1. /\ told' = Nothing /\ known' = Nothing /\ late' = late + told.queries /\ ~Online'
    BY <1>3, OnlineUp DEF WireFollows
  <2>2. told.queries \in Nat /\ late \in Nat
    BY <1>0, WireCounts DEF WireTypeOK
  <2>3. WireTypeOK'
    BY <1>1, <1>2, <2>1, <2>2, NothingView DEF WireTypeOK
  <2>4. down = 0 /\ up = 0
    <3>1. CASE srv = "none"
      <4>1. told = Nothing
        BY <1>0, <3>1, OnlineUp DEF AnswersCounted
      <4> QED BY <1>0, <1>1, <4>1, NothingView, WireCounts DEF AnswersCounted,
                 InFlightQueries
    <3>2. CASE srv # "none"
      <4>1. toServer' = <<>> /\ toClient' = <<>>
        BY <1>3, <3>2 DEF Quiet, QuietLink
      <4>2. Len(uplink') = 0 /\ Len(downlink') = 0
        BY <1>1, <4>1, AppsProperties
      <4>3. uplink' = <<>> /\ downlink' = <<>>
        BY <1>1, <4>2, EmptySeq
      <4> QED BY <4>3, CountEmpty DEF up, down
    <3> QED BY <3>1, <3>2
  <2>5. InFlightQueries' = 0
    BY <2>1, <2>4, NothingView DEF InFlightQueries, up, down
  <2>6. stale' => in <= late'
    BY <1>0, <1>2, <2>1, <2>2, WireCounts DEF AnswersCounted
  <2>7. ~stale' => in = 0
    <3>1. CASE stale
      BY <1>2, <3>1 DEF Quiet, QuietBatch
    <3>2. CASE ~stale
      <4>1. ASSUME ~stale' PROVE told = Nothing
        <5>1. srv = "none"
          BY <1>3, <4>1 DEF Quiet, QuietLink
        <5> QED BY <1>0, <5>1, OnlineUp DEF AnswersCounted
      <4> QED BY <1>0, <1>2, <3>2, <4>1, NothingView, WireCounts DEF AnswersCounted
    <3> QED BY <3>1, <3>2
  <2>8. AnswersCounted'
    BY <2>1, <2>5, <2>6, <2>7, NothingView DEF AnswersCounted, in
  <2>9. LinkStep
    <3>1. CASE Online
      BY <2>1, <3>1 DEF LinkStep, PresenceSession, P!NoSession
    <3>2. CASE ~Online
      <4>1. late' = late
        BY <1>0, <2>1, <2>2, <3>2, NothingView DEF AnswersCounted
      <4> QED BY <2>1, <3>2, <4>1 DEF LinkStep, PresenceSession
    <3> QED BY <3>1, <3>2
  <2> QED BY <2>3, <2>8, <2>9 DEF WireInv
<1>4. CASE srv' # "none"
  <2>1. told' = told /\ known' = known /\ late' = late
    BY <1>4 DEF WireFollows
  <2>2. Online => Online'
    BY <1>4 DEF Quiet
  <2>3. WireTypeOK'
    BY <1>0, <1>1, <1>2, <2>1 DEF WireTypeOK
  <2>4. InFlightQueries' <= InFlightQueries
    BY <1>0, <1>1, <2>1, WireCounts DEF InFlightQueries, up, down
  <2>5. InFlightQueries' \in Nat
    BY <1>0, <1>1, <2>1, WireCounts DEF InFlightQueries, up, down
  <2>6. stale' => stale
    BY <1>4 DEF Quiet, QuietLink
  <2>7. stale /\ ~stale' => in = 0
    BY <1>2 DEF Quiet, QuietBatch
  <2>8. AnswersCounted'
    <3>1. ~Online' => told' = Nothing
      BY <1>0, <2>1, <2>2 DEF AnswersCounted
    <3>2. stale' => in <= late' /\ InFlightQueries' <= told'.queries
      BY <1>0, <1>2, <2>1, <2>4, <2>5, <2>6, WireCounts DEF AnswersCounted, WireTypeOK
    <3>3. ~stale' => in + InFlightQueries' <= told'.queries
      BY <1>0, <1>2, <2>1, <2>4, <2>5, <2>7, WireCounts DEF AnswersCounted
    <3> QED BY <3>1, <3>2, <3>3 DEF AnswersCounted, in
  <2>9. LinkStep
    <3>1. CASE Online
      BY <2>1, <2>2, <3>1 DEF LinkStep, PresenceSession
    <3>2. CASE ~Online
      <4>1. told = Nothing
        BY <1>0, <3>2 DEF AnswersCounted
      <4>2. PresenceSession' = PresenceSession
        BY <2>1, <3>2, <4>1 DEF PresenceSession, Nothing
      <4> QED BY <2>1, <3>2, <4>2 DEF LinkStep
    <3> QED BY <3>1, <3>2
  <2> QED BY <2>3, <2>8, <2>9 DEF WireInv
<1> QED BY <1>3, <1>4

-----------------------------------------------------------------------------
\* What the messages of Event and Presence do: written, read and handed over, ...

LEMMA SubscribedSet ==
    ASSUME NEW view \in View, NEW b \in BOOLEAN
    PROVE  /\ [view EXCEPT !.subscribed = b] \in View
           /\ [view EXCEPT !.subscribed = b].queries = view.queries
           /\ [view EXCEPT !.subscribed = b].subscribed = b
BY DEF View

LEMMA LearnProperties ==
    ASSUME NEW view \in View, NEW m \in ToServer
    PROVE  /\ Learn(view, m) \in View
           /\ Learn(view, m).queries = view.queries + (IF m \in Query THEN 1 ELSE 0)
           /\ m.act = "U|S" => Learn(view, m).subscribed = TRUE
           /\ m.act = "U|US" => Learn(view, m).subscribed = FALSE
           /\ m.act \notin {"U|S", "U|US"} => Learn(view, m).subscribed = view.subscribed
<1>1. CASE m.act = "SUBSCRIBE"
  <2>1. Learn(view, m) = [view EXCEPT !.subs = @ \cup {m.what}] /\ m.what \in Names
    BY <1>1 DEF ToServer, Learn
  <2> QED BY <1>1, <2>1 DEF View, Query, Msg
<1>2. CASE m.act = "UNSUBSCRIBE"
  <2>1. Learn(view, m) = [view EXCEPT !.subs = @ \ {m.what}]
    BY <1>2 DEF Learn
  <2> QED BY <1>2, <2>1 DEF View, Query, Msg
<1>3. CASE m.act = "LISTEN"
  <2>1. Learn(view, m) = [view EXCEPT !.listens = @ \cup {m.what}] /\ m.what \in Patterns
    BY <1>3 DEF ToServer, Learn
  <2> QED BY <1>3, <2>1 DEF View, Query, Msg
<1>4. CASE m.act = "U|S"
  <2>1. Learn(view, m) = [view EXCEPT !.subscribed = TRUE]
    BY <1>4 DEF Learn
  <2>2. m \notin Query
    BY <1>4 DEF Query, Msg
  <2>3. /\ Learn(view, m) \in View /\ Learn(view, m).queries = view.queries
        /\ Learn(view, m).subscribed = TRUE
    BY <2>1, SubscribedSet
  <2>4. view.queries + 0 = view.queries
    BY DEF View
  <2> QED BY <1>4, <2>2, <2>3, <2>4
<1>5. CASE m.act = "U|US"
  <2>1. Learn(view, m) = [view EXCEPT !.subscribed = FALSE]
    BY <1>5 DEF Learn
  <2>2. m \notin Query
    BY <1>5 DEF Query, Msg
  <2>3. /\ Learn(view, m) \in View /\ Learn(view, m).queries = view.queries
        /\ Learn(view, m).subscribed = FALSE
    BY <2>1, SubscribedSet
  <2>4. view.queries + 0 = view.queries
    BY DEF View
  <2> QED BY <1>5, <2>2, <2>3, <2>4
<1>6. CASE m.act = "QUERY"
  <2>1. Learn(view, m) = [view EXCEPT !.queries = @ + 1] /\ m = Msg("QUERY", "-")
    BY <1>6 DEF ToServer, Msg, Learn
  <2>2. m \in Query
    BY <2>1 DEF Query
  <2>3. /\ Learn(view, m) \in View /\ Learn(view, m).queries = view.queries + 1
        /\ Learn(view, m).subscribed = view.subscribed
    BY <2>1 DEF View
  <2>4. m.act # "U|S" /\ m.act # "U|US"
    BY <1>6
  <2> QED BY <2>2, <2>3, <2>4
<1>7. CASE m.act \in {"EVENT", "LISTEN_ANSWER"}
  <2>1. Learn(view, m) = view
    BY <1>7 DEF Learn
  <2>2. m \notin Query /\ m.act \notin {"U|S", "U|US"}
    BY <1>7 DEF Query, Msg
  <2>3. view.queries + 0 = view.queries
    BY DEF View
  <2> QED BY <2>1, <2>2, <2>3
<1>8. m.act \in {"SUBSCRIBE", "UNSUBSCRIBE", "LISTEN", "U|S", "U|US", "QUERY", "EVENT", "LISTEN_ANSWER"}
  BY DEF ToServer
<1> QED BY <1>1, <1>2, <1>3, <1>4, <1>5, <1>6, <1>7, <1>8

\* Nothing happens on the wire.
LEMMA StillWire ==
    ASSUME WireInv, UNCHANGED <<connVars, wireVars>>
    PROVE  WireInv' /\ LinkStep
<1>1. /\ UNCHANGED <<uplink, downlink, inbox, told, known, late, toServer, toClient, batch>>
      /\ UNCHANGED <<state, opening, stale>>
  BY DEF connVars, wireVars
<1> QED BY <1>1 DEF WireInv, WireTypeOK, AnswersCounted, InFlightQueries, LinkStep, Online,
                    PresenceSession

\* A message is written.
LEMMA OkSend ==
    ASSUME ConnInv, WireInv, NEW m \in ToServer, C!SendApp(TRUE),
           uplink' = Append(uplink, m), told' = Learn(told, m),
           UNCHANGED <<downlink, inbox, known, late>>
    PROVE  /\ WireInv' /\ Online /\ Online'
           /\ PresenceSession' = [subscribed |-> Learn(told, m).subscribed,
                                  queries |-> Learn(told, m).queries]
<1>0. WireTypeOK /\ AnswersCounted
  BY DEF WireInv
<1>1. /\ toServer' = Append(toServer, "APP")
      /\ UNCHANGED <<toClient, batch, state, opening, stale>> /\ state = "OPEN"
    BY DEF C!SendApp, C!SendSucceeds, C!SocketSends
<1>2. Online /\ Online'
  BY <1>1 DEF C!SendApp, C!UserRuns, C!Running, Online
<1>3. Apps(toServer') = Apps(toServer) + 1
  <2>1. "APP" \in K!FromClient
    BY DEF K!FromClient
  <2>2. Apps(Append(toServer, "APP")) = Apps(toServer) + 1
    BY <2>1, Types, AppsProperties
  <2> QED BY <1>1, <2>2
<1>4. /\ uplink' \in Seq(ToServer) /\ Len(uplink') = Len(uplink) + 1
      /\ Count(uplink', Query) = Count(uplink, Query) + (IF m \in Query THEN 1 ELSE 0)
  BY <1>0, AppendProperties, CountAppend DEF WireTypeOK
<1>5. told' \in View /\ told'.queries = told.queries + (IF m \in Query THEN 1 ELSE 0)
  BY <1>0, LearnProperties DEF WireTypeOK
<1>6. WireTypeOK'
  BY <1>0, <1>1, <1>3, <1>4, <1>5, Types DEF WireTypeOK
<1>7. InFlightQueries' = InFlightQueries + (IF m \in Query THEN 1 ELSE 0)
  BY <1>0, <1>4, WireCounts DEF InFlightQueries
<1>8. AnswersCounted'
  BY <1>0, <1>1, <1>2, <1>5, <1>7, WireCounts DEF AnswersCounted
<1> QED BY <1>2, <1>6, <1>8 DEF WireInv, PresenceSession

\* A message is read.
LEMMA ReadAppWire ==
    ASSUME ConnInv, WireInv, ReadApp
    PROVE  WireInv' /\ LinkStep
<1>0. WireTypeOK /\ AnswersCounted
  BY DEF WireInv
<1>1. /\ toClient # <<>> /\ Head(toClient) = "APP" /\ toClient' = Tail(toClient)
      /\ batch' = Append(batch, "APP") /\ ~stale
      /\ UNCHANGED <<toServer, state, opening, stale>>
      /\ inbox' = Append(inbox, Head(downlink)) /\ downlink' = Tail(downlink)
      /\ UNCHANGED <<uplink, told, known, late>>
  BY DEF ReadApp, C!ReadFrame, C!SocketReads, C!Running, ConnInv, C!clientVars
<1>2. /\ Apps(toClient) = Apps(toClient') + 1 /\ Apps(toClient') \in Nat
      /\ Apps(batch') = Apps(batch) + 1
  <2>1. "APP" \in K!FromServer
    BY DEF K!FromServer
  <2>2. Apps(Append(batch, "APP")) = Apps(batch) + 1
    BY <2>1, Types, AppsProperties
  <2>3. /\ Apps(toClient) = Apps(Tail(toClient)) + 1
        /\ Tail(toClient) \in Seq(K!FromServer \cup K!SocketEnd)
    BY <1>1, Types, AppsProperties, HeadTailProperties
  <2>4. Apps(Tail(toClient)) \in Nat
    BY <2>3, AppsProperties
  <2> QED BY <1>1, <2>2, <2>3, <2>4
<1>3. downlink # <<>>
  <2>1. Len(downlink) # 0
    BY <1>0, <1>2 DEF WireTypeOK
  <2> QED BY <2>1, EmptySeq
<1>4. /\ Head(downlink) \in ToClient /\ downlink' \in Seq(ToClient)
      /\ Len(downlink') = Len(downlink) - 1
      /\ Count(downlink, Answers)
           = Count(downlink', Answers) + (IF Head(downlink) \in Answers THEN 1 ELSE 0)
  BY <1>0, <1>1, <1>3, HeadTailProperties, CountTail DEF WireTypeOK
<1>5. /\ inbox' \in Seq(ToClient) /\ Len(inbox') = Len(inbox) + 1
      /\ Count(inbox', Answers)
           = Count(inbox, Answers) + (IF Head(downlink) \in Answers THEN 1 ELSE 0)
  BY <1>0, <1>1, <1>4, AppendProperties, CountAppend DEF WireTypeOK
<1>6. WireTypeOK'
  BY <1>0, <1>1, <1>2, <1>4, <1>5, Types DEF WireTypeOK
<1>7. Count(downlink', Answers) \in Nat
  BY <1>4, PlacesFinite
<1>8. Count(inbox', Answers) + InFlightQueries' = Count(inbox, Answers) + InFlightQueries
  <2>1. InFlightQueries' = Count(downlink', Answers) + known.queries + Count(uplink, Query)
    BY <1>1 DEF InFlightQueries
  <2>2. InFlightQueries = Count(downlink, Answers) + known.queries + Count(uplink, Query)
    BY DEF InFlightQueries
  <2>3. /\ Count(inbox, Answers) \in Nat /\ known.queries \in Nat
        /\ Count(uplink, Query) \in Nat
    BY <1>0, WireCounts
  <2>4. CASE Head(downlink) \in Answers
    <3>1. /\ Count(downlink, Answers) = Count(downlink', Answers) + 1
          /\ Count(inbox', Answers) = Count(inbox, Answers) + 1
      BY <1>4, <1>5, <2>4
    <3> QED BY <1>7, <2>1, <2>2, <2>3, <3>1
  <2>5. CASE Head(downlink) \notin Answers
    <3>1. /\ Count(downlink, Answers) = Count(downlink', Answers) + 0
          /\ Count(inbox', Answers) = Count(inbox, Answers) + 0
      BY <1>4, <1>5, <2>5
    <3> QED BY <1>7, <2>1, <2>2, <2>3, <3>1
  <2> QED BY <2>4, <2>5
<1>9. AnswersCounted'
  <2>1. (Online' <=> Online) /\ ~stale'
    BY <1>1 DEF Online
  <2> QED BY <1>0, <1>1, <1>8, <2>1 DEF AnswersCounted
<1> QED BY <1>1, <1>6, <1>9 DEF WireInv, LinkStep, PresenceSession, Online

\* A message is handed to Event or Presence.
LEMMA HandleWire ==
    ASSUME ConnInv, WireInv, NEW act, NEW what, Handle(act, what)
    PROVE  /\ inbox # <<>> /\ Head(inbox) = Msg(act, what)
           /\ inbox' \in Seq(ToClient) /\ Len(inbox') = Apps(batch')
           /\ UNCHANGED <<uplink, downlink, known, toServer, toClient, state, opening, stale>>
           /\ Count(inbox, Answers)
                = Count(inbox', Answers) + (IF Msg(act, what) \in Answers THEN 1 ELSE 0)
           /\ Count(inbox', Answers) \in Nat
<1>0. WireTypeOK
  BY DEF WireInv
<1>1. /\ batch # <<>> /\ Head(batch) = "APP" /\ batch' = Tail(batch)
      /\ UNCHANGED <<uplink, downlink, known, toServer, toClient, state, opening, stale>>
      /\ Head(inbox) = Msg(act, what) /\ inbox' = Tail(inbox)
  BY DEF Handle, C!HandleApp, C!Receive, C!Upcoming, C!NoSocketUse, C!socketVars,
     C!clientVars
<1>2. /\ Apps(batch) = Apps(Tail(batch)) + 1 /\ Tail(batch) \in Seq(K!FromServer)
  BY <1>1, Types, AppsProperties, HeadTailProperties
<1>3. Apps(Tail(batch)) \in Nat
  BY <1>2, AppsProperties
<1>4. inbox # <<>>
  <2>1. Len(inbox) # 0
    BY <1>0, <1>2, <1>3 DEF WireTypeOK
  <2> QED BY <2>1, EmptySeq
<1>5. /\ inbox' \in Seq(ToClient) /\ Len(inbox') = Len(inbox) - 1
      /\ Count(inbox, Answers) = Count(inbox', Answers) + (IF Head(inbox) \in Answers THEN 1 ELSE 0)
  BY <1>0, <1>1, <1>4, HeadTailProperties, CountTail DEF WireTypeOK
<1>6. Count(inbox', Answers) \in Nat
  BY <1>5, PlacesFinite
<1>7. Len(inbox') = Apps(batch')
  BY <1>0, <1>1, <1>2, <1>3, <1>5 DEF WireTypeOK
<1> QED BY <1>1, <1>4, <1>5, <1>6, <1>7

-----------------------------------------------------------------------------
\* ... taken in and sent by the server, and answered.

LEMMA LearnsWire ==
    ASSUME ConnInv, WireInv, ServerLearns
    PROVE  WireInv' /\ LinkStep
<1>0. WireTypeOK /\ AnswersCounted
  BY DEF WireInv
<1>1. /\ toServer # <<>> /\ Head(toServer) = "APP" /\ toServer' = Tail(toServer)
      /\ UNCHANGED <<toClient, batch, state, opening, stale>>
      /\ uplink' = Tail(uplink) /\ known' \in {known, Learn(known, Head(uplink))}
      /\ UNCHANGED <<downlink, inbox, told, late>>
  BY DEF ServerLearns, PeerOnly, C!ServerConsumes, C!ServerReceives
<1>2. /\ Apps(toServer) = Apps(Tail(toServer)) + 1 /\ Tail(toServer) \in Seq(K!FromClient)
  BY <1>1, Types, AppsProperties, HeadTailProperties
<1>3. Apps(Tail(toServer)) \in Nat
  BY <1>2, AppsProperties
<1>4. uplink # <<>>
  <2>1. Len(uplink) # 0
    BY <1>0, <1>2, <1>3 DEF WireTypeOK
  <2> QED BY <2>1, EmptySeq
<1>5. /\ Head(uplink) \in ToServer /\ uplink' \in Seq(ToServer) /\ Len(uplink') = Len(uplink) - 1
      /\ Count(uplink, Query) = Count(uplink', Query) + (IF Head(uplink) \in Query THEN 1 ELSE 0)
  BY <1>0, <1>1, <1>4, HeadTailProperties, CountTail DEF WireTypeOK
<1>6. /\ known' \in View
      /\ known'.queries \in Nat
      /\ known'.queries <= known.queries + (IF Head(uplink) \in Query THEN 1 ELSE 0)
  <2>1. CASE known' = known
    BY <1>0, <2>1, WireCounts DEF WireTypeOK
  <2>2. CASE known' = Learn(known, Head(uplink))
    <3>1. known \in View /\ known.queries \in Nat
      BY <1>0, WireCounts DEF WireTypeOK
    <3>2. /\ Learn(known, Head(uplink)) \in View
          /\ Learn(known, Head(uplink)).queries
               = known.queries + (IF Head(uplink) \in Query THEN 1 ELSE 0)
      BY <1>5, <3>1, LearnProperties
    <3> QED BY <2>2, <3>1, <3>2
  <2> QED BY <1>1, <2>1, <2>2
<1>7. WireTypeOK'
  BY <1>0, <1>1, <1>2, <1>3, <1>5, <1>6 DEF WireTypeOK
<1>8. Count(uplink', Query) \in Nat
  BY <1>5, PlacesFinite
<1>9. InFlightQueries' \in Nat /\ InFlightQueries' <= InFlightQueries
  <2>1. InFlightQueries' = Count(downlink, Answers) + known'.queries + Count(uplink', Query)
    BY <1>1 DEF InFlightQueries
  <2>2. CASE Head(uplink) \in Query
    BY <1>0, <1>5, <1>6, <1>8, <2>1, <2>2, WireCounts DEF InFlightQueries
  <2>3. CASE Head(uplink) \notin Query
    BY <1>0, <1>5, <1>6, <1>8, <2>1, <2>3, WireCounts DEF InFlightQueries
  <2> QED BY <2>2, <2>3
<1>10. AnswersCounted'
  <2>1. Online' <=> Online
    BY <1>1 DEF Online
  <2> QED BY <1>0, <1>1, <1>9, <2>1, WireCounts DEF AnswersCounted
<1> QED BY <1>1, <1>7, <1>10 DEF WireInv, LinkStep, PresenceSession, Online

\* What the server may send.
LEMMA WantedCases == ASSUME NEW m \in Wanted
  PROVE  \/ \E name \in known.subs : m = Msg("EVENT", name)
         \/ \E kind \in {"found", "removed"}, pattern \in known.listens : m = Msg(kind, pattern)
         \/ m = Msg("PRESENCE", "-")
         \/ m = Msg("ANSWER", "-") /\ known.queries # 0
<1> DEFINE A == {Msg("EVENT", name) : name \in known.subs}
           B == {Msg(kind, pattern) : kind \in {"found", "removed"}, pattern \in known.listens}
           U == {Msg("PRESENCE", "-") : t \in {known.subscribed} \ {FALSE}}
           D == {Msg("ANSWER", "-") : t \in {known.queries} \ {0}}
<1>0. Wanted = A \cup B \cup U \cup D
  BY DEF Wanted
<1>1. \A x \in A : \E name \in known.subs : x = Msg("EVENT", name)
  OBVIOUS
<1>2. \A x \in B : \E kind \in {"found", "removed"}, pattern \in known.listens : x = Msg(kind, pattern)
  OBVIOUS
<1>3. \A x \in U : x = Msg("PRESENCE", "-")
  OBVIOUS
<1>4. \A x \in D : x = Msg("ANSWER", "-") /\ known.queries # 0
  OBVIOUS
<1> HIDE DEF A, B, U, D
<1> QED BY <1>0, <1>1, <1>2, <1>3, <1>4

LEMMA SendsWire ==
    ASSUME ConnInv, WireInv, NEW m \in Wanted, ServerSends(m)
    PROVE  WireInv' /\ LinkStep
<1>0. WireTypeOK /\ AnswersCounted
  BY DEF WireInv
<1>1. /\ toClient' = Append(toClient, "APP")
      /\ UNCHANGED <<toServer, batch, state, opening, stale>>
      /\ downlink' = Append(downlink, m)
      /\ known' = IF m.act = "ANSWER" THEN [known EXCEPT !.queries = @ - 1] ELSE known
      /\ UNCHANGED <<uplink, inbox, told, late>>
  BY DEF ServerSends, PeerOnly, C!ServerSends
<1>2. Apps(toClient') = Apps(toClient) + 1
  <2>1. "APP" \in K!FromServer \cup K!SocketEnd
    BY DEF K!FromServer
  <2>2. Apps(Append(toClient, "APP")) = Apps(toClient) + 1
    BY <2>1, Types, AppsProperties
  <2> QED BY <1>1, <2>2
<1>3. m \in ToClient /\ (m \in Answers <=> m.act = "ANSWER") /\ (m \in Answers => known.queries # 0)
  <2>1. /\ known \in View
        /\ known.subs \subseteq Names /\ known.listens \subseteq Patterns
    BY <1>0 DEF WireTypeOK, View
  <2>2. CASE \E name \in known.subs : m = Msg("EVENT", name)
    BY <2>1, <2>2 DEF ToClient, Answers, Msg
  <2>3. CASE \E kind \in {"found", "removed"}, pattern \in known.listens : m = Msg(kind, pattern)
    BY <2>1, <2>3 DEF ToClient, Answers, Msg
  <2>4. CASE m = Msg("PRESENCE", "-")
    BY <2>4 DEF ToClient, Answers, Msg
  <2>5. CASE m = Msg("ANSWER", "-") /\ known.queries # 0
    BY <2>5 DEF ToClient, Answers, Msg
  <2> QED BY <2>2, <2>3, <2>4, <2>5, WantedCases
<1>4. /\ downlink' \in Seq(ToClient) /\ Len(downlink') = Len(downlink) + 1
      /\ Count(downlink', Answers) = Count(downlink, Answers) + (IF m \in Answers THEN 1 ELSE 0)
  BY <1>0, <1>1, <1>3, AppendProperties, CountAppend DEF WireTypeOK
<1>5. /\ known' \in View
      /\ known'.queries + (IF m \in Answers THEN 1 ELSE 0) = known.queries
      /\ known'.queries \in Nat
  <2>0. known \in View /\ known.queries \in Nat
    BY <1>0 DEF WireTypeOK, View
  <2>1. CASE m \in Answers
    <3>1. known' = [known EXCEPT !.queries = known.queries - 1] /\ known.queries - 1 \in Nat
      BY <1>1, <1>3, <2>0, <2>1
    <3>2. known' \in View /\ known'.queries = known.queries - 1
      BY <2>0, <3>1 DEF View
    <3> QED BY <2>0, <2>1, <3>1, <3>2
  <2>2. CASE m \notin Answers
    BY <1>1, <1>3, <2>0, <2>2
  <2> QED BY <2>1, <2>2
<1>6. WireTypeOK'
  BY <1>0, <1>1, <1>2, <1>4, <1>5, Types DEF WireTypeOK
<1>7. InFlightQueries' = InFlightQueries
  <2>1. InFlightQueries' = Count(downlink', Answers) + known'.queries + Count(uplink, Query)
    BY <1>1 DEF InFlightQueries
  <2>2. CASE m \in Answers
    <3>1. /\ Count(downlink', Answers) = Count(downlink, Answers) + 1
          /\ known'.queries + 1 = known.queries
      BY <1>4, <1>5, <2>2
    <3> QED BY <1>0, <1>5, <2>1, <3>1, WireCounts DEF InFlightQueries
  <2>3. CASE m \notin Answers
    <3>1. /\ Count(downlink', Answers) = Count(downlink, Answers) + 0
          /\ known'.queries + 0 = known.queries
      BY <1>4, <1>5, <2>3
    <3> QED BY <1>0, <1>5, <2>1, <3>1, WireCounts DEF InFlightQueries
  <2> QED BY <2>2, <2>3
<1>8. AnswersCounted'
  <2>1. Online' <=> Online
    BY <1>1 DEF Online
  <2> QED BY <1>0, <1>1, <1>7, <2>1, WireCounts DEF AnswersCounted
<1> QED BY <1>1, <1>6, <1>8 DEF WireInv, LinkStep, PresenceSession, Online

\* A message other than an answer is handed over.
LEMMA OtherHandledWire ==
    ASSUME ConnInv, WireInv, NEW act \in {"EVENT", "found", "removed", "PRESENCE"}, NEW what, Handle(act, what),
           UNCHANGED <<told, late>>
    PROVE  WireInv' /\ LinkStep
<1>0. WireTypeOK /\ AnswersCounted
  BY DEF WireInv
<1>1. Msg(act, what) \notin Answers
  BY DEF Msg, Answers
<1>2. WireTypeOK'
  BY <1>0, HandleWire DEF WireTypeOK
<1>3. /\ Count(inbox', Answers) = Count(inbox, Answers)
      /\ InFlightQueries' = InFlightQueries /\ (Online' <=> Online) /\ (stale' <=> stale)
  BY <1>0, <1>1, HandleWire, WireCounts DEF InFlightQueries, Online
<1>4. AnswersCounted'
  BY <1>0, <1>3 DEF AnswersCounted
<1> QED BY <1>2, <1>3, <1>4 DEF WireInv, LinkStep, PresenceSession

\* An answer: there is a query that it belongs to.
LEMMA AnswerWire ==
    ASSUME ConnInv, WireInv, HandleAnswer
    PROVE  /\ WireInv' /\ (Online' <=> Online)
           /\ \/ /\ Online /\ PresenceSession.queries > 0
                 /\ PresenceSession' = [PresenceSession EXCEPT !.queries = @ - 1]
                 /\ late' = late
              \/ /\ late > 0 /\ late' = late - 1
                 /\ PresenceSession' = PresenceSession
<1>0. WireTypeOK /\ AnswersCounted
  BY DEF WireInv
<1>1. Handle("ANSWER", "-")
  BY DEF HandleAnswer
<1>2. Msg("ANSWER", "-") \in Answers
  BY DEF Answers
<1>3. /\ inbox' \in Seq(ToClient) /\ Len(inbox') = Apps(batch')
      /\ UNCHANGED <<uplink, downlink, known, toServer, toClient, state, opening, stale>>
      /\ Count(inbox, Answers) = Count(inbox', Answers) + 1 /\ Count(inbox', Answers) \in Nat
  BY <1>1, <1>2, HandleWire
<1>4. InFlightQueries' = InFlightQueries /\ (Online' <=> Online)
  BY <1>3 DEF InFlightQueries, Online
<1>5. CASE stale
  <2>1. late' = late - 1 /\ told' = told
    BY <1>5 DEF HandleAnswer
  <2>2. late > 0 /\ late' \in Nat
    BY <1>0, <1>3, <1>5, <2>1 DEF AnswersCounted, WireTypeOK
  <2>3. WireTypeOK'
    BY <1>0, <1>3, <2>1, <2>2 DEF WireTypeOK
  <2>4. AnswersCounted'
    BY <1>0, <1>3, <1>4, <1>5, <2>1, <2>2 DEF AnswersCounted, WireTypeOK
  <2>5. PresenceSession' = PresenceSession
    BY <1>4, <2>1 DEF PresenceSession
  <2> QED BY <1>4, <2>1, <2>2, <2>3, <2>4, <2>5 DEF WireInv
<1>6. CASE ~stale
  <2>1. late' = late /\ told' = [told EXCEPT !.queries = @ - 1]
    BY <1>6 DEF HandleAnswer
  <2>2. told.queries > 0 /\ told.queries \in Nat
    BY <1>0, <1>3, <1>6, WireCounts DEF AnswersCounted
  <2>3. Online
    BY <1>0, <2>2, NothingView DEF AnswersCounted
  <2>4. told' \in View /\ told'.queries = told.queries - 1 /\ told'.subscribed = told.subscribed
    BY <1>0, <2>1, <2>2 DEF WireTypeOK, View
  <2>5. WireTypeOK'
    BY <1>0, <1>3, <2>1, <2>4 DEF WireTypeOK
  <2>6. AnswersCounted'
    BY <1>0, <1>3, <1>4, <1>6, <2>2, <2>3, <2>4, WireCounts DEF AnswersCounted
  <2>7. /\ PresenceSession.queries > 0
        /\ PresenceSession' = [PresenceSession EXCEPT !.queries = @ - 1]
    BY <1>4, <2>2, <2>3, <2>4 DEF PresenceSession
  <2> QED BY <1>4, <2>1, <2>3, <2>5, <2>6, <2>7 DEF WireInv
<1> QED BY <1>5, <1>6

-----------------------------------------------------------------------------
\* What that means to Presence.

\* The link of Presence stays as it is, or is lost, or opens.
LEMMA LinkMeans ==
    ASSUME LinkStep
    PROVE  \/ UNCHANGED P!linkVars
           \/ Online /\ \A s : P!Sends(FALSE, s)
           \/ ~Online /\ Online' /\ UNCHANGED <<PresenceSession, late>>
<1>1. CASE (Online' <=> Online) /\ PresenceSession' = PresenceSession /\ late' = late
  <2>1. Online' = Online
    BY <1>1 DEF Online
  <2> QED BY <1>1, <2>1 DEF P!linkVars
<1>2. CASE /\ Online /\ ~Online'
           /\ PresenceSession' = P!NoSession /\ late' = late + PresenceSession.queries
  <2>1. Online' = FALSE
    BY <1>2 DEF Online
  <2> QED BY <1>2, <2>1 DEF P!Sends
<1>3. CASE ~Online /\ Online' /\ PresenceSession' = PresenceSession /\ late' = late
  BY <1>3
<1> QED BY <1>1, <1>2, <1>3 DEF LinkStep

LEMMA LinkMaps ==
    ASSUME LinkStep, UNCHANGED <<presenceVars, subscription_counter_>>,
           Online /\ ~Online' => P!UserRuns,
           ~Online /\ Online' => ~presence_crashed /\ frame.kind = "none"
    PROVE  P!Next \/ UNCHANGED P!vars
<1>0. UNCHANGED <<P!subVars, P!queryVars, frame, presence_crashed>>
  BY DEF presenceVars, P!subVars, P!queryVars
<1>1. CASE UNCHANGED P!linkVars
  BY <1>0, <1>1 DEF P!vars
<1>2. CASE Online /\ \A s : P!Sends(FALSE, s)
  <2>1. ~Online'
    BY <1>2 DEF P!Sends
  <2>2. P!ConnectionLost
    BY <1>0, <1>2, <2>1 DEF P!ConnectionLost
  <2> QED BY <2>2 DEF P!Next, P!Link
<1>3. CASE ~Online /\ Online' /\ UNCHANGED <<PresenceSession, late>>
  <2>1. Online' = TRUE
    BY <1>3 DEF Online
  <2>2. P!ConnectionOpens
    BY <1>0, <1>3, <2>1 DEF P!ConnectionOpens
  <2> QED BY <2>2 DEF P!Next, P!Link
<1> QED BY <1>1, <1>2, <1>3, LinkMeans

LEMMA DownMeans ==
    ASSUME WireInv, LinkStep, ~Online', NEW s
    PROVE  P!Sends(FALSE, s)
<1>1. CASE Online
  BY <1>1, LinkMeans DEF P!linkVars
<1>2. CASE ~Online
  <2>1. PresenceSession' = PresenceSession /\ late' = late
    BY <1>2 DEF LinkStep
  <2>2. PresenceSession = P!NoSession
    BY <1>2 DEF PresenceSession, P!NoSession
  <2>3. late + PresenceSession.queries = late
    BY <2>2 DEF P!NoSession, WireInv, WireTypeOK
  <2>4. Online' = FALSE
    BY DEF Online
  <2> QED BY <2>1, <2>2, <2>3, <2>4 DEF P!Sends
<1> QED BY <1>1, <1>2

Learned(m) == [subscribed |-> Learn(told, m).subscribed, queries |-> Learn(told, m).queries]

LEMMA SendLink ==
    ASSUME ConnInv, ConnInv', WireInv, NEW m \in ToServer, NEW ok \in BOOLEAN, Send(ok, m),
           NEW s, Online => s = Learned(m)
    PROVE  WireInv' /\ P!Sends(ok, s)
<1>1. CASE /\ ok
           /\ C!SendApp(TRUE)
           /\ uplink' = Append(uplink, m)
           /\ told' = Learn(told, m)
           /\ UNCHANGED <<downlink, inbox, known, late, received>>
  <2>1. WireInv' /\ Online /\ Online' /\ PresenceSession' = Learned(m)
    BY <1>1, OkSend DEF Learned
  <2>2. Online' = Online
    BY <2>1 DEF Online
  <2> QED BY <1>1, <2>1, <2>2 DEF P!Sends
<1>2. CASE ~ok /\ C!SendApp(FALSE) /\ WireFollows
  <2>1. WireInv' /\ LinkStep
    BY <1>2, UserQuiet, QuietWire
  <2>2. srv' = "none"
    BY <1>2 DEF C!SendApp, C!SendFails, C!SocketFailsToSend, C!DropSocket
  <2>3. ~Online'
    BY <2>2, OnlineUp
  <2>4. P!Sends(FALSE, s)
    BY <2>1, <2>3, DownMeans
  <2> QED BY <1>2, <2>1, <2>4 DEF P!Sends
<1>3. CASE ~ok /\ state # "OPEN" /\ UNCHANGED <<connVars, wireVars>>
  <2>1. WireInv' /\ LinkStep
    BY <1>3, StillWire
  <2>2. ~Online'
    BY <1>3 DEF Online, connVars
  <2>3. P!Sends(FALSE, s)
    BY <2>1, <2>2, DownMeans
  <2> QED BY <1>3, <2>1, <2>3 DEF P!Sends
<1> QED BY <1>1, <1>2, <1>3 DEF Send

-----------------------------------------------------------------------------
\* The messages of Event, and the stack.

LEMMA SendIfLink ==
    ASSUME ConnInv, ConnInv', WireInv, NEW m \in ToServer, NEW needed, SendIf(needed, m),
           NEW s, Online => s = Learned(m)
    PROVE  WireInv' /\ P!Tells(needed, s)
<1>1. CASE needed
  <2>1. PICK ok \in BOOLEAN : Send(ok, m)
    BY <1>1 DEF SendIf
  <2>2. WireInv' /\ P!Sends(ok, s)
    BY <2>1, SendLink
  <2> QED BY <1>1, <2>2 DEF P!Tells
<1>2. CASE ~needed
  <2>1. UNCHANGED <<connVars, wireVars>>
    BY <1>2 DEF SendIf
  <2>2. WireInv'
    BY <2>1, StillWire
  <2>3. UNCHANGED P!linkVars
    BY <2>1 DEF connVars, wireVars, P!linkVars, Online, PresenceSession
  <2> QED BY <1>2, <2>2, <2>3 DEF P!Tells
<1> QED BY <1>1, <1>2

\* Of the messages of Event, Presence notices at most that the connection is lost.
EventActs == {"SUBSCRIBE", "UNSUBSCRIBE", "LISTEN", "EVENT", "LISTEN_ANSWER"}

LEMMA EventTellsNothing ==
    ASSUME WireInv, Online, NEW m \in ToServer, m.act \in EventActs
    PROVE  PresenceSession = Learned(m)
<1>1. /\ told \in View /\ told.queries \in Nat /\ m \notin Query
  BY WireCounts DEF WireInv, WireTypeOK, Query, Msg, EventActs
<1>2. /\ Learn(told, m).subscribed = told.subscribed
      /\ Learn(told, m).queries = told.queries + 0
  BY <1>1, LearnProperties DEF EventActs
<1>3. Learn(told, m).queries = told.queries
  BY <1>1, <1>2
<1> QED BY <1>2, <1>3 DEF PresenceSession, Learned

LEMMA TellsMaps ==
    ASSUME WireInv, NEW needed, P!Tells(needed, PresenceSession), P!UserRuns,
           UNCHANGED <<presenceVars, subscription_counter_>>
    PROVE  P!Next \/ UNCHANGED P!vars
<1>0. UNCHANGED <<P!subVars, P!queryVars, frame, presence_crashed>>
  BY DEF presenceVars, P!subVars, P!queryVars
<1>1. CASE UNCHANGED P!linkVars
  BY <1>0, <1>1 DEF P!vars
<1>2. ASSUME NEW ok \in BOOLEAN, P!Sends(ok, PresenceSession)
      PROVE  P!Next \/ UNCHANGED P!vars
  <2>1. CASE ok
    <3>1. UNCHANGED P!linkVars
      BY <1>2, <2>1 DEF P!Sends, P!linkVars
    <3> QED BY <1>0, <3>1 DEF P!vars
  <2>2. CASE ~ok /\ Online
    <3>1. P!Sends(FALSE, PresenceSession)
      BY <1>2, <2>2 DEF P!Sends
    <3>2. P!ConnectionLost
      BY <1>0, <2>2, <3>1 DEF P!ConnectionLost
    <3> QED BY <3>2 DEF P!Next, P!Link
  <2>3. CASE ~ok /\ ~Online
    <3>1. /\ Online' = FALSE /\ PresenceSession' = P!NoSession
          /\ late' = late + PresenceSession.queries
      BY <1>2, <2>3 DEF P!Sends
    <3>2. PresenceSession = P!NoSession
      BY <2>3 DEF PresenceSession, P!NoSession
    <3>3. late + PresenceSession.queries = late
      BY <3>2 DEF P!NoSession, WireInv, WireTypeOK
    <3>4. Online' = Online
      BY <2>3, <3>1 DEF Online
    <3>5. UNCHANGED P!linkVars
      BY <3>1, <3>2, <3>3, <3>4 DEF P!linkVars
    <3> QED BY <1>0, <3>5 DEF P!vars
  <2> QED BY <2>1, <2>2, <2>3
<1> QED BY <1>1, <1>2 DEF P!Tells

-----------------------------------------------------------------------------
\* The frames of Event are above the one of Presence, which is above Connection.
StackInv ==
    /\ InPresence => pc = "event_cb"
    /\ InEvent => pc \in {"app", "event_cb", "login_cb"}
    /\ InEvent /\ InPresence => frame.running

QueueOK == emitted \in Nat /\ send_queue_ \in Seq(Nat)

LEMMA PresenceRuns ==
    ASSUME StackInv, Alive, AppRuns \/ InEvent \/ ~InPresence
    PROVE  P!UserRuns
BY DEF StackInv, AppRuns, Alive, InPresence, P!UserRuns

LEMMA SendKeepsStack ==
    /\ \A ok, m : Send(ok, m) => pc' = pc
    /\ \A needed, m : SendIf(needed, m) => pc' = pc
<1>1. ASSUME NEW ok, NEW m, Send(ok, m) PROVE pc' = pc
  BY <1>1 DEF Send, C!SendApp, connVars
<1> QED BY <1>1 DEF SendIf, connVars

\* A call of Event from the application, or of its loops.
LEMMA EventKeepsStack ==
    ASSUME StackInv, AppRuns \/ InEvent, UNCHANGED <<pc, frame>>
    PROVE  StackInv'
BY DEF StackInv, AppRuns, InEvent, InPresence, C!UserRuns

LEMMA SameStack ==
    ASSUME StackInv, UNCHANGED <<pc, frame, frames>>
    PROVE  StackInv'
BY DEF StackInv, InEvent, InPresence

LEMMA QuietStack ==
    ASSUME StackInv, InNeither, UNCHANGED <<frame, frames>>
    PROVE  StackInv'
BY DEF StackInv, InEvent, InPresence, InNeither

-----------------------------------------------------------------------------
\* One fact for every part of Next: what the application calls of Event, ...

PInv == WireInv /\ StackInv /\ QueueOK

Mapped == P!Next \/ UNCHANGED P!vars

OnlineStays == Online' <=> Online

SameQueue == UNCHANGED <<emitted, send_queue_>>

LEMMA SameQueueOK == ASSUME QueueOK, SameQueue PROVE QueueOK'
BY DEF QueueOK, SameQueue

LEMMA QuietMaps ==
    ASSUME ConnInv, ConnInv', WireInv, Quiet, WireFollows,
           UNCHANGED <<presenceVars, subscription_counter_>>,
           Online /\ ~Online' => P!UserRuns,
           ~Online /\ Online' => ~presence_crashed /\ frame.kind = "none"
    PROVE  WireInv' /\ Mapped
BY QuietWire, LinkMaps DEF Mapped

LEMMA StaysMaps ==
    ASSUME LinkStep, OnlineStays, UNCHANGED <<presenceVars, subscription_counter_>>
    PROVE  Mapped
BY LinkMaps DEF OnlineStays, Mapped

LEMMA StillMaps ==
    ASSUME WireInv, UNCHANGED <<connVars, wireVars, presenceVars, subscription_counter_>>
    PROVE  WireInv' /\ Mapped
<1>1. OnlineStays
  BY DEF OnlineStays, Online, connVars
<1> QED BY <1>1, StillWire, StaysMaps

-----------------------------------------------------------------------------
LEMMA LoginMaps ==
    ASSUME ConnInv, ConnInv', PInv, NEW callback \in Callbacks, Login(callback)
    PROVE  PInv' /\ Mapped
<1>1. AppRuns /\ C!Login(callback) /\ WireFollows /\ UNCHANGED <<eventVars, presenceVars, subscription_counter_>>
  BY DEF Login
<1>2. ~Online /\ ~Online'
  <2>1. C!transition_outgoing("AWAIT_AUTHENTICATION", "REQ") # "OPEN"
    BY DEF C!transition_outgoing
  <2> QED BY <1>1, <2>1 DEF C!Login, C!SendIn, C!SendSucceeds, C!SendFails, C!on_close,
                            C!GiveUpOrReopen, Online
<1>3. WireInv' /\ Mapped
  BY <1>1, <1>2, UserQuiet, QuietMaps DEF PInv
<1>4. StackInv' /\ QueueOK'
  <2>1. UNCHANGED <<pc, frame, frames>> /\ SameQueue
    BY <1>1 DEF C!Login, eventVars, presenceVars, SameQueue
  <2> QED BY <2>1, SameStack, SameQueueOK DEF PInv
<1> QED BY <1>3, <1>4 DEF PInv

LEMMA CloseMaps ==
    ASSUME ConnInv, ConnInv', PInv, Close
    PROVE  PInv' /\ Mapped
<1>1. /\ AppRuns /\ Alive /\ C!Close /\ WireFollows
      /\ UNCHANGED <<eventVars, presenceVars, subscription_counter_>>
  BY DEF Close, AppRuns
<1>2. ~Online' /\ P!UserRuns
  BY <1>1, PresenceRuns DEF C!Close, Online, PInv
<1>3. WireInv' /\ Mapped
  BY <1>1, <1>2, UserQuiet, QuietMaps DEF PInv
<1>4. StackInv' /\ QueueOK'
  <2>1. UNCHANGED <<pc, frame, frames>> /\ SameQueue
    BY <1>1 DEF C!Close, eventVars, presenceVars, SameQueue
  <2> QED BY <2>1, SameStack, SameQueueOK DEF PInv
<1> QED BY <1>3, <1>4 DEF PInv

\* A call that only Event knows about may send a message of Event.
LEMMA EventMessageMaps ==
    ASSUME ConnInv, ConnInv', WireInv, StackInv, Alive, AppRuns \/ InEvent \/ ~InPresence,
           NEW m \in ToServer, m.act \in EventActs, NEW needed, SendIf(needed, m),
           UNCHANGED <<presenceVars, subscription_counter_>>
    PROVE  WireInv' /\ Mapped
<1>1. WireInv' /\ P!Tells(needed, PresenceSession)
  BY SendIfLink, EventTellsNothing
<1> QED BY <1>1, PresenceRuns, TellsMaps DEF Mapped

LEMMA SendIsSendIf ==
    ASSUME NEW m, NEW ok \in BOOLEAN, Send(ok, m) PROVE SendIf(TRUE, m)
BY DEF SendIf

LEMMA EventMessages ==
    /\ \A name \in Names :
        /\ Msg("SUBSCRIBE", name) \in ToServer /\ Msg("SUBSCRIBE", name).act \in EventActs
        /\ Msg("UNSUBSCRIBE", name) \in ToServer /\ Msg("UNSUBSCRIBE", name).act \in EventActs
    /\ \A pattern \in Patterns :
        Msg("LISTEN", pattern) \in ToServer /\ Msg("LISTEN", pattern).act \in EventActs
    /\ \A n \in Nat : Msg("EVENT", n) \in ToServer /\ Msg("EVENT", n).act \in EventActs
    /\ Msg("LISTEN_ANSWER", "-") \in ToServer /\ Msg("LISTEN_ANSWER", "-").act \in EventActs
BY DEF Msg, ToServer, EventActs

LEMMA PresenceMessages ==
    /\ Msg("U|S", "-") \in ToServer /\ Msg("U|US", "-") \in ToServer
    /\ Msg("QUERY", "-") \in ToServer
BY DEF Msg, ToServer

LEMMA EventCallMaps ==
    ASSUME ConnInv, ConnInv', PInv, AppRuns, NEW m \in ToServer, m.act \in EventActs,
           NEW needed, SendIf(needed, m), UNCHANGED <<presenceVars, subscription_counter_>>
    PROVE  WireInv' /\ StackInv' /\ Mapped
<1>1. WireInv' /\ Mapped
  BY EventMessageMaps DEF PInv, AppRuns
<1>2. UNCHANGED <<pc, frame>>
  BY SendKeepsStack DEF presenceVars
<1> QED BY <1>1, <1>2, EventKeepsStack DEF PInv

LEMMA EmitMaps ==
    ASSUME ConnInv, ConnInv', PInv, NEW name \in Names, Emit(name)
    PROVE  PInv' /\ Mapped
<1>1. PICK ok \in BOOLEAN : Send(ok, Msg("EVENT", emitted + 1)) /\ E!EmitLocal(name, ok)
  BY DEF Emit
<1>2. emitted + 1 \in Nat /\ emitted \in Nat /\ send_queue_ \in Seq(Nat)
  BY DEF PInv, QueueOK
<1>3. AppRuns /\ UNCHANGED <<presenceVars, subscription_counter_>>
  BY <1>1 DEF Emit, E!EmitLocal, E!mapVars
<1>4. WireInv' /\ StackInv' /\ Mapped
  BY <1>1, <1>2, <1>3, SendIsSendIf, EventMessages, EventCallMaps
<1>5. emitted' = emitted + 1 /\ send_queue_' \in {send_queue_, Append(send_queue_, emitted + 1)}
  BY <1>1 DEF E!EmitLocal
<1>6. QueueOK'
  BY <1>2, <1>5, AppendProperties DEF QueueOK
<1> QED BY <1>4, <1>6 DEF PInv

LEMMA SubscribeMaps ==
    ASSUME ConnInv, ConnInv', PInv, NEW name \in Names, Subscribe(name)
    PROVE  PInv' /\ Mapped
<1>1. /\ AppRuns /\ Alive
      /\ SendIf(E!SubscribeTells(name), Msg("SUBSCRIBE", name))
      /\ UNCHANGED presenceVars /\ SameQueue
      /\ subscription_counter_ < MaxIds /\ subscription_counter_' = subscription_counter_ + 1
  BY DEF Subscribe, AppRuns, E!SubscribeLocal, E!AddSubscriber, E!outVars, SameQueue
<1>2. Online => PresenceSession = Learned(Msg("SUBSCRIBE", name))
  BY EventMessages, EventTellsNothing DEF PInv
<1>3. WireInv' /\ P!Tells(E!SubscribeTells(name), PresenceSession)
  BY <1>1, <1>2, EventMessages, SendIfLink DEF PInv
<1>4. StackInv' /\ QueueOK'
  <2>1. UNCHANGED <<pc, frame>>
    BY <1>1, SendKeepsStack DEF presenceVars
  <2> QED BY <1>1, <2>1, EventKeepsStack, SameQueueOK DEF PInv
<1>5. \E needed \in BOOLEAN : P!Tells(needed, PresenceSession)
  <2>1. CASE E!SubscribeTells(name)
    <3>1. P!Tells(TRUE, PresenceSession)
      BY <1>3, <2>1 DEF P!Tells
    <3> QED BY <3>1
  <2>2. CASE ~E!SubscribeTells(name)
    <3>1. P!Tells(FALSE, PresenceSession)
      BY <1>3, <2>2 DEF P!Tells
    <3> QED BY <3>1
  <2> QED BY <2>1, <2>2
<1>6. P!EventSubscribes
  <2>1. P!UserRuns
    BY <1>1, PresenceRuns DEF PInv
  <2>2. UNCHANGED <<subscribers_, presence_fn_map_, presence_empty_fns, P!queryVars, frame,
                    presence_crashed>>
    BY <1>1 DEF presenceVars, P!queryVars
  <2> QED BY <1>1, <1>5, <2>1, <2>2 DEF P!EventSubscribes
<1> QED BY <1>3, <1>4, <1>6 DEF PInv, Mapped, P!Next, P!User

LEMMA EventCallsMap ==
    ASSUME ConnInv, ConnInv', PInv,
           \/ \E name \in Names : UnsubscribeName(name) \/ \E id : UnsubscribeId(name, id)
           \/ \E pattern \in Patterns : Listen(pattern)
    PROVE  PInv' /\ Mapped
<1> DEFINE EventCall ==
      /\ AppRuns /\ UNCHANGED <<presenceVars, subscription_counter_>> /\ SameQueue
      /\ \E needed \in BOOLEAN, m \in ToServer : m.act \in EventActs /\ SendIf(needed, m)
<1>1. EventCall
  <2>1. ASSUME NEW name \in Names, UnsubscribeName(name) PROVE EventCall
    <3>1. SendIf(E!UnsubscribeTells(name), Msg("UNSUBSCRIBE", name))
      BY <2>1 DEF UnsubscribeName
    <3>2. E!UnsubscribeTells(name) \in BOOLEAN
      BY DEF E!UnsubscribeTells
    <3> QED BY <2>1, <3>1, <3>2, EventMessages DEF UnsubscribeName,
               E!UnsubscribeNameLocal, E!outVars, SameQueue
  <2>2. ASSUME NEW name \in Names, NEW id, UnsubscribeId(name, id) PROVE EventCall
    <3>1. SendIf(E!LastOf(name) /\ E!UnsubscribeTells(name), Msg("UNSUBSCRIBE", name))
      BY <2>2 DEF UnsubscribeId
    <3>2. (E!LastOf(name) /\ E!UnsubscribeTells(name)) \in BOOLEAN
      OBVIOUS
    <3> QED BY <2>2, <3>1, <3>2, EventMessages DEF UnsubscribeId, E!UnsubscribeIdLocal,
               E!outVars, SameQueue
  <2>3. ASSUME NEW pattern \in Patterns, Listen(pattern) PROVE EventCall
    BY <2>3, EventMessages DEF Listen, E!ListenLocal, E!outVars, SameQueue
  <2> QED BY <2>1, <2>2, <2>3
<1>2. PICK needed \in BOOLEAN, m \in ToServer : m.act \in EventActs /\ SendIf(needed, m)
  BY <1>1
<1>3. WireInv' /\ StackInv' /\ Mapped
  BY <1>1, <1>2, EventCallMaps
<1> QED BY <1>1, <1>3, SameQueueOK DEF PInv

LEMMA UnlistenMaps ==
    ASSUME ConnInv, ConnInv', PInv, NEW pattern, Unlisten(pattern)
    PROVE  PInv' /\ Mapped
<1>1. /\ AppRuns /\ UNCHANGED <<connVars, wireVars, presenceVars, subscription_counter_>>
      /\ SameQueue
  BY DEF Unlisten, E!Unlisten, E!mapVars, E!outVars, SameQueue
<1>2. UNCHANGED <<pc, frame>>
  BY <1>1 DEF connVars, presenceVars
<1> QED BY <1>1, <1>2, StillMaps, EventKeepsStack, SameQueueOK DEF PInv

-----------------------------------------------------------------------------
\* ... of Presence, and the loops over the callbacks, ...

\* What Presence expects of its own messages is what the server is told.
LEMMA PresenceTells ==
    ASSUME WireInv, Online
    PROVE  /\ [PresenceSession EXCEPT !.subscribed = TRUE] = Learned(Msg("U|S", "-"))
           /\ [PresenceSession EXCEPT !.subscribed = FALSE] = Learned(Msg("U|US", "-"))
           /\ [PresenceSession EXCEPT !.queries = @ + 1] = Learned(Msg("QUERY", "-"))
<1>1. /\ told \in View /\ told.queries \in Nat
      /\ PresenceSession = [subscribed |-> told.subscribed, queries |-> told.queries]
  BY WireCounts DEF WireInv, WireTypeOK, PresenceSession
<1>2. \A b \in BOOLEAN : [PresenceSession EXCEPT !.subscribed = b]
                           = [subscribed |-> b, queries |-> told.queries]
  BY <1>1
<1>3. /\ Msg("U|S", "-").act = "U|S" /\ Msg("U|S", "-") \notin Query
      /\ Msg("U|US", "-").act = "U|US" /\ Msg("U|US", "-") \notin Query
      /\ Msg("QUERY", "-").act = "QUERY" /\ Msg("QUERY", "-") \in Query
  BY DEF Msg, Query
<1>4. Learned(Msg("U|S", "-")) = [subscribed |-> TRUE, queries |-> told.queries]
  <2>1. /\ Learn(told, Msg("U|S", "-")).subscribed = TRUE
        /\ Learn(told, Msg("U|S", "-")).queries = told.queries + 0
    BY <1>1, <1>3, PresenceMessages, LearnProperties
  <2>2. ASSUME NEW b \in BOOLEAN, Learn(told, Msg("U|S", "-")).subscribed = b
        PROVE  Learned(Msg("U|S", "-")) = [subscribed |-> b, queries |-> told.queries]
    BY <1>1, <2>1, <2>2 DEF Learned
  <2> QED BY <2>1, <2>2
<1>5. Learned(Msg("U|US", "-")) = [subscribed |-> FALSE, queries |-> told.queries]
  <2>1. /\ Learn(told, Msg("U|US", "-")).subscribed = FALSE
        /\ Learn(told, Msg("U|US", "-")).queries = told.queries + 0
    BY <1>1, <1>3, PresenceMessages, LearnProperties
  <2>2. ASSUME NEW b \in BOOLEAN, Learn(told, Msg("U|US", "-")).subscribed = b
        PROVE  Learned(Msg("U|US", "-")) = [subscribed |-> b, queries |-> told.queries]
    BY <1>1, <2>1, <2>2 DEF Learned
  <2> QED BY <2>1, <2>2
<1>6. Learned(Msg("QUERY", "-")) = [subscribed |-> told.subscribed, queries |-> told.queries + 1]
  <2>1. /\ Learn(told, Msg("QUERY", "-")).subscribed = told.subscribed
        /\ Learn(told, Msg("QUERY", "-")).queries = told.queries + 1
    BY <1>1, <1>3, PresenceMessages, LearnProperties
  <2> QED BY <1>1, <2>1 DEF Learned
<1>7. [PresenceSession EXCEPT !.queries = @ + 1]
        = [subscribed |-> told.subscribed, queries |-> told.queries + 1]
  BY <1>1
<1>8. TRUE \in BOOLEAN /\ FALSE \in BOOLEAN
  OBVIOUS
<1> QED BY <1>2, <1>4, <1>5, <1>6, <1>7, <1>8

LEMMA PresenceCallKeeps ==
    ASSUME PInv, AppRuns, UNCHANGED <<pc, frame, eventVars>>
    PROVE  StackInv' /\ QueueOK'
<1>1. UNCHANGED <<pc, frame, frames>> /\ SameQueue
  BY DEF eventVars, SameQueue
<1> QED BY <1>1, SameStack, SameQueueOK DEF PInv

LEMMA PresenceSubscribeMaps ==
    ASSUME ConnInv, ConnInv', PInv, PresenceSubscribe
    PROVE  PInv' /\ Mapped
<1>1. WireInv' /\ P!Tells(P!SubscribeTells, [PresenceSession EXCEPT !.subscribed = TRUE])
  BY PresenceMessages, PresenceTells, SendIfLink DEF PresenceSubscribe, PInv
<1>2. P!Subscribe
  BY <1>1 DEF P!Subscribe, PresenceSubscribe
<1>3. UNCHANGED <<pc, frame, eventVars>> /\ AppRuns
  BY SendKeepsStack DEF PresenceSubscribe, P!SubscribeLocal, P!AddSubscriber
<1> QED BY <1>1, <1>2, <1>3, PresenceCallKeeps DEF PInv, Mapped, P!Next, P!User

LEMMA PresenceUnsubscribeIdMaps ==
    ASSUME ConnInv, ConnInv', PInv, NEW id \in P!Elements(subscribers_), PresenceUnsubscribeId(id)
    PROVE  PInv' /\ Mapped
<1>1. WireInv' /\ P!Tells(P!UnsubscribeTells(id), [PresenceSession EXCEPT !.subscribed = FALSE])
  BY PresenceMessages, PresenceTells, SendIfLink DEF PresenceUnsubscribeId, PInv
<1>2. P!UnsubscribeId(id)
  BY <1>1 DEF P!UnsubscribeId, PresenceUnsubscribeId
<1>3. UNCHANGED <<pc, frame, eventVars>> /\ AppRuns
  BY SendKeepsStack DEF PresenceUnsubscribeId, P!UnsubscribeIdLocal, P!RemoveSubscriber
<1> QED BY <1>1, <1>2, <1>3, PresenceCallKeeps DEF PInv, Mapped, P!Next, P!User

LEMMA PresenceUnsubscribeAllMaps ==
    ASSUME ConnInv, ConnInv', PInv, PresenceUnsubscribeAll
    PROVE  PInv' /\ Mapped
<1>1. WireInv' /\ P!Tells(TRUE, [PresenceSession EXCEPT !.subscribed = FALSE])
  BY PresenceMessages, PresenceTells, SendIfLink DEF PresenceUnsubscribeAll, PInv
<1>2. P!UnsubscribeAll
  BY <1>1 DEF P!UnsubscribeAll, PresenceUnsubscribeAll
<1>3. UNCHANGED <<pc, frame, eventVars>> /\ AppRuns
  BY SendKeepsStack DEF PresenceUnsubscribeAll, P!UnsubscribeAllLocal
<1> QED BY <1>1, <1>2, <1>3, PresenceCallKeeps DEF PInv, Mapped, P!Next, P!User

LEMMA GetAllMaps ==
    ASSUME ConnInv, ConnInv', PInv, GetAll
    PROVE  PInv' /\ Mapped
<1>1. WireInv' /\ P!Tells(P!GetAllTells, [PresenceSession EXCEPT !.queries = @ + 1])
  BY PresenceMessages, PresenceTells, SendIfLink DEF GetAll, PInv
<1>2. P!GetAll
  BY <1>1 DEF P!GetAll, GetAll
<1>3. UNCHANGED <<pc, frame, eventVars>> /\ AppRuns
  BY SendKeepsStack DEF GetAll, P!GetAllLocal
<1> QED BY <1>1, <1>2, <1>3, PresenceCallKeeps DEF PInv, Mapped, P!Next, P!User

-----------------------------------------------------------------------------
\* An exception that reaches process_messages(), or a return to it.
LEMMA ThrowsOnline ==
    ASSUME C!CallbackThrows \/ C!CallbacksReturn PROVE OnlineStays /\ pc' \in {"app", "dispatch"}
BY DEF C!CallbackThrows, C!CallbacksReturn, C!Unwind, C!NoSocketUse, C!clientVars,
   OnlineStays, Online

LEMMA ThrowsWire ==
    ASSUME ConnInv, ConnInv', WireInv, C!CallbackThrows \/ C!CallbacksReturn, WireFollows
    PROVE  WireInv' /\ LinkStep
<1>1. Quiet
  BY UserQuiet, OwnQuiet DEF C!Returns
<1> QED BY <1>1, QuietWire

LEMMA EscapesMaps ==
    ASSUME ConnInv, ConnInv', PInv, InEvent, NEW n, Escapes(n),
           UNCHANGED <<presenceVars, subscription_counter_>>
    PROVE  WireInv' /\ StackInv' /\ Mapped
<1>1. CASE ~InPresence /\ C!CallbackThrows /\ WireFollows
  <2>1. WireInv' /\ Mapped
    BY <1>1, ThrowsWire, ThrowsOnline, StaysMaps DEF PInv
  <2>2. ~InPresence' /\ pc' = "app"
    BY <1>1 DEF presenceVars, InPresence, C!CallbackThrows, C!Unwind
  <2> QED BY <2>1, <2>2 DEF StackInv
<1>2. CASE UNCHANGED <<connVars, wireVars>>
  <2>1. UNCHANGED <<pc, frame>>
    BY <1>2 DEF connVars, presenceVars
  <2> QED BY <1>2, <2>1, StillMaps, EventKeepsStack DEF PInv
<1> QED BY <1>1, <1>2 DEF Escapes

LEMMA EventLoopsMap ==
    ASSUME ConnInv, ConnInv', PInv, EventLoops
    PROVE  PInv' /\ Mapped
<1>1. Alive /\ InEvent /\ UNCHANGED <<presenceVars, subscription_counter_>>
  BY DEF EventLoops
<1>2. SameQueue
  BY DEF EventLoops, E!CallNext, E!CallbackReturns, E!NotifyReturns, E!ListenerReturnsLocal,
         E!CallErased, E!outVars, SameQueue
<1>3. CASE UNCHANGED <<connVars, wireVars>>
  <2>1. UNCHANGED <<pc, frame>>
    BY <1>1, <1>3 DEF connVars, presenceVars
  <2> QED BY <1>1, <1>2, <1>3, <2>1, StillMaps, EventKeepsStack, SameQueueOK DEF PInv
<1>4. CASE SendIf(E!Top.kind = "found", Msg("LISTEN_ANSWER", "-"))
  <2>1. UNCHANGED <<pc, frame>>
    BY <1>1, <1>4, SendKeepsStack DEF presenceVars
  <2>2. WireInv' /\ Mapped
    BY <1>1, <1>4, EventMessages, EventMessageMaps DEF PInv
  <2> QED BY <1>1, <1>2, <2>1, <2>2, EventKeepsStack, SameQueueOK DEF PInv
<1>5. CASE \E n \in 0 .. Len(frames) - 1 : Escapes(n)
  BY <1>1, <1>2, <1>5, EscapesMaps, SameQueueOK DEF PInv
<1> QED BY <1>3, <1>4, <1>5 DEF EventLoops

LEMMA EventThrowsMaps ==
    ASSUME ConnInv, ConnInv', PInv, EventCallbackThrows
    PROVE  PInv' /\ Mapped
<1>1. Alive /\ InEvent /\ UNCHANGED <<presenceVars, subscription_counter_>> /\ SameQueue
  BY DEF EventCallbackThrows, E!CallbackThrows, E!outVars, SameQueue
<1>2. \E n \in 0 .. Len(frames) - 1 : Escapes(n)
  BY DEF EventCallbackThrows
<1> QED BY <1>1, <1>2, EscapesMaps, SameQueueOK DEF PInv

LEMMA PresenceLoopsMap ==
    ASSUME ConnInv, ConnInv', PInv, PresenceLoops \/ PresenceCallbackThrows
    PROVE  PInv' /\ Mapped
<1>1. InPresence /\ ~InEvent /\ UNCHANGED eventVars
  BY DEF PresenceLoops, PresenceCallbackThrows
<1>2. QueueOK' /\ ~InEvent'
  BY <1>1, SameQueueOK DEF eventVars, SameQueue, PInv, InEvent
<1>3. CASE /\ UNCHANGED <<connVars, wireVars>>
           /\ P!CallSubscriber \/ P!CallQuerent \/ P!CallbackReturns \/ P!NotifyReturns
  <2>1. WireInv'
    BY <1>3, StillWire DEF PInv
  <2>2. StackInv'
    BY <1>1, <1>2, <1>3 DEF PInv, StackInv, connVars
  <2>3. P!Next
    BY <1>3 DEF P!Next, P!Loops
  <2> QED BY <1>2, <2>1, <2>2, <2>3 DEF PInv, Mapped
<1>4. CASE C!CallbackThrows /\ WireFollows /\ (P!CallErased \/ P!CallbackThrows)
  <2>1. WireInv'
    BY <1>4, ThrowsWire DEF PInv
  <2>2. ~InPresence'
    BY <1>4 DEF P!CallErased, P!CallbackThrows, P!Idle, InPresence
  <2>3. P!Next
    BY <1>4 DEF P!Next, P!Loops
  <2> QED BY <1>2, <2>1, <2>2, <2>3 DEF PInv, StackInv, Mapped
<1> QED BY <1>3, <1>4 DEF PresenceLoops, PresenceCallbackThrows

\* What leaves process_messages(), or the flush, under no frame of Event or Presence.
LEMMA LoginThrowsMaps ==
    ASSUME ConnInv, ConnInv', PInv, LoginCallbackThrows \/ FlushReturns
    PROVE  PInv' /\ Mapped
<1>1. /\ InNeither /\ UNCHANGED <<eventVars, presenceVars, subscription_counter_>>
      /\ WireFollows /\ (C!CallbackThrows \/ C!CallbacksReturn)
  BY DEF LoginCallbackThrows, FlushReturns, PInv, StackInv, InNeither
<1>2. WireInv' /\ Mapped
  BY <1>1, ThrowsWire, ThrowsOnline, StaysMaps DEF PInv
<1>3. UNCHANGED <<frame, frames>> /\ SameQueue
  BY <1>1 DEF presenceVars, eventVars, SameQueue
<1> QED BY <1>1, <1>2, <1>3, QuietStack, SameQueueOK DEF PInv

LEMMA FlushMaps ==
    ASSUME ConnInv, ConnInv', PInv,
           \/ \E name \in Names : FlushSubscribes(name)
           \/ \E pattern \in Patterns : FlushListens(pattern)
           \/ FlushEmits
    PROVE  PInv' /\ Mapped
<1>1. /\ Alive /\ ~InPresence /\ UNCHANGED <<presenceVars, subscription_counter_, frames>>
  BY DEF FlushSubscribes, FlushListens, FlushEmits, FlushGoesOn, C!Running, PInv,
     StackInv, eventVars
<1>2. \E needed \in BOOLEAN, m \in ToServer : m.act \in EventActs /\ SendIf(needed, m)
  <2>1. CASE FlushEmits
    <3>1. PICK ok \in BOOLEAN : Send(ok, Msg("EVENT", Head(send_queue_)))
      BY <2>1 DEF FlushEmits
    <3>2. Head(send_queue_) \in Nat
      BY <2>1, HeadTailProperties DEF FlushEmits, PInv, QueueOK
    <3> QED BY <3>1, <3>2, SendIsSendIf, EventMessages
  <2>2. CASE \E name \in Names : FlushSubscribes(name)
    BY <2>2, EventMessages DEF FlushSubscribes
  <2>3. CASE \E pattern \in Patterns : FlushListens(pattern)
    BY <2>3, EventMessages DEF FlushListens
  <2> QED BY <2>1, <2>2, <2>3
<1>3. PICK needed \in BOOLEAN, m \in ToServer : m.act \in EventActs /\ SendIf(needed, m)
  BY <1>2
<1>4. WireInv' /\ Mapped
  BY <1>1, <1>3, EventMessageMaps DEF PInv
<1>5. StackInv'
  BY <1>1, <1>3, SendKeepsStack, SameStack DEF presenceVars, PInv
<1>6. QueueOK'
  <2>1. CASE FlushEmits
    <3>1. send_queue_' \in {send_queue_, Tail(send_queue_)} /\ emitted' = emitted /\ send_queue_ # <<>>
      BY <2>1 DEF FlushEmits, FlushPops
    <3>2. send_queue_ \in Seq(Nat) /\ emitted \in Nat
      BY DEF QueueOK, PInv
    <3>3. send_queue_' \in Seq(Nat)
      BY <3>1, <3>2, HeadTailProperties
    <3> QED BY <3>1, <3>2, <3>3 DEF QueueOK
  <2>2. CASE ~FlushEmits
    BY <2>2, SameQueueOK DEF FlushSubscribes, FlushListens, eventVars, SameQueue, PInv
  <2> QED BY <2>1, <2>2
<1> QED BY <1>4, <1>5, <1>6 DEF PInv

-----------------------------------------------------------------------------
\* ... and what Connection and the server do.

LEMMA OpeningMaps ==
    ASSUME ConnInv, ConnInv', PInv, Opening
    PROVE  PInv' /\ Mapped
<1>1. /\ C!Opening /\ WireFollows /\ UNCHANGED <<eventVars, presenceVars, subscription_counter_>>
  BY DEF Opening
<1>2. ~Online /\ ~Online' /\ pc' = pc
  BY <1>1 DEF C!Opening, C!OpenSucceeds, C!OpenFails, C!on_close, C!GiveUpOrReopen, Online
<1>3. WireInv' /\ Mapped
  BY <1>1, <1>2, OwnQuiet, QuietMaps DEF PInv
<1>4. UNCHANGED <<pc, frame, frames>> /\ SameQueue
  BY <1>1, <1>2 DEF presenceVars, eventVars, SameQueue
<1> QED BY <1>3, <1>4, SameStack, SameQueueOK DEF PInv

LEMMA ConnectionStepsMap ==
    ASSUME ConnInv, ConnInv', PInv, ConnectionSteps
    PROVE  PInv' /\ Mapped
<1>1. /\ Alive /\ InNeither /\ WireFollows
      /\ UNCHANGED <<eventVars, presenceVars, subscription_counter_>>
  BY DEF ConnectionSteps
<1>2. Quiet
  BY OwnQuiet, HandlersQuiet DEF ConnectionSteps, C!Returns
<1>3. P!UserRuns /\ ~presence_crashed /\ frame.kind = "none"
  BY <1>1, PresenceRuns DEF InNeither, InPresence, Alive, PInv
<1>4. WireInv' /\ Mapped
  BY <1>1, <1>2, <1>3, QuietMaps DEF PInv
<1>5. UNCHANGED <<frame, frames>> /\ SameQueue
  BY <1>1 DEF presenceVars, eventVars, SameQueue
<1> QED BY <1>1, <1>4, <1>5, QuietStack, SameQueueOK DEF PInv

LEMMA ReadAppMaps ==
    ASSUME ConnInv, ConnInv', PInv, ReadApp
    PROVE  PInv' /\ Mapped
<1>1. UNCHANGED <<eventVars, presenceVars, subscription_counter_, pc>> /\ OnlineStays
  BY DEF ReadApp, C!ReadFrame, C!clientVars, OnlineStays, Online
<1>2. WireInv' /\ Mapped
  BY <1>1, ReadAppWire, StaysMaps DEF PInv
<1>3. UNCHANGED <<pc, frame, frames>> /\ SameQueue
  BY <1>1 DEF presenceVars, eventVars, SameQueue
<1> QED BY <1>2, <1>3, SameStack, SameQueueOK DEF PInv

LEMMA HandleNeither ==
    ASSUME PInv, NEW act, NEW what, Handle(act, what)
    PROVE  InNeither /\ pc' = "event_cb" /\ OnlineStays /\ subscription_counter_' = subscription_counter_
BY DEF Handle, C!HandleApp, C!Receive, C!Upcoming, C!Running, C!NoSocketUse,
   C!clientVars, PInv,
       StackInv, InNeither, OnlineStays, Online

\* A message for Event.
LEMMA EventHandledMaps ==
    ASSUME ConnInv, ConnInv', PInv, NEW act \in {"EVENT", "found", "removed", "PRESENCE"}, NEW what, Handle(act, what),
           UNCHANGED <<told, late, presenceVars>>, SameQueue
    PROVE  PInv' /\ Mapped
<1>1. InNeither /\ pc' = "event_cb" /\ OnlineStays /\ subscription_counter_' = subscription_counter_
  BY HandleNeither
<1>2. WireInv' /\ Mapped
  BY <1>1, OtherHandledWire, StaysMaps DEF PInv
<1>3. ~InPresence'
  BY <1>1 DEF presenceVars, InNeither, InPresence
<1> QED BY <1>1, <1>2, <1>3, SameQueueOK DEF PInv, StackInv

LEMMA HandlesMap ==
    ASSUME ConnInv, ConnInv', PInv, Handles
    PROVE  PInv' /\ Mapped
<1>1. ASSUME NEW name \in Names, HandleEvent(name) PROVE PInv' /\ Mapped
  <2>1. Handle("EVENT", name) /\ UNCHANGED <<told, late, presenceVars>>
    BY <1>1 DEF HandleEvent
  <2>2. SameQueue
    BY <1>1 DEF HandleEvent, E!EventArrives, E!outVars, eventVars, SameQueue
  <2> QED BY <2>1, <2>2, EventHandledMaps
<1>2. ASSUME NEW pattern \in Patterns, NEW kind \in {"found", "removed"}, HandlePattern(kind, pattern)
      PROVE  PInv' /\ Mapped
  <2>1. Handle(kind, pattern) /\ UNCHANGED <<told, late, presenceVars>>
    BY <1>2 DEF HandlePattern
  <2>2. SameQueue
    BY <1>2 DEF HandlePattern, E!PatternArrives, E!outVars, eventVars, SameQueue
  <2> QED BY <2>1, <2>2, EventHandledMaps
<1>3. ASSUME UNCHANGED eventVars, InNeither, pc' = "event_cb"
      PROVE  StackInv' /\ QueueOK'
  <2>1. ~InEvent' /\ SameQueue
    BY <1>3 DEF eventVars, InNeither, InEvent, SameQueue
  <2> QED BY <1>3, <2>1, SameQueueOK DEF StackInv, PInv
<1>4. CASE HandlePresence
  <2>1. /\ Handle("PRESENCE", "-") /\ UNCHANGED <<told, late, eventVars>> /\ P!PresenceArrives
    BY <1>4 DEF HandlePresence
  <2>2. WireInv'
    BY <2>1, OtherHandledWire DEF PInv
  <2>3. P!Next
    BY <2>1 DEF P!Next, P!Link
  <2> QED BY <1>3, <2>1, <2>2, <2>3, HandleNeither DEF PInv, Mapped
<1>5. CASE HandleAnswer
  <2>1. Handle("ANSWER", "-") /\ UNCHANGED eventVars /\ P!AnswerLocal
    BY <1>5 DEF HandleAnswer
  <2>2. WireInv'
    BY <1>5, AnswerWire DEF PInv
  <2>3. Online' = Online
    BY <1>5, AnswerWire DEF PInv, Online
  <2>4. P!Next
    <3>1. CASE /\ Online /\ PresenceSession.queries > 0
               /\ PresenceSession' = [PresenceSession EXCEPT !.queries = @ - 1]
               /\ late' = late
      BY <2>1, <2>3, <3>1 DEF P!AnswerArrives, P!Next, P!Link
    <3>2. CASE /\ late > 0 /\ late' = late - 1
               /\ PresenceSession' = PresenceSession
      BY <2>1, <2>3, <3>2 DEF P!LateAnswerArrives, P!Next, P!Link
    <3> QED BY <1>5, <3>1, <3>2, AnswerWire DEF PInv
  <2> QED BY <1>3, <2>1, <2>2, <2>4, HandleNeither DEF PInv, Mapped
<1> QED BY <1>1, <1>2, <1>4, <1>5 DEF Handles

LEMMA PeerMaps ==
    ASSUME ConnInv, ConnInv', PInv, Peer
    PROVE  PInv' /\ Mapped
<1>1. PeerOnly
  BY DEF Peer, ServerAnswers, ServerLearns, ServerSends, LinkEnds
<1>2. /\ UNCHANGED <<eventVars, presenceVars, subscription_counter_, pc, state, opening, batch, stale>>
      /\ OnlineStays
  BY <1>1 DEF PeerOnly, OnlineStays, Online
<1>3. WireInv' /\ LinkStep
  <2>1. CASE ServerAnswers \/ LinkEnds
    <3>1. Quiet
      BY <1>2, <2>1, PeerQuiet DEF ServerAnswers, LinkEnds
    <3> QED BY <2>1, <3>1, QuietWire DEF ServerAnswers, LinkEnds, PInv
  <2>2. CASE ServerLearns
    BY <2>2, LearnsWire DEF PInv
  <2>3. CASE \E m \in Wanted : ServerSends(m)
    BY <2>3, SendsWire DEF PInv
  <2> QED BY <2>1, <2>2, <2>3 DEF Peer
<1>4. UNCHANGED <<pc, frame, frames>> /\ SameQueue
  BY <1>2 DEF presenceVars, eventVars, SameQueue
<1> QED BY <1>2, <1>3, <1>4, StaysMaps, SameStack, SameQueueOK DEF PInv

-----------------------------------------------------------------------------
LEMMA StutterMaps ==
    ASSUME PInv, UNCHANGED vars
    PROVE  PInv' /\ Mapped
<1>1. UNCHANGED <<connVars, wireVars, presenceVars, subscription_counter_, eventVars>>
  BY DEF vars
<1>2. UNCHANGED <<pc, frame, frames>> /\ SameQueue
  BY <1>1 DEF connVars, presenceVars, eventVars, SameQueue
<1> QED BY <1>1, <1>2, StillMaps, SameStack, SameQueueOK DEF PInv

LEMMA NextMaps ==
    ASSUME ConnInv, ConnInv', PInv, [Next]_vars
    PROVE  PInv' /\ Mapped
<1>1. CASE User
  BY <1>1, LoginMaps, CloseMaps, EmitMaps, SubscribeMaps, EventCallsMap, UnlistenMaps,
     PresenceSubscribeMaps, PresenceUnsubscribeIdMaps, PresenceUnsubscribeAllMaps,
     GetAllMaps
     DEF User
<1>2. CASE Throws
  BY <1>2, EventThrowsMaps, PresenceLoopsMap, LoginThrowsMaps DEF Throws
<1>3. CASE Loops
  BY <1>3, EventLoopsMap, PresenceLoopsMap, FlushMaps, LoginThrowsMaps DEF Loops, Flushes
<1>4. CASE System
  BY <1>4, OpeningMaps, ConnectionStepsMap, ReadAppMaps, HandlesMap DEF System
<1>5. CASE Peer
  BY <1>5, PeerMaps
<1>6. CASE UNCHANGED vars
  BY <1>6, StutterMaps
<1> QED BY <1>1, <1>2, <1>3, <1>4, <1>5, <1>6 DEF Next

LEMMA InitMaps ==
    ASSUME Init
    PROVE  ConnInv /\ PInv /\ P!Init
<1>1. ConnInv
  <2>1. K!TypeOK /\ K!DownForAReason
    BY SameVars, K!TypeInit, ConnectionAssumptions DEF Init, K!Init, K!DownForAReason
  <2> QED BY <2>1 DEF ConnInv, Init, C!Init
<1>2. /\ Apps(toServer) = 0 /\ Apps(toClient) = 0 /\ Apps(batch) = 0
      /\ Count(uplink, Query) = 0 /\ Count(downlink, Answers) = 0 /\ Count(inbox, Answers) = 0
  BY AppsProperties, CountEmpty DEF Init, C!Init, C!SocketInit
<1>3. WireInv
  <2>1. WireTypeOK
    BY <1>2, NothingView, EmptySeq DEF WireTypeOK, Init, P!Init
  <2>2. AnswersCounted
    BY <1>2, NothingView DEF AnswersCounted, InFlightQueries, Init, C!Init, P!Init
  <2> QED BY <2>1, <2>2 DEF WireInv
<1>4. StackInv /\ QueueOK
  BY DEF Init, C!Init, E!Init, P!Init, P!Idle, StackInv, QueueOK, InEvent, InPresence
<1> QED BY <1>1, <1>3, <1>4 DEF PInv, Init

\* What the client does to its connection, with Event on the same stack, with
\* messages read in batches and answers that outlive the connection they were
\* asked on, is what Presence expects of its link.  (client.cpp, Connection::send,
\* Presence::send_)
THEOREM ClientImplementsPresence == Spec => ImplementsPresence
<1>1. Init => ConnInv /\ PInv /\ P!Init
  BY InitMaps
<1>2. ConnInv /\ [Next]_vars => ConnInv'
  BY NextStep, ConnInvStep
<1>3. ConnInv /\ ConnInv' /\ PInv /\ [Next]_vars => PInv' /\ [P!Next]_(P!vars)
  BY NextMaps DEF Mapped
<1> QED
  BY <1>1, <1>2, <1>3, PTL DEF Spec, ImplementsPresence, P!Spec
================================================================================
