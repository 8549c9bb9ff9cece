---------------------------- MODULE Event_proofs ----------------------------
(***************************************************************************)
(* Theorems about module Event, for any number of names, patterns,         *)
(* subscriptions, emits and nested notifications.                          *)
(***************************************************************************)
EXTENDS Event, Lists_proofs

-----------------------------------------------------------------------------
(***************************************************************************)
(* Types.                                                                  *)
(***************************************************************************)

MapTypeOK ==
    /\ subscriber_map_ \in [Names -> Seq(Ids)]
    /\ subscribe_fn_map_ \subseteq Ids
    /\ empty_fns \subseteq Ids
    /\ subscription_counter_ \in Nat
    /\ listener_map_ \subseteq Patterns
    /\ event_crashed \in BOOLEAN

FrameTypeOK == frames \in Seq(Frame)

\* The top of the stack, and what is left without it.
LEMMA TopFrame ==
    ASSUME FrameTypeOK, frames # <<>>
    PROVE  /\ Len(frames) \in 1 .. Len(frames) /\ Len(frames) \in Nat
           /\ Top \in Frame
           /\ Below \in Seq(Frame) /\ Len(Below) = Len(frames) - 1
           /\ \A i \in 1 .. Len(frames) - 1 : Below[i] = frames[i]
<1>1. Len(frames) \in Nat \ {0}
  BY EmptySeq, LenProperties DEF FrameTypeOK
<1>2. \A i \in 1 .. Len(frames) : frames[i] \in Frame
  BY ElementOfSeq DEF FrameTypeOK
<1>3. Len(frames) - 1 \in Nat /\ Len(frames) - 1 <= Len(frames)
  BY <1>1
<1>4. /\ Below \in Seq(Frame) /\ Len(Below) = Len(frames) - 1
      /\ \A i \in 1 .. Len(frames) - 1 : Below[i] = frames[i]
  BY <1>3, PrefixProperties DEF FrameTypeOK, Below
<1> QED BY <1>1, <1>2, <1>4 DEF Top

LEMMA UnwindsProperties ==
    ASSUME FrameTypeOK, NEW n \in Nat, Unwinds(n)
    PROVE  /\ frames' \in Seq(Frame) /\ Len(frames') = n
           /\ \A i \in 1 .. n : i \in 1 .. Len(frames) /\ frames'[i] = frames[i]
<1>1. n <= Len(frames)
  BY LenProperties DEF FrameTypeOK, Unwinds
<1> QED BY <1>1, PrefixProperties DEF FrameTypeOK, Unwinds

\* A change of the top frame.
LEMMA TopChanges ==
    ASSUME FrameTypeOK, frames # <<>>, NEW f \in Frame,
           frames' = [frames EXCEPT ![Len(frames)] = f]
    PROVE  /\ frames' \in Seq(Frame) /\ Len(frames') = Len(frames)
           /\ \A i \in 1 .. Len(frames) :
                frames'[i] = IF i = Len(frames) THEN f ELSE frames[i]
BY TopFrame, ExceptSeq DEF FrameTypeOK

LEMMA NotifyProperties ==
    ASSUME MapTypeOK, FrameTypeOK, NEW name \in Names, Notify(name)
    PROVE  /\ frames' \in Seq(Frame) /\ Len(frames') = Len(frames) + 1
           /\ \A i \in 1 .. Len(frames) : frames'[i] = frames[i]
           /\ frames'[Len(frames) + 1].todo = subscriber_map_[name]
<1> DEFINE f == [kind |-> "event", todo |-> subscriber_map_[name], running |-> FALSE]
<1>1. f \in Frame /\ f.todo = subscriber_map_[name]
  BY DEF MapTypeOK, Frame
<1>2. frames' = Append(frames, f)
  BY DEF Notify
<1> HIDE DEF f
<1>3. /\ Append(frames, f) \in Seq(Frame)
      /\ Len(Append(frames, f)) = Len(frames) + 1
      /\ \A i \in 1 .. Len(frames) : Append(frames, f)[i] = frames[i]
      /\ Append(frames, f)[Len(frames) + 1] = f
  BY <1>1, AppendProperties DEF FrameTypeOK
<1> QED BY <1>1, <1>2, <1>3

\* The maps and the stack keep their types.
LEMMA MapTypeStep ==
    ASSUME MapTypeOK, FrameTypeOK, online \in BOOLEAN, [Next]_vars PROVE MapTypeOK'
<1> USE DEF MapTypeOK
<1>0. ASSUME UNCHANGED <<mapVars, listener_map_>>, event_crashed' \in BOOLEAN
      PROVE  MapTypeOK'
  BY <1>0 DEF mapVars
<1>1. ASSUME NEW name \in Names, Emit(name) PROVE MapTypeOK'
  BY <1>0, <1>1 DEF Emit, EmitLocal
<1>2. ASSUME NEW name \in Names, Subscribe(name) PROVE MapTypeOK'
  <2>1. Append(subscriber_map_[name], subscription_counter_) \in Seq(Ids)
    BY AppendProperties DEF Ids
  <2> QED BY <1>2, <2>1 DEF Subscribe, SubscribeLocal, AddSubscriber, Ids
<1>3. ASSUME NEW name \in Names, UnsubscribeName(name) PROVE MapTypeOK'
  <2>1. <<>> \in Seq(Ids)
    BY EmptySeq
  <2> QED BY <1>3, <2>1 DEF UnsubscribeName, UnsubscribeNameLocal, RemoveName
<1>4. ASSUME NEW name \in Names, NEW id, UnsubscribeId(name, id) PROVE MapTypeOK'
  <2>1. PICK i \in 1 .. Len(subscriber_map_[name]) :
          subscriber_map_' = [subscriber_map_ EXCEPT ![name] = RemoveAt(@, i)]
    BY <1>4 DEF UnsubscribeId, UnsubscribeIdLocal
  <2>2. RemoveAt(subscriber_map_[name], i) \in Seq(Ids)
    BY RemoveAtProperties
  <2>3. subscriber_map_' \in [Names -> Seq(Ids)]
    BY <2>1, <2>2
  <2> QED BY <1>4, <2>3 DEF UnsubscribeId, UnsubscribeIdLocal
<1>5. ASSUME NEW pattern \in Patterns, Listen(pattern) \/ Unlisten(pattern)
      PROVE  MapTypeOK'
  <2>2. CASE Listen(pattern)
    BY <2>2 DEF Listen, ListenLocal, mapVars
  <2>3. CASE Unlisten(pattern)
    BY <2>3 DEF Unlisten, mapVars
  <2> QED BY <1>5, <2>2, <2>3
<1>6. CASE PresenceSubscribes
  BY <1>6 DEF PresenceSubscribes
<1>7. ASSUME NEW n, CallErased(n) PROVE MapTypeOK'
  <2>1. Top \in Frame /\ Top.todo # <<>>
    BY <1>7, TopFrame DEF CallErased
  <2>2. Head(Top.todo) \in Ids
    BY <2>1, HeadTailProperties DEF Frame
  <2> QED BY <1>7, <2>2 DEF CallErased
<1>8. CASE CallNext \/ CallbackReturns \/ NotifyReturns \/ ListenerReturns \/ Throws
  <2>1. (event_crashed' = event_crashed \/ event_crashed' \in BOOLEAN)
        /\ UNCHANGED <<mapVars, listener_map_>>
    BY <1>8 DEF CallNext, CallbackReturns, NotifyReturns, ListenerReturns,
                ListenerReturnsLocal, Throws, CallbackThrows
  <2> QED BY <1>0, <2>1
<1>9. CASE Loops
  BY <1>9, <1>7, <1>8 DEF Loops
<1>10. CASE Link
  <2>1. UNCHANGED <<mapVars, listener_map_, event_crashed>>
    BY <1>10 DEF Link, EventArrives, PatternArrives, Reconnect, ReconnectAndFail,
                 Flushed, WriteAndPop, ConnectionLost
  <2> QED BY <1>0, <2>1
<1>11. CASE User
  BY <1>11, <1>1, <1>2, <1>3, <1>4, <1>5, <1>6 DEF User
<1>12. CASE UNCHANGED vars
  BY <1>0, <1>12 DEF vars
<1> QED BY <1>8, <1>9, <1>10, <1>11, <1>12 DEF Next

LEMMA FrameTypeStep ==
    ASSUME MapTypeOK, FrameTypeOK, [Next]_vars PROVE FrameTypeOK'
<1>0. ASSUME UNCHANGED frames PROVE FrameTypeOK'
  BY <1>0 DEF FrameTypeOK
<1>1. ASSUME NEW name \in Names, Emit(name) \/ EventArrives(name) PROVE FrameTypeOK'
  <2>1. Notify(name) \/ UNCHANGED frames
    BY <1>1 DEF Emit, EmitLocal, EventArrives
  <2> QED BY <1>0, <2>1, NotifyProperties DEF FrameTypeOK
<1>2. CASE User
  <2>1. (\E name \in Names : Emit(name)) \/ UNCHANGED frames
    BY <1>2 DEF User, Subscribe, SubscribeLocal, AddSubscriber, UnsubscribeName,
       UnsubscribeNameLocal, UnsubscribeId, UnsubscribeIdLocal, Listen, ListenLocal,
       Unlisten, PresenceSubscribes
  <2> QED BY <1>0, <1>1, <2>1
<1>3. CASE CallNext
  <2> DEFINE f == [Top EXCEPT !.running = TRUE]
  <2>1. frames # <<>> /\ frames' = [frames EXCEPT ![Len(frames)] = f]
    BY <1>3 DEF CallNext, Top
  <2>2. f \in Frame
    BY <2>1, TopFrame DEF Frame
  <2> HIDE DEF f
  <2> QED BY <2>1, <2>2, TopChanges DEF FrameTypeOK
<1>4. CASE CallbackReturns
  <2> DEFINE f == [kind |-> "event", todo |-> Tail(Top.todo), running |-> FALSE]
  <2>1. /\ frames # <<>> /\ frames' = [frames EXCEPT ![Len(frames)] = f]
        /\ Top.todo # <<>>
    BY <1>4 DEF CallbackReturns
  <2>2. f \in Frame
    <3>1. Top \in Frame
      BY <2>1, TopFrame
    <3>2. Tail(Top.todo) \in Seq(Ids)
      BY <2>1, <3>1, HeadTailProperties DEF Frame
    <3> QED BY <3>2 DEF Frame
  <2> HIDE DEF f
  <2> QED BY <2>1, <2>2, TopChanges DEF FrameTypeOK
<1>5. CASE NotifyReturns \/ ListenerReturns
  BY <1>5, TopFrame DEF NotifyReturns, ListenerReturns, ListenerReturnsLocal, FrameTypeOK
<1>6. ASSUME NEW n \in 0 .. MaxDepth, CallErased(n) \/ CallbackThrows(n)
      PROVE  FrameTypeOK'
  BY <1>6, UnwindsProperties, BoundsAssumption DEF CallErased, CallbackThrows, FrameTypeOK
<1>7. ASSUME NEW pattern, NEW kind \in {"found", "removed"}, PatternArrives(kind, pattern)
      PROVE  FrameTypeOK'
  <2> DEFINE f == [kind |-> kind, todo |-> <<>>, running |-> TRUE]
  <2>1. f \in Frame /\ frames' = <<f>>
    BY <1>7, EmptySeq DEF PatternArrives, Frame
  <2> HIDE DEF f
  <2> QED BY <2>1 DEF FrameTypeOK
<1>8. CASE Link
  <2>1. ASSUME Reconnect \/ ConnectionLost PROVE UNCHANGED frames
    BY <2>1 DEF Reconnect, ConnectionLost, Flushed, WriteAndPop
  <2>3. ASSUME NEW n, ReconnectAndFail(n) PROVE UNCHANGED frames
    BY <2>3 DEF ReconnectAndFail, Flushed, WriteAndPop
  <2> QED BY <1>0, <1>1, <1>7, <1>8, <2>1, <2>3 DEF Link
<1> QED BY <1>0, <1>2, <1>3, <1>4, <1>5, <1>6, <1>8 DEF Next, Loops, Throws, vars

-----------------------------------------------------------------------------
(***************************************************************************)
(* The outbox.                                                             *)
(***************************************************************************)

OutTypeOK ==
    /\ send_queue_ \in Seq(Nat)
    /\ sent \in Seq(Nat)
    /\ emitted \in Nat
    /\ online \in BOOLEAN

OutInv == OutTypeOK /\ EmitsInOrder

\* What is numbered so far.
Log(n) == [i \in 1 .. n |-> i]

LEMMA LogType == ASSUME NEW n \in Nat PROVE Log(n) \in Seq(Nat) /\ Len(Log(n)) = n
<1>1. Log(n) \in [1 .. n -> Nat]
  BY DEF Log
<1>2. Log(n) \in Seq(Nat)
  BY <1>1, SeqDef
<1> QED BY <1>1, <1>2, LenProperties

LEMMA LogAppend == ASSUME NEW n \in Nat PROVE Append(Log(n), n + 1) = Log(n + 1)
<1>1. /\ Append(Log(n), n + 1) \in Seq(Nat) /\ Log(n + 1) \in Seq(Nat)
      /\ Len(Append(Log(n), n + 1)) = Len(Log(n + 1))
  BY LogType, AppendProperties
<1>2. \A i \in 1 .. n + 1 : Append(Log(n), n + 1)[i] = i
  BY LogType, AppendProperties DEF Log
<1>3. \A i \in 1 .. n + 1 : Log(n + 1)[i] = i
  BY DEF Log
<1>4. Len(Log(n + 1)) = n + 1
  BY LogType
<1> QED BY <1>1, <1>2, <1>3, <1>4, SeqEqual

\* A flush moves a prefix of the queue.
LEMMA FlushMoves ==
    ASSUME OutTypeOK, NEW n \in 0 .. Len(send_queue_), Flushed(n)
    PROVE  /\ sent' \in Seq(Nat) /\ send_queue_' \in Seq(Nat)
           /\ sent' \o send_queue_' = sent \o send_queue_
           /\ n = Len(send_queue_) => send_queue_' = <<>>
           /\ emitted' = emitted
<1> DEFINE q == send_queue_
           p == SubSeq(q, 1, n)
           r == SubSeq(q, n + 1, Len(q))
<1>1. /\ sent' = sent \o p /\ send_queue_' = r /\ emitted' = emitted
  BY DEF Flushed, WriteAndPop
<1>2. q \in Seq(Nat) /\ Len(q) \in Nat
  BY LenProperties DEF OutTypeOK
<1>3. p \in Seq(Nat) /\ r \in Seq(Nat)
  BY <1>2, SubSeqProperties, ElementOfSeq
<1>4. p \o r = q
  <2>1. SubSeq(q, 1, n) \o SubSeq(q, n + 1, Len(q)) = SubSeq(q, 1, Len(q))
    <3>1. /\ 1 \in 1 .. Len(q) + 1 /\ n \in 1 - 1 .. Len(q)
          /\ Len(q) \in n .. Len(q)
      BY <1>2
    <3> HIDE DEF q
    <3> QED BY <1>2, <3>1, ConcatAdjacentSubSeq
  <2>2. SubSeq(q, 1, Len(q)) = q
    BY <1>2, SubSeqFull
  <2> QED BY <2>1, <2>2
<1>5. n = Len(q) => r = <<>>
  BY <1>2, SubSeqEmpty
<1>7. sent \in Seq(Nat)
  BY DEF OutTypeOK
<1> HIDE DEF q, p, r
<1>6. sent \o p \in Seq(Nat) /\ (sent \o p) \o r = sent \o (p \o r)
  <2>1. sent \o p \in Seq(Nat)
    BY <1>3, <1>7, ConcatProperties
  <2>2. (sent \o p) \o r = sent \o (p \o r)
    <3>1. \A x, y, z \in Seq(Nat) : (x \o y) \o z = x \o (y \o z)
      BY ConcatAssociative
    <3> QED BY <1>3, <1>7, <3>1, Zenon
  <2> QED BY <2>1, <2>2
<1> QED BY <1>1, <1>3, <1>4, <1>5, <1>6 DEF q

\* Steps that do not touch the outbox.
LEMMA OutIdle ==
    ASSUME OutInv, UNCHANGED outVars, online' \in BOOLEAN, online' => online
    PROVE  OutInv'
BY DEF OutInv, OutTypeOK, EmitsInOrder, outVars

LEMMA EmitOut ==
    ASSUME OutInv, NEW name \in Names, Emit(name) PROVE OutInv'
<1>0. PICK ok \in BOOLEAN : EmitLocal(name, ok) /\ Sends(ok, session)
  BY DEF Emit
<1>1. emitted' = emitted + 1 /\ emitted + 1 \in Nat
  BY <1>0 DEF EmitLocal, OutInv, OutTypeOK
<1>2. sent \o send_queue_ = Log(emitted)
  BY DEF OutInv, EmitsInOrder, Log
<1>3. Append(Log(emitted), emitted + 1) = Log(emitted')
  BY <1>1, LogAppend DEF OutInv, OutTypeOK
<1>4. CASE ok
  <2>0. sent' = Append(sent, emitted + 1) /\ UNCHANGED send_queue_
    BY <1>0, <1>4 DEF EmitLocal
  <2>1. send_queue_ = <<>> /\ online' = online
    BY <1>0, <1>4 DEF Sends, OutInv, EmitsInOrder
  <2>2. sent' \in Seq(Nat) /\ sent \o <<>> = sent /\ sent' \o <<>> = sent'
    BY <1>1, <2>0, AppendProperties, ConcatEmptySeq DEF OutInv, OutTypeOK
  <2>3. sent' \o send_queue_' = Log(emitted')
    BY <1>2, <1>3, <2>0, <2>1, <2>2
  <2> QED BY <1>1, <2>0, <2>1, <2>2, <2>3 DEF OutInv, OutTypeOK, EmitsInOrder, Log
<1>5. CASE ~ok
  <2>0. send_queue_' = Append(send_queue_, emitted + 1) /\ UNCHANGED sent
    BY <1>0, <1>5 DEF EmitLocal
  <2>1. send_queue_' \in Seq(Nat)
    BY <1>1, <2>0, AppendProperties DEF OutInv, OutTypeOK
  <2>2. sent \o Append(send_queue_, emitted + 1) = Append(sent \o send_queue_, emitted + 1)
    <3>1. <<emitted + 1>> \in Seq(Nat) /\ sent \o send_queue_ \in Seq(Nat)
      BY <1>1, ConcatProperties DEF OutInv, OutTypeOK
    <3> QED BY <1>1, <3>1, AppendIsConcat, ConcatAssociative DEF OutInv, OutTypeOK
  <2>3. online' = FALSE
    BY <1>0, <1>5 DEF Sends
  <2> QED BY <1>1, <1>2, <1>3, <2>0, <2>1, <2>2, <2>3
          DEF OutInv, OutTypeOK, EmitsInOrder, Log
<1> QED BY <1>4, <1>5

\* What each step does to the outbox.
LEMMA OutStep ==
    ASSUME OutInv, [Next]_vars
    PROVE  /\ OutInv'
           /\ \/ UNCHANGED <<emitted, sent>>
              \/ \E name \in Names : Emit(name)
              \/ \E n \in 0 .. Len(send_queue_) : Flushed(n)
<1>0. ASSUME UNCHANGED outVars, online' \in BOOLEAN, online' => online
      PROVE  OutInv' /\ UNCHANGED <<emitted, sent>>
  BY <1>0, OutIdle DEF outVars
<1>t. online \in BOOLEAN
  BY DEF OutInv, OutTypeOK
<1>s. ASSUME NEW needed, NEW new, Tells(needed, new) \/ UNCHANGED linkVars
      PROVE  online' \in BOOLEAN /\ (online' => online)
  <2>1. online' = online \/ online' = FALSE
    BY <1>s DEF Tells, Sends, linkVars
  <2>2. CASE online' = online
    BY <1>t, <2>2
  <2>3. CASE online' = FALSE
    BY <2>3
  <2> QED BY <2>1, <2>2, <2>3
<1>1. ASSUME NEW name \in Names, Subscribe(name)
      PROVE  OutInv' /\ UNCHANGED <<emitted, sent>>
  BY <1>1, <1>0, <1>s DEF Subscribe, SubscribeLocal, AddSubscriber
<1>2. ASSUME NEW name \in Names, UnsubscribeName(name)
      PROVE  OutInv' /\ UNCHANGED <<emitted, sent>>
  BY <1>2, <1>0, <1>s DEF UnsubscribeName, UnsubscribeNameLocal, RemoveName
<1>3. ASSUME NEW name \in Names, NEW id, UnsubscribeId(name, id)
      PROVE  OutInv' /\ UNCHANGED <<emitted, sent>>
  BY <1>3, <1>0, <1>s DEF UnsubscribeId, UnsubscribeIdLocal, RemoveName
<1>4. ASSUME NEW pattern \in Patterns, Listen(pattern) \/ Unlisten(pattern)
      PROVE  OutInv' /\ UNCHANGED <<emitted, sent>>
  BY <1>4, <1>0, <1>s DEF Listen, ListenLocal, Unlisten
<1>14. CASE PresenceSubscribes
  BY <1>14, <1>0, <1>s DEF PresenceSubscribes
<1>5. CASE Loops \/ Throws
  BY <1>5, <1>0, <1>s DEF Loops, CallNext, CallErased, CallbackReturns, NotifyReturns,
                          ListenerReturns, ListenerReturnsLocal, Throws, CallbackThrows
<1>6. ASSUME NEW name \in Names, EventArrives(name)
      PROVE  OutInv' /\ UNCHANGED <<emitted, sent>>
  BY <1>6, <1>0, <1>s DEF EventArrives
<1>7. ASSUME NEW pattern \in Patterns, NEW kind, PatternArrives(kind, pattern)
      PROVE  OutInv' /\ UNCHANGED <<emitted, sent>>
  BY <1>7, <1>0, <1>s DEF PatternArrives
<1>l. Len(send_queue_) \in Nat
  BY LenProperties DEF OutInv, OutTypeOK
<1>8. CASE Reconnect
  <2>1. Flushed(Len(send_queue_)) /\ online' = TRUE /\ Len(send_queue_) \in 0 .. Len(send_queue_)
    BY <1>8, <1>l DEF Reconnect
  <2> QED BY <2>1, FlushMoves DEF OutInv, OutTypeOK, EmitsInOrder
<1>9. ASSUME NEW n \in 0 .. Len(send_queue_) - 1, ReconnectAndFail(n)
      PROVE  OutInv' /\ \E k \in 0 .. Len(send_queue_) : Flushed(k)
  <2>1. Flushed(n) /\ online' = online /\ ~online /\ n \in 0 .. Len(send_queue_)
    BY <1>9, <1>l DEF ReconnectAndFail, linkVars
  <2> QED BY <2>1, FlushMoves DEF OutInv, OutTypeOK, EmitsInOrder
<1>10. CASE ConnectionLost
  BY <1>10, <1>0 DEF ConnectionLost, Sends
<1>11. CASE UNCHANGED vars
  BY <1>11, <1>0, <1>t DEF vars, linkVars
<1>12. CASE User
  BY <1>12, <1>1, <1>2, <1>3, <1>4, <1>14, EmitOut DEF User
<1>13. CASE Link
  BY <1>13, <1>6, <1>7, <1>8, <1>9, <1>10 DEF Link
<1> QED BY <1>5, <1>11, <1>12, <1>13 DEF Next

LEMMA OutInit == Init => OutInv
<1> SUFFICES ASSUME Init PROVE OutInv
  OBVIOUS
<1>1. sent = <<>> /\ send_queue_ = <<>> /\ emitted = 0 /\ online = FALSE
  BY DEF Init
<1>2. OutTypeOK
  <2>1. <<>> \in Seq(Nat) /\ 0 \in Nat /\ FALSE \in BOOLEAN
    BY EmptySeq
  <2> QED BY <1>1, <2>1, Zenon DEF OutTypeOK
<1>3. sent \o send_queue_ = Log(emitted)
  <2>1. Log(0) \in Seq(Nat) /\ Len(Log(0)) = 0
    BY LogType
  <2>2. Log(0) = <<>>
    BY <2>1, EmptySeq
  <2>3. <<>> \in Seq(Nat) /\ <<>> \o <<>> = <<>>
    BY ConcatEmptySeq
  <2> QED BY <1>1, <2>2, <2>3
<1> QED BY <1>1, <1>2, <1>3 DEF OutInv, EmitsInOrder, Log

\* What was written to the sockets, followed by what is queued, is every emit
\* once and in order, for any number of emits, drops and partial flushes.
\* (emit, on_connection_state_change_)
THEOREM NoEmitLost == Spec => []EmitsInOrder
<1>1. OutInv /\ [Next]_vars => OutInv'
  BY OutStep
<1>2. OutInv => EmitsInOrder
  BY DEF OutInv
<1> QED BY OutInit, <1>1, <1>2, PTL DEF Spec

-----------------------------------------------------------------------------
(***************************************************************************)
(* Event implements Outbox.                                                *)
(***************************************************************************)

LEMMA PrefixIs ==
    ASSUME NEW a \in Seq(Nat), NEW b \in Seq(Nat)
    PROVE  /\ a = SubSeq(a \o b, 1, Len(a))
           /\ Len(a) \in Nat /\ Len(a) <= Len(a \o b)
<1>1. /\ Len(a) \in Nat /\ Len(b) \in Nat
      /\ Len(a \o b) = Len(a) + Len(b) /\ a \o b \in Seq(Nat)
      /\ \A i \in 1 .. Len(a) : (a \o b)[i] = a[i]
  BY LenProperties, ConcatProperties
<1>2. \A i \in 1 .. Len(a) : (a \o b)[i] \in Nat
  BY <1>1, ElementOfSeq
<1>3. /\ SubSeq(a \o b, 1, Len(a)) \in Seq(Nat)
      /\ Len(SubSeq(a \o b, 1, Len(a))) = Len(a)
      /\ \A i \in 1 .. Len(a) : SubSeq(a \o b, 1, Len(a))[i] = (a \o b)[i]
  BY <1>1, <1>2, SubSeqProperties
<1> QED BY <1>1, <1>3, SeqEqual

LEMMA OutboxStep ==
    ASSUME OutInv, OutInv', [Next]_vars PROVE [Promise!Next]_(Promise!vars)
<1> USE DEF Promise!Next, Promise!vars
<1>1. CASE UNCHANGED <<emitted, sent>>
  BY <1>1
<1>2. ASSUME NEW name \in Names, Emit(name) PROVE Promise!Next
  <2>0. PICK ok \in BOOLEAN : EmitLocal(name, ok) /\ Sends(ok, session)
    BY <1>2 DEF Emit
  <2>1. emitted + 1 \in 1 .. MaxEmits
    BY <2>0, BoundsAssumption DEF EmitLocal, OutInv, OutTypeOK
  <2>2. Log(emitted') = Append(Log(emitted), emitted + 1)
    BY <2>0, LogAppend DEF EmitLocal, OutInv, OutTypeOK
  <2>3. sent' = sent \/ sent' = Log(emitted')
    <3>1. CASE ok
      <4>0. sent' = Append(sent, emitted + 1)
        BY <2>0, <3>1 DEF EmitLocal
      <4>1. send_queue_ = <<>>
        BY <2>0, <3>1 DEF Sends, OutInv, EmitsInOrder
      <4>2. sent \o <<>> = sent
        BY ConcatEmptySeq DEF OutInv, OutTypeOK
      <4>3. sent = Log(emitted)
        BY <4>1, <4>2 DEF OutInv, EmitsInOrder, Log
      <4> QED BY <4>0, <4>3, <2>2
    <3>2. CASE ~ok
      BY <2>0, <3>2 DEF EmitLocal
    <3> QED BY <3>1, <3>2
  <2> HIDE DEF Promise!Next
  <2>4. \E e \in 1 .. MaxEmits :
          Log(emitted') = Append(Log(emitted), e) /\ sent' \in {sent, Log(emitted')}
    BY <2>1, <2>2, <2>3
  <2>5. \E e \in 1 .. MaxEmits : Promise!Submit(e)
    BY <2>4 DEF Promise!Submit, Log
  <2>6. (\E e \in 1 .. MaxEmits : Promise!Submit(e)) => Promise!Next
    BY DEF Promise!Next
  <2> QED BY <2>5, <2>6
<1>3. ASSUME NEW n \in 0 .. Len(send_queue_), Flushed(n) PROVE Promise!Next
  <2> DEFINE p == SubSeq(send_queue_, 1, n)
  <2>1. sent' = sent \o p /\ emitted' = emitted
    BY <1>3 DEF Flushed, WriteAndPop
  <2>2. p \in Seq(Nat) /\ sent \in Seq(Nat)
    <3>1. Len(send_queue_) \in Nat /\ send_queue_ \in Seq(Nat)
      BY LenProperties DEF OutInv, OutTypeOK
    <3>2. \A i \in 1 .. n : send_queue_[i] \in Nat
      BY <1>3, <3>1, ElementOfSeq
    <3> QED BY <1>3, <3>1, <3>2, SubSeqProperties DEF OutInv, OutTypeOK
  <2> HIDE DEF p
  <2>3. Len(sent) \in Nat /\ Len(sent) <= Len(sent')
    BY <2>1, <2>2, PrefixIs
  <2>4. sent' \o send_queue_' = Log(emitted)
    BY <2>1 DEF OutInv, EmitsInOrder, Log
  <2>5. /\ sent' = SubSeq(Log(emitted), 1, Len(sent'))
        /\ Len(sent') \in Nat /\ Len(sent') <= Len(Log(emitted))
    <3>1. sent' \in Seq(Nat) /\ send_queue_' \in Seq(Nat)
      BY DEF OutInv, OutTypeOK
    <3> QED BY <2>4, <3>1, PrefixIs
  <2>6. Len(sent') \in Len(sent) .. Len(Log(emitted)) /\ Len(Log(emitted)) \in Nat
    <3>1. Len(Log(emitted)) \in Nat
      BY LogType DEF OutInv, OutTypeOK
    <3> QED BY <2>3, <2>5, <3>1
  <2>7. Promise!Deliver(Len(sent'))
    BY <2>1, <2>5 DEF Promise!Deliver, Log
  <2> QED BY <2>6, <2>7 DEF Log
<1> QED BY <1>1, <1>2, <1>3, OutStep

\* emit() and the flush implement module Outbox: in order, exactly once.
THEOREM EventImplementsOutbox == Spec => ImplementsOutbox
<1>1. Init => Promise!Init
  BY LogType, EmptySeq DEF Init, Promise!Init, Log
<1>2. OutInv /\ [Next]_vars => OutInv'
  BY OutStep
<1>3. OutInv /\ OutInv' /\ [Next]_vars => [Promise!Next]_(Promise!vars)
  BY OutboxStep
<1> QED BY OutInit, <1>1, <1>2, <1>3, PTL DEF Spec, ImplementsOutbox, Promise!Spec

-----------------------------------------------------------------------------
(***************************************************************************)
(* The server's view of the client.                                        *)
(***************************************************************************)

KnownInv ==
    /\ session \in [subs : SUBSET Names, listens : SUBSET Patterns]
    /\ listener_map_ \subseteq Patterns
    /\ ServerKnowsSubscriptions

LEMMA KnownStep ==
    ASSUME MapTypeOK, KnownInv, [Next]_vars PROVE KnownInv'
<1> USE DEF KnownInv, ServerKnowsSubscriptions
<1> DEFINE SessionType == [subs : SUBSET Names, listens : SUBSET Patterns]
<1>d. NoSession \in SessionType
  BY DEF NoSession
\* What the application has does not grow, or the server is told.
<1>0. ASSUME NEW new \in SessionType, NEW ok \in BOOLEAN, Sends(ok, new),
             listener_map_' \subseteq Patterns,
             Subscribed' \subseteq new.subs \/ ~online,
             listener_map_' \subseteq new.listens \/ ~online
      PROVE  KnownInv'
  BY <1>0, <1>d DEF Sends
<1>1. ASSUME UNCHANGED linkVars, Subscribed' \subseteq Subscribed, listener_map_' \subseteq listener_map_
      PROVE  KnownInv'
  BY <1>1 DEF linkVars
<1>2. ASSUME UNCHANGED subscriber_map_
      PROVE  Subscribed' = Subscribed
  BY <1>2 DEF Subscribed
<1>3. ASSUME NEW name \in Names, Emit(name) PROVE KnownInv'
  <2>1. UNCHANGED <<subscriber_map_, listener_map_>>
    BY <1>3 DEF Emit, EmitLocal, mapVars
  <2>2. \E ok \in BOOLEAN : Sends(ok, session)
    BY <1>3 DEF Emit
  <2> QED BY <1>0, <1>2, <2>1, <2>2
<1>4. ASSUME NEW name \in Names, Subscribe(name) PROVE KnownInv'
  <2>1. /\ subscriber_map_' = [subscriber_map_ EXCEPT
              ![name] = Append(subscriber_map_[name], subscription_counter_)]
        /\ listener_map_' = listener_map_
    BY <1>4 DEF Subscribe, SubscribeLocal, AddSubscriber
  <2>2. Subscribed' \subseteq Subscribed \cup {name}
    BY <2>1 DEF Subscribed
  <2>3. CASE name \in Subscribed
    BY <1>1, <1>4, <2>1, <2>2, <2>3 DEF Subscribe, SubscribeTells, Tells
  <2>4. CASE name \notin Subscribed
    <3> DEFINE new == [session EXCEPT !.subs = @ \cup {name}]
    <3>1. \E ok \in BOOLEAN : Sends(ok, new)
      BY <1>4, <2>4 DEF Subscribe, SubscribeTells, Tells
    <3>2. /\ new \in SessionType
          /\ new.subs = session.subs \cup {name} /\ new.listens = session.listens
      OBVIOUS
    <3> HIDE DEF new
    <3> QED BY <1>0, <2>1, <2>2, <3>1, <3>2
  <2> QED BY <2>3, <2>4
<1>5. ASSUME NEW name \in Names, NEW needed \in BOOLEAN,
             UNCHANGED listener_map_,
             Subscribed' \subseteq Subscribed,
             needed => Subscribed' \subseteq Subscribed \ {name},
             Tells(needed, [session EXCEPT !.subs = @ \ {name}])
      PROVE  KnownInv'
  <2>1. CASE needed
    <3> DEFINE new == [session EXCEPT !.subs = @ \ {name}]
    <3>1. \E ok \in BOOLEAN : Sends(ok, new)
      BY <1>5, <2>1 DEF Tells
    <3>2. /\ new \in SessionType
          /\ new.subs = session.subs \ {name} /\ new.listens = session.listens
      OBVIOUS
    <3> HIDE DEF new
    <3> QED BY <1>0, <1>5, <2>1, <3>1, <3>2
  <2>2. CASE ~needed
    BY <1>1, <1>5, <2>2 DEF Tells
  <2> QED BY <2>1, <2>2
<1>6. ASSUME NEW name \in Names, UnsubscribeName(name) PROVE KnownInv'
  <2>1. subscriber_map_' = [subscriber_map_ EXCEPT ![name] = <<>>] /\ UNCHANGED listener_map_
    BY <1>6 DEF UnsubscribeName, UnsubscribeNameLocal, RemoveName
  <2>2. Subscribed' \subseteq Subscribed \ {name}
    BY <2>1 DEF Subscribed, MapTypeOK
  <2> DEFINE needed == UnsubscribeTells(name)
  <2>3. Tells(needed, [session EXCEPT !.subs = @ \ {name}])
    BY <1>6 DEF UnsubscribeName
  <2>4. needed \in BOOLEAN
    BY DEF UnsubscribeTells
  <2> HIDE DEF needed
  <2> QED BY <1>5, <2>1, <2>2, <2>3, <2>4
<1>7. ASSUME NEW name \in Names, NEW id, UnsubscribeId(name, id) PROVE KnownInv'
  <2>0. PICK i \in 1 .. Len(subscriber_map_[name]) :
          subscriber_map_' = [subscriber_map_ EXCEPT ![name] = RemoveAt(@, i)]
    BY <1>7 DEF UnsubscribeId, UnsubscribeIdLocal
  <2> DEFINE rest == RemoveAt(subscriber_map_[name], i)
  <2>1. subscriber_map_' = [subscriber_map_ EXCEPT ![name] = rest] /\ UNCHANGED listener_map_
    BY <1>7, <2>0 DEF UnsubscribeId, UnsubscribeIdLocal
  <2>2. subscriber_map_[name] \in Seq(Ids)
    BY DEF MapTypeOK
  <2>3. /\ name \in Subscribed
        /\ LastOf(name) => rest = <<>>
    <3>1. rest \in Seq(Ids) /\ Len(rest) = Len(subscriber_map_[name]) - 1
      BY <2>2, RemoveAtProperties
    <3> HIDE DEF rest
    <3>2. subscriber_map_[name] # <<>>
      BY <2>0, EmptySeq
    <3>3. LastOf(name) => Len(rest) = 0
      BY <3>1 DEF LastOf
    <3> QED BY <3>1, <3>2, <3>3, EmptySeq DEF Subscribed
  <2> HIDE DEF rest
  <2>4. Subscribed' \subseteq Subscribed /\ (rest = <<>> => name \notin Subscribed')
    BY <2>1, <2>3 DEF Subscribed, MapTypeOK
  <2> DEFINE needed == LastOf(name) /\ UnsubscribeTells(name)
  <2>5. Tells(needed, [session EXCEPT !.subs = @ \ {name}])
    BY <1>7 DEF UnsubscribeId
  <2>6. needed \in BOOLEAN /\ (needed => LastOf(name))
    BY DEF LastOf, UnsubscribeTells
  <2> HIDE DEF needed
  <2> QED BY <1>5, <2>1, <2>3, <2>4, <2>5, <2>6
<1>8. ASSUME NEW pattern \in Patterns, Listen(pattern) PROVE KnownInv'
  <2> DEFINE new == [session EXCEPT !.listens = @ \cup {pattern}]
  <2>1. /\ \E ok \in BOOLEAN : Sends(ok, new)
        /\ listener_map_' = listener_map_ \cup {pattern}
        /\ UNCHANGED subscriber_map_
    BY <1>8 DEF Listen, ListenLocal, Tells, mapVars
  <2>2. /\ new \in SessionType
        /\ new.subs = session.subs /\ new.listens = session.listens \cup {pattern}
    OBVIOUS
  <2> HIDE DEF new
  <2> QED BY <1>0, <1>2, <2>1, <2>2
<1>9. ASSUME NEW pattern \in Patterns, Unlisten(pattern) PROVE KnownInv'
  BY <1>1, <1>2, <1>9 DEF Unlisten, mapVars
<1>10. CASE Loops \/ Throws
  <2>1. CASE CallNext \/ CallbackReturns \/ NotifyReturns \/ Throws
             \/ \E n \in 0 .. MaxDepth : CallErased(n)
    BY <1>1, <1>2, <2>1 DEF CallNext, CallErased, CallbackReturns, NotifyReturns,
                            Throws, CallbackThrows, mapVars
  <2>2. CASE ListenerReturns
    <3>1. UNCHANGED <<subscriber_map_, listener_map_>>
      BY <2>2 DEF ListenerReturns, ListenerReturnsLocal, mapVars
    <3>2. (\E ok \in BOOLEAN : Sends(ok, session)) \/ UNCHANGED linkVars
      BY <2>2 DEF ListenerReturns, Tells
    <3> QED BY <1>0, <1>1, <1>2, <3>1, <3>2
  <2> QED BY <1>10, <2>1, <2>2 DEF Loops
<1>17. CASE PresenceSubscribes
  <2>1. UNCHANGED <<subscriber_map_, listener_map_>>
    BY <1>17 DEF PresenceSubscribes
  <2>2. (\E ok \in BOOLEAN : Sends(ok, session)) \/ UNCHANGED linkVars
    BY <1>17 DEF PresenceSubscribes, Tells
  <2> QED BY <1>0, <1>1, <1>2, <2>1, <2>2
<1>11. CASE Reconnect
  <2>1. /\ UNCHANGED <<subscriber_map_, listener_map_>>
        /\ session' = [subs |-> Subscribed, listens |-> listener_map_]
    BY <1>11 DEF Reconnect, Flushed, WriteAndPop, mapVars
  <2>2. Subscribed \subseteq Names
    BY DEF Subscribed
  <2> QED BY <1>2, <2>1, <2>2
<1>12. ASSUME NEW n, ReconnectAndFail(n) PROVE KnownInv'
  BY <1>1, <1>2, <1>12 DEF ReconnectAndFail, Flushed, WriteAndPop, mapVars
<1>13. CASE ConnectionLost
  BY <1>2, <1>13, <1>d DEF ConnectionLost, Sends, mapVars
<1>14. CASE Link
  <2>1. ASSUME NEW name \in Names, EventArrives(name) PROVE KnownInv'
    BY <1>1, <1>2, <2>1 DEF EventArrives, mapVars
  <2>2. ASSUME NEW pattern \in Patterns, NEW kind, PatternArrives(kind, pattern)
        PROVE  KnownInv'
    BY <1>1, <1>2, <2>2 DEF PatternArrives, mapVars
  <2> QED BY <1>14, <1>11, <1>12, <1>13, <2>1, <2>2 DEF Link
<1>15. CASE User
  BY <1>15, <1>3, <1>4, <1>6, <1>7, <1>8, <1>9, <1>17 DEF User
<1>16. CASE UNCHANGED vars
  BY <1>1, <1>2, <1>16 DEF vars, mapVars
<1> QED BY <1>10, <1>14, <1>15, <1>16 DEF Next

-----------------------------------------------------------------------------
EventInv == MapTypeOK /\ FrameTypeOK /\ OutInv /\ KnownInv

LEMMA EventInit == Init => EventInv
<1> SUFFICES ASSUME Init PROVE EventInv
  OBVIOUS
<1>1. KnownInv
  BY DEF Init, NoSession, KnownInv, ServerKnowsSubscriptions
<1>2. MapTypeOK
  <2>1. <<>> \in Seq(Ids)
    BY EmptySeq
  <2> QED BY <2>1 DEF Init, MapTypeOK
<1>3. FrameTypeOK
  BY EmptySeq DEF Init, FrameTypeOK
<1> QED BY <1>1, <1>2, <1>3, OutInit DEF EventInv

LEMMA EventStep == EventInv /\ [Next]_vars => EventInv'
BY MapTypeStep, FrameTypeStep, OutStep, KnownStep DEF EventInv, OutInv, OutTypeOK

\* Every variable of Event keeps its type, for any number of names, patterns, ids,
\* emits and nested notifications.  (all the operations of Event)
THEOREM TypeCorrect == Spec => []TypeOK
<1>1. EventInv => TypeOK
  BY DEF EventInv, MapTypeOK, FrameTypeOK, OutInv, OutTypeOK, KnownInv, TypeOK
<1> QED BY EventInit, EventStep, <1>1, PTL DEF Spec

\* While the connection is open, the server knows every subscription and every
\* listener the application has.  (subscribe, listen, on_connection_state_change_)
THEOREM ServerAlwaysKnows == Spec => []ServerKnowsSubscriptions
<1>1. EventInv => ServerKnowsSubscriptions
  BY DEF EventInv, KnownInv
<1> QED BY EventInit, EventStep, <1>1, PTL DEF Spec

-----------------------------------------------------------------------------
(***************************************************************************)
(* The subscriber lists, the map of their callbacks and the notifications  *)
(* in progress agree.                                                      *)
(***************************************************************************)

MapInv == MapTypeOK /\ ListsMatchCallbacks
FrameInv == FrameTypeOK /\ NotifiesInOrder

-----------------------------------------------------------------------------
\* The list of one name is replaced by one that lacks what leaves the callbacks,
\* or that gets what joins them.
LEMMA ListReplaced ==
    ASSUME MapInv, NEW name \in Names, NEW q \in Seq(Nat), StrictlyIncreasing(q),
           NEW join \in SUBSET {subscription_counter_},
           NEW leave \in SUBSET Elements(subscriber_map_[name]),
           Elements(q) = (Elements(subscriber_map_[name]) \cup join) \ leave,
           subscriber_map_' = [subscriber_map_ EXCEPT ![name] = q],
           subscribe_fn_map_' = (subscribe_fn_map_ \cup join) \ leave,
           subscription_counter_' \in {subscription_counter_, subscription_counter_ + 1},
           join # {} => subscription_counter_' = subscription_counter_ + 1,
           UNCHANGED empty_fns
    PROVE  ListsMatchCallbacks'
<1> DEFINE In(n) == Elements(subscriber_map_[n])
<1>t. /\ subscription_counter_ \in Nat /\ empty_fns \subseteq Nat
      /\ subscribe_fn_map_ \subseteq Nat /\ DOMAIN subscriber_map_ = Names
  BY DEF MapInv, MapTypeOK, Ids
<1>0. /\ subscribe_fn_map_ = UNION {In(n) : n \in Names}
      /\ \A n \in Names : StrictlyIncreasing(subscriber_map_[n])
      /\ \A n1, n2 \in Names : n1 # n2 => In(n1) \cap In(n2) = {}
      /\ \A id \in subscribe_fn_map_ \cup empty_fns : id < subscription_counter_
      /\ subscribe_fn_map_ \cap empty_fns = {}
  BY DEF MapInv, ListsMatchCallbacks
<1>1. \A n \in Names : subscriber_map_'[n] = IF n = name THEN q ELSE subscriber_map_[n]
  BY <1>t
<1>2. \A n \in Names : In(n)' = IF n = name THEN (In(n) \cup join) \ leave ELSE In(n)
  <2> SUFFICES ASSUME NEW n \in Names
               PROVE  In(n)' = IF n = name THEN (In(n) \cup join) \ leave ELSE In(n)
    OBVIOUS
  <2>1. CASE n = name
    BY <1>1, <2>1
  <2>2. CASE n # name
    BY <1>1, <2>2
  <2> QED BY <2>1, <2>2
<1>3. \A n \in Names : n # name => In(n) \cap leave = {}
  BY <1>0
<1>4. \A n \in Names : In(n) \cap join = {}
  <2>1. subscription_counter_ \notin subscribe_fn_map_
    BY <1>0, <1>t
  <2> QED BY <1>0, <2>1
<1> HIDE DEF In
<1>5. subscribe_fn_map_' = UNION {In(n)' : n \in Names}
  <2>1. \A n \in Names : In(n) \subseteq subscribe_fn_map_
    BY <1>0
  <2>2. \A n \in Names : In(n)' \subseteq subscribe_fn_map_'
    BY <1>2, <1>3, <2>1
  <2>3. \A id \in subscribe_fn_map_' : \E n \in Names : id \in In(n)'
    BY <1>0, <1>2, <1>3
  <2> QED BY <2>2, <2>3
<1>6. \A n \in Names : StrictlyIncreasing(subscriber_map_'[n])
  BY <1>0, <1>1
<1>7. \A n1, n2 \in Names : n1 # n2 => In(n1)' \cap In(n2)' = {}
  BY <1>0, <1>2, <1>4
<1>8. \A id \in subscribe_fn_map_' \cup empty_fns' : id < subscription_counter_'
  BY <1>0, <1>t
<1>9. subscribe_fn_map_' \cap empty_fns' = {}
  <2>1. subscription_counter_ \notin empty_fns
    BY <1>0, <1>t
  <2> QED BY <1>0, <2>1
<1> QED BY <1>5, <1>6, <1>7, <1>8, <1>9 DEF ListsMatchCallbacks, In, StrictlyIncreasing, Elements

-----------------------------------------------------------------------------
LEMMA MapStep ==
    ASSUME MapInv, FrameInv, [Next]_vars PROVE ListsMatchCallbacks'
<1>t. /\ subscription_counter_ \in Nat /\ empty_fns \subseteq Nat
      /\ subscribe_fn_map_ \subseteq Nat /\ subscriber_map_ \in [Names -> Seq(Nat)]
  BY DEF MapInv, MapTypeOK, Ids
<1>0. ASSUME UNCHANGED mapVars PROVE ListsMatchCallbacks'
  BY <1>0 DEF MapInv, ListsMatchCallbacks, mapVars
<1>i. \A n \in Names : Elements(subscriber_map_[n]) \subseteq subscribe_fn_map_
  BY DEF MapInv, ListsMatchCallbacks
<1>m. \A n \in Names : StrictlyIncreasing(subscriber_map_[n])
  BY DEF MapInv, ListsMatchCallbacks
<1>1. ASSUME NEW name \in Names, Subscribe(name) PROVE ListsMatchCallbacks'
  <2> DEFINE q == Append(subscriber_map_[name], subscription_counter_)
  <2>1. /\ q \in Seq(Nat) /\ StrictlyIncreasing(q)
        /\ Elements(q) = (Elements(subscriber_map_[name]) \cup {subscription_counter_}) \ {}
    <3>1. \A m \in Elements(subscriber_map_[name]) : m < subscription_counter_
      BY <1>i DEF MapInv, ListsMatchCallbacks
    <3>2. subscriber_map_[name] \in Seq(Nat) /\ StrictlyIncreasing(subscriber_map_[name])
      BY <1>t, <1>m
    <3> QED BY <1>t, <3>1, <3>2, ElementsAppend
  <2>2. /\ subscriber_map_' = [subscriber_map_ EXCEPT ![name] = q]
        /\ subscribe_fn_map_' = (subscribe_fn_map_ \cup {subscription_counter_}) \ {}
        /\ subscription_counter_' = subscription_counter_ + 1
        /\ UNCHANGED empty_fns
    BY <1>1 DEF Subscribe, SubscribeLocal, AddSubscriber
  <2>3. /\ {} \in SUBSET Elements(subscriber_map_[name])
        /\ {subscription_counter_} \in SUBSET {subscription_counter_}
        /\ subscription_counter_' \in {subscription_counter_, subscription_counter_ + 1}
    BY <2>2
  <2> HIDE DEF q
  <2> QED BY <2>1, <2>2, <2>3, ListReplaced
<1>2. ASSUME NEW name \in Names, UnsubscribeName(name) PROVE ListsMatchCallbacks'
  <2> DEFINE gone == Elements(subscriber_map_[name])
  <2>1. /\ subscriber_map_' = [subscriber_map_ EXCEPT ![name] = <<>>]
        /\ subscribe_fn_map_' = (subscribe_fn_map_ \cup {}) \ gone
        /\ UNCHANGED <<empty_fns, subscription_counter_>>
    BY <1>2 DEF UnsubscribeName, UnsubscribeNameLocal, RemoveName
  <2>2. Elements(<<>>) = (Elements(subscriber_map_[name]) \cup {}) \ gone
    BY EmptyList
  <2>3. /\ gone \in SUBSET Elements(subscriber_map_[name])
        /\ {} \in SUBSET {subscription_counter_}
        /\ subscription_counter_' \in {subscription_counter_, subscription_counter_ + 1}
    BY <2>1
  <2> HIDE DEF gone
  <2> QED BY <2>1, <2>2, <2>3, EmptyList, ListReplaced
<1>3. ASSUME NEW name \in Names, NEW id, UnsubscribeId(name, id)
      PROVE  ListsMatchCallbacks'
  <2>1. PICK i \in 1 .. Len(subscriber_map_[name]) :
          /\ subscriber_map_[name][i] = id
          /\ subscriber_map_' = [subscriber_map_ EXCEPT ![name] = RemoveAt(@, i)]
    BY <1>3 DEF UnsubscribeId, UnsubscribeIdLocal
  <2> DEFINE q == RemoveAt(subscriber_map_[name], i)
  <2>2. /\ q \in Seq(Nat) /\ StrictlyIncreasing(q)
        /\ Elements(q) = (Elements(subscriber_map_[name]) \cup {}) \ {id}
    <3>1. subscriber_map_[name] \in Seq(Nat) /\ StrictlyIncreasing(subscriber_map_[name])
      BY <1>t, <1>m
    <3> QED BY <2>1, <3>1, ElementsRemoveAt
  <2>3. /\ subscriber_map_' = [subscriber_map_ EXCEPT ![name] = q]
        /\ subscribe_fn_map_' = (subscribe_fn_map_ \cup {}) \ {id}
        /\ UNCHANGED <<empty_fns, subscription_counter_>>
    BY <1>3, <2>1 DEF UnsubscribeId, UnsubscribeIdLocal
  <2>4. /\ {id} \in SUBSET Elements(subscriber_map_[name])
        /\ {} \in SUBSET {subscription_counter_}
        /\ subscription_counter_' \in {subscription_counter_, subscription_counter_ + 1}
    BY <2>1, <2>3 DEF Elements
  <2> HIDE DEF q
  <2> QED BY <2>2, <2>3, <2>4, ListReplaced
<1>4. CASE PresenceSubscribes
  BY <1>t, <1>4 DEF PresenceSubscribes, MapInv, ListsMatchCallbacks
<1>5. ASSUME NEW n, CallErased(n) PROVE ListsMatchCallbacks'
  <2>1. Top \in Frame /\ Top.todo # <<>> /\ Len(frames) \in 1 .. Len(frames)
    BY <1>5, TopFrame DEF CallErased, FrameInv
  <2>2. Top.todo \in Seq(Nat)
    BY <2>1 DEF Frame, Ids
  <2>3. 1 \in 1 .. Len(Top.todo) /\ Head(Top.todo) = Top.todo[1]
    BY <2>1, <2>2, EmptySeq, LenProperties, HeadTailProperties
  <2>4. Head(Top.todo) < subscription_counter_
    BY <2>1, <2>3 DEF FrameInv, NotifiesInOrder, Top
  <2> QED BY <1>t, <1>5, <2>4 DEF CallErased, MapInv, ListsMatchCallbacks
<1>6. ASSUME NEW name \in Names, Emit(name) PROVE ListsMatchCallbacks'
  BY <1>0, <1>6 DEF Emit, EmitLocal
<1>7. ASSUME NEW pattern \in Patterns, Listen(pattern) \/ Unlisten(pattern)
      PROVE  ListsMatchCallbacks'
  BY <1>0, <1>7 DEF Listen, ListenLocal, Unlisten
<1>8. CASE CallNext \/ CallbackReturns \/ NotifyReturns \/ ListenerReturns \/ Throws
  BY <1>0, <1>8 DEF CallNext, CallbackReturns, NotifyReturns, ListenerReturns,
                    ListenerReturnsLocal, Throws, CallbackThrows
<1>9. CASE Link
  BY <1>0, <1>9 DEF Link, EventArrives, PatternArrives, Reconnect, ReconnectAndFail,
                    Flushed, WriteAndPop, ConnectionLost
<1>10. CASE User
  BY <1>10, <1>1, <1>2, <1>3, <1>4, <1>6, <1>7 DEF User
<1>11. CASE UNCHANGED vars
  BY <1>0, <1>11 DEF vars
<1> QED BY <1>5, <1>8, <1>9, <1>10, <1>11 DEF Next, Loops

-----------------------------------------------------------------------------
\* The next subscription only raises the bound of the ids.
LEMMA CounterGrows ==
    ASSUME MapTypeOK, [Next]_vars
    PROVE  subscription_counter_' \in Nat /\ subscription_counter_ <= subscription_counter_'
<1>t. subscription_counter_ \in Nat
  BY DEF MapTypeOK
<1>1. \/ subscription_counter_' = subscription_counter_
      \/ subscription_counter_' = subscription_counter_ + 1
  <2>1. CASE User
    BY <2>1 DEF User, Emit, EmitLocal, Subscribe, SubscribeLocal, AddSubscriber,
       UnsubscribeName, UnsubscribeNameLocal, UnsubscribeId, UnsubscribeIdLocal,
       Listen, ListenLocal, Unlisten, PresenceSubscribes, mapVars
  <2>2. CASE Loops \/ Throws
    BY <2>2 DEF Loops, CallNext, CallErased, CallbackReturns, NotifyReturns,
       ListenerReturns, ListenerReturnsLocal, Throws, CallbackThrows, mapVars
  <2>3. CASE Link
    BY <2>3 DEF Link, EventArrives, PatternArrives, Reconnect, ReconnectAndFail,
       Flushed, WriteAndPop, ConnectionLost, mapVars
  <2> QED BY <2>1, <2>2, <2>3 DEF Next, vars, mapVars
<1> QED BY <1>t, <1>1

\* What is left to call in one frame.
Orderly(f, bound) ==
    /\ StrictlyIncreasing(f.todo)
    /\ \A i \in 1 .. Len(f.todo) : f.todo[i] < bound

LEMMA FramesOrderly ==
    /\ NotifiesInOrder <=> \A d \in 1 .. Len(frames) : Orderly(frames[d], subscription_counter_)
    /\ NotifiesInOrder' <=>
         \A d \in 1 .. Len(frames') : Orderly(frames'[d], subscription_counter_')
BY DEF NotifiesInOrder, Orderly, StrictlyIncreasing

LEMMA FrameStep ==
    ASSUME MapInv, FrameInv, [Next]_vars PROVE NotifiesInOrder'
<1>c. subscription_counter_' \in Nat /\ subscription_counter_ <= subscription_counter_'
  BY CounterGrows DEF MapInv
<1>k. subscription_counter_ \in Nat
  BY DEF MapInv, MapTypeOK
<1>f. /\ Len(frames) \in Nat
      /\ \A d \in 1 .. Len(frames) : frames[d] \in Frame
  BY ElementOfSeq, LenProperties DEF FrameInv, FrameTypeOK
\* A frame that was there stays orderly.
<1>s. ASSUME NEW d \in 1 .. Len(frames) PROVE Orderly(frames[d], subscription_counter_')
  <2>1. Orderly(frames[d], subscription_counter_)
    BY FramesOrderly DEF FrameInv
  <2>2. frames[d].todo \in Seq(Nat)
    BY <1>f DEF Frame, Ids
  <2>3. \A i \in 1 .. Len(frames[d].todo) : frames[d].todo[i] \in Nat
    BY <2>2, ElementOfSeq
  <2> QED BY <1>c, <1>k, <2>1, <2>3 DEF Orderly
<1>0. ASSUME NEW n \in 0 .. Len(frames), Len(frames') = n,
             \A d \in 1 .. n : frames'[d] = frames[d]
      PROVE  NotifiesInOrder'
  BY <1>0, <1>s, <1>f, FramesOrderly
<1>u. ASSUME UNCHANGED frames PROVE NotifiesInOrder'
  BY <1>u, <1>s, FramesOrderly
<1>1. ASSUME NEW name \in Names, Notify(name) PROVE NotifiesInOrder'
  <2> DEFINE f == [kind |-> "event", todo |-> subscriber_map_[name], running |-> FALSE]
  <2>1. /\ Len(frames') = Len(frames) + 1
        /\ \A i \in 1 .. Len(frames) : frames'[i] = frames[i]
        /\ frames'[Len(frames) + 1].todo = subscriber_map_[name]
    BY <1>1, NotifyProperties DEF MapInv, FrameInv
  <2>2. Orderly(frames'[Len(frames) + 1], subscription_counter_')
    <3>1. subscriber_map_[name] \in Seq(Nat) /\ StrictlyIncreasing(subscriber_map_[name])
      BY DEF MapInv, MapTypeOK, ListsMatchCallbacks, Ids
    <3>2. \A i \in 1 .. Len(subscriber_map_[name]) :
            /\ subscriber_map_[name][i] \in Nat
            /\ subscriber_map_[name][i] < subscription_counter_
      BY <3>1, ElementOfSeq DEF MapInv, ListsMatchCallbacks, Elements
    <3>3. \A i \in 1 .. Len(subscriber_map_[name]) :
            subscriber_map_[name][i] < subscription_counter_'
      BY <1>c, <1>k, <3>2
    <3> QED BY <2>1, <3>1, <3>3 DEF Orderly
  <2>3. ASSUME NEW d \in 1 .. Len(frames) + 1
        PROVE  Orderly(frames'[d], subscription_counter_')
    <3>1. CASE d = Len(frames) + 1
      BY <2>2, <3>1
    <3>2. CASE d \in 1 .. Len(frames)
      BY <1>s, <2>1, <3>2
    <3> QED BY <1>f, <3>1, <3>2
  <2> QED BY <2>1, <2>3, FramesOrderly
<1>2. ASSUME NEW f \in Frame, frames # <<>>, frames' = [frames EXCEPT ![Len(frames)] = f],
             Orderly(f, subscription_counter_')
      PROVE  NotifiesInOrder'
  <2>1. /\ Len(frames') = Len(frames)
        /\ \A d \in 1 .. Len(frames) :
             frames'[d] = IF d = Len(frames) THEN f ELSE frames[d]
    BY <1>2, TopChanges DEF FrameInv
  <2>2. \A d \in 1 .. Len(frames) : Orderly(frames'[d], subscription_counter_')
    BY <1>2, <1>s, <2>1
  <2> QED BY <2>1, <2>2, FramesOrderly
<1>3. CASE User
  <2>1. (\E name \in Names : Notify(name)) \/ UNCHANGED frames
    BY <1>3 DEF User, Emit, EmitLocal, Subscribe, SubscribeLocal, AddSubscriber,
       UnsubscribeName, UnsubscribeNameLocal, UnsubscribeId, UnsubscribeIdLocal,
       Listen, ListenLocal, Unlisten, PresenceSubscribes
  <2> QED BY <1>1, <1>u, <2>1
<1>4. CASE CallNext
  <2> DEFINE f == [Top EXCEPT !.running = TRUE]
  <2>1. frames # <<>> /\ frames' = [frames EXCEPT ![Len(frames)] = f]
    BY <1>4 DEF CallNext, Top
  <2>2. Top \in Frame /\ Len(frames) \in 1 .. Len(frames) /\ Top = frames[Len(frames)]
    BY <2>1, TopFrame DEF FrameInv, Top
  <2>3. f \in Frame /\ f.todo = Top.todo
    BY <2>2 DEF Frame
  <2>4. Orderly(f, subscription_counter_')
    <3> HIDE DEF f
    <3>1. Orderly(Top, subscription_counter_')
      BY <1>s, <2>2
    <3> QED BY <3>1, <2>3 DEF Orderly
  <2> HIDE DEF f
  <2> QED BY <1>2, <2>1, <2>3, <2>4
<1>5. CASE CallbackReturns
  <2> DEFINE f == [kind |-> "event", todo |-> Tail(Top.todo), running |-> FALSE]
  <2>1. /\ frames # <<>> /\ frames' = [frames EXCEPT ![Len(frames)] = f]
        /\ Top.todo # <<>>
    BY <1>5 DEF CallbackReturns
  <2>2. Top \in Frame /\ Len(frames) \in 1 .. Len(frames) /\ Top = frames[Len(frames)]
    BY <2>1, TopFrame DEF FrameInv, Top
  <2>3. Top.todo \in Seq(Nat)
    BY <2>2 DEF Frame, Ids
  <2>4. Tail(Top.todo) \in Seq(Nat)
    BY <2>1, <2>3, HeadTailProperties
  <2>5. f \in Frame /\ f.todo = Tail(Top.todo)
    BY <2>4 DEF Frame, Ids
  <2>6. Orderly(f, subscription_counter_')
    <3> HIDE DEF f
    <3>1. Orderly(Top, subscription_counter_')
      BY <1>s, <2>2
    <3> QED BY <1>c, <2>1, <2>3, <2>5, <3>1, TailOrderly DEF Orderly
  <2> HIDE DEF f
  <2> QED BY <1>2, <2>1, <2>5, <2>6
<1>6. CASE NotifyReturns \/ ListenerReturns
  <2>1. /\ frames # <<>> /\ frames' = Below
    BY <1>6 DEF NotifyReturns, ListenerReturns, ListenerReturnsLocal
  <2>2. /\ Len(frames) - 1 \in 0 .. Len(frames) /\ Len(frames') = Len(frames) - 1
        /\ \A d \in 1 .. Len(frames) - 1 : frames'[d] = frames[d]
    BY <2>1, TopFrame DEF FrameInv
  <2> QED BY <1>0, <2>2
<1>7. ASSUME NEW n \in 0 .. MaxDepth, CallErased(n) \/ CallbackThrows(n)
      PROVE  NotifiesInOrder'
  <2>1. Unwinds(n) /\ n \in Nat
    BY <1>7, BoundsAssumption DEF CallErased, CallbackThrows
  <2>2. /\ Len(frames') = n
        /\ \A d \in 1 .. n : frames'[d] = frames[d]
    BY <2>1, UnwindsProperties DEF FrameInv
  <2>3. n \in 0 .. Len(frames)
    BY <1>f, <2>1 DEF Unwinds
  <2> QED BY <1>0, <2>2, <2>3
<1>8. CASE Link
  <2>1. ASSUME NEW kind, NEW pattern, PatternArrives(kind, pattern)
        PROVE  NotifiesInOrder'
    <3> DEFINE f == [kind |-> kind, todo |-> <<>>, running |-> TRUE]
    <3>1. frames' = <<f>> /\ f.todo = <<>>
      BY <2>1 DEF PatternArrives
    <3> HIDE DEF f
    <3>2. Len(frames') = 1 /\ frames'[1] = f
      BY <3>1
    <3>3. Orderly(f, subscription_counter_')
      BY <3>1, EmptySeq DEF Orderly, StrictlyIncreasing
    <3> QED BY <3>2, <3>3, FramesOrderly
  <2>2. \/ \E name \in Names : Notify(name)
        \/ \E kind \in {"found", "removed"}, pattern \in Patterns : PatternArrives(kind, pattern)
        \/ UNCHANGED frames
    BY <1>8 DEF Link, EventArrives, Reconnect, ReconnectAndFail, Flushed, WriteAndPop,
                ConnectionLost
  <2> QED BY <1>1, <1>u, <2>1, <2>2
<1>9. CASE UNCHANGED vars
  BY <1>u, <1>9 DEF vars
<1> QED BY <1>3, <1>4, <1>5, <1>6, <1>7, <1>8, <1>9 DEF Next, Loops, Throws

-----------------------------------------------------------------------------
ListsInv == EventInv /\ ListsMatchCallbacks /\ NotifiesInOrder

LEMMA ListsInit == Init => ListsInv
<1> SUFFICES ASSUME Init PROVE ListsInv
  OBVIOUS
<1>1. ListsMatchCallbacks
  <2>1. \A name \in Names : subscriber_map_[name] = <<>>
    BY DEF Init
  <2>2. \A name \in Names :
          Elements(subscriber_map_[name]) = {} /\ StrictlyIncreasing(subscriber_map_[name])
    BY <2>1, EmptyList
  <2>3. subscribe_fn_map_ = {} /\ empty_fns = {}
    BY DEF Init
  <2> QED BY <2>2, <2>3 DEF ListsMatchCallbacks
<1>2. NotifiesInOrder
  BY EmptySeq DEF Init, NotifiesInOrder
<1> QED BY <1>1, <1>2, EventInit DEF ListsInv

LEMMA ListsStep == ListsInv /\ [Next]_vars => ListsInv'
BY EventStep, MapStep, FrameStep DEF ListsInv, EventInv, MapInv, FrameInv

\* Every id in use is in one list, once, in the order of subscription, and has a
\* callback, whatever callbacks do while they are called.  (subscribe, both
\* unsubscribe, notify_subscribers_)
THEOREM ListsAlwaysMatch == Spec => []ListsMatchCallbacks
<1>1. ListsInv => ListsMatchCallbacks
  BY DEF ListsInv
<1> QED BY ListsInit, ListsStep, <1>1, PTL DEF Spec

\* A notification calls callbacks in the order of their subscription, each once,
\* at any depth.  (the copy in notify_subscribers_)
THEOREM AlwaysInOrder == Spec => []NotifiesInOrder
<1>1. ListsInv => NotifiesInOrder
  BY DEF ListsInv
<1> QED BY ListsInit, ListsStep, <1>1, PTL DEF Spec
=============================================================================
