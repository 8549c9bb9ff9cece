--------------------------- MODULE Presence_proofs ---------------------------
(***************************************************************************)
(* Theorems about module Presence, for any number of subscriptions and of  *)
(* queries.                                                                *)
(***************************************************************************)
EXTENDS Presence, Lists_proofs, FiniteSetTheorems

\* Whoever runs is the first that is left to call.
FrameInv == frame.running => frame.todo # <<>>

\* Those who are left to call after the one that runs.
Waiting == IF frame.running THEN Tail(frame.todo) ELSE frame.todo

\* The subscribers and the map of callbacks.
Agree ==
    /\ Callable = Elements(subscribers_)
    /\ StrictlyIncreasing(subscribers_)
    /\ \A id \in subscribe_fn_map_ : id < subscription_counter_
    /\ empty_fns \subseteq subscribe_fn_map_
    /\ IsFiniteSet(empty_fns)

\* They are called in the order in which they came, and each once.
TodoInv ==
    /\ StrictlyIncreasing(frame.todo)
    /\ \A n \in Elements(frame.todo) :
         IF frame.kind = "query" THEN n <= asked ELSE n < subscription_counter_

\* Those who wait for an answer, or for their turn in the one that is delivered.
Uncalled == IF frame.kind = "query" THEN Waiting ELSE querents_

\* A querent is called after all that asked before it and none has asked twice,
\* but for those that waited when one threw.
CalledInOrder ==
    /\ StrictlyIncreasing(querents_)
    /\ \A n \in Elements(querents_) \cup Elements(answered) : n <= asked
    /\ \A i, j \in 1 .. Len(answered) :
         i < j => answered[i] < answered[j] \/ answered[j] \in thrown
    /\ \A n \in Elements(answered), m \in Elements(Uncalled) : n < m \/ m \in thrown

PresenceInv ==
    /\ TypeOK
    /\ FrameInv
    /\ TodoInv
    /\ Agree
    /\ NoOrphanSubscription
    /\ CalledInOrder

-----------------------------------------------------------------------------
(***************************************************************************)
(* Types.                                                                  *)
(***************************************************************************)

Sessions == [subscribed : BOOLEAN, queries : Nat]

LinkTypeOK == online \in BOOLEAN /\ session \in Sessions /\ late \in Nat

LEMMA TellsType ==
    ASSUME LinkTypeOK, NEW needed, NEW s \in Sessions, Tells(needed, s)
    PROVE  LinkTypeOK'
<1>1. NoSession \in Sessions
  BY DEF NoSession, Sessions
<1>2. late + session.queries \in Nat
  BY DEF LinkTypeOK, Sessions
<1>3. CASE UNCHANGED linkVars
  BY <1>3 DEF linkVars, LinkTypeOK
<1>4. ASSUME NEW ok \in BOOLEAN, Sends(ok, s) PROVE LinkTypeOK'
  BY <1>1, <1>2, <1>4 DEF Sends, LinkTypeOK
<1> QED BY <1>3, <1>4 DEF Tells

LEMMA LinkTypeStep ==
    ASSUME TypeOK, [Next]_vars PROVE LinkTypeOK'
<1>0. LinkTypeOK
  BY DEF TypeOK, LinkTypeOK, Sessions
<1>1. /\ session \in Sessions /\ [session EXCEPT !.subscribed = TRUE] \in Sessions
      /\ [session EXCEPT !.subscribed = FALSE] \in Sessions
      /\ [session EXCEPT !.queries = @ + 1] \in Sessions
  <2>1. session \in Sessions /\ session.queries + 1 \in Nat
    BY <1>0 DEF LinkTypeOK, Sessions
  <2>2. /\ [session EXCEPT !.subscribed = TRUE] \in Sessions
        /\ [session EXCEPT !.subscribed = FALSE] \in Sessions
    BY <2>1 DEF Sessions
  <2>3. [session EXCEPT !.queries = @ + 1] \in Sessions
    BY <2>1 DEF Sessions
  <2> QED BY <2>1, <2>2, <2>3
<1>2. ASSUME UNCHANGED linkVars PROVE LinkTypeOK'
  BY <1>0, <1>2 DEF LinkTypeOK, linkVars
<1>3. CASE User
  <2>1. \E needed \in BOOLEAN, s \in Sessions : Tells(needed, s)
    <3>1. CASE Subscribe
      BY <1>1, <3>1 DEF Subscribe, SubscribeTells
    <3>2. CASE UnsubscribeAll
      BY <1>1, <3>2 DEF UnsubscribeAll
    <3>3. CASE GetAll
      BY <1>1, <3>3 DEF GetAll, GetAllTells
    <3>4. CASE EventSubscribes
      BY <1>1, <3>4 DEF EventSubscribes
    <3>5. ASSUME NEW id, UnsubscribeId(id) PROVE \E needed \in BOOLEAN, s \in Sessions : Tells(needed, s)
      BY <1>1, <3>5 DEF UnsubscribeId, UnsubscribeTells
    <3> QED BY <1>3, <3>1, <3>2, <3>3, <3>4, <3>5 DEF User
  <2> QED BY <1>0, <2>1, TellsType
<1>4. CASE Loops \/ CallbackThrows \/ PresenceArrives \/ UNCHANGED vars
  BY <1>2, <1>4 DEF Loops, CallSubscriber, CallErased, CallQuerent, CallbackReturns,
                    NotifyReturns, CallbackThrows, PresenceArrives, vars
<1>5. CASE AnswerArrives
  <2>1. [session EXCEPT !.queries = @ - 1] \in Sessions
    BY <1>0, <1>5 DEF LinkTypeOK, Sessions, AnswerArrives
  <2> QED BY <1>0, <1>5, <2>1 DEF AnswerArrives, LinkTypeOK
<1>6. CASE LateAnswerArrives
  <2>1. late - 1 \in Nat
    BY <1>0, <1>6 DEF LinkTypeOK, LateAnswerArrives
  <2> QED BY <1>0, <1>6, <2>1 DEF LateAnswerArrives, LinkTypeOK
<1>7. CASE ConnectionOpens
  BY <1>0, <1>7 DEF ConnectionOpens, LinkTypeOK
<1>8. CASE ConnectionLost
  <2>1. Tells(TRUE, session)
    BY <1>8 DEF ConnectionLost, Tells
  <2> QED BY <1>0, <1>1, <2>1, TellsType
<1> QED BY <1>3, <1>4, <1>5, <1>6, <1>7, <1>8 DEF Next, Link

RestTypeOK ==
    /\ subscribers_ \in Seq(Nat)
    /\ subscribe_fn_map_ \subseteq Nat
    /\ empty_fns \subseteq Nat
    /\ subscription_counter_ \in Nat
    /\ querents_ \in Seq(Nat)
    /\ frame \in [kind : {"none", "presence", "query"}, todo : Seq(Nat), running : BOOLEAN]
    /\ asked \in Nat
    /\ answered \in Seq(Nat)
    /\ thrown \subseteq Nat
    /\ presence_crashed \in BOOLEAN

LEMMA RestTypeStep ==
    ASSUME TypeOK, FrameInv, [Next]_vars PROVE RestTypeOK' /\ FrameInv'
<1> USE DEF RestTypeOK
<1>0. RestTypeOK
  BY DEF TypeOK
<1>i. Idle \in [kind : {"none", "presence", "query"}, todo : Seq(Nat), running : BOOLEAN]
  BY EmptySeq DEF Idle
<1>1. CASE Subscribe
  <2>1. Append(subscribers_, subscription_counter_) \in Seq(Nat)
    BY <1>0, AppendProperties
  <2> QED BY <1>0, <1>1, <2>1 DEF Subscribe, SubscribeLocal, AddSubscriber, queryVars, FrameInv
<1>2. CASE UnsubscribeAll
  BY <1>0, <1>2, EmptySeq DEF UnsubscribeAll, UnsubscribeAllLocal, queryVars, FrameInv
<1>3. CASE GetAll
  <2>1. Append(querents_, asked + 1) \in Seq(Nat)
    BY <1>0, AppendProperties
  <2>2. /\ querents_' = Append(querents_, asked + 1) /\ asked' = asked + 1
        /\ UNCHANGED <<subVars, answered, thrown, frame>>
    BY <1>3 DEF GetAll, GetAllLocal
  <2>3. presence_crashed' \in BOOLEAN
    <3>1. presence_crashed' \in IF frame.kind = "query" THEN BOOLEAN ELSE {FALSE}
      BY <1>3 DEF GetAll, GetAllLocal
    <3>2. CASE frame.kind = "query"
      BY <3>1, <3>2
    <3>3. CASE frame.kind # "query"
      BY <3>1, <3>3
    <3> QED BY <3>2, <3>3
  <2> QED BY <1>0, <2>1, <2>2, <2>3 DEF subVars, FrameInv
<1>4. CASE EventSubscribes
  BY <1>0, <1>4 DEF EventSubscribes, queryVars, FrameInv
<1>5. ASSUME NEW id, UnsubscribeId(id) PROVE RestTypeOK' /\ FrameInv'
  <2>1. PICK i \in 1 .. Len(subscribers_) : subscribers_' = RemoveAt(subscribers_, i)
    BY <1>5 DEF UnsubscribeId, UnsubscribeIdLocal, RemoveSubscriber
  <2>2. subscribers_' \in Seq(Nat)
    BY <1>0, <2>1, RemoveAtProperties
  <2> QED BY <1>0, <1>5, <2>2 DEF UnsubscribeId, UnsubscribeIdLocal, RemoveSubscriber,
                                  queryVars, FrameInv
<1>6. CASE PresenceArrives
  BY <1>0, <1>6 DEF PresenceArrives, subVars, queryVars, FrameInv
<1>7. CASE AnswerArrives \/ LateAnswerArrives
  <2>1. /\ frame' = [kind |-> "query", todo |-> querents_, running |-> FALSE]
        /\ UNCHANGED <<subVars, queryVars, presence_crashed>>
    BY <1>7 DEF AnswerArrives, LateAnswerArrives, AnswerLocal, Answer
  <2>2. frame' \in [kind : {"none", "presence", "query"}, todo : Seq(Nat), running : BOOLEAN]
    BY <1>0, <2>1
  <2>3. ~frame'.running
    BY <2>1
  <2> QED BY <1>0, <2>1, <2>2, <2>3 DEF subVars, queryVars, FrameInv
<1>8. CASE CallSubscriber
  <2>1. frame'.todo = frame.todo /\ frame.todo # <<>>
    BY <1>0, <1>8 DEF CallSubscriber
  <2> QED BY <1>0, <1>8, <2>1 DEF CallSubscriber, subVars, queryVars, FrameInv
<1>9. CASE CallQuerent
  <2>1. frame'.todo = frame.todo /\ frame.todo # <<>>
    BY <1>0, <1>9 DEF CallQuerent
  <2>2. Append(answered, Head(frame.todo)) \in Seq(Nat)
    BY <1>0, <2>1, HeadTailProperties, AppendProperties
  <2> QED BY <1>0, <1>9, <2>1, <2>2 DEF CallQuerent, subVars, FrameInv
<1>10. CASE CallErased
  <2>1. Head(frame.todo) \in Nat
    BY <1>0, <1>10, HeadTailProperties DEF CallErased
  <2> QED BY <1>0, <1>i, <1>10, <2>1 DEF CallErased, queryVars, FrameInv, Idle
<1>11. CASE CallbackThrows
  <2>1. Elements(querents_) \subseteq Nat
    BY <1>0, ElementOfSeq DEF Elements
  <2> QED BY <1>0, <1>i, <1>11, <2>1 DEF CallbackThrows, subVars, FrameInv, Idle
<1>12. CASE CallbackReturns
  <2>1. Tail(frame.todo) \in Seq(Nat)
    BY <1>0, <1>12, HeadTailProperties DEF CallbackReturns, FrameInv
  <2> QED BY <1>0, <1>12, <2>1 DEF CallbackReturns, subVars, queryVars, FrameInv
<1>13. CASE NotifyReturns
  BY <1>0, <1>i, <1>13, EmptySeq DEF NotifyReturns, subVars, FrameInv, Idle
<1>14. CASE ConnectionOpens \/ ConnectionLost \/ UNCHANGED vars
  BY <1>0, <1>14 DEF ConnectionOpens, ConnectionLost, vars, subVars, queryVars, FrameInv
<1> QED BY <1>1, <1>2, <1>3, <1>4, <1>5, <1>6, <1>7, <1>8, <1>9, <1>10, <1>11, <1>12,
           <1>13, <1>14 DEF Next, User, Loops, Link

LEMMA TypeStep ==
    ASSUME TypeOK, FrameInv, [Next]_vars PROVE TypeOK' /\ FrameInv'
BY LinkTypeStep, RestTypeStep DEF TypeOK, LinkTypeOK, RestTypeOK, Sessions

-----------------------------------------------------------------------------
(***************************************************************************)
(* Subscribers and their callbacks.                                        *)
(***************************************************************************)

\* A list without repetitions is as long as it has elements.
LEMMA SizeOfList ==
    ASSUME NEW q \in Seq(Nat), StrictlyIncreasing(q)
    PROVE  IsFiniteSet(Elements(q)) /\ Cardinality(Elements(q)) = Len(q)
<1> DEFINE n == Len(q)
<1>1. n \in Nat /\ \A i \in 1 .. n : q[i] \in Nat
  BY LenProperties, ElementOfSeq
<1>2. q \in [1 .. n -> Elements(q)]
  BY LenProperties DEF Elements
<1>3. \A i, j \in 1 .. n : q[i] = q[j] => i = j
  <2> SUFFICES ASSUME NEW i \in 1 .. n, NEW j \in 1 .. n, q[i] = q[j] PROVE i = j
    OBVIOUS
  <2>1. ~(i < j) /\ ~(j < i)
    BY <1>1 DEF StrictlyIncreasing
  <2> QED BY <1>1, <2>1
<1>4. \A e \in Elements(q) : \E i \in 1 .. n : q[i] = e
  BY DEF Elements
<1> HIDE DEF n
<1>5. q \in Bijection(1 .. n, Elements(q))
  BY <1>2, <1>3, <1>4 DEF Bijection, Injection, Surjection, IsInjective
<1>6. ExistsBijection(1 .. n, Elements(q))
  BY <1>5 DEF ExistsBijection
<1>7. IsFiniteSet(1 .. n)
  BY <1>1, FS_Interval
<1> QED BY <1>1, <1>6, <1>7, FS_Bijection, FS_CountingElements DEF n

\* The map is larger than the list by the empty entries.
LEMMA SizesDiffer ==
    ASSUME TypeOK, Agree PROVE SizesAgree <=> empty_fns = {}
<1> DEFINE called == Elements(subscribers_)
<1>1. /\ IsFiniteSet(called) /\ Cardinality(called) = Len(subscribers_)
  BY SizeOfList DEF TypeOK, Agree
<1>2. IsFiniteSet(empty_fns)
  BY DEF Agree
<1>3. subscribe_fn_map_ = called \cup empty_fns /\ called \cap empty_fns = {}
  BY DEF Agree, Callable
<1> HIDE DEF called
<1>4. /\ Cardinality(called \cap empty_fns) = 0
      /\ Cardinality(empty_fns) \in Nat /\ Cardinality(called) \in Nat
      /\ Cardinality(empty_fns) = 0 <=> empty_fns = {}
  BY <1>1, <1>2, <1>3, FS_EmptySet, FS_CardinalityType
<1>5. Cardinality(subscribe_fn_map_) = Cardinality(called) + Cardinality(empty_fns)
  <2>1. Cardinality(called \cup empty_fns)
          = Cardinality(called) + Cardinality(empty_fns) - Cardinality(called \cap empty_fns)
    BY <1>1, <1>2, FS_Union
  <2>2. subscribe_fn_map_ = called \cup empty_fns
    BY <1>3
  <2> DEFINE a == Cardinality(called)
             b == Cardinality(empty_fns)
             c == Cardinality(called \cap empty_fns)
  <2>3. a \in Nat /\ b \in Nat /\ c = 0 /\ Cardinality(subscribe_fn_map_) = a + b - c
    BY <1>4, <2>1, <2>2
  <2> HIDE DEF a, b, c
  <2>4. Cardinality(subscribe_fn_map_) = a + b
    BY <2>3
  <2> QED BY <2>4 DEF a, b
<1> QED BY <1>1, <1>4, <1>5 DEF SizesAgree

LEMMA AgreeStep ==
    ASSUME TypeOK, Agree, TodoInv, [Next]_vars PROVE Agree'
<1>t. /\ subscribers_ \in Seq(Nat) /\ subscription_counter_ \in Nat
      /\ subscribe_fn_map_ \subseteq Nat /\ empty_fns \subseteq Nat
      /\ frame.todo \in Seq(Nat)
  BY DEF TypeOK
<1>0. ASSUME UNCHANGED subVars PROVE Agree'
  BY <1>0 DEF Agree, Callable, subVars
<1>1. CASE Subscribe
  <2>1. /\ subscribers_' = Append(subscribers_, subscription_counter_)
        /\ subscribe_fn_map_' = subscribe_fn_map_ \cup {subscription_counter_}
        /\ subscription_counter_' = subscription_counter_ + 1
        /\ UNCHANGED empty_fns
    BY <1>1 DEF Subscribe, SubscribeLocal, AddSubscriber
  <2>2. /\ Elements(subscribers_') = Elements(subscribers_) \cup {subscription_counter_}
        /\ StrictlyIncreasing(subscribers_')
    <3>1. \A id \in Elements(subscribers_) : id < subscription_counter_
      BY DEF Agree, Callable
    <3> QED BY <1>t, <2>1, <3>1, ElementsAppend DEF Agree
  <2>3. \A id \in subscribe_fn_map_' : id < subscription_counter_'
    BY <1>t, <2>1 DEF Agree
  <2>4. subscription_counter_ \notin empty_fns
    BY <1>t DEF Agree
  <2>5. Callable' = Callable \cup {subscription_counter_}
    BY <2>1, <2>4 DEF Callable
  <2> QED BY <2>1, <2>2, <2>3, <2>5 DEF Agree
<1>2. ASSUME NEW id, UnsubscribeId(id) PROVE Agree'
  <2>1. PICK i \in 1 .. Len(subscribers_) :
          subscribers_[i] = id /\ subscribers_' = RemoveAt(subscribers_, i)
    BY <1>2 DEF UnsubscribeId, UnsubscribeIdLocal, RemoveSubscriber
  <2>2. Elements(subscribers_') = Elements(subscribers_) \ {id} /\ StrictlyIncreasing(subscribers_')
    BY <1>t, <2>1, ElementsRemoveAt DEF Agree
  <2>3. /\ subscribe_fn_map_' = subscribe_fn_map_ \ {id}
        /\ UNCHANGED <<empty_fns, subscription_counter_>>
    BY <1>2 DEF UnsubscribeId, UnsubscribeIdLocal, RemoveSubscriber
  <2>4. Callable' = Callable \ {id}
    BY <2>3 DEF Callable
  <2>5. id \notin empty_fns
    BY <2>1 DEF Agree, Callable, Elements
  <2> QED BY <2>2, <2>3, <2>4, <2>5 DEF Agree
<1>3. CASE UnsubscribeAll
  BY <1>3, EmptyList, FS_EmptySet DEF UnsubscribeAll, UnsubscribeAllLocal, Agree, Callable
<1>4. CASE EventSubscribes
  <2>1. /\ subscription_counter_' = subscription_counter_ + 1
        /\ UNCHANGED <<subscribers_, subscribe_fn_map_, empty_fns>>
    BY <1>4 DEF EventSubscribes
  <2>2. \A id \in subscribe_fn_map_ : id < subscription_counter_ + 1
    BY <1>t DEF Agree
  <2> QED BY <2>1, <2>2 DEF Agree, Callable
<1>5. CASE CallErased
  <2>1. /\ frame.kind = "presence" /\ frame.todo # <<>>
        /\ Head(frame.todo) \notin Callable
        /\ subscribe_fn_map_' = subscribe_fn_map_ \cup {Head(frame.todo)}
        /\ empty_fns' = empty_fns \cup {Head(frame.todo)}
        /\ UNCHANGED <<subscribers_, subscription_counter_>>
    BY <1>5 DEF CallErased
  <2>2. Head(frame.todo) < subscription_counter_
    BY <1>t, <2>1, TailElements DEF TodoInv
  <2>3. Callable' = Callable
    BY <2>1 DEF Callable
  <2>4. IsFiniteSet(empty_fns')
    BY <2>1, FS_AddElement DEF Agree
  <2> QED BY <2>1, <2>2, <2>3, <2>4 DEF Agree
<1>6. CASE GetAll
  BY <1>0, <1>6 DEF GetAll, GetAllLocal
<1>7. CASE CallSubscriber \/ CallQuerent \/ CallbackReturns \/ NotifyReturns \/ CallbackThrows
  BY <1>0, <1>7 DEF CallSubscriber, CallQuerent, CallbackReturns, NotifyReturns, CallbackThrows
<1>8. CASE Link \/ UNCHANGED vars
  BY <1>0, <1>8 DEF Link, PresenceArrives, AnswerArrives, LateAnswerArrives, AnswerLocal,
                    Answer, ConnectionOpens, ConnectionLost, vars
<1> QED BY <1>1, <1>2, <1>3, <1>4, <1>5, <1>6, <1>7, <1>8 DEF Next, User, Loops

\* The server knows of nobody who is not in the list.
LEMMA OrphanStep ==
    ASSUME TypeOK, NoOrphanSubscription, [Next]_vars PROVE NoOrphanSubscription'
<1>t. subscribers_ \in Seq(Nat) /\ subscription_counter_ \in Nat /\ session \in Sessions
  BY DEF TypeOK, Sessions
<1>0. ASSUME UNCHANGED subscribers_, session'.subscribed => session.subscribed
      PROVE  NoOrphanSubscription'
  BY <1>0 DEF NoOrphanSubscription
<1>n. ~NoSession.subscribed
  BY DEF NoSession
\* What a message leaves of the session.
<1>s. ASSUME NEW needed, NEW s \in Sessions, Tells(needed, s),
             s.subscribed => session.subscribed
      PROVE  session'.subscribed => session.subscribed
  BY <1>s, <1>n DEF Tells, Sends, linkVars
<1>1. CASE Subscribe
  <2>1. subscribers_' # <<>>
    BY <1>t, <1>1, AppendProperties DEF Subscribe, SubscribeLocal, AddSubscriber
  <2> QED BY <2>1 DEF NoOrphanSubscription
<1>2. ASSUME NEW id, UnsubscribeId(id) PROVE NoOrphanSubscription'
  <2>1. PICK i \in 1 .. Len(subscribers_) :
          subscribers_[i] = id /\ subscribers_' = RemoveAt(subscribers_, i)
    BY <1>2 DEF UnsubscribeId, UnsubscribeIdLocal, RemoveSubscriber
  <2>2. Tells(subscribers_ = <<id>>, [session EXCEPT !.subscribed = FALSE])
    BY <1>2 DEF UnsubscribeId, UnsubscribeTells
  <2>3. CASE subscribers_ = <<id>>
    <3>1. ~[session EXCEPT !.subscribed = FALSE].subscribed
      BY <1>t DEF Sessions
    <3>2. ~session'.subscribed
      BY <2>2, <2>3, <3>1, <1>n DEF Tells, Sends
    <3> QED BY <3>2 DEF NoOrphanSubscription
  <2>4. CASE subscribers_ # <<id>>
    <3>1. Len(subscribers_) # 1
      <4>1. SUFFICES ASSUME Len(subscribers_) = 1 PROVE FALSE
        OBVIOUS
      <4>2. subscribers_[1] = id
        BY <2>1, <4>1
      <4>3. subscribers_ = <<id>>
        BY <1>t, <4>1, <4>2, SeqEqual
      <4> QED BY <2>4, <4>3
    <3>2. Len(subscribers_') = Len(subscribers_) - 1 /\ Len(subscribers_) \in Nat
      BY <1>t, <2>1, RemoveAtProperties, LenProperties
    <3>3. Len(subscribers_') # 0
      BY <2>1, <3>1, <3>2
    <3>4. subscribers_' # <<>>
      BY <3>3, EmptySeq
    <3> QED BY <3>4 DEF NoOrphanSubscription
  <2> QED BY <2>3, <2>4
<1>3. CASE UnsubscribeAll
  <2>1. ~[session EXCEPT !.subscribed = FALSE].subscribed
    BY <1>t DEF Sessions
  <2>2. ~session'.subscribed
    BY <1>3, <2>1, <1>n DEF UnsubscribeAll, Tells, Sends
  <2> QED BY <2>2 DEF NoOrphanSubscription
<1>4. CASE GetAll
  <2>1. LET s == [session EXCEPT !.queries = @ + 1]
        IN s \in Sessions /\ s.subscribed = session.subscribed
    <3>1. session.queries + 1 \in Nat
      BY <1>t DEF Sessions
    <3> QED BY <1>t, <3>1 DEF Sessions
  <2>2. UNCHANGED subscribers_ /\ Tells(GetAllTells, [session EXCEPT !.queries = @ + 1])
    BY <1>4 DEF GetAll, GetAllLocal, subVars
  <2> QED BY <1>0, <1>s, <2>1, <2>2
<1>5. CASE EventSubscribes
  <2>1. PICK needed \in BOOLEAN : Tells(needed, session)
    BY <1>5 DEF EventSubscribes
  <2>2. UNCHANGED subscribers_
    BY <1>5 DEF EventSubscribes
  <2> QED BY <1>0, <1>s, <1>t, <2>1, <2>2
<1>6. CASE Loops \/ CallbackThrows \/ UNCHANGED vars
  <2>1. UNCHANGED <<subscribers_, session>>
    BY <1>6 DEF Loops, CallSubscriber, CallErased, CallQuerent, CallbackReturns,
                NotifyReturns, CallbackThrows, vars, subVars, linkVars
  <2> QED BY <1>0, <2>1
<1>7. CASE PresenceArrives \/ LateAnswerArrives \/ ConnectionOpens
  <2>1. UNCHANGED <<subscribers_, session>>
    BY <1>7 DEF PresenceArrives, LateAnswerArrives, AnswerLocal, Answer, ConnectionOpens,
                subVars, linkVars
  <2> QED BY <1>0, <2>1
<1>8. CASE AnswerArrives
  <2>1. UNCHANGED subscribers_ /\ session' = [session EXCEPT !.queries = @ - 1]
    BY <1>8 DEF AnswerArrives, AnswerLocal, Answer, subVars
  <2>2. session'.subscribed = session.subscribed
    BY <1>t, <2>1 DEF Sessions
  <2> QED BY <1>0, <2>1, <2>2
<1>9. CASE ConnectionLost
  <2>1. UNCHANGED subscribers_ /\ session' = NoSession
    BY <1>9 DEF ConnectionLost, Sends, subVars
  <2> QED BY <1>0, <1>n, <2>1
<1> QED BY <1>1, <1>2, <1>3, <1>4, <1>5, <1>6, <1>7, <1>8, <1>9 DEF Next, User, Link

-----------------------------------------------------------------------------
(***************************************************************************)
(* Calls.                                                                  *)
(***************************************************************************)

\* Both counters only grow.
LEMMA CountersGrow ==
    ASSUME TypeOK, [Next]_vars
    PROVE  /\ subscription_counter_' \in {subscription_counter_, subscription_counter_ + 1}
           /\ asked' \in {asked, asked + 1}
<1>1. CASE User
  BY <1>1 DEF User, Subscribe, SubscribeLocal, AddSubscriber, UnsubscribeAll,
     UnsubscribeAllLocal, GetAll, GetAllLocal, EventSubscribes, UnsubscribeId,
     UnsubscribeIdLocal, RemoveSubscriber, subVars, queryVars
<1>2. CASE Loops \/ CallbackThrows \/ UNCHANGED vars
  BY <1>2 DEF Loops, CallSubscriber, CallErased, CallQuerent, CallbackReturns,
     NotifyReturns, CallbackThrows, vars, subVars, queryVars
<1>3. CASE Link
  BY <1>3 DEF Link, PresenceArrives, AnswerArrives, LateAnswerArrives, AnswerLocal,
     Answer, ConnectionOpens, ConnectionLost, subVars, queryVars
<1> QED BY <1>1, <1>2, <1>3 DEF Next

LEMMA TodoStep ==
    ASSUME TypeOK, FrameInv, Agree, CalledInOrder, TodoInv, [Next]_vars PROVE TodoInv'
<1>t. /\ subscription_counter_ \in Nat /\ asked \in Nat /\ subscribers_ \in Seq(Nat)
      /\ querents_ \in Seq(Nat) /\ frame.todo \in Seq(Nat)
      /\ subscription_counter_' \in {subscription_counter_, subscription_counter_ + 1}
      /\ asked' \in {asked, asked + 1}
  BY CountersGrow DEF TypeOK
<1>e. \A n \in Elements(frame.todo) : n \in Nat
  BY <1>t, ElementOfSeq DEF Elements
<1>0. ASSUME frame'.kind = frame.kind, frame'.todo = frame.todo PROVE TodoInv'
  <2>1. \A n \in Elements(frame.todo) :
          IF frame.kind = "query" THEN n <= asked' ELSE n < subscription_counter_'
    BY <1>t, <1>e DEF TodoInv
  <2> QED BY <1>0, <2>1 DEF TodoInv
<1>1. ASSUME frame'.todo = <<>> PROVE TodoInv'
  BY <1>1, EmptyList DEF TodoInv
<1>2. CASE PresenceArrives
  <2>1. /\ frame'.kind = "presence" /\ frame'.todo = subscribers_
        /\ subscription_counter_' = subscription_counter_
    BY <1>2 DEF PresenceArrives, subVars
  <2>2. \A id \in Elements(subscribers_) : id < subscription_counter_
    BY DEF Agree, Callable
  <2> QED BY <2>1, <2>2 DEF TodoInv, Agree
<1>3. CASE AnswerArrives \/ LateAnswerArrives
  <2>1. frame'.kind = "query" /\ frame'.todo = querents_ /\ asked' = asked
    BY <1>3 DEF AnswerArrives, LateAnswerArrives, AnswerLocal, Answer, queryVars
  <2> QED BY <2>1 DEF TodoInv, CalledInOrder
<1>4. CASE CallbackReturns
  <2>1. /\ frame'.kind = frame.kind /\ frame'.todo = Tail(frame.todo) /\ frame.todo # <<>>
        /\ UNCHANGED <<asked, subscription_counter_>>
    BY <1>4 DEF CallbackReturns, FrameInv, TypeOK, subVars, queryVars
  <2> QED BY <1>t, <2>1, TailElements DEF TodoInv
<1>5. CASE CallSubscriber \/ CallQuerent
  <2>1. frame'.kind = frame.kind /\ frame'.todo = frame.todo
    BY <1>5 DEF CallSubscriber, CallQuerent, TypeOK
  <2> QED BY <1>0, <2>1
<1>6. CASE CallErased \/ CallbackThrows \/ NotifyReturns
  BY <1>1, <1>6 DEF CallErased, CallbackThrows, NotifyReturns, Idle
<1>7. CASE User \/ ConnectionOpens \/ ConnectionLost \/ UNCHANGED vars
  <2>1. UNCHANGED frame
    BY <1>7 DEF User, Subscribe, SubscribeLocal, AddSubscriber, UnsubscribeAll,
       UnsubscribeAllLocal, GetAll, GetAllLocal, EventSubscribes, UnsubscribeId,
       UnsubscribeIdLocal, RemoveSubscriber, ConnectionOpens, ConnectionLost, vars
  <2> QED BY <1>0, <2>1
<1> QED BY <1>2, <1>3, <1>4, <1>5, <1>6, <1>7 DEF Next, Loops, Link

LEMMA CalledStep ==
    ASSUME TypeOK, FrameInv, TodoInv, CalledInOrder, [Next]_vars PROVE CalledInOrder'
<1> DEFINE Order(q, but) == \A i, j \in 1 .. Len(q) : i < j => q[i] < q[j] \/ q[j] \in but
<1>t. /\ asked \in Nat /\ asked + 1 \in Nat /\ querents_ \in Seq(Nat)
      /\ answered \in Seq(Nat) /\ frame.todo \in Seq(Nat)
      /\ thrown \subseteq Nat /\ frame.running \in BOOLEAN
  BY DEF TypeOK
<1>c. /\ StrictlyIncreasing(querents_)
      /\ \A n \in Elements(querents_) \cup Elements(answered) : n <= asked
      /\ Order(answered, thrown)
      /\ \A n \in Elements(answered), m \in Elements(Uncalled) : n < m \/ m \in thrown
  BY DEF CalledInOrder
<1>q. CalledInOrder' <=>
        /\ StrictlyIncreasing(querents_')
        /\ \A n \in Elements(querents_') \cup Elements(answered') : n <= asked'
        /\ Order(answered', thrown')
        /\ \A n \in Elements(answered'), m \in Elements(Uncalled') : n < m \/ m \in thrown'
  BY DEF CalledInOrder, Uncalled, Waiting, StrictlyIncreasing, Elements
<1>o. \A but : thrown \subseteq but => Order(answered, but)
  BY <1>c
<1> HIDE DEF Order
\* Nobody asks and nobody is called, but some may be forgotten.
<1>0. ASSUME UNCHANGED <<querents_, asked, answered>>, thrown \subseteq thrown',
             Elements(Uncalled') \subseteq Elements(Uncalled) \cup thrown'
      PROVE  CalledInOrder'
  BY <1>0, <1>c, <1>o, <1>q
<1>1. CASE GetAll
  <2>1. /\ querents_' = Append(querents_, asked + 1) /\ asked' = asked + 1
        /\ UNCHANGED <<answered, thrown, frame>>
    BY <1>1 DEF GetAll, GetAllLocal
  <2>2. \A n \in Elements(querents_) \cup Elements(answered) : n < asked + 1 /\ n <= asked + 1
    <3>1. \A n \in Elements(querents_) \cup Elements(answered) : n \in Nat
      BY <1>t, ElementOfSeq DEF Elements
    <3> QED BY <1>c, <1>t, <3>1
  <2>3. /\ Elements(querents_') = Elements(querents_) \cup {asked + 1}
        /\ StrictlyIncreasing(querents_')
    BY <1>c, <1>t, <2>1, <2>2, ElementsAppend
  <2>4. asked + 1 <= asked + 1
    BY <1>t
  <2>5. Uncalled' = IF frame.kind = "query" THEN Uncalled ELSE querents_'
    BY <2>1 DEF Uncalled, Waiting
  <2>6. \A n \in Elements(answered), m \in Elements(Uncalled') : n < m \/ m \in thrown
    BY <1>c, <2>2, <2>3, <2>5 DEF Uncalled
  <2> QED BY <1>c, <1>q, <2>1, <2>2, <2>3, <2>4, <2>6
<1>2. CASE AnswerArrives \/ LateAnswerArrives
  <2>1. /\ frame' = [kind |-> "query", todo |-> querents_, running |-> FALSE]
        /\ frame.kind = "none" /\ UNCHANGED queryVars
    BY <1>2 DEF AnswerArrives, LateAnswerArrives, AnswerLocal, Answer
  <2>2. Uncalled' = querents_ /\ Uncalled = querents_
    BY <2>1 DEF Uncalled, Waiting
  <2> QED BY <1>0, <2>1, <2>2 DEF queryVars
<1>3. CASE CallQuerent
  <2>1. /\ frame.kind = "query" /\ ~frame.running /\ frame.todo # <<>>
        /\ frame' = [frame EXCEPT !.running = TRUE]
        /\ answered' = Append(answered, Head(frame.todo))
        /\ UNCHANGED <<querents_, asked, thrown>>
    BY <1>3 DEF CallQuerent
  <2>2. Uncalled = frame.todo /\ Uncalled' = Tail(frame.todo)
    BY <2>1 DEF Uncalled, Waiting, TypeOK
  <2>3. /\ Head(frame.todo) \in Nat /\ Head(frame.todo) \in Elements(frame.todo)
        /\ Elements(Tail(frame.todo)) \subseteq Elements(frame.todo)
        /\ \A m \in Elements(Tail(frame.todo)) : Head(frame.todo) < m
        /\ Head(frame.todo) <= asked
    BY <1>t, <2>1, TailElements DEF TodoInv
  <2>4. Elements(answered') = Elements(answered) \cup {Head(frame.todo)}
    BY <1>t, <2>1, <2>3, ElementsAppend
  <2>5. Order(answered', thrown)
    <3> DEFINE n == Len(answered)
               last == Head(frame.todo)
    <3>1. /\ n \in Nat /\ Len(answered') = n + 1 /\ answered'[n + 1] = last
          /\ \A i \in 1 .. n : answered'[i] = answered[i]
      BY <1>t, <2>1, <2>3, AppendProperties, LenProperties
    <3>2. \A i, j \in 1 .. n : i < j => answered[i] < answered[j] \/ answered[j] \in thrown
      BY <1>c DEF Order
    <3>3. \A i \in 1 .. n : answered[i] < last \/ last \in thrown
      BY <1>c, <2>2, <2>3 DEF Elements
    <3> HIDE DEF n, last
    <3>4. ASSUME NEW i \in 1 .. n + 1, NEW j \in 1 .. n + 1, i < j
          PROVE  answered'[i] < answered'[j] \/ answered'[j] \in thrown
      <4>1. i \in 1 .. n
        BY <3>1, <3>4
      <4>2. CASE j = n + 1
        BY <3>1, <3>3, <4>1, <4>2
      <4>3. CASE j # n + 1
        <5>1. j \in 1 .. n
          BY <3>1, <4>3
        <5> QED BY <3>1, <3>2, <3>4, <4>1, <5>1
      <4> QED BY <4>2, <4>3
    <3> QED BY <3>1, <3>4 DEF Order
  <2> QED BY <1>c, <1>q, <2>1, <2>2, <2>3, <2>4, <2>5
<1>4. CASE CallbackReturns
  <2>1. /\ frame.running /\ frame'.kind = frame.kind /\ ~frame'.running
        /\ frame'.todo = Tail(frame.todo) /\ UNCHANGED queryVars
    BY <1>4 DEF CallbackReturns, TypeOK
  <2>2. Uncalled' = Uncalled
    BY <2>1 DEF Uncalled, Waiting, queryVars
  <2> QED BY <1>0, <2>1, <2>2 DEF queryVars
<1>5. CASE CallbackThrows
  <2>1. /\ frame' = Idle /\ UNCHANGED <<querents_, asked, answered>>
        /\ thrown' = IF frame.kind = "query" THEN thrown \cup Elements(querents_) ELSE thrown
    BY <1>5 DEF CallbackThrows
  <2>2. Uncalled' = querents_
    BY <2>1 DEF Uncalled, Idle
  <2>3. Elements(Uncalled') \subseteq Elements(Uncalled) \cup thrown'
    BY <2>1, <2>2 DEF Uncalled
  <2> QED BY <1>0, <2>1, <2>3
<1>6. CASE NotifyReturns
  <2>1. /\ frame' = Idle /\ UNCHANGED <<asked, answered, thrown>>
        /\ querents_' = IF frame.kind = "query" THEN <<>> ELSE querents_
    BY <1>6 DEF NotifyReturns
  <2>2. Uncalled' = querents_'
    BY <2>1 DEF Uncalled, Idle
  <2>3. CASE frame.kind = "query"
    BY <1>c, <1>q, <2>1, <2>2, <2>3, EmptyList
  <2>4. CASE frame.kind # "query"
    BY <1>0, <2>1, <2>2, <2>4 DEF Uncalled
  <2> QED BY <2>3, <2>4
<1>7. CASE PresenceArrives \/ CallSubscriber \/ CallErased
  <2>1. frame.kind # "query" /\ frame'.kind # "query" /\ UNCHANGED queryVars
    BY <1>7 DEF PresenceArrives, CallSubscriber, CallErased, Idle, TypeOK
  <2>2. Uncalled' = Uncalled
    BY <2>1 DEF Uncalled, queryVars
  <2> QED BY <1>0, <2>1, <2>2 DEF queryVars
<1>8. CASE UNCHANGED <<queryVars, frame>>
  BY <1>0, <1>8 DEF queryVars, Uncalled, Waiting
<1>9. CASE User
  BY <1>1, <1>8, <1>9 DEF User, Subscribe, SubscribeLocal, AddSubscriber, UnsubscribeAll,
     UnsubscribeAllLocal, EventSubscribes, UnsubscribeId, UnsubscribeIdLocal, RemoveSubscriber
<1>10. CASE ConnectionOpens \/ ConnectionLost \/ UNCHANGED vars
  BY <1>8, <1>10 DEF ConnectionOpens, ConnectionLost, vars
<1> QED BY <1>2, <1>3, <1>4, <1>5, <1>6, <1>7, <1>9, <1>10 DEF Next, Loops, Link

-----------------------------------------------------------------------------
LEMMA PresenceInit == Init => PresenceInv
<1> SUFFICES ASSUME Init PROVE PresenceInv
  OBVIOUS
<1>1. TypeOK /\ FrameInv
  BY EmptySeq DEF Init, TypeOK, FrameInv, Idle, NoSession
<1>2. Agree /\ TodoInv
  BY EmptyList, FS_EmptySet DEF Init, Agree, Callable, TodoInv, Idle
<1>3. CalledInOrder
  BY EmptyList, EmptySeq DEF Init, CalledInOrder, Idle
<1> QED BY <1>1, <1>2, <1>3 DEF Init, PresenceInv, NoOrphanSubscription, NoSession

LEMMA PresenceStep == PresenceInv /\ [Next]_vars => PresenceInv'
BY TypeStep, AgreeStep, OrphanStep, TodoStep, CalledStep DEF PresenceInv

\* Exactly those in the list can be called, in the order of subscription, whatever
\* callbacks do; and what both unsubscribe() assert holds as long as no erased
\* subscriber has been called, and only then.  (subscribe, both unsubscribe, notify_)
THEOREM ListAlwaysMatches == Spec => []ListMatchesCallbacks
<1>1. PresenceInv => ListMatchesCallbacks
  BY SizesDiffer DEF PresenceInv, Agree, TodoInv, ListMatchesCallbacks
<1> QED BY PresenceInit, PresenceStep, <1>1, PTL DEF Spec

\* The server never believes in a subscriber that is gone.  (unsubscribe)
THEOREM NeverOrphaned == Spec => []NoOrphanSubscription
<1>1. PresenceInv => NoOrphanSubscription
  BY DEF PresenceInv
<1> QED BY PresenceInit, PresenceStep, <1>1, PTL DEF Spec

\* No querent is called twice or before an earlier one, however answers, late
\* answers and new queries are interleaved, but for those that waited when a querent
\* threw.  (get_all, notify_)
THEOREM AlwaysAnsweredOnce == Spec => []AnsweredOnce
<1>1. PresenceInv => AnsweredOnce
  <2> SUFFICES ASSUME PresenceInv PROVE AnsweredOnce
    OBVIOUS
  <2>1. \A n \in Elements(answered) : n \in Nat
    BY ElementOfSeq DEF PresenceInv, TypeOK, Elements
  <2>2. DOMAIN answered = 1 .. Len(answered)
    BY LenProperties DEF PresenceInv, TypeOK
  <2>3. ASSUME frame.kind # "query", NEW n \in Elements(answered), n \in Elements(querents_)
        PROVE  n \in thrown
    <3>1. n < n \/ n \in thrown
      BY <2>3 DEF PresenceInv, CalledInOrder, Uncalled
    <3> QED BY <2>1, <2>3, <3>1
  <2> QED BY <2>2, <2>3 DEF PresenceInv, CalledInOrder, AnsweredOnce
<1> QED BY PresenceInit, PresenceStep, <1>1, PTL DEF Spec
=============================================================================
