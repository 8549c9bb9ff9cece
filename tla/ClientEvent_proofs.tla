--------------------------- MODULE ClientEvent_proofs ---------------------------
(***************************************************************************)
(* The client implements the link that Event assumes: the flush, a loop of *)
(* writes that a failure may cut short anywhere, is one step of Event when *)
(* it returns, and what it has written by then is kept back until then.    *)
(***************************************************************************)
EXTENDS Client_proofs

-----------------------------------------------------------------------------
\* What a flush has written is the end of one list and the start of another.

Kept(s, f) == SubSeq(s, 1, Len(s) - f)
Moved(s, f) == SubSeq(s, Len(s) - f + 1, Len(s))

LEMMA MovedProperties ==
    ASSUME NEW s \in Seq(Nat), NEW f \in 0 .. Len(s)
    PROVE  /\ f \in Nat /\ Len(s) \in Nat
           /\ Kept(s, f) \in Seq(Nat) /\ Len(Kept(s, f)) = Len(s) - f
           /\ \A i \in 1 .. Len(s) - f : Kept(s, f)[i] = s[i]
           /\ Moved(s, f) \in Seq(Nat) /\ Len(Moved(s, f)) = f
           /\ \A i \in 1 .. f : Moved(s, f)[i] = s[Len(s) - f + i]
           /\ Kept(s, f) \o Moved(s, f) = s
<1>1. /\ Len(s) \in Nat /\ f \in Nat /\ f <= Len(s)
      /\ \A i \in 1 .. Len(s) : s[i] \in Nat
  BY LenProperties, ElementOfSeq
<1> DEFINE k == Len(s) - f
<1>2. k \in Nat /\ k <= Len(s) /\ k + f = Len(s)
  BY <1>1
<1>0. Kept(s, f) = SubSeq(s, 1, k)
  BY DEF Kept
<1> HIDE DEF k
<1>3. /\ Kept(s, f) \in Seq(Nat) /\ Len(Kept(s, f)) = k
      /\ \A i \in 1 .. k : Kept(s, f)[i] = s[i]
  BY <1>0, <1>2, L!PrefixProperties
<1>4. Moved(s, f) = SubSeq(s, k + 1, Len(s))
  BY DEF Moved, k
<1>5. /\ SubSeq(s, k + 1, Len(s)) \in Seq(Nat)
      /\ Len(SubSeq(s, k + 1, Len(s))) = IF k + 1 <= Len(s) THEN Len(s) - (k + 1) + 1 ELSE 0
      /\ \A i \in 1 .. Len(s) - (k + 1) + 1 : SubSeq(s, k + 1, Len(s))[i] = s[k + 1 + i - 1]
  <2>1. \A i \in k + 1 .. Len(s) : s[i] \in Nat
    BY <1>1, <1>2
  <2>2. k + 1 \in Int /\ Len(s) \in Int
    BY <1>1, <1>2
  <2> QED BY <2>1, <2>2, SubSeqProperties
<1>6. /\ Len(Moved(s, f)) = f
      /\ \A i \in 1 .. f : Moved(s, f)[i] = s[k + i]
  <2>1. Len(s) - (k + 1) + 1 = f /\ (k + 1 <= Len(s) \/ f = 0)
    BY <1>1, <1>2
  <2>2. \A i \in 1 .. f : k + 1 + i - 1 = k + i
    BY <1>1, <1>2
  <2> QED BY <1>1, <1>2, <1>4, <1>5, <2>1, <2>2
<1>7. Kept(s, f) \o Moved(s, f) = s
  <2> DEFINE a == Kept(s, f)
             b == Moved(s, f)
  <2>0. /\ a \in Seq(Nat) /\ Len(a) = k /\ \A i \in 1 .. k : a[i] = s[i]
        /\ b \in Seq(Nat) /\ Len(b) = f /\ \A i \in 1 .. f : b[i] = s[k + i]
    BY <1>3, <1>4, <1>5, <1>6
  <2> HIDE DEF a, b
  <2>1. /\ a \o b \in Seq(Nat) /\ Len(a \o b) = k + f
        /\ \A i \in 1 .. k + f : (a \o b)[i] = IF i <= k THEN a[i] ELSE b[i - k]
    BY <2>0, ConcatProperties
  <2>2. ASSUME NEW i \in 1 .. k + f PROVE (a \o b)[i] = s[i]
    <3>1. CASE i <= k
      <4>1. i \in 1 .. k
        BY <1>1, <1>2, <3>1
      <4> QED BY <2>0, <2>1, <3>1, <4>1
    <3>2. CASE ~(i <= k)
      <4>1. i - k \in 1 .. f /\ k + (i - k) = i
        BY <1>1, <1>2, <3>2
      <4> QED BY <2>0, <2>1, <3>2, <4>1
    <3> QED BY <3>1, <3>2
  <2> QED BY <1>2, <2>1, <2>2, SeqEqual DEF a, b
<1> QED BY <1>1, <1>2, <1>3, <1>4, <1>5, <1>6, <1>7 DEF k

LEMMA NoneMoved ==
    ASSUME NEW s \in Seq(Nat), NEW q \in Seq(Nat)
    PROVE  Kept(s, 0) = s /\ Moved(s, 0) \o q = q
<1>1. 0 \in 0 .. Len(s)
  BY LenProperties
<1>2. Moved(s, 0) = <<>>
  BY <1>1, MovedProperties, EmptySeq
<1>3. Kept(s, 0) \o <<>> = s /\ Kept(s, 0) \in Seq(Nat)
  BY <1>1, <1>2, MovedProperties
<1> QED BY <1>2, <1>3, ConcatEmptySeq

LEMMA OneMoved ==
    ASSUME NEW s \in Seq(Nat), NEW q \in Seq(Nat), q # <<>>, NEW f \in 0 .. Len(s)
    PROVE  /\ Append(s, Head(q)) \in Seq(Nat) /\ f + 1 \in 0 .. Len(Append(s, Head(q)))
           /\ Kept(Append(s, Head(q)), f + 1) = Kept(s, f)
           /\ Moved(Append(s, Head(q)), f + 1) \o Tail(q) = Moved(s, f) \o q
<1> DEFINE t == Append(s, Head(q))
<1>1. /\ Head(q) \in Nat /\ Tail(q) \in Seq(Nat) /\ Head(q) = q[1]
      /\ Len(Tail(q)) = Len(q) - 1 /\ Len(q) \in Nat \ {0}
      /\ \A i \in 1 .. Len(q) - 1 : Tail(q)[i] = q[i + 1]
  BY HeadTailProperties, EmptySeq
<1>2. /\ t \in Seq(Nat) /\ Len(t) = Len(s) + 1 /\ t[Len(s) + 1] = Head(q)
      /\ \A i \in 1 .. Len(s) : t[i] = s[i]
  BY <1>1, AppendProperties
<1>3. f \in Nat /\ Len(s) \in Nat /\ f <= Len(s) /\ f + 1 \in 0 .. Len(t)
  BY <1>2, LenProperties
<1> HIDE DEF t
<1>4. Len(t) - (f + 1) = Len(s) - f
  BY <1>2, <1>3
<1>5. Kept(t, f + 1) = Kept(s, f)
  <2>1. /\ Kept(t, f + 1) \in Seq(Nat) /\ Len(Kept(t, f + 1)) = Len(s) - f
        /\ \A i \in 1 .. Len(s) - f : Kept(t, f + 1)[i] = t[i]
    <3>1. /\ Kept(t, f + 1) \in Seq(Nat) /\ Len(Kept(t, f + 1)) = Len(t) - (f + 1)
          /\ \A i \in 1 .. Len(t) - (f + 1) : Kept(t, f + 1)[i] = t[i]
      BY <1>2, <1>3, MovedProperties
    <3> QED BY <1>4, <3>1
  <2>2. /\ Kept(s, f) \in Seq(Nat) /\ Len(Kept(s, f)) = Len(s) - f
        /\ \A i \in 1 .. Len(s) - f : Kept(s, f)[i] = s[i]
    BY MovedProperties
  <2>3. \A i \in 1 .. Len(s) - f : t[i] = s[i]
    <3>1. \A i \in 1 .. Len(s) - f : i \in 1 .. Len(s)
      BY <1>3
    <3> QED BY <1>2, <3>1
  <2> QED BY <2>1, <2>2, <2>3, SeqEqual
<1>6. Moved(t, f + 1) \o Tail(q) = Moved(s, f) \o q
  <2> DEFINE a == Moved(t, f + 1)
             b == Moved(s, f)
  <2>1. /\ a \in Seq(Nat) /\ Len(a) = f + 1
        /\ \A i \in 1 .. f + 1 : a[i] = t[Len(s) - f + i]
    <3>1. /\ a \in Seq(Nat) /\ Len(a) = f + 1
          /\ \A i \in 1 .. f + 1 : a[i] = t[Len(t) - (f + 1) + i]
      BY <1>2, <1>3, MovedProperties
    <3> QED BY <1>4, <3>1
  <2>2. /\ b \in Seq(Nat) /\ Len(b) = f
        /\ \A i \in 1 .. f : b[i] = s[Len(s) - f + i]
    BY MovedProperties
  <2> HIDE DEF a, b
  <2>3. /\ a \o Tail(q) \in Seq(Nat) /\ Len(a \o Tail(q)) = f + Len(q)
        /\ \A i \in 1 .. f + Len(q) : (a \o Tail(q))[i] =
             IF i <= f + 1 THEN a[i] ELSE Tail(q)[i - (f + 1)]
    <3> DEFINE u == Tail(q)
    <3>1. (f + 1) + (Len(q) - 1) = f + Len(q)
      BY <1>1, <1>3
    <3>2. u \in Seq(Nat) /\ Len(u) = Len(q) - 1
      BY <1>1
    <3> HIDE DEF u
    <3>3. /\ a \o u \in Seq(Nat) /\ Len(a \o u) = Len(a) + Len(u)
          /\ \A i \in 1 .. Len(a) + Len(u) : (a \o u)[i] =
               IF i <= Len(a) THEN a[i] ELSE u[i - Len(a)]
      BY <2>1, <3>2, ConcatProperties
    <3>4. Len(a) = f + 1 /\ Len(a) + Len(u) = f + Len(q)
      BY <2>1, <3>1, <3>2
    <3> QED BY <3>3, <3>4 DEF u
  <2>4. /\ b \o q \in Seq(Nat) /\ Len(b \o q) = f + Len(q)
        /\ \A i \in 1 .. f + Len(q) : (b \o q)[i] = IF i <= f THEN b[i] ELSE q[i - f]
    BY <2>2, ConcatProperties
  <2>5. ASSUME NEW i \in 1 .. f + Len(q) PROVE (a \o Tail(q))[i] = (b \o q)[i]
    <3>1. i \in Nat /\ i >= 1
      BY <1>1, <1>3
    <3>2. CASE i <= f
      <4>1. i \in 1 .. f /\ i \in 1 .. f + 1 /\ Len(s) - f + i \in 1 .. Len(s)
        BY <1>3, <3>1, <3>2
      <4>2. a[i] = t[Len(s) - f + i] /\ b[i] = s[Len(s) - f + i]
        BY <2>1, <2>2, <4>1
      <4>3. a[i] = b[i]
        BY <1>2, <4>1, <4>2
      <4>4. i <= f + 1
        BY <1>3, <3>2
      <4> QED BY <2>3, <2>4, <3>2, <4>3, <4>4
    <3>3. CASE i = f + 1
      <4>1. i \in 1 .. f + 1 /\ Len(s) - f + i = Len(s) + 1 /\ ~(i <= f) /\ i - f = 1
        BY <1>3, <3>3
      <4>2. a[i] = q[1]
        BY <1>1, <1>2, <2>1, <4>1
      <4> QED BY <2>3, <2>4, <3>3, <4>1, <4>2
    <3>4. CASE ~(i <= f + 1)
      <4>1. /\ ~(i <= f) /\ i - (f + 1) \in 1 .. Len(q) - 1
            /\ (i - (f + 1)) + 1 = i - f
        BY <1>1, <1>3, <3>1, <3>4
      <4>2. Tail(q)[i - (f + 1)] = q[i - f]
        BY <1>1, <4>1
      <4> QED BY <2>3, <2>4, <3>4, <4>1, <4>2
    <3>5. i <= f \/ i = f + 1 \/ ~(i <= f + 1)
      BY <1>3, <3>1
    <3> QED BY <3>2, <3>3, <3>4, <3>5
  <2>6. Len(a \o Tail(q)) = Len(b \o q)
    BY <2>3, <2>4
  <2> QED BY <2>3, <2>4, <2>5, <2>6, SeqEqual DEF a, b
<1> QED BY <1>2, <1>3, <1>5, <1>6 DEF t

\* The end of a flush, with all that is moved at once.
LEMMA AllMoved ==
    ASSUME NEW s \in Seq(Nat), NEW q \in Seq(Nat), NEW f \in 0 .. Len(s)
    PROVE  LET r == Moved(s, f) \o q
           IN  /\ r \in Seq(Nat) /\ Len(r) = f + Len(q)
               /\ Kept(s, f) \o SubSeq(r, 1, f) = s
               /\ SubSeq(r, f + 1, Len(r)) = q
<1> DEFINE m == Moved(s, f)
           r == m \o q
<1>1. m \in Seq(Nat) /\ Len(m) = f /\ f \in Nat /\ Kept(s, f) \o m = s
  BY MovedProperties
<1> HIDE DEF m
<1>2. /\ r \in Seq(Nat) /\ Len(r) = f + Len(q) /\ Len(q) \in Nat
      /\ \A i \in 1 .. f + Len(q) : r[i] = IF i <= f THEN m[i] ELSE q[i - f]
  BY <1>1, ConcatProperties, LenProperties
<1> HIDE DEF r
<1>3. SubSeq(r, 1, f) = m
  <2>1. f <= Len(r)
    BY <1>1, <1>2
  <2>2. /\ SubSeq(r, 1, f) \in Seq(Nat) /\ Len(SubSeq(r, 1, f)) = f
        /\ \A i \in 1 .. f : SubSeq(r, 1, f)[i] = r[i]
    BY <1>1, <1>2, <2>1, L!PrefixProperties
  <2>3. \A i \in 1 .. f : r[i] = m[i]
    BY <1>1, <1>2
  <2> QED BY <1>1, <2>2, <2>3, SeqEqual
<1>4. SubSeq(r, f + 1, Len(r)) = q
  <2>1. \A i \in f + 1 .. Len(r) : r[i] \in Nat
    BY <1>1, <1>2, ElementOfSeq
  <2>2. f + 1 \in Int /\ Len(r) \in Int
    BY <1>1, <1>2
  <2>3. /\ SubSeq(r, f + 1, Len(r)) \in Seq(Nat)
        /\ Len(SubSeq(r, f + 1, Len(r))) = IF f + 1 <= Len(r) THEN Len(r) - (f + 1) + 1 ELSE 0
        /\ \A i \in 1 .. Len(r) - (f + 1) + 1 : SubSeq(r, f + 1, Len(r))[i] = r[f + 1 + i - 1]
    BY <2>1, <2>2, SubSeqProperties
  <2>4. Len(r) - (f + 1) + 1 = Len(q) /\ (f + 1 <= Len(r) \/ Len(q) = 0)
    BY <1>1, <1>2
  <2>5. ASSUME NEW i \in 1 .. Len(q) PROVE r[f + 1 + i - 1] = q[i]
    <3>1. f + 1 + i - 1 = f + i /\ f + i \in 1 .. f + Len(q) /\ ~(f + i <= f) /\ (f + i) - f = i
      BY <1>1, <1>2
    <3> QED BY <1>2, <3>1
  <2>6. Len(SubSeq(r, f + 1, Len(r))) = Len(q)
    BY <1>2, <2>3, <2>4
  <2>7. \A i \in 1 .. Len(q) : SubSeq(r, f + 1, Len(r))[i] = q[i]
    BY <2>3, <2>4, <2>5
  <2> QED BY <2>3, <2>6, <2>7, SeqEqual
<1> QED BY <1>1, <1>2, <1>3, <1>4 DEF r, m
-----------------------------------------------------------------------------
\* The flush, as it goes on: it has told the server all but what is left of its
\* loops, and it writes no emit before it is through with them.
FlushTypeOK ==
    /\ sent \in Seq(Nat) /\ flushed \in 0 .. Len(sent)
    /\ flush \in [subs : SUBSET Names, listens : SUBSET Patterns]
    /\ listener_map_ \subseteq Patterns
    /\ Len(frames) <= MaxDepth

FlushInv ==
    /\ FlushTypeOK
    /\ pc # "flush" => flushed = 0 /\ flush = NoFlush
    /\ pc = "flush" =>
        /\ flush # NoFlush => flushed = 0
        /\ ~Online /\ flushed > 0 => send_queue_ # <<>>
        /\ Online => /\ told.subs \cup flush.subs = E!Subscribed
                     /\ told.listens \cup flush.listens = listener_map_

EventMapped == EventView!Next \/ UNCHANGED EventView!vars

\* Outside the flush, Event's lists are the client's.
LEMMA OutNow ==
    ASSUME QueueOK, FlushTypeOK, flushed = 0
    PROVE  EventSent = sent /\ EventQueue = send_queue_
<1>1. sent \in Seq(Nat) /\ send_queue_ \in Seq(Nat)
  BY DEF QueueOK, FlushTypeOK
<1> QED BY <1>1, NoneMoved DEF EventSent, EventQueue, Kept, Moved

LEMMA OutLater ==
    ASSUME QueueOK', FlushTypeOK', flushed' = 0
    PROVE  EventSent' = sent' /\ EventQueue' = send_queue_'
<1>1. sent' \in Seq(Nat) /\ send_queue_' \in Seq(Nat)
  BY DEF QueueOK, FlushTypeOK
<1> QED BY <1>1, NoneMoved DEF EventSent, EventQueue, Kept, Moved

LEMMA OutKept ==
    ASSUME UNCHANGED <<sent, send_queue_, flushed>>
    PROVE  UNCHANGED <<EventSent, EventQueue>>
BY DEF EventSent, EventQueue

-----------------------------------------------------------------------------
\* What becomes of the link of Event.

SameLists == told'.subs = told.subs /\ told'.listens = told.listens

LinkKept == UNCHANGED <<EventOnline, EventSession>>
LinkLost == EventOnline /\ EventView!Sends(FALSE, EventSession)

LEMMA LinkKinds ==
    ASSUME EventOnline' => EventOnline, EventOnline' => SameLists
    PROVE  LinkKept \/ LinkLost
<1>1. CASE EventOnline'
  <2>1. EventOnline' = EventOnline
    BY <1>1 DEF EventOnline, Online
  <2> QED BY <1>1, <2>1 DEF LinkKept, EventSession, SameLists
<1>2. CASE ~EventOnline'
  <2>1. EventOnline' = FALSE /\ EventSession' = NoFlush
    BY <1>2 DEF EventSession, EventOnline
  <2>2. CASE EventOnline
    BY <2>1, <2>2 DEF LinkLost, EventView!Sends, EventView!NoSession, NoFlush
  <2>3. CASE ~EventOnline
    <3>1. EventOnline = FALSE /\ EventSession = NoFlush
      BY <2>3 DEF EventSession, EventOnline
    <3> QED BY <2>1, <3>1 DEF LinkKept
  <2> QED BY <2>2, <2>3
<1> QED BY <1>1, <1>2

\* What Event makes of a step that it takes no part in.
LEMMA LinkMapsEvent ==
    ASSUME LinkKept \/ LinkLost, UNCHANGED <<eventVars, subscription_counter_, flushed>>,
           LinkLost => EventView!UserRuns
    PROVE  EventMapped
<1>1. /\ UNCHANGED <<EventView!mapVars, listener_map_, frames, event_crashed>>
      /\ UNCHANGED EventView!outVars
  BY OutKept DEF eventVars, EventView!mapVars, EventView!outVars
<1>2. CASE LinkKept
  BY <1>1, <1>2 DEF LinkKept, EventView!vars, EventView!linkVars, EventMapped
<1>3. CASE LinkLost
  <2>1. EventView!ConnectionLost
    BY <1>1, <1>3 DEF LinkLost, EventView!ConnectionLost
  <2> QED BY <2>1 DEF EventView!Next, EventView!Link, EventMapped
<1> QED BY <1>2, <1>3

\* A socket that is lost takes the view of its server with it.
LEMMA WireLists ==
    ASSUME ConnInv', WireFollows, Online'
    PROVE  SameLists
<1>1. srv' # "none"
  BY OnlineUp
<1> QED BY <1>1 DEF WireFollows, SameLists

\* send() of a message, outside the flush.
EventLearned(m) == [subs |-> Learn(told, m).subs, listens |-> Learn(told, m).listens]

LEMMA EventSends ==
    ASSUME ConnInv, ConnInv', WireInv, NEW m \in ToServer, NEW ok \in BOOLEAN, Send(ok, m),
           pc # "flush", NEW s, EventOnline => s = EventLearned(m)
    PROVE  EventView!Sends(ok, s)
<1>1. CASE /\ ok
           /\ C!SendApp(TRUE)
           /\ uplink' = Append(uplink, m)
           /\ told' = Learn(told, m)
           /\ UNCHANGED <<downlink, inbox, known, late, received>>
  <2>1. Online /\ Online' /\ pc' = pc
    BY <1>1, OkSend DEF C!SendApp
  <2>2. EventOnline /\ EventOnline' = EventOnline
    BY <2>1 DEF EventOnline
  <2>3. EventSession' = EventLearned(m)
    BY <1>1, <2>2 DEF EventSession, EventLearned
  <2> QED BY <1>1, <2>2, <2>3 DEF EventView!Sends
<1>2. CASE ~ok /\ ~Online'
  <2>1. EventOnline' = FALSE /\ EventSession' = NoFlush
    BY <1>2 DEF EventOnline, EventSession
  <2> QED BY <1>2, <2>1 DEF EventView!Sends, EventView!NoSession, NoFlush
<1>3. ok \/ ~Online'
  <2>1. CASE C!SendApp(FALSE)
    <3>1. srv' = "none"
      BY <2>1 DEF C!SendApp, C!SendFails, C!SocketFailsToSend, C!DropSocket
    <3> QED BY <3>1, OnlineUp
  <2>2. CASE state # "OPEN" /\ UNCHANGED connVars
    BY <2>2 DEF connVars, Online
  <2> QED BY <2>1, <2>2 DEF Send
<1> QED BY <1>1, <1>2, <1>3 DEF Send

LEMMA EventTells ==
    ASSUME ConnInv, ConnInv', WireInv, NEW m \in ToServer, NEW needed, SendIf(needed, m),
           pc # "flush", NEW s, EventOnline => s = EventLearned(m)
    PROVE  EventView!Tells(needed, s)
<1>1. CASE needed
  <2>1. PICK ok \in BOOLEAN : Send(ok, m)
    BY <1>1 DEF SendIf
  <2> QED BY <1>1, <2>1, EventSends DEF EventView!Tells
<1>2. CASE ~needed
  <2>1. UNCHANGED <<connVars, wireVars>>
    BY <1>2 DEF SendIf
  <2>2. UNCHANGED <<state, opening, pc, told>>
    BY <2>1 DEF connVars, wireVars
  <2>3. UNCHANGED <<EventOnline, EventSession>>
    BY <2>2 DEF EventOnline, Online, EventSession
  <2> QED BY <1>2, <2>3 DEF EventView!Tells, EventView!linkVars
<1> QED BY <1>1, <1>2

\* The lists that a message adds to.
LEMMA LearnLists ==
    ASSUME NEW view \in View, NEW m \in ToServer
    PROVE  /\ m.act = "SUBSCRIBE" =>
                /\ Learn(view, m).subs = view.subs \cup {m.what}
                /\ Learn(view, m).listens = view.listens
           /\ m.act = "UNSUBSCRIBE" =>
                /\ Learn(view, m).subs = view.subs \ {m.what}
                /\ Learn(view, m).listens = view.listens
           /\ m.act = "LISTEN" =>
                /\ Learn(view, m).subs = view.subs
                /\ Learn(view, m).listens = view.listens \cup {m.what}
           /\ m.act \notin {"SUBSCRIBE", "UNSUBSCRIBE", "LISTEN"} =>
                /\ Learn(view, m).subs = view.subs
                /\ Learn(view, m).listens = view.listens
BY DEF Learn, View

-----------------------------------------------------------------------------
\* The stack of notifications stays within its bound.
LEMMA Deeper ==
    ASSUME Lists, NEW f \in E!Frame, frames' = Append(frames, f), Len(frames) < MaxDepth
    PROVE  Len(frames') <= MaxDepth
<1>1. Len(frames) \in Nat /\ Len(frames') = Len(frames) + 1
  BY AppendProperties, LenProperties DEF Lists
<1> QED BY <1>1, BoundsAssumption

LEMMA NotifyDeeper ==
    ASSUME Lists, Len(frames) < MaxDepth, NEW name \in Names, E!Notify(name)
    PROVE  Len(frames') <= MaxDepth
<1> DEFINE f == [kind |-> "event", todo |-> subscriber_map_[name], running |-> FALSE]
<1>1. f \in E!Frame
  BY DEF Lists, E!Frame, E!Ids
<1>2. frames' = Append(frames, f)
  BY DEF E!Notify
<1> HIDE DEF f
<1> QED BY <1>1, <1>2, Deeper

LEMMA NotDeeper ==
    ASSUME Lists, Len(frames) <= MaxDepth,
           \/ \E n \in 0 .. Len(frames) - 1 : frames' = SubSeq(frames, 1, n)
           \/ frames # <<>> /\ \E f \in E!Frame : frames' = [frames EXCEPT ![Len(frames)] = f]
    PROVE  Len(frames') <= MaxDepth
<1>1. Len(frames) \in Nat /\ (frames # <<>> => Len(frames) \in 1 .. Len(frames))
  BY LenProperties, EmptySeq DEF Lists
<1>2. ASSUME NEW n \in 0 .. Len(frames) - 1, frames' = SubSeq(frames, 1, n)
      PROVE  Len(frames') <= MaxDepth
  <2>1. n \in Nat /\ n <= Len(frames)
    BY <1>1
  <2>2. Len(frames') = n
    BY <1>2, <2>1, L!PrefixProperties DEF Lists
  <2> QED BY <1>1, <2>1, <2>2, BoundsAssumption
<1>3. ASSUME NEW f \in E!Frame, frames # <<>>, frames' = [frames EXCEPT ![Len(frames)] = f]
      PROVE  Len(frames') <= MaxDepth
  <2>1. Len(frames') = Len(frames)
    BY <1>1, <1>3, ExceptSeq DEF Lists
  <2> QED BY <2>1
<1> QED BY <1>2, <1>3

-----------------------------------------------------------------------------
\* Calls of Event, none of which runs inside a flush.

LEMMA AppFacts ==
    ASSUME FlushInv, AppRuns
    PROVE  /\ pc # "flush" /\ ~opening /\ flushed = 0 /\ flush = NoFlush
           /\ FlushTypeOK /\ EventView!UserRuns /\ (EventOnline <=> state = "OPEN")
BY DEF FlushInv, AppRuns, Alive, InEvent, C!UserRuns, EventView!UserRuns, EventView!Top, E!Top,
       EventOnline, Online

LEMMA NoFlushKept ==
    ASSUME FlushInv, QueueOK, pc # "flush", pc' # "flush", UNCHANGED flushVars,
           sent' \in {sent, Append(sent, emitted + 1)},
           listener_map_' \subseteq Patterns, Len(frames') <= MaxDepth
    PROVE  FlushInv'
<1>1. sent \in Seq(Nat) /\ emitted + 1 \in Nat /\ flushed' = 0 /\ flush' = NoFlush
  BY DEF FlushInv, FlushTypeOK, QueueOK, flushVars
<1>2. sent' \in Seq(Nat) /\ Len(sent') \in Nat
  BY <1>1, AppendProperties, LenProperties
<1>3. NoFlush \in [subs : SUBSET Names, listens : SUBSET Patterns]
  BY DEF NoFlush
<1>4. FlushTypeOK'
  BY <1>1, <1>2, <1>3 DEF FlushTypeOK
<1> QED BY <1>1, <1>4 DEF FlushInv

\* The lists that EventView speaks of are those of E.
LEMMA EmitView ==
    ASSUME QueueOK, QueueOK', FlushTypeOK, FlushTypeOK', flushed = 0, flushed' = 0,
           NEW name, NEW ok, E!EmitLocal(name, ok)
    PROVE  EventView!EmitLocal(name, ok)
<1>1. /\ EventSent = sent /\ EventQueue = send_queue_
      /\ EventSent' = sent' /\ EventQueue' = send_queue_'
  BY OutNow, OutLater
<1>2. /\ EventView!UserRuns /\ emitted < MaxEmits /\ Len(frames) < MaxDepth
      /\ emitted' = emitted + 1
      /\ UNCHANGED <<subscriber_map_, subscribe_fn_map_, empty_fns, subscription_counter_,
                     listener_map_, event_crashed>>
      /\ IF name \in EventView!Subscribed THEN EventView!Notify(name) ELSE UNCHANGED frames
  BY DEF E!EmitLocal, E!UserRuns, E!Top, EventView!UserRuns, EventView!Top, E!mapVars,
         E!Subscribed, EventView!Subscribed, E!Notify, EventView!Notify
<1>3. IF ok THEN sent' = Append(sent, emitted + 1) /\ send_queue_' = send_queue_
            ELSE send_queue_' = Append(send_queue_, emitted + 1) /\ sent' = sent
  BY DEF E!EmitLocal
<1> QED BY <1>1, <1>2, <1>3 DEF EventView!EmitLocal, EventView!mapVars

LEMMA LocalViews ==
    ASSUME UNCHANGED flushed
    PROVE  /\ \A name : E!SubscribeLocal(name) => EventView!SubscribeLocal(name)
           /\ \A name : E!UnsubscribeNameLocal(name) => EventView!UnsubscribeNameLocal(name)
           /\ \A name, id : E!UnsubscribeIdLocal(name, id) => EventView!UnsubscribeIdLocal(name, id)
           /\ \A pattern : UNCHANGED subscription_counter_ /\ E!ListenLocal(pattern)
                             => EventView!ListenLocal(pattern)
           /\ UNCHANGED subscription_counter_ /\ E!ListenerReturnsLocal
                => EventView!ListenerReturnsLocal
<1>1. UNCHANGED E!outVars => UNCHANGED EventView!outVars
  BY OutKept DEF E!outVars, EventView!outVars
<1> USE DEF E!UserRuns, E!Top, EventView!UserRuns, EventView!Top
<1>2. ASSUME NEW name, E!SubscribeLocal(name) PROVE EventView!SubscribeLocal(name)
  BY <1>1, <1>2 DEF E!SubscribeLocal, E!AddSubscriber,
                    EventView!SubscribeLocal, EventView!AddSubscriber
<1>3. ASSUME NEW name, E!UnsubscribeNameLocal(name) PROVE EventView!UnsubscribeNameLocal(name)
  BY <1>1, <1>3 DEF E!UnsubscribeNameLocal, EventView!UnsubscribeNameLocal, E!Subscribed,
                    EventView!Subscribed, E!RemoveName, EventView!RemoveName, E!Elements,
                    EventView!Elements
<1>4. ASSUME NEW name, NEW id, E!UnsubscribeIdLocal(name, id)
      PROVE  EventView!UnsubscribeIdLocal(name, id)
  BY <1>1, <1>4 DEF E!UnsubscribeIdLocal, EventView!UnsubscribeIdLocal, E!RemoveAt,
                    EventView!RemoveAt
<1>5. ASSUME NEW pattern, UNCHANGED subscription_counter_, E!ListenLocal(pattern)
      PROVE  EventView!ListenLocal(pattern)
  BY <1>1, <1>5 DEF E!ListenLocal, EventView!ListenLocal, E!mapVars, EventView!mapVars
<1>6. ASSUME UNCHANGED subscription_counter_, E!ListenerReturnsLocal
      PROVE  EventView!ListenerReturnsLocal
  BY <1>1, <1>6 DEF E!ListenerReturnsLocal, EventView!ListenerReturnsLocal, E!mapVars,
                    EventView!mapVars, E!Below, EventView!Below
<1> QED BY <1>2, <1>3, <1>4, <1>5, <1>6

-----------------------------------------------------------------------------
\* One fact for every part of Next: what the application calls of Event, ...

Before == ConnInv /\ PInv /\ Lists /\ FlushInv

After == ConnInv /\ PInv

LEMMA SessionLearned ==
    ASSUME WireInv, EventOnline
    PROVE  /\ \A name \in Names :
                /\ [EventSession EXCEPT !.subs = @ \cup {name}]
                     = EventLearned(Msg("SUBSCRIBE", name))
                /\ [EventSession EXCEPT !.subs = @ \ {name}]
                     = EventLearned(Msg("UNSUBSCRIBE", name))
           /\ \A pattern \in Patterns :
                [EventSession EXCEPT !.listens = @ \cup {pattern}]
                  = EventLearned(Msg("LISTEN", pattern))
           /\ \A m \in ToServer : m.act \notin {"SUBSCRIBE", "UNSUBSCRIBE", "LISTEN"}
                => EventSession = EventLearned(m)
<1>1. told \in View /\ EventSession = [subs |-> told.subs, listens |-> told.listens]
  BY DEF WireInv, WireTypeOK, EventSession
<1>2. ASSUME NEW name \in Names
      PROVE  /\ [EventSession EXCEPT !.subs = @ \cup {name}]
                  = EventLearned(Msg("SUBSCRIBE", name))
             /\ [EventSession EXCEPT !.subs = @ \ {name}]
                  = EventLearned(Msg("UNSUBSCRIBE", name))
  <2>1. /\ Learn(told, Msg("SUBSCRIBE", name)).subs = told.subs \cup {name}
        /\ Learn(told, Msg("SUBSCRIBE", name)).listens = told.listens
        /\ Learn(told, Msg("UNSUBSCRIBE", name)).subs = told.subs \ {name}
        /\ Learn(told, Msg("UNSUBSCRIBE", name)).listens = told.listens
    BY <1>1, EventMessages, LearnLists DEF Msg
  <2> QED BY <1>1, <2>1 DEF EventLearned
<1>3. ASSUME NEW pattern \in Patterns
      PROVE  [EventSession EXCEPT !.listens = @ \cup {pattern}]
               = EventLearned(Msg("LISTEN", pattern))
  <2>1. /\ Learn(told, Msg("LISTEN", pattern)).subs = told.subs
        /\ Learn(told, Msg("LISTEN", pattern)).listens = told.listens \cup {pattern}
    BY <1>1, EventMessages, LearnLists DEF Msg
  <2> QED BY <1>1, <2>1 DEF EventLearned
<1>4. ASSUME NEW m \in ToServer, m.act \notin {"SUBSCRIBE", "UNSUBSCRIBE", "LISTEN"}
      PROVE  EventSession = EventLearned(m)
  BY <1>1, <1>4, LearnLists DEF EventLearned
<1> QED BY <1>2, <1>3, <1>4

LEMMA EmitEvent ==
    ASSUME Before, After', NEW name \in Names, Emit(name)
    PROVE  FlushInv' /\ EventMapped
<1>1. PICK ok \in BOOLEAN : Send(ok, Msg("EVENT", emitted + 1)) /\ E!EmitLocal(name, ok)
  BY DEF Emit
<1>2. /\ AppRuns /\ UNCHANGED <<presenceVars, flushVars>>
      /\ ConnInv /\ ConnInv' /\ WireInv /\ QueueOK /\ QueueOK' /\ Lists /\ FlushInv
  BY DEF Emit, Before, After, PInv
<1>3. pc # "flush" /\ flushed = 0 /\ flushed' = 0 /\ FlushTypeOK /\ pc' = pc
  BY <1>1, <1>2, AppFacts, SendKeepsStack DEF flushVars
<1>4. FlushInv'
  <2>1. sent' \in {sent, Append(sent, emitted + 1)} /\ listener_map_' = listener_map_
        /\ Len(frames) < MaxDepth
        /\ (E!Notify(name) \/ frames' = frames)
    BY <1>1 DEF E!EmitLocal
  <2>2. Len(frames') <= MaxDepth
    BY <1>2, <1>3, <2>1, NotifyDeeper DEF FlushTypeOK
  <2> QED BY <1>2, <1>3, <2>1, <2>2, NoFlushKept DEF FlushTypeOK
<1>5. EventView!Sends(ok, EventSession)
  <2>1. Msg("EVENT", emitted + 1) \in ToServer
        /\ Msg("EVENT", emitted + 1).act \notin {"SUBSCRIBE", "UNSUBSCRIBE", "LISTEN"}
    BY <1>2, EventMessages DEF QueueOK, Msg
  <2>2. EventOnline => EventSession = EventLearned(Msg("EVENT", emitted + 1))
    BY <1>2, <2>1, SessionLearned
  <2> QED BY <1>1, <1>2, <1>3, <2>1, <2>2, EventSends
<1>6. EventView!EmitLocal(name, ok)
  BY <1>1, <1>2, <1>3, <1>4, EmitView DEF FlushInv
<1>7. EventView!Emit(name)
  BY <1>5, <1>6 DEF EventView!Emit
<1> QED BY <1>4, <1>7 DEF EventMapped, EventView!Next, EventView!User

\* Calls that write no emit.
LEMMA QuietCall ==
    ASSUME Before, After', AppRuns, NEW m \in ToServer, NEW needed, SendIf(needed, m),
           UNCHANGED <<sent, frames, flush, flushed>>, listener_map_' \subseteq Patterns
    PROVE  FlushInv' /\ UNCHANGED flushed
<1>1. pc' = pc /\ pc # "flush" /\ FlushTypeOK
  BY AppFacts, SendKeepsStack DEF Before
<1> QED BY <1>1, NoFlushKept DEF Before, PInv, FlushTypeOK, flushVars

LEMMA SubscribeEvent ==
    ASSUME Before, After', NEW name \in Names, Subscribe(name)
    PROVE  FlushInv' /\ EventMapped
<1>1. /\ AppRuns /\ SendIf(E!SubscribeTells(name), Msg("SUBSCRIBE", name))
      /\ E!SubscribeLocal(name) /\ UNCHANGED <<flush, flushed>>
  BY DEF Subscribe, flushVars
<1>2. UNCHANGED <<sent, frames, listener_map_>>
  BY <1>1 DEF E!SubscribeLocal, E!AddSubscriber, E!outVars
<1>3. /\ ConnInv /\ ConnInv' /\ WireInv /\ pc # "flush" /\ listener_map_' \subseteq Patterns
  BY <1>1, <1>2, AppFacts DEF Before, After, PInv, FlushTypeOK
<1>4. FlushInv'
  BY <1>1, <1>2, <1>3, QuietCall, EventMessages
<1>5. EventView!Tells(E!SubscribeTells(name), [EventSession EXCEPT !.subs = @ \cup {name}])
  BY <1>1, <1>3, EventMessages, SessionLearned, EventTells
<1>6. EventView!Subscribe(name)
  BY <1>1, <1>5, LocalViews DEF EventView!Subscribe, E!SubscribeTells, EventView!SubscribeTells,
     E!Subscribed, EventView!Subscribed
<1> QED BY <1>4, <1>6 DEF EventMapped, EventView!Next, EventView!User

LEMMA UnsubscribeNameEvent ==
    ASSUME Before, After', NEW name \in Names, UnsubscribeName(name)
    PROVE  FlushInv' /\ EventMapped
<1>1. /\ AppRuns /\ SendIf(E!UnsubscribeTells(name), Msg("UNSUBSCRIBE", name))
      /\ E!UnsubscribeNameLocal(name) /\ UNCHANGED <<flush, flushed>>
  BY DEF UnsubscribeName, flushVars
<1>2. UNCHANGED <<sent, frames, listener_map_>>
  BY <1>1 DEF E!UnsubscribeNameLocal, E!outVars
<1>3. /\ ConnInv /\ ConnInv' /\ WireInv /\ pc # "flush" /\ listener_map_' \subseteq Patterns
  BY <1>1, <1>2, AppFacts DEF Before, After, PInv, FlushTypeOK
<1>4. FlushInv'
  BY <1>1, <1>2, <1>3, QuietCall, EventMessages
<1>5. EventView!Tells(E!UnsubscribeTells(name), [EventSession EXCEPT !.subs = @ \ {name}])
  BY <1>1, <1>3, EventMessages, SessionLearned, EventTells
<1>6. EventView!UnsubscribeName(name)
  BY <1>1, <1>5, LocalViews DEF EventView!UnsubscribeName, E!UnsubscribeTells,
     EventView!UnsubscribeTells, E!Subscribed, EventView!Subscribed
<1> QED BY <1>4, <1>6 DEF EventMapped, EventView!Next, EventView!User

LEMMA UnsubscribeIdEvent ==
    ASSUME Before, After', NEW name \in Names, NEW id \in E!Elements(subscriber_map_[name]),
           UnsubscribeId(name, id)
    PROVE  FlushInv' /\ EventMapped
<1> DEFINE needed == E!LastOf(name) /\ E!UnsubscribeTells(name)
<1>1. /\ AppRuns /\ SendIf(needed, Msg("UNSUBSCRIBE", name))
      /\ E!UnsubscribeIdLocal(name, id) /\ UNCHANGED <<flush, flushed>>
  BY DEF UnsubscribeId, flushVars
<1>2. UNCHANGED <<sent, frames, listener_map_>>
  BY <1>1 DEF E!UnsubscribeIdLocal, E!outVars
<1>3. /\ ConnInv /\ ConnInv' /\ WireInv /\ pc # "flush" /\ listener_map_' \subseteq Patterns
  BY <1>1, <1>2, AppFacts DEF Before, After, PInv, FlushTypeOK
<1>4. needed = (EventView!LastOf(name) /\ EventView!UnsubscribeTells(name))
  BY DEF E!LastOf, EventView!LastOf, E!UnsubscribeTells, EventView!UnsubscribeTells,
         E!Subscribed, EventView!Subscribed
<1> HIDE DEF needed
<1>5. FlushInv'
  BY <1>1, <1>2, <1>3, QuietCall, EventMessages
<1>6. EventView!Tells(needed, [EventSession EXCEPT !.subs = @ \ {name}])
  <2>1. EventOnline => [EventSession EXCEPT !.subs = @ \ {name}]
                         = EventLearned(Msg("UNSUBSCRIBE", name))
    BY <1>3, SessionLearned
  <2>2. Msg("UNSUBSCRIBE", name) \in ToServer
    BY EventMessages
  <2> QED BY <1>1, <1>3, <2>1, <2>2, EventTells
<1>7. EventView!UnsubscribeId(name, id)
  BY <1>1, <1>4, <1>6, LocalViews DEF EventView!UnsubscribeId
<1>8. id \in EventView!Elements(subscriber_map_[name])
  BY DEF E!Elements, EventView!Elements
<1> QED BY <1>5, <1>7, <1>8 DEF EventMapped, EventView!Next, EventView!User

LEMMA ListenEvent ==
    ASSUME Before, After', NEW pattern \in Patterns, Listen(pattern)
    PROVE  FlushInv' /\ EventMapped
<1>1. /\ AppRuns /\ SendIf(TRUE, Msg("LISTEN", pattern))
      /\ E!ListenLocal(pattern) /\ UNCHANGED <<flush, flushed, subscription_counter_>>
  BY DEF Listen, flushVars
<1>2. UNCHANGED <<sent, frames>> /\ listener_map_' = listener_map_ \cup {pattern}
  BY <1>1 DEF E!ListenLocal, E!outVars
<1>3. /\ ConnInv /\ ConnInv' /\ WireInv /\ pc # "flush" /\ listener_map_' \subseteq Patterns
  BY <1>1, <1>2, AppFacts DEF Before, After, PInv, FlushTypeOK
<1>4. FlushInv'
  BY <1>1, <1>2, <1>3, QuietCall, EventMessages
<1>5. EventView!Tells(TRUE, [EventSession EXCEPT !.listens = @ \cup {pattern}])
  <2>1. EventOnline => [EventSession EXCEPT !.listens = @ \cup {pattern}]
                         = EventLearned(Msg("LISTEN", pattern))
    BY <1>3, SessionLearned
  <2>2. Msg("LISTEN", pattern) \in ToServer
    BY EventMessages
  <2> QED BY <1>1, <1>3, <2>1, <2>2, EventTells
<1>6. EventView!Listen(pattern)
  BY <1>1, <1>5, LocalViews DEF EventView!Listen
<1> QED BY <1>4, <1>6 DEF EventMapped, EventView!Next, EventView!User

LEMMA UnlistenEvent ==
    ASSUME Before, After', NEW pattern \in Patterns, Unlisten(pattern)
    PROVE  FlushInv' /\ EventMapped
<1>1. /\ AppRuns /\ UNCHANGED <<connVars, wireVars, flushVars>> /\ E!Unlisten(pattern)
  BY DEF Unlisten
<1>2. /\ UNCHANGED <<sent, send_queue_, emitted, frames, subscriber_map_, subscribe_fn_map_,
                     empty_fns, subscription_counter_, pc, state, opening, told, flush, flushed>>
      /\ pattern \in listener_map_ /\ listener_map_' = listener_map_ \ {pattern}
      /\ event_crashed' = (state = "OPEN")
  BY <1>1 DEF E!Unlisten, E!outVars, E!mapVars, connVars, wireVars, flushVars
<1>3. FlushInv /\ QueueOK /\ FlushTypeOK /\ pc # "flush" /\ EventView!UserRuns
      /\ (EventOnline <=> state = "OPEN")
  BY <1>1, AppFacts DEF Before, PInv
<1>4. FlushInv'
  BY <1>2, <1>3, NoFlushKept DEF FlushTypeOK, flushVars
<1>5. UNCHANGED <<EventOnline, EventSession, EventSent, EventQueue>>
  BY <1>2, OutKept DEF EventOnline, Online, EventSession
<1>6. event_crashed' = EventOnline
  BY <1>2, <1>3 DEF EventOnline
<1>7. EventView!Unlisten(pattern)
  BY <1>2, <1>3, <1>5, <1>6 DEF EventView!Unlisten, EventView!mapVars, EventView!linkVars,
     EventView!outVars
<1> QED BY <1>4, <1>7 DEF EventMapped, EventView!Next, EventView!User

-----------------------------------------------------------------------------
\* ... of Presence and of Connection, ...

\* A step outside the flush that Event takes no part in.
LEMMA OtherStep ==
    ASSUME Before, After', pc # "flush", pc' # "flush",
           UNCHANGED <<eventVars, subscription_counter_, flush, flushed>>,
           EventOnline' => EventOnline, EventOnline' => SameLists,
           EventOnline /\ ~EventOnline' => EventView!UserRuns
    PROVE  FlushInv' /\ EventMapped
<1>1. FlushInv'
  <2>1. UNCHANGED <<sent, frames, listener_map_>> /\ FlushTypeOK
    BY DEF eventVars, Before, FlushInv
  <2> QED BY <2>1, NoFlushKept DEF Before, PInv, FlushTypeOK, flushVars
<1>2. LinkLost => EventView!UserRuns
  BY DEF LinkLost, EventView!Sends
<1> QED BY <1>1, <1>2, LinkKinds, LinkMapsEvent

\* A message that is none of Event's lists.
LEMMA QuietSend ==
    ASSUME ConnInv, ConnInv', WireInv, NEW m \in ToServer, NEW needed, SendIf(needed, m),
           m.act \notin {"SUBSCRIBE", "UNSUBSCRIBE", "LISTEN"}
    PROVE  (EventOnline' => EventOnline) /\ (EventOnline' => SameLists) /\ pc' = pc
<1>1. ASSUME NEW ok \in BOOLEAN, Send(ok, m)
      PROVE  (Online' => Online) /\ (Online' => SameLists)
  <2>1. CASE /\ ok
             /\ C!SendApp(TRUE)
             /\ uplink' = Append(uplink, m)
             /\ told' = Learn(told, m)
             /\ UNCHANGED <<downlink, inbox, known, late, received>>
    <3>1. Online
      BY <2>1, OkSend
    <3>2. told \in View
      BY DEF WireInv, WireTypeOK
    <3> QED BY <2>1, <3>1, <3>2, LearnLists DEF SameLists
  <2>2. CASE C!SendApp(FALSE)
    <3>1. srv' = "none"
      BY <2>2 DEF C!SendApp, C!SendFails, C!SocketFailsToSend, C!DropSocket
    <3> QED BY <3>1, OnlineUp
  <2>3. CASE UNCHANGED <<connVars, wireVars>>
    BY <2>3 DEF connVars, wireVars, Online, SameLists
  <2> QED BY <1>1, <2>1, <2>2, <2>3 DEF Send
<1>2. ASSUME UNCHANGED <<connVars, wireVars>>
      PROVE  (Online' => Online) /\ (Online' => SameLists)
  BY <1>2 DEF connVars, wireVars, Online, SameLists
<1>3. pc' = pc
  BY SendKeepsStack
<1>4. (Online' => Online) /\ (Online' => SameLists)
  BY <1>1, <1>2 DEF SendIf
<1> QED BY <1>3, <1>4 DEF EventOnline

\* A call of Connection that gives nothing but the socket up.
LEMMA ConnectionCallsEvent ==
    ASSUME Before, After',
           Close \/ \E callback \in Callbacks : Login(callback)
    PROVE  FlushInv' /\ EventMapped
<1>1. /\ AppRuns /\ WireFollows
      /\ UNCHANGED <<eventVars, subscription_counter_, flush, flushed, pc>>
  BY DEF Close, Login, C!Close, C!Login, flushVars
<1>2. ~Online'
  <2>1. C!transition_outgoing("AWAIT_AUTHENTICATION", "REQ") # "OPEN"
    BY DEF C!transition_outgoing
  <2> QED BY <2>1 DEF Close, Login, C!Close, C!Login, C!SendIn, C!SendSucceeds, C!SendFails,
                      C!on_close, C!GiveUpOrReopen, Online
<1> QED BY <1>1, <1>2, AppFacts, OtherStep DEF Before, EventOnline

LEMMA PresenceCallsEvent ==
    ASSUME Before, After',
           \/ PresenceUnsubscribeAll \/ GetAll
           \/ \E id \in P!Elements(subscribers_) : PresenceUnsubscribeId(id)
    PROVE  FlushInv' /\ EventMapped
<1>1. PICK m \in ToServer : /\ m.act \notin {"SUBSCRIBE", "UNSUBSCRIBE", "LISTEN"}
                            /\ \E needed : SendIf(needed, m)
  <2>1. ASSUME NEW what, NEW needed, SendIf(needed, Msg(what, "-")), what \in {"U|US", "QUERY"}
        PROVE  \E m \in ToServer : /\ m.act \notin {"SUBSCRIBE", "UNSUBSCRIBE", "LISTEN"}
                                   /\ \E n : SendIf(n, m)
    BY <2>1, PresenceMessages DEF Msg
  <2> QED BY <2>1 DEF PresenceUnsubscribeAll, GetAll, PresenceUnsubscribeId
<1>2. AppRuns /\ UNCHANGED <<eventVars, subscription_counter_, flush, flushed>>
  BY DEF PresenceUnsubscribeAll, GetAll, PresenceUnsubscribeId, flushVars, P!UnsubscribeAllLocal,
         P!UnsubscribeIdLocal, P!RemoveSubscriber
<1>3. (EventOnline' => EventOnline) /\ (EventOnline' => SameLists) /\ pc' = pc
  BY <1>1, QuietSend DEF Before, After, PInv
<1> QED BY <1>2, <1>3, AppFacts, OtherStep DEF Before

LEMMA PresenceSubscribeEvent ==
    ASSUME Before, After', PresenceSubscribe
    PROVE  FlushInv' /\ EventMapped
<1>1. /\ AppRuns /\ SendIf(P!SubscribeTells, Msg("U|S", "-")) /\ P!SubscribeLocal
      /\ UNCHANGED <<eventVars, flush, flushed>>
  BY DEF PresenceSubscribe, flushVars
<1>2. UNCHANGED <<sent, frames, listener_map_, subscriber_map_, subscribe_fn_map_, empty_fns,
                  event_crashed, send_queue_, emitted>>
  BY <1>1 DEF eventVars
<1>3. /\ ConnInv /\ ConnInv' /\ WireInv /\ pc # "flush" /\ listener_map_' \subseteq Patterns
      /\ EventView!UserRuns
  BY <1>1, <1>2, AppFacts DEF Before, After, PInv, FlushTypeOK
<1>4. Msg("U|S", "-") \in ToServer
      /\ Msg("U|S", "-").act \notin {"SUBSCRIBE", "UNSUBSCRIBE", "LISTEN"}
  BY PresenceMessages DEF Msg
<1>5. FlushInv'
  BY <1>1, <1>2, <1>3, <1>4, QuietCall
<1>6. EventOnline => EventSession = EventLearned(Msg("U|S", "-"))
  BY <1>3, <1>4, SessionLearned
<1>7. \E needed \in BOOLEAN : EventView!Tells(needed, EventSession)
  <2>1. EventView!Tells(P!SubscribeTells, EventSession)
    BY <1>1, <1>3, <1>4, <1>6, EventTells
  <2>2. P!SubscribeTells \in BOOLEAN
    BY DEF P!SubscribeTells
  <2> QED BY <2>1, <2>2
<1>8. subscription_counter_ < MaxIds /\ subscription_counter_' = subscription_counter_ + 1
  BY <1>1 DEF P!SubscribeLocal, P!AddSubscriber
<1>9. UNCHANGED EventView!outVars
  BY <1>1, <1>2, OutKept DEF EventView!outVars
<1>10. EventView!PresenceSubscribes
  BY <1>2, <1>3, <1>7, <1>8, <1>9 DEF EventView!PresenceSubscribes
<1> QED BY <1>5, <1>10 DEF EventMapped, EventView!Next, EventView!User

-----------------------------------------------------------------------------
\* ... the loops over the callbacks, ...

\* What the loops do to the stack.
LEMMA LoopsNotDeeper ==
    ASSUME Lists, Len(frames) <= MaxDepth,
           \/ E!CallNext \/ E!CallbackReturns \/ E!NotifyReturns \/ E!ListenerReturnsLocal
           \/ \E n \in 0 .. Len(frames) - 1 : E!CallErased(n) \/ E!CallbackThrows(n)
    PROVE  Len(frames') <= MaxDepth
<1>0. frames \in Seq(E!Frame) /\ Len(frames) \in Nat
  BY LenProperties DEF Lists
<1>1. ASSUME frames # <<>>
      PROVE  /\ E!Top \in E!Frame /\ E!Top.todo \in Seq(Nat)
             /\ Len(frames) - 1 \in 0 .. Len(frames) - 1
  <2>1. Len(frames) \in 1 .. Len(frames)
    BY <1>0, <1>1, EmptySeq
  <2>2. E!Top \in E!Frame
    BY <1>0, <2>1, ElementOfSeq DEF E!Top
  <2> QED BY <1>0, <2>1, <2>2 DEF E!Frame, E!Ids
<1>2. CASE E!CallNext
  <2> DEFINE f == [E!Top EXCEPT !.running = TRUE]
  <2>1. frames # <<>> /\ frames' = [frames EXCEPT ![Len(frames)] = f]
    BY <1>2 DEF E!CallNext, E!Top
  <2>2. f \in E!Frame
    BY <1>1, <2>1 DEF E!Frame
  <2> HIDE DEF f
  <2> QED BY <2>1, <2>2, NotDeeper
<1>3. CASE E!CallbackReturns
  <2> DEFINE f == [kind |-> "event", todo |-> Tail(E!Top.todo), running |-> FALSE]
  <2>1. frames # <<>> /\ E!Top.todo # <<>> /\ frames' = [frames EXCEPT ![Len(frames)] = f]
    BY <1>3 DEF E!CallbackReturns
  <2>2. f \in E!Frame
    BY <1>1, <2>1, HeadTailProperties DEF E!Frame, E!Ids
  <2> HIDE DEF f
  <2> QED BY <2>1, <2>2, NotDeeper
<1>4. CASE E!NotifyReturns \/ E!ListenerReturnsLocal
  <2>1. frames # <<>> /\ frames' = SubSeq(frames, 1, Len(frames) - 1)
    BY <1>4 DEF E!NotifyReturns, E!ListenerReturnsLocal, E!Below
  <2> QED BY <1>1, <2>1, NotDeeper
<1>5. CASE \E n \in 0 .. Len(frames) - 1 : E!CallErased(n) \/ E!CallbackThrows(n)
  BY <1>5, NotDeeper DEF E!CallErased, E!CallbackThrows, E!Unwinds
<1> QED BY <1>2, <1>3, <1>4, <1>5

\* The invariant, when a loop of Event goes on.
LEMMA LoopKeepsFlush ==
    ASSUME Before, pc # "flush", pc' # "flush", UNCHANGED <<sent, listener_map_, flush, flushed>>,
           \/ E!CallNext \/ E!CallbackReturns \/ E!NotifyReturns \/ E!ListenerReturnsLocal
           \/ \E n \in 0 .. Len(frames) - 1 : E!CallErased(n) \/ E!CallbackThrows(n)
    PROVE  FlushInv'
<1>1. Lists /\ QueueOK /\ FlushInv /\ FlushTypeOK
  BY DEF Before, PInv, FlushInv
<1>2. Len(frames') <= MaxDepth
  BY <1>1, LoopsNotDeeper DEF FlushTypeOK
<1> QED BY <1>1, <1>2, NoFlushKept DEF FlushTypeOK, flushVars

LEMMA EscapesLink ==
    ASSUME ConnInv', pc # "flush", NEW n, Escapes(n)
    PROVE  UNCHANGED <<EventOnline, EventSession>> /\ pc' # "flush"
<1>1. CASE C!CallbackThrows /\ WireFollows
  <2>1. UNCHANGED <<state, opening>> /\ pc' = "app"
    BY <1>1 DEF C!CallbackThrows, C!Unwind, C!NoSocketUse, C!clientVars
  <2>2. EventOnline' = EventOnline
    BY <2>1 DEF EventOnline, Online
  <2>3. EventOnline' => SameLists
    BY <1>1, WireLists DEF EventOnline
  <2>4. EventSession' = EventSession
    BY <2>2, <2>3 DEF EventSession, SameLists
  <2> QED BY <2>1, <2>2, <2>4
<1>2. CASE UNCHANGED <<connVars, wireVars>>
  BY <1>2 DEF connVars, wireVars, EventOnline, EventSession, Online
<1> QED BY <1>1, <1>2 DEF Escapes

\* The steps of the loops that send nothing are the same in both views.
LEMMA LoopViews ==
    ASSUME UNCHANGED <<EventOnline, EventSession, subscription_counter_, flushed>>
    PROVE  /\ E!CallNext => EventView!CallNext
           /\ E!CallbackReturns => EventView!CallbackReturns
           /\ E!NotifyReturns => EventView!NotifyReturns
           /\ \A n : E!CallErased(n) => EventView!CallErased(n)
           /\ \A n : E!CallbackThrows(n) => EventView!CallbackThrows(n)
<1>1. UNCHANGED E!outVars => UNCHANGED EventView!outVars
  BY OutKept DEF E!outVars, EventView!outVars
<1>2. UNCHANGED EventView!linkVars
  BY DEF EventView!linkVars
<1> USE DEF E!mapVars, EventView!mapVars, E!Top, EventView!Top
<1>3. E!CallNext => EventView!CallNext
  BY <1>1, <1>2 DEF E!CallNext, EventView!CallNext
<1>4. E!CallbackReturns => EventView!CallbackReturns
  BY <1>1, <1>2 DEF E!CallbackReturns, EventView!CallbackReturns
<1>5. E!NotifyReturns => EventView!NotifyReturns
  BY <1>1, <1>2 DEF E!NotifyReturns, EventView!NotifyReturns, E!Below, EventView!Below
<1>6. \A n : E!CallErased(n) => EventView!CallErased(n)
  BY <1>1, <1>2 DEF E!CallErased, EventView!CallErased, E!Unwinds, EventView!Unwinds
<1>7. \A n : E!CallbackThrows(n) => EventView!CallbackThrows(n)
  BY <1>1, <1>2 DEF E!CallbackThrows, EventView!CallbackThrows, E!Unwinds, EventView!Unwinds
<1> QED BY <1>3, <1>4, <1>5, <1>6, <1>7

LEMMA EventLoopsEvent ==
    ASSUME Before, After', EventLoops
    PROVE  FlushInv' /\ EventMapped
<1>1. InEvent /\ UNCHANGED <<flush, flushed, subscription_counter_>>
  BY DEF EventLoops, flushVars
<1>2. /\ ConnInv /\ ConnInv' /\ WireInv /\ FlushTypeOK /\ pc # "flush"
  BY <1>1 DEF Before, After, PInv, StackInv, FlushInv
<1>3. UNCHANGED <<sent, listener_map_>>
  BY DEF EventLoops, E!CallNext, E!CallbackReturns, E!NotifyReturns, E!ListenerReturnsLocal,
         E!CallErased, E!outVars
<1>4. CASE /\ UNCHANGED <<connVars, wireVars>>
           /\ E!CallNext \/ E!CallbackReturns \/ E!NotifyReturns
  <2>1. UNCHANGED <<EventOnline, EventSession>> /\ pc' = pc
    BY <1>4 DEF connVars, wireVars, EventOnline, EventSession, Online
  <2>2. FlushInv'
    BY <1>1, <1>2, <1>3, <1>4, <2>1, LoopKeepsFlush
  <2>3. EventView!Loops
    BY <1>1, <1>4, <2>1, LoopViews DEF EventView!Loops
  <2> QED BY <2>2, <2>3 DEF EventMapped, EventView!Next
<1>5. CASE /\ E!Top.running
           /\ SendIf(E!Top.kind = "found", Msg("LISTEN_ANSWER", "-"))
           /\ E!ListenerReturnsLocal
  <2>1. Msg("LISTEN_ANSWER", "-") \in ToServer
        /\ Msg("LISTEN_ANSWER", "-").act \notin {"SUBSCRIBE", "UNSUBSCRIBE", "LISTEN"}
    BY EventMessages DEF Msg
  <2>2. pc' = pc
    BY <1>5, SendKeepsStack
  <2>3. FlushInv'
    BY <1>1, <1>2, <1>3, <1>5, <2>2, LoopKeepsFlush
  <2>4. EventOnline => EventSession = EventLearned(Msg("LISTEN_ANSWER", "-"))
    BY <1>2, <2>1, SessionLearned
  <2>5. EventView!Tells(EventView!Top.kind = "found", EventSession)
    <3>1. EventView!Tells(E!Top.kind = "found", EventSession)
      BY <1>2, <1>5, <2>1, <2>4, EventTells
    <3> QED BY <3>1 DEF E!Top, EventView!Top
  <2>6. EventView!ListenerReturns
    BY <1>1, <1>5, <2>5, LocalViews DEF EventView!ListenerReturns
  <2> QED BY <2>3, <2>6 DEF EventMapped, EventView!Next, EventView!Loops
<1>6. CASE \E n \in 0 .. Len(frames) - 1 : Escapes(n) /\ E!CallErased(n)
  <2>1. PICK n \in 0 .. Len(frames) - 1 : Escapes(n) /\ E!CallErased(n)
    BY <1>6
  <2>2. UNCHANGED <<EventOnline, EventSession>> /\ pc' # "flush"
    BY <1>2, <2>1, EscapesLink
  <2>3. FlushInv'
    BY <1>1, <1>2, <1>3, <2>1, <2>2, LoopKeepsFlush
  <2>4. EventView!CallErased(n)
    BY <1>1, <2>1, <2>2, LoopViews
  <2>5. n \in 0 .. MaxDepth
    <3>1. Len(frames) \in Nat /\ Len(frames) <= MaxDepth
      BY <1>2, LenProperties DEF FlushTypeOK, Before, Lists
    <3> QED BY <3>1, BoundsAssumption
  <2> QED BY <2>3, <2>4, <2>5 DEF EventMapped, EventView!Next, EventView!Loops
<1> QED BY <1>4, <1>5, <1>6 DEF EventLoops

LEMMA EventThrowsEvent ==
    ASSUME Before, After', EventCallbackThrows
    PROVE  FlushInv' /\ EventMapped
<1>1. InEvent /\ UNCHANGED <<flush, flushed, subscription_counter_>>
  BY DEF EventCallbackThrows, flushVars
<1>2. ConnInv' /\ FlushTypeOK /\ pc # "flush"
  BY <1>1 DEF Before, After, PInv, StackInv, FlushInv
<1>3. PICK n \in 0 .. Len(frames) - 1 : Escapes(n) /\ E!CallbackThrows(n)
  BY DEF EventCallbackThrows
<1>4. UNCHANGED <<sent, listener_map_>>
  BY <1>3 DEF E!CallbackThrows, E!outVars
<1>5. UNCHANGED <<EventOnline, EventSession>> /\ pc' # "flush"
  BY <1>2, <1>3, EscapesLink
<1>6. FlushInv'
  BY <1>1, <1>2, <1>3, <1>4, <1>5, LoopKeepsFlush
<1>7. EventView!CallbackThrows(n)
  BY <1>1, <1>3, <1>5, LoopViews
<1>8. n \in 0 .. MaxDepth
  <2>1. Len(frames) \in Nat /\ Len(frames) <= MaxDepth
    BY <1>2, LenProperties DEF FlushTypeOK, Before, Lists
  <2> QED BY <2>1, BoundsAssumption
<1> QED BY <1>6, <1>7, <1>8 DEF EventMapped, EventView!Next, EventView!Throws

\* Loops and exceptions that are not Event's.
LEMMA OtherLoopsEvent ==
    ASSUME Before, After', PresenceLoops \/ PresenceCallbackThrows \/ LoginCallbackThrows
    PROVE  FlushInv' /\ EventMapped
<1>1. UNCHANGED <<eventVars, subscription_counter_, flush, flushed>>
  BY DEF PresenceLoops, PresenceCallbackThrows, LoginCallbackThrows, flushVars, P!CallSubscriber,
         P!CallQuerent, P!CallbackReturns, P!NotifyReturns, P!CallErased, P!CallbackThrows,
         P!subVars
<1>2. pc # "flush" /\ pc' # "flush" /\ (EventOnline' <=> EventOnline) /\ (EventOnline' => SameLists)
  <2>1. CASE C!CallbackThrows /\ WireFollows
    <3>1. UNCHANGED <<state, opening>> /\ pc' = "app" /\ pc \in {"app", "event_cb", "login_cb"}
      BY <2>1 DEF C!CallbackThrows, C!UserRuns, C!Unwind, C!NoSocketUse, C!clientVars
    <3>2. EventOnline' => SameLists
      BY <2>1, WireLists DEF EventOnline, After
    <3> QED BY <3>1, <3>2 DEF EventOnline, Online
  <2>2. CASE InPresence /\ UNCHANGED <<connVars, wireVars>>
    BY <2>2 DEF connVars, wireVars, Before, PInv, StackInv, EventOnline, Online, SameLists
  <2> QED BY <2>1, <2>2 DEF PresenceLoops, PresenceCallbackThrows, LoginCallbackThrows
<1> QED BY <1>1, <1>2, OtherStep

-----------------------------------------------------------------------------
\* ... what Connection calls Event for, ...

LEMMA HandledFacts ==
    ASSUME Before, After', NEW act, NEW what, Handle(act, what), UNCHANGED told
    PROVE  /\ pc # "flush" /\ pc' # "flush" /\ frames = <<>> /\ Len(frames) = 0
           /\ UNCHANGED <<flush, flushed, subscription_counter_>>
           /\ UNCHANGED <<EventOnline, EventSession>>
<1>1. InNeither /\ pc = "dispatch" /\ pc' = "event_cb" /\ UNCHANGED <<state, opening>>
  BY HandleNeither DEF Before, Handle, C!HandleApp, C!Receive, C!Upcoming, C!Running,
     C!NoSocketUse, C!clientVars
<1>2. frames = <<>> /\ Len(frames) = 0
  BY <1>1, EmptySeq DEF InNeither, InEvent
<1> QED BY <1>1, <1>2 DEF EventOnline, Online, EventSession, Handle, flushVars

LEMMA HandleEventEvent ==
    ASSUME Before, After', NEW name \in Names, HandleEvent(name)
    PROVE  FlushInv' /\ EventMapped
<1>1. Handle("EVENT", name) /\ UNCHANGED told
  BY DEF HandleEvent
<1>2. /\ pc # "flush" /\ pc' # "flush" /\ Len(frames) = 0
      /\ UNCHANGED <<flush, flushed, subscription_counter_>>
      /\ UNCHANGED <<EventOnline, EventSession>>
  BY <1>1, HandledFacts
<1>3. CASE E!EventArrives(name)
  <2>1. Len(frames) < MaxDepth /\ E!Notify(name) /\ UNCHANGED <<sent, send_queue_, listener_map_>>
    BY <1>2, <1>3 DEF E!EventArrives, E!outVars
  <2>2. Len(frames') <= MaxDepth
    BY <2>1, NotifyDeeper DEF Before
  <2>3. FlushInv'
    BY <1>2, <2>1, <2>2, NoFlushKept DEF Before, PInv, FlushInv, FlushTypeOK, flushVars
  <2>4. EventView!EventArrives(name)
    BY <1>2, <1>3, <2>1, OutKept
       DEF E!EventArrives, EventView!EventArrives, E!Subscribed, EventView!Subscribed,
           E!Notify, EventView!Notify, E!mapVars, EventView!mapVars, EventView!linkVars,
           E!outVars, EventView!outVars
  <2> QED BY <2>3, <2>4 DEF EventMapped, EventView!Next, EventView!Link
<1>4. CASE UNCHANGED eventVars
  <2>1. EventOnline' <=> EventOnline
    BY <1>2
  <2> QED BY <1>1, <1>2, <1>4, <2>1, OtherStep DEF SameLists
<1> QED BY <1>3, <1>4 DEF HandleEvent

LEMMA HandlePatternEvent ==
    ASSUME Before, After', NEW kind \in {"found", "removed"}, NEW pattern \in Patterns,
           HandlePattern(kind, pattern)
    PROVE  FlushInv' /\ EventMapped
<1>1. Handle(kind, pattern) /\ UNCHANGED told
  BY DEF HandlePattern
<1>2. /\ pc # "flush" /\ pc' # "flush" /\ Len(frames) = 0 /\ frames = <<>>
      /\ UNCHANGED <<flush, flushed, subscription_counter_>>
      /\ UNCHANGED <<EventOnline, EventSession>>
  BY <1>1, HandledFacts
<1>3. CASE E!PatternArrives(kind, pattern)
  <2> DEFINE f == [kind |-> kind, todo |-> <<>>, running |-> TRUE]
  <2>1. /\ Len(frames) < MaxDepth /\ UNCHANGED <<sent, send_queue_, listener_map_>>
        /\ frames' = Append(frames, f)
    BY <1>2, <1>3 DEF E!PatternArrives, E!outVars
  <2>2. f \in E!Frame
    BY EmptySeq DEF E!Frame, E!Ids
  <2> HIDE DEF f
  <2>3. Len(frames') <= MaxDepth
    BY <2>1, <2>2, Deeper DEF Before
  <2>4. FlushInv'
    BY <1>2, <2>1, <2>3, NoFlushKept DEF Before, PInv, FlushInv, FlushTypeOK, flushVars
  <2>5. EventView!PatternArrives(kind, pattern)
    BY <1>2, <1>3, <2>1, OutKept
       DEF E!PatternArrives, EventView!PatternArrives, E!mapVars, EventView!mapVars,
           EventView!linkVars, E!outVars, EventView!outVars
  <2> QED BY <2>4, <2>5 DEF EventMapped, EventView!Next, EventView!Link
<1>4. CASE UNCHANGED eventVars
  <2>1. EventOnline' <=> EventOnline
    BY <1>2
  <2> QED BY <1>1, <1>2, <1>4, <2>1, OtherStep DEF SameLists
<1> QED BY <1>3, <1>4 DEF HandlePattern

\* What is for Presence changes at most the number of queries.
LEMMA HandleOtherEvent ==
    ASSUME Before, After', HandlePresence \/ HandleAnswer
    PROVE  FlushInv' /\ EventMapped
<1>1. PICK act : Handle(act, "-")
  BY DEF HandlePresence, HandleAnswer
<1>2. /\ pc = "dispatch" /\ pc' = "event_cb" /\ UNCHANGED <<state, opening>>
      /\ UNCHANGED <<flush, flushed, subscription_counter_, eventVars>>
  BY <1>1 DEF HandlePresence, HandleAnswer, Handle, C!HandleApp, C!Receive, C!Upcoming,
     C!Running, C!NoSocketUse, C!clientVars, flushVars
<1>3. told \in View
  BY DEF Before, PInv, WireInv, WireTypeOK
<1>4. SameLists
  <2>1. told' = told \/ told' = [told EXCEPT !.queries = @ - 1]
    BY DEF HandlePresence, HandleAnswer
  <2> QED BY <1>3, <2>1 DEF SameLists, View
<1>5. EventOnline' <=> EventOnline
  BY <1>2 DEF EventOnline, Online
<1> QED BY <1>2, <1>4, <1>5, OtherStep

-----------------------------------------------------------------------------
\* ... the flush, ...

LEMMA FlushFacts ==
    ASSUME Before, pc = "flush"
    PROVE  /\ frames = <<>> /\ ~InEvent /\ FlushTypeOK /\ QueueOK /\ WireInv
           /\ EventOnline = FALSE /\ EventSession = NoFlush
BY DEF Before, PInv, StackInv, InEvent, FlushInv, EventOnline, EventSession

\* What the flush writes, or fails to write, Event does not notice yet.
LEMMA FlushStutters ==
    ASSUME pc = "flush", pc' = "flush", UNCHANGED <<EventSent, EventQueue>>,
           UNCHANGED <<subscriber_map_, subscribe_fn_map_, empty_fns, subscription_counter_,
                       listener_map_, frames, emitted, event_crashed>>
    PROVE  EventMapped
<1>1. /\ EventOnline = FALSE /\ EventOnline' = FALSE
      /\ EventSession = NoFlush /\ EventSession' = NoFlush
  BY DEF EventOnline, EventSession
<1> QED BY <1>1 DEF EventMapped, EventView!vars, EventView!mapVars, EventView!linkVars,
                    EventView!outVars

\* The result of one write.
LEMMA FlushWrites ==
    ASSUME Before, After', FlushGoesOn, NEW m \in ToServer, NEW ok \in BOOLEAN, Send(ok, m)
    PROVE  /\ pc = "flush" /\ pc' = "flush" /\ Online /\ (Online' <=> ok)
           /\ told \in View /\ (ok => told' = Learn(told, m))
<1>1. pc = "flush" /\ Online /\ state = "OPEN" /\ pc' = "flush"
  BY SendKeepsStack DEF FlushGoesOn, C!Running, Online
<1>2. CASE /\ ok
           /\ C!SendApp(TRUE)
           /\ uplink' = Append(uplink, m)
           /\ told' = Learn(told, m)
           /\ UNCHANGED <<downlink, inbox, known, late, received>>
  <2>1. Online'
    BY <1>2, OkSend DEF Before, PInv
  <2> QED BY <1>1, <1>2, <2>1 DEF Before, PInv, WireInv, WireTypeOK
<1>3. CASE ~ok /\ C!SendApp(FALSE)
  <2>1. srv' = "none"
    BY <1>3 DEF C!SendApp, C!SendFails, C!SocketFailsToSend, C!DropSocket
  <2>2. ~Online'
    BY <2>1, OnlineUp DEF After
  <2> QED BY <1>1, <1>3, <2>2 DEF Before, PInv, WireInv, WireTypeOK
<1> QED BY <1>1, <1>2, <1>3 DEF Send

LEMMA FlushListsEvent ==
    ASSUME Before, After',
           \/ \E name \in Names : FlushSubscribes(name)
           \/ \E pattern \in Patterns : FlushListens(pattern)
    PROVE  FlushInv' /\ EventMapped
<1>1. FlushGoesOn /\ UNCHANGED <<eventVars, flushed, subscription_counter_>>
  BY DEF FlushSubscribes, FlushListens, FlushGoesOn
<1>2. UNCHANGED <<sent, send_queue_, frames, listener_map_, subscriber_map_>> /\ E!Subscribed' = E!Subscribed
  BY <1>1 DEF eventVars, E!Subscribed
<1>3. pc = "flush" /\ Online /\ FlushTypeOK /\ (flush # NoFlush => flushed = 0)
      /\ told.subs \cup flush.subs = E!Subscribed
      /\ told.listens \cup flush.listens = listener_map_
  BY <1>1 DEF FlushGoesOn, C!Running, Online, Before, FlushInv
<1>4. /\ pc' = "flush" /\ flush # NoFlush
      /\ flush' \in [subs : SUBSET Names, listens : SUBSET Patterns]
      /\ Online' => /\ told'.subs \cup flush'.subs = E!Subscribed
                    /\ told'.listens \cup flush'.listens = listener_map_
  <2>1. ASSUME NEW name \in Names, FlushSubscribes(name)
        PROVE  /\ pc' = "flush" /\ flush # NoFlush
               /\ flush' \in [subs : SUBSET Names, listens : SUBSET Patterns]
               /\ Online' => /\ told'.subs \cup flush'.subs = E!Subscribed
                             /\ told'.listens \cup flush'.listens = listener_map_
    <3>1. PICK ok \in BOOLEAN : Send(ok, Msg("SUBSCRIBE", name))
      BY <2>1 DEF FlushSubscribes, SendIf
    <3>2. /\ pc' = "flush" /\ (Online' <=> ok) /\ told \in View
          /\ ok => told' = Learn(told, Msg("SUBSCRIBE", name))
      BY <1>1, <3>1, EventMessages, FlushWrites
    <3>3. /\ Learn(told, Msg("SUBSCRIBE", name)).subs = told.subs \cup {name}
          /\ Learn(told, Msg("SUBSCRIBE", name)).listens = told.listens
      BY <3>2, EventMessages, LearnLists DEF Msg
    <3>4. name \in flush.subs /\ flush' = [flush EXCEPT !.subs = @ \ {name}]
      BY <2>1 DEF FlushSubscribes
    <3>5. flush'.subs = flush.subs \ {name} /\ flush'.listens = flush.listens
          /\ flush' \in [subs : SUBSET Names, listens : SUBSET Patterns]
      BY <1>3, <3>4 DEF FlushTypeOK
    <3>6. flush # NoFlush
      BY <3>4 DEF NoFlush
    <3>7. (told.subs \cup {name}) \cup (flush.subs \ {name}) = E!Subscribed
      BY <1>3, <3>4
    <3> QED BY <1>3, <3>2, <3>3, <3>5, <3>6, <3>7
  <2>2. ASSUME NEW pattern \in Patterns, FlushListens(pattern)
        PROVE  /\ pc' = "flush" /\ flush # NoFlush
               /\ flush' \in [subs : SUBSET Names, listens : SUBSET Patterns]
               /\ Online' => /\ told'.subs \cup flush'.subs = E!Subscribed
                             /\ told'.listens \cup flush'.listens = listener_map_
    <3>1. PICK ok \in BOOLEAN : Send(ok, Msg("LISTEN", pattern))
      BY <2>2 DEF FlushListens, SendIf
    <3>2. /\ pc' = "flush" /\ (Online' <=> ok) /\ told \in View
          /\ ok => told' = Learn(told, Msg("LISTEN", pattern))
      BY <1>1, <3>1, EventMessages, FlushWrites
    <3>3. /\ Learn(told, Msg("LISTEN", pattern)).subs = told.subs
          /\ Learn(told, Msg("LISTEN", pattern)).listens = told.listens \cup {pattern}
      BY <3>2, EventMessages, LearnLists DEF Msg
    <3>4. pattern \in flush.listens /\ flush' = [flush EXCEPT !.listens = @ \ {pattern}]
      BY <2>2 DEF FlushListens
    <3>5. flush'.listens = flush.listens \ {pattern} /\ flush'.subs = flush.subs
          /\ flush' \in [subs : SUBSET Names, listens : SUBSET Patterns]
      BY <1>3, <3>4 DEF FlushTypeOK
    <3>6. flush # NoFlush
      BY <3>4 DEF NoFlush
    <3>7. (told.listens \cup {pattern}) \cup (flush.listens \ {pattern}) = listener_map_
      BY <1>3, <3>4
    <3> QED BY <1>3, <3>2, <3>3, <3>5, <3>6, <3>7
  <2> QED BY <2>1, <2>2
<1>5. flushed' = 0 /\ flushed = 0
  BY <1>1, <1>3, <1>4
<1>6. FlushTypeOK'
  BY <1>1, <1>2, <1>3, <1>4 DEF FlushTypeOK
<1>7. FlushInv'
  BY <1>2, <1>4, <1>5, <1>6 DEF FlushInv
<1>8. EventMapped
  <2>1. UNCHANGED <<EventSent, EventQueue>>
    BY <1>1, <1>2, OutKept
  <2> QED BY <1>1, <1>3, <1>4, <2>1, FlushStutters DEF eventVars
<1> QED BY <1>7, <1>8

LEMMA FlushEmitsEvent ==
    ASSUME Before, After', FlushEmits
    PROVE  FlushInv' /\ EventMapped
<1>1. /\ FlushGoesOn /\ flush = NoFlush /\ flush' = flush /\ send_queue_ # <<>>
      /\ UNCHANGED <<subscriber_map_, subscribe_fn_map_, empty_fns, listener_map_,
                     frames, emitted, event_crashed, subscription_counter_>>
  BY DEF FlushEmits, FlushGoesOn
<1>2. PICK ok \in BOOLEAN :
          /\ Send(ok, Msg("EVENT", Head(send_queue_)))
          /\ FlushPops(ok)
          /\ sent' = IF ok THEN Append(sent, Head(send_queue_)) ELSE sent
          /\ flushed' = IF ok THEN flushed + 1 ELSE flushed
  BY DEF FlushEmits
<1>3. pc = "flush" /\ Online /\ FlushTypeOK /\ QueueOK
      /\ told.subs \cup flush.subs = E!Subscribed
      /\ told.listens \cup flush.listens = listener_map_
  BY <1>1 DEF FlushGoesOn, C!Running, Online, Before, PInv, FlushInv
<1>4. sent \in Seq(Nat) /\ send_queue_ \in Seq(Nat) /\ flushed \in 0 .. Len(sent)
      /\ Head(send_queue_) \in Nat
  BY <1>1, <1>3, HeadTailProperties DEF FlushTypeOK, QueueOK
<1>5. Msg("EVENT", Head(send_queue_)) \in ToServer
  BY <1>4, EventMessages
<1>6. /\ pc' = "flush" /\ (Online' <=> ok) /\ told \in View
      /\ ok => told' = Learn(told, Msg("EVENT", Head(send_queue_)))
  BY <1>1, <1>2, <1>5, FlushWrites
<1>7. ok => told'.subs = told.subs /\ told'.listens = told.listens
  BY <1>5, <1>6, LearnLists DEF Msg
<1>8. E!Subscribed' = E!Subscribed
  BY <1>1 DEF E!Subscribed
<1>9. /\ sent' \in Seq(Nat) /\ flushed' \in 0 .. Len(sent')
      /\ UNCHANGED <<EventSent, EventQueue>>
  <2>1. CASE ok
    <3>1. /\ sent' = Append(sent, Head(send_queue_)) /\ flushed' = flushed + 1
          /\ send_queue_' = Tail(send_queue_)
      BY <1>2, <2>1 DEF FlushPops
    <3>2. /\ Append(sent, Head(send_queue_)) \in Seq(Nat)
          /\ flushed + 1 \in 0 .. Len(Append(sent, Head(send_queue_)))
          /\ Kept(Append(sent, Head(send_queue_)), flushed + 1) = Kept(sent, flushed)
          /\ Moved(Append(sent, Head(send_queue_)), flushed + 1) \o Tail(send_queue_)
               = Moved(sent, flushed) \o send_queue_
      BY <1>1, <1>4, OneMoved
    <3>3. EventSent = Kept(sent, flushed) /\ EventQueue = Moved(sent, flushed) \o send_queue_
      BY DEF EventSent, EventQueue, Kept, Moved
    <3>4. EventSent' = Kept(sent', flushed') /\ EventQueue' = Moved(sent', flushed') \o send_queue_'
      BY DEF EventSent, EventQueue, Kept, Moved
    <3> QED BY <3>1, <3>2, <3>3, <3>4
  <2>2. CASE ~ok
    <3>1. UNCHANGED <<sent, flushed, send_queue_>>
      BY <1>2, <2>2 DEF FlushPops
    <3> QED BY <1>4, <3>1, OutKept
  <2> QED BY <2>1, <2>2
<1>10. FlushInv'
  <2>1. FlushTypeOK'
    BY <1>1, <1>3, <1>9 DEF FlushTypeOK
  <2>2. ~Online' => send_queue_' # <<>>
    BY <1>1, <1>2, <1>6 DEF FlushPops
  <2>3. Online' => /\ told'.subs \cup flush'.subs = E!Subscribed'
                   /\ told'.listens \cup flush'.listens = listener_map_'
    BY <1>1, <1>3, <1>6, <1>7, <1>8
  <2> QED BY <1>1, <1>6, <2>1, <2>2, <2>3 DEF FlushInv
<1>11. EventMapped
  BY <1>1, <1>3, <1>6, <1>9, FlushStutters
<1> QED BY <1>10, <1>11

\* All that a flush has written, Event takes notice of when the flush returns.
LEMMA FlushReturnsEvent ==
    ASSUME Before, After', FlushReturns
    PROVE  FlushInv' /\ EventMapped
<1> DEFINE n == flushed
<1>1. /\ pc = "flush" /\ ~opening /\ pc' = "dispatch" /\ UNCHANGED <<state, opening>>
      /\ Alive /\ WireFollows /\ flush' = NoFlush /\ flushed' = 0
      /\ UNCHANGED <<eventVars, subscription_counter_>>
      /\ (state # "OPEN" \/ (flush = NoFlush /\ send_queue_ = <<>>))
  BY DEF FlushReturns, C!CallbacksReturn, C!Running, C!NoSocketUse, C!clientVars
<1>2. /\ FlushTypeOK /\ QueueOK /\ QueueOK' /\ frames = <<>>
      /\ EventOnline = FALSE /\ EventSession = NoFlush
  BY <1>1, FlushFacts DEF After, PInv
<1>3. UNCHANGED <<sent, send_queue_, emitted, frames, listener_map_, subscriber_map_,
                  subscribe_fn_map_, empty_fns, event_crashed>>
  BY <1>1 DEF eventVars
<1>4. sent \in Seq(Nat) /\ send_queue_ \in Seq(Nat) /\ flushed \in 0 .. Len(sent)
      /\ Len(sent) \in Nat /\ Len(send_queue_) \in Nat
  BY <1>2, LenProperties DEF FlushTypeOK, QueueOK
<1>5. FlushTypeOK' /\ FlushInv'
  <2>1. NoFlush \in [subs : SUBSET Names, listens : SUBSET Patterns] /\ 0 \in 0 .. Len(sent)
    BY <1>4 DEF NoFlush
  <2>2. FlushTypeOK'
    BY <1>1, <1>2, <1>3, <2>1 DEF FlushTypeOK
  <2> QED BY <1>1, <2>2 DEF FlushInv
<1>6. EventSent' = sent /\ EventQueue' = send_queue_
  BY <1>1, <1>2, <1>3, <1>5, OutLater
<1>7. /\ EventQueue \in Seq(Nat) /\ Len(EventQueue) = n + Len(send_queue_)
      /\ EventSent \o SubSeq(EventQueue, 1, n) = sent
      /\ SubSeq(EventQueue, n + 1, Len(EventQueue)) = send_queue_
  <2>1. EventQueue = Moved(sent, flushed) \o send_queue_ /\ EventSent = Kept(sent, flushed)
    BY DEF EventSent, EventQueue, Moved, Kept
  <2> QED BY <1>4, <2>1, AllMoved
<1>8. EventView!Flushed(n)
  BY <1>1, <1>3, <1>6, <1>7 DEF EventView!Flushed, EventView!WriteAndPop, EventView!mapVars
<1>9. ~event_crashed
  BY <1>1 DEF Alive
<1>10. CASE state = "OPEN"
  <2>1. Online /\ Online' /\ EventOnline' = TRUE
    BY <1>1, <1>10 DEF Online, EventOnline
  <2>2. told.subs \cup flush.subs = E!Subscribed /\ told.listens \cup flush.listens = listener_map_
    BY <1>1, <2>1 DEF Before, FlushInv
  <2>3. flush = NoFlush /\ send_queue_ = <<>>
    BY <1>1, <1>10
  <2>4. told.subs = E!Subscribed /\ told.listens = listener_map_
    BY <2>2, <2>3 DEF NoFlush
  <2>5. SameLists
    BY <1>1, <2>1, WireLists DEF After
  <2>6. EventSession' = [subs |-> EventView!Subscribed, listens |-> listener_map_]
    BY <2>1, <2>4, <2>5 DEF EventSession, SameLists, E!Subscribed, EventView!Subscribed
  <2>7. n = Len(EventQueue)
    BY <1>4, <1>7, <2>3
  <2>8. EventView!Reconnect
    <3>1. EventView!Flushed(Len(EventQueue))
      BY <1>8, <2>7
    <3> QED BY <1>2, <1>9, <2>1, <2>6, <3>1 DEF EventView!Reconnect
  <2> QED BY <1>5, <2>8 DEF EventMapped, EventView!Next, EventView!Link
<1>11. CASE state # "OPEN"
  <2>1. ~Online /\ EventOnline' = FALSE /\ EventSession' = NoFlush
    BY <1>1, <1>11 DEF Online, EventOnline, EventSession
  <2>2. CASE n > 0
    <3>1. send_queue_ # <<>>
      BY <1>1, <2>1, <2>2 DEF Before, FlushInv
    <3>2. Len(send_queue_) > 0
      BY <1>4, <3>1, EmptySeq
    <3>3. n \in 0 .. Len(EventQueue) - 1
      BY <1>4, <1>7, <2>2, <3>2
    <3>4. EventView!ReconnectAndFail(n)
      BY <1>2, <1>8, <1>9, <2>1 DEF EventView!ReconnectAndFail, EventView!linkVars
    <3> QED BY <1>5, <3>3, <3>4 DEF EventMapped, EventView!Next, EventView!Link
  <2>3. CASE n = 0
    <3>1. EventSent = sent /\ EventQueue = send_queue_
      BY <1>2, <2>3, OutNow
    <3> QED BY <1>1, <1>2, <1>3, <1>5, <1>6, <2>1, <3>1
            DEF EventMapped, EventView!vars, EventView!mapVars, EventView!linkVars,
                EventView!outVars
  <2> QED BY <1>4, <2>2, <2>3
<1> QED BY <1>10, <1>11

-----------------------------------------------------------------------------
\* ... and what Connection and the server do.

\* A step that Event takes no part in, and that leaves the link as it is.
LEMMA StaysEvent ==
    ASSUME Before, After', UNCHANGED <<eventVars, subscription_counter_, flush, flushed, pc>>,
           OnlineStays, Online' => SameLists
    PROVE  FlushInv' /\ EventMapped
<1>1. EventOnline' <=> EventOnline
  BY DEF EventOnline, OnlineStays
<1>2. CASE pc # "flush"
  BY <1>1, <1>2, OtherStep DEF EventOnline
<1>3. CASE pc = "flush"
  <2>1. UNCHANGED <<sent, send_queue_, emitted, frames, listener_map_, subscriber_map_,
                    subscribe_fn_map_, empty_fns, event_crashed>> /\ E!Subscribed' = E!Subscribed
    BY DEF eventVars, E!Subscribed
  <2>2. FlushInv'
    BY <1>3, <2>1 DEF Before, FlushInv, FlushTypeOK, OnlineStays, SameLists
  <2>3. EventMapped
    BY <1>3, <2>1, OutKept, FlushStutters
  <2> QED BY <2>2, <2>3
<1> QED BY <1>2, <1>3

LEMMA OpeningEvent ==
    ASSUME Before, After', Opening
    PROVE  FlushInv' /\ EventMapped
<1>1. /\ C!Opening /\ UNCHANGED <<eventVars, subscription_counter_, flush, flushed>>
  BY DEF Opening, flushVars
<1>2. ~Online /\ ~Online' /\ pc' = pc
  BY <1>1 DEF C!Opening, C!OpenSucceeds, C!OpenFails, C!on_close, C!GiveUpOrReopen, Online
<1> QED BY <1>1, <1>2, StaysEvent DEF OnlineStays

LEMMA ReadAppEvent ==
    ASSUME Before, After', ReadApp
    PROVE  FlushInv' /\ EventMapped
<1>1. /\ UNCHANGED <<eventVars, subscription_counter_, flush, flushed, pc>>
      /\ OnlineStays /\ SameLists
  BY DEF ReadApp, C!ReadFrame, C!clientVars, OnlineStays, Online, flushVars, SameLists
<1> QED BY <1>1, StaysEvent

LEMMA PeerEvent ==
    ASSUME Before, After', Peer
    PROVE  FlushInv' /\ EventMapped
<1>1. PeerOnly
  BY DEF Peer, ServerAnswers, ServerLearns, ServerSends, LinkEnds
<1>2. UNCHANGED <<eventVars, subscription_counter_, flush, flushed, pc>> /\ OnlineStays
  BY <1>1 DEF PeerOnly, OnlineStays, Online, flushVars
<1>3. Online' => SameLists
  <2>1. CASE ServerAnswers \/ LinkEnds
    BY <2>1, WireLists DEF ServerAnswers, LinkEnds, After
  <2>2. CASE ServerLearns \/ \E m \in Wanted : ServerSends(m)
    BY <2>2 DEF ServerLearns, ServerSends, SameLists
  <2> QED BY <2>1, <2>2 DEF Peer
<1> QED BY <1>2, <1>3, StaysEvent

LEMMA StutterEvent ==
    ASSUME Before, After', UNCHANGED vars
    PROVE  FlushInv' /\ EventMapped
<1>1. /\ UNCHANGED <<eventVars, subscription_counter_, flush, flushed, pc>>
      /\ OnlineStays /\ SameLists
  BY DEF vars, connVars, wireVars, flushVars, OnlineStays, Online, SameLists
<1> QED BY <1>1, StaysEvent

\* A connection opens with a flush, and with nothing else.
LEMMA FlushStarts ==
    ASSUME ConnectionSteps
    PROVE  /\ pc # "flush" /\ (pc' = "flush" => ~Online /\ Online')
           /\ (~Online /\ Online' => pc' = "flush")
<1> USE DEF Online, C!Running, C!NoSocketUse, C!socketVars, C!clientVars
<1>0. /\ \A s, m : s # "OPEN" /\ C!transition_incoming(s, m) = "OPEN" => m = "AA" \/ s = "OPEN"
      /\ \A s : C!transition_outgoing(s, "CHR") # "OPEN" /\ C!transition_outgoing(s, "REQ") # "OPEN"
  BY DEF C!transition_incoming, C!transition_outgoing
<1>1. ASSUME NEW s, NEW m, C!SendIn(s, m), Online', ~opening
      PROVE  state' = s
  BY <1>1 DEF C!SendIn, C!SendSucceeds, C!SendFails, C!on_close, C!GiveUpOrReopen
<1>2. CASE C!ProcessMessages \/ C!ReadPauses \/ C!OnMessageReturns \/ C!ConstructorReturns
           \/ (pc = "event_cb" /\ C!CallbacksReturn)
           \/ \E m \in C!FromServer \ {"APP"} : C!ReadFrame(m)
  BY <1>2 DEF C!ProcessMessages, C!ReadPauses, C!OnMessageReturns, C!ConstructorReturns,
     C!CallbacksReturn, C!ReadFrame, C!AfterRead
<1>3. CASE C!ReadEnd
  BY <1>3 DEF C!ReadEnd, C!on_close, C!GiveUpOrReopen, C!AfterRead
<1>4. CASE C!LoginCallbackReturns
  BY <1>4, <1>0, OpenStays DEF C!LoginCallbackReturns, C!FinishAuth
<1> USE DEF C!Receive, C!Upcoming, C!Continue, C!Unwind
<1>5. CASE C!HandlePing
  BY <1>5, <1>0, <1>1 DEF C!HandlePing, C!transition_outgoing, C!transition_incoming
<1>6. CASE C!HandleChallenge
  BY <1>6, <1>0, <1>1 DEF C!HandleChallenge
<1>7. CASE C!HandleChallengeAccepted
  BY <1>7, <1>0, <1>1 DEF C!HandleChallengeAccepted
<1>8. CASE C!HandleRedirect \/ C!HandleReject
  BY <1>8, <1>0 DEF C!HandleRedirect, C!HandleReject
<1>9. CASE C!HandleAuthError
  BY <1>9, <1>0 DEF C!HandleAuthError, C!AuthError
<1>10. CASE C!HandleAuthAck
  BY <1>10, <1>0, OpenStays DEF C!HandleAuthAck, C!FinishAuth
<1> QED BY <1>2, <1>3, <1>4, <1>5, <1>6, <1>7, <1>8, <1>9, <1>10 DEF ConnectionSteps

LEMMA ConnectionStepsEvent ==
    ASSUME Before, After', ConnectionSteps
    PROVE  FlushInv' /\ EventMapped
<1>1. /\ Alive /\ InNeither /\ WireFollows /\ FlushBegins
      /\ UNCHANGED <<eventVars, subscription_counter_, flushed>>
  BY DEF ConnectionSteps, FlushBegins
<1>2. /\ pc # "flush" /\ (pc' = "flush" => ~Online /\ Online')
      /\ (~Online /\ Online' => pc' = "flush")
  BY FlushStarts
<1>3. CASE pc' # "flush"
  <2>1. flush' = flush /\ (EventOnline' => EventOnline)
    BY <1>1, <1>2, <1>3 DEF FlushBegins, EventOnline
  <2>2. EventOnline' => SameLists
    BY <1>1, WireLists DEF EventOnline, After
  <2>3. EventView!UserRuns
    BY <1>1 DEF Alive, InNeither, InEvent, EventView!UserRuns
  <2> QED BY <1>1, <1>2, <1>3, <2>1, <2>2, <2>3, OtherStep
<1>4. CASE pc' = "flush"
  <2>1. /\ ~Online /\ Online' /\ flushed = 0 /\ flushed' = 0 /\ FlushTypeOK
        /\ flush' = [subs |-> E!Subscribed, listens |-> listener_map_]
    BY <1>1, <1>2, <1>4 DEF FlushBegins, Before, FlushInv
  <2>2. UNCHANGED <<sent, send_queue_, emitted, frames, listener_map_, subscriber_map_,
                    subscribe_fn_map_, empty_fns, event_crashed>> /\ E!Subscribed' = E!Subscribed
    BY <1>1 DEF eventVars, E!Subscribed
  <2>3. told' = Nothing
    BY <1>1, <2>1 DEF Before, PInv, WireInv, AnswersCounted, WireFollows
  <2>4. told'.subs \cup flush'.subs = E!Subscribed /\ told'.listens \cup flush'.listens = listener_map_
    BY <2>1, <2>3 DEF Nothing
  <2>5. FlushTypeOK'
    <3>1. E!Subscribed \subseteq Names /\ listener_map_ \subseteq Patterns
      BY <2>1 DEF E!Subscribed, FlushTypeOK
    <3> QED BY <2>1, <2>2, <3>1 DEF FlushTypeOK
  <2>6. FlushInv'
    BY <1>4, <2>1, <2>2, <2>4, <2>5 DEF FlushInv
  <2>7. EventMapped
    <3>1. LinkKept
      <4>1. EventOnline = FALSE /\ EventOnline' = FALSE
        BY <1>4, <2>1 DEF EventOnline
      <4> QED BY <4>1 DEF LinkKept, EventSession
    <3>2. LinkLost => FALSE
      BY <2>1 DEF LinkLost, EventOnline
    <3> QED BY <1>1, <3>1, <3>2, LinkMapsEvent
  <2> QED BY <2>6, <2>7
<1> QED BY <1>3, <1>4

-----------------------------------------------------------------------------
LEMMA NextEvent ==
    ASSUME Before, After', [Next]_vars
    PROVE  FlushInv' /\ EventMapped
<1>1. CASE User
  BY <1>1, ConnectionCallsEvent, EmitEvent, SubscribeEvent, UnsubscribeNameEvent,
     UnsubscribeIdEvent, ListenEvent, UnlistenEvent, PresenceSubscribeEvent, PresenceCallsEvent
     DEF User
<1>2. CASE Throws
  BY <1>2, EventThrowsEvent, OtherLoopsEvent DEF Throws
<1>3. CASE Loops
  BY <1>3, EventLoopsEvent, OtherLoopsEvent, FlushListsEvent, FlushEmitsEvent,
     FlushReturnsEvent DEF Loops, Flushes
<1>4. CASE System
  BY <1>4, OpeningEvent, ConnectionStepsEvent, ReadAppEvent, HandleEventEvent,
     HandlePatternEvent, HandleOtherEvent DEF System, Handles
<1>5. CASE Peer
  BY <1>5, PeerEvent
<1>6. CASE UNCHANGED vars
  BY <1>6, StutterEvent
<1> QED BY <1>1, <1>2, <1>3, <1>4, <1>5, <1>6 DEF Next

LEMMA InitEvent ==
    ASSUME Init
    PROVE  FlushInv /\ EventView!Init
<1>1. /\ sent = <<>> /\ send_queue_ = <<>> /\ flushed = 0 /\ flush = NoFlush /\ frames = <<>>
      /\ listener_map_ = {} /\ emitted = 0 /\ pc = "ctor" /\ state = "CLOSED"
      /\ subscriber_map_ = [name \in Names |-> <<>>] /\ subscribe_fn_map_ = {}
      /\ empty_fns = {} /\ subscription_counter_ = 0 /\ event_crashed = FALSE
  BY DEF Init, C!Init, E!Init
<1>2. FlushTypeOK /\ QueueOK /\ FlushInv
  <2>1. <<>> \in Seq(Nat) /\ Len(<<>>) = 0 /\ 0 <= MaxDepth
    BY EmptySeq, BoundsAssumption
  <2> QED BY <1>1, <2>1 DEF FlushTypeOK, FlushInv, QueueOK, NoFlush
<1>3. EventSent = <<>> /\ EventQueue = <<>>
  BY <1>1, <1>2, OutNow
<1>4. EventOnline = FALSE /\ EventSession = EventView!NoSession
  BY <1>1 DEF EventOnline, Online, EventSession, NoFlush, EventView!NoSession
<1> QED BY <1>1, <1>2, <1>3, <1>4 DEF EventView!Init

\* Event, with its loops over callbacks that may call it again, with a flush that
\* any write may cut short and with Presence on the same connection, works on the
\* link that it is written for: what the abstract Event does in one step, the
\* client does in many.  (client.cpp, on_connection_state_change_, Connection::send)
THEOREM ClientImplementsEvent == Spec => ImplementsEvent
<1>1. Init => ConnInv /\ PInv /\ IdsInv /\ FlushInv /\ EventView!Init
  BY InitMaps, IdsInit, InitEvent
<1>2. ConnInv /\ [Next]_vars => ConnInv'
  BY NextStep, ConnInvStep
<1>3. ConnInv /\ ConnInv' /\ PInv /\ [Next]_vars => PInv'
  BY NextMaps
<1>4. IdsInv /\ [Next]_vars => IdsInv'
  BY IdsNext
<1>5. ConnInv /\ PInv /\ IdsInv /\ FlushInv /\ ConnInv' /\ PInv' /\ [Next]_vars
        => FlushInv' /\ [EventView!Next]_(EventView!vars)
  BY NextEvent DEF EventMapped, Before, After, IdsInv
<1> QED
  BY <1>1, <1>2, <1>3, <1>4, <1>5, PTL DEF Spec, ImplementsEvent, EventView!Spec

-----------------------------------------------------------------------------
\* What is proved of Event and of Presence holds of the client's.

EP == INSTANCE Event_proofs WITH
    online <- EventOnline,
    session <- EventSession,
    sent <- EventSent,
    send_queue_ <- EventQueue

PP == INSTANCE Presence_proofs WITH
    subscribe_fn_map_ <- presence_fn_map_,
    empty_fns <- presence_empty_fns,
    online <- Online,
    session <- PresenceSession

USE DEF EventView!mapVars, EP!mapVars, EventView!linkVars, EP!linkVars,
        EventView!outVars, EP!outVars, EventView!Ids, EP!Ids, EventView!Frame, EP!Frame,
        EventView!NoSession, EP!NoSession, EventView!Subscribed, EP!Subscribed,
        EventView!Sends, EP!Sends, EventView!Tells, EP!Tells, EventView!Top, EP!Top,
        EventView!Below, EP!Below, EventView!UserRuns, EP!UserRuns,
        EventView!Notify, EP!Notify, EventView!Elements, EP!Elements,
        EventView!RemoveAt, EP!RemoveAt, EventView!Unwinds, EP!Unwinds

LEMMA SameEmit == \A name : (EventView!Emit(name) <=> EP!Emit(name))
BY DEF EventView!Emit, EP!Emit, EventView!EmitLocal, EP!EmitLocal

LEMMA SameSubscribe == \A name : (EventView!Subscribe(name) <=> EP!Subscribe(name))
BY DEF EventView!Subscribe, EP!Subscribe, EventView!SubscribeLocal, EP!SubscribeLocal,
       EventView!AddSubscriber, EP!AddSubscriber,
       EventView!SubscribeTells, EP!SubscribeTells

LEMMA SameUnsubscribeName == \A name : (EventView!UnsubscribeName(name) <=> EP!UnsubscribeName(name))
BY DEF EventView!UnsubscribeName, EP!UnsubscribeName,
       EventView!UnsubscribeNameLocal, EP!UnsubscribeNameLocal,
       EventView!RemoveName, EP!RemoveName,
       EventView!UnsubscribeTells, EP!UnsubscribeTells

LEMMA SameUnsubscribeId == \A name, id : (EventView!UnsubscribeId(name, id) <=> EP!UnsubscribeId(name, id))
BY DEF EventView!UnsubscribeId, EP!UnsubscribeId,
       EventView!UnsubscribeIdLocal, EP!UnsubscribeIdLocal,
       EventView!UnsubscribeTells, EP!UnsubscribeTells, EventView!LastOf, EP!LastOf

LEMMA SameListen == \A pattern : (EventView!Listen(pattern) <=> EP!Listen(pattern))
BY DEF EventView!Listen, EP!Listen, EventView!ListenLocal, EP!ListenLocal

LEMMA SameUnlisten == \A pattern : (EventView!Unlisten(pattern) <=> EP!Unlisten(pattern))
BY DEF EventView!Unlisten, EP!Unlisten

LEMMA SamePresenceSubscribes == (EventView!PresenceSubscribes <=> EP!PresenceSubscribes)
BY DEF EventView!PresenceSubscribes, EP!PresenceSubscribes

LEMMA SameEventLoops == (EventView!Loops <=> EP!Loops)
BY DEF EventView!Loops, EP!Loops, EventView!CallNext, EP!CallNext,
       EventView!CallbackReturns, EP!CallbackReturns,
       EventView!NotifyReturns, EP!NotifyReturns,
       EventView!ListenerReturns, EP!ListenerReturns,
       EventView!ListenerReturnsLocal, EP!ListenerReturnsLocal,
       EventView!CallErased, EP!CallErased

LEMMA SameEventThrows == (EventView!Throws <=> EP!Throws)
BY DEF EventView!Throws, EP!Throws, EventView!CallbackThrows, EP!CallbackThrows

LEMMA SameEventLink == (EventView!Link <=> EP!Link)
BY DEF EventView!Link, EP!Link, EventView!EventArrives, EP!EventArrives,
       EventView!PatternArrives, EP!PatternArrives, EventView!Reconnect, EP!Reconnect,
       EventView!ReconnectAndFail, EP!ReconnectAndFail, EventView!Flushed, EP!Flushed,
       EventView!WriteAndPop, EP!WriteAndPop,
       EventView!ConnectionLost, EP!ConnectionLost

HIDE DEF EventView!mapVars, EP!mapVars, EventView!linkVars, EP!linkVars,
         EventView!outVars, EP!outVars, EventView!Ids, EP!Ids, EventView!Frame, EP!Frame,
         EventView!NoSession, EP!NoSession, EventView!Subscribed, EP!Subscribed,
         EventView!Sends, EP!Sends, EventView!Tells, EP!Tells, EventView!Top, EP!Top,
         EventView!Below, EP!Below, EventView!UserRuns, EP!UserRuns,
         EventView!Notify, EP!Notify, EventView!RemoveAt, EP!RemoveAt,
         EventView!Unwinds, EP!Unwinds

LEMMA SameEventNext == EventView!Next <=> EP!Next
BY SameEmit, SameSubscribe, SameUnsubscribeName, SameUnsubscribeId, SameListen, SameUnlisten,
   SamePresenceSubscribes, SameEventLoops, SameEventThrows, SameEventLink
   DEF EventView!Next, EP!Next, EventView!User, EP!User

HIDE DEF EventView!Elements, EP!Elements

LEMMA SameEventVars ==
    /\ (EventView!Init <=> EP!Init) /\ (UNCHANGED EventView!vars <=> UNCHANGED EP!vars)
    /\ (EventView!TypeOK <=> EP!TypeOK) /\ EventView!Subscribed = EP!Subscribed
BY DEF EventView!Init, EP!Init, EventView!vars, EP!vars, EventView!NoSession, EP!NoSession,
       EventView!mapVars, EP!mapVars, EventView!linkVars, EP!linkVars,
       EventView!outVars, EP!outVars, EventView!TypeOK, EP!TypeOK, EventView!Frame, EP!Frame,
       EventView!Ids, EP!Ids, EventView!Subscribed, EP!Subscribed

USE DEF P!subVars, PP!subVars, P!queryVars, PP!queryVars, P!linkVars, PP!linkVars,
        P!Idle, PP!Idle, P!NoSession, PP!NoSession, P!Sends, PP!Sends, P!Tells, PP!Tells,
        P!UserRuns, PP!UserRuns, P!Elements, PP!Elements, P!RemoveAt, PP!RemoveAt

LEMMA SamePresenceUser == (P!User <=> PP!User)
BY DEF P!User, PP!User, P!Subscribe, PP!Subscribe, P!SubscribeLocal, PP!SubscribeLocal,
       P!AddSubscriber, PP!AddSubscriber, P!SubscribeTells, PP!SubscribeTells,
       P!UnsubscribeAll, PP!UnsubscribeAll,
       P!UnsubscribeAllLocal, PP!UnsubscribeAllLocal, P!GetAll, PP!GetAll,
       P!GetAllLocal, PP!GetAllLocal, P!GetAllTells, PP!GetAllTells,
       P!EventSubscribes, PP!EventSubscribes, P!UnsubscribeId, PP!UnsubscribeId,
       P!UnsubscribeIdLocal, PP!UnsubscribeIdLocal,
       P!RemoveSubscriber, PP!RemoveSubscriber, P!UnsubscribeTells, PP!UnsubscribeTells

LEMMA SamePresenceLoops == (P!Loops <=> PP!Loops)
BY DEF P!Loops, PP!Loops, P!CallSubscriber, PP!CallSubscriber,
       P!CallErased, PP!CallErased, P!Callable, PP!Callable, P!CallQuerent, PP!CallQuerent,
       P!CallbackReturns, PP!CallbackReturns, P!NotifyReturns, PP!NotifyReturns

LEMMA SamePresenceThrows == (P!CallbackThrows <=> PP!CallbackThrows)
BY DEF P!CallbackThrows, PP!CallbackThrows

LEMMA SamePresenceLink == (P!Link <=> PP!Link)
BY DEF P!Link, PP!Link, P!PresenceArrives, PP!PresenceArrives,
       P!AnswerArrives, PP!AnswerArrives, P!LateAnswerArrives, PP!LateAnswerArrives,
       P!ConnectionOpens, PP!ConnectionOpens, P!ConnectionLost, PP!ConnectionLost,
       P!AnswerLocal, PP!AnswerLocal, P!Answer, PP!Answer

LEMMA SamePresence ==
    /\ (P!Init <=> PP!Init) /\ (UNCHANGED P!vars <=> UNCHANGED PP!vars)
    /\ (P!TypeOK <=> PP!TypeOK)
BY DEF P!Init, PP!Init, P!vars, PP!vars, P!TypeOK, PP!TypeOK

HIDE DEF P!subVars, PP!subVars, P!queryVars, PP!queryVars, P!linkVars, PP!linkVars,
         P!Idle, PP!Idle, P!NoSession, PP!NoSession, P!Sends, PP!Sends,
         P!Tells, PP!Tells, P!UserRuns, PP!UserRuns, P!Elements, PP!Elements,
         P!RemoveAt, PP!RemoveAt

LEMMA SamePresenceNext == P!Next <=> PP!Next
BY SamePresenceUser, SamePresenceLoops, SamePresenceThrows, SamePresenceLink
   DEF P!Next, PP!Next

\* The invariants of the two, on the client.
LEMMA EventListsInit == EventView!Init => EP!ListsInv
BY SameEventVars, EP!ListsInit, BoundsAssumption

LEMMA EventListsStep ==
    ASSUME EP!ListsInv, EventMapped PROVE EP!ListsInv'
BY SameEventNext, SameEventVars, EP!ListsStep, BoundsAssumption DEF EventMapped

LEMMA PresenceListsInit == P!Init => PP!PresenceInv
BY SamePresence, PP!PresenceInit, BoundsAssumption

LEMMA PresenceListsStep ==
    ASSUME PP!PresenceInv, Mapped PROVE PP!PresenceInv'
BY SamePresenceNext, SamePresence, PP!PresenceStep, BoundsAssumption DEF Mapped

-----------------------------------------------------------------------------
(***************************************************************************)
(* What is written gets to the server, in order, or is lost with the       *)
(* socket.                                                                 *)
(***************************************************************************)

\* A message is written, an emit with the next number, ...
Written(m) ==
    /\ C!SendApp(TRUE)
    /\ uplink' = Append(uplink, m)
    /\ told' = Learn(told, m)
    /\ UNCHANGED <<known, received>>
    /\ m.act = "EVENT" => m.what = Len(sent') /\ Len(sent) < Len(sent')

\* ... or Connection loses what it loses, ...
Lost == WireFollows /\ QuietLink

\* ... or nothing goes to the server, and nothing but queries is answered.
SameView(v, w) == w.subs = v.subs /\ w.listens = v.listens /\ w.subscribed = v.subscribed

Still == UNCHANGED <<uplink, received, srv>> /\ SameView(told, told') /\ SameView(known, known')

WireStep ==
    /\ Len(sent) <= Len(sent')
    /\ (\E m \in ToServer : Written(m)) \/ Lost \/ Still \/ ServerLearns

\* The number of the next emit, and of those that wait.
LEMMA Regroup ==
    ASSUME NEW a \in Seq(Nat), NEW b \in Seq(Nat), NEW c \in Seq(Nat)
    PROVE  (a \o b) \o c = a \o (b \o c)
BY ConcatAssociative

LEMMA Numbers ==
    ASSUME QueueOK, FlushTypeOK, EP!ListsInv
    PROVE  /\ emitted = Len(sent) + Len(send_queue_)
           /\ send_queue_ # <<>> => Head(send_queue_) = Len(sent) + 1
           /\ EventOnline /\ flushed = 0 => send_queue_ = <<>>
<1>1. /\ EventSent \o EventQueue = [i \in 1 .. emitted |-> i]
      /\ EventOnline => EventQueue = <<>>
  BY DEF EP!ListsInv, EP!EventInv, EP!OutInv, EP!EmitsInOrder
<1>2. /\ sent \in Seq(Nat) /\ send_queue_ \in Seq(Nat) /\ flushed \in 0 .. Len(sent)
      /\ emitted \in Nat
  BY DEF QueueOK, FlushTypeOK
<1>3. sent \o send_queue_ = [i \in 1 .. emitted |-> i]
  <2>1. /\ Kept(sent, flushed) \in Seq(Nat) /\ Moved(sent, flushed) \in Seq(Nat)
        /\ Kept(sent, flushed) \o Moved(sent, flushed) = sent
    BY <1>2, MovedProperties
  <2>2. (Kept(sent, flushed) \o Moved(sent, flushed)) \o send_queue_
          = Kept(sent, flushed) \o (Moved(sent, flushed) \o send_queue_)
    BY <1>2, <2>1, Regroup
  <2> QED BY <1>1, <2>1, <2>2 DEF EventSent, EventQueue, Kept, Moved
<1>4. /\ Len(sent \o send_queue_) = Len(sent) + Len(send_queue_)
      /\ \A i \in 1 .. Len(sent) + Len(send_queue_) :
            (sent \o send_queue_)[i] = IF i <= Len(sent) THEN sent[i] ELSE send_queue_[i - Len(sent)]
  BY <1>2, ConcatProperties
<1>5. Len(sent) \in Nat /\ Len(send_queue_) \in Nat
  BY <1>2, LenProperties
<1>6. emitted = Len(sent) + Len(send_queue_)
  <2> DEFINE log == [i \in 1 .. emitted |-> i]
  <2>1. log \in [1 .. emitted -> Nat]
    OBVIOUS
  <2>2. log \in Seq(Nat)
    BY <1>2, <2>1, SeqDef
  <2>3. Len(log) = emitted
    BY <1>2, <2>2, LenProperties
  <2> QED BY <1>3, <1>4, <2>3
<1>7. ASSUME send_queue_ # <<>> PROVE Head(send_queue_) = Len(sent) + 1
  <2>1. Head(send_queue_) = send_queue_[1] /\ Len(send_queue_) # 0
    BY <1>2, <1>7, HeadTailProperties, EmptySeq
  <2> DEFINE k == Len(sent) + 1
  <2>2. k \in 1 .. Len(sent) + Len(send_queue_) /\ k - Len(sent) = 1 /\ ~(k <= Len(sent))
    BY <1>5, <2>1
  <2>3. (sent \o send_queue_)[k] = send_queue_[1]
    BY <1>4, <2>2
  <2>4. (sent \o send_queue_)[k] = k
    BY <1>3, <1>6, <2>2
  <2> QED BY <2>1, <2>3, <2>4
<1>8. EventOnline /\ flushed = 0 => send_queue_ = <<>>
  BY <1>1, OutNow
<1> QED BY <1>6, <1>7, <1>8

LEMMA SentKept ==
    ASSUME FlushTypeOK, sent' = sent PROVE Len(sent) <= Len(sent')
BY LenProperties DEF FlushTypeOK

LEMMA StillWires ==
    ASSUME Before, sent' = sent, UNCHANGED <<connVars, wireVars>> PROVE WireStep
BY SentKept DEF Before, FlushInv, connVars, wireVars, WireStep, Still, SameView

LEMMA LostWires ==
    ASSUME Before, sent' = sent, Quiet, WireFollows PROVE WireStep
BY SentKept DEF Before, FlushInv, WireStep, Lost, Quiet

LEMMA SendWires ==
    ASSUME Before, NEW m \in ToServer, NEW ok \in BOOLEAN, Send(ok, m),
           Len(sent) <= Len(sent'),
           ok /\ m.act = "EVENT" => m.what = Len(sent') /\ Len(sent) < Len(sent')
    PROVE  WireStep
<1>1. CASE /\ ok
           /\ C!SendApp(TRUE)
           /\ uplink' = Append(uplink, m)
           /\ told' = Learn(told, m)
           /\ UNCHANGED <<downlink, inbox, known, late, received>>
  BY <1>1 DEF WireStep, Written
<1>2. CASE C!SendApp(FALSE) /\ WireFollows
  BY <1>2, UserQuiet DEF Before, Quiet, WireStep, Lost
<1>3. CASE UNCHANGED <<connVars, wireVars>>
  BY <1>3 DEF connVars, wireVars, WireStep, Still, SameView
<1> QED BY <1>1, <1>2, <1>3 DEF Send

LEMMA SendIfWires ==
    ASSUME Before, sent' = sent, NEW m \in ToServer, m.act # "EVENT", NEW needed,
           SendIf(needed, m)
    PROVE  WireStep
<1>1. FlushTypeOK
  BY DEF Before, FlushInv
<1> QED BY <1>1, SendWires, StillWires, SentKept DEF SendIf

\* The next three follow the structure of Next.
LEMMA UserWires ==
    ASSUME Before, EP!ListsInv, User PROVE WireStep
<1> USE EventMessages, PresenceMessages DEF Msg
<1>1. ASSUME NEW callback \in Callbacks, Login(callback) PROVE WireStep
  BY <1>1, UserQuiet, LostWires DEF Login, eventVars, Before
<1>2. ASSUME Close PROVE WireStep
  BY <1>2, UserQuiet, LostWires DEF Close, eventVars, Before
<1>3. ASSUME NEW name \in Names, Emit(name) PROVE WireStep
  <2>1. PICK ok \in BOOLEAN : Send(ok, Msg("EVENT", emitted + 1)) /\ E!EmitLocal(name, ok)
    BY <1>3 DEF Emit
  <2>2. /\ FlushTypeOK /\ QueueOK /\ flushed = 0 /\ emitted + 1 \in Nat
        /\ (EventOnline <=> state = "OPEN")
    BY <1>3, AppFacts DEF Emit, Before, PInv, QueueOK
  <2>3. /\ emitted = Len(sent) + Len(send_queue_)
        /\ EventOnline => send_queue_ = <<>>
    BY <2>2, Numbers
  <2>4. sent' = IF ok THEN Append(sent, emitted + 1) ELSE sent
    BY <2>1 DEF E!EmitLocal
  <2>5. Len(sent) \in Nat /\ (ok => Len(sent') = Len(sent) + 1)
    BY <2>2, <2>4, AppendProperties, LenProperties DEF FlushTypeOK
  <2>6. ok => emitted + 1 = Len(sent')
    <3>1. ok => state = "OPEN"
      BY <2>1 DEF Send, C!SendApp
    <3>2. Len(<<>>) = 0
      BY EmptySeq
    <3> QED BY <2>2, <2>3, <2>5, <3>1, <3>2
  <2>7. Len(sent) <= Len(sent') /\ (ok => Len(sent) < Len(sent'))
    BY <2>4, <2>5
  <2> QED BY <2>1, <2>2, <2>6, <2>7, SendWires
<1>4. ASSUME NEW name \in Names,
             \/ Subscribe(name) \/ UnsubscribeName(name)
             \/ \E id : UnsubscribeId(name, id)
      PROVE  WireStep
  <2>1. sent' = sent
    BY <1>4 DEF Subscribe, UnsubscribeName, UnsubscribeId, E!SubscribeLocal, E!AddSubscriber,
       E!UnsubscribeNameLocal, E!UnsubscribeIdLocal, E!outVars
  <2>2. \/ SendIf(E!SubscribeTells(name), Msg("SUBSCRIBE", name))
        \/ SendIf(E!UnsubscribeTells(name), Msg("UNSUBSCRIBE", name))
        \/ SendIf(E!LastOf(name) /\ E!UnsubscribeTells(name), Msg("UNSUBSCRIBE", name))
    BY <1>4 DEF Subscribe, UnsubscribeName, UnsubscribeId
  <2> QED BY <2>1, <2>2, SendIfWires
<1>5. ASSUME NEW pattern \in Patterns, Listen(pattern) PROVE WireStep
  BY <1>5, SendIfWires DEF Listen, E!ListenLocal, E!outVars
<1>6. ASSUME NEW pattern \in Patterns, Unlisten(pattern) PROVE WireStep
  BY <1>6, StillWires DEF Unlisten, E!Unlisten, E!outVars
<1>7. ASSUME PresenceSubscribe \/ PresenceUnsubscribeAll \/ GetAll
             \/ \E id : PresenceUnsubscribeId(id)
      PROVE  WireStep
  <2>1. sent' = sent
    BY <1>7 DEF PresenceSubscribe, PresenceUnsubscribeAll, GetAll, PresenceUnsubscribeId, eventVars
  <2>2. \/ SendIf(P!SubscribeTells, Msg("U|S", "-"))
        \/ SendIf(TRUE, Msg("U|US", "-"))
        \/ \E id : SendIf(P!UnsubscribeTells(id), Msg("U|US", "-"))
        \/ SendIf(P!GetAllTells, Msg("QUERY", "-"))
    BY <1>7 DEF PresenceSubscribe, PresenceUnsubscribeAll, GetAll, PresenceUnsubscribeId
  <2> QED BY <2>1, <2>2, SendIfWires
<1> QED BY <1>1, <1>2, <1>3, <1>4, <1>5, <1>6, <1>7 DEF User

LEMMA EscapesWires ==
    ASSUME Before, sent' = sent, NEW n, Escapes(n) PROVE WireStep
BY UserQuiet, LostWires, StillWires DEF Escapes, Before

LEMMA LoopsWires ==
    ASSUME Before, EP!ListsInv, Throws \/ Loops PROVE WireStep
<1>1. ASSUME EventLoops \/ EventCallbackThrows PROVE WireStep
  <2>1. sent' = sent
    BY <1>1 DEF EventLoops, EventCallbackThrows, E!CallNext, E!CallbackReturns, E!NotifyReturns,
       E!ListenerReturnsLocal, E!CallErased, E!CallbackThrows, E!outVars
  <2>2. \/ UNCHANGED <<connVars, wireVars>> \/ (\E n : Escapes(n))
        \/ SendIf(E!Top.kind = "found", Msg("LISTEN_ANSWER", "-"))
    BY <1>1 DEF EventLoops, EventCallbackThrows
  <2> QED BY <2>1, <2>2, StillWires, EscapesWires, SendIfWires, EventMessages DEF Msg
<1>2. ASSUME PresenceLoops \/ PresenceCallbackThrows \/ LoginCallbackThrows PROVE WireStep
  <2>1. sent' = sent
    BY <1>2 DEF PresenceLoops, PresenceCallbackThrows, LoginCallbackThrows, eventVars
  <2>2. UNCHANGED <<connVars, wireVars>> \/ (C!CallbackThrows /\ WireFollows)
    BY <1>2 DEF PresenceLoops, PresenceCallbackThrows, LoginCallbackThrows
  <2> QED BY <2>1, <2>2, StillWires, UserQuiet, LostWires DEF Before
<1>3. ASSUME \/ \E name \in Names : FlushSubscribes(name)
             \/ \E pattern \in Patterns : FlushListens(pattern)
      PROVE  WireStep
  <2>1. sent' = sent
    BY <1>3 DEF FlushSubscribes, FlushListens, eventVars
  <2>2. \E m \in ToServer : m.act # "EVENT" /\ SendIf(TRUE, m)
    BY <1>3, EventMessages DEF FlushSubscribes, FlushListens, Msg
  <2> QED BY <2>1, <2>2, SendIfWires
<1>4. ASSUME FlushEmits PROVE WireStep
  <2>1. PICK ok \in BOOLEAN :
            /\ Send(ok, Msg("EVENT", Head(send_queue_)))
            /\ sent' = IF ok THEN Append(sent, Head(send_queue_)) ELSE sent
    BY <1>4 DEF FlushEmits
  <2>2. FlushTypeOK /\ QueueOK /\ send_queue_ # <<>>
    BY <1>4 DEF FlushEmits, Before, PInv, FlushInv
  <2>3. Head(send_queue_) = Len(sent) + 1 /\ Len(sent) \in Nat
    BY <2>2, Numbers, LenProperties DEF FlushTypeOK
  <2>4. /\ ok => Len(sent') = Len(sent) + 1
        /\ Msg("EVENT", Head(send_queue_)) \in ToServer
    <3>1. Head(send_queue_) \in Nat
      BY <2>3
    <3> QED BY <2>1, <2>2, <3>1, AppendProperties, EventMessages DEF FlushTypeOK
  <2>5. /\ Len(sent) <= Len(sent')
        /\ ok => Head(send_queue_) = Len(sent') /\ Len(sent) < Len(sent')
    BY <2>1, <2>3, <2>4
  <2> QED BY <2>1, <2>4, <2>5, SendWires DEF Msg
<1>5. ASSUME FlushReturns PROVE WireStep
  BY <1>5, OwnQuiet, LostWires DEF FlushReturns, eventVars, Before, C!Returns
<1> QED BY <1>1, <1>2, <1>3, <1>4, <1>5 DEF Throws, Loops, Flushes

LEMMA ViewKept ==
    ASSUME NEW view \in View, NEW n
    PROVE  SameView(view, [view EXCEPT !.queries = n]) /\ SameView(view, view)
BY DEF View, SameView

LEMMA SystemWires ==
    ASSUME Before, System \/ Peer PROVE WireStep
<1>0. ConnInv /\ FlushTypeOK /\ told \in View /\ known \in View
  BY DEF Before, PInv, WireInv, WireTypeOK, FlushInv
<1>1. sent' = sent /\ Len(sent) <= Len(sent')
  <2>1. CASE Peer
    BY <2>1 DEF Peer, ServerAnswers, ServerLearns, ServerSends, LinkEnds, PeerOnly, eventVars
  <2>2. CASE System
    BY <2>2 DEF System, Opening, ConnectionSteps, ReadApp, Handles, HandleEvent, HandlePattern,
       HandlePresence, HandleAnswer, E!EventArrives, E!PatternArrives, E!outVars, eventVars
  <2> QED BY <1>0, <2>1, <2>2, SentKept
<1>2. CASE Opening
  BY <1>0, <1>1, <1>2, OwnQuiet, LostWires DEF Opening
<1>3. CASE ConnectionSteps
  BY <1>0, <1>1, <1>3, OwnQuiet, HandlersQuiet, LostWires DEF ConnectionSteps, C!Returns
<1>4. CASE ReadApp
  BY <1>0, <1>1, <1>4, ViewKept DEF ReadApp, C!ReadFrame, C!SocketReads, WireStep, Still
<1>5. CASE Handles
  <2>1. PICK act, what : Handle(act, what)
    BY <1>5 DEF Handles, HandleEvent, HandlePattern, HandlePresence, HandleAnswer
  <2>2. UNCHANGED <<uplink, received, srv, known>>
    BY <2>1 DEF Handle, C!HandleApp, C!NoSocketUse, C!socketVars
  <2>3. told' = told \/ told' = [told EXCEPT !.queries = @ - 1]
    BY <1>5 DEF Handles, HandleEvent, HandlePattern, HandlePresence, HandleAnswer
  <2> QED BY <1>0, <1>1, <2>2, <2>3, ViewKept DEF WireStep, Still
<1>6. CASE ServerAnswers \/ LinkEnds
  <2>1. Quiet
    BY <1>0, <1>6, PeerQuiet DEF ServerAnswers, LinkEnds, PeerOnly
  <2> QED BY <1>1, <1>6, <2>1, LostWires DEF ServerAnswers, LinkEnds
<1>7. CASE ServerLearns
  BY <1>1, <1>7 DEF WireStep
<1>8. ASSUME NEW m \in Wanted, ServerSends(m) PROVE WireStep
  <2>1. UNCHANGED <<uplink, received, srv, told>>
    BY <1>8 DEF ServerSends, C!ServerSends
  <2>2. known' = known \/ known' = [known EXCEPT !.queries = @ - 1]
    BY <1>8 DEF ServerSends
  <2> QED BY <1>0, <1>1, <2>1, <2>2, ViewKept DEF WireStep, Still
<1> QED BY <1>2, <1>3, <1>4, <1>5, <1>6, <1>7, <1>8 DEF System, Peer

LEMMA NextWires ==
    ASSUME Before, EP!ListsInv, [Next]_vars PROVE WireStep
<1>1. CASE UNCHANGED vars
  BY <1>1, StillWires DEF vars, eventVars
<1> QED BY <1>1, UserWires, LoopsWires, SystemWires DEF Next

-----------------------------------------------------------------------------
\* The emits on their way to the server are later than those that have reached
\* it, and in order; Event has written them all.
ReceivedInv ==
    /\ received \in Seq(Nat)
    /\ \A i, j \in 1 .. Len(received) : i < j => received[i] < received[j]
    /\ \A i \in 1 .. Len(received) : received[i] <= Len(sent)
    /\ \A i \in 1 .. Len(uplink) : uplink[i].act = "EVENT" =>
        /\ uplink[i].what <= Len(sent)
        /\ \A j \in 1 .. Len(received) : received[j] < uplink[i].what
        /\ \A j \in 1 .. Len(uplink) :
            i < j /\ uplink[j].act = "EVENT" => uplink[i].what < uplink[j].what

LEMMA EmitNumber == ASSUME NEW m \in ToServer, m.act = "EVENT" PROVE m.what \in Nat
BY DEF ToServer

\* Some of the messages are lost; at most their number is larger later.
LEMMA FewerToReceive ==
    ASSUME uplink \in Seq(ToServer), sent \in Seq(Nat), sent' \in Seq(Nat), ReceivedInv,
           received' = received, Len(sent) <= Len(sent'),
           NEW n \in 0 .. Len(uplink), uplink' = SubSeq(uplink, 1, n)
    PROVE  ReceivedInv'
<1>1. n \in Nat /\ n <= Len(uplink) /\ Len(uplink) \in Nat
  BY LenProperties
<1>2. Len(uplink') = n /\ \A i \in 1 .. n : uplink'[i] = uplink[i] /\ i \in 1 .. Len(uplink)
  BY <1>1, L!PrefixProperties
<1>3. Len(sent) \in Nat /\ Len(sent') \in Nat
  BY LenProperties
<1>4. /\ \A i \in 1 .. Len(received) : received[i] \in Nat
      /\ \A i \in 1 .. Len(uplink) : uplink[i].act = "EVENT" => uplink[i].what \in Nat
  BY EmitNumber, ElementOfSeq DEF ReceivedInv
<1> QED BY <1>1, <1>2, <1>3, <1>4 DEF ReceivedInv

LEMMA MoreToReceive ==
    ASSUME uplink \in Seq(ToServer), sent \in Seq(Nat), sent' \in Seq(Nat), ReceivedInv,
           received' = received, Len(sent) <= Len(sent'),
           NEW m \in ToServer, uplink' = Append(uplink, m),
           m.act = "EVENT" => m.what = Len(sent') /\ Len(sent) < Len(sent')
    PROVE  ReceivedInv'
<1> DEFINE u == Len(uplink)
           r == Len(received)
<1>1. /\ u \in Nat /\ Len(uplink') = u + 1 /\ uplink'[u + 1] = m
      /\ \A i \in 1 .. u : uplink'[i] = uplink[i]
  BY AppendProperties, LenProperties
<1>2. Len(sent) \in Nat /\ Len(sent') \in Nat
  BY LenProperties
<1>3. /\ received \in Seq(Nat) /\ \A i \in 1 .. r : received[i] \in Nat /\ received[i] <= Len(sent)
      /\ \A i, j \in 1 .. r : i < j => received[i] < received[j]
      /\ \A i \in 1 .. u : uplink[i].act = "EVENT" =>
          /\ uplink[i].what \in Nat
          /\ uplink[i].what <= Len(sent)
          /\ \A j \in 1 .. r : received[j] < uplink[i].what
          /\ \A j \in 1 .. u :
              i < j /\ uplink[j].act = "EVENT" => uplink[i].what < uplink[j].what
  BY EmitNumber, ElementOfSeq DEF ReceivedInv
<1> HIDE DEF u, r
<1>4. \A i \in 1 .. u + 1 : i \in 1 .. u \/ i = u + 1
  BY <1>1
<1>5. ASSUME NEW i \in 1 .. u + 1, uplink'[i].act = "EVENT"
      PROVE  /\ uplink'[i].what <= Len(sent')
             /\ \A j \in 1 .. r : received[j] < uplink'[i].what
             /\ \A j \in 1 .. u + 1 :
                  i < j /\ uplink'[j].act = "EVENT" => uplink'[i].what < uplink'[j].what
  <2>1. CASE i \in 1 .. u
    <3>1. uplink'[i] = uplink[i]
      BY <1>1, <2>1
    <3>2. /\ uplink[i].what \in Nat /\ uplink[i].what <= Len(sent)
          /\ \A j \in 1 .. r : received[j] < uplink[i].what
      BY <1>3, <1>5, <2>1, <3>1
    <3>3. ASSUME NEW j \in 1 .. u + 1, i < j, uplink'[j].act = "EVENT"
          PROVE  uplink[i].what < uplink'[j].what
      <4>1. CASE j \in 1 .. u
        BY <1>1, <1>3, <1>5, <2>1, <3>1, <3>3, <4>1
      <4>2. CASE j = u + 1
        <5>1. uplink'[j].what = Len(sent') /\ Len(sent) < Len(sent')
          BY <1>1, <3>3, <4>2
        <5> QED BY <1>2, <3>2, <5>1
      <4> QED BY <1>4, <4>1, <4>2
    <3>4. uplink[i].what <= Len(sent')
      BY <1>2, <3>2
    <3> QED BY <3>1, <3>2, <3>3, <3>4
  <2>2. CASE i = u + 1
    <3>1. uplink'[i].what = Len(sent') /\ Len(sent) < Len(sent')
      BY <1>1, <1>5, <2>2
    <3>2. \A j \in 1 .. u + 1 : ~(i < j)
      BY <1>1, <2>2
    <3> QED BY <1>2, <1>3, <3>1, <3>2
  <2> QED BY <1>4, <2>1, <2>2
<1>6. /\ received' = received /\ Len(received') = r /\ Len(uplink') = u + 1
      /\ \A i \in 1 .. r : received[i] <= Len(sent')
  BY <1>1, <1>2, <1>3 DEF r
<1> QED BY <1>3, <1>5, <1>6 DEF ReceivedInv

\* The server gets the first of them.
LEMMA OneIsReceived ==
    ASSUME uplink \in Seq(ToServer), sent \in Seq(Nat), sent' = sent, ReceivedInv,
           uplink # <<>>, uplink' = Tail(uplink),
           \/ received' = received
           \/ Head(uplink).act = "EVENT" /\ received' = Append(received, Head(uplink).what)
    PROVE  ReceivedInv'
<1> DEFINE u == Len(uplink)
           r == Len(received)
<1>1. /\ u \in Nat \ {0} /\ Len(uplink') = u - 1 /\ Head(uplink) = uplink[1]
      /\ \A i \in 1 .. u - 1 : uplink'[i] = uplink[i + 1]
  BY HeadTailProperties, LenProperties, EmptySeq
<1>2. Len(sent) \in Nat
  BY LenProperties
<1>3. /\ received \in Seq(Nat) /\ r \in Nat
      /\ \A i \in 1 .. r : received[i] \in Nat /\ received[i] <= Len(sent)
      /\ \A i, j \in 1 .. r : i < j => received[i] < received[j]
      /\ \A i \in 1 .. u : uplink[i].act = "EVENT" =>
          /\ uplink[i].what \in Nat
          /\ uplink[i].what <= Len(sent)
          /\ \A j \in 1 .. r : received[j] < uplink[i].what
          /\ \A j \in 1 .. u :
              i < j /\ uplink[j].act = "EVENT" => uplink[i].what < uplink[j].what
  BY EmitNumber, ElementOfSeq, LenProperties DEF ReceivedInv
<1> HIDE DEF u, r
<1>4. 1 \in 1 .. u /\ \A i \in 1 .. u - 1 : i + 1 \in 1 .. u /\ 1 < i + 1
  BY <1>1
<1>5. ASSUME NEW i \in 1 .. u - 1, uplink'[i].act = "EVENT"
      PROVE  /\ uplink'[i].what <= Len(sent)
             /\ \A j \in 1 .. r : received[j] < uplink'[i].what
             /\ \A j \in 1 .. u - 1 :
                  i < j /\ uplink'[j].act = "EVENT" => uplink'[i].what < uplink'[j].what
             /\ uplink[1].act = "EVENT" => uplink[1].what < uplink'[i].what
  <2>1. \A j \in 1 .. u - 1 : i < j => i + 1 < j + 1
    BY <1>1
  <2> QED BY <1>1, <1>3, <1>4, <1>5, <2>1
<1>6. CASE received' = received
  BY <1>1, <1>2, <1>3, <1>5, <1>6 DEF ReceivedInv, u, r
<1>7. CASE uplink[1].act = "EVENT" /\ received' = Append(received, uplink[1].what)
  <2>1. uplink[1].what \in Nat /\ uplink[1].what <= Len(sent)
        /\ \A j \in 1 .. r : received[j] < uplink[1].what
    BY <1>3, <1>4, <1>7
  <2>2. /\ received' \in Seq(Nat) /\ Len(received') = r + 1
        /\ received'[r + 1] = uplink[1].what
        /\ \A i \in 1 .. r : received'[i] = received[i]
    BY <1>3, <1>7, <2>1, AppendProperties DEF r
  <2>3. \A i \in 1 .. r + 1 : i \in 1 .. r \/ i = r + 1
    BY <1>3
  <2>4. ASSUME NEW i \in 1 .. r + 1, NEW j \in 1 .. r + 1, i < j
        PROVE  received'[i] < received'[j]
    <3>1. i \in 1 .. r
      BY <1>3, <2>4
    <3> QED BY <1>3, <2>1, <2>2, <2>3, <2>4, <3>1
  <2>5. \A i \in 1 .. r + 1 : received'[i] <= Len(sent)
    BY <1>3, <2>1, <2>2, <2>3
  <2>6. ASSUME NEW i \in 1 .. u - 1, uplink'[i].act = "EVENT", NEW j \in 1 .. r + 1
        PROVE  received'[j] < uplink'[i].what
    BY <1>5, <1>7, <2>2, <2>3, <2>6
  <2> QED BY <1>1, <1>5, <2>2, <2>4, <2>5, <2>6 DEF ReceivedInv
<1> QED BY <1>1, <1>6, <1>7

\* The server takes in what was written.
LEMMA UplinkNotEmpty ==
    ASSUME ConnInv, WireTypeOK, ServerLearns PROVE uplink # <<>>
<1>1. toServer # <<>> /\ Head(toServer) = "APP"
  BY DEF ServerLearns, C!ServerConsumes, C!ServerReceives
<1>2. toServer \in Seq(K!FromClient) /\ Tail(toServer) \in Seq(K!FromClient)
  BY <1>1, Types, HeadTailProperties
<1>3. Apps(toServer) = Apps(Tail(toServer)) + 1 /\ Apps(Tail(toServer)) \in Nat
  BY <1>1, <1>2, AppsProperties
<1>4. Len(uplink) # 0
  BY <1>3 DEF WireTypeOK
<1> QED BY <1>4, EmptySeq

\* What is on its way afterwards.
LEMMA UplinkStep ==
    ASSUME Before, After', WireStep
    PROVE  \/ \E m \in ToServer : Written(m)
           \/ \E n \in 0 .. Len(uplink) : uplink' = SubSeq(uplink, 1, n) /\ received' = received
           \/ ServerLearns /\ uplink # <<>>
<1>1. /\ uplink \in Seq(ToServer) /\ Len(uplink) = Apps(toServer) /\ Apps(toServer) \in Nat
      /\ Apps(toServer') \in Nat
  BY Types DEF Before, After, PInv, WireInv, WireTypeOK
<1>2. CASE Lost
  <2>1. Apps(toServer') \in 0 .. Len(uplink)
    BY <1>1, <1>2 DEF Lost, QuietLink
  <2> QED BY <1>2, <2>1 DEF Lost, WireFollows
<1>3. CASE Still
  <2>1. SubSeq(uplink, 1, Len(uplink)) = uplink /\ Len(uplink) \in 0 .. Len(uplink)
    BY <1>1, SubSeqFull
  <2> QED BY <1>3, <2>1 DEF Still
<1>4. CASE ServerLearns
  BY <1>4, UplinkNotEmpty DEF Before, PInv, WireInv
<1> QED BY <1>2, <1>3, <1>4 DEF WireStep

LEMMA ReceivedStep ==
    ASSUME Before, After', FlushInv', WireStep, ReceivedInv PROVE ReceivedInv'
<1>1. uplink \in Seq(ToServer) /\ sent \in Seq(Nat) /\ sent' \in Seq(Nat)
      /\ Len(sent) <= Len(sent')
  BY DEF Before, PInv, WireInv, WireTypeOK, FlushInv, FlushTypeOK, WireStep
<1>2. CASE \E m \in ToServer : Written(m)
  BY <1>1, <1>2, MoreToReceive DEF Written
<1>3. CASE \E n \in 0 .. Len(uplink) : uplink' = SubSeq(uplink, 1, n) /\ received' = received
  BY <1>1, <1>3, FewerToReceive
<1>4. CASE ServerLearns /\ uplink # <<>>
  <2>1. sent' = sent
    BY <1>4 DEF ServerLearns, PeerOnly, eventVars
  <2> QED BY <1>1, <1>4, <2>1, OneIsReceived DEF ServerLearns
<1> QED BY <1>2, <1>3, <1>4, UplinkStep

\* The invariants of the parts, together.
ClientInv == ConnInv /\ PInv /\ IdsInv /\ FlushInv /\ EP!ListsInv /\ PP!PresenceInv

LEMMA ClientInit == Init => ClientInv
BY InitMaps, IdsInit, InitEvent, EventListsInit, PresenceListsInit DEF ClientInv

LEMMA ClientStep ==
    ASSUME ClientInv, [Next]_vars PROVE ClientInv' /\ WireStep
<1>1. ConnInv /\ PInv /\ IdsInv /\ FlushInv /\ EP!ListsInv /\ PP!PresenceInv /\ Lists
  BY DEF ClientInv, IdsInv
<1>2. ConnInv'
  BY <1>1, NextStep, ConnInvStep
<1>3. PInv' /\ Mapped
  BY <1>1, <1>2, NextMaps
<1>4. IdsInv'
  BY <1>1, IdsNext
<1>5. FlushInv' /\ EventMapped
  BY <1>1, <1>2, <1>3, NextEvent DEF Before, After
<1>6. EP!ListsInv'
  BY <1>1, <1>5, EventListsStep
<1>7. PP!PresenceInv'
  BY <1>1, <1>3, PresenceListsStep
<1>8. WireStep
  BY <1>1, NextWires DEF Before
<1> QED BY <1>2, <1>3, <1>4, <1>5, <1>6, <1>7, <1>8 DEF ClientInv

LEMMA ClientParts ==
    /\ ClientInv => Before /\ After
    /\ ClientInv' => FlushInv' /\ After'
BY DEF ClientInv, Before, After, IdsInv

LEMMA ReceivedInit == Init => ReceivedInv
<1>1. /\ Init => received = <<>> /\ uplink = <<>>
      /\ <<>> \in Seq(Nat) /\ Len(<<>>) = 0 /\ 1 .. 0 = {}
  BY EmptySeq DEF Init
<1> QED BY <1>1 DEF ReceivedInv

\* No emit reaches a server twice, or after a later one, whatever connections it
\* was written to.  (emit, on_connection_state_change_)
THEOREM EmitsAreReceivedInOrder == Spec => []ReceivedInOrder
<1>1. Init => ClientInv /\ ReceivedInv
  BY ClientInit, ReceivedInit
<1>2. ClientInv /\ ReceivedInv /\ [Next]_vars => ClientInv' /\ ReceivedInv'
  BY ClientStep, ClientParts, ReceivedStep
<1>3. ReceivedInv => ReceivedInOrder
  BY DEF ReceivedInv, ReceivedInOrder, E!StrictlyIncreasing
<1> QED BY <1>1, <1>2, <1>3, PTL DEF Spec

LEMMA EventTypes == EP!ListsInv => EventView!TypeOK
BY SameEventVars DEF EP!ListsInv, EP!EventInv, EP!MapTypeOK, EP!FrameTypeOK, EP!OutInv,
   EP!OutTypeOK, EP!KnownInv, EP!TypeOK

LEMMA ConnectionTypes == K!TypeOK => C!TypeOK
BY DEF C!TypeOK, K!TypeOK, C!SocketTypeOK, K!SocketTypeOK, C!WSState, K!WSState,
       C!FromServer, K!FromServer, C!FromClient, K!FromClient, C!SocketEnd, K!SocketEnd,
       C!ServerState, K!ServerState, C!ConnectionState, K!ConnectionState, C!PC, K!PC,
       C!MaxAttempts, K!MaxAttempts, C!ServerHandshake, K!ServerHandshake,
       C!ClientHandshake, K!ClientHandshake, C!ChallengeReply, K!ChallengeReply,
       C!Verdict, K!Verdict, C!AuthError, K!AuthError

\* Every variable of the client has its type, and the contents of the messages in
\* flight are as many as the messages.
THEOREM TypesAreKept == Spec => []TypeOK
<1>1. Init => ClientInv /\ ReceivedInv
  BY ClientInit, ReceivedInit
<1>2. ClientInv /\ ReceivedInv /\ [Next]_vars => ClientInv' /\ ReceivedInv'
  BY ClientStep, ClientParts, ReceivedStep
<1>3. ClientInv /\ ReceivedInv => TypeOK
  <2> SUFFICES ASSUME ClientInv, ReceivedInv PROVE TypeOK
    OBVIOUS
  <2>1. C!TypeOK
    BY ConnectionTypes DEF ClientInv, ConnInv
  <2>2. EventView!TypeOK
    BY EventTypes DEF ClientInv
  <2>3. P!TypeOK
    BY SamePresence DEF ClientInv, PP!PresenceInv
  <2>4. WireTypeOK /\ FlushTypeOK
    BY DEF ClientInv, PInv, WireInv, FlushInv
  <2> QED BY <2>1, <2>2, <2>3, <2>4 DEF TypeOK, WireTypeOK, FlushTypeOK, ReceivedInv
<1> QED BY <1>1, <1>2, <1>3, PTL DEF Spec

-----------------------------------------------------------------------------
(***************************************************************************)
(* What the server knows, with what is on its way to it, is what it was    *)
(* told.                                                                   *)
(***************************************************************************)

\* The last message of q about something decides, if there is one.
Decides(q, on, off, now) ==
    \/ \E i \in 1 .. Len(q) : q[i] = on /\ \A j \in i + 1 .. Len(q) : q[j] # off
    \/ now /\ \A i \in 1 .. Len(q) : q[i] # off

\* What one message changes.
Switch(m, on, off, now) == m = on \/ (m # off /\ now)

LEMMA DecidesNothing ==
    ASSUME NEW on, NEW off, NEW now \in BOOLEAN
    PROVE  Decides(<<>>, on, off, now) <=> now
<1>1. 1 .. Len(<<>>) = {}
  BY EmptySeq
<1> QED BY <1>1 DEF Decides

LEMMA DecidesAppend ==
    ASSUME NEW T, NEW q \in Seq(T), NEW m \in T, NEW on, NEW off, on # off, NEW now \in BOOLEAN
    PROVE  Decides(Append(q, m), on, off, now) <=> Switch(m, on, off, Decides(q, on, off, now))
<1> DEFINE a == Append(q, m)
           n == Len(q)
<1>1. /\ n \in Nat /\ Len(a) = n + 1 /\ a[n + 1] = m
      /\ \A i \in 1 .. n : a[i] = q[i]
  BY AppendProperties, LenProperties
<1> HIDE DEF a, n
<1>2. /\ n + 1 \in 1 .. n + 1
      /\ \A i \in 1 .. n + 1 : i \in 1 .. n \/ i = n + 1
      /\ \A i \in 1 .. n : i \in 1 .. n + 1 /\ n + 1 \in i + 1 .. n + 1
      /\ \A j : ~(j \in n + 1 + 1 .. n + 1)
      /\ \A i \in 1 .. n : \A j \in i + 1 .. n + 1 : j \in i + 1 .. n \/ j = n + 1
      /\ \A i \in 1 .. n : \A j \in i + 1 .. n : j \in i + 1 .. n + 1 /\ j \in 1 .. n
  BY <1>1
<1> DEFINE D == \/ \E i \in 1 .. n : q[i] = on /\ \A j \in i + 1 .. n : q[j] # off
                \/ now /\ \A i \in 1 .. n : q[i] # off
           A == \/ \E i \in 1 .. n + 1 : a[i] = on /\ \A j \in i + 1 .. n + 1 : a[j] # off
                \/ now /\ \A i \in 1 .. n + 1 : a[i] # off
<1>3. m = on => A
  BY <1>1, <1>2
<1>4. m = off => ~A
  BY <1>1, <1>2
<1>5. m # off /\ D => A
  <2>1. ASSUME NEW i \in 1 .. n, q[i] = on, \A j \in i + 1 .. n : q[j] # off, m # off
        PROVE  i \in 1 .. n + 1 /\ a[i] = on /\ \A j \in i + 1 .. n + 1 : a[j] # off
    BY <1>1, <1>2, <2>1
  <2>2. (\A i \in 1 .. n : q[i] # off) /\ m # off => \A i \in 1 .. n + 1 : a[i] # off
    BY <1>1, <1>2
  <2> QED BY <2>1, <2>2
<1>6. m # on /\ A => D
  <2>1. ASSUME NEW i \in 1 .. n + 1, a[i] = on, \A j \in i + 1 .. n + 1 : a[j] # off, m # on
        PROVE  i \in 1 .. n /\ q[i] = on /\ \A j \in i + 1 .. n : q[j] # off
    BY <1>1, <1>2, <2>1
  <2>2. (\A i \in 1 .. n + 1 : a[i] # off) => \A i \in 1 .. n : q[i] # off
    BY <1>1, <1>2
  <2> QED BY <2>1, <2>2
<1>7. A <=> (m = on \/ (m # off /\ D))
  BY <1>3, <1>4, <1>5, <1>6
<1>8. (Decides(a, on, off, now) <=> A) /\ (Decides(q, on, off, now) <=> D)
  BY <1>1 DEF Decides, n
<1> QED BY <1>7, <1>8 DEF Switch, a

\* Who takes the first message in is left with what decides already.
LEMMA DecidesTail ==
    ASSUME NEW T, NEW q \in Seq(T), q # <<>>, NEW on, NEW off, on # off, NEW now \in BOOLEAN
    PROVE  Decides(Tail(q), on, off, Switch(Head(q), on, off, now)) <=> Decides(q, on, off, now)
<1> DEFINE t == Tail(q)
           n == Len(q)
           h == q[1]
<1>1. /\ n \in Nat \ {0} /\ Len(t) = n - 1 /\ Head(q) = h
      /\ \A i \in 1 .. n - 1 : t[i] = q[i + 1]
  BY HeadTailProperties, LenProperties, EmptySeq
<1> HIDE DEF t, n
<1>2. /\ 1 \in 1 .. n
      /\ \A i \in 1 .. n - 1 : i + 1 \in 1 .. n /\ i + 1 # 1
      /\ \A i \in 1 .. n : i = 1 \/ (i - 1 \in 1 .. n - 1 /\ (i - 1) + 1 = i)
      /\ \A i \in 1 .. n - 1 : \A j \in i + 1 .. n - 1 : j + 1 \in (i + 1) + 1 .. n
      /\ \A i \in 1 .. n - 1 : \A j \in (i + 1) + 1 .. n :
              j - 1 \in i + 1 .. n - 1 /\ j - 1 \in 1 .. n - 1 /\ (j - 1) + 1 = j
      /\ \A j \in 1 .. n - 1 : j + 1 \in 1 + 1 .. n
      /\ \A j \in 1 + 1 .. n : j - 1 \in 1 .. n - 1 /\ (j - 1) + 1 = j
      /\ \A i \in 1 .. n - 1 : \A j \in i + 1 .. n - 1 : j \in 1 .. n - 1
  BY <1>1
<1> DEFINE First == h = on \/ (h # off /\ now)
           TD == \E i \in 1 .. n - 1 : t[i] = on /\ \A j \in i + 1 .. n - 1 : t[j] # off
           TN == \A i \in 1 .. n - 1 : t[i] # off
           QD == \E i \in 1 .. n : q[i] = on /\ \A j \in i + 1 .. n : q[j] # off
           QN == \A i \in 1 .. n : q[i] # off
<1>3. QN <=> h # off /\ TN
  <2>1. ASSUME QN, NEW i \in 1 .. n - 1 PROVE t[i] # off
    <3>1. i + 1 \in 1 .. n /\ t[i] = q[i + 1]
      BY <1>1, <1>2
    <3> QED BY <2>1, <3>1
  <2>2. ASSUME h # off, TN, NEW i \in 1 .. n, i # 1 PROVE q[i] # off
    <3>1. i - 1 \in 1 .. n - 1 /\ t[i - 1] = q[i]
      BY <1>1, <1>2, <2>2
    <3> QED BY <2>2, <3>1
  <2> QED BY <1>2, <2>1, <2>2
<1>4. h = on /\ TN => QD
  <2>1. ASSUME TN, NEW j \in 1 + 1 .. n PROVE q[j] # off
    <3>1. t[j - 1] # off /\ t[j - 1] = q[j]
      BY <1>1, <1>2, <2>1
    <3> QED BY <3>1
  <2> QED BY <1>2, <2>1
<1>5. ASSUME TD PROVE QD
  <2>1. PICK i \in 1 .. n - 1 : t[i] = on /\ \A j \in i + 1 .. n - 1 : t[j] # off
    BY <1>5
  <2>2. ASSUME NEW j \in (i + 1) + 1 .. n PROVE q[j] # off
    <3>1. j - 1 \in i + 1 .. n - 1 /\ t[j - 1] = q[j]
      BY <1>1, <1>2
    <3> QED BY <2>1, <3>1
  <2> QED BY <1>1, <1>2, <2>1, <2>2
<1>6. ASSUME QD PROVE TD \/ (h = on /\ TN)
  <2>1. PICK i \in 1 .. n : q[i] = on /\ \A j \in i + 1 .. n : q[j] # off
    BY <1>6
  <2>2. CASE i = 1
    <3>1. ASSUME NEW j \in 1 .. n - 1 PROVE t[j] # off
      BY <1>1, <1>2, <2>1, <2>2
    <3> QED BY <2>1, <2>2, <3>1
  <2>3. CASE i # 1
    <3>1. i - 1 \in 1 .. n - 1 /\ t[i - 1] = on
      BY <1>1, <1>2, <2>1, <2>3
    <3>2. ASSUME NEW j \in (i - 1) + 1 .. n - 1 PROVE t[j] # off
      <4>1. j + 1 \in i + 1 .. n /\ j \in 1 .. n - 1
        BY <1>2, <2>3, <3>1
      <4>2. t[j] = q[j + 1]
        BY <1>1, <4>1
      <4> QED BY <2>1, <4>1, <4>2
    <3> QED BY <3>1, <3>2
  <2> QED BY <2>2, <2>3
<1>7. (TD \/ (First /\ TN)) <=> (QD \/ (now /\ QN))
  BY <1>3, <1>4, <1>5, <1>6
<1>8. (Decides(q, on, off, now) <=> QD \/ (now /\ QN))
      /\ (Decides(t, on, off, First) <=> TD \/ (First /\ TN))
  BY <1>1 DEF Decides, n
<1> QED BY <1>1, <1>7, <1>8 DEF Switch, t

LEMMA LearnSwitches ==
    ASSUME NEW view \in View, NEW m \in ToServer
    PROVE  /\ \A name : name \in Learn(view, m).subs <=>
                Switch(m, Msg("SUBSCRIBE", name), Msg("UNSUBSCRIBE", name), name \in view.subs)
           /\ \A pattern : pattern \in Learn(view, m).listens <=>
                Switch(m, Msg("LISTEN", pattern), Msg("UNLISTEN", pattern), pattern \in view.listens)
           /\ Learn(view, m).subscribed <=>
                Switch(m, Msg("U|S", "-"), Msg("U|US", "-"), view.subscribed)
<1>1. /\ m = Msg(m.act, m.what)
      /\ m.act # "UNLISTEN"
      /\ m.act \in {"U|S", "U|US"} => m.what = "-"
  BY DEF ToServer, Msg
<1>2. \A act, what : m = Msg(act, what) <=> m.act = act /\ m.what = what
  BY <1>1 DEF Msg
<1>3. Learn(view, m).subscribed <=> Switch(m, Msg("U|S", "-"), Msg("U|US", "-"), view.subscribed)
  <2>1. /\ m.act = "U|S" => Learn(view, m).subscribed = TRUE
        /\ m.act = "U|US" => Learn(view, m).subscribed = FALSE
        /\ m.act \notin {"U|S", "U|US"} => Learn(view, m).subscribed = view.subscribed
    BY LearnProperties
  <2>2. (m = Msg("U|S", "-") <=> m.act = "U|S") /\ (m = Msg("U|US", "-") <=> m.act = "U|US")
    BY <1>1, <1>2
  <2> QED BY <2>1, <2>2 DEF Switch
<1>4. ASSUME NEW name
      PROVE  name \in Learn(view, m).subs <=>
                Switch(m, Msg("SUBSCRIBE", name), Msg("UNSUBSCRIBE", name), name \in view.subs)
  BY <1>2, LearnLists DEF Switch
<1>5. ASSUME NEW pattern
      PROVE  pattern \in Learn(view, m).listens <=>
                Switch(m, Msg("LISTEN", pattern), Msg("UNLISTEN", pattern), pattern \in view.listens)
  BY <1>1, <1>2, LearnLists DEF Switch
<1> QED BY <1>3, <1>4, <1>5

\* Who knows v and takes in the messages of u will know w.
Agrees(u, v, w) ==
    /\ \A name \in Names :
        Decides(u, Msg("SUBSCRIBE", name), Msg("UNSUBSCRIBE", name), name \in v.subs)
            <=> name \in w.subs
    /\ \A pattern \in Patterns :
        Decides(u, Msg("LISTEN", pattern), Msg("UNLISTEN", pattern), pattern \in v.listens)
            <=> pattern \in w.listens
    /\ Decides(u, Msg("U|S", "-"), Msg("U|US", "-"), v.subscribed) <=> w.subscribed

LEMMA OnIsNotOff ==
    /\ \A what : Msg("SUBSCRIBE", what) # Msg("UNSUBSCRIBE", what)
    /\ \A what : Msg("LISTEN", what) # Msg("UNLISTEN", what)
    /\ \A what : Msg("U|S", what) # Msg("U|US", what)
BY DEF Msg

LEMMA AgreesNothing ==
    ASSUME NEW v \in View, SameView(Nothing, v)
    PROVE  Agrees(<<>>, v, Nothing)
<1>1. v.subs = {} /\ v.listens = {} /\ v.subscribed = FALSE
  BY DEF SameView, Nothing
<1>2. /\ \A on, off : Decides(<<>>, on, off, FALSE) <=> FALSE
      /\ \A x : x \in {} <=> FALSE
  BY DecidesNothing
<1>3. /\ \A name : (name \in v.subs) = FALSE
      /\ \A pattern : (pattern \in v.listens) = FALSE
  BY <1>1
<1> QED BY <1>1, <1>2, <1>3 DEF Agrees, Nothing

LEMMA AgreesSame ==
    ASSUME NEW u, NEW v, NEW w, NEW v2, NEW w2, SameView(v, v2), SameView(w, w2), Agrees(u, v, w)
    PROVE  Agrees(u, v2, w2)
BY DEF Agrees, SameView

LEMMA AgreesAppend ==
    ASSUME NEW u \in Seq(ToServer), NEW v \in View, NEW w \in View, NEW m \in ToServer,
           Agrees(u, v, w)
    PROVE  Agrees(Append(u, m), v, Learn(w, m))
<1>1. ASSUME NEW name \in Names
      PROVE  Decides(Append(u, m), Msg("SUBSCRIBE", name), Msg("UNSUBSCRIBE", name), name \in v.subs)
                <=> name \in Learn(w, m).subs
  <2> DEFINE on == Msg("SUBSCRIBE", name)
             off == Msg("UNSUBSCRIBE", name)
             now == name \in v.subs
  <2>1. Decides(Append(u, m), on, off, now) <=> Switch(m, on, off, Decides(u, on, off, now))
    <3>1. on # off /\ now \in BOOLEAN
      BY OnIsNotOff
    <3> HIDE DEF on, off, now
    <3> QED BY <3>1, DecidesAppend
  <2>2. Decides(u, on, off, now) <=> name \in w.subs
    BY DEF Agrees
  <2> QED BY <2>1, <2>2, LearnSwitches DEF Switch
<1>2. ASSUME NEW pattern \in Patterns
      PROVE  Decides(Append(u, m), Msg("LISTEN", pattern), Msg("UNLISTEN", pattern), pattern \in v.listens)
                <=> pattern \in Learn(w, m).listens
  <2> DEFINE on == Msg("LISTEN", pattern)
             off == Msg("UNLISTEN", pattern)
             now == pattern \in v.listens
  <2>1. Decides(Append(u, m), on, off, now) <=> Switch(m, on, off, Decides(u, on, off, now))
    <3>1. on # off /\ now \in BOOLEAN
      BY OnIsNotOff
    <3> HIDE DEF on, off, now
    <3> QED BY <3>1, DecidesAppend
  <2>2. Decides(u, on, off, now) <=> pattern \in w.listens
    BY DEF Agrees
  <2> QED BY <2>1, <2>2, LearnSwitches DEF Switch
<1>3. Decides(Append(u, m), Msg("U|S", "-"), Msg("U|US", "-"), v.subscribed)
        <=> Learn(w, m).subscribed
  <2> DEFINE on == Msg("U|S", "-")
             off == Msg("U|US", "-")
  <2>1. Decides(Append(u, m), on, off, v.subscribed)
          <=> Switch(m, on, off, Decides(u, on, off, v.subscribed))
    BY OnIsNotOff, DecidesAppend DEF View
  <2>2. Decides(u, on, off, v.subscribed) <=> w.subscribed
    BY DEF Agrees
  <2> QED BY <2>1, <2>2, LearnSwitches DEF Switch
<1> QED BY <1>1, <1>2, <1>3 DEF Agrees

LEMMA AgreesTail ==
    ASSUME NEW u \in Seq(ToServer), u # <<>>, NEW v \in View, NEW w \in View, Agrees(u, v, w)
    PROVE  Agrees(Tail(u), Learn(v, Head(u)), w)
<1> DEFINE m == Head(u)
<1>0. m \in ToServer
  BY HeadTailProperties
<1>1. ASSUME NEW name \in Names
      PROVE  Decides(Tail(u), Msg("SUBSCRIBE", name), Msg("UNSUBSCRIBE", name), name \in Learn(v, m).subs)
                <=> name \in w.subs
  <2> DEFINE on == Msg("SUBSCRIBE", name)
             off == Msg("UNSUBSCRIBE", name)
             now == name \in v.subs
  <2>1. Decides(Tail(u), on, off, Switch(m, on, off, now)) <=> Decides(u, on, off, now)
    <3>1. on # off /\ now \in BOOLEAN
      BY OnIsNotOff
    <3> HIDE DEF on, off, now
    <3> QED BY <1>0, <3>1, DecidesTail
  <2>2. Decides(u, on, off, now) <=> name \in w.subs
    BY DEF Agrees
  <2>3. (name \in Learn(v, m).subs) = Switch(m, on, off, now)
    BY <1>0, LearnSwitches DEF Switch
  <2> QED BY <2>1, <2>2, <2>3
<1>2. ASSUME NEW pattern \in Patterns
      PROVE  Decides(Tail(u), Msg("LISTEN", pattern), Msg("UNLISTEN", pattern), pattern \in Learn(v, m).listens)
                <=> pattern \in w.listens
  <2> DEFINE on == Msg("LISTEN", pattern)
             off == Msg("UNLISTEN", pattern)
             now == pattern \in v.listens
  <2>1. Decides(Tail(u), on, off, Switch(m, on, off, now)) <=> Decides(u, on, off, now)
    <3>1. on # off /\ now \in BOOLEAN
      BY OnIsNotOff
    <3> HIDE DEF on, off, now
    <3> QED BY <1>0, <3>1, DecidesTail
  <2>2. Decides(u, on, off, now) <=> pattern \in w.listens
    BY DEF Agrees
  <2>3. (pattern \in Learn(v, m).listens) = Switch(m, on, off, now)
    BY <1>0, LearnSwitches DEF Switch
  <2> QED BY <2>1, <2>2, <2>3
<1>3. Decides(Tail(u), Msg("U|S", "-"), Msg("U|US", "-"), Learn(v, m).subscribed) <=> w.subscribed
  <2> DEFINE on == Msg("U|S", "-")
             off == Msg("U|US", "-")
             now == v.subscribed
  <2>1. Decides(Tail(u), on, off, Switch(m, on, off, now)) <=> Decides(u, on, off, now)
    BY OnIsNotOff, DecidesTail DEF View
  <2>2. Decides(u, on, off, now) <=> w.subscribed
    BY DEF Agrees
  <2>3. Learn(v, m).subscribed = Switch(m, on, off, now)
    <3>1. Learn(v, m).subscribed \in BOOLEAN
      BY <1>0, LearnProperties DEF View
    <3> QED BY <1>0, <3>1, LearnSwitches DEF Switch
  <2> QED BY <2>1, <2>2, <2>3
<1> QED BY <1>1, <1>2, <1>3 DEF Agrees

\* A connection that nothing disturbs was undisturbed before, or is new.
LEMMA UndisturbedBefore ==
    ASSUME [C!Next]_(C!vars), C!Undisturbed' PROVE C!Undisturbed \/ C!OpenSucceeds
<1> USE DEF C!Undisturbed, C!NoSocketUse, C!socketVars, C!stackVars, C!Receive
<1>1. ASSUME NEW s, NEW m, C!SendIn(s, m), tainted' \/ ~tainted PROVE C!Undisturbed
  BY <1>1 DEF C!SendIn, C!SendSucceeds, C!SendFails, C!SocketSends, C!SocketFailsToSend
<1>2. CASE C!Opening
  BY <1>2 DEF C!Opening, C!OpenFails, C!SocketFailsToOpen
<1>3. CASE C!User
  <2>1. ASSUME NEW callback \in Callbacks, C!Login(callback) PROVE C!Undisturbed
    BY <1>1, <2>1 DEF C!Login
  <2>2. ASSUME C!Close PROVE FALSE
    BY <2>2 DEF C!Close, C!CloseSocket, C!SocketCloses
  <2>3. ASSUME NEW ok \in BOOLEAN, C!SendApp(ok) PROVE C!Undisturbed
    BY <1>1, <2>3 DEF C!SendApp, C!SendIn
  <2>4. ASSUME C!CallbackThrows PROVE C!Undisturbed
    BY <2>4 DEF C!CallbackThrows
  <2> QED BY <1>3, <2>1, <2>2, <2>3, <2>4 DEF C!User
<1>4. CASE C!ProcessMessages \/ C!Reading
  BY <1>4 DEF C!ProcessMessages, C!Reading, C!ReadFrame, C!SocketReads, C!ReadEnd,
     C!SocketReadsEnd, C!ReadPauses
<1>5. CASE C!Dispatching
  <2>0. ASSUME tainted' = (tainted \/ stale) PROVE ~tainted
    BY <2>0
  <2>1. ASSUME C!HandlePing \/ C!HandleChallenge \/ C!HandleChallengeAccepted
        PROVE  C!Undisturbed
    <3>1. tainted' = (tainted \/ stale)
      BY <2>1 DEF C!HandlePing, C!HandleChallenge, C!HandleChallengeAccepted
    <3>2. UNCHANGED <<ws, opening>> \/ \E s, m : C!SendIn(s, m)
      BY <2>1 DEF C!HandlePing, C!HandleChallenge, C!HandleChallengeAccepted
    <3> QED BY <1>1, <2>0, <3>1, <3>2
  <2>2. ASSUME C!HandleRedirect \/ C!HandleReject \/ C!HandleAuthAck \/ C!HandleApp
               \/ C!OnMessageReturns
        PROVE  C!Undisturbed
    <3>1. tainted' = (tainted \/ stale) \/ tainted' = tainted
      BY <2>2 DEF C!HandleRedirect, C!HandleReject, C!HandleAuthAck, C!HandleApp,
         C!OnMessageReturns
    <3>2. UNCHANGED <<ws, opening>>
      BY <2>2 DEF C!HandleRedirect, C!HandleReject, C!HandleAuthAck, C!HandleApp,
         C!OnMessageReturns
    <3> QED BY <2>0, <3>1, <3>2
  <2>3. ASSUME C!HandleAuthError PROVE FALSE
    BY <2>3 DEF C!HandleAuthError, C!CloseSocket, C!SocketCloses
  <2> QED BY <1>5, <2>1, <2>2, <2>3 DEF C!Dispatching
<1>6. CASE C!Returns
  BY <1>6 DEF C!Returns, C!ConstructorReturns, C!LoginCallbackReturns, C!CallbacksReturn
<1>7. CASE C!Peer
  BY <1>7 DEF C!Peer, C!ServerAnswers, C!ServerAnswersChallenge, C!ServerAnswersLogin,
     C!ServerConsumes, C!ServerReceives, C!ServerSends, C!LinkEnds
<1>8. CASE UNCHANGED C!vars
  BY <1>8 DEF C!vars
<1> QED BY <1>2, <1>3, <1>4, <1>5, <1>6, <1>7, <1>8 DEF C!Next

\* While a socket is opened there is no server.
LEMMA NoServerYet ==
    ASSUME [C!Next]_(C!vars), opening => srv = "none" PROVE opening' => srv' = "none"
<1> USE DEF C!NoSocketUse, C!socketVars, C!stackVars, C!Running, C!UserRuns, C!DropSocket
<1>1. ASSUME NEW s, NEW m, C!SendIn(s, m) PROVE opening' => opening \/ srv' = "none"
  BY <1>1 DEF C!SendIn, C!SendSucceeds, C!SendFails, C!SocketFailsToSend
<1>2. CASE C!Opening
  BY <1>2 DEF C!Opening, C!OpenSucceeds, C!OpenFails, C!SocketFailsToOpen
<1>3. CASE C!User
  <2>1. ASSUME NEW callback \in Callbacks, C!Login(callback) PROVE opening' => srv' = "none"
    BY <1>1, <2>1 DEF C!Login
  <2>2. ASSUME C!Close \/ C!CallbackThrows PROVE opening' => srv' = "none"
    BY <2>2 DEF C!Close, C!CloseSocket, C!SocketCloses, C!CallbackThrows
  <2>3. ASSUME NEW ok \in BOOLEAN, C!SendApp(ok) PROVE opening' => srv' = "none"
    BY <1>1, <2>3 DEF C!SendApp, C!SendIn
  <2> QED BY <1>3, <2>1, <2>2, <2>3 DEF C!User
<1>4. CASE C!ProcessMessages \/ C!Reading
  BY <1>4 DEF C!ProcessMessages, C!Reading, C!ReadFrame, C!SocketReads, C!ReadEnd,
     C!SocketReadsEnd, C!ReadPauses
<1>5. CASE C!Dispatching
  <2> USE DEF C!Receive, C!Upcoming
  <2>1. ASSUME C!HandlePing \/ C!HandleChallenge \/ C!HandleChallengeAccepted
        PROVE  opening' => srv' = "none"
    BY <1>1, <2>1 DEF C!HandlePing, C!HandleChallenge, C!HandleChallengeAccepted
  <2>2. ASSUME C!HandleRedirect \/ C!HandleReject \/ C!HandleAuthAck \/ C!HandleApp
               \/ C!OnMessageReturns \/ C!HandleAuthError
        PROVE  opening' => srv' = "none"
    BY <2>2 DEF C!HandleRedirect, C!HandleReject, C!HandleAuthAck, C!HandleApp,
       C!OnMessageReturns, C!HandleAuthError, C!CloseSocket, C!SocketCloses
  <2> QED BY <1>5, <2>1, <2>2 DEF C!Dispatching
<1>6. CASE C!Returns
  BY <1>6 DEF C!Returns, C!ConstructorReturns, C!LoginCallbackReturns, C!CallbacksReturn
<1>7. CASE C!Peer
  BY <1>7 DEF C!Peer, C!ServerAnswers, C!ServerAnswersChallenge, C!ServerAnswersLogin,
     C!ServerConsumes, C!ServerReceives, C!ServerSends, C!LinkEnds, C!LinkUp
<1>8. CASE UNCHANGED C!vars
  BY <1>8 DEF C!vars
<1> QED BY <1>2, <1>3, <1>4, <1>5, <1>6, <1>7, <1>8 DEF C!Next

\* What was told decides what the server will know; a server that is gone knows
\* nothing.
ToldInv ==
    /\ srv = "none" => SameView(Nothing, known)
    /\ opening => srv = "none"
    /\ C!Undisturbed => Agrees(uplink, known, told)

LEMMA ToldKept ==
    ASSUME ClientInv, ClientInv', WireStep, [Next]_vars, K!OpenMeansAuthenticated, ToldInv,
           C!Undisturbed'
    PROVE  Agrees(uplink', known', told')
<1>1. /\ Before /\ After' /\ ConnInv /\ ConnInv' /\ WireInv /\ WireInv'
      /\ uplink \in Seq(ToServer) /\ Len(uplink) = Apps(toServer)
      /\ told \in View /\ known \in View
  BY ClientParts DEF ClientInv, PInv, WireInv, WireTypeOK
<1>2. [C!Next]_(C!vars)
  BY NextStep, SameNext, SameVars
<1>3. srv' # "none"
  BY <1>1 DEF ConnInv, C!Undisturbed
<1>4. CASE C!OpenSucceeds
  <2>1. opening /\ toServer' = <<>> /\ srv = "none"
    BY <1>4 DEF C!OpenSucceeds, C!SocketOpens, ToldInv
  <2>2. uplink' = <<>>
    <3>1. Len(uplink') = 0 /\ uplink' \in Seq(ToServer)
      BY <1>1, <2>1, AppsProperties DEF WireInv, WireTypeOK
    <3> QED BY <3>1, EmptySeq
  <2>3. SameView(Nothing, known) /\ told = Nothing
    BY <1>1, <2>1 DEF ToldInv, WireInv, AnswersCounted, Online
  <2>4. known' = known /\ told' = told
    <3>1. ~ServerLearns
      BY <2>1 DEF ServerLearns, C!ServerConsumes, C!ServerReceives, C!LinkUp
    <3>2. \A m \in ToServer : ~Written(m)
      BY <2>1 DEF Written, C!SendApp, C!UserRuns, C!Running
    <3>3. ~Still
      BY <1>3, <2>1 DEF Still
    <3> QED BY <1>3, <3>1, <3>2, <3>3 DEF WireStep, Lost, WireFollows
  <2> QED BY <1>1, <2>2, <2>3, <2>4, AgreesNothing
<1>5. CASE C!Undisturbed
  <2>0. Agrees(uplink, known, told) /\ ~opening
    BY <1>5 DEF ToldInv, C!Undisturbed
  <2>1. ASSUME NEW m \in ToServer, Written(m) PROVE Agrees(uplink', known', told')
    BY <1>1, <2>0, <2>1, AgreesAppend DEF Written
  <2>2. CASE Lost
    <3>1. UNCHANGED <<told, known>> /\ uplink' = SubSeq(uplink, 1, Apps(toServer'))
          /\ Apps(toServer') = Apps(toServer)
      BY <1>3, <2>0, <2>2 DEF Lost, WireFollows, QuietLink
    <3>2. uplink' = uplink
      BY <1>1, <3>1, SubSeqFull
    <3> QED BY <2>0, <3>1, <3>2
  <2>3. CASE Still
    BY <2>0, <2>3, AgreesSame DEF Still
  <2>4. CASE ServerLearns
    <3>1. uplink # <<>>
      BY <1>1, <2>4, UplinkNotEmpty DEF WireInv
    <3>2. toServer # <<>> /\ Head(toServer) = "APP"
      BY <2>4 DEF ServerLearns, C!ServerConsumes, C!ServerReceives
    <3>3. 1 \in 1 .. Len(toServer) /\ toServer[1] = "APP"
      <4>1. toServer \in Seq(K!FromClient)
        BY <1>1, Types
      <4> QED BY <3>2, <4>1, HeadTailProperties, EmptySeq, LenProperties
    <3>4. srv = "authed"
      BY <1>5, <3>3 DEF K!OpenMeansAuthenticated, K!Undisturbed, C!Undisturbed
    <3> QED BY <1>1, <2>0, <2>4, <3>1, <3>4, AgreesTail DEF ServerLearns
  <2> QED BY <2>1, <2>2, <2>3, <2>4 DEF WireStep
<1> QED BY <1>2, <1>4, <1>5, UndisturbedBefore

LEMMA ToldStep ==
    ASSUME ClientInv, ClientInv', WireStep, [Next]_vars, K!OpenMeansAuthenticated, ToldInv
    PROVE  ToldInv'
<1>1. srv' = "none" => SameView(Nothing, known')
  <2>1. SameView(Nothing, Nothing) /\ \A v : SameView(Nothing, known) /\ SameView(known, v)
                                                => SameView(Nothing, v)
    BY DEF SameView
  <2>2. CASE Lost
    BY <2>1, <2>2 DEF Lost, WireFollows
  <2>3. CASE Still
    BY <2>1, <2>3 DEF Still, ToldInv
  <2>4. CASE ServerLearns
    BY <2>4 DEF ServerLearns, C!ServerConsumes, C!ServerReceives, C!LinkUp
  <2>5. CASE \E m \in ToServer : Written(m)
    BY <2>5 DEF Written, C!SendApp, C!SendSucceeds, C!SocketSends, ToldInv
  <2> QED BY <2>2, <2>3, <2>4, <2>5 DEF WireStep
<1>2. opening' => srv' = "none"
  BY NextStep, NoServerYet DEF ToldInv
<1> QED BY <1>1, <1>2, ToldKept DEF ToldInv, SameView

KnowsInv == ClientInv /\ K!Frames /\ K!Lockstep /\ ToldInv

LEMMA KnowsInit == Init => KnowsInv
<1> SUFFICES ASSUME Init PROVE KnowsInv
  OBVIOUS
<1>1. K!Frames /\ K!Lockstep
  BY DEF Init, C!Init, C!SocketInit, K!Frames, K!Lockstep, K!Undisturbed
<1>2. ToldInv
  BY DEF Init, C!Init, C!SocketInit, ToldInv, C!Undisturbed, SameView
<1> QED BY <1>1, <1>2, ClientInit DEF KnowsInv

LEMMA KnowsStep ==
    ASSUME KnowsInv, [Next]_vars PROVE KnowsInv'
<1>1. ClientInv /\ ClientInv' /\ WireStep /\ K!TypeOK
  BY ClientStep DEF KnowsInv, ClientInv, ConnInv
<1>2. K!Frames' /\ K!Lockstep'
  BY <1>1, NextStep, SameNext, SameVars, ConnectionAssumptions, K!FramesStep, K!LockstepStep
     DEF KnowsInv
<1>3. K!OpenMeansAuthenticated
  BY DEF KnowsInv, K!Lockstep, K!ReceiversAwaitIt, K!StatesAgree, K!OpenMeansAuthenticated
<1> QED BY <1>1, <1>2, <1>3, ToldStep DEF KnowsInv

\* Once it has taken in what is on its way, the server of an open client that no
\* stale message disturbed knows every subscription and every listener, and no
\* presence subscription that is gone.  (the flush, Event::subscribe,
\* Presence::unsubscribe)
THEOREM ServerGetsToKnow == Spec => []ServerWillKnow
<1>1. KnowsInv => ServerWillKnow
  <2> SUFFICES ASSUME KnowsInv, C!Undisturbed, EventOnline PROVE ServerWillKnow
    BY DEF ServerWillKnow
  <2>1. Agrees(uplink, known, told)
    BY DEF KnowsInv, ToldInv
  <2>2. \A on, off, what, now :
            WillHold(on, off, what, now) = Decides(uplink, Msg(on, what), Msg(off, what), now)
    BY DEF WillHold, Decides
  <2>3. E!Subscribed \subseteq told.subs /\ listener_map_ \subseteq told.listens
    <3>1. EP!ServerKnowsSubscriptions
      BY DEF KnowsInv, ClientInv, EP!ListsInv, EP!EventInv, EP!KnownInv
    <3> QED BY <3>1 DEF EP!ServerKnowsSubscriptions, EP!Subscribed, E!Subscribed, EventSession
  <2>4. told.subscribed => subscribers_ # <<>>
    <3>1. PP!NoOrphanSubscription /\ Online
      BY DEF KnowsInv, ClientInv, PP!PresenceInv, EventOnline
    <3> QED BY <3>1 DEF PP!NoOrphanSubscription, PresenceSession
  <2>5. E!Subscribed \subseteq Names /\ listener_map_ \subseteq Patterns
    BY DEF E!Subscribed, KnowsInv, ClientInv, FlushInv, FlushTypeOK
  <2> QED BY <2>1, <2>2, <2>3, <2>4, <2>5 DEF Agrees, ServerWillKnow
<1> QED BY <1>1, KnowsInit, KnowsStep, PTL DEF Spec
================================================================================
