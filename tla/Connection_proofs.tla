------------------------- MODULE Connection_proofs --------------------------
(***************************************************************************)
(* Theorems about module Connection, for any number of messages in flight  *)
(* and any sets of answers, callbacks and exceptions.                      *)
(*                                                                         *)
(* First the types, close() and the retries, then the handshake: client    *)
(* and server are in lockstep, and an OPEN client is authenticated.        *)
(***************************************************************************)
EXTENDS Connection, SequenceTheorems, TLAPS

-----------------------------------------------------------------------------
(***************************************************************************)
(* The transition tables are total functions on the states.                *)
(***************************************************************************)
LEMMA TransitionTypes ==
    ASSUME NEW s \in ConnectionState, NEW m
    PROVE  /\ transition_incoming(s, m) \in ConnectionState
           /\ transition_outgoing(s, m) \in ConnectionState
BY DEF transition_incoming, transition_outgoing, ConnectionState

LEMMA SendAppSends ==
    ASSUME NEW ok \in BOOLEAN, SendApp(ok)
    PROVE  /\ SendIn(state, "APP") /\ state = "OPEN"
           /\ UNCHANGED <<deliberate_close, login, pc, batch, tainted>>
BY DEF SendApp, SendIn

\* Shared by the actions that send: what they change stays in its type.
LEMMA SendInType ==
    ASSUME TypeOK, NEW s \in ConnectionState, NEW m \in FromClient, SendIn(s, m)
    PROVE  /\ SocketTypeOK'
           /\ state' \in ConnectionState
           /\ reconnection_attempt' \in 0 .. MaxAttempts
           /\ opening' \in BOOLEAN
           /\ stale' \in BOOLEAN
<1>1. CASE SocketSends(m) /\ state' = s /\ UNCHANGED <<reconnection_attempt, opening, stale>>
  BY <1>1 DEF SocketSends, TypeOK, SocketTypeOK
<1>2. CASE SocketFailsToSend /\ on_close
  BY <1>2 DEF SocketFailsToSend, DropSocket, on_close, GiveUpOrReopen, TypeOK,
              SocketTypeOK, WSState, ServerState, ConnectionState, MaxAttempts
<1> QED BY <1>1, <1>2 DEF SendIn, SendSucceeds, SendFails

\* The socket's part of the type invariant, for the steps of the peer.
LEMMA PeerType ==
    ASSUME TypeOK, ServerAnswers \/ ServerSends(InFlight) \/ LinkEnds
    PROVE  SocketTypeOK'
<1> USE DEF TypeOK, SocketTypeOK, FromServer, ServerHandshake, ChallengeReply,
            Verdict, AuthError, SocketEnd, ServerState, WSState
<1>1. CASE ServerAnswersChallenge
  BY <1>1, RepliesAssumption DEF ServerAnswersChallenge, ServerReceives
<1>2. CASE ServerAnswersLogin
  BY <1>2, VerdictsAssumption DEF ServerAnswersLogin, ServerReceives
<1>3. CASE ServerConsumes
  BY <1>3 DEF ServerConsumes, ServerReceives
<1>4. CASE ServerSends(InFlight)
  BY <1>4 DEF ServerSends
<1>5. CASE LinkEnds
  BY <1>5 DEF LinkEnds
<1> QED BY <1>1, <1>2, <1>3, <1>4, <1>5 DEF ServerAnswers

LEMMA TypeInit == Init => TypeOK
<1> SUFFICES ASSUME Init PROVE TypeOK
  OBVIOUS
<1>1. SocketTypeOK
  BY DEF Init, SocketInit, SocketTypeOK, WSState, ServerState
<1>2. /\ state \in ConnectionState
      /\ pc \in PC
      /\ login \in {"none", "fn", "empty"}
  BY DEF Init, ConnectionState, PC
<1>3. reconnection_attempt \in 0 .. MaxAttempts /\ batch \in Seq(FromServer)
  BY DEF Init, MaxAttempts
<1>4. /\ deliberate_close \in BOOLEAN /\ opening \in BOOLEAN
      /\ stale \in BOOLEAN /\ tainted \in BOOLEAN
  BY DEF Init
<1> QED BY <1>1, <1>2, <1>3, <1>4 DEF TypeOK

LEMMA TypeStep == TypeOK /\ [Next]_vars => TypeOK'
<1> SUFFICES ASSUME TypeOK, [Next]_vars PROVE TypeOK'
  OBVIOUS
<1> USE DEF PC
<1>0. FromClient = {"CHR", "REQ", "PO", "APP"}
  BY DEF FromClient, ClientHandshake
<1>1. ASSUME Opening PROVE TypeOK'
  <2>1. CASE OpenSucceeds
    <3>1. SocketTypeOK'
      <4>1. "CH" \in FromServer
        BY DEF FromServer, ServerHandshake
      <4> QED BY <2>1, <4>1 DEF OpenSucceeds, SocketOpens, SocketTypeOK, WSState, ServerState
    <3>2. state' \in ConnectionState /\ reconnection_attempt' \in 0 .. MaxAttempts
      BY <2>1 DEF OpenSucceeds, ConnectionState, MaxAttempts
    <3> QED BY <2>1, <3>1, <3>2 DEF OpenSucceeds, TypeOK
  <2>2. CASE OpenFails
    BY <2>2 DEF OpenFails, SocketFailsToOpen, DropSocket, on_close, GiveUpOrReopen, TypeOK,
                SocketTypeOK, WSState, ServerState, ConnectionState, MaxAttempts
  <2> QED BY <1>1, <2>1, <2>2 DEF Opening
<1>2. ASSUME User PROVE TypeOK'
  <2>1. ASSUME NEW callback \in Callbacks, Login(callback) PROVE TypeOK'
    <3>1. login' \in {"none", "fn", "empty"}
      BY <2>1, CallbacksAssumption DEF Login
    <3>2. CASE state = "AWAIT_AUTHENTICATION"
      <4>1. SendIn(transition_outgoing(state, "REQ"), "REQ")
        BY <2>1, <3>2 DEF Login
      <4> QED BY <2>1, <3>1, <4>1, <1>0, TransitionTypes, SendInType DEF Login, TypeOK
    <3>3. CASE state # "AWAIT_AUTHENTICATION"
      BY <2>1, <3>1, <3>3 DEF Login, NoSocketUse, socketVars, TypeOK, SocketTypeOK
    <3> QED BY <3>2, <3>3
  <2>2. CASE Close
    BY <2>2 DEF Close, CloseSocket, SocketCloses, DropSocket, TypeOK, SocketTypeOK,
                WSState, ServerState, ConnectionState
  <2>3. ASSUME NEW ok \in BOOLEAN, SendApp(ok) PROVE TypeOK'
    BY <2>3, <1>0, SendAppSends, SendInType DEF SendApp, TypeOK
  <2>4. CASE CallbackThrows
    BY <2>4 DEF CallbackThrows, Unwind, NoSocketUse, PC, TypeOK, SocketTypeOK,
                socketVars, clientVars
  <2> QED BY <1>2, <2>1, <2>2, <2>3, <2>4 DEF User
<1>3. CASE ProcessMessages
  BY <1>3 DEF ProcessMessages, TypeOK, SocketTypeOK, socketVars, clientVars
<1>4. ASSUME Reading PROVE TypeOK'
  <2>1. ASSUME NEW m \in FromServer, ReadFrame(m) PROVE TypeOK'
    BY <2>1 DEF ReadFrame, SocketReads, TypeOK, SocketTypeOK, clientVars
  <2>2. CASE ReadEnd
    BY <2>2 DEF ReadEnd, SocketReadsEnd, DropSocket, on_close, GiveUpOrReopen, AfterRead,
                TypeOK, SocketTypeOK, WSState, ServerState, ConnectionState, MaxAttempts
  <2>3. CASE ReadPauses
    BY <2>3 DEF ReadPauses, NoSocketUse, AfterRead, TypeOK, SocketTypeOK,
                socketVars, clientVars
  <2> QED BY <1>4, <2>1, <2>2, <2>3 DEF Reading
<1>5. ASSUME Dispatching PROVE TypeOK'
  <2> USE DEF Continue, Receive, Upcoming
  <2>0. batch # <<>> => Tail(batch) \in Seq(FromServer)
    BY DEF TypeOK
  <2>e. <<>> \in Seq(FromServer)
    OBVIOUS
  <2>a. ASSUME NEW m, Receive(m) PROVE tainted' \in BOOLEAN
    BY <2>a DEF TypeOK
  \* What is left to show of a handler that sends or does not use the socket.
  <2>b. ASSUME NEW s \in ConnectionState, NEW m \in FromClient,
               \/ SendIn(s, m)
               \/ state' = s /\ NoSocketUse,
               pc' \in PC, batch' \in Seq(FromServer), tainted' \in BOOLEAN,
               UNCHANGED <<deliberate_close, login>>
        PROVE  TypeOK'
    <3>1. CASE SendIn(s, m)
      BY <2>b, <3>1, SendInType DEF TypeOK
    <3>2. CASE state' = s /\ NoSocketUse
      BY <2>b, <3>2 DEF NoSocketUse, TypeOK, SocketTypeOK, socketVars
    <3> QED BY <2>b, <3>1, <3>2
  <2>1. CASE HandlePing
    <3> DEFINE pinged == transition_incoming(state, "PI")
               answering == transition_outgoing(pinged, "PO")
    <3>1. pinged \in ConnectionState /\ answering \in ConnectionState
      BY TransitionTypes DEF TypeOK
    <3>2. /\ SendIn(answering, "PO") \/ (state' = pinged /\ NoSocketUse)
          /\ UNCHANGED <<deliberate_close, login>>
      BY <2>1 DEF HandlePing
    <3>3. pc' \in PC /\ batch' \in Seq(FromServer) /\ tainted' \in BOOLEAN
      BY <2>1, <2>0, <2>e, <2>a DEF HandlePing, Unwind, TypeOK
    <3> HIDE DEF pinged, answering
    <3> QED BY <1>0, <2>b, <3>1, <3>2, <3>3
  <2>2. CASE HandleChallenge
    <3> DEFINE challenging == transition_incoming(state, "CH")
               waiting == transition_outgoing(challenging, "CHR")
    <3>1. challenging \in ConnectionState /\ waiting \in ConnectionState
      BY TransitionTypes DEF TypeOK
    <3>2. /\ SendIn(waiting, "CHR") \/ (state' = challenging /\ NoSocketUse)
          /\ UNCHANGED <<deliberate_close, login>>
      BY <2>2 DEF HandleChallenge
    <3>3. pc' \in PC /\ batch' \in Seq(FromServer) /\ tainted' \in BOOLEAN
      BY <2>2, <2>0, <2>e, <2>a DEF HandleChallenge, Unwind, TypeOK
    <3> HIDE DEF challenging, waiting
    <3> QED BY <1>0, <2>b, <3>1, <3>2, <3>3
  <2>3. CASE HandleChallengeAccepted
    <3> DEFINE awaiting == transition_incoming(state, "CA")
               authenticating == transition_outgoing(awaiting, "REQ")
    <3>1. awaiting \in ConnectionState /\ authenticating \in ConnectionState
      BY TransitionTypes DEF TypeOK
    <3>2. /\ SendIn(authenticating, "REQ") \/ (state' = awaiting /\ NoSocketUse)
          /\ UNCHANGED <<deliberate_close, login>>
      BY <2>3 DEF HandleChallengeAccepted
    <3>3. pc' \in PC /\ batch' \in Seq(FromServer) /\ tainted' \in BOOLEAN
      BY <2>3, <2>0, <2>e, <2>a DEF HandleChallengeAccepted, Unwind, TypeOK
    <3> HIDE DEF awaiting, authenticating
    <3> QED BY <1>0, <2>b, <3>1, <3>2, <3>3
  <2>4. CASE HandleRedirect
    <3>1. /\ state' \in ConnectionState
          /\ pc' \in PC /\ batch' \in Seq(FromServer) /\ tainted' \in BOOLEAN
          /\ UNCHANGED <<deliberate_close, login>>
      BY <2>4, <2>0, <2>a, TransitionTypes DEF HandleRedirect, TypeOK
    <3>2. CASE ws = "OPEN"
      <4>1. /\ opening' = TRUE /\ stale' = TRUE
            /\ DropSocket
            /\ UNCHANGED <<ws, reconnection_attempt>>
        BY <2>4, <3>2 DEF HandleRedirect
      <4> QED BY <3>1, <4>1 DEF DropSocket, TypeOK, SocketTypeOK, ServerState
    <3>3. CASE ws # "OPEN"
      <4>1. NoSocketUse
        BY <2>4, <3>3 DEF HandleRedirect
      <4> QED BY <3>1, <4>1 DEF NoSocketUse, TypeOK, SocketTypeOK, socketVars
    <3> QED BY <3>2, <3>3
  <2>5. CASE HandleReject
    BY <2>5, <2>0, TransitionTypes DEF HandleReject, NoSocketUse, TypeOK, SocketTypeOK,
       socketVars
  <2>6. CASE HandleAuthError
    <3>1. "CLOSED" \in ConnectionState
      BY DEF ConnectionState
    <3> QED
      BY <2>6, <2>0, <3>1, TransitionTypes DEF HandleAuthError, CloseSocket, SocketCloses,
         DropSocket, TypeOK, SocketTypeOK, WSState, ServerState
  <2>7. CASE HandleAuthAck
    <3>1. state' \in ConnectionState /\ pc' \in PC /\ batch' \in Seq(FromServer)
      BY <2>7, <2>0, <2>e, TransitionTypes DEF HandleAuthAck, FinishAuth, Unwind, TypeOK
    <3> QED BY <2>7, <3>1 DEF HandleAuthAck, NoSocketUse, TypeOK, SocketTypeOK, socketVars
  <2>8. CASE HandleApp
    BY <2>8, <2>0 DEF HandleApp, NoSocketUse, TypeOK, SocketTypeOK, socketVars, clientVars
  <2>9. CASE OnMessageReturns
    BY <2>9 DEF OnMessageReturns, NoSocketUse, TypeOK, SocketTypeOK, socketVars, clientVars
  <2> QED BY <1>5, <2>1, <2>2, <2>3, <2>4, <2>5, <2>6, <2>7, <2>8, <2>9 DEF Dispatching
<1>6. ASSUME Returns PROVE TypeOK'
  <2> USE DEF NoSocketUse, TypeOK, SocketTypeOK, socketVars, clientVars
  <2>1. CASE ConstructorReturns
    BY <2>1 DEF ConstructorReturns
  <2>2. CASE LoginCallbackReturns
    BY <2>2, TransitionTypes DEF LoginCallbackReturns, FinishAuth
  <2>3. CASE CallbacksReturn
    BY <2>3 DEF CallbacksReturn
  <2> QED BY <1>6, <2>1, <2>2, <2>3 DEF Returns
<1>7. CASE Peer
  BY <1>7, PeerType DEF Peer, TypeOK, clientVars, stackVars
<1>8. CASE UNCHANGED vars
  BY <1>8 DEF vars, socketVars, clientVars, stackVars, TypeOK, SocketTypeOK
<1> QED BY <1>1, <1>2, <1>3, <1>4, <1>5, <1>6, <1>7, <1>8 DEF Next

\* Every variable of the connection and of its socket keeps its type; in
\* particular there are never more than MaxAttempts reconnections in a row.
THEOREM TypeCorrect == Spec => []TypeOK
BY TypeInit, TypeStep, PTL DEF Spec

-----------------------------------------------------------------------------
(***************************************************************************)
(* close() is final.                                                       *)
(***************************************************************************)

\* A deliberately closed client has no socket and is not opening one.
NoSocketAfterClose == deliberate_close => ws # "OPEN" /\ ~opening

\* What a send does to a closed client: nothing that matters here.
LEMMA SendInClosed ==
    ASSUME NEW s, NEW m, SendIn(s, m), deliberate_close, ws # "OPEN", ~opening
    PROVE  ws' # "OPEN" /\ ~opening'
BY DEF SendIn, SendSucceeds, SendFails, SocketSends, SocketFailsToSend, on_close,
       GiveUpOrReopen

LEMMA CloseStep ==
    ASSUME NoSocketAfterClose, [Next]_vars
    PROVE  /\ NoSocketAfterClose'
           /\ deliberate_close => deliberate_close'
<1> USE DEF NoSocketAfterClose
<1>1. CASE Opening
  BY <1>1 DEF Opening, OpenSucceeds, OpenFails
<1>2. CASE User
  <2>1. ASSUME NEW callback \in Callbacks, Login(callback)
        PROVE  NoSocketAfterClose' /\ deliberate_close' = deliberate_close
    BY <2>1, SendInClosed DEF Login, NoSocketUse, socketVars
  <2>2. CASE Close
    BY <2>2 DEF Close, UserRuns, CloseSocket, SocketCloses
  <2>3. ASSUME NEW ok \in BOOLEAN, SendApp(ok)
        PROVE  NoSocketAfterClose' /\ deliberate_close' = deliberate_close
    BY <2>3, SendAppSends, SendInClosed
  <2>4. CASE CallbackThrows
    BY <2>4 DEF CallbackThrows, NoSocketUse, socketVars, clientVars
  <2> QED BY <1>2, <2>1, <2>2, <2>3, <2>4 DEF User
<1>3. CASE ProcessMessages
  BY <1>3 DEF ProcessMessages, socketVars, clientVars
<1>4. CASE Reading
  <2>1. ASSUME NEW m \in FromServer, ReadFrame(m)
        PROVE  NoSocketAfterClose' /\ deliberate_close' = deliberate_close
    BY <2>1 DEF ReadFrame, SocketReads, clientVars
  <2>2. CASE ReadEnd
    BY <2>2 DEF ReadEnd, SocketReadsEnd, on_close, GiveUpOrReopen
  <2>3. CASE ReadPauses
    BY <2>3 DEF ReadPauses, NoSocketUse, socketVars, clientVars
  <2> QED BY <1>4, <2>1, <2>2, <2>3 DEF Reading
<1>5. CASE Dispatching
  <2> USE DEF NoSocketUse, socketVars
  <2>1. CASE HandlePing \/ HandleChallenge \/ HandleChallengeAccepted
    BY <2>1, SendInClosed DEF HandlePing, HandleChallenge, HandleChallengeAccepted
  <2>2. CASE HandleRedirect \/ HandleReject
    BY <2>2 DEF HandleRedirect, HandleReject
  <2>3. CASE HandleAuthError
    <3>1. ~opening /\ CloseSocket
      BY <2>3 DEF HandleAuthError, Receive, Upcoming, Running
    <3> QED BY <3>1 DEF CloseSocket, SocketCloses
  <2>4. CASE HandleAuthAck \/ HandleApp \/ OnMessageReturns
    BY <2>4 DEF HandleAuthAck, HandleApp, OnMessageReturns, clientVars
  <2> QED BY <1>5, <2>1, <2>2, <2>3, <2>4 DEF Dispatching
<1>6. CASE Returns
  BY <1>6 DEF Returns, ConstructorReturns, LoginCallbackReturns, CallbacksReturn,
              NoSocketUse, socketVars, clientVars
<1>7. CASE Peer
  BY <1>7 DEF Peer, ServerAnswers, ServerAnswersChallenge, ServerAnswersLogin,
              ServerConsumes, ServerReceives, ServerSends, LinkEnds, clientVars, stackVars
<1>8. CASE UNCHANGED vars
  BY <1>8 DEF vars, socketVars, clientVars, stackVars
<1> QED BY <1>1, <1>2, <1>3, <1>4, <1>5, <1>6, <1>7, <1>8 DEF Next

\* After close() the client never opens a socket again, whatever was still
\* queued, and however late.  (deliberate_close_ in on_close, URI)
THEOREM CloseIsForever == Spec => CloseIsFinal
<1>1. Init => NoSocketAfterClose
  BY DEF Init, NoSocketAfterClose
<1>2. NoSocketAfterClose /\ [Next]_vars => NoSocketAfterClose'
  BY CloseStep
<1>3. NoSocketAfterClose /\ [Next]_vars
        => [deliberate_close => deliberate_close' /\ ~opening' /\ ws' # "OPEN"]_vars
  BY CloseStep DEF NoSocketAfterClose
<1> QED BY <1>1, <1>2, <1>3, PTL DEF Spec, CloseIsFinal

-----------------------------------------------------------------------------
(***************************************************************************)
(* A client without a socket is CLOSED, for a reason, or in ERROR.         *)
(***************************************************************************)

\* StateMatchesSocket /\ GivesUpOnlyAfterRetries, which need each other.
DownForAReason ==
    ~opening /\ ws # "OPEN" =>
        /\ state \in {"CLOSED", "ERROR"}
        /\ state = "CLOSED" /\ ~deliberate_close => reconnection_attempt = MaxAttempts

LEMMA OnCloseDown ==
    ASSUME TypeOK, on_close, UNCHANGED deliberate_close PROVE DownForAReason'
<1>1. CASE deliberate_close \/ reconnection_attempt >= MaxAttempts
  <2>1. state' = "CLOSED" /\ reconnection_attempt' = reconnection_attempt
    BY <1>1 DEF on_close, GiveUpOrReopen
  <2>2. ~deliberate_close => reconnection_attempt = MaxAttempts
    BY <1>1 DEF TypeOK, MaxAttempts
  <2> QED BY <2>1, <2>2 DEF DownForAReason, MaxAttempts
<1>2. CASE ~(deliberate_close \/ reconnection_attempt >= MaxAttempts)
  BY <1>2 DEF on_close, GiveUpOrReopen, DownForAReason
<1> QED BY <1>1, <1>2

LEMMA SendInDown ==
    ASSUME TypeOK, NEW s, NEW m, SendIn(s, m), UNCHANGED deliberate_close
    PROVE  DownForAReason'
<1>1. CASE SocketSends(m)
  BY <1>1 DEF SocketSends, DownForAReason
<1>2. CASE on_close
  BY <1>2, OnCloseDown
<1> QED BY <1>1, <1>2 DEF SendIn, SendSucceeds, SendFails

\* Neither table leads from CLOSED or ERROR to anything but ERROR.
LEMMA NoWayOut ==
    ASSUME NEW s \in {"CLOSED", "ERROR"}, NEW m
    PROVE  /\ m # "PI" => transition_incoming(s, m) = "ERROR"
           /\ m # "PO" => transition_outgoing(s, m) = "ERROR"
<1>1. CASE s = "CLOSED"
  BY <1>1 DEF transition_incoming, transition_outgoing
<1>2. CASE s = "ERROR"
  BY <1>2 DEF transition_incoming, transition_outgoing
<1> QED BY <1>1, <1>2

LEMMA DownStep ==
    ASSUME TypeOK, DownForAReason, [Next]_vars PROVE DownForAReason'
\* Handlers that move the state along a table and leave the socket alone.
<1>a. ASSUME NoSocketUse, UNCHANGED deliberate_close,
             ~opening /\ ws # "OPEN" => state' \in {state, "ERROR"}
      PROVE  DownForAReason'
  BY <1>a DEF NoSocketUse, socketVars, DownForAReason
<1>1. CASE Opening
  <2>1. CASE OpenSucceeds
    BY <2>1 DEF OpenSucceeds, SocketOpens, DownForAReason
  <2>2. CASE OpenFails
    BY <2>2, OnCloseDown DEF OpenFails
  <2> QED BY <1>1, <2>1, <2>2 DEF Opening
<1>2. CASE User
  <2>1. ASSUME NEW callback \in Callbacks, Login(callback) PROVE DownForAReason'
    BY <2>1, <1>a, SendInDown DEF Login
  <2>2. CASE Close
    BY <2>2 DEF Close, CloseSocket, DownForAReason
  <2>3. ASSUME NEW ok \in BOOLEAN, SendApp(ok) PROVE DownForAReason'
    BY <2>3, SendAppSends, SendInDown
  <2>4. CASE CallbackThrows
    BY <2>4, <1>a DEF CallbackThrows, clientVars
  <2> QED BY <1>2, <2>1, <2>2, <2>3, <2>4 DEF User
<1>3. CASE ProcessMessages
  BY <1>3 DEF ProcessMessages, socketVars, clientVars, DownForAReason
<1>4. CASE Reading
  <2>1. ASSUME NEW m \in FromServer, ReadFrame(m) PROVE DownForAReason'
    BY <2>1 DEF ReadFrame, SocketReads, clientVars, DownForAReason
  <2>2. CASE ReadEnd
    BY <2>2, OnCloseDown DEF ReadEnd
  <2>3. CASE ReadPauses
    BY <2>3, <1>a DEF ReadPauses, clientVars
  <2> QED BY <1>4, <2>1, <2>2, <2>3 DEF Reading
<1>5. CASE Dispatching
  <2>0. ASSUME NEW m, Receive(m) PROVE ~opening
    BY <2>0 DEF Receive, Upcoming, Running
  <2>1. CASE HandlePing
    <3>1. transition_incoming(state, "PI") = state
      BY DEF transition_incoming
    <3> QED BY <2>1, <1>a, <3>1, SendInDown DEF HandlePing
  <2>2. CASE HandleChallenge
    BY <2>2, <2>0, <1>a, SendInDown, NoWayOut DEF HandleChallenge, DownForAReason
  <2>3. CASE HandleChallengeAccepted
    BY <2>3, <2>0, <1>a, SendInDown, NoWayOut
       DEF HandleChallengeAccepted, DownForAReason
  <2>4. CASE HandleRedirect
    <3>1. CASE ws = "OPEN"
      BY <2>4, <3>1 DEF HandleRedirect, DownForAReason
    <3>2. CASE ws # "OPEN"
      BY <2>4, <2>0, <3>2, <1>a, NoWayOut DEF HandleRedirect, DownForAReason
    <3> QED BY <3>1, <3>2
  <2>5. CASE HandleReject
    BY <2>5, <2>0, <1>a, NoWayOut DEF HandleReject, DownForAReason
  <2>6. CASE HandleAuthError
    <3>1. PICK m \in AuthError : state' = transition_incoming("CLOSED", m)
      BY <2>6 DEF HandleAuthError
    <3>2. deliberate_close' /\ state' = "ERROR"
      BY <2>6, <3>1, NoWayOut DEF HandleAuthError, CloseSocket, AuthError
    <3> QED BY <3>2 DEF DownForAReason
  <2>7. CASE HandleAuthAck
    BY <2>7, <2>0, <1>a, NoWayOut DEF HandleAuthAck, FinishAuth, DownForAReason
  <2>8. CASE HandleApp \/ OnMessageReturns
    BY <2>8, <1>a DEF HandleApp, OnMessageReturns, clientVars
  <2> QED BY <1>5, <2>1, <2>2, <2>3, <2>4, <2>5, <2>6, <2>7, <2>8 DEF Dispatching
<1>6. CASE Returns
  <2>1. CASE ConstructorReturns \/ CallbacksReturn
    BY <2>1, <1>a DEF ConstructorReturns, CallbacksReturn, clientVars
  <2>2. CASE LoginCallbackReturns
    BY <2>2, <1>a, NoWayOut DEF LoginCallbackReturns, FinishAuth, DownForAReason
  <2> QED BY <1>6, <2>1, <2>2 DEF Returns
<1>7. CASE Peer
  BY <1>7 DEF Peer, ServerAnswers, ServerAnswersChallenge, ServerAnswersLogin,
              ServerConsumes, ServerReceives, ServerSends, LinkEnds, clientVars,
              stackVars, DownForAReason
<1>8. CASE UNCHANGED vars
  BY <1>8 DEF vars, socketVars, clientVars, stackVars, DownForAReason
<1> QED BY <1>1, <1>2, <1>3, <1>4, <1>5, <1>6, <1>7, <1>8 DEF Next

LEMMA DownInvariant == Spec => []DownForAReason
<1>1. Init => DownForAReason
  BY DEF Init, DownForAReason
<1> QED BY <1>1, TypeCorrect, DownStep, PTL DEF Spec

\* Outside ws_handler_.open() the state is one of a live connection only if
\* there is a socket.  (state, on_open, on_close)
THEOREM StateFollowsSocket == Spec => []StateMatchesSocket
<1>1. DownForAReason => StateMatchesSocket
  BY DEF DownForAReason, StateMatchesSocket
<1> QED BY <1>1, DownInvariant, PTL

\* A client that is CLOSED without a socket was closed by the application or
\* has used up all of its attempts.  (on_close)
THEOREM NeverGivesUpEarly == Spec => []GivesUpOnlyAfterRetries
<1>1. DownForAReason => GivesUpOnlyAfterRetries
  BY DEF DownForAReason, GivesUpOnlyAfterRetries
<1> QED BY <1>1, DownInvariant, PTL

-----------------------------------------------------------------------------
(***************************************************************************)
(* Handshake messages in sequences.                                        *)
(***************************************************************************)

IsHandshake(m) == m \in ServerHandshake \cup ClientHandshake

\* The handshake messages of p are among those of q, k places further on.
Within(p, q) ==
    \E k \in Nat : \A i \in HandshakeTo(p) : i + k \in HandshakeTo(q) /\ p[i] = q[i + k]

LEMMA WithinKeeps ==
    ASSUME NEW p, NEW q, Within(p, q)
    PROVE  /\ (\A i, j \in HandshakeTo(q) : i = j) => (\A i, j \in HandshakeTo(p) : i = j)
           /\ HandshakeTo(q) = {} => HandshakeTo(p) = {}
           /\ \A i \in HandshakeTo(p) : \E j \in HandshakeTo(q) : p[i] = q[j]
<1>1. PICK k \in Nat : \A i \in HandshakeTo(p) : i + k \in HandshakeTo(q) /\ p[i] = q[i + k]
  BY DEF Within
<1>3. ASSUME \A i, j \in HandshakeTo(q) : i = j, NEW i \in HandshakeTo(p), NEW j \in HandshakeTo(p)
      PROVE  i = j
  <2>1. i + k = j + k
    BY <1>1, <1>3
  <2>2. i \in Int /\ j \in Int /\ k \in Int
    BY DEF HandshakeTo
  <2> QED BY <2>1, <2>2
<1> QED BY <1>1, <1>3

LEMMA WithinSelf == ASSUME NEW q PROVE Within(q, q)
<1>1. \A i \in HandshakeTo(q) : i + 0 \in HandshakeTo(q) /\ q[i] = q[i + 0]
  BY DEF HandshakeTo
<1> QED BY <1>1 DEF Within

LEMMA WithinTail ==
    ASSUME NEW S, NEW q \in Seq(S), q # <<>> PROVE Within(Tail(q), q)
<1>1. \A i \in HandshakeTo(Tail(q)) : i + 1 \in HandshakeTo(q) /\ Tail(q)[i] = q[i + 1]
  BY HeadTailProperties, LenProperties DEF HandshakeTo
<1> QED BY <1>1 DEF Within

LEMMA WithinAppend ==
    ASSUME NEW S, NEW q \in Seq(S), NEW m \in S, ~IsHandshake(m)
    PROVE  Within(Append(q, m), q)
<1>1. \A i \in HandshakeTo(Append(q, m)) :
        i + 0 \in HandshakeTo(q) /\ Append(q, m)[i] = q[i + 0]
  BY AppendProperties, LenProperties DEF HandshakeTo, IsHandshake
<1> QED BY <1>1 DEF Within

\* The first message is handled ...
LEMMA WithinHandled ==
    ASSUME NEW S, NEW b \in Seq(S), NEW c \in Seq(S), b # <<>>
    PROVE  Within(Tail(b) \o c, b \o c)
<1>1. \A i \in HandshakeTo(Tail(b) \o c) :
        i + 1 \in HandshakeTo(b \o c) /\ (Tail(b) \o c)[i] = (b \o c)[i + 1]
  <2>1. Tail(b) \in Seq(S) /\ Len(Tail(b)) = Len(b) - 1
        /\ \A i \in 1 .. Len(Tail(b)) : Tail(b)[i] = b[i + 1]
    BY HeadTailProperties
  <2>2. Len(b) \in Nat /\ Len(c) \in Nat
    BY LenProperties
  <2>3. Len(Tail(b) \o c) = Len(Tail(b)) + Len(c)
        /\ \A i \in 1 .. Len(Tail(b)) + Len(c) : (Tail(b) \o c)[i] =
              IF i <= Len(Tail(b)) THEN Tail(b)[i] ELSE c[i - Len(Tail(b))]
    BY <2>1, ConcatProperties
  <2>4. Len(b \o c) = Len(b) + Len(c)
        /\ \A i \in 1 .. Len(b) + Len(c) : (b \o c)[i] =
              IF i <= Len(b) THEN b[i] ELSE c[i - Len(b)]
    BY ConcatProperties
  <2> QED BY <2>1, <2>2, <2>3, <2>4 DEF HandshakeTo
<1> QED BY <1>1 DEF Within

\* ... or all that has been read is thrown away ...
LEMMA WithinUnwound ==
    ASSUME NEW S, NEW b \in Seq(S), NEW c \in Seq(S) PROVE Within(c, b \o c)
<1>1. \A i \in HandshakeTo(c) :
        i + Len(b) \in HandshakeTo(b \o c) /\ c[i] = (b \o c)[i + Len(b)]
  BY ConcatProperties, LenProperties DEF HandshakeTo
<1>2. Len(b) \in Nat
  BY LenProperties
<1> QED BY <1>1, <1>2 DEF Within

\* ... or a message is read ...
LEMMA WithinRead ==
    ASSUME NEW S, NEW b \in Seq(S), NEW c \in Seq(S), c # <<>>
    PROVE  Append(b, Head(c)) \o Tail(c) = b \o c
<1>1. Head(c) \in S /\ Tail(c) \in Seq(S)
  BY HeadTailProperties
<1>2. Append(b, Head(c)) = b \o <<Head(c)>>
  BY <1>1, AppendIsConcat
<1>3. c = <<Head(c)>> \o Tail(c)
  BY <1>1, HeadTailProperties, ConcatProperties, SeqEqual, LenProperties
<1>4. <<Head(c)>> \in Seq(S)
  BY <1>1
<1> QED BY <1>1, <1>2, <1>3, <1>4, ConcatAssociative

\* ... or the server sends one ...
LEMMA ConcatAppend ==
    ASSUME NEW S, NEW b \in Seq(S), NEW c \in Seq(S), NEW m \in S
    PROVE  b \o Append(c, m) = Append(b \o c, m)
<1>1. <<m>> \in Seq(S) /\ b \o c \in Seq(S)
  BY ConcatProperties
<1> QED BY <1>1, AppendIsConcat, ConcatAssociative

\* ... or the socket ends.
LEMMA WithinCut ==
    ASSUME NEW S, NEW b \in Seq(S), NEW c \in Seq(S), NEW n \in 0 .. Len(c),
           NEW m \in S, ~IsHandshake(m)
    PROVE  Within(b \o Append(SubSeq(c, 1, n), m), b \o c)
<1>1. /\ SubSeq(c, 1, n) \in Seq(S) /\ Len(SubSeq(c, 1, n)) = n
      /\ \A i \in 1 .. n : SubSeq(c, 1, n)[i] = c[i]
  BY SubSeqProperties, ElementOfSeq, LenProperties
<1>2. Len(b) \in Nat /\ Len(c) \in Nat
  BY LenProperties
<1>3. b \o SubSeq(c, 1, n) \in Seq(S)
  BY <1>1, ConcatProperties
<1>4. b \o Append(SubSeq(c, 1, n), m) = Append(b \o SubSeq(c, 1, n), m)
  BY <1>1, ConcatAppend
<1> DEFINE r == b \o SubSeq(c, 1, n)
<1>5. \A i \in 1 .. Len(r) : i \in 1 .. Len(b \o c) /\ r[i] = (b \o c)[i]
  <2> DEFINE d == SubSeq(c, 1, n)
  <2>1. /\ Len(r) = Len(b) + Len(d)
        /\ \A i \in 1 .. Len(b) + Len(d) :
            r[i] = IF i <= Len(b) THEN b[i] ELSE d[i - Len(b)]
    BY <1>1, ConcatProperties
  <2>2. /\ Len(b \o c) = Len(b) + Len(c)
        /\ \A i \in 1 .. Len(b) + Len(c) :
            (b \o c)[i] = IF i <= Len(b) THEN b[i] ELSE c[i - Len(b)]
    BY ConcatProperties
  <2>3. Len(d) = n /\ \A i \in 1 .. n : d[i] = c[i]
    BY <1>1
  <2> HIDE DEF d, r
  <2> QED BY <1>2, <2>1, <2>2, <2>3
<1>6. \A i \in HandshakeTo(Append(r, m)) : i \in 1 .. Len(r) /\ Append(r, m)[i] = r[i]
  <2> HIDE DEF r
  <2>1. r \in Seq(S)
    BY <1>3 DEF r
  <2> QED BY <2>1, AppendProperties, LenProperties DEF HandshakeTo, IsHandshake
<1>7. \A i \in HandshakeTo(Append(r, m)) :
        i + 0 \in HandshakeTo(b \o c) /\ Append(r, m)[i] = (b \o c)[i + 0]
  <2> HIDE DEF r
  <2>1. \A i \in HandshakeTo(Append(r, m)) :
          i \in Int /\ Append(r, m)[i] \in ServerHandshake \cup ClientHandshake
    BY DEF HandshakeTo
  <2> QED BY <1>5, <1>6, <2>1 DEF HandshakeTo
<1> QED BY <1>4, <1>7 DEF Within

\* A handshake message joins a sequence that has none.
LEMMA OneAdded ==
    ASSUME NEW S, NEW q \in Seq(S), NEW m \in S, HandshakeTo(q) = {}
    PROVE  /\ HandshakeTo(Append(q, m)) \subseteq {Len(q) + 1}
           /\ Append(q, m)[Len(q) + 1] = m
BY AppendProperties, LenProperties DEF HandshakeTo

\* The only handshake message is handled.
LEMMA OneTaken ==
    ASSUME NEW S, NEW b \in Seq(S), NEW c \in Seq(S), b # <<>>, IsHandshake(Head(b)),
           \A i, j \in HandshakeTo(b \o c) : i = j
    PROVE  /\ 1 \in HandshakeTo(b \o c)
           /\ (b \o c)[1] = Head(b)
           /\ HandshakeTo(Tail(b) \o c) = {}
<1>1. Len(b) \in Nat \ {0} /\ Len(c) \in Nat
  BY EmptySeq, LenProperties
<1>2. (b \o c)[1] = Head(b) /\ Len(b \o c) = Len(b) + Len(c)
  BY <1>1, ConcatProperties
<1>3. 1 \in HandshakeTo(b \o c)
  BY <1>1, <1>2 DEF HandshakeTo, IsHandshake
<1>4. \A i \in HandshakeTo(Tail(b) \o c) : i + 1 \in HandshakeTo(b \o c) /\ i \in Nat \ {0}
  <2>1. Tail(b) \in Seq(S) /\ Len(Tail(b)) = Len(b) - 1
        /\ \A i \in 1 .. Len(Tail(b)) : Tail(b)[i] = b[i + 1]
    BY HeadTailProperties
  <2>2. Len(Tail(b) \o c) = Len(Tail(b)) + Len(c)
        /\ \A i \in 1 .. Len(Tail(b)) + Len(c) : (Tail(b) \o c)[i] =
              IF i <= Len(Tail(b)) THEN Tail(b)[i] ELSE c[i - Len(Tail(b))]
    BY <2>1, ConcatProperties
  <2>3. \A i \in 1 .. Len(b) + Len(c) : (b \o c)[i] =
              IF i <= Len(b) THEN b[i] ELSE c[i - Len(b)]
    BY ConcatProperties
  <2> QED BY <1>1, <1>2, <2>1, <2>2, <2>3 DEF HandshakeTo
<1> QED BY <1>2, <1>3, <1>4

-----------------------------------------------------------------------------
(***************************************************************************)
(* The inductive invariant.                                                *)
(***************************************************************************)

\* Two facts about the stack that Lockstep relies on: nothing that was read
\* outlives process_messages(), and what it holds is stale while the socket is
\* being replaced.
Frames ==
    /\ pc \in {"ctor", "app"} => batch = <<>>
    /\ opening /\ ~stale => pc = "ctor"

InStep == AtMostOneHandshake /\ ReceiversAwaitIt /\ StatesAgree

LEMMA FramesStep ==
    ASSUME TypeOK, Frames, [Next]_vars PROVE Frames'
<1> USE DEF Frames
<1>0. ASSUME NEW s, NEW m, SendIn(s, m) PROVE opening' => stale' \/ (opening /\ ~stale)
  BY <1>0 DEF SendIn, SendSucceeds, SendFails, on_close, GiveUpOrReopen
<1>1. CASE Opening
  BY <1>1 DEF Opening, OpenSucceeds, OpenFails, on_close, GiveUpOrReopen
<1>2. CASE User
  <2>1. ASSUME NEW callback \in Callbacks, Login(callback) PROVE Frames'
    BY <2>1, <1>0 DEF Login, UserRuns, NoSocketUse
  <2>2. CASE Close
    BY <2>2 DEF Close, UserRuns, CloseSocket
  <2>3. ASSUME NEW ok \in BOOLEAN, SendApp(ok) PROVE Frames'
    <3>1. ~opening
      BY <2>3 DEF SendApp, UserRuns, Running
    <3> QED BY <2>3, <3>1, <1>0, SendAppSends
  <2>4. CASE CallbackThrows
    BY <2>4 DEF CallbackThrows, UserRuns, Unwind, NoSocketUse
  <2> QED BY <1>2, <2>1, <2>2, <2>3, <2>4 DEF User
<1>3. CASE ProcessMessages
  BY <1>3 DEF ProcessMessages, Running
<1>4. CASE Reading
  <2>1. ASSUME NEW m \in FromServer, ReadFrame(m) PROVE Frames'
    BY <2>1 DEF ReadFrame, Running
  <2>2. CASE ReadEnd
    BY <2>2 DEF ReadEnd, AfterRead, on_close, GiveUpOrReopen, Running
  <2>3. CASE ReadPauses
    BY <2>3 DEF ReadPauses, AfterRead, NoSocketUse, Running
  <2> QED BY <1>4, <2>1, <2>2, <2>3 DEF Reading
<1>5. CASE Dispatching
  <2> USE DEF Receive, Upcoming, Running, Continue, Unwind, NoSocketUse
  <2>1. CASE HandlePing
    BY <2>1, <1>0 DEF HandlePing
  <2>2. CASE HandleChallenge
    BY <2>2, <1>0 DEF HandleChallenge
  <2>3. CASE HandleChallengeAccepted
    BY <2>3, <1>0 DEF HandleChallengeAccepted
  <2>4. CASE HandleRedirect
    BY <2>4 DEF HandleRedirect
  <2>5. CASE HandleReject
    BY <2>5 DEF HandleReject
  <2>6. CASE HandleAuthError
    BY <2>6 DEF HandleAuthError, CloseSocket
  <2>7. CASE HandleAuthAck
    BY <2>7 DEF HandleAuthAck, FinishAuth
  <2>8. CASE HandleApp
    BY <2>8 DEF HandleApp
  <2>9. CASE OnMessageReturns
    BY <2>9 DEF OnMessageReturns
  <2> QED BY <1>5, <2>1, <2>2, <2>3, <2>4, <2>5, <2>6, <2>7, <2>8, <2>9 DEF Dispatching
<1>6. CASE Returns
  BY <1>6 DEF Returns, ConstructorReturns, LoginCallbackReturns, CallbacksReturn,
              FinishAuth, NoSocketUse, Running
<1>7. CASE Peer
  BY <1>7 DEF Peer, stackVars
<1>8. CASE UNCHANGED vars
  BY <1>8 DEF vars, stackVars
<1> QED BY <1>1, <1>2, <1>3, <1>4, <1>5, <1>6, <1>7, <1>8 DEF Next

-----------------------------------------------------------------------------
(***************************************************************************)
(* Lemmas about InStep.                                                    *)
(***************************************************************************)

Any == FromServer \cup SocketEnd

\* What process_messages() has read from the current socket.
InHand(b, s) == IF s THEN <<>> ELSE b

LEMMA ComingIs ==
    ASSUME NEW b \in Seq(FromServer), NEW c \in Seq(Any), NEW s \in BOOLEAN
    PROVE  /\ (IF s THEN c ELSE b \o c) = InHand(b, s) \o c
           /\ b \in Seq(Any)
           /\ InHand(b, s) \in Seq(Any)
<1>1. b \in Seq(Any)
  BY SeqMonotonic DEF Any
<1>2. <<>> \in Seq(Any) /\ <<>> \o c = c
  BY ConcatEmptySeq
<1> QED BY <1>1, <1>2 DEF InHand

LEMMA MessageKinds ==
    /\ FromClient = {"CHR", "REQ", "PO", "APP"}
    /\ IsHandshake("CHR") /\ IsHandshake("REQ")
    /\ ~IsHandshake("PO") /\ ~IsHandshake("PI") /\ ~IsHandshake("APP")
    /\ \A m \in SocketEnd : ~IsHandshake(m)
    /\ \A m \in ServerHandshake : IsHandshake(m)
BY DEF FromClient, IsHandshake, SocketEnd, ServerHandshake, ChallengeReply, Verdict,
       AuthError, ClientHandshake

\* A step that brings no handshake message and moves neither side's state.
LEMMA NothingNew ==
    ASSUME InStep, UNCHANGED <<state, srv>>,
           Within(Coming', Coming), Within(toServer', toServer),
           \A i \in 1 .. Len(toServer') :
              \/ toServer'[i] = "PO"
              \/ toServer'[i] = "APP" /\ state = "OPEN"
              \/ \E j \in 1 .. Len(toServer) : toServer'[i] = toServer[j],
           pc' = "login_cb" /\ ~stale' => pc = "login_cb" /\ ~stale
    PROVE  InStep'
<1> USE DEF InStep
<1>1. AtMostOneHandshake'
  BY WithinKeeps DEF AtMostOneHandshake
<1>2. \A i \in HandshakeTo(Coming') : \E j \in HandshakeTo(Coming) : Coming'[i] = Coming[j]
  BY WithinKeeps
<1>3. ReceiversAwaitIt'
  BY <1>2 DEF ReceiversAwaitIt, Expected
<1>4. StatesAgree'
  BY WithinKeeps DEF StatesAgree
<1> QED BY <1>1, <1>3, <1>4

\* A handshake message of the current socket is handled.
LEMMA HandshakeHandled ==
    ASSUME TypeOK, InStep, ~stale, ~stale', batch # <<>>, Head(batch) \in ServerHandshake,
           batch' = Tail(batch), toClient' = toClient
    PROVE  /\ Expected(Head(batch))
           /\ HandshakeTo(Coming') = {}
           /\ HandshakeTo(toServer) = {}
<1>1. batch \in Seq(Any) /\ toClient \in Seq(Any)
  BY ComingIs DEF TypeOK, SocketTypeOK, Any
<1>2. Coming = batch \o toClient /\ Coming' = Tail(batch) \o toClient
  BY DEF Coming
<1>3. \A i, j \in HandshakeTo(batch \o toClient) : i = j
  BY <1>2 DEF InStep, AtMostOneHandshake
<1>4. IsHandshake(Head(batch))
  BY MessageKinds
<1>5. /\ 1 \in HandshakeTo(Coming)
      /\ Coming[1] = Head(batch)
      /\ HandshakeTo(Coming') = {}
  BY <1>1, <1>2, <1>3, <1>4, OneTaken
<1> QED BY <1>5 DEF InStep, ReceiversAwaitIt, AtMostOneHandshake

\* The client sends a handshake message.
LEMMA HandshakeSent ==
    ASSUME TypeOK, HandshakeTo(toServer) = {}, NEW m \in ClientHandshake,
           toServer' = Append(toServer, m)
    PROVE  /\ \A i, j \in HandshakeTo(toServer') : i = j
           /\ \A i \in 1 .. Len(toServer') :
                \/ toServer'[i] = m
                \/ toServer'[i] \notin ClientHandshake
                   /\ \E j \in 1 .. Len(toServer) : toServer'[i] = toServer[j]
<1>1. toServer \in Seq(FromClient) /\ m \in FromClient
  BY DEF TypeOK, SocketTypeOK, FromClient
<1>2. HandshakeTo(toServer') \subseteq {Len(toServer) + 1}
  BY <1>1, OneAdded
<1>3. \A i \in 1 .. Len(toServer) : toServer[i] \notin ClientHandshake
  BY DEF HandshakeTo
<1>4. \A i \in 1 .. Len(toServer') :
        toServer'[i] = m \/ (i \in 1 .. Len(toServer) /\ toServer'[i] = toServer[i])
  BY <1>1, AppendProperties, LenProperties
<1> QED BY <1>2, <1>3, <1>4

\* The client sends anything else.
LEMMA OtherSent ==
    ASSUME TypeOK, NEW m \in {"PO", "APP"}, toServer' = Append(toServer, m)
    PROVE  /\ Within(toServer', toServer)
           /\ \A i \in 1 .. Len(toServer') :
                \/ toServer'[i] = m
                \/ \E j \in 1 .. Len(toServer) : toServer'[i] = toServer[j]
<1>1. toServer \in Seq(FromClient) /\ m \in FromClient /\ ~IsHandshake(m)
  BY MessageKinds DEF TypeOK, SocketTypeOK
<1>2. \A i \in 1 .. Len(toServer') :
        toServer'[i] = m \/ (i \in 1 .. Len(toServer) /\ toServer'[i] = toServer[i])
  BY <1>1, AppendProperties, LenProperties
<1> QED BY <1>1, <1>2, WithinAppend

\* A send that leaves the socket open has written its message.
LEMMA SentOnOpenSocket ==
    ASSUME NEW s, NEW m, SendIn(s, m), Undisturbed'
    PROVE  /\ toServer' = Append(toServer, m)
           /\ state' = s
           /\ UNCHANGED <<toClient, srv, ws, opening, stale>>
BY DEF SendIn, SendSucceeds, SendFails, SocketSends, SocketFailsToSend, Undisturbed

\* A handled message leaves the socket undisturbed only if it was read from it.
LEMMA HandledInTime ==
    ASSUME TypeOK, NEW m, Receive(m), Undisturbed' PROVE ~stale /\ ~tainted
BY DEF Receive, Undisturbed, TypeOK

-----------------------------------------------------------------------------
(***************************************************************************)
(* Every step keeps Lockstep.                                              *)
(***************************************************************************)

LEMMA OpeningInStep ==
    ASSUME TypeOK, TypeOK', Frames, Opening, Undisturbed' PROVE InStep'
<1>1. OpenSucceeds
  BY DEF Opening, OpenFails, SocketFailsToOpen, Undisturbed
<1>2. stale \/ batch = <<>>
  BY <1>1 DEF OpenSucceeds, Frames
<1>3. /\ state' = "AWAIT_CONNECTION" /\ srv' = "challenged"
      /\ toClient' = <<"CH">> /\ toServer' = <<>>
      /\ UNCHANGED <<pc, batch, stale>>
  BY <1>1 DEF OpenSucceeds, SocketOpens
<1>4. Coming' = <<"CH">>
  <2>1. <<"CH">> \in Seq({"CH"}) /\ <<>> \o <<"CH">> = <<"CH">>
    BY ConcatEmptySeq
  <2> QED BY <1>2, <1>3, <2>1 DEF Coming
<1>5. pc = "ctor" \/ stale
  BY <1>1 DEF OpenSucceeds, Frames
<1>6. HandshakeTo(Coming') \subseteq {1} /\ Coming'[1] = "CH"
  BY <1>4 DEF HandshakeTo
<1>7. Len(toServer') = 0 /\ HandshakeTo(toServer') = {}
  BY <1>3 DEF HandshakeTo
<1>8. AtMostOneHandshake'
  BY <1>6, <1>7 DEF AtMostOneHandshake
<1>9. ReceiversAwaitIt'
  <2>1. Expected("CH")'
    BY <1>3 DEF Expected, AuthError, ClientHandshake
  <2> QED BY <1>6, <1>7, <2>1 DEF ReceiversAwaitIt
<1>10. StatesAgree'
  BY <1>3, <1>5 DEF StatesAgree
<1> QED BY <1>8, <1>9, <1>10 DEF InStep

LEMMA UserInStep ==
    ASSUME TypeOK, InStep, User, Undisturbed' PROVE InStep'
<1>0. ASSUME NEW m \in {"PO", "APP"}, SendIn(state, m), m = "APP" => state = "OPEN",
             UNCHANGED <<pc, batch, tainted>>
      PROVE  InStep'
  <2>1. toServer' = Append(toServer, m) /\ UNCHANGED <<state, toClient, srv, stale, batch>>
    BY <1>0, SentOnOpenSocket
  <2>2. Coming' = Coming
    BY <2>1 DEF Coming
  <2> QED BY <1>0, <2>1, <2>2, OtherSent, WithinSelf, NothingNew
<1>1. ASSUME NEW callback \in Callbacks, Login(callback), state # "AWAIT_AUTHENTICATION"
      PROVE  InStep'
  <2>1. UNCHANGED <<state, srv, toClient, toServer, stale, batch, pc>>
    BY <1>1 DEF Login, NoSocketUse, socketVars
  <2>2. Coming' = Coming
    BY <2>1 DEF Coming
  <2> QED BY <2>1, <2>2, WithinSelf, NothingNew
<1>2. ASSUME NEW callback \in Callbacks, Login(callback), state = "AWAIT_AUTHENTICATION"
      PROVE  InStep'
  <2>1. transition_outgoing("AWAIT_AUTHENTICATION", "REQ") = "AUTHENTICATING"
    BY DEF transition_outgoing
  <2>2. SendIn("AUTHENTICATING", "REQ") /\ UNCHANGED <<pc, batch>>
    BY <1>2, <2>1 DEF Login
  <2>3. /\ toServer' = Append(toServer, "REQ") /\ state' = "AUTHENTICATING"
        /\ UNCHANGED <<toClient, srv, stale, batch, pc>>
    BY <2>2, SentOnOpenSocket
  <2>4. Coming' = Coming
    BY <2>3 DEF Coming
  <2>5. srv = "ready" /\ HandshakeTo(Coming) = {}
        /\ (pc = "login_cb" => stale)
    BY <1>2 DEF InStep, StatesAgree
  <2>6. HandshakeTo(toServer) = {}
    <3>1. \A i \in 1 .. Len(toServer) : toServer[i] # "CHR" /\ toServer[i] # "REQ"
      BY <1>2 DEF InStep, ReceiversAwaitIt
    <3>2. \A i \in 1 .. Len(toServer) : toServer[i] \in FromClient
      BY ElementOfSeq DEF TypeOK, SocketTypeOK
    <3> QED BY <3>1, <3>2, MessageKinds
            DEF HandshakeTo, ServerHandshake, ClientHandshake, ChallengeReply, Verdict, AuthError
  <2>7. \A i \in 1 .. Len(toServer) : toServer[i] # "APP"
    BY <1>2 DEF InStep, ReceiversAwaitIt
  <2>8. AtMostOneHandshake' /\ ReceiversAwaitIt'
    BY <2>3, <2>4, <2>5, <2>6, <2>7, HandshakeSent
       DEF AtMostOneHandshake, ReceiversAwaitIt, ClientHandshake
  <2>9. StatesAgree'
    BY <2>3, <2>4, <2>5 DEF StatesAgree
  <2> QED BY <2>8, <2>9 DEF InStep
<1>3. CASE Close
  BY <1>3 DEF Close, CloseSocket, SocketCloses, Undisturbed
<1>4. ASSUME NEW ok \in BOOLEAN, SendApp(ok) PROVE InStep'
  BY <1>0, <1>4, SendAppSends
<1>5. CASE CallbackThrows
  <2>1. /\ batch' = <<>> /\ pc' = "app"
        /\ UNCHANGED <<state, srv, toServer, toClient, stale>>
    BY <1>5 DEF CallbackThrows, Unwind, NoSocketUse, socketVars, clientVars
  <2>2. /\ batch \in Seq(Any) /\ toClient \in Seq(Any)
        /\ <<>> \o toClient = toClient
    BY ComingIs, ConcatEmptySeq DEF TypeOK, SocketTypeOK, Any
  <2>3. Within(Coming', Coming)
    <3>1. CASE stale
      BY <2>1, <3>1, WithinSelf DEF Coming
    <3>2. CASE ~stale
      BY <2>1, <2>2, <3>2, WithinUnwound DEF Coming
    <3> QED BY <3>1, <3>2
  <2> QED BY <2>1, <2>3, WithinSelf, NothingNew
<1> QED BY <1>1, <1>2, <1>3, <1>4, <1>5 DEF User

LEMMA ReadingInStep ==
    ASSUME TypeOK, InStep, Frames, ProcessMessages \/ Reading, Undisturbed' PROVE InStep'
<1> DEFINE Same == UNCHANGED <<state, srv, toServer>> /\ pc' # "login_cb"
<1>1. ASSUME Same, Within(Coming', Coming) PROVE InStep'
  BY <1>1, WithinSelf, NothingNew
<1>2. CASE ProcessMessages
  <2>1. batch = <<>> /\ batch' = <<>> /\ toClient' = toClient /\ Same
    BY <1>2 DEF ProcessMessages, Frames, Running, socketVars, clientVars
  <2>2. Coming' = Coming
    <3>1. <<>> \o toClient = toClient
      BY ConcatEmptySeq DEF TypeOK, SocketTypeOK
    <3> QED BY <2>1, <3>1 DEF Coming
  <2> QED BY <1>1, <2>1, <2>2, WithinSelf
<1>3. ASSUME NEW m \in FromServer, ReadFrame(m) PROVE InStep'
  <2>1. /\ toClient # <<>> /\ toClient' = Tail(toClient)
        /\ batch' = Append(batch, Head(toClient)) /\ stale' = stale
        /\ Same
    BY <1>3 DEF ReadFrame, SocketReads, clientVars, Running
  <2>2. toClient \in Seq(Any) /\ batch \in Seq(Any)
    BY ComingIs DEF TypeOK, SocketTypeOK, Any
  <2>3. CASE stale
    BY <1>1, <2>1, <2>2, <2>3, WithinTail DEF Coming
  <2>4. CASE ~stale
    <3>1. Coming' = Coming
      BY <2>1, <2>2, <2>4, WithinRead DEF Coming
    <3> QED BY <1>1, <2>1, <3>1, WithinSelf
  <2> QED BY <2>3, <2>4
<1>4. CASE ReadEnd
  BY <1>4 DEF ReadEnd, SocketReadsEnd, Undisturbed
<1>5. CASE ReadPauses
  <2>1. Same /\ UNCHANGED <<toClient, batch, stale>>
    BY <1>5 DEF ReadPauses, AfterRead, NoSocketUse, socketVars, clientVars
  <2>2. Coming' = Coming
    BY <2>1 DEF Coming
  <2> QED BY <1>1, <2>1, <2>2, WithinSelf
<1> QED BY <1>2, <1>3, <1>4, <1>5 DEF Reading

LEMMA DispatchingInStep ==
    ASSUME TypeOK, InStep, Frames, Dispatching, Undisturbed' PROVE InStep'
<1>t. /\ batch \in Seq(Any) /\ toClient \in Seq(Any)
      /\ batch # <<>> => Head(batch) \in FromServer
  BY ComingIs, HeadTailProperties DEF TypeOK, SocketTypeOK, Any
\* A handler that neither sends nor moves the state.
<1>a. ASSUME UNCHANGED <<state, srv, toServer>>, Within(Coming', Coming), pc' # "login_cb"
      PROVE  InStep'
  BY <1>a, WithinSelf, NothingNew
<1>b. ASSUME batch # <<>>, batch' = Tail(batch), ~stale, ~stale', toClient' = toClient
      PROVE  Within(Coming', Coming)
  BY <1>b, <1>t, WithinHandled DEF Coming
<1>1. CASE HandlePing
  <2>0. state # "ERROR"
    BY DEF InStep, StatesAgree
  <2>1. transition_outgoing(transition_incoming(state, "PI"), "PO") = state
    BY DEF transition_incoming, transition_outgoing
  <2>2. SendIn(state, "PO") /\ batch # <<>> /\ batch' = Tail(batch) /\ pc' = pc /\ ~stale
    BY <1>1, <2>0, <2>1, HandledInTime DEF HandlePing, Continue, Receive, Upcoming
  <2>3. toServer' = Append(toServer, "PO") /\ UNCHANGED <<state, toClient, srv, stale>>
    BY <2>2, SentOnOpenSocket
  <2>4. Within(Coming', Coming)
    BY <1>b, <2>2, <2>3
  <2> QED BY <2>2, <2>3, <2>4, OtherSent, NothingNew
<1>2. CASE HandleChallenge
  <2>1. /\ ~stale /\ batch # <<>> /\ Head(batch) = "CH" /\ pc = "dispatch"
        /\ "CH" \in ServerHandshake
    BY <1>2, HandledInTime DEF HandleChallenge, Receive, Upcoming, Running, ServerHandshake
  <2>3. /\ 1 \in HandshakeTo(Coming) /\ Coming[1] = "CH"
    BY <1>t, <2>1, OneTaken, MessageKinds DEF Coming, InStep, AtMostOneHandshake
  <2>4. state = "AWAIT_CONNECTION" /\ srv = "challenged"
    BY <2>3 DEF InStep, ReceiversAwaitIt, Expected
  <2>5. /\ transition_incoming("AWAIT_CONNECTION", "CH") = "CHALLENGING"
        /\ transition_outgoing("CHALLENGING", "CHR") = "CHALLENGING_WAIT"
    BY DEF transition_incoming, transition_outgoing
  <2>6. SendIn("CHALLENGING_WAIT", "CHR") /\ batch' = Tail(batch) /\ pc' = pc
    BY <1>2, <2>4, <2>5 DEF HandleChallenge, Continue
  <2>7. /\ toServer' = Append(toServer, "CHR") /\ state' = "CHALLENGING_WAIT"
        /\ UNCHANGED <<toClient, srv, stale>>
    BY <2>6, SentOnOpenSocket
  <2>8. HandshakeTo(Coming') = {} /\ HandshakeTo(toServer) = {}
    BY <2>1, <2>6, <2>7, HandshakeHandled
  <2>9. \A i \in 1 .. Len(toServer) : toServer[i] # "APP"
    BY <2>4 DEF InStep, ReceiversAwaitIt
  <2>10. AtMostOneHandshake' /\ ReceiversAwaitIt'
    BY <2>4, <2>7, <2>8, <2>9, HandshakeSent
       DEF AtMostOneHandshake, ReceiversAwaitIt, ClientHandshake
  <2>11. StatesAgree'
    BY <2>1, <2>6, <2>7 DEF StatesAgree
  <2> QED BY <2>10, <2>11 DEF InStep
<1>3. CASE HandleChallengeAccepted
  <2>1. /\ ~stale /\ batch # <<>> /\ Head(batch) = "CA" /\ pc = "dispatch"
        /\ "CA" \in ServerHandshake
    BY <1>3, HandledInTime DEF HandleChallengeAccepted, Receive, Upcoming, Running,
       ServerHandshake, ChallengeReply
  <2>2. /\ 1 \in HandshakeTo(Coming) /\ Coming[1] = "CA"
    BY <1>t, <2>1, OneTaken, MessageKinds DEF Coming, InStep, AtMostOneHandshake
  <2>3. state = "CHALLENGING_WAIT" /\ srv = "ready"
    BY <2>2 DEF InStep, ReceiversAwaitIt, Expected
  <2>4. /\ transition_incoming("CHALLENGING_WAIT", "CA") = "AWAIT_AUTHENTICATION"
        /\ transition_outgoing("AWAIT_AUTHENTICATION", "REQ") = "AUTHENTICATING"
    BY DEF transition_incoming, transition_outgoing
  <2>5. \A i \in 1 .. Len(toServer) : toServer[i] # "APP"
    BY <2>3 DEF InStep, ReceiversAwaitIt
  <2>6. CASE login = "none"
    <3>1. /\ state' = "AWAIT_AUTHENTICATION" /\ batch' = Tail(batch) /\ pc' = pc
          /\ UNCHANGED <<toClient, toServer, srv, stale>>
      BY <1>3, <2>3, <2>4, <2>6
         DEF HandleChallengeAccepted, Continue, NoSocketUse, socketVars
    <3>2. HandshakeTo(Coming') = {} /\ HandshakeTo(toServer) = {}
      BY <2>1, <3>1, HandshakeHandled
    <3>3. \A i \in 1 .. Len(toServer) : toServer[i] # "CHR" /\ toServer[i] # "REQ"
      BY <3>2 DEF HandshakeTo, ClientHandshake
    <3>4. AtMostOneHandshake' /\ ReceiversAwaitIt'
      BY <2>5, <3>1, <3>2, <3>3 DEF AtMostOneHandshake, ReceiversAwaitIt
    <3>5. StatesAgree'
      BY <2>1, <2>3, <3>1, <3>2 DEF StatesAgree
    <3> QED BY <3>4, <3>5 DEF InStep
  <2>7. CASE login # "none"
    <3>1. SendIn("AUTHENTICATING", "REQ") /\ batch' = Tail(batch) /\ pc' = pc
      BY <1>3, <2>3, <2>4, <2>7 DEF HandleChallengeAccepted, Continue
    <3>2. /\ toServer' = Append(toServer, "REQ") /\ state' = "AUTHENTICATING"
          /\ UNCHANGED <<toClient, srv, stale>>
      BY <3>1, SentOnOpenSocket
    <3>3. HandshakeTo(Coming') = {} /\ HandshakeTo(toServer) = {}
      BY <2>1, <3>1, <3>2, HandshakeHandled
    <3>4. AtMostOneHandshake' /\ ReceiversAwaitIt'
      BY <2>3, <2>5, <3>2, <3>3, HandshakeSent
         DEF AtMostOneHandshake, ReceiversAwaitIt, ClientHandshake
    <3>5. StatesAgree'
      BY <2>1, <3>1, <3>2 DEF StatesAgree
    <3> QED BY <3>4, <3>5 DEF InStep
  <2> QED BY <2>6, <2>7
<1>4. CASE HandleRedirect
  BY <1>4 DEF HandleRedirect, NoSocketUse, socketVars, Undisturbed
<1>5. CASE HandleReject
  <2>1. /\ ~stale /\ batch # <<>> /\ Head(batch) = "REJ" /\ pc = "dispatch"
        /\ "REJ" \in ServerHandshake
    BY <1>5, HandledInTime DEF HandleReject, Receive, Upcoming, Running,
       ServerHandshake, ChallengeReply
  <2>2. /\ batch' = Tail(batch) /\ pc' = pc
        /\ UNCHANGED <<toClient, toServer, srv, stale>>
        /\ state' = transition_incoming(state, "REJ")
    BY <1>5 DEF HandleReject, Continue, NoSocketUse, socketVars
  <2>3. Expected("REJ") /\ HandshakeTo(Coming') = {} /\ HandshakeTo(toServer) = {}
    BY <2>1, <2>2, HandshakeHandled
  <2>4. state = "CHALLENGING_WAIT" /\ srv = "rejected" /\ state' = "CLOSED"
    BY <2>2, <2>3 DEF Expected, transition_incoming
  <2>5. \A i \in 1 .. Len(toServer) :
          toServer[i] # "APP" /\ toServer[i] # "CHR" /\ toServer[i] # "REQ"
    BY <2>3, <2>4 DEF InStep, ReceiversAwaitIt, HandshakeTo, ClientHandshake
  <2>6. AtMostOneHandshake' /\ ReceiversAwaitIt'
    BY <2>2, <2>3, <2>5 DEF AtMostOneHandshake, ReceiversAwaitIt
  <2>7. StatesAgree'
    BY <2>1, <2>2, <2>4 DEF StatesAgree
  <2> QED BY <2>6, <2>7 DEF InStep
<1>6. CASE HandleAuthError
  BY <1>6 DEF HandleAuthError, CloseSocket, SocketCloses, Undisturbed
<1>7. CASE HandleAuthAck
  <2>1. /\ ~stale /\ batch # <<>> /\ Head(batch) = "AA" /\ pc = "dispatch"
        /\ "AA" \in ServerHandshake
    BY <1>7, HandledInTime DEF HandleAuthAck, Receive, Upcoming, Running,
       ServerHandshake, Verdict
  <2>2. UNCHANGED <<toClient, toServer, srv, stale>>
    BY <1>7 DEF HandleAuthAck, NoSocketUse, socketVars
  <2>3. /\ 1 \in HandshakeTo(Coming) /\ Coming[1] = "AA"
    BY <1>t, <2>1, OneTaken, MessageKinds DEF Coming, InStep, AtMostOneHandshake
  <2>4. state = "AUTHENTICATING" /\ srv = "authed"
    BY <2>3 DEF InStep, ReceiversAwaitIt, Expected
  <2>5. CASE batch' = Tail(batch)
    <3>1. HandshakeTo(Coming') = {} /\ HandshakeTo(toServer) = {}
      BY <2>1, <2>2, <2>5, HandshakeHandled
    <3>2. state' \in {"OPEN", "AUTHENTICATING"} /\ (pc' = "login_cb" => state' = state)
      <4>1. transition_incoming("AUTHENTICATING", "AA") = "OPEN"
        BY DEF transition_incoming
      <4> QED BY <1>7, <2>1, <2>4, <4>1 DEF HandleAuthAck, FinishAuth, Unwind
    <3>3. \A i \in 1 .. Len(toServer) :
            toServer[i] # "APP" /\ toServer[i] # "CHR" /\ toServer[i] # "REQ"
      BY <3>1, <2>4 DEF InStep, ReceiversAwaitIt, HandshakeTo, ClientHandshake
    <3>4. AtMostOneHandshake' /\ ReceiversAwaitIt'
      BY <2>2, <3>1, <3>3 DEF AtMostOneHandshake, ReceiversAwaitIt
    <3>5. StatesAgree'
      BY <2>2, <2>4, <3>1, <3>2 DEF StatesAgree
    <3> QED BY <3>4, <3>5 DEF InStep
  <2>6. CASE batch' = <<>> /\ state' = state /\ pc' = "app"
    <3>1. Within(Coming', Coming)
      <4>1. <<>> \o toClient = toClient
        BY <1>t, ConcatEmptySeq
      <4> QED BY <1>t, <2>1, <2>2, <2>6, <4>1, WithinUnwound DEF Coming
    <3> QED BY <1>a, <2>2, <2>6, <3>1
  <2> QED BY <1>7, <2>5, <2>6 DEF HandleAuthAck, Unwind
<1>8. CASE HandleApp
  <2>1. /\ batch # <<>> /\ batch' = Tail(batch) /\ pc' = "event_cb"
        /\ UNCHANGED <<state, srv, toServer, toClient, stale>>
    BY <1>8 DEF HandleApp, Receive, Upcoming, NoSocketUse, socketVars, clientVars
  <2>2. ~stale
    BY <1>8, HandledInTime DEF HandleApp
  <2> QED BY <1>a, <1>b, <2>1, <2>2
<1>9. CASE OnMessageReturns
  <2>1. pc' = "app" /\ UNCHANGED <<state, srv, toServer, toClient, batch, stale>>
    BY <1>9 DEF OnMessageReturns, NoSocketUse, socketVars, clientVars
  <2>2. Coming' = Coming
    BY <2>1 DEF Coming
  <2> QED BY <1>a, <2>1, <2>2, WithinSelf
<1> QED BY <1>1, <1>2, <1>3, <1>4, <1>5, <1>6, <1>7, <1>8, <1>9 DEF Dispatching

LEMMA ReturnsInStep ==
    ASSUME TypeOK, InStep, Returns, Undisturbed' PROVE InStep'
<1>1. /\ UNCHANGED <<srv, toServer, toClient, batch, stale>>
      /\ pc' # "login_cb"
  BY DEF Returns, ConstructorReturns, LoginCallbackReturns, CallbacksReturn, FinishAuth,
         NoSocketUse, socketVars
<1>2. Coming' = Coming
  BY <1>1 DEF Coming
<1>3. CASE state' = state
  BY <1>1, <1>2, <1>3, WithinSelf, NothingNew
<1>4. CASE LoginCallbackReturns
  <2>1. ~stale
    BY <1>4 DEF LoginCallbackReturns, Undisturbed, TypeOK
  <2>2. state = "AUTHENTICATING" /\ srv = "authed" /\ HandshakeTo(Coming) = {}
    BY <1>4, <2>1 DEF LoginCallbackReturns, Running, InStep, StatesAgree
  <2>3. state' = "OPEN"
    BY <1>4, <2>2 DEF LoginCallbackReturns, FinishAuth, transition_incoming
  <2>4. \A i \in 1 .. Len(toServer) :
          toServer[i] # "APP" /\ toServer[i] # "CHR" /\ toServer[i] # "REQ"
    BY <2>2 DEF InStep, ReceiversAwaitIt
  <2>5. AtMostOneHandshake' /\ ReceiversAwaitIt' /\ StatesAgree'
    BY <1>1, <1>2, <2>2, <2>3, <2>4
       DEF InStep, AtMostOneHandshake, ReceiversAwaitIt, StatesAgree
  <2> QED BY <2>5 DEF InStep
<1> QED BY <1>3, <1>4 DEF Returns, ConstructorReturns, CallbacksReturn, clientVars

LEMMA PeerInStep ==
    ASSUME TypeOK, InStep, Peer, Undisturbed' PROVE InStep'
<1> DEFINE hand == InHand(batch, stale)
<1>t. /\ toClient \in Seq(Any) /\ hand \in Seq(Any) /\ toServer \in Seq(FromClient)
      /\ Coming = hand \o toClient
  BY ComingIs DEF TypeOK, SocketTypeOK, Any, Coming
<1>u. UNCHANGED <<state, pc, batch, stale>>
  BY DEF Peer, clientVars, stackVars
<1>p. toClient' \in Seq(Any) => Coming' = hand \o toClient'
  BY <1>u, ComingIs DEF TypeOK, Coming, Any
<1> HIDE DEF hand
\* The server receives a message ...
<1>r. ASSUME NEW m, ServerReceives(m)
      PROVE  /\ Within(toServer', toServer)
             /\ \A i \in 1 .. Len(toServer') :
                  \E j \in 1 .. Len(toServer) : toServer'[i] = toServer[j]
             /\ 1 \in 1 .. Len(toServer) /\ toServer[1] = m
  <2>1. toServer # <<>> /\ Head(toServer) = m /\ toServer' = Tail(toServer)
    BY <1>r DEF ServerReceives
  <2>2. Within(toServer', toServer)
    BY <1>t, <2>1, WithinTail
  <2>3. \A i \in 1 .. Len(toServer') :
          i + 1 \in 1 .. Len(toServer) /\ toServer'[i] = toServer[i + 1]
    BY <1>t, <2>1, HeadTailProperties, LenProperties
  <2>4. 1 \in 1 .. Len(toServer) /\ toServer[1] = m
    BY <1>t, <2>1, EmptySeq
  <2> QED BY <2>2, <2>3, <2>4
\* ... and answers it.
<1>s. ASSUME NEW m \in ClientHandshake, ServerReceives(m),
             NEW r \in ServerHandshake, toClient' = Append(toClient, r)
      PROVE  /\ AtMostOneHandshake'
             /\ HandshakeTo(toServer') = {}
             /\ \A i \in HandshakeTo(Coming') : Coming'[i] = r
  <2>1. r \in Any
    BY <1>s DEF Any, FromServer
  <2>2. toClient' \in Seq(Any) /\ Coming' = Append(Coming, r) /\ Coming \in Seq(Any)
    <3>1. toClient' = Append(toClient, r)
      BY <1>s
    <3>2. toClient' \in Seq(Any)
      BY <1>t, <2>1, <3>1, AppendProperties
    <3>3. hand \o Append(toClient, r) = Append(hand \o toClient, r)
      BY <1>t, <2>1, ConcatAppend
    <3>4. Coming \in Seq(Any)
      BY <1>t, ConcatProperties
    <3>5. Coming' = Append(Coming, r)
      BY <1>p, <1>t, <3>1, <3>2, <3>3
    <3> QED BY <3>2, <3>4, <3>5
  <2>3. /\ toServer # <<>> /\ toServer' = Tail(toServer)
        /\ 1 \in HandshakeTo(toServer)
    BY <1>r, <1>s DEF HandshakeTo, ServerReceives
  <2>4. HandshakeTo(Coming) = {} /\ \A i, j \in HandshakeTo(toServer) : i = j
    BY <2>3 DEF InStep, AtMostOneHandshake
  <2>5. HandshakeTo(toServer') = {}
    <3>1. \A i \in HandshakeTo(Tail(toServer)) :
            i \in Nat \ {0} /\ i + 1 \in HandshakeTo(toServer)
      BY <1>t, <2>3, HeadTailProperties, LenProperties DEF HandshakeTo
    <3> QED BY <2>3, <2>4, <3>1
  <2>6. /\ HandshakeTo(Coming') \subseteq {Len(Coming) + 1}
        /\ Coming'[Len(Coming) + 1] = r
    BY <2>1, <2>2, <2>4, OneAdded
  <2> QED BY <2>5, <2>6 DEF AtMostOneHandshake
<1>1. CASE ServerAnswersChallenge
  <2>1. PICK r \in Replies :
          /\ toClient' = Append(toClient, r)
          /\ srv' = CASE r = "CA" -> "ready"
                      [] r = "RED" -> "redirected"
                      [] r = "REJ" -> "rejected"
    BY <1>1 DEF ServerAnswersChallenge
  <2>2. ServerReceives("CHR") /\ "CHR" \in ClientHandshake
    BY <1>1 DEF ServerAnswersChallenge, ClientHandshake
  <2>3. r \in ChallengeReply /\ r \in ServerHandshake
    BY <2>1, RepliesAssumption DEF ServerHandshake
  <2>4. state = "CHALLENGING_WAIT"
    BY <1>r, <2>2 DEF InStep, ReceiversAwaitIt
  <2>5. /\ AtMostOneHandshake' /\ HandshakeTo(toServer') = {}
        /\ \A i \in HandshakeTo(Coming') : Coming'[i] = r
    BY <1>s, <2>1, <2>2, <2>3
  <2>6. Expected(r)'
    BY <1>u, <2>1, <2>3, <2>4 DEF Expected, ChallengeReply, ClientHandshake, AuthError
  <2>7. \A i \in 1 .. Len(toServer') :
          toServer'[i] # "CHR" /\ toServer'[i] # "REQ" /\ toServer'[i] # "APP"
    BY <1>r, <2>2, <2>4, <2>5 DEF InStep, ReceiversAwaitIt, HandshakeTo, ClientHandshake
  <2>8. ReceiversAwaitIt'
    <3>1. \A i \in HandshakeTo(Coming') : Expected(Coming[i])'
      BY <2>5, <2>6 DEF Expected
    <3> QED BY <2>7, <3>1 DEF ReceiversAwaitIt
  <2>9. StatesAgree'
    BY <1>u, <2>4 DEF StatesAgree, InStep
  <2> QED BY <2>5, <2>8, <2>9 DEF InStep
<1>2. CASE ServerAnswersLogin
  <2>1. PICK v \in Verdicts :
          toClient' = Append(toClient, v) /\ srv' = IF v = "AA" THEN "authed" ELSE "ready"
    BY <1>2 DEF ServerAnswersLogin
  <2>2. ServerReceives("REQ") /\ "REQ" \in ClientHandshake /\ srv = "ready"
    BY <1>2 DEF ServerAnswersLogin, ClientHandshake
  <2>3. v \in Verdict /\ v \in ServerHandshake
    BY <2>1, VerdictsAssumption DEF ServerHandshake
  <2>4. state = "AUTHENTICATING"
    BY <1>r, <2>2 DEF InStep, ReceiversAwaitIt
  <2>5. /\ AtMostOneHandshake' /\ HandshakeTo(toServer') = {}
        /\ \A i \in HandshakeTo(Coming') : Coming'[i] = v
    BY <1>s, <2>1, <2>2, <2>3
  <2>6. Expected(v)'
    BY <1>u, <2>1, <2>3, <2>4 DEF Expected, Verdict, ClientHandshake, AuthError
  <2>7. \A i \in 1 .. Len(toServer') :
          toServer'[i] # "CHR" /\ toServer'[i] # "REQ" /\ toServer'[i] # "APP"
    BY <1>r, <2>2, <2>4, <2>5 DEF InStep, ReceiversAwaitIt, HandshakeTo, ClientHandshake
  <2>8. ReceiversAwaitIt'
    <3>1. \A i \in HandshakeTo(Coming') : Expected(Coming[i])'
      BY <2>5, <2>6 DEF Expected
    <3> QED BY <2>7, <3>1 DEF ReceiversAwaitIt
  <2>9. StatesAgree'
    <3>1. ~(pc = "login_cb" /\ ~stale)
      BY <2>2 DEF InStep, StatesAgree
    <3> QED BY <1>u, <2>4, <3>1 DEF StatesAgree, InStep
  <2> QED BY <2>5, <2>8, <2>9 DEF InStep
<1>3. CASE ServerConsumes
  <2>1. Coming' = Coming /\ srv' = srv
    BY <1>3, <1>u DEF ServerConsumes, Coming
  <2> QED BY <1>3, <1>r, <1>u, <2>1, WithinSelf, NothingNew DEF ServerConsumes
<1>4. CASE ServerSends(InFlight)
  <2>1. PICK m \in {"PI", "APP"} : toClient' = Append(toClient, m)
    BY <1>4 DEF ServerSends
  <2>2. toServer' = toServer /\ srv' = srv
    BY <1>4 DEF ServerSends
  <2>3. m \in Any /\ ~IsHandshake(m)
    BY <2>1, MessageKinds DEF Any, FromServer
  <2>4. toClient' \in Seq(Any) /\ Coming' = Append(Coming, m) /\ Coming \in Seq(Any)
    BY <1>p, <1>t, <2>1, <2>3, ConcatAppend, AppendProperties, ConcatProperties
  <2>5. Within(Coming', Coming)
    BY <2>3, <2>4, WithinAppend
  <2> QED BY <1>u, <2>2, <2>5, WithinSelf, NothingNew
<1>5. CASE LinkEnds
  <2>1. PICK n \in 0 .. Len(toClient), end \in SocketEnd :
          toClient' = Append(SubSeq(toClient, 1, n), end)
    BY <1>5 DEF LinkEnds
  <2>2. toServer' = toServer /\ srv' = srv
    BY <1>5 DEF LinkEnds
  <2>3. end \in Any /\ ~IsHandshake(end)
    BY <2>1, MessageKinds DEF Any
  <2>4. SubSeq(toClient, 1, n) \in Seq(Any)
    BY <1>t, <2>1, SubSeqProperties, ElementOfSeq, LenProperties
  <2>5. Coming' = hand \o toClient'
    BY <1>p, <2>1, <2>3, <2>4, AppendProperties
  <2>6. Within(Coming', Coming)
    BY <1>t, <2>1, <2>3, <2>5, WithinCut
  <2> QED BY <1>u, <2>2, <2>6, WithinSelf, NothingNew
<1> QED BY <1>1, <1>2, <1>3, <1>4, <1>5 DEF Peer, ServerAnswers

LEMMA LockstepStep ==
    ASSUME TypeOK, Frames, Lockstep, [Next]_vars PROVE Lockstep'
<1> SUFFICES ASSUME Undisturbed' PROVE InStep'
  BY DEF Lockstep, InStep
<1>0. TypeOK'
  BY TypeStep
<1>1. CASE Opening
  BY <1>0, <1>1, OpeningInStep
<1>2. ASSUME Undisturbed PROVE InStep
  BY <1>2 DEF Lockstep, InStep
<1>3. CASE User
  <2>1. Undisturbed
    <3>1. ASSUME NEW s, NEW m, SendIn(s, m), tainted' = tainted PROVE Undisturbed
      BY <3>1, SentOnOpenSocket DEF Undisturbed
    <3>2. ASSUME NEW callback \in Callbacks, Login(callback) PROVE Undisturbed
      BY <3>1, <3>2 DEF Login, NoSocketUse, socketVars, Undisturbed
    <3>3. CASE Close
      BY <3>3 DEF Close, CloseSocket, SocketCloses, Undisturbed
    <3>4. ASSUME NEW ok \in BOOLEAN, SendApp(ok) PROVE Undisturbed
      BY <3>1, <3>4, SendAppSends
    <3>5. CASE CallbackThrows
      BY <3>5 DEF CallbackThrows, NoSocketUse, socketVars, Undisturbed
    <3> QED BY <1>3, <3>2, <3>3, <3>4, <3>5 DEF User
  <2> QED BY <1>2, <1>3, <2>1, UserInStep
<1>4. CASE ProcessMessages \/ Reading
  <2>1. UNCHANGED <<ws, opening, tainted>>
    <3>1. CASE ProcessMessages
      BY <3>1 DEF ProcessMessages, socketVars
    <3>2. ASSUME NEW m \in FromServer, ReadFrame(m) PROVE UNCHANGED <<ws, opening, tainted>>
      BY <3>2 DEF ReadFrame, SocketReads
    <3>3. CASE ReadEnd
      BY <3>3 DEF ReadEnd, SocketReadsEnd, Undisturbed
    <3>4. CASE ReadPauses
      BY <3>4 DEF ReadPauses, NoSocketUse, socketVars
    <3> QED BY <1>4, <3>1, <3>2, <3>3, <3>4 DEF Reading
  <2>2. Undisturbed
    BY <2>1 DEF Undisturbed
  <2> QED BY <1>2, <1>4, <2>2, ReadingInStep
<1>5. CASE Dispatching
  <2>1. Undisturbed
    <3>1. ASSUME NEW s, NEW m, SendIn(s, m), tainted' \/ ~tainted PROVE Undisturbed
      BY <3>1, SentOnOpenSocket DEF Undisturbed
    <3>2. ASSUME NoSocketUse, tainted' \/ ~tainted PROVE Undisturbed
      BY <3>2 DEF NoSocketUse, socketVars, Undisturbed
    <3>3. ASSUME NEW m, Receive(m) PROVE tainted' \/ ~tainted
      BY <3>3 DEF Receive
    <3>4. CASE HandlePing \/ HandleChallenge \/ HandleChallengeAccepted
      BY <3>1, <3>2, <3>3, <3>4 DEF HandlePing, HandleChallenge, HandleChallengeAccepted
    <3>5. CASE HandleRedirect
      BY <3>2, <3>3, <3>5 DEF HandleRedirect, Undisturbed
    <3>6. CASE HandleReject \/ HandleAuthAck \/ HandleApp \/ OnMessageReturns
      BY <3>2, <3>3, <3>6 DEF HandleReject, HandleAuthAck, HandleApp, OnMessageReturns
    <3>7. CASE HandleAuthError
      BY <3>7 DEF HandleAuthError, CloseSocket, SocketCloses, Undisturbed
    <3> QED BY <1>5, <3>4, <3>5, <3>6, <3>7 DEF Dispatching
  <2> QED BY <1>2, <1>5, <2>1, DispatchingInStep
<1>6. CASE Returns
  <2>1. UNCHANGED <<ws, opening>> /\ (tainted => tainted')
    <3>1. CASE ConstructorReturns \/ CallbacksReturn
      BY <3>1 DEF ConstructorReturns, CallbacksReturn, NoSocketUse, socketVars
    <3>2. CASE LoginCallbackReturns
      BY <3>2 DEF LoginCallbackReturns, NoSocketUse, socketVars
    <3> QED BY <1>6, <3>1, <3>2 DEF Returns
  <2>2. Undisturbed
    BY <2>1 DEF Undisturbed
  <2> QED BY <1>2, <1>6, <2>2, ReturnsInStep
<1>7. CASE Peer
  <2>1. Undisturbed
    BY <1>7 DEF Peer, ServerAnswers, ServerAnswersChallenge, ServerAnswersLogin,
       ServerConsumes, ServerReceives, ServerSends, LinkEnds, stackVars, Undisturbed
  <2> QED BY <1>2, <1>7, <2>1, PeerInStep
<1>8. CASE UNCHANGED vars
  <2>1. Undisturbed /\ UNCHANGED <<state, srv, toServer, toClient, batch, stale, pc>>
    BY <1>8 DEF vars, socketVars, clientVars, stackVars, Undisturbed
  <2>2. Coming' = Coming
    BY <2>1 DEF Coming
  <2> QED BY <1>2, <2>1, <2>2, WithinSelf, NothingNew
<1> QED BY <1>1, <1>3, <1>4, <1>5, <1>6, <1>7, <1>8 DEF Next

\* Client and server are in lockstep, whatever the number of messages in
\* flight, of reconnections and of nested calls, and whatever the server
\* answers.  (handle_connection_response, handle_authentication_response)
THEOREM AlwaysInLockstep == Spec => []Lockstep
<1>1. Init => Frames /\ Lockstep
  BY DEF Init, Frames, Lockstep, Undisturbed
<1>2. TypeOK /\ Frames /\ Lockstep /\ [Next]_vars => Frames' /\ Lockstep'
  BY FramesStep, LockstepStep
<1> QED BY <1>1, <1>2, TypeCorrect, PTL DEF Spec

\* Unless a stale message drove the handshake, an OPEN client talks to a server
\* that accepted its login on this very socket, and only such a server is sent
\* application messages.  (Connection::send, transition_incoming)
THEOREM OpenIsAuthenticated == Spec => []OpenMeansAuthenticated
<1>1. Lockstep => OpenMeansAuthenticated
  BY DEF Lockstep, ReceiversAwaitIt, StatesAgree, OpenMeansAuthenticated
<1> QED BY <1>1, AlwaysInLockstep, PTL
=============================================================================
