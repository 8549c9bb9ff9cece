----------------------------- MODULE Connection -----------------------------
(***************************************************************************)
(* The connection state machine of the client: Connection                  *)
(* (src/src/core/connection.cpp) driving the websocket of module Socket.   *)
(*                                                                         *)
(* The client is single-threaded and its calls nest: process_messages()    *)
(* reads frames, hands the buffer to on_message(), which runs the          *)
(* application's callbacks, which call the client again.  pc names the     *)
(* function on top of the C++ stack:                                       *)
(*    ctor      the constructor, which opens the socket                    *)
(*    app       none: the application's own code runs                      *)
(*    read      the loop of process_messages() over read_frame()           *)
(*    dispatch  the loop of on_message() over the parsed messages          *)
(*    event_cb  a callback of Event or Presence                            *)
(*    login_cb  the login callback                                         *)
(*    flush     Event::on_connection_state_change_(OPEN)                   *)
(* opening is set while ws_handler_.open() runs on top of these: it calls  *)
(* itself through on_error() and on_close(), always in tail position, so   *)
(* a flag is all of its stack.  Between two calls anything may happen on   *)
(* the network.                                                            *)
(***************************************************************************)
EXTENDS Socket

CONSTANTS
    Callbacks,      \* the login callbacks in use: "fn" or "empty"
    Throwing,       \* the callbacks that may throw: "event_cb", "login_cb"
    Secure          \* a wss socket, whose reads may time out

ASSUME CallbacksAssumption == Callbacks \subseteq {"fn", "empty"}
ASSUME ThrowingAssumption == Throwing \subseteq {"event_cb", "login_cb"}
ASSUME SecureAssumption == Secure \in BOOLEAN

VARIABLES
    state,                  \* state_
    deliberate_close,       \* deliberate_close_
    reconnection_attempt,   \* reconnection_attempt_
    login,                  \* p_login_callback_ and p_auth_params_; "none" if null
    opening,                \* ws_handler_.open() is running
    pc,                     \* see above
    batch,                  \* frames read, or parsed messages not yet handled
    stale,                  \* history: batch was read from a socket that is gone
    tainted                 \* history: this socket was driven by a stale message

clientVars == <<state, deliberate_close, reconnection_attempt, login>>
stackVars == <<opening, pc, batch>>
vars == <<socketVars, clientVars, stackVars, stale, tainted>>

MaxAttempts == 3            \* the limit in on_close()

PC == {"ctor", "app", "read", "dispatch", "event_cb", "login_cb", "flush"}

\* Every variable holds a value its C++ counterpart can have.
TypeOK ==
    /\ SocketTypeOK
    /\ state \in ConnectionState
    /\ deliberate_close \in BOOLEAN
    /\ reconnection_attempt \in 0 .. MaxAttempts
    /\ login \in {"none", "fn", "empty"}
    /\ opening \in BOOLEAN
    /\ pc \in PC
    /\ batch \in Seq(FromServer)
    /\ stale \in BOOLEAN
    /\ tainted \in BOOLEAN

InFlight == Len(toClient) + Len(toServer) + Len(batch)

\* The constructor has called ws_handler.open(), which is running.
Init ==
    /\ SocketInit
    /\ state = "CLOSED"
    /\ deliberate_close = FALSE
    /\ reconnection_attempt = 0
    /\ login = "none"
    /\ opening = TRUE
    /\ pc = "ctor"
    /\ batch = <<>>
    /\ stale = FALSE
    /\ tainted = FALSE

-----------------------------------------------------------------------------
\* Pieces of the actions.

\* The socket is gone: on_close() gives up or counts an attempt and reopens.
GiveUpOrReopen(giveUp) ==
    /\ stale' = TRUE
    /\ opening' = ~giveUp
    /\ IF giveUp
       THEN /\ state' = "CLOSED"
            /\ UNCHANGED reconnection_attempt
       ELSE /\ state' = "RECONNECTING"
            /\ reconnection_attempt' = reconnection_attempt + 1

on_closeLate == GiveUpOrReopen(deliberate_close \/ reconnection_attempt > MaxAttempts)
on_closeEager == GiveUpOrReopen(deliberate_close \/ reconnection_attempt + 1 >= MaxAttempts)
on_closeForgetful == GiveUpOrReopen(reconnection_attempt >= MaxAttempts)

\* on_close(), also the whole of on_error().
on_close == GiveUpOrReopen(deliberate_close \/ reconnection_attempt >= MaxAttempts)

\* state(s), then ws_handler_.send(m), which succeeds ...
SendSucceeds(s, m) ==
    /\ SocketSends(m)
    /\ state' = s
    /\ UNCHANGED <<reconnection_attempt, opening, stale>>

\* ... or fails and calls on_error().
SendFails == SocketFailsToSend /\ on_close

SendIn(s, m) == SendSucceeds(s, m) \/ SendFails

\* close()
CloseSocket ==
    /\ SocketCloses
    /\ deliberate_close' = TRUE
    /\ stale' = TRUE
    /\ UNCHANGED <<reconnection_attempt, opening>>

\* An exception leaves process_messages() and destroys its buffer.
Unwind ==
    /\ pc' = "app"
    /\ batch' = <<>>

\* Handlers that do not touch the socket, on_close() included.
NoSocketUse == UNCHANGED <<socketVars, reconnection_attempt, opening, stale>>

Running(frame) == pc = frame /\ ~opening

\* The application may call the client: from its own code or from a callback.
UserRuns == pc \in {"app", "event_cb", "login_cb"} /\ ~opening

-----------------------------------------------------------------------------
\* PocoWSHandler::open(), as called by the constructor, on_close() and URI().

OpenSucceeds ==
    /\ opening
    /\ SocketOpens
    /\ opening' = FALSE
    /\ reconnection_attempt' = 0
    /\ state' = "AWAIT_CONNECTION"
    /\ tainted' = FALSE
    /\ UNCHANGED <<deliberate_close, login, pc, batch, stale>>

OpenFails ==
    /\ opening
    /\ SocketFailsToOpen
    /\ on_close
    /\ UNCHANGED <<deliberate_close, login, pc, batch, tainted>>

ConstructorReturns ==
    /\ Running("ctor")
    /\ pc' = "app"
    /\ NoSocketUse
    /\ UNCHANGED <<state, deliberate_close, login, batch, tainted>>

-----------------------------------------------------------------------------
\* Calls of the application.

LoginAnytime(callback) ==   \* without the test of AWAIT_AUTHENTICATION
    /\ UserRuns
    /\ state # "OPEN"
    /\ login' = callback
    /\ SendIn(transition_outgoing(state, "REQ"), "REQ")
    /\ UNCHANGED <<deliberate_close, pc, batch, tainted>>

Login(callback) ==
    /\ UserRuns
    /\ state # "OPEN"
    /\ login' = callback
    /\ IF state = "AWAIT_AUTHENTICATION"
       THEN SendIn(transition_outgoing(state, "REQ"), "REQ")
       ELSE NoSocketUse /\ UNCHANGED state
    /\ UNCHANGED <<deliberate_close, pc, batch, tainted>>

CloseSilently ==            \* close() without its call of on_close()
    /\ UserRuns
    /\ CloseSocket
    /\ UNCHANGED <<state, login, pc, batch, tainted>>

Close ==
    /\ UserRuns
    /\ CloseSocket
    /\ state' = "CLOSED"
    /\ UNCHANGED <<login, pc, batch, tainted>>

SendAppUnchecked(ok) ==     \* without the test of the state
    /\ UserRuns \/ Running("flush")
    /\ ok => InFlight < MaxInFlight
    /\ IF ok THEN SendSucceeds(state, "APP") ELSE SendFails
    /\ UNCHANGED <<deliberate_close, login, pc, batch, tainted>>

\* Event and Presence call send(), which refuses unless the state is OPEN and
\* otherwise returns ok.
SendApp(ok) ==
    /\ UserRuns \/ Running("flush")
    /\ state = "OPEN"
    /\ ok => InFlight < MaxInFlight
    /\ IF ok THEN SendSucceeds(state, "APP") ELSE SendFails
    /\ UNCHANGED <<deliberate_close, login, pc, batch, tainted>>

-----------------------------------------------------------------------------
\* PocoWSHandler::process_messages()

ProcessMessages ==
    /\ Running("app")
    /\ ws = "OPEN"
    /\ toClient # <<>>
    /\ pc' = "read"
    /\ stale' = FALSE
    /\ UNCHANGED <<socketVars, clientVars, opening, batch, tainted>>

\* process_messages() is done reading.
AfterRead == IF batch = <<>> THEN "app" ELSE "dispatch"

ReadFrame(m) ==
    /\ Running("read")
    /\ SocketReads(m)
    /\ batch' = Append(batch, m)
    /\ UNCHANGED <<clientVars, opening, pc, stale, tainted>>

ReadEndAndGoOn ==           \* the loop does not stop at the end of the socket
    /\ Running("read")
    /\ SocketReadsEnd
    /\ on_close
    /\ UNCHANGED <<deliberate_close, login, pc, batch, tainted>>

\* read_frame() returns 0: the callback it makes may reopen the socket.
ReadEnd ==
    /\ Running("read")
    /\ SocketReadsEnd
    /\ on_close
    /\ pc' = AfterRead
    /\ UNCHANGED <<deliberate_close, login, batch, tainted>>

\* The socket is not readable now, or a secure socket timed out.
ReadPauses ==
    /\ Running("read")
    /\ batch # <<>> \/ Secure
    /\ pc' = AfterRead
    /\ NoSocketUse
    /\ UNCHANGED <<clientVars, batch, tainted>>

-----------------------------------------------------------------------------
\* Connection::on_message(): the loop over the parsed messages.

Upcoming(m) == Running("dispatch") /\ batch # <<>> /\ Head(batch) = m

Receive(m) ==
    /\ Upcoming(m)
    /\ tainted' = (tainted \/ stale)

\* on_message() goes on to the next message.
Continue == batch' = Tail(batch) /\ UNCHANGED pc

HandlePing ==
    LET pinged == transition_incoming(state, "PI")
        answering == transition_outgoing(pinged, "PO")
    IN  /\ Receive("PI")
        /\ \/ /\ answering # "ERROR"
              /\ SendIn(answering, "PO")
              /\ Continue
           \/ /\ answering = "ERROR"    \* send() throws
              /\ state' = pinged
              /\ Unwind
              /\ NoSocketUse
        /\ UNCHANGED <<deliberate_close, login>>

HandleChallenge ==
    LET challenging == transition_incoming(state, "CH")
        waiting == transition_outgoing(challenging, "CHR")
    IN  /\ Receive("CH")
        /\ \/ /\ waiting # "ERROR"
              /\ SendIn(waiting, "CHR")
              /\ Continue
           \/ /\ waiting = "ERROR"      \* send() throws
              /\ state' = challenging
              /\ Unwind
              /\ NoSocketUse
        /\ UNCHANGED <<deliberate_close, login>>

HandleChallengeAcceptedOnly ==  \* forgets a login() made before C|A
    /\ Receive("CA")
    /\ state' = transition_incoming(state, "CA")
    /\ Continue
    /\ NoSocketUse
    /\ UNCHANGED <<deliberate_close, login>>

HandleChallengeAccepted ==
    LET awaiting == transition_incoming(state, "CA")
        authenticating == transition_outgoing(awaiting, "REQ")
    IN  /\ Receive("CA")
        /\ \/ /\ login = "none"
              /\ state' = awaiting
              /\ Continue
              /\ NoSocketUse
           \/ /\ login # "none" /\ authenticating # "ERROR"
              /\ SendIn(authenticating, "REQ")
              /\ Continue
           \/ /\ login # "none" /\ authenticating = "ERROR"     \* send() throws
              /\ state' = awaiting
              /\ Unwind
              /\ NoSocketUse
        /\ UNCHANGED <<deliberate_close, login>>

\* PocoWSHandler::URI() replaces an open socket without closing it first.
HandleRedirect ==
    /\ Receive("RED")
    /\ state' = transition_incoming(state, "RED")
    /\ IF ws = "OPEN"
       THEN /\ opening' = TRUE
            /\ stale' = TRUE
            /\ DropSocket
            /\ UNCHANGED <<ws, reconnection_attempt>>
       ELSE NoSocketUse
    /\ Continue
    /\ UNCHANGED <<deliberate_close, login>>

\* No case of the switch is about C|REJ: only the transition happens.
HandleReject ==
    /\ Receive("REJ")
    /\ state' = transition_incoming(state, "REJ")
    /\ Continue
    /\ NoSocketUse
    /\ UNCHANGED <<deliberate_close, login>>

\* close() comes first, and only then the transition.
HandleAuthError ==
    \E m \in AuthError :
        /\ Receive(m)
        /\ CloseSocket
        /\ state' = transition_incoming("CLOSED", m)
        /\ Continue
        /\ UNCHANGED login

\* The tail of handle_authentication_response() for A|A.
FinishAuth ==
    /\ state' = transition_incoming(state, "AA")
    /\ pc' = IF state # "OPEN" /\ state' = "OPEN" THEN "flush" ELSE "dispatch"

HandleAuthAck ==
    /\ Receive("AA")
    /\ \/ /\ login = "none"
          /\ FinishAuth
          /\ batch' = Tail(batch)
       \/ /\ login = "fn"
          /\ pc' = "login_cb"
          /\ batch' = Tail(batch)
          /\ UNCHANGED state
       \/ /\ login = "empty"      \* std::bad_function_call
          /\ Unwind
          /\ UNCHANGED state
    /\ NoSocketUse
    /\ UNCHANGED <<deliberate_close, login>>

LoginCallbackReturns ==
    /\ Running("login_cb")
    /\ FinishAuth
    /\ tainted' = (tainted \/ stale)
    /\ NoSocketUse
    /\ UNCHANGED <<deliberate_close, login, batch>>

\* Event and Presence run the subscribers' callbacks, whatever the state.
HandleApp ==
    /\ Receive("APP")
    /\ pc' = "event_cb"
    /\ batch' = Tail(batch)
    /\ NoSocketUse
    /\ UNCHANGED clientVars

\* The last callback returns; on a change to OPEN, Event has sent what it had.
CallbacksReturn ==
    /\ Running("event_cb") \/ Running("flush")
    /\ pc' = "dispatch"
    /\ NoSocketUse
    /\ UNCHANGED <<clientVars, batch, tainted>>

\* An exception that no callback catches leaves process_messages(); the rest of
\* the batch, and of the handler, is lost.
CallbackThrows ==
    /\ UserRuns /\ pc \in Throwing
    /\ Unwind
    /\ NoSocketUse
    /\ UNCHANGED <<clientVars, tainted>>

OnMessageReturns ==
    /\ Running("dispatch")
    /\ batch = <<>>
    /\ pc' = "app"
    /\ NoSocketUse
    /\ UNCHANGED <<clientVars, batch, tainted>>

-----------------------------------------------------------------------------
Opening == OpenSucceeds \/ OpenFails

Reading == (\E m \in FromServer : ReadFrame(m)) \/ ReadEnd \/ ReadPauses

Dispatching ==
    \/ HandlePing \/ HandleChallenge \/ HandleChallengeAccepted
    \/ HandleRedirect \/ HandleReject \/ HandleAuthError \/ HandleAuthAck
    \/ HandleApp \/ OnMessageReturns

User ==
    \/ \E callback \in Callbacks : Login(callback)
    \/ Close
    \/ \E ok \in BOOLEAN : SendApp(ok)
    \/ CallbackThrows

Returns == ConstructorReturns \/ LoginCallbackReturns \/ CallbacksReturn

Peer ==
    /\ \/ ServerAnswers
       \/ ServerSends(InFlight)
       \/ LinkEnds
    /\ UNCHANGED <<clientVars, stackVars, stale, tainted>>

Next == Opening \/ User \/ ProcessMessages \/ Reading \/ Dispatching \/ Returns \/ Peer

Spec == Init /\ [][Next]_vars

(***************************************************************************)
(* Calls return, callbacks terminate, open() succeeds or fails, the        *)
(* application keeps polling and the server answers what it received.  No  *)
(* call of the application other than that is fair, and neither is         *)
(* anything that goes wrong.                                               *)
(***************************************************************************)
Fairness ==
    /\ WF_vars(Opening)
    /\ WF_vars(ProcessMessages)
    /\ WF_vars(Reading)
    /\ WF_vars(Dispatching)
    /\ WF_vars(Returns)
    /\ WF_vars(ServerAnswers /\ UNCHANGED <<clientVars, stackVars, stale, tainted>>)

FairSpec == Spec /\ Fairness

-----------------------------------------------------------------------------
(***************************************************************************)
(* Properties                                                              *)
(***************************************************************************)

\* What the client will still handle of what the current socket's server sent.
Coming == IF stale THEN toClient ELSE batch \o toClient

\* The state in which the client is ready for a handshake message, and the
\* server that sends it.
Expected(m) ==
    /\ m = "CH" => state = "AWAIT_CONNECTION" /\ srv = "challenged"
    /\ m = "CA" => state = "CHALLENGING_WAIT" /\ srv = "ready"
    /\ m = "RED" => state = "CHALLENGING_WAIT" /\ srv = "redirected"
    /\ m = "REJ" => state = "CHALLENGING_WAIT" /\ srv = "rejected"
    /\ m = "AA" => state = "AUTHENTICATING" /\ srv = "authed"
    /\ m \in AuthError => state = "AUTHENTICATING" /\ srv = "ready"
    /\ m \notin ClientHandshake

\* The client drives an open socket and only that socket's messages drove it.
Undisturbed == ws = "OPEN" /\ ~opening /\ ~tainted

HandshakeTo(q) == {i \in 1 .. Len(q) : q[i] \in ServerHandshake \cup ClientHandshake}

AtMostOneHandshake ==
    /\ \A i, j \in HandshakeTo(Coming) : i = j
    /\ \A i, j \in HandshakeTo(toServer) : i = j
    /\ HandshakeTo(Coming) = {} \/ HandshakeTo(toServer) = {}

ReceiversAwaitIt ==
    /\ \A i \in HandshakeTo(Coming) : Expected(Coming[i])
    /\ \A i \in 1 .. Len(toServer) :
        /\ toServer[i] = "CHR" => state = "CHALLENGING_WAIT" /\ srv = "challenged"
        /\ toServer[i] = "REQ" => state = "AUTHENTICATING" /\ srv = "ready"
        /\ toServer[i] = "APP" => state = "OPEN"

StatesAgree ==
    /\ state \in {"AWAIT_CONNECTION", "CHALLENGING_WAIT", "AWAIT_AUTHENTICATION",
                  "AUTHENTICATING", "OPEN", "CLOSED"}
    /\ state = "AWAIT_AUTHENTICATION" => srv = "ready" /\ HandshakeTo(Coming) = {}
    /\ pc = "login_cb" /\ ~stale =>
                          /\ state = "AUTHENTICATING"
                          /\ srv = "authed"
                          /\ HandshakeTo(Coming) = {}
    /\ state = "OPEN" => srv = "authed"
    /\ state = "CLOSED" => srv = "rejected"

\* Client and server are in lockstep: at most one handshake message is in
\* flight, in either direction, and it is the one that the receiver's state
\* waits for.  (handle_connection_response, handle_authentication_response)
Lockstep == Undisturbed => AtMostOneHandshake /\ ReceiversAwaitIt /\ StatesAgree

\* Unless a stale message drove the handshake, an OPEN client talks to a server
\* that accepted its login on this very socket, and only such a server is sent
\* application messages.  (Connection::send, transition_incoming)
OpenMeansAuthenticated ==
    Undisturbed =>
        /\ state = "OPEN" => srv = "authed"
        /\ \A i \in 1 .. Len(toServer) : toServer[i] = "APP" => srv = "authed"

\* After close() the client never opens a socket again, whatever was still
\* queued, and however late.  (deliberate_close_ in on_close, URI)
CloseIsFinal ==
    [][deliberate_close => deliberate_close' /\ ~opening' /\ ws' # "OPEN"]_vars

\* A client that is CLOSED without a socket was closed by the application or
\* has used up all of its attempts.  (on_close)
GivesUpOnlyAfterRetries ==
    state = "CLOSED" /\ ws # "OPEN" /\ ~opening /\ ~deliberate_close
        => reconnection_attempt = MaxAttempts

\* Once a socket lasts, a login whose callback does not throw ends in OPEN.
\* (login, handle_*_response)
LoginSucceeds ==
    <>[](Undisturbed /\ login # "none") => <>[](state = "OPEN")

\* Outside ws_handler_.open() the state is never RECONNECTING, and it is one of
\* a live connection only if there is a socket.  (state, on_open, on_close)
StateMatchesSocket ==
    ~opening /\ ws # "OPEN" => state \in {"CLOSED", "ERROR"}

\* Every call of the application ends, process_messages() included: nested
\* reconnections do not keep it.  (process_messages, on_message, on_close)
CallsReturn == (pc # "app" \/ opening) ~> (pc = "app" /\ ~opening)

-----------------------------------------------------------------------------
\* What the code says of itself, and does not keep.

\* send() asserts that the CONNECTION or AUTH message it is given is legal in
\* its state.  (connection.cpp:304)
SendIsLegal ==
    /\ Upcoming("PI") =>
         transition_outgoing(transition_incoming(state, "PI"), "PO") # "ERROR"
    /\ Upcoming("CH") =>
         transition_outgoing(transition_incoming(state, "CH"), "CHR") # "ERROR"
    /\ Upcoming("CA") /\ login # "none" =>
         transition_outgoing(transition_incoming(state, "CA"), "REQ") # "ERROR"
=============================================================================
