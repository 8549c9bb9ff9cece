------------------------------- MODULE Socket -------------------------------
(***************************************************************************)
(* The websocket of the client (PocoWSHandler, src/src/lib/poco-ws.cpp),   *)
(* the TCP connection under it and the server at the other end.            *)
(*                                                                         *)
(* Only the socket that websocket_ points to is represented: when it is    *)
(* closed or replaced, whatever was in flight on it is gone.  The server   *)
(* and the network are external to src/; they are modelled from the        *)
(* handshake that connection.cpp expects and from the results and          *)
(* exceptions that poco-ws.cpp handles.                                    *)
(***************************************************************************)
EXTENDS Naturals, Sequences, Protocol

CONSTANTS
    Replies,        \* the server's possible answers to C|CHR
    Verdicts,       \* the server's possible answers to A|REQ
    MaxInFlight     \* unsolicited messages stop at this many in flight

ASSUME RepliesAssumption == Replies \subseteq ChallengeReply
ASSUME VerdictsAssumption == Verdicts \subseteq Verdict
ASSUME MaxInFlightAssumption == MaxInFlight \in Nat

VARIABLES
    ws,             \* PocoWSHandler::state_
    toClient,       \* frames sent by the server and not yet read
    toServer,       \* messages sent by the client and not yet received
    srv             \* what the server thinks of this socket

socketVars == <<ws, toClient, toServer, srv>>

WSState == {"ERROR", "OPEN", "CLOSED"}
ServerState == {"none", "challenged", "ready", "redirected", "rejected", "authed"}

(***************************************************************************)
(* How a socket ends, as read_frame sees it: a close frame, a read of zero *)
(* bytes, or an exception (connection reset, or a frame larger than the    *)
(* rest of the read buffer).                                               *)
(***************************************************************************)
SocketEnd == {"CLOSE", "EOF", "EXCEPTION"}

SocketTypeOK ==
    /\ ws \in WSState
    /\ toClient \in Seq(FromServer \cup SocketEnd)
    /\ toServer \in Seq(FromClient)
    /\ srv \in ServerState

SocketInit ==
    /\ ws = "CLOSED"
    /\ toClient = <<>>
    /\ toServer = <<>>
    /\ srv = "none"

-----------------------------------------------------------------------------
\* The client's side.

\* websocket_ is destroyed, or about to be replaced.
DropSocket ==
    /\ toClient' = <<>>
    /\ toServer' = <<>>
    /\ srv' = "none"

\* open() succeeds; the server greets a new client with C|CH.
SocketOpens ==
    /\ ws' = "OPEN"
    /\ toClient' = <<"CH">>
    /\ toServer' = <<>>
    /\ srv' = "challenged"

\* open() catches a NetException.
SocketFailsToOpen ==
    /\ ws' = "ERROR"
    /\ DropSocket

\* send() writes the whole frame.
SocketSends(m) ==
    /\ ws = "OPEN"
    /\ toServer' = Append(toServer, m)
    /\ UNCHANGED <<ws, toClient, srv>>

\* send() on a socket that is not open, or an IOException, or a partial write.
SocketFailsToSend ==
    /\ ws' = "ERROR"
    /\ DropSocket

\* close()
SocketCloses ==
    /\ ws' = IF ws = "OPEN" THEN "CLOSED" ELSE ws
    /\ DropSocket

\* One receiveFrame that returns a message frame.
SocketReads(m) ==
    /\ toClient # <<>>
    /\ m = Head(toClient)
    /\ m \notin SocketEnd
    /\ toClient' = Tail(toClient)
    /\ UNCHANGED <<ws, toServer, srv>>

\* One receiveFrame that ends the socket.
SocketReadsEnd ==
    /\ toClient # <<>>
    /\ Head(toClient) \in SocketEnd
    /\ ws' = IF Head(toClient) = "EXCEPTION" THEN "ERROR" ELSE "CLOSED"
    /\ DropSocket

-----------------------------------------------------------------------------
\* The server and the network.

\* The peer can still talk: no end of the socket is on its way.
LinkUp ==
    /\ srv # "none"
    /\ \A i \in 1 .. Len(toClient) : toClient[i] \notin SocketEnd

ServerReceives(m) ==
    /\ LinkUp
    /\ toServer # <<>>
    /\ Head(toServer) = m
    /\ toServer' = Tail(toServer)
    /\ UNCHANGED ws

ServerAnswersChallenge ==
    /\ ServerReceives("CHR")
    /\ srv = "challenged"
    /\ \E r \in Replies :
        /\ toClient' = Append(toClient, r)
        /\ srv' = CASE r = "CA" -> "ready"
                    [] r = "RED" -> "redirected"
                    [] r = "REJ" -> "rejected"

ServerAnswersLogin ==
    /\ ServerReceives("REQ")
    /\ srv = "ready"
    /\ \E v \in Verdicts :
        /\ toClient' = Append(toClient, v)
        /\ srv' = IF v = "AA" THEN "authed" ELSE "ready"

\* Everything else is consumed without an answer.
ServerConsumes ==
    /\ \E m \in FromClient :
        /\ ServerReceives(m)
        /\ m = "CHR" => srv # "challenged"
        /\ m = "REQ" => srv # "ready"
    /\ UNCHANGED <<toClient, srv>>

\* Heartbeats at any time, application messages to an authenticated client.
ServerSends(inFlight) ==
    /\ LinkUp
    /\ inFlight < MaxInFlight
    /\ \E m \in {"PI"} \cup (IF srv = "authed" THEN {"APP"} ELSE {}) :
        toClient' = Append(toClient, m)
    /\ UNCHANGED <<ws, toServer, srv>>

\* The server hangs up or the network fails; a suffix of what it sent is lost.
LinkEnds ==
    /\ LinkUp
    /\ \E n \in 0 .. Len(toClient), end \in SocketEnd :
        toClient' = Append(SubSeq(toClient, 1, n), end)
    /\ UNCHANGED <<ws, toServer, srv>>

ServerAnswers == ServerAnswersChallenge \/ ServerAnswersLogin \/ ServerConsumes
=============================================================================
