------------------------------ MODULE Protocol ------------------------------
(***************************************************************************)
(* The vocabulary of the connection handshake and the client's two         *)
(* transition tables (src/src/core/connection.cpp).                        *)
(*                                                                         *)
(* A message is abstracted to its header; the payloads (URIs, credentials, *)
(* user data) do not influence the state machine.  "APP" stands for every  *)
(* message of the EVENT and PRESENCE topics.                               *)
(***************************************************************************)

ConnectionState == {"CLOSED", "AWAIT_CONNECTION", "CHALLENGING",
    "CHALLENGING_WAIT", "AWAIT_AUTHENTICATION", "AUTHENTICATING", "OPEN",
    "RECONNECTING", "ERROR"}

\* C|CH, C|A, C|RED, C|REJ: what a server says before the login ...
ChallengeReply == {"CA", "RED", "REJ"}
\* ... A|A and the three A|E messages: its verdict on the login.
AuthError == {"TMAA", "IAD", "IAM"}
Verdict == {"AA"} \cup AuthError

ServerHandshake == {"CH"} \cup ChallengeReply \cup Verdict
ClientHandshake == {"CHR", "REQ"}

FromServer == ServerHandshake \cup {"PI", "APP"}
FromClient == ClientHandshake \cup {"PO", "APP"}

\* Where an incoming CONNECTION or AUTH message takes the client.
transition_incoming(s, m) ==
    CASE m = "PI" -> s
      [] s = "AWAIT_CONNECTION" /\ m = "CH" -> "CHALLENGING"
      [] s = "CHALLENGING_WAIT" /\ m = "CA" -> "AWAIT_AUTHENTICATION"
      [] s = "CHALLENGING_WAIT" /\ m = "RED" -> "AWAIT_CONNECTION"
      [] s = "CHALLENGING_WAIT" /\ m = "REJ" -> "CLOSED"
      [] s = "AUTHENTICATING" /\ m = "AA" -> "OPEN"
      [] s = "AUTHENTICATING" /\ m = "IAD" -> "AWAIT_AUTHENTICATION"
      [] s = "AUTHENTICATING" /\ m \in {"TMAA", "IAM"} -> "CLOSED"
      [] s = "OPEN" /\ m # "PI" -> "OPEN"
      [] OTHER -> "ERROR"

\* Where an outgoing CONNECTION or AUTH message takes the client.
transition_outgoing(s, m) ==
    CASE m = "PO" -> s
      [] s = "CHALLENGING" /\ m = "CHR" -> "CHALLENGING_WAIT"
      [] s = "AWAIT_AUTHENTICATION" /\ m = "REQ" -> "AUTHENTICATING"
      [] OTHER -> "ERROR"
=============================================================================
