------------------------------- MODULE Outbox -------------------------------
(***************************************************************************)
(* What Event promises of emit(): the server is delivered the emitted      *)
(* events in order and without gaps or repetitions, each of them at once   *)
(* or, when the connection is down, some time later.                       *)
(***************************************************************************)
EXTENDS Naturals, Sequences

CONSTANT Events

VARIABLES
    log,            \* everything that was emitted
    delivered       \* what was sent to the server

vars == <<log, delivered>>

Init ==
    /\ log = <<>>
    /\ delivered = <<>>

Submit(e) ==
    /\ log' = Append(log, e)
    /\ delivered' \in {delivered, log'}

Deliver(n) ==
    /\ delivered' = SubSeq(log, 1, n)
    /\ UNCHANGED log

Next ==
    \/ \E e \in Events : Submit(e)
    \/ \E n \in Len(delivered) .. Len(log) : Deliver(n)

Spec == Init /\ [][Next]_vars
=============================================================================
