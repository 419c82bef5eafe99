---------------------------- MODULE MessageWire ----------------------------
(***************************************************************************)
(* What a transport promises the client that calls Recv: the messages of   *)
(* the server in the order it sent them and without a gap, up to an end    *)
(* that comes only when the connection is broken, and behind which there   *)
(* is nothing.  The last messages before the end may be lost.              *)
(***************************************************************************)
EXTENDS Naturals, Sequences

VARIABLES
  sent,         \* messages the server has sent, numbered from one
  got,          \* the messages Recv returned
  broken,
  ended         \* Recv has returned an error

vars == <<sent, got, broken, ended>>

Init == sent = 0 /\ got = <<>> /\ broken = FALSE /\ ended = FALSE

Put == sent' = sent + 1 /\ UNCHANGED <<got, broken, ended>>

Get ==
  /\ ~ended /\ Len(got) < sent
  /\ got' = Append(got, Len(got) + 1)
  /\ UNCHANGED <<sent, broken, ended>>

Break == broken' = TRUE /\ UNCHANGED <<sent, got, ended>>

End == broken /\ ended' = TRUE /\ UNCHANGED <<sent, got, broken>>

Next == Put \/ Get \/ Break \/ End

Spec == Init /\ [][Next]_vars
=============================================================================
