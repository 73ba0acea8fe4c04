---------------------------- MODULE FileTransfer ----------------------------
(***************************************************************************)
(* What a file transfer promises to the receiving side: of the len bytes   *)
(* that the sending side can read, they arrive in order, each once, and    *)
(* success is reported for all of them only.                               *)
(***************************************************************************)
EXTENDS Integers, Sequences

VARIABLES len, out, status

vars == <<len, out, status>>

Prefix(n) == [i \in 1..n |-> i]

Init == len \in Nat /\ out = << >> /\ status = "none"

\* Some bytes that follow the ones already there are appended.
Deliver ==
  /\ status = "none"
  /\ \E n \in (Len(out) + 1)..len : out' = Prefix(n)
  /\ UNCHANGED <<len, status>>

Succeed ==
  /\ status = "none" /\ Len(out) = len
  /\ status' = "ok"
  /\ UNCHANGED <<len, out>>

Fail ==
  /\ status = "none"
  /\ status' = "fail"
  /\ UNCHANGED <<len, out>>

Next == Deliver \/ Succeed \/ Fail

Spec == Init /\ [][Next]_vars
=============================================================================
