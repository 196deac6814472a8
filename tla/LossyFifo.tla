------------------------------ MODULE LossyFifo ------------------------------
(***************************************************************************)
(* What a stream with a consumer promises its reader: the entries sent are *)
(* numbered 1, 2, ...; each comes out at most once and in order, and some  *)
(* never come out.  A chain of such channels is again one.                 *)
(***************************************************************************)
EXTENDS Naturals, Sequences

VARIABLES
  sent,   \* how many entries have been sent
  out     \* the entries that came out

LastOut == IF out = <<>> THEN 0 ELSE out[Len(out)]

Init ==
  /\ sent = 0
  /\ out = <<>>

Send ==
  /\ sent' = sent + 1
  /\ out' = out

\* The next entry comes out; those between it and the last one are lost.
Receive ==
  /\ \E e \in (LastOut + 1)..sent : out' = Append(out, e)
  /\ sent' = sent

Next == Send \/ Receive

Spec == Init /\ [][Next]_<<sent, out>>
=============================================================================
