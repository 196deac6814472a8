---------------------------- MODULE MCDashboard ----------------------------
(* A tab, the sockets it and another tab of its user open, and another user's messages. *)
EXTENDS Dashboard, TLC

CONSTANTS s1, s2
Symmetric == Permutations({s1, s2})

Others == Len(SelectSeq(log, LAMBDA m : m.ch # Me))

\* Behaviours are followed until CardCurrent has nothing more to say, or there have been
\* more than three versions and messages of others: the step that goes beyond (a fourth
\* version; the fourth and fifth of an UPDATE that leaves the other writer's columns) is
\* the last.
Followed == ~raced /\ made + Others <= 3
=============================================================================
