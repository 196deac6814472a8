--------------------------- MODULE DelayAnalysis ---------------------------
(***************************************************************************)
(* analyse_order of services/delay_engine.py: what a set of active events  *)
(* does to one order.  An event is given by what it contributes to the     *)
(* order, [min, max, severity], the loop having weighed its predicted days *)
(* by distance and shipping mode; an event out of reach contributes 0.     *)
(*                                                                         *)
(* The list of matched events is sorted by contribution, the sort is       *)
(* stable and the list comes in Redis SCAN order, so of the events with    *)
(* the largest contribution any may be the one on top: an analysis is one  *)
(* of a set.                                                               *)
(***************************************************************************)
EXTENDS Naturals, FiniteSets, Functions

Severities == {"low", "medium", "high", "critical"}

\* DELIVERED is a status no code sets.
Statuses == {"ON_SCHEDULE", "MONITOR", "DELAY_RISK", "CRITICAL_DELAY"}

\* How late a status says an order is.
Rank == [ON_SCHEDULE |-> 0, MONITOR |-> 1, DELAY_RISK |-> 2, CRITICAL_DELAY |-> 3]

\* round(n / d): Python rounds a half to the even neighbour.
Rounded(n, d) ==
  LET q == n \div d
      r == n % d
  IN  IF 2 * r > d \/ (2 * r = d /\ q % 2 = 1) THEN q + 1 ELSE q

RoundHalf(n) == Rounded(n, 2)

-----------------------------------------------------------------------------
(* One event: the factors in hundredths, distances in whole km.  For delays of  *)
(* up to 199 days rounding the float products gives the same days.              *)

SHIPPING_MODE_FACTORS ==
  [mode \in {"Sea freight", "Multimodal", "Rail", "Road", "Air freight"} |->
    CASE mode = "Sea freight" -> 100
      [] mode = "Multimodal" -> 85
      [] mode = "Rail" -> 60
      [] mode = "Road" -> 50
      [] mode = "Air freight" -> 15]

DistanceFactor(km) ==
  CASE km < 200 -> 100
    [] km \in 200..499 -> 85
    [] km \in 500..799 -> 60
    [] OTHER -> 40

PROXIMITY_KM == 800
LaneKm == 400   \* an event on a lane the supplier uses counts as that close

\* An event beyond PROXIMITY_KM reaches a shipment by sea over a lane its supplier uses.
InReach(km, mode, onLane) ==
  km <= PROXIMITY_KM \/ (onLane /\ mode \in {"Sea freight", "Multimodal"})

Contribution(km, mode, onLane, days) ==
  IF InReach(km, mode, onLane)
  THEN LET effective == IF km > PROXIMITY_KM THEN LaneKm ELSE km
       IN  Rounded(days * DistanceFactor(effective) * SHIPPING_MODE_FACTORS[mode], 10000)
  ELSE 0

-----------------------------------------------------------------------------
(* All of them *)

DeriveStatus(delayMin, severity) ==
  CASE delayMin >= 14 \/ severity = "critical" -> "CRITICAL_DELAY"
    [] delayMin \in 3..13 /\ severity # "critical" -> "DELAY_RISK"
    [] delayMin \in 1..2 /\ severity # "critical" -> "MONITOR"
    [] OTHER -> "ON_SCHEDULE"

OnSchedule == [status |-> "ON_SCHEDULE", min |-> 0, max |-> 0, matched |-> {}]

\* The events that contribute at least a day.
Matched(contribution, active) == {e \in active : contribution[e].min > 0}

\* Faulty variant: the days shared out among the events.
CombinedShared(days, top, others) ==
  (days[top] + SumFunctionOnSet(days, others)) \div (Cardinality(others) + 1)

Halved(days) == [e \in DOMAIN days |-> RoundHalf(days[e])]

\* Full credit for the event on top, half for each of the others.
Combined(days, top, others) == days[top] + SumFunctionOnSet(Halved(days), others)

Analysis(contribution, matched, top) ==
  LET others == matched \ {top}
      min == Combined([e \in matched |-> contribution[e].min], top, others)
      max == Combined([e \in matched |-> contribution[e].max], top, others)
  IN  [status |-> DeriveStatus(min, contribution[top].severity),
       min |-> min, max |-> max, matched |-> matched]

\* Every analysis analyse_order can return for an order and a set of active events.
AnalysesOf(contribution, active) ==
  LET matched == Matched(contribution, active)
      tops == {t \in matched : \A e \in matched : contribution[e].min <= contribution[t].min}
  IN  IF matched = {} THEN {OnSchedule} ELSE {Analysis(contribution, matched, t) : t \in tops}
=============================================================================
