-------------------------- MODULE MCOrderRecompute --------------------------
(* Orders and events for TLC: contributions as analyse_order weighs them. *)
EXTENDS OrderRecompute, TLC

CONSTANTS o1, o2, e1, e2, e3

D == INSTANCE DelayAnalysis

\* The events' predicted days and severity; where each order's supplier is.
Days == (e1 :> <<2, 4>>) @@ (e2 :> <<10, 15>>) @@ (e3 :> <<3, 4>>)
Severity == (e1 :> "medium") @@ (e2 :> "critical") @@ (e3 :> "medium")
Mode == (o1 :> "Sea freight") @@ (o2 :> "Rail")
Km == (o1 :> ((e1 :> 20) @@ (e2 :> 150) @@ (e3 :> 30)))
   @@ (o2 :> ((e1 :> 900) @@ (e2 :> 600) @@ (e3 :> 10)))

Contributions(o) ==
  [e \in Events |->
    [min |-> D!Contribution(Km[o][e], Mode[o], FALSE, Days[e][1]),
     max |-> D!Contribution(Km[o][e], Mode[o], FALSE, Days[e][2]),
     severity |-> Severity[e]]]

MCAnalyses ==
  [o \in Orders |-> [active \in SUBSET Events |-> D!AnalysesOf(Contributions(o), active)]]
=============================================================================
