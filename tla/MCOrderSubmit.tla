---------------------------- MODULE MCOrderSubmit -----------------------------
(* Constants of OrderSubmit for TLC: two symbols, one held at the start, cash *)
(* for less than the targets together ask for.                                *)
EXTENDS OrderSubmit

CONSTANTS a, b

MCListing == <<a, b>>
MCInitial == (a :> 2) @@ (b :> 0)
MCTargets == (a :> {0, 1, 3}) @@ (b :> {0, 1})
MCPrice == (a :> 1) @@ (b :> 1)

===============================================================================
