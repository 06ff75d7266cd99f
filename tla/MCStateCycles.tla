----------------------------- MODULE MCStateCycles ----------------------------
(* Constants of StateCycles for TLC: two sleeves, one with a live run, a seed   *)
(* command and a diagnostic run, the other with a seed command of its own.      *)
EXTENDS StateCycles

CONSTANTS leaps, rotation, krx, none, live, seed, probe, other

MCKeys == (Sleeves \X {"trailing_stop", "blend"} \X Symbols)
            \cup {UniverseKey(s) : s \in Sleeves}
MCSleeveOf == [w \in Writers |-> IF w = other THEN rotation ELSE leaps]
MCData == Prices \cup 1..Days

BlendKey == <<leaps, "blend", krx>>
MCModelPatches ==
  {[key |-> BlendKey, operation |-> "set", value |-> [f \in {"high"} |-> 1]],
   MergePatch(BlendKey, "selected", 1),
   [key |-> BlendKey, operation |-> "delete", value |-> <<>>]}
MCNoPatches == {}

UniversePatches == {MergePatch(UniverseKey(s), "selected", d) :
                      s \in Sleeves, d \in 1..Days}
MCBatches ==
  {<<p>> : p \in UniversePatches} \cup UNION {[1..n -> CyclePatches(s)] : n \in {1, 2}, s \in Sleeves}
===============================================================================
