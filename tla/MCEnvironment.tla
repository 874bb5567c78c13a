--------------------------- MODULE MCEnvironment ---------------------------
(* Settings and temperatures for model-checking Environment. *)
EXTENDS Environment

MCSeed     == [tempThreshold |-> 30, samplingInterval |-> 600]
MCDefaults == [tempThreshold |-> 3, samplingInterval |-> 60]

(* A page may save an interval of no minutes. *)
MCChosen == {[tempThreshold |-> 20, samplingInterval |-> 0]}

(* Below and above the thresholds of all settings but the defaults. *)
MCTemps == {10, 45}
=============================================================================
