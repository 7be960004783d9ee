----------------------------- MODULE MCSampling -----------------------------
(* Two plugins with a sampler each, "hb" at twice the interval of "cxi".      *)
EXTENDS Sampling

MCPlugins == {"hb", "cxi"}
MCSamplers == {"slow", "fast"}
MCArgv == <<"hb", "cxi">>
MCPluginOf == [s \in MCSamplers |-> IF s = "slow" THEN "hb" ELSE "cxi"]
MCInterval == [s \in MCSamplers |-> IF s = "slow" THEN 2 ELSE 1]
MCFloor == -3
=============================================================================
