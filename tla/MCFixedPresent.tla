--------------------------- MODULE MCFixedPresent ---------------------------
(* Four images; files whose profiles change the multiplier, what is built  *)
(* in, their places, or lack the one in use, and one save of any of them,   *)
(* which a present may see finished, cut after its name or unusable; so two *)
(* reloads.  A process that names its profile, one that takes the           *)
(* catch-all, one with its own, one that may not write the default and one  *)
(* that is switched off.                                                    *)
EXTENDS FixedPresent

CONSTANTS i1, i2, i3, i4

MCImages == {i1, i2, i3, i4}
Alike == Permutations(MCImages)

Double == [DefaultProfile EXCEPT !.name = "a"]
Triple == [DefaultProfile EXCEPT !.name = "a", !.multiplier = 3, !.flow_auto = TRUE,
                                 !.active_in = <<"game", "*">>]
Plain == [DefaultProfile EXCEPT !.name = "b", !.multiplier = 1, !.scaler = "metalfx",
                                !.active_in = <<"*">>]

Single == [DefaultProfile EXCEPT !.name = "a", !.multiplier = 1]

SomeConfigs ==
  {Config(<<Double, Plain>>), Config(<<Plain, Triple>>), Config(<<Plain>>), Config(<<Single>>)}

Unset == [disabled |-> FALSE, env |-> FALSE, own |-> DefaultProfile, profile |-> {},
          names |-> {}, app |-> {}, config |-> FALSE, no_fp16 |-> FALSE]

SomeEnvs ==
  {[Unset EXCEPT !.profile = {"a"}, !.no_fp16 = TRUE],
   [Unset EXCEPT !.names = {"game"}, !.app = {"000000"}],
   [Unset EXCEPT !.env = TRUE],
   [Unset EXCEPT !.config = TRUE],
   [Unset EXCEPT !.disabled = TRUE]}

SomeCuts == {1, 5}

EveryCall == {"context", "reset", "grow", "dispatch", "generate", "starved", "copy", "present"}
=============================================================================
