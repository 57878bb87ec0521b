----------------------------- MODULE MCGpioPins -----------------------------
(***************************************************************************)
(* At boot the pins are inputs or all have an alternate function (4), the  *)
(* three sensor pins each on its own.                                      *)
(***************************************************************************)
EXTENDS GpioPins

SensorPins == {7, 8, 18}

MCBoots ==
  {[p \in Pins |-> IF p \in SensorPins THEN s[p] ELSE others] :
     s \in [SensorPins -> {0, 4}], others \in {0, 4}}
=============================================================================
