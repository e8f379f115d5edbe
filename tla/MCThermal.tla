----------------------------- MODULE MCThermal -----------------------------
(* Thermal with every temperature the parts stand, or those above freezing. *)
EXTENDS Thermal

FromZero == 0 .. 1040
AllTemperatures == -440 .. 1040
=============================================================================
