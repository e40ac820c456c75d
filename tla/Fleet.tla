-------------------------------- MODULE Fleet ---------------------------------
(***************************************************************************)
(* The phones of the farm, named by serial everywhere in the program.      *)
(***************************************************************************)
CONSTANTS
  Serials,   \* device serials
  None       \* no device

ASSUME FleetAssumption == None \notin Serials
=============================================================================
