----------------------------- MODULE MCHubManager -----------------------------
(* HubManager on small instances. *)
EXTENDS HubManager, TLC

\* The slots of settlers are interchangeable: no action and no property names one.
SlotSymmetry == Permutations(Settlers)

\* Devices of one kind too, in a run without liveness in which all have a test image.
DeviceSymmetry == SlotSymmetry \cup Permutations(Serials)
=============================================================================
