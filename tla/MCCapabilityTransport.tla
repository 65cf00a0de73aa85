----------------------- MODULE MCCapabilityTransport -----------------------
(* Fault mixes and symmetry for checking CapabilityTransport with TLC.      *)
EXTENDS CapabilityTransport, TLC
NoDriftFaults == {"io", "crash"}
StableBindingFaults == {"io", "crash", "power", "damage"}
IOFaults == {"io"}
RestartFaults == {"crash", "power", "rebind"}
Symmetry == Permutations(Procs)
=============================================================================
