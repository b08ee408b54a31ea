-------------------------- MODULE MCInputController --------------------------
(* Instances of InputController for TLC: the maps of Mappings.cpp cut down  *)
(* to the inputs A and ALWAYS; the other values are in the .cfg files.      *)
EXTENDS InputController, TLC

MCInputs == {"A", "ALWAYS"}

MCHandled == [MOUSE |-> {"A", "ALWAYS"}, CEMU_RELAY_3DS |-> {"ALWAYS"}]
MCMaps == DOMAIN MCHandled

MCDefaultMap == [InputMouse |-> "MOUSE", InputCemuRelay3DS |-> "CEMU_RELAY_3DS"]
MCKinds == DOMAIN MCDefaultMap

Symmetry == Permutations(Controllers)
=============================================================================
