------------------------- MODULE MCCartridgeWriter -------------------------
(* CartridgeWriter on a cartridge of three blocks, the first and the last of  *)
(* them boot sectors, as the first two and the last two are in the code.      *)
EXTENDS CartridgeWriter

Symmetry == Permutations(Values)
=============================================================================
