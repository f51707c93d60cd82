--------------------------- MODULE MCConfigStore ---------------------------
(* ConfigStore for TLC: the commands of a user differ only in name.        *)
EXTENDS ConfigStore, TLC

CONSTANTS x, y, z

MCSymmetry == Permutations(Procs)
=============================================================================
