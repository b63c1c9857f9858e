--------------------------- MODULE MCModelInstall ---------------------------
(* Symmetry for ModelInstall: files are only names.                        *)
EXTENDS ModelInstall, TLC

FileSymmetry == Permutations(Files)
=============================================================================
