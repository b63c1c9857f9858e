---------------------------- MODULE MCClipboard -----------------------------
(* Model values and symmetry for Clipboard: the calls of one kind differ   *)
(* in nothing but their names.                                             *)
EXTENDS Clipboard, TLC

CallSymmetry == Permutations(Pastes) \cup Permutations(Probes)
=============================================================================
