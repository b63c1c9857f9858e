---------------------------- MODULE MCDictation -----------------------------
(* Symmetry of the goroutine pools and of two plain hold keys, and a view  *)
(* without state.json, which no step reads: for safety runs only.          *)
EXTENDS Dictation, TLC

PoolSymmetry ==
  Permutations(HoldKeys \ ComposeKeys) \cup Permutations(Caps) \cup Permutations(Probes)
    \cup Permutations(Pipes) \cup Permutations(Recoveries)

NoFileView == <<core, note, recovery, pc, key, dispatchVars, handlerVars, chan, audio>>
=============================================================================
