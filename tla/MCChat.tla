------------------------------- MODULE MCChat -------------------------------
(* Chat with small models: without a window, with a sliding one, and with a *)
(* chunked one; trained for less than gosaid's context, and for more.       *)
EXTENDS ChatStage

MCModels ==
  {[n_ctx_train |-> n, n_swa |-> 0, swa_type |-> "none"] : n \in {7, 60}}
  \cup
  {[n_ctx_train |-> 60, n_swa |-> w, swa_type |-> s] :
     w \in {3, 5}, s \in {"standard", "chunked"}}

MCPromptLengths == 1 .. 40
=============================================================================
