------------------------------ MODULE ChatStage ------------------------------
(***************************************************************************)
(* A chat stage of the pipeline with a local model: translate, enhance,    *)
(* compose and transform (pipeline.go) all ask the model and strip the     *)
(* reasoning from what it says.  A reply ends where the model ends it, or  *)
(* where its context is full: also in the middle of a thought.             *)
(***************************************************************************)
EXTENDS Chat

CONSTANT MaxLength   (* bound: tags and runs of text in a reply            *)

ASSUME StageAssumption == MaxLength \in Nat

VARIABLES reply, left, pass

Filter == INSTANCE Reasoning WITH pc <- pass

filterVars == <<reply, left, pass>>
stageVars == <<vars, filterVars>>

StageInit == Init /\ reply = <<>> /\ left = {} /\ pass = "done"

\* The stage begins.
Asks(m, n) ==
  /\ pass = "done"
  /\ Chat(m, n)
  /\ reply' = <<>> /\ left' = {} /\ UNCHANGED pass

\* Chat goes on, or returns an error, and so does the stage.
Waits ==
  /\ \/ NoContext \/ NewContext \/ Cancelled
     \/ Decode \/ ProcessUbatch \/ UbatchFails \/ DecodeFailed
     \/ ReplyEnds \/ NextToken
  /\ UNCHANGED filterVars

\* Chat returns a reply, of no more tags and runs of text than it has tokens.
Answers ==
  /\ ReplyEnds
  /\ \E r \in Filter!Replies(Smaller(i + 1, MaxLength)) :
       reply' = r /\ left' = 1 .. Len(r) /\ pass' = "start"

\* stripReasoning
Strips == Filter!Next /\ UNCHANGED vars

StageNext == (\E m \in Models, n \in PromptLengths : Asks(m, n)) \/ Waits \/ Answers \/ Strips

StageSpec == StageInit /\ [][StageNext]_stageVars
-----------------------------------------------------------------------------
(* A stage hands on the answer and nothing but the answer, whatever tags   *)
(* the reply has, and wherever it was cut (stripReasoning).                *)
OnlyTheAnswer == Filter!AnswerIsLeft
=============================================================================
