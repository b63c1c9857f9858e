------------------------------ MODULE Reasoning ------------------------------
(***************************************************************************)
(* stripReasoning, internal/daemon/reasoning.go: what is injected of a     *)
(* chat model's reply, whose chain of thought stands between tags.         *)
(*                                                                         *)
(* A reply is a sequence of opening tags, closing tags and runs of text;   *)
(* what is left of it, a set of positions.  Text that becomes a tag when a *)
(* block inside it is removed, and the trimmed white space, are left out.  *)
(***************************************************************************)
EXTENDS Naturals, Sequences, FiniteSetsExt

CONSTANT MaxLength   \* bound: tags and runs of text in a reply

VARIABLES
  reply,   \* the model's reply
  left,    \* positions of the reply that are still in s
  pc       \* the pass: start, blocks, closer, opener, done

vars == <<reply, left, pc>>

Positions  == 1 .. Len(reply)
Openers(S) == {i \in S : reply[i] = "open"}
Closers(S) == {i \in S : reply[i] = "close"}
Text       == {i \in Positions : reply[i] = "text"}

Replies(n) == UNION {[1 .. k -> {"open", "close", "text"}] : k \in 0 .. n}

Init ==
  /\ reply \in Replies(MaxLength)
  /\ left = 1 .. Len(reply)
  /\ pc = "start"

Pass(from, to) == pc = from /\ pc' = to /\ UNCHANGED reply

(* A reply without tags is returned as it is.                              *)
Starts ==
  /\ Pass("start", IF Openers(left) \cup Closers(left) = {} THEN "done" ELSE "blocks")
  /\ UNCHANGED left

(* thinkBlockRe: an opener up to the next closer, from left to right.      *)
BlockEnd_Greedy(i) == Max({k \in Closers(left) : k > i})
BlockEnd(i) == Min({k \in Closers(left) : k > i})

Blocks == {i \in Openers(left) : \E k \in Closers(left) : k > i}

BlockRemoved ==
  /\ Pass("blocks", "blocks") /\ Blocks # {}
  /\ left' = left \ (Min(Blocks) .. BlockEnd(Min(Blocks)))

BlocksEnd ==
  /\ Pass("blocks", "closer") /\ Blocks = {}
  /\ UNCHANGED left

(* A closer that is left had no opener: everything up to the last is       *)
(* dropped.                                                                *)
LastCloser == Max(Closers(left))

CloserCut ==
  /\ Pass("closer", "opener")
  /\ left' = IF Closers(left) = {} THEN left ELSE {i \in left : i > LastCloser}

(* An opener that is left was never closed: it is dropped, and what        *)
(* follows it.                                                             *)
OpenerCut ==
  /\ Pass("opener", "done")
  /\ left' = IF Openers(left) = {} THEN left ELSE {i \in left : i < Min(Openers(left))}

Next == Starts \/ BlockRemoved \/ BlocksEnd \/ CloserCut \/ OpenerCut

Spec == Init /\ [][Next]_vars
-----------------------------------------------------------------------------
(* The reading of the tags that does not depend on the passes.  i is       *)
(* inside a thought that was opened before it and not closed in between.   *)
Inside(i) ==
  \E j \in Openers(1 .. i - 1) : \A k \in j .. i - 1 : reply[k] # "close"

(* i stands before a closer that no thought contains.                      *)
BeforeLoneCloser(i) == \E k \in Closers(i + 1 .. Len(reply)) : ~Inside(k)

Answer == {i \in Text : ~Inside(i) /\ ~BeforeLoneCloser(i)}

(* No tag and no thought is injected, whatever shape the reply has, and all *)
(* of the answer is, the text between two thoughts included.               *)
AnswerIsLeft == pc = "done" => left = Answer
=============================================================================
