--------------------------- MODULE Transcription ----------------------------
(***************************************************************************)
(* whisper_full as gosaid calls it (whisper.go: greedy sampling, no time   *)
(* stamps, default temperatures): the audio is taken window by window; a   *)
(* window is decoded at temperature 0 and, when that fails, at higher and  *)
(* higher ones by several decoders at a time, each with its sequence in    *)
(* one key-value cache.  What was said so far conditions what comes next.  *)
(* The model and its state are kept from one recording to the next.        *)
(*                                                                         *)
(* A token is known by where it comes from: a call and a window of it.     *)
(***************************************************************************)
EXTENDS KVCache, SequencesExt

CONSTANTS
  n_text_ctx,      (* hparams.n_text_ctx: the positions the model knows     *)
  Pad,             (* what the cache's size is rounded up to, 256           *)
  best_of,         (* decoders at temperatures above 0                      *)
  NTemperatures,   (* how many temperatures are tried                       *)
  NConditioned,    (* how many of them are below the cutoff for history     *)
  NInit,           (* tokens that start a transcript: 4, or 2 in English    *)
  EntropyLen,      (* the length from which repetition is measured, 32      *)
  Lengths,         (* lengths of recordings, in frames of 10 ms             *)
  PromptLengths,   (* tokens of an initial prompt                           *)
  MaxCalls         (* bound: calls of Transcribe                            *)

ASSUME TranscriptionAssumption ==
  /\ n_text_ctx \in Nat /\ n_text_ctx \div 2 > 4
  /\ Pad \in Nat \ {0} /\ best_of \in Nat \ {0}
  /\ NTemperatures \in Nat \ {0} /\ NConditioned \in 0 .. NTemperatures
  /\ NInit \in 1 .. 4
  /\ EntropyLen \in Nat /\ MaxCalls \in Nat
  /\ Lengths \subseteq Nat /\ PromptLengths \subseteq Nat

VARIABLES
  pc,
  calls,           (* the number of this call                               *)
  args,            (* its recording, prompt and language                    *)
  seek,            (* the frame the window starts at                        *)
  it,              (* the temperature                                       *)
  i,               (* the token being decoded                               *)
  decoders,        (* the decoders of the state                             *)
  best,            (* best_decoder_id                                       *)
  no_speech,       (* the window is more likely silent than not             *)
  prompt_past1,    (* what was said so far                                  *)
  prompt,          (* what a window is decoded after                        *)
  batch,           (* the tokens last given to the model                    *)
  kv_self,         (* the key-value cache                                   *)
  kv_self_n_dec,   (* the decoders it is sized for                          *)
  result_all       (* the segments: the window each is from                 *)

\* The names of the specification differ from ModelCache's, since one module of
\* proofs extends both.
stateVars == <<prompt_past1, kv_self, kv_self_n_dec>>
whisperVars == <<pc, calls, args, seek, it, i, decoders, best, no_speech, prompt,
                 batch, result_all, stateVars>>

Window == 3000      \* 100 * WHISPER_CHUNK_SIZE
DeltaMin == 10
Rest == 500

Decoders == 0 .. best_of - 1
NMax_AllTheRest == n_text_ctx \div 2
NMax == n_text_ctx \div 2 - 4
MaxPrompt == n_text_ctx \div 2
Padded(n) == ((n + Pad - 1) \div Pad) * Pad

Prev == <<0, 0>>    \* the marker of what was said before
Task == <<0, 1>>    \* start, language, task and no time stamps
Given == <<calls, -1>>
Said == <<calls, seek>>

NoArgs == [n_len |-> 0, prompt |-> 0, auto |-> FALSE]
Fresh == [tokens |-> 0, result_len |-> 0, failed |-> FALSE, completed |-> FALSE]

WhisperInit ==
  /\ pc = "idle" /\ calls = 0 /\ args = NoArgs
  /\ seek = 0 /\ it = 0 /\ i = 0
  /\ decoders = [j \in Decoders |-> Fresh]
  /\ best = 0 /\ no_speech = FALSE
  /\ prompt_past1 = <<>> /\ prompt = <<>> /\ batch = <<>>
  /\ kv_self = NewCache(Padded(n_text_ctx)) /\ kv_self_n_dec = 1
  /\ result_all = <<>>

Goto(where) == pc' = where

\* A call ends, whatever its result; its locals are gone, the state is kept.
Returned ==
  /\ Goto("idle")
  /\ args' = NoArgs /\ seek' = 0 /\ it' = 0 /\ i' = 0 /\ best' = 0 /\ prompt' = <<>>
  /\ UNCHANGED <<calls, decoders, no_speech, batch, result_all, stateVars>>
-----------------------------------------------------------------------------
(* A call begins: the spectrum, the language, and the prompt. *)

Transcribe(n_len, n_prompt, auto) ==
  /\ pc = "idle" /\ calls < MaxCalls
  /\ calls' = calls + 1
  /\ args' = [n_len |-> n_len, prompt |-> n_prompt, auto |-> auto]
  /\ result_all' = <<>>
  /\ Goto(IF auto THEN "detect" ELSE "prepare")
  /\ UNCHANGED <<seek, it, i, decoders, best, no_speech, prompt, batch, stateVars>>

\* A computation of the engine fails: the call returns an error.
Fails ==
  /\ pc \in {"detect", "window", "attempt", "decode"}
  /\ pc = "window" => seek + DeltaMin < args.n_len
  /\ Returned

\* One token is decoded to see which language is likely to come next, in the
\* cache as the last call has left it.
DetectLanguage ==
  /\ pc = "detect"
  /\ batch' = << [pos |-> 0, seq_id |-> 0] >>
  /\ \E room \in {SeqRm(kv_self, 0, 0)} :
       \E h \in FindSlot(room, 1) : kv_self' = Place(room, batch', h)
  /\ Goto("prepare")
  /\ UNCHANGED <<calls, args, seek, it, i, decoders, best, no_speech, prompt_past1,
                 prompt, kv_self_n_dec, result_all>>

TooShort ==
  /\ pc = "prepare" /\ args.n_len < DeltaMin
  /\ Returned

\* no_context: nothing of the recording before is remembered.
Forgotten_Not == prompt_past1
Forgotten == <<>>

Prepare ==
  /\ pc = "prepare" /\ args.n_len >= DeltaMin
  /\ prompt_past1' = [k \in 1 .. args.prompt |-> Given] \o Forgotten
  /\ seek' = 0
  /\ Goto("window")
  /\ UNCHANGED <<calls, args, it, i, decoders, best, no_speech, prompt, batch,
                 kv_self, kv_self_n_dec, result_all>>
-----------------------------------------------------------------------------
(* A window, and the temperatures it is tried at. *)

Return ==
  /\ pc = "window" /\ seek + DeltaMin >= args.n_len
  /\ Returned

\* What was said before a short rest is forgotten.
Encode ==
  /\ pc = "window" /\ seek + DeltaMin < args.n_len
  /\ prompt_past1' = IF seek > 0 /\ seek + Rest >= args.n_len THEN <<>> ELSE prompt_past1
  /\ best' = 0
  /\ it' = 1
  /\ Goto("attempt")
  /\ UNCHANGED <<calls, args, seek, i, decoders, no_speech, prompt, batch,
                 kv_self, kv_self_n_dec, result_all>>

Current(t) == IF t = 1 THEN {0} ELSE Decoders

\* Half of the positions, less one, are for what was said before.
Taken(past) == SubSeq(past, Len(past) - Min({MaxPrompt - 1, Len(past)}) + 1, Len(past))

History == IF it <= NConditioned /\ prompt_past1 # <<>> THEN <<Prev>> \o Taken(prompt_past1)
           ELSE <<>>

\* Room for two more decoders than there are.
CacheSize(n) == Padded(n_text_ctx) * (IF n > 1 THEN n + 2 ELSE 1)

\* For n decoders from now on; it is never made smaller.
Resized(n) == IF kv_self_n_dec # n THEN NewCache(CacheSize(n)) ELSE kv_self

\* The prompt is decoded once, and every decoder goes on from it.
Shared_Not(cache) == cache
Shared(cache) == SeqCp(cache, 0, Current(it) \ {0})

Attempt ==
  /\ pc = "attempt"
  /\ decoders' = [j \in Decoders |-> IF j \in Current(it) THEN Fresh ELSE decoders[j]]
  /\ prompt' = History \o [k \in 1 .. NInit |-> Task]
  /\ batch' = [k \in DOMAIN prompt' |-> [pos |-> k - 1, seq_id |-> 0]]
  /\ kv_self_n_dec' = Max({kv_self_n_dec, Cardinality(Current(it))})
  /\ \E clear \in {Cleared(Resized(kv_self_n_dec'))} :
       \E h \in FindSlot(clear, Len(prompt')) : kv_self' = Shared(Place(clear, batch', h))
  /\ no_speech' \in BOOLEAN
  /\ i' = 0
  /\ Goto("sample")
  /\ UNCHANGED <<calls, args, seek, it, best, prompt_past1, result_all>>

\* The cache cannot be made larger: the state is freed, and with it all that
\* a later call would use.
CacheFails ==
  /\ pc = "attempt" /\ kv_self_n_dec < Cardinality(Current(it))
  /\ Goto("freed")
  /\ UNCHANGED <<calls, args, seek, it, i, decoders, best, no_speech, prompt, batch,
                 result_all, stateVars>>
-----------------------------------------------------------------------------
(* The tokens of an attempt. *)

Active == {j \in Current(it) : ~decoders[j].failed /\ ~decoders[j].completed}

\* A decoder samples the end of the text, never as its first token, or any
\* other one; with the last one it is taken to repeat itself and fails.
Sampled(d, end) ==
  [tokens     |-> d.tokens + 1,
   result_len |-> IF end THEN i + 1 ELSE d.result_len,
   completed  |-> end,
   failed     |-> ~end /\ i = NMax - 1]

\* Threads share the decoders out among them; each decoder is its own.
Sample ==
  /\ pc = "sample"
  /\ \E ends \in SUBSET (IF i = 0 THEN {} ELSE Active) :
       decoders' = [j \in Decoders |-> IF j \in Active THEN Sampled(decoders[j], j \in ends)
                                       ELSE decoders[j]]
  /\ Goto(IF \A j \in Active : decoders'[j].completed \/ decoders'[j].failed
          THEN "rank" ELSE "decode")
  /\ UNCHANGED <<calls, args, seek, it, i, best, no_speech, prompt, batch, result_all, stateVars>>

ActiveAt(k) == CHOOSE j \in Active : Cardinality({l \in Active : l < j}) = k - 1

Decode ==
  /\ pc = "decode"
  /\ batch' = [k \in 1 .. Cardinality(Active) |-> [pos |-> Len(prompt) + i, seq_id |-> ActiveAt(k)]]
  /\ \E h \in FindSlot(kv_self, Len(batch')) : kv_self' = Place(kv_self, batch', h)
  /\ i' = i + 1
  /\ Goto(IF i + 1 < NMax THEN "sample" ELSE "rank")
  /\ UNCHANGED <<calls, args, seek, it, decoders, best, no_speech, prompt_past1, prompt,
                 kv_self_n_dec, result_all>>
-----------------------------------------------------------------------------
(* The result of an attempt. *)

\* Completed ones that repeat themselves fail as well.
MayRepeat == {j \in Current(it) : ~decoders[j].failed /\ decoders[j].result_len > EntropyLen}

Ranked_Failed(ok) == Current(it)
Ranked(ok) == IF ok = {} THEN {best} ELSE ok

\* The text of a window, its history, and the next window.
Advance_UnlessSilent(silent) == IF silent THEN seek ELSE seek + Window
Advance(silent) == seek + Window

Remembered(silent, n) == IF silent THEN <<>> ELSE [k \in 1 .. n |-> Said]

Emit(silent, d) ==
  /\ prompt_past1' = (IF Head(prompt) = Prev THEN SubSeq(prompt, 2, Len(prompt) - NInit) ELSE <<>>)
                       \o Remembered(silent, d.result_len)
  /\ result_all' = IF silent THEN result_all ELSE Append(result_all, seek)
  /\ seek' = Advance(silent)
  /\ Goto("window")
  /\ UNCHANGED it

Retry ==
  /\ it' = it + 1
  /\ Goto("attempt")
  /\ UNCHANGED <<prompt_past1, result_all, seek>>

\* The best of those that have not failed, if any, is taken, if it is likely
\* enough or the window silent; at the last temperature anything is.
Rank ==
  /\ pc = "rank"
  /\ \E repeating \in SUBSET MayRepeat :
       decoders' = [j \in Decoders |-> [decoders[j] EXCEPT !.failed = @ \/ j \in repeating]]
  /\ best' \in Ranked({j \in Current(it) : ~decoders'[j].failed})
  /\ \E unlikely \in BOOLEAN :
       /\ decoders'[best'].result_len = 0 => unlikely
       /\ IF it < NTemperatures /\ (decoders'[best'].failed \/ (unlikely /\ ~no_speech))
          THEN Retry
          ELSE Emit(unlikely /\ no_speech, decoders'[best'])
  /\ UNCHANGED <<calls, args, i, no_speech, prompt, batch, kv_self, kv_self_n_dec>>
-----------------------------------------------------------------------------
Start == \E n \in Lengths, p \in PromptLengths, auto \in BOOLEAN : Transcribe(n, p, auto)

Proceed == \/ DetectLanguage \/ TooShort \/ Prepare \/ Return \/ Encode
           \/ Attempt \/ Sample \/ Decode \/ Rank

WhisperNext == Start \/ Proceed \/ Fails \/ CacheFails

WhisperSpec == WhisperInit /\ [][WhisperNext]_whisperVars

\* The thread that runs a call is scheduled.
WhisperFairSpec == WhisperSpec /\ WF_whisperVars(Proceed)
-----------------------------------------------------------------------------
\* However long the prompt, the history and the transcript, no token gets a
\* position the model has no embedding for, and every batch finds its cells.
PositionsFit ==
  /\ \A k \in DOMAIN batch : batch[k].pos < n_text_ctx
  /\ pc = "decode" => FindSlot(kv_self, Cardinality(Active)) # {}

\* A token attends to exactly one token of its own sequence at each position
\* up to its own: nothing is left in the cache by an attempt or a call before,
\* and nothing of another decoder's transcript is seen.
EachPositionOnce ==
  pc \in {"prepare", "sample"} /\ (pc = "prepare" => args.auto) =>
    \A k \in DOMAIN batch :
      LET seen == Attended(kv_self, batch[k].seq_id, batch[k].pos)
      IN  /\ {kv_self.cells[c].pos : c \in seen} = 0 .. batch[k].pos
          /\ Cardinality(seen) = batch[k].pos + 1

\* What a window is conditioned on was given with this recording or said in
\* it, in that order: not in another one, and not in a window found silent.
HistoryWasSaid ==
  pc \in {"window", "attempt", "sample", "decode", "rank"} =>
    /\ ToSet(prompt_past1) \subseteq {Given} \cup {<<calls, s>> : s \in ToSet(result_all)}
    /\ \A k, l \in DOMAIN prompt_past1 : k < l => prompt_past1[k][2] <= prompt_past1[l][2]

\* Text of a decoder that failed is only taken when the last temperature is
\* reached and every decoder has failed there.
FailedTextIsLastResort ==
  [][Len(result_all') > Len(result_all) /\ decoders'[best'].failed =>
       it = NTemperatures /\ \A j \in Current(it) : decoders'[j].failed]_whisperVars

\* Every call returns, whatever is sampled.
TranscribeReturns == (pc = "detect" \/ pc = "prepare") ~> (pc \in {"idle", "freed"})
=============================================================================
