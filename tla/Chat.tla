-------------------------------- MODULE Chat --------------------------------
(***************************************************************************)
(* A chat completion with a local model (llama.go) and what llama.cpp does *)
(* for it: a context of its own, the prompt decoded at once, then one      *)
(* token after the other decoded and sampled.  A batch is decoded in       *)
(* micro-batches; each is placed in the key-value cache, and computed with *)
(* the graph of the one before when that has the right shape.  A model     *)
(* with sliding windows has two caches, one for each kind of layer.        *)
(*                                                                         *)
(* A token is known by its place in the conversation, from 0 on.           *)
(***************************************************************************)
EXTENDS LlamaCache

CONSTANTS
  maxContextTokens,   (* the longest context gosaid asks for, 8192           *)
  defaultMaxTokens,   (* the most tokens of a reply, 1024                    *)
  n_ubatch_max,       (* the default n_ubatch, 512                           *)
  Models,             (* [n_ctx_train, n_swa, swa_type] of a model           *)
  PromptLengths       (* the tokens of a prompt, the template included       *)

ASSUME ChatAssumption ==
  /\ maxContextTokens \in Nat \ {0} /\ defaultMaxTokens \in Nat \ {0}
  /\ n_ubatch_max \in Nat \ {0}
  /\ Models \subseteq [n_ctx_train : Nat \ {0}, n_swa : Nat,
                       swa_type : {"none", "standard", "chunked"}]
  /\ \A m \in Models : m.swa_type # "none" => m.n_swa > 0
  /\ PromptLengths \subseteq Nat \ {0}

VARIABLES
  pc,
  model,
  n_tokens,     (* the length of the prompt                                 *)
  maxTokens,    (* what is left of the context for the reply                *)
  i,            (* the tokens of the reply                                  *)
  batch,        (* the tokens last given to llama_decode                    *)
  rc,           (* what it returned                                         *)
  memory,       (* a cache for each kind of layer                           *)
  kv_data,      (* whose keys and values a cell holds                       *)
  ubatches,     (* the micro-batches: the tokens and their positions        *)
  sinfos,       (* the cells each is to take, in each cache                 *)
  i_cur,        (* those that were computed                                 *)
  n_outputs,    (* rows of the output buffer in use                         *)
  logits,       (* the token each row was computed for                      *)
  gf            (* the shape of the last graph                              *)

decodeVars == <<ubatches, sinfos, i_cur, n_outputs, logits, gf>>
vars == <<pc, model, n_tokens, maxTokens, i, batch, rc, memory, kv_data, decodeVars>>

None == -1
Goto(where) == pc' = where

Smaller(a, b) == IF a < b THEN a ELSE b

nCtx == Smaller(model.n_ctx_train, maxContextTokens)
n_batch == nCtx
n_ubatch == Smaller(n_batch, n_ubatch_max)

\* llama_kv_cache, or llama_kv_cache_iswa.
Kinds(m) == IF m.swa_type = "none" THEN {"base"} ELSE {"base", "swa"}
Window(m, k) == IF k = "base" THEN 0 ELSE m.n_swa
SwaType(m, k) == IF k = "base" THEN "none" ELSE m.swa_type

NoModel == [n_ctx_train |-> 0, n_swa |-> 0, swa_type |-> "none"]
NoGraph == [n_tokens |-> 0, n_outputs |-> 0, n_kv |-> <<>>]
Nothing == <<>>

Init ==
  /\ pc = "idle" /\ model = NoModel
  /\ n_tokens = 0 /\ maxTokens = 0 /\ i = 0 /\ batch = <<>> /\ rc = 0
  /\ memory = Nothing /\ kv_data = Nothing
  /\ ubatches = <<>> /\ sinfos = Nothing /\ i_cur = 0
  /\ n_outputs = 0 /\ logits = <<>> /\ gf = NoGraph

\* Chat returns, with a reply or an error: the context is freed.
Returned ==
  /\ Goto("idle") /\ model' = NoModel
  /\ n_tokens' = 0 /\ maxTokens' = 0 /\ i' = 0 /\ batch' = <<>> /\ rc' = 0
  /\ memory' = Nothing /\ kv_data' = Nothing
  /\ ubatches' = <<>> /\ sinfos' = Nothing /\ i_cur' = 0
  /\ n_outputs' = 0 /\ logits' = <<>> /\ gf' = NoGraph
-----------------------------------------------------------------------------
(* Chat, up to its loop. *)

\* The model is locked, the prompt rendered and tokenized.
Chat(m, n) ==
  /\ pc = "idle"
  /\ model' = m /\ n_tokens' = n
  /\ Goto("context")
  /\ UNCHANGED <<maxTokens, i, batch, rc, memory, kv_data, decodeVars>>

\* The prompt is too long, or llama_init_from_model fails.
NoContext ==
  /\ pc = "context"
  /\ Returned

\* The reply is cut to what the context has room for.
ReplyLimit_Uncut(n, size) == defaultMaxTokens
ReplyLimit(n, size) == IF n + defaultMaxTokens > size THEN size - n ELSE defaultMaxTokens

NewContext ==
  /\ pc = "context" /\ n_tokens < nCtx
  /\ maxTokens' = ReplyLimit(n_tokens, nCtx)
  /\ memory'  = [k \in Kinds(model) |->
                   NewCache(Padded(nCtx), Window(model, k), SwaType(model, k))]
  /\ kv_data' = [k \in Kinds(model) |-> [j \in 0 .. Padded(nCtx) - 1 |-> None]]
  /\ batch' = [t \in 1 .. n_tokens |-> t - 1]
  /\ i' = 0
  /\ Goto("loop")
  /\ UNCHANGED <<model, n_tokens, rc, decodeVars>>

\* ctx is looked at before each decoding, and the loop may be over.
Cancelled ==
  /\ pc = "loop"
  /\ Returned
-----------------------------------------------------------------------------
(* llama_decode: the batch is cut into micro-batches, and placed. *)

\* llama_batch_get_one asks for an output of the last token only.
Output(n, idx) == idx = n

\* Tokens without a position follow what the cache holds.
FirstPos(mem) == SeqPosMax(IF "swa" \in DOMAIN mem THEN mem["swa"] ELSE mem["base"]) + 1

Ubatch(p0, first, last) ==
  [tokens  |-> SubSeq(batch, first, last),
   pos     |-> [j \in 1 .. last - first + 1 |-> p0 + first + j - 2],
   outputs |-> {idx \in first .. last : Output(Len(batch), idx)}]

Split(p0) ==
  [b \in 1 .. (Len(batch) + n_ubatch - 1) \div n_ubatch |->
     Ubatch(p0, (b - 1) * n_ubatch + 1, Smaller(b * n_ubatch, Len(batch)))]

\* The base cache is prepared first; when it has no room, the other is not asked.
Decode ==
  /\ pc = "loop"
  /\ LET split    == Split(FirstPos(memory))
         prepared == [k \in DOMAIN memory |-> Prepare(memory[k], [b \in DOMAIN split |-> split[b].pos])]
         asked    == IF prepared["base"].sinfos = <<>> THEN {"base"} ELSE DOMAIN memory
         found    == \A k \in DOMAIN memory : prepared[k].sinfos # <<>>
     IN  /\ ubatches' = split
         /\ memory' = [k \in DOMAIN memory |-> IF k \in asked THEN prepared[k].kv ELSE memory[k]]
         /\ sinfos' = [k \in DOMAIN memory |-> prepared[k].sinfos]
         /\ rc' = IF found THEN 0 ELSE 1
         /\ Goto(IF found THEN "ubatch" ELSE "failed")
  /\ i_cur' = 0 /\ n_outputs' = 0
  /\ logits' = IF logits = <<>> THEN <<None>> ELSE logits
  /\ UNCHANGED <<model, n_tokens, maxTokens, i, batch, kv_data, gf>>
-----------------------------------------------------------------------------
(* process_ubatch *)

\* The graph of the micro-batch before is used again when nothing its shape
\* depends on has changed.
CanReuse_AnyCells(g, shape) ==
  /\ g.n_tokens = shape.n_tokens
  /\ g.n_outputs = shape.n_outputs

CanReuse(g, shape) ==
  /\ g.n_tokens = shape.n_tokens
  /\ g.n_outputs = shape.n_outputs
  /\ g.n_kv = shape.n_kv

Applied(b) == [k \in DOMAIN memory |-> ApplyUbatch(memory[k], sinfos[k][b], ubatches[b].pos)]

\* The keys and values of its tokens are stored, the rows of those that have
\* an output are copied behind those of the micro-batches before.
ProcessUbatch ==
  /\ pc = "ubatch"
  /\ LET b     == i_cur + 1
         u     == ubatches[b]
         mem   == Applied(b)
         n     == Cardinality(u.outputs)
         shape == [n_tokens |-> Len(u.tokens), n_outputs |-> n,
                   n_kv |-> [k \in DOMAIN mem |-> GetNKv(mem[k])]]
     IN  /\ memory' = mem
         /\ gf' = IF CanReuse(gf, shape) THEN gf ELSE shape
         /\ kv_data' = [k \in DOMAIN kv_data |-> [j \in DOMAIN kv_data[k] |->
                          IF j \in ToSet(sinfos[k][b])
                          THEN u.tokens[CHOOSE t \in DOMAIN u.tokens : sinfos[k][b][t] = j]
                          ELSE kv_data[k][j]]]
         /\ logits' = [r \in DOMAIN logits |->
                         IF r \in n_outputs + 1 .. n_outputs + n
                         THEN batch[Nth(u.outputs, r - n_outputs)] ELSE logits[r]]
         /\ n_outputs' = n_outputs + n
         /\ i_cur' = b
         /\ Goto(IF b = Len(ubatches) THEN "sample" ELSE "ubatch")
  /\ UNCHANGED <<model, n_tokens, maxTokens, i, batch, rc, ubatches, sinfos>>

\* Its graph cannot be built, allocated or computed (nor can, before the first
\* one, the output buffer): its positions are removed from the caches, those
\* before it stay.  The graph is not looked at again, the context is freed.
UbatchFails ==
  /\ pc = "ubatch"
  /\ LET b == i_cur + 1
     IN  memory' = [k \in DOMAIN memory |->
                      SeqRm(Applied(b)[k], ubatches[b].pos[1], SeqPosMax(Applied(b)[k]) + 1)]
  /\ rc' \in {-2, -3}
  /\ Goto("failed")
  /\ UNCHANGED <<model, n_tokens, maxTokens, i, batch, kv_data, decodeVars>>

DecodeFailed ==
  /\ pc = "failed"
  /\ Returned
-----------------------------------------------------------------------------
(* The token that comes next. *)

\* It ends the reply, or has no text; or the reply is as long as it may be.
ReplyEnds ==
  /\ pc = "sample"
  /\ Returned

NextToken ==
  /\ pc = "sample" /\ i + 1 < maxTokens
  /\ i' = i + 1
  /\ batch' = <<n_tokens + i>>
  /\ Goto("loop")
  /\ UNCHANGED <<model, n_tokens, maxTokens, rc, memory, kv_data, decodeVars>>

Next ==
  \/ \E m \in Models, n \in PromptLengths : Chat(m, n)
  \/ NoContext \/ NewContext \/ Cancelled
  \/ Decode \/ ProcessUbatch \/ UbatchFails \/ DecodeFailed
  \/ ReplyEnds \/ NextToken

Spec == Init /\ [][Next]_vars
-----------------------------------------------------------------------------
TypeOK ==
  /\ pc \in {"idle", "context", "loop", "ubatch", "failed", "sample"}
  /\ model \in Models \cup {NoModel}
  /\ n_tokens \in Nat /\ maxTokens \in Nat /\ i \in Nat /\ rc \in {0, 1, -2, -3}
  /\ batch \in Seq(Nat)
  /\ DOMAIN memory = DOMAIN kv_data
  /\ \A k \in DOMAIN memory :
       /\ memory[k].pos \in [0 .. Padded(nCtx) - 1 -> Nat \cup {Empty}]
       /\ memory[k].head \in 0 .. Padded(nCtx)
       /\ kv_data[k] \in [0 .. Padded(nCtx) - 1 -> Nat \cup {None}]
  /\ i_cur \in 0 .. Len(ubatches)
  /\ n_outputs \in Nat /\ logits \in Seq(Nat \cup {None})

\* The tokens that token t is to attend to, in a layer of kind k.
Past(k, t) == {s \in 0 .. t : ~IsMaskedSwa(Window(model, k), SwaType(model, k), s, t)}

(* Each token of a micro-batch attends to itself and to every token before *)
(* it that its window does not hide, once, and to nothing else: whatever   *)
(* cells the tokens got, through a mask that is copied from the first row  *)
(* and a graph that may have been built for an earlier micro-batch         *)
(* (find_slot, set_input_kq_mask, can_reuse).  And the next token is       *)
(* sampled from the row that was computed for the last of them.            *)
AttendsItsPast ==
  /\ i_cur > 0 /\ pc \in {"ubatch", "sample"} =>
       \A k \in DOMAIN memory : \A t \in DOMAIN ubatches[i_cur].tokens :
         LET row  == MaskRow(memory[k], gf.n_kv[k], ubatches[i_cur].pos, t)
             past == Past(k, ubatches[i_cur].tokens[t])
         IN  /\ {kv_data[k][j] : j \in row} = past
             /\ Cardinality(row) = Cardinality(past)
  /\ pc = "sample" => n_outputs = 1 /\ logits[n_outputs] = Last(batch)

(* The context has room for the prompt and the reply it was cut to: no     *)
(* decoding is refused for want of cells, none is larger than n_batch      *)
(* (which would abort the program), and no token lies beyond the positions *)
(* the model was trained for, although the cache is rounded up.            *)
ContextSuffices ==
  /\ rc # 1
  /\ pc \in {"loop", "ubatch", "sample"} => Len(batch) <= n_batch
  /\ \A k \in DOMAIN memory : \A p \in Positions(memory[k]) : p < model.n_ctx_train
=============================================================================
