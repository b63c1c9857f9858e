------------------------------ MODULE KVCache -------------------------------
(***************************************************************************)
(* The key-value cache of whisper.cpp's text decoder: a ring of cells, one *)
(* for each token that was decoded, shared by the sequences that have the  *)
(* token in common.  Only the cells in use are kept here.                  *)
(***************************************************************************)
EXTENDS Integers, Sequences, FiniteSetsExt

NewCache(size) == [size |-> size, head |-> 0, cells |-> <<>>]

\* The cells in use are a function from places; none are in use at first.
Used(cache) == DOMAIN cache.cells

Cleared(cache) == NewCache(cache.size)

\* Where n tokens in a row find free cells, the places in use being known.
Slots(used, size, n) == {h \in 0 .. size - n : \A u \in used : u < h \/ u >= h + n}

\* The search begins at the head and goes once around.
First(slots, head) ==
  LET ahead == {h \in slots : h >= head}
  IN  IF ahead # {} THEN Min(ahead) ELSE Min(slots)

\* The slot that is found, if there is one.
FindSlot(cache, n) ==
  {First(slots, cache.head) :
     slots \in {Slots(used, cache.size, n) : used \in {Used(cache)}} \ {{}}}

\* The tokens of a batch take their cells, and the head stays on the first.
Place(cache, batch, h) ==
  LET taken == h .. h + Len(batch) - 1
  IN  [size  |-> cache.size,
       head  |-> h,
       cells |-> [i \in Used(cache) \cup taken |->
                    IF i \in taken
                    THEN [pos |-> batch[i - h + 1].pos, seq_id |-> {batch[i - h + 1].seq_id}]
                    ELSE cache.cells[i]]]

\* whisper_kv_cache_seq_rm, from a position on: a cell that no sequence has
\* any more is free, and the first one freed becomes the head.
SeqRm(cache, s, p0) ==
  LET hit(i)  == cache.cells[i].pos >= p0 /\ s \in cache.cells[i].seq_id
      freed   == {i \in Used(cache) : hit(i) /\ cache.cells[i].seq_id = {s}}
  IN  [size  |-> cache.size,
       head  |-> IF freed = {} THEN cache.head ELSE Min(freed),
       cells |-> [i \in Used(cache) \ freed |->
                    [pos    |-> cache.cells[i].pos,
                     seq_id |-> cache.cells[i].seq_id \ (IF hit(i) THEN {s} ELSE {})]]]

\* whisper_kv_cache_seq_cp, of a whole sequence, to each of some others.
SeqCp(cache, src, dsts) ==
  LET copies(i) == IF src \in cache.cells[i].seq_id THEN dsts ELSE {}
  IN  [size  |-> cache.size,
       head  |-> 0,
       cells |-> [i \in Used(cache) |->
                    [pos |-> cache.cells[i].pos, seq_id |-> cache.cells[i].seq_id \cup copies(i)]]]

\* The cells a token of sequence s at position p attends to.
Attended(cache, s, p) == {i \in Used(cache) : s \in cache.cells[i].seq_id /\ cache.cells[i].pos <= p}
=============================================================================
