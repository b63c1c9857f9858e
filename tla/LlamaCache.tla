----------------------------- MODULE LlamaCache -----------------------------
(***************************************************************************)
(* The key-value cache of llama.cpp for one sequence in one stream, which  *)
(* is what gosaid's contexts have: the position each cell holds, where the *)
(* next search for cells begins, and which cells a token attends to.       *)
(***************************************************************************)
EXTENDS Integers, Sequences, FiniteSetsExt, SequencesExt

CONSTANTS
  Pad,        (* what a number of cells is rounded up to, 256               *)
  MaskSlack   (* how far beyond its window a mask is worked out anew, 32    *)

ASSUME CacheAssumption == Pad \in Nat \ {0} /\ MaskSlack \in Nat

Empty == -1

Padded(n) == ((n + Pad - 1) \div Pad) * Pad

NewCache(size, n_swa, swa_type) ==
  [pos |-> [j \in 0 .. size - 1 |-> Empty], head |-> 0,
   n_swa |-> n_swa, swa_type |-> swa_type]

Cells(kv) == DOMAIN kv.pos
Used(kv) == {j \in Cells(kv) : kv.pos[j] # Empty}
Positions(kv) == {kv.pos[j] : j \in Used(kv)}

SeqPosMin(kv) == IF Used(kv) = {} THEN -1 ELSE Min(Positions(kv))
SeqPosMax(kv) == IF Used(kv) = {} THEN -1 ELSE Max(Positions(kv))

\* Whether a sliding window hides position p0 from position p1.
IsMaskedSwa(n_swa, swa_type, p0, p1) ==
  \/ swa_type = "standard"  /\ p1 - p0 >= n_swa
  \/ swa_type = "chunked"   /\ p0 < (p1 \div n_swa) * n_swa
  \/ swa_type = "symmetric" /\ (p1 - p0 < -(n_swa \div 2) \/ p1 - p0 > n_swa \div 2)
-----------------------------------------------------------------------------
(* Finding cells for a micro-batch, and placing it. *)

\* A cell may be taken when it is empty, or when no later token will see it.
CanUse(kv, j) ==
  \/ kv.pos[j] = Empty
  \/ IsMaskedSwa(kv.n_swa, kv.swa_type, kv.pos[j], SeqPosMax(kv) + 1)

\* The i-th of a set of numbers.
Nth(S, i) == CHOOSE x \in S : Cardinality({y \in S : y < x}) = i - 1

\* The first n cells that may be taken, once around from the head; none when
\* they do not suffice.
FindSlot(kv, n) ==
  LET size    == Cardinality(Cells(kv))
      start   == IF kv.head > Cardinality(Used(kv)) + 2 * n THEN 0 ELSE kv.head
      Cell(k) == (start + k) % size
      usable  == {k \in 0 .. size - 1 : CanUse(kv, Cell(k))}
  IN  IF n <= Cardinality(usable) THEN [i \in 1 .. n |-> Cell(Nth(usable, i))] ELSE <<>>

\* The positions from p0 on, and below p1, are removed.
SeqRm(kv, p0, p1) ==
  LET hit == {j \in Used(kv) : kv.pos[j] >= p0 /\ kv.pos[j] < p1}
  IN  [kv EXCEPT
         !.pos  = [j \in DOMAIN @ |-> IF j \in hit THEN Empty ELSE @[j]],
         !.head = IF hit # {} /\ Min(hit) < @ THEN Min(hit) ELSE @]

\* Cells that were taken over leave a gap: what is older goes too.
ApplyUbatch(kv, sinfo, pos) ==
  LET over   == {kv.pos[c] : c \in ToSet(sinfo)} \ {Empty}
      placed == [kv EXCEPT !.pos = [j \in DOMAIN @ |->
                   IF j \in ToSet(sinfo)
                   THEN pos[CHOOSE i \in DOMAIN sinfo : sinfo[i] = j] ELSE @[j]]]
      purged == IF over # {} /\ SeqPosMin(placed) <= Max(over)
                THEN SeqRm(placed, SeqPosMin(placed), Max(over) + 1) ELSE placed
  IN  [purged EXCEPT !.head = Last(sinfo) + 1]

\* What prepare remembers of the cells a micro-batch is about to take.
Saved(kv, sinfo) ==
  [sinfo |-> sinfo, head |-> kv.head, pos |-> [i \in DOMAIN sinfo |-> kv.pos[sinfo[i]]]]

Restore(saved, kv) ==
  [kv EXCEPT !.head = saved.head,
             !.pos  = [j \in DOMAIN @ |->
                IF j \in ToSet(saved.sinfo)
                THEN saved.pos[CHOOSE i \in DOMAIN saved.sinfo : saved.sinfo[i] = j] ELSE @[j]]]

\* Cells for one more micro-batch; none are looked for after a failure.
PlaceNext(s, pos) ==
  LET sinfo == FindSlot(s.kv, Len(pos))
  IN  IF ~s.success \/ sinfo = <<>>
      THEN [s EXCEPT !.success = FALSE]
      ELSE [s EXCEPT !.kv     = ApplyUbatch(@, sinfo, pos),
                     !.states = Append(@, Saved(s.kv, sinfo))]

\* All micro-batches of a batch are placed one after the other, to see where
\* they would go, and taken out again, the last one first.
Prepare(kv, batches) ==
  LET tried == FoldLeft(PlaceNext, [kv |-> kv, states |-> <<>>, success |-> TRUE], batches)
  IN  [kv     |-> FoldRight(Restore, tried.states, tried.kv),
       sinfos |-> IF tried.success
                  THEN [b \in DOMAIN tried.states |-> tried.states[b].sinfo] ELSE <<>>]
-----------------------------------------------------------------------------
(* The cells a computation reads, and those a token attends to. *)

\* Rounded up, so that one graph serves for many tokens.
GetNKv(kv) ==
  LET used_max_p1 == IF Used(kv) = {} THEN 0 ELSE Max(Used(kv)) + 1
      padded      == Padded(used_max_p1)
      least       == IF padded > Pad THEN padded ELSE Pad
      size        == Cardinality(Cells(kv))
  IN  IF size < least THEN size ELSE least

\* The rule for a token at position p1.
Visible(kv, j, p1) ==
  /\ kv.pos[j] # Empty
  /\ kv.pos[j] <= p1
  /\ ~IsMaskedSwa(kv.n_swa, kv.swa_type, kv.pos[j], p1)

\* The row of the first token of a micro-batch is worked out in full.  The
\* others are copies of it, but for the cells near the micro-batch.
Recorded(kv, j, pos_min) == kv.pos[j] # Empty /\ kv.pos[j] + kv.n_swa + MaskSlack >= pos_min

MaskRow(kv, n_kv, pos, i) ==
  {j \in 0 .. n_kv - 1 :
     Visible(kv, j, IF i = 1 \/ Recorded(kv, j, pos[1]) THEN pos[i] ELSE pos[1])}
=============================================================================
