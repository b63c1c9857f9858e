------------------------------ MODULE ChatProofs ------------------------------
(***************************************************************************)
(* What a chat's tokens attend to and what is kept of its reply, proved.   *)
(*                                                                         *)
(* A mask row that is copied from the row of the first token of its        *)
(* micro-batch, and corrected near it, is the row its own position asks    *)
(* for.  What the three passes over a reply leave is its answer: a reading *)
(* of the tags that knows nothing of the passes.  And a cache is filled    *)
(* from its first cell on, in the order of the tokens: then what a token's *)
(* row shows is what it is to attend to, and the context suffices.         *)
(***************************************************************************)
EXTENDS ChatStage, FiniteSetTheorems, SequenceTheorems, WellFoundedInduction, TLAPS

SwaTypes == {"none", "standard", "chunked", "symmetric"}

(* A position lies in the chunk that begins less than a window before it.  *)
LEMMA ChunkStart ==
  ASSUME NEW w \in Nat, w > 0, NEW p \in Nat
  PROVE  (p \div w) * w \in Int /\ (p \div w) * w > p - w
<1> DEFINE q == p \div w
<1>1. q \in Int /\ p = w * q + (p % w) /\ p % w < w /\ p % w \in Nat
  OBVIOUS
<1>2. w * q \in Int /\ w * q = q * w
  BY <1>1
<1> QED
  BY <1>1, <1>2

(* A position that is further back than the window, and the slack, is seen *)
(* by all tokens of the micro-batch, or by none.                           *)
LEMMA FarIsAlike ==
  ASSUME NEW n_swa \in Nat, NEW swa_type \in SwaTypes,
         swa_type = "chunked" => n_swa > 0,
         NEW p0 \in Nat, NEW p1 \in Nat, NEW p2 \in Nat,
         p1 <= p2, p0 + n_swa + MaskSlack < p1
  PROVE  IsMaskedSwa(n_swa, swa_type, p0, p1) <=> IsMaskedSwa(n_swa, swa_type, p0, p2)
<1> USE CacheAssumption
<1>1. CASE swa_type = "none"
  BY <1>1 DEF IsMaskedSwa
<1>2. CASE swa_type = "standard"
  BY <1>2 DEF IsMaskedSwa
<1>3. CASE swa_type = "chunked"
  <2>1. /\ (p1 \div n_swa) * n_swa \in Int /\ (p1 \div n_swa) * n_swa > p1 - n_swa
        /\ (p2 \div n_swa) * n_swa \in Int /\ (p2 \div n_swa) * n_swa > p2 - n_swa
    BY <1>3, ChunkStart
  <2>2. ASSUME NEW c \in Int, NEW p \in Nat, p1 <= p, c > p - n_swa
        PROVE  p0 < c
    BY <2>2
  <2>3. p0 < (p1 \div n_swa) * n_swa /\ p0 < (p2 \div n_swa) * n_swa
    BY <2>1, <2>2
  <2> QED
    BY <1>3, <2>3 DEF IsMaskedSwa
<1>4. CASE swa_type = "symmetric"
  <2>1. n_swa \div 2 \in Nat /\ n_swa \div 2 <= n_swa
    OBVIOUS
  <2> QED
    BY <1>4, <2>1 DEF IsMaskedSwa
<1> QED
  BY <1>1, <1>2, <1>3, <1>4 DEF SwaTypes

(* A cache of n_kv cells that a mask can be worked out of.                 *)
Maskable(kv, n_kv) ==
  /\ \A j \in 0 .. n_kv - 1 : kv.pos[j] \in Nat \cup {Empty}
  /\ kv.n_swa \in Nat /\ kv.swa_type \in SwaTypes
  /\ kv.swa_type = "chunked" => kv.n_swa > 0

(* A row of the mask shows exactly the cells its token's position may see, *)
(* for every window, slack and placement of the tokens.                    *)
THEOREM MaskIsExact ==
  ASSUME NEW kv, NEW n_kv \in Nat, Maskable(kv, n_kv),
         NEW pos \in Seq(Nat), NEW t \in DOMAIN pos,
         pos[1] <= pos[t]
  PROVE  MaskRow(kv, n_kv, pos, t) = {j \in 0 .. n_kv - 1 : Visible(kv, j, pos[t])}
<1>0. /\ \A j \in 0 .. n_kv - 1 : kv.pos[j] \in Nat \cup {Empty}
      /\ kv.n_swa \in Nat /\ kv.swa_type \in SwaTypes
      /\ kv.swa_type = "chunked" => kv.n_swa > 0
  BY DEF Maskable
<1>1. pos[1] \in Nat /\ pos[t] \in Nat
  OBVIOUS
<1>2. SUFFICES ASSUME NEW j \in 0 .. n_kv - 1, t # 1, ~Recorded(kv, j, pos[1])
               PROVE  Visible(kv, j, pos[1]) <=> Visible(kv, j, pos[t])
  BY DEF MaskRow
<1>3. CASE kv.pos[j] = Empty
  BY <1>3 DEF Visible
<1>4. CASE kv.pos[j] # Empty
  <2>1. PICK p \in Nat, w \in Nat : p = kv.pos[j] /\ w = kv.n_swa
    BY <1>0, <1>4
  <2>2. PICK p1 \in Nat, pt \in Nat : p1 = pos[1] /\ pt = pos[t] /\ p1 <= pt
    BY <1>1
  <2>3. ~(p + w + MaskSlack >= p1)
    BY <1>2, <1>4, <2>1, <2>2 DEF Recorded
  <2>4. p + w + MaskSlack < p1 /\ p <= p1 /\ p <= pt
    BY <2>2, <2>3, CacheAssumption
  <2>5. kv.swa_type \in SwaTypes /\ (kv.swa_type = "chunked" => w > 0)
    BY <1>0, <2>1
  <2>6. IsMaskedSwa(w, kv.swa_type, p, p1) <=> IsMaskedSwa(w, kv.swa_type, p, pt)
    BY <2>2, <2>4, <2>5, FarIsAlike
  <2> QED
    BY <1>4, <2>1, <2>2, <2>4, <2>6 DEF Visible
<1> QED
  BY <1>3, <1>4
-----------------------------------------------------------------------------
(* Every set of natural numbers that is not empty has a least one.         *)
LEMMA LeastNumber ==
  ASSUME NEW S, S \subseteq Nat, S # {}
  PROVE  \E m \in S : \A k \in S : m <= k
<1> DEFINE Below == {0 .. m : m \in S}
<1> DEFINE Order == StrictSubsetOrdering(Nat)
<1>1. Below \subseteq FiniteSubsetsOf(Nat) /\ Below # {}
  <2>1. \A m \in S : 0 .. m \in SUBSET Nat /\ IsFiniteSet(0 .. m)
    BY FS_Interval
  <2> QED
    BY <2>1 DEF FiniteSubsetsOf
<1>2. IsWellFoundedOn(Order, FiniteSubsetsOf(Nat))
  BY FS_StrictSubsetOrderingWellFounded
<1>3. PICK b \in Below : \A c \in Below : <<c, b>> \notin Order
  <2> HIDE DEF Below, Order
  <2> QED
    BY <1>1, <1>2, WFMin
<1>4. PICK m \in S : b = 0 .. m
  BY <1>3
<1>5. ASSUME NEW k \in S, k < m
      PROVE  FALSE
  <2>1. 0 .. k \subseteq b /\ 0 .. k # b
    BY <1>4, <1>5
  <2>2. <<0 .. k, b>> \in Order
    BY <2>1, <1>4 DEF StrictSubsetOrdering
  <2> QED
    BY <1>3, <2>2
<1> QED
  BY <1>5

(* The least of some positions in a reply ...                              *)
LEMMA FirstOfPositions ==
  ASSUME NEW n \in Nat, NEW S, S \subseteq 1 .. n, S # {}
  PROVE  Filter!Min(S) \in S /\ \A k \in S : Filter!Min(S) <= k
<1>0. S \subseteq Nat
  OBVIOUS
<1>1. \E m \in S : \A k \in S : m <= k
  BY <1>0, LeastNumber
<1> QED
  BY <1>1 DEF Filter!Min

(* ... and the greatest.                                                   *)
LEMMA LastOfPositions ==
  ASSUME NEW n \in Nat, NEW S, S \subseteq 1 .. n, S # {}
  PROVE  Filter!Max(S) \in S /\ \A k \in S : k <= Filter!Max(S)
<1> DEFINE Left == {n - k : k \in S}
<1>1. Left \subseteq Nat /\ Left # {}
  <2>1. \A k \in S : k \in 1 .. n /\ n - k \in Nat
    OBVIOUS
  <2>2. PICK k \in S : TRUE
    OBVIOUS
  <2>3. n - k \in Left
    OBVIOUS
  <2> QED
    BY <2>1, <2>3
<1>2. PICK d \in Left : \A k \in Left : d <= k
  <2> HIDE DEF Left
  <2> QED
    BY <1>1, LeastNumber
<1>3. PICK m \in S : d = n - m
  BY <1>2
<1>4. \A k \in S : m >= k
  BY <1>2, <1>3
<1> QED
  BY <1>4 DEF Filter!Max
-----------------------------------------------------------------------------
(* The reply, and what the passes have left of it: every position behind   *)
(* f, and before it what no block has.                                     *)
Marks == {"open", "close", "text"}
All == Filter!Positions

IsReply == reply \in Seq(Marks)

BlocksRemoved(S, f) ==
  /\ S \subseteq All
  /\ f \in {0} \cup Filter!Closers(All)
  /\ \A p \in All : p \in S <=> p > f \/ (reply[p] # "open" /\ ~Filter!Inside(p))

(* Behind an opener that is left everything is a thought, and every        *)
(* thought that is left is behind one.                                     *)
ThoughtsAtTheEnd(S) ==
  /\ \A o \in Filter!Openers(S), p \in All : p > o => reply[p] # "close"
  /\ \A p \in S : Filter!Inside(p) => \E o \in Filter!Openers(S) : o <= p

ClosersAreLone(S) ==
  /\ S \subseteq All
  /\ \A p \in All \ S : reply[p] = "open" \/ Filter!Inside(p)
  /\ \A k \in Filter!Closers(All) : k \in S <=> ~Filter!Inside(k)
  /\ ThoughtsAtTheEnd(S)

NoClosers(S) ==
  /\ S \subseteq All /\ Filter!Closers(S) = {}
  /\ \A p \in Filter!Text : p \in S => ~Filter!BeforeLoneCloser(p)
  /\ \A p \in Filter!Text \ S : Filter!Inside(p) \/ Filter!BeforeLoneCloser(p)
  /\ ThoughtsAtTheEnd(S)

(* Nothing is inside a thought that ended at a closer before it.           *)
LEMMA OpenedBehindCloser ==
  ASSUME IsReply, NEW f \in {0} \cup Filter!Closers(All), NEW p \in All, p > f, Filter!Inside(p)
  PROVE  \E o \in Filter!Openers(All) : /\ f < o /\ o < p
                                        /\ \A k \in o .. p - 1 : reply[k] # "close"
<1> USE DEF IsReply, All, Filter!Positions, Filter!Openers, Filter!Closers
<1>1. PICK o \in Filter!Openers(1 .. p - 1) : \A k \in o .. p - 1 : reply[k] # "close"
  BY DEF Filter!Inside
<1>2. o \in 1 .. p - 1 /\ reply[o] = "open" /\ o \in All
  BY <1>1
<1>3. f < o
  BY <1>1, <1>2
<1> QED
  BY <1>1, <1>2, <1>3

(* Removing the leftmost block moves f to the closer that ends it.         *)
LEMMA BlockStep ==
  ASSUME IsReply, NEW f, BlocksRemoved(left, f), Filter!Blocks # {},
         NEW o, o = Filter!Min(Filter!Blocks)
  PROVE  BlocksRemoved(left \ (o .. Filter!BlockEnd(o)), Filter!BlockEnd(o))
<1> DEFINE c == Filter!BlockEnd(o)
           behind == {k \in Filter!Closers(left) : k > o}
<1> USE DEF IsReply, All, Filter!Positions, Filter!Openers, Filter!Closers
<1>1. Len(reply) \in Nat /\ left \subseteq 1 .. Len(reply) /\ f \in Nat
  BY DEF BlocksRemoved
<1>2. o \in Filter!Blocks /\ \A k \in Filter!Blocks : o <= k
  BY <1>1, FirstOfPositions DEF Filter!Blocks
<1>3. o \in left /\ o \in 1 .. Len(reply) /\ reply[o] = "open" /\ behind # {}
  BY <1>1, <1>2 DEF Filter!Blocks
<1>4. c \in behind /\ \A k \in behind : c <= k
  <2>1. behind \subseteq 1 .. Len(reply)
    BY <1>1
  <2> QED
    BY <1>1, <1>3, <2>1, FirstOfPositions DEF Filter!BlockEnd
<1>5. c \in 1 .. Len(reply) /\ reply[c] = "close" /\ o < c
  BY <1>1, <1>4
<1>6. f < o
  BY <1>1, <1>3 DEF BlocksRemoved
<1>7. \A k \in o .. c - 1 : reply[k] # "close"
  BY <1>1, <1>3, <1>4, <1>5, <1>6 DEF BlocksRemoved
<1>8. \A p \in All : f < p /\ p < o => reply[p] # "open"
  <2> SUFFICES ASSUME NEW p \in All, f < p, p < o, reply[p] = "open" PROVE FALSE
    OBVIOUS
  <2>1. p \in left
    BY DEF BlocksRemoved
  <2>2. p \in Filter!Blocks
    BY <1>3, <1>4, <1>5, <2>1 DEF Filter!Blocks
  <2> QED
    BY <1>2, <1>3, <2>2
<1> SUFFICES ASSUME NEW p \in All
             PROVE  p \in left \ (o .. c) <=> p > c \/ (reply[p] # "open" /\ ~Filter!Inside(p))
  <2>1. BlocksRemoved(left, f) => left \subseteq All
    BY DEF BlocksRemoved
  <2> QED
    BY <1>5, <2>1 DEF BlocksRemoved
<1> HIDE DEF behind
<1>9. CASE p <= f
  BY <1>1, <1>3, <1>5, <1>6, <1>9 DEF BlocksRemoved
<1>10. CASE f < p /\ p < o
  <2>1. ~Filter!Inside(p)
    BY <1>1, <1>3, <1>8, <1>10, OpenedBehindCloser DEF BlocksRemoved
  <2> QED
    BY <1>1, <1>3, <1>5, <1>8, <1>10, <2>1 DEF BlocksRemoved
<1>11. CASE p = o
  BY <1>1, <1>3, <1>5, <1>11
<1>12. CASE o < p /\ p <= c
  <2>1. Filter!Inside(p)
    BY <1>1, <1>3, <1>5, <1>7, <1>12 DEF Filter!Inside
  <2> QED
    BY <1>1, <1>3, <1>5, <1>12, <2>1
<1>13. CASE c < p
  BY <1>1, <1>3, <1>5, <1>6, <1>13 DEF BlocksRemoved
<1> QED
  BY <1>1, <1>3, <1>5, <1>9, <1>10, <1>11, <1>12, <1>13

(* When no block is left, the closers that are left had no opener.         *)
LEMMA BlocksEndStep ==
  ASSUME IsReply, NEW f, BlocksRemoved(left, f), Filter!Blocks = {}
  PROVE  ClosersAreLone(left)
<1> USE DEF IsReply, All, Filter!Positions, Filter!Openers, Filter!Closers
<1>1. Len(reply) \in Nat /\ left \subseteq 1 .. Len(reply) /\ f \in Nat
  BY DEF BlocksRemoved
<1>2. \A p \in All : p > f => p \in left
  BY DEF BlocksRemoved
<1>3. \A q \in left : reply[q] = "open" => q > f
  BY <1>1 DEF BlocksRemoved
<1>4. \A q \in left, p \in All : reply[q] = "open" /\ p > q => reply[p] # "close"
  BY <1>1, <1>2, <1>3 DEF Filter!Blocks
<1>5. \A p \in left : Filter!Inside(p) => \E q \in Filter!Openers(left) : q <= p
  <2> SUFFICES ASSUME NEW p \in left, Filter!Inside(p)
               PROVE  \E q \in Filter!Openers(left) : q <= p
    OBVIOUS
  <2>1. CASE p > f
    <3>1. f \in {0} \cup Filter!Closers(All) /\ p \in All
      BY <1>1 DEF BlocksRemoved
    <3>2. PICK q \in Filter!Openers(All) : f < q /\ q < p
      BY <2>1, <3>1, OpenedBehindCloser
    <3> QED
      BY <1>1, <1>2, <2>1, <3>2
  <2>2. CASE p <= f
    BY <1>1, <2>2 DEF BlocksRemoved
  <2> QED
    BY <1>1, <2>1, <2>2
<1>6. \A k \in Filter!Closers(All) : k \in left <=> ~Filter!Inside(k)
  <2> SUFFICES ASSUME NEW k \in Filter!Closers(All)
               PROVE  k \in left <=> ~Filter!Inside(k)
    OBVIOUS
  <2>1. CASE k \in left /\ Filter!Inside(k)
    <3>1. PICK q \in Filter!Openers(left) : q <= k
      BY <1>5, <2>1
    <3> QED
      BY <1>1, <1>4, <3>1
  <2> QED
    BY <2>1 DEF BlocksRemoved
<1> QED
  BY <1>1, <1>4, <1>5, <1>6 DEF BlocksRemoved, ClosersAreLone, ThoughtsAtTheEnd

(* Everything up to the last closer is a thought or before a lone closer.  *)
LEMMA CloserStep ==
  ASSUME IsReply, ClosersAreLone(left),
         NEW S, S = IF Filter!Closers(left) = {} THEN left ELSE {p \in left : p > Filter!LastCloser}
  PROVE  NoClosers(S)
<1> DEFINE k == Filter!LastCloser
           lone == Filter!Closers(left)
<1> USE DEF IsReply, All, Filter!Positions, Filter!Openers, Filter!Closers
<1>1. /\ Len(reply) \in Nat /\ left \subseteq 1 .. Len(reply) /\ lone \subseteq 1 .. Len(reply)
      /\ \A p \in All : reply[p] = "close" => (p \in lone <=> ~Filter!Inside(p))
  <2>1. left \subseteq 1 .. Len(reply) /\ \A p \in Filter!Closers(All) : p \in left <=> ~Filter!Inside(p)
    BY DEF ClosersAreLone
  <2>2. Len(reply) \in Nat
    OBVIOUS
  <2>3. lone \subseteq left
    OBVIOUS
  <2>4. \A p \in All : reply[p] = "close" => (p \in lone <=> ~Filter!Inside(p))
    BY <2>1
  <2> QED
    BY <2>1, <2>2, <2>3, <2>4
<1>2. lone # {} => k \in lone /\ \A l \in lone : l <= k
  BY <1>1, LastOfPositions DEF Filter!LastCloser
<1>3. S \subseteq left /\ (\A p \in left : p \in S <=> \A l \in lone : p > l)
  BY <1>1, <1>2
<1>4. Filter!Closers(S) = {}
  BY <1>1, <1>3
<1>5. \A p \in All : (\E l \in lone : p < l) <=> Filter!BeforeLoneCloser(p)
  BY <1>1 DEF Filter!BeforeLoneCloser
<1>6. \A o \in left : reply[o] = "open" => o \in S
  BY <1>1, <1>3 DEF ClosersAreLone, ThoughtsAtTheEnd
<1>7. ThoughtsAtTheEnd(S)
  BY <1>3, <1>6 DEF ClosersAreLone, ThoughtsAtTheEnd
<1>8. \A p \in Filter!Text : p \in S => ~Filter!BeforeLoneCloser(p)
  BY <1>1, <1>3, <1>5 DEF Filter!Text
<1>9. \A p \in Filter!Text \ S : Filter!Inside(p) \/ Filter!BeforeLoneCloser(p)
  <2> SUFFICES ASSUME NEW p \in Filter!Text, p \notin S, ~Filter!Inside(p)
               PROVE  Filter!BeforeLoneCloser(p)
    OBVIOUS
  <2>1. p \in All /\ reply[p] = "text"
    BY DEF Filter!Text
  <2>2. p \in left
    BY <2>1 DEF ClosersAreLone
  <2>3. PICK l \in lone : ~(p > l)
    BY <1>3, <2>2
  <2>4. p # l
    BY <2>1, <2>3
  <2> QED
    BY <1>1, <1>5, <2>1, <2>3, <2>4
<1> QED
  BY <1>1, <1>3, <1>4, <1>7, <1>8, <1>9 DEF NoClosers

(* From the first opener on everything is a thought.                       *)
LEMMA OpenerStep ==
  ASSUME IsReply, NoClosers(left),
         NEW S, S = IF Filter!Openers(left) = {} THEN left
                    ELSE {p \in left : p < Filter!Min(Filter!Openers(left))}
  PROVE  S = Filter!Answer
<1> DEFINE opened == Filter!Openers(left)
           o == Filter!Min(opened)
<1> USE DEF IsReply, All, Filter!Positions, Filter!Openers, Filter!Closers
<1>1. /\ Len(reply) \in Nat /\ left \subseteq 1 .. Len(reply) /\ opened \subseteq 1 .. Len(reply)
      /\ \A p \in left : reply[p] # "close"
  <2>1. left \subseteq 1 .. Len(reply) /\ Filter!Closers(left) = {}
    BY DEF NoClosers
  <2>2. Len(reply) \in Nat
    OBVIOUS
  <2>3. opened \subseteq left
    OBVIOUS
  <2>4. \A p \in left : reply[p] # "close"
    BY <2>1
  <2> QED
    BY <2>1, <2>2, <2>3, <2>4
<1>2. opened # {} => o \in opened /\ \A q \in opened : o <= q
  BY <1>1, FirstOfPositions
<1>3. S \subseteq left /\ (\A p \in left : p \in S <=> \A q \in opened : p < q)
  <2>1. CASE opened = {}
    BY <2>1
  <2>2. CASE opened # {}
    <3>1. S = {p \in left : p < o} /\ o \in opened /\ \A q \in opened : o <= q
      BY <1>2, <2>2
    <3> HIDE DEF o, opened
    <3> QED
      BY <1>1, <3>1
  <2> QED
    BY <2>1, <2>2
<1>4. ASSUME NEW p \in S PROVE p \in Filter!Answer
  <2>1. p \in All /\ p \in left /\ p \notin opened
    BY <1>1, <1>3, <1>4
  <2>2. p \in Filter!Text
    BY <1>1, <2>1 DEF Filter!Text, Marks
  <2>3. ~Filter!Inside(p)
    BY <1>1, <1>3, <1>4, <2>1 DEF NoClosers, ThoughtsAtTheEnd
  <2> QED
    BY <2>1, <2>2, <2>3 DEF NoClosers, Filter!Answer
<1>5. ASSUME NEW p \in Filter!Answer PROVE p \in S
  <2>1. p \in All /\ reply[p] = "text" /\ ~Filter!Inside(p) /\ p \in left
    BY <1>5 DEF Filter!Answer, Filter!Text, NoClosers
  <2>2. ASSUME NEW q \in opened, ~(p < q) PROVE FALSE
    <3>1. q < p /\ q \in 1 .. p - 1 /\ reply[q] = "open"
      BY <1>1, <2>1, <2>2
    <3>2. \A k \in q .. p - 1 : reply[k] # "close"
      BY <1>1, <2>1, <2>2, <3>1 DEF NoClosers, ThoughtsAtTheEnd
    <3> QED
      BY <2>1, <3>1, <3>2 DEF Filter!Inside
  <2> QED
    BY <1>3, <2>1, <2>2
<1> QED
  BY <1>4, <1>5
-----------------------------------------------------------------------------
(* The passes in turn, whatever the reply.                                 *)
StripInv ==
  /\ IsReply /\ i \in Nat
  /\ pass \in {"start", "blocks", "closer", "opener", "done"}
  /\ pass = "start" => left = All
  /\ pass = "blocks" => \E f \in {0} \cup Filter!Closers(All) : BlocksRemoved(left, f)
  /\ pass = "closer" => ClosersAreLone(left)
  /\ pass = "opener" => NoClosers(left)
  /\ pass = "done" => left = Filter!Answer

(* A reply without tags is all answer.                                     *)
LEMMA StartStep ==
  ASSUME IsReply, left = All
  PROVE  /\ Filter!Openers(left) \cup Filter!Closers(left) = {} => left = Filter!Answer
         /\ BlocksRemoved(left, 0)
<1> USE DEF IsReply, All, Marks, Filter!Positions, Filter!Openers, Filter!Closers
<1>1. Len(reply) \in Nat
  OBVIOUS
<1>2. Filter!Openers(left) \cup Filter!Closers(left) = {} => left = Filter!Answer
  <2> SUFFICES ASSUME \A p \in 1 .. Len(reply) : reply[p] # "open" /\ reply[p] # "close"
               PROVE  left = Filter!Answer
    OBVIOUS
  <2>1. \A p \in 1 .. Len(reply) : ~Filter!Inside(p) /\ ~Filter!BeforeLoneCloser(p)
    BY <1>1 DEF Filter!Inside, Filter!BeforeLoneCloser
  <2> QED
    BY <1>1, <2>1 DEF Filter!Answer, Filter!Text
<1> QED
  BY <1>1, <1>2 DEF BlocksRemoved

(* What is said of a reply depends on nothing else.                        *)
LEMMA SameReply ==
  ASSUME reply' = reply
  PROVE  /\ IsReply' <=> IsReply
         /\ All' = All /\ Filter!Closers(All)' = Filter!Closers(All) /\ Filter!Answer' = Filter!Answer
         /\ \A f : BlocksRemoved(left', f) <=> BlocksRemoved(left, f)'
         /\ ClosersAreLone(left') <=> ClosersAreLone(left)'
         /\ NoClosers(left') <=> NoClosers(left)'
<1>1. /\ IsReply' <=> IsReply
      /\ All' = All /\ Filter!Closers(All)' = Filter!Closers(All) /\ Filter!Answer' = Filter!Answer
  BY DEF IsReply, All, Filter!Positions, Filter!Closers, Filter!Openers, Filter!Answer, Filter!Text,
         Filter!Inside, Filter!BeforeLoneCloser
<1>2. \A f : BlocksRemoved(left', f) <=> BlocksRemoved(left, f)'
  BY DEF BlocksRemoved, All, Filter!Positions, Filter!Closers, Filter!Openers, Filter!Inside
<1>3. ClosersAreLone(left') <=> ClosersAreLone(left)'
  BY DEF ClosersAreLone, ThoughtsAtTheEnd, All, Filter!Positions, Filter!Closers, Filter!Openers,
         Filter!Inside
<1>4. NoClosers(left') <=> NoClosers(left)'
  BY DEF NoClosers, ThoughtsAtTheEnd, All, Filter!Positions, Filter!Closers, Filter!Openers,
         Filter!Inside, Filter!BeforeLoneCloser, Filter!Text
<1> QED
  BY <1>1, <1>2, <1>3, <1>4

(* A pass leaves the reply alone, and so what it says.                     *)
LEMMA StripStep ==
  ASSUME StripInv, Filter!Next, UNCHANGED i
  PROVE  StripInv'
<1> USE DEF StripInv, Filter!Pass
<1>1. reply' = reply
  BY DEF Filter!Next, Filter!Starts, Filter!BlockRemoved, Filter!BlocksEnd, Filter!CloserCut, Filter!OpenerCut
<1>2. CASE Filter!Starts
  BY <1>1, SameReply, <1>2, StartStep DEF Filter!Starts
<1>3. CASE Filter!BlockRemoved
  <2>1. PICK f \in {0} \cup Filter!Closers(All) : BlocksRemoved(left, f)
    BY <1>3 DEF Filter!BlockRemoved
  <2> DEFINE c == Filter!BlockEnd(Filter!Min(Filter!Blocks))
  <2>2. BlocksRemoved(left', c) /\ pass' = "blocks"
    BY <1>3, <2>1, BlockStep DEF Filter!BlockRemoved
  <2>3. c \in {0} \cup Filter!Closers(All)
    BY <2>2 DEF BlocksRemoved, All, Filter!Positions, Filter!Closers
  <2> QED
    BY <1>1, SameReply, <1>3, <2>2, <2>3 DEF Filter!BlockRemoved
<1>4. CASE Filter!BlocksEnd
  BY <1>1, SameReply, <1>4, BlocksEndStep DEF Filter!BlocksEnd
<1>5. CASE Filter!CloserCut
  BY <1>1, SameReply, <1>5, CloserStep DEF Filter!CloserCut
<1>6. CASE Filter!OpenerCut
  BY <1>1, SameReply, <1>6, OpenerStep DEF Filter!OpenerCut
<1> QED
  BY <1>2, <1>3, <1>4, <1>5, <1>6 DEF Filter!Next

(* What is handed on of a reply is its answer: no tag, nothing inside a    *)
(* thought or before a closer that no opener explains, and everything      *)
(* else, for replies of every length and shape (stripReasoning, and the    *)
(* chat stages that call it).                                              *)
THEOREM StripsToTheAnswer == StageSpec => []OnlyTheAnswer
<1>1. StageInit => StripInv
  <2> SUFFICES ASSUME StageInit PROVE StripInv
    OBVIOUS
  <2>1. reply = <<>> /\ left = {} /\ pass = "done" /\ i = 0
    BY DEF StageInit, Init
  <2> QED
    BY <2>1 DEF StripInv, IsReply, Filter!Answer, Filter!Text, Filter!Positions
<1>2. StripInv /\ [StageNext]_stageVars => StripInv'
  <2> SUFFICES ASSUME StripInv, [StageNext]_stageVars PROVE StripInv'
    OBVIOUS
  <2> USE DEF StripInv
  <2>1. CASE UNCHANGED <<reply, left, pass>> /\ i' \in Nat
    BY <2>1, SameReply
  <2>2. CASE UNCHANGED stageVars
    BY <2>1, <2>2 DEF stageVars, filterVars, vars
  <2>3. CASE Waits
    <3>1. i' \in Nat
      BY <2>3 DEF Waits, NoContext, NewContext, Cancelled, Decode, ProcessUbatch, UbatchFails, DecodeFailed,
                  ReplyEnds, NextToken, Returned, decodeVars
    <3> QED
      BY <2>1, <2>3, <3>1 DEF Waits, filterVars
  <2>4. ASSUME NEW m \in Models, NEW n \in PromptLengths, Asks(m, n)
        PROVE  StripInv'
    <3>1. reply' = <<>> /\ left' = {} /\ pass' = "done" /\ i' = i
      BY <2>4 DEF Asks, Chat
    <3> QED
      BY <3>1 DEF IsReply, Filter!Answer, Filter!Text, Filter!Positions
  <2>5. CASE Answers
    <3>1. i' = 0 /\ pass' = "start"
      BY <2>5 DEF Answers, ReplyEnds, Returned
    <3>2. PICK k \in Nat : reply' \in [1 .. k -> Marks]
      BY <2>5, StageAssumption DEF Answers, Filter!Replies, Smaller, Marks
    <3>3. reply' \in Seq(Marks)
      BY <3>2
    <3>4. left' = 1 .. Len(reply')
      BY <2>5 DEF Answers
    <3> QED
      BY <3>1, <3>3, <3>4 DEF IsReply, All, Filter!Positions
  <2>6. CASE Strips
    BY <2>6, StripStep DEF Strips, vars
  <2> QED
    BY <2>2, <2>3, <2>4, <2>5, <2>6 DEF StageNext
<1>3. StripInv => OnlyTheAnswer
  BY DEF StripInv, OnlyTheAnswer, Filter!AnswerIsLeft
<1> QED
  BY <1>1, <1>2, <1>3, PTL DEF StageSpec
-----------------------------------------------------------------------------
(* Every finite set of integers has a greatest and a least one.            *)
LEMMA GreatestOf ==
  ASSUME NEW S, S \subseteq Int, IsFiniteSet(S), S # {}
  PROVE  Max(S) \in S /\ \A k \in S : k <= Max(S)
<1> DEFINE UpFrom(y) == {x \in S : x >= y}
<1> DEFINE Ups == {UpFrom(y) : y \in S}
<1> DEFINE Order == StrictSubsetOrdering(S)
<1>1. Ups \subseteq FiniteSubsetsOf(S) /\ Ups # {}
  <2>1. \A y \in S : UpFrom(y) \in SUBSET S /\ IsFiniteSet(UpFrom(y))
    BY FS_Subset
  <2> QED
    BY <2>1 DEF FiniteSubsetsOf
<1>2. IsWellFoundedOn(Order, FiniteSubsetsOf(S))
  BY FS_StrictSubsetOrderingWellFounded
<1>3. PICK b \in Ups : \A c \in Ups : <<c, b>> \notin Order
  <2> HIDE DEF Ups, Order
  <2> QED
    BY <1>1, <1>2, WFMin
<1>4. PICK m \in S : b = UpFrom(m)
  BY <1>3
<1>5. ASSUME NEW k \in S, k > m
      PROVE  FALSE
  <2>0. k \in Int /\ m \in Int /\ \A x \in S : x \in Int
    OBVIOUS
  <2>1. UpFrom(k) \subseteq b
    <3>1. \A x \in S : x >= k => x >= m
      BY <2>0, <1>5
    <3> QED
      BY <3>1, <1>4
  <2>3. m \in b /\ m \notin UpFrom(k)
    BY <2>0, <1>4, <1>5
  <2>2. <<UpFrom(k), b>> \in Order
    BY <2>1, <2>3, <1>4 DEF StrictSubsetOrdering
  <2> QED
    BY <1>3, <2>2
<1>6. \E x \in S : \A y \in S : x >= y
  BY <1>5
<1>7. Max(S) \in S /\ \A k \in S : Max(S) >= k
  BY <1>6 DEF Max
<1> QED
  BY <1>7

(* And a least one.                                                        *)
LEMMA LeastOf ==
  ASSUME NEW S, S \subseteq Int, IsFiniteSet(S), S # {}
  PROVE  Min(S) \in S /\ \A k \in S : Min(S) <= k
<1> DEFINE DownFrom(y) == {x \in S : x <= y}
<1> DEFINE Downs == {DownFrom(y) : y \in S}
<1> DEFINE Order == StrictSubsetOrdering(S)
<1>1. Downs \subseteq FiniteSubsetsOf(S) /\ Downs # {}
  <2>1. \A y \in S : DownFrom(y) \in SUBSET S /\ IsFiniteSet(DownFrom(y))
    BY FS_Subset
  <2> QED
    BY <2>1 DEF FiniteSubsetsOf
<1>2. IsWellFoundedOn(Order, FiniteSubsetsOf(S))
  BY FS_StrictSubsetOrderingWellFounded
<1>3. PICK b \in Downs : \A c \in Downs : <<c, b>> \notin Order
  <2> HIDE DEF Downs, Order
  <2> QED
    BY <1>1, <1>2, WFMin
<1>4. PICK m \in S : b = DownFrom(m)
  BY <1>3
<1>5. ASSUME NEW k \in S, k < m
      PROVE  FALSE
  <2>0. k \in Int /\ m \in Int /\ \A x \in S : x \in Int
    OBVIOUS
  <2>1. DownFrom(k) \subseteq b
    <3>1. \A x \in S : x <= k => x <= m
      BY <2>0, <1>5
    <3> QED
      BY <3>1, <1>4
  <2>3. m \in b /\ m \notin DownFrom(k)
    BY <2>0, <1>4, <1>5
  <2>2. <<DownFrom(k), b>> \in Order
    BY <2>1, <2>3, <1>4 DEF StrictSubsetOrdering
  <2> QED
    BY <1>3, <2>2
<1>6. \E x \in S : \A y \in S : x =< y
  BY <1>5
<1>7. Min(S) \in S /\ \A k \in S : Min(S) =< k
  BY <1>6 DEF Min
<1> QED
  BY <1>7
-----------------------------------------------------------------------------
(* The micro-batches of a batch are placed one after the other ...         *)
LEMMA FoldPlaceNext ==
  ASSUME NEW base, NEW s, Len(s) \in Nat, DOMAIN s = 1 .. Len(s)
  PROVE  \E h : /\ h[0] = base
                /\ \A q \in 1 .. Len(s) : h[q] = PlaceNext(h[q - 1], s[q])
                /\ FoldLeft(PlaceNext, base, s) = h[Len(s)]
<1> DEFINE n == Len(s)
<1> DEFINE Iter(H, k) ==
      H = [u \in SUBSET (1 .. k) |-> IF u = {} THEN base ELSE PlaceNext(H[u \ {Max(u)}], s[Max(u)])]
<1> DEFINE Bad == {k \in Nat : k <= n /\ ~\E H : Iter(H, k)}
<1>0. \A k \in Nat : \A u \in SUBSET (1 .. k) : u # {} => Max(u) \in u /\ \A x \in u : x <= Max(u)
  <2> TAKE k \in Nat
  <2> TAKE u \in SUBSET (1 .. k)
  <2>1. IsFiniteSet(1 .. k) /\ u \subseteq Int
    BY FS_Interval
  <2>2. IsFiniteSet(u)
    BY <2>1, FS_Subset
  <2> QED
    BY <2>1, <2>2, GreatestOf
<1>1. Bad = {}
  <2>1. SUFFICES ASSUME Bad # {} PROVE FALSE
    OBVIOUS
  <2>2. PICK k \in Bad : \A j \in Bad : k <= j
    <3>1. Bad \subseteq Nat
      OBVIOUS
    <3> HIDE DEF Bad
    <3> QED
      BY <2>1, <3>1, LeastNumber
  <2>3. k \in Nat /\ k <= n /\ ~\E H : Iter(H, k)
    BY <2>2
  <2>4. CASE k = 0
    <3> DEFINE H == [u \in SUBSET (1 .. 0) |-> base]
    <3>1. SUBSET (1 .. 0) = {{}}
      OBVIOUS
    <3>2. Iter(H, 0)
      BY <3>1
    <3> QED
      BY <2>3, <2>4, <3>2
  <2>5. CASE k > 0
    <3>1. k - 1 \in Nat /\ k - 1 <= n /\ ~(k <= k - 1)
      BY <2>3, <2>5
    <3>a. k - 1 \notin Bad
      <4> HIDE DEF Bad
      <4> QED
        BY <2>2, <3>1
    <3>2. PICK H : Iter(H, k - 1)
      <4> HIDE DEF Iter
      <4> QED
        BY <3>1, <3>a
    <3> DEFINE G == [u \in SUBSET (1 .. k) |-> IF k \in u THEN PlaceNext(H[u \ {k}], s[k]) ELSE H[u]]
    <3>3. ASSUME NEW u \in SUBSET (1 .. k)
          PROVE  G[u] = IF u = {} THEN base ELSE PlaceNext(G[u \ {Max(u)}], s[Max(u)])
      <4>1. CASE k \in u
        <5>1. Max(u) = k
          <6>1. Max(u) \in u /\ \A x \in u : x <= Max(u)
            BY <1>0, <2>3, <4>1
          <6>2. PICK m \in 1 .. k : m = Max(u)
            BY <6>1
          <6>3. k <= m /\ m <= k
            BY <2>3, <4>1, <6>1, <6>2
          <6> QED
            BY <2>3, <6>2, <6>3
        <5>2. u \ {k} \in SUBSET (1 .. k) /\ k \notin u \ {k}
          OBVIOUS
        <5>3. G[u \ {k}] = H[u \ {k}]
          BY <5>2
        <5> QED
          BY <4>1, <5>1, <5>3
      <4>2. CASE k \notin u
        <5>1. u \in SUBSET (1 .. (k - 1))
          BY <2>3, <4>2
        <5>2. G[u] = H[u]
          BY <4>2
        <5>3. H[u] = IF u = {} THEN base ELSE PlaceNext(H[u \ {Max(u)}], s[Max(u)])
          BY <3>2, <5>1
        <5>4. u \ {Max(u)} \in SUBSET (1 .. k) /\ k \notin u \ {Max(u)}
          BY <4>2
        <5>5. G[u \ {Max(u)}] = H[u \ {Max(u)}]
          BY <5>4
        <5> QED
          BY <5>2, <5>3, <5>5
      <4> QED
        BY <4>1, <4>2
    <3>4. Iter(G, k)
      <4>1. G = [u \in SUBSET (1 .. k) |-> G[u]]
        OBVIOUS
      <4>2. PICK g : g = G
        OBVIOUS
      <4>3. \A u \in SUBSET (1 .. k) : g[u] = IF u = {} THEN base ELSE PlaceNext(g[u \ {Max(u)}], s[Max(u)])
        BY <3>3, <4>2
      <4>4. g = [u \in SUBSET (1 .. k) |-> g[u]]
        BY <4>1, <4>2
      <4> HIDE DEF G
      <4>5. Iter(g, k)
        BY <4>3, <4>4
      <4> QED
        BY <4>2, <4>5
    <3> QED
      BY <2>3, <3>4
  <2> QED
    BY <2>3, <2>4, <2>5
<1>2. n \in Nat /\ n \notin Bad /\ DOMAIN s = 1 .. n
  BY <1>1
<1>3. \E H : Iter(H, n)
  <2>1. n <= n
    BY <1>2
  <2> HIDE DEF Iter, n
  <2> QED
    BY <1>2, <2>1
<1> DEFINE It == CHOOSE H : H = [u \in SUBSET (DOMAIN s) |-> IF u = {} THEN base ELSE PlaceNext(H[u \ {Max(u)}], s[Max(u)])]
<1>4. It = [u \in SUBSET (DOMAIN s) |-> IF u = {} THEN base ELSE PlaceNext(It[u \ {Max(u)}], s[Max(u)])]
  BY <1>3
<1>5. FoldLeft(PlaceNext, base, s) = It[DOMAIN s]
  BY DEF FoldLeft, MapThenFoldSet
<1> HIDE DEF It
<1> DEFINE h == [q \in 0 .. n |-> It[1 .. q]]
<1>6. h[0] = base
  <2>1. 1 .. 0 = {} /\ {} \in SUBSET (DOMAIN s)
    OBVIOUS
  <2>2. It[{}] = base
    BY <1>4, <2>1
  <2>3. 0 \in 0 .. n
    BY <1>2
  <2> QED
    BY <2>1, <2>2, <2>3
<1>7. ASSUME NEW q \in 1 .. n
      PROVE  h[q] = PlaceNext(h[q - 1], s[q])
  <2> HIDE DEF n
  <2>a. q \in Nat /\ 1 <= q /\ q <= n
    BY <1>2
  <2>1. 1 .. q \in SUBSET (DOMAIN s) /\ 1 .. q # {} /\ q \in Nat
    BY <1>2, <2>a
  <2>2. Max(1 .. q) = q
    <3>1. Max(1 .. q) \in 1 .. q /\ \A x \in 1 .. q : x <= Max(1 .. q)
      BY <1>0, <2>1
    <3>2. q \in 1 .. q
      OBVIOUS
    <3> QED
      BY <2>1, <3>1, <3>2
  <2>3. (1 .. q) \ {q} = 1 .. (q - 1)
    BY <2>1
  <2>4. It[1 .. q] = PlaceNext(It[1 .. (q - 1)], s[q])
    BY <1>4, <2>1, <2>2, <2>3
  <2>5. q \in 0 .. n /\ q - 1 \in 0 .. n
    BY <1>2
  <2> QED
    BY <2>4, <2>5
<1>8. FoldLeft(PlaceNext, base, s) = h[n]
  <2>1. n \in 0 .. n
    BY <1>2
  <2> QED
    BY <1>5, <2>1
<1> QED
  BY <1>6, <1>7, <1>8

(* ... and taken out again, the last one first.                            *)
LEMMA FoldRestore ==
  ASSUME NEW base, NEW s, Len(s) \in Nat, DOMAIN s = 1 .. Len(s)
  PROVE  \E h : /\ h[Len(s)] = base
                /\ \A q \in 1 .. Len(s) : h[q - 1] = Restore(s[q], h[q])
                /\ FoldRight(Restore, s, base) = h[0]
<1> DEFINE n == Len(s)
<1> DEFINE Iter(H, j) ==
      H = [u \in SUBSET (j .. n) |-> IF u = {} THEN base ELSE Restore(s[Min(u)], H[u \ {Min(u)}])]
<1> DEFINE Bad == {k \in Nat : k <= n /\ ~\E H : Iter(H, n - k + 1)}
<1>0. \A j \in Nat : \A u \in SUBSET (j .. n) : u # {} => Min(u) \in u /\ \A x \in u : Min(u) <= x
  <2> TAKE j \in Nat
  <2> TAKE u \in SUBSET (j .. n)
  <2>1. IsFiniteSet(j .. n) /\ u \subseteq Int
    BY FS_Interval
  <2>2. IsFiniteSet(u)
    BY <2>1, FS_Subset
  <2> QED
    BY <2>1, <2>2, LeastOf
<1>1. Bad = {}
  <2>1. SUFFICES ASSUME Bad # {} PROVE FALSE
    OBVIOUS
  <2>2. PICK k \in Bad : \A j \in Bad : k <= j
    <3>1. Bad \subseteq Nat
      OBVIOUS
    <3> HIDE DEF Bad
    <3> QED
      BY <2>1, <3>1, LeastNumber
  <2>3. k \in Nat /\ k <= n /\ ~\E H : Iter(H, n - k + 1)
    BY <2>2
  <2>4. CASE k = 0
    <3> DEFINE H == [u \in SUBSET ((n + 1) .. n) |-> base]
    <3>1. SUBSET ((n + 1) .. n) = {{}} /\ n - k + 1 = n + 1
      BY <2>4
    <3>2. Iter(H, n + 1)
      BY <3>1
    <3> HIDE DEF Iter
    <3> QED
      BY <2>3, <3>1, <3>2
  <2>5. CASE k > 0
    <3>1. k - 1 \in Nat /\ k - 1 <= n /\ ~(k <= k - 1)
      BY <2>3, <2>5
    <3>a. k - 1 \notin Bad
      <4> HIDE DEF Bad
      <4> QED
        BY <2>2, <3>1
    <3>b. PICK l \in Nat : l = n - k + 1 /\ l <= n /\ n - (k - 1) + 1 = l + 1
      <4>1. k \in Nat /\ k <= n /\ k > 0 /\ n \in Nat
        BY <2>3, <2>5
      <4> HIDE DEF n
      <4> QED
        BY <4>1
    <3>2. PICK H : Iter(H, l + 1)
      <4> HIDE DEF Iter
      <4> QED
        BY <3>1, <3>a, <3>b
    <3> DEFINE G == [u \in SUBSET (l .. n) |-> IF l \in u THEN Restore(s[l], H[u \ {l}]) ELSE H[u]]
    <3>3. ASSUME NEW u \in SUBSET (l .. n)
          PROVE  G[u] = IF u = {} THEN base ELSE Restore(s[Min(u)], G[u \ {Min(u)}])
      <4>1. CASE l \in u
        <5>1. Min(u) = l
          <6>1. Min(u) \in u /\ \A x \in u : Min(u) <= x
            BY <1>0, <3>b, <4>1
          <6>2. PICK m \in l .. n : m = Min(u)
            BY <6>1
          <6>3. l <= m /\ m <= l
            BY <3>b, <4>1, <6>1, <6>2
          <6> QED
            BY <3>b, <6>2, <6>3
        <5>2. u \ {l} \in SUBSET (l .. n) /\ l \notin u \ {l}
          OBVIOUS
        <5>3. G[u \ {l}] = H[u \ {l}]
          BY <5>2
        <5> QED
          BY <4>1, <5>1, <5>3
      <4>2. CASE l \notin u
        <5>1. u \in SUBSET ((l + 1) .. n)
          BY <3>b, <4>2
        <5>2. G[u] = H[u]
          BY <4>2
        <5>3. H[u] = IF u = {} THEN base ELSE Restore(s[Min(u)], H[u \ {Min(u)}])
          BY <3>2, <5>1
        <5>4. u \ {Min(u)} \in SUBSET (l .. n) /\ l \notin u \ {Min(u)}
          BY <4>2
        <5>5. G[u \ {Min(u)}] = H[u \ {Min(u)}]
          BY <5>4
        <5> QED
          BY <5>2, <5>3, <5>5
      <4> QED
        BY <4>1, <4>2
    <3>4. Iter(G, l)
      <4>1. G = [u \in SUBSET (l .. n) |-> G[u]]
        OBVIOUS
      <4>2. PICK g : g = G
        OBVIOUS
      <4>3. \A u \in SUBSET (l .. n) : g[u] = IF u = {} THEN base ELSE Restore(s[Min(u)], g[u \ {Min(u)}])
        BY <3>3, <4>2
      <4>4. g = [u \in SUBSET (l .. n) |-> g[u]]
        BY <4>1, <4>2
      <4> HIDE DEF G
      <4>5. Iter(g, l)
        BY <4>3, <4>4
      <4> QED
        BY <4>2, <4>5
    <3> HIDE DEF Iter
    <3> QED
      BY <2>3, <3>4, <3>b
  <2> QED
    BY <2>3, <2>4, <2>5
<1>2. n \in Nat /\ n \notin Bad /\ DOMAIN s = 1 .. n
  BY <1>1
<1>3. \E H : Iter(H, 1)
  <2>1. n <= n /\ n - n + 1 = 1
    BY <1>2
  <2>2. \E H : Iter(H, n - n + 1)
    <3> HIDE DEF Iter, n
    <3> QED
      BY <1>2, <2>1
  <2> HIDE DEF Iter
  <2> QED
    BY <2>1, <2>2
<1> DEFINE It == CHOOSE H : H = [u \in SUBSET (DOMAIN s) |-> IF u = {} THEN base ELSE Restore(s[Min(u)], H[u \ {Min(u)}])]
<1>4. It = [u \in SUBSET (DOMAIN s) |-> IF u = {} THEN base ELSE Restore(s[Min(u)], It[u \ {Min(u)}])]
  BY <1>3
<1>5. FoldRight(Restore, s, base) = It[DOMAIN s]
  BY DEF FoldRight, MapThenFoldSet
<1> HIDE DEF It
<1> DEFINE h == [q \in 0 .. n |-> It[(q + 1) .. n]]
<1>6. h[n] = base
  <2>1. (n + 1) .. n = {} /\ {} \in SUBSET (DOMAIN s)
    BY <1>2
  <2>2. It[{}] = base
    BY <1>4, <2>1
  <2>3. n \in 0 .. n
    BY <1>2
  <2> QED
    BY <2>1, <2>2, <2>3
<1>7. ASSUME NEW q \in 1 .. n
      PROVE  h[q - 1] = Restore(s[q], h[q])
  <2> HIDE DEF n
  <2>a. q \in Nat /\ 1 <= q /\ q <= n
    BY <1>2
  <2>1. q .. n \in SUBSET (DOMAIN s) /\ q .. n # {} /\ q \in Nat
    BY <1>2, <2>a
  <2>2. Min(q .. n) = q
    <3>1. Min(q .. n) \in q .. n /\ \A x \in q .. n : Min(q .. n) <= x
      BY <1>0, <2>1
    <3>2. q \in q .. n
      BY <1>2
    <3> QED
      BY <2>1, <3>1, <3>2
  <2>3. (q .. n) \ {q} = (q + 1) .. n
    BY <1>2, <2>1
  <2>4. It[q .. n] = Restore(s[q], It[(q + 1) .. n])
    BY <1>4, <2>1, <2>2, <2>3
  <2>5. q \in 0 .. n /\ q - 1 \in 0 .. n /\ (q - 1) + 1 = q
    BY <1>2
  <2> QED
    BY <2>4, <2>5
<1>8. FoldRight(Restore, s, base) = h[0]
  <2>1. 0 \in 0 .. n /\ 0 + 1 = 1
    BY <1>2
  <2> QED
    BY <1>2, <1>5, <2>1
<1> QED
  BY <1>6, <1>7, <1>8
-----------------------------------------------------------------------------
(* A cache that holds the first m positions, each in the cell of its       *)
(* number, and nothing else; and the n numbers from m on.                  *)
Filled(size, m, n_swa, swa_type) ==
  [pos |-> [j \in 0 .. size - 1 |-> IF j < m THEN j ELSE Empty], head |-> m,
   n_swa |-> n_swa, swa_type |-> swa_type]
Run(m, n) == [q \in 1 .. n |-> m + q - 1]

(* The numbers of a set that begins with 0, 1, 2, ... are these.           *)
LEMMA NthOfRun ==
  ASSUME NEW n \in Nat, NEW S, S \subseteq Nat, IsFiniteSet(S), 0 .. n - 1 \subseteq S, NEW q \in 1 .. n
  PROVE  Nth(S, q) = q - 1
<1> DEFINE Below(x) == {y \in S : y < x}
<1>0. q - 1 \in Nat /\ q - 1 \in S /\ q \in Nat
  OBVIOUS
<1>1. ASSUME NEW x \in Nat, x <= n
      PROVE  Below(x) = 0 .. x - 1 /\ Cardinality(Below(x)) = x
  <2>1. \A y : y \in Below(x) <=> y \in 0 .. x - 1
    <3>1. \A y \in 0 .. x - 1 : y \in 0 .. n - 1 /\ y < x
      BY <1>1
    <3>2. \A y \in S : y \in Nat /\ (y < x => y \in 0 .. x - 1)
      OBVIOUS
    <3> QED
      BY <3>1, <3>2
  <2>2. Below(x) = 0 .. x - 1
    BY <2>1
  <2>3. Cardinality(0 .. x - 1) = x
    BY FS_Interval
  <2> HIDE DEF Below
  <2> QED
    BY <2>2, <2>3
<1>2. ASSUME NEW x \in S, x > n
      PROVE  Cardinality(Below(x)) >= n /\ Cardinality(Below(x)) \in Nat
  <2>1. 0 .. n - 1 \subseteq Below(x) /\ IsFiniteSet(Below(x))
    <3>1. Below(x) \subseteq S
      OBVIOUS
    <3>2. \A y \in 0 .. n - 1 : y \in S /\ y < x
      BY <1>2
    <3> QED
      BY <3>1, <3>2, FS_Subset
  <2>2. Cardinality(0 .. n - 1) = n
    BY FS_Interval
  <2> HIDE DEF Below
  <2> QED
    BY <2>1, <2>2, FS_Subset, FS_CardinalityType
<1>3. Cardinality(Below(q - 1)) = q - 1
  BY <1>0, <1>1
<1>4. ASSUME NEW x \in S, Cardinality(Below(x)) = q - 1
      PROVE  x = q - 1
  <2>1. CASE x <= n
    BY <1>1, <1>4, <2>1
  <2>2. CASE x > n
    <3>1. Cardinality(Below(x)) >= n
      BY <1>2, <2>2
    <3> QED
      BY <1>4, <3>1, <1>0
  <2> QED
    BY <2>1, <2>2
<1> HIDE DEF Below
<1>5. Nth(S, q) = CHOOSE x \in S : Cardinality(Below(x)) = q - 1
  BY DEF Nth, Below
<1> QED
  BY <1>0, <1>3, <1>4, <1>5

(* What is in such a cache.                                                *)
LEMMA FilledHolds ==
  ASSUME NEW size \in Nat, NEW m \in Nat, m <= size, NEW w, NEW type,
         NEW kv, kv = Filled(size, m, w, type)
  PROVE  /\ Cells(kv) = 0 .. size - 1 /\ Cardinality(Cells(kv)) = size
         /\ Used(kv) = 0 .. m - 1 /\ Cardinality(Used(kv)) = m
         /\ Positions(kv) = 0 .. m - 1
         /\ SeqPosMax(kv) = m - 1
<1>0. kv.pos = [j \in 0 .. size - 1 |-> IF j < m THEN j ELSE Empty]
  BY DEF Filled
<1>1. Cells(kv) = 0 .. size - 1 /\ Cardinality(0 .. size - 1) = size
  BY <1>0, FS_Interval DEF Cells
<1>2. \A j \in 0 .. size - 1 : kv.pos[j] = IF j < m THEN j ELSE -1
  BY <1>0 DEF Empty
<1>3. \A j : j \in Used(kv) <=> j \in 0 .. m - 1
  BY <1>1, <1>2 DEF Used, Empty
<1>4. Used(kv) = 0 .. m - 1 /\ Cardinality(0 .. m - 1) = m
  <2>1. Used(kv) = 0 .. m - 1
    BY <1>3
  <2>2. Cardinality(0 .. m - 1) = m
    BY FS_Interval
  <2> QED
    BY <2>1, <2>2
<1>5. Positions(kv) = 0 .. m - 1
  <2>1. \A j \in 0 .. m - 1 : kv.pos[j] = j
    BY <1>2
  <2> QED
    BY <1>4, <2>1 DEF Positions
<1>6. SeqPosMax(kv) = m - 1
  <2>1. CASE m = 0
    BY <1>4, <2>1 DEF SeqPosMax
  <2>2. CASE m # 0
    <3>1. m - 1 \in 0 .. m - 1 /\ IsFiniteSet(0 .. m - 1) /\ 0 .. m - 1 \subseteq Int
      BY <2>2, FS_Interval
    <3>2. Max(0 .. m - 1) \in 0 .. m - 1 /\ \A k \in 0 .. m - 1 : k <= Max(0 .. m - 1)
      BY <3>1, GreatestOf
    <3>3. Max(0 .. m - 1) = m - 1
      BY <3>1, <3>2
    <3> QED
      BY <1>4, <1>5, <3>1, <3>3 DEF SeqPosMax
  <2> QED
    BY <2>1, <2>2
<1> QED
  BY <1>1, <1>4, <1>5, <1>6

(* The next tokens get the next cells.                                     *)
LEMMA FindsNextCells ==
  ASSUME NEW size \in Nat, NEW m \in Nat, NEW n \in Nat, m + n <= size, n > 0, NEW w, NEW type
  PROVE  FindSlot(Filled(size, m, w, type), n) = Run(m, n)
<1> DEFINE kv == Filled(size, m, w, type)
           start == IF kv.head > Cardinality(Used(kv)) + 2 * n THEN 0 ELSE kv.head
           Cell(k) == (start + k) % size
           usable == {k \in 0 .. size - 1 : CanUse(kv, Cell(k))}
<1>1. Cardinality(Cells(kv)) = size /\ Cardinality(Used(kv)) = m
  <2> HIDE DEF kv
  <2>1. PICK c : c = kv
    OBVIOUS
  <2> QED
    BY FilledHolds DEF kv
<1>2. kv.head = m
  BY DEF Filled
<1>3. start = m
  BY <1>1, <1>2
<1>4. \A k \in 0 .. n - 1 : Cell(k) = m + k
  <2> HIDE DEF start
  <2>1. \A k \in 0 .. n - 1 : m + k \in 0 .. size - 1 /\ (m + k) % size = m + k
    OBVIOUS
  <2> QED
    BY <1>3, <2>1
<1>5. \A k \in 0 .. n - 1 : kv.pos[m + k] = Empty
  BY DEF Filled
<1> HIDE DEF Cell
<1>6. 0 .. n - 1 \subseteq usable /\ usable \subseteq Nat /\ IsFiniteSet(usable)
  <2>1. \A k \in 0 .. n - 1 : k \in 0 .. size - 1 /\ CanUse(kv, Cell(k))
    BY <1>4, <1>5 DEF CanUse
  <2>2. IsFiniteSet(0 .. size - 1) /\ usable \subseteq 0 .. size - 1
    BY FS_Interval
  <2>3. IsFiniteSet(usable)
    BY <2>2, FS_Subset
  <2> QED
    BY <2>1, <2>2, <2>3
<1>7. n <= Cardinality(usable)
  <2>1. Cardinality(0 .. n - 1) = n /\ Cardinality(usable) \in Nat
    BY <1>6, FS_Interval, FS_CardinalityType
  <2> HIDE DEF usable
  <2> QED
    BY <1>6, <2>1, FS_Subset
<1> HIDE DEF usable
<1>8. \A q \in 1 .. n : Cell(Nth(usable, q)) = m + q - 1
  <2> TAKE q \in 1 .. n
  <2>1. Nth(usable, q) = q - 1
    BY <1>6, NthOfRun
  <2> QED
    BY <1>4, <2>1
<1>9. FindSlot(kv, n) = IF n <= Cardinality(usable) THEN [q \in 1 .. n |-> Cell(Nth(usable, q))] ELSE <<>>
  BY <1>1 DEF FindSlot, usable, Cell
<1>10. [q \in 1 .. n |-> Cell(Nth(usable, q))] = Run(m, n)
  BY <1>8 DEF Run
<1> HIDE DEF kv
<1>11. FindSlot(kv, n) = Run(m, n)
  BY <1>7, <1>9, <1>10
<1> QED
  BY <1>11 DEF kv

(* Which token goes to a cell.                                             *)
LEMMA CellOfRun ==
  ASSUME NEW m \in Nat, NEW n \in Nat, NEW j
  PROVE  /\ ToSet(Run(m, n)) = m .. m + n - 1
         /\ j \in m .. m + n - 1 => (CHOOSE q \in DOMAIN Run(m, n) : Run(m, n)[q] = j) = j - m + 1
         /\ n > 0 => Last(Run(m, n)) = m + n - 1 /\ Run(m, n) # <<>>
         /\ Run(m, n) \in Seq(Nat) /\ Len(Run(m, n)) = n /\ DOMAIN Run(m, n) = 1 .. n
<1>1. DOMAIN Run(m, n) = 1 .. n /\ (\A q \in 1 .. n : Run(m, n)[q] = m + q - 1)
  BY DEF Run
<1>2. Run(m, n) \in Seq(Nat) /\ Len(Run(m, n)) = n
  BY DEF Run
<1>3. \A x : x \in ToSet(Run(m, n)) <=> x \in m .. m + n - 1
  <2> TAKE x
  <2>1. x \in ToSet(Run(m, n)) <=> \E q \in 1 .. n : x = m + q - 1
    BY <1>1 DEF ToSet
  <2>2. x \in m .. m + n - 1 => x - m + 1 \in 1 .. n /\ x = m + (x - m + 1) - 1
    OBVIOUS
  <2>3. \A q \in 1 .. n : m + q - 1 \in m .. m + n - 1
    OBVIOUS
  <2> QED
    BY <2>1, <2>2, <2>3
<1>4. ASSUME j \in m .. m + n - 1
      PROVE  (CHOOSE q \in DOMAIN Run(m, n) : Run(m, n)[q] = j) = j - m + 1
  <2>1. j - m + 1 \in 1 .. n /\ Run(m, n)[j - m + 1] = j
    BY <1>1, <1>4
  <2>2. \A q \in 1 .. n : Run(m, n)[q] = j => q = j - m + 1
    BY <1>1, <1>4
  <2> QED
    BY <1>1, <2>1, <2>2
<1>5. n > 0 => Last(Run(m, n)) = m + n - 1 /\ Run(m, n) # <<>>
  BY <1>1, <1>2 DEF Last
<1> QED
  BY <1>1, <1>2, <1>3, <1>4, <1>5

(* There they are placed, nothing is purged, ...                           *)
LEMMA PlacesNext ==
  ASSUME NEW size \in Nat, NEW m \in Nat, NEW n \in Nat, m + n <= size, n > 0, NEW w, NEW type
  PROVE  ApplyUbatch(Filled(size, m, w, type), Run(m, n), Run(m, n)) = Filled(size, m + n, w, type)
<1> DEFINE kv == Filled(size, m, w, type)
           s == Run(m, n)
           over == {kv.pos[c] : c \in ToSet(s)} \ {Empty}
           placed == [kv EXCEPT !.pos = [j \in DOMAIN @ |->
                   IF j \in ToSet(s)
                   THEN s[CHOOSE q \in DOMAIN s : s[q] = j] ELSE @[j]]]
<1>1. ToSet(s) = m .. m + n - 1 /\ Last(s) = m + n - 1
  BY CellOfRun
<1>2. over = {}
  <2>1. \A c \in m .. m + n - 1 : kv.pos[c] = Empty
    BY DEF Filled
  <2> QED
    BY <1>1, <2>1
<1>3. placed.pos = [j \in 0 .. size - 1 |-> IF j < m + n THEN j ELSE Empty]
  <2>1. ASSUME NEW j \in 0 .. size - 1
        PROVE  (IF j \in ToSet(s) THEN s[CHOOSE q \in DOMAIN s : s[q] = j] ELSE kv.pos[j])
                 = IF j < m + n THEN j ELSE Empty
    <3>1. kv.pos[j] = IF j < m THEN j ELSE Empty
      BY DEF Filled
    <3>2. CASE j \in m .. m + n - 1
      <4>1. DOMAIN s = 1 .. n /\ \A q \in 1 .. n : s[q] = m + q - 1
        BY DEF Run
      <4>2. j - m + 1 \in 1 .. n /\ \A q \in 1 .. n : s[q] = j <=> q = j - m + 1
        BY <3>2, <4>1
      <4> HIDE DEF s, kv
      <4>3. s[CHOOSE q \in DOMAIN s : s[q] = j] = j
        BY <4>1, <4>2
      <4> QED
        BY <1>1, <3>2, <4>3
    <3>3. CASE j \notin m .. m + n - 1
      <4>1. j < m <=> j < m + n
        BY <3>3
      <4> QED
        BY <1>1, <3>1, <3>3, <4>1
    <3> QED
      BY <3>2, <3>3
  <2>2. DOMAIN kv.pos = 0 .. size - 1
    BY DEF Filled
  <2>3. placed.pos = [j \in 0 .. size - 1 |->
                        IF j \in ToSet(s) THEN s[CHOOSE q \in DOMAIN s : s[q] = j] ELSE kv.pos[j]]
    BY <2>2 DEF Filled
  <2> QED
    BY <2>1, <2>3
<1>4. placed = [pos |-> placed.pos, head |-> m, n_swa |-> w, swa_type |-> type]
  <2>1. PICK o : kv = [pos |-> o, head |-> m, n_swa |-> w, swa_type |-> type]
    BY DEF Filled
  <2>2. PICK q : placed = [kv EXCEPT !.pos = q]
    OBVIOUS
  <2> HIDE DEF kv, placed
  <2> QED
    BY <2>1, <2>2
<1>5. ApplyUbatch(kv, s, s) = [placed EXCEPT !.head = Last(s) + 1]
  BY <1>2 DEF ApplyUbatch
<1> HIDE DEF placed, s
<1>6. Last(s) + 1 = m + n
  BY <1>1
<1>7. PICK p : p = placed.pos
  OBVIOUS
<1>8. ApplyUbatch(kv, s, s) = [pos |-> p, head |-> m + n, n_swa |-> w, swa_type |-> type]
  BY <1>4, <1>5, <1>6, <1>7
<1>9. Filled(size, m + n, w, type) = [pos |-> p, head |-> m + n, n_swa |-> w, swa_type |-> type]
  BY <1>3, <1>7 DEF Filled
<1> QED
  BY <1>8, <1>9 DEF s

(* ... and from there they are taken out again.                            *)
LEMMA RestoresLast ==
  ASSUME NEW size \in Nat, NEW m \in Nat, NEW n \in Nat, m + n <= size, n > 0, NEW w, NEW type
  PROVE  Restore(Saved(Filled(size, m, w, type), Run(m, n)), Filled(size, m + n, w, type))
           = Filled(size, m, w, type)
<1> DEFINE kv == Filled(size, m, w, type)
           full == Filled(size, m + n, w, type)
           s == Run(m, n)
           saved == Saved(kv, s)
           back == [j \in DOMAIN full.pos |-> IF j \in ToSet(s)
                      THEN saved.pos[CHOOSE q \in DOMAIN s : s[q] = j] ELSE full.pos[j]]
<1>1. ToSet(s) = m .. m + n - 1 /\ DOMAIN s = 1 .. n
  BY CellOfRun
<1>2. saved.sinfo = s /\ saved.head = m
  BY DEF Saved, Filled
<1>3. \A q \in 1 .. n : saved.pos[q] = Empty
  <2>1. saved.pos = [q \in 1 .. n |-> kv.pos[s[q]]]
    BY <1>1 DEF Saved
  <2>2. \A q \in 1 .. n : s[q] = m + q - 1 /\ kv.pos[m + q - 1] = Empty
    BY DEF Run, Filled
  <2> QED
    BY <2>1, <2>2
<1>4. back = [j \in 0 .. size - 1 |-> IF j < m THEN j ELSE Empty]
  <2>1. DOMAIN full.pos = 0 .. size - 1
    BY DEF Filled
  <2>2. ASSUME NEW j \in 0 .. size - 1
        PROVE  (IF j \in ToSet(s) THEN saved.pos[CHOOSE q \in DOMAIN s : s[q] = j] ELSE full.pos[j])
                 = IF j < m THEN j ELSE Empty
    <3>1. full.pos[j] = IF j < m + n THEN j ELSE Empty
      BY DEF Filled
    <3>2. CASE j \in m .. m + n - 1
      <4>1. \A q \in 1 .. n : s[q] = m + q - 1
        BY DEF Run
      <4>2. j - m + 1 \in 1 .. n /\ s[j - m + 1] = j
        BY <3>2, <4>1
      <4> HIDE DEF s, saved
      <4>3. (CHOOSE q \in DOMAIN s : s[q] = j) \in 1 .. n
        BY <1>1, <4>2
      <4>4. saved.pos[CHOOSE q \in DOMAIN s : s[q] = j] = Empty
        BY <1>3, <4>3
      <4> QED
        BY <1>1, <3>2, <4>4
    <3>3. CASE j \notin m .. m + n - 1
      <4>1. j < m <=> j < m + n
        BY <3>3
      <4> QED
        BY <1>1, <3>1, <3>3, <4>1
    <3> QED
      BY <3>2, <3>3
  <2> QED
    BY <2>1, <2>2
<1>5. Restore(saved, full) = [full EXCEPT !.head = m, !.pos = back]
  <2> HIDE DEF full, saved
  <2> QED
    BY <1>2 DEF Restore
<1> HIDE DEF back, saved
<1>6. [full EXCEPT !.head = m, !.pos = back] = [pos |-> back, head |-> m, n_swa |-> w, swa_type |-> type]
  <2>1. PICK o, l : full = [pos |-> o, head |-> l, n_swa |-> w, swa_type |-> type]
    BY DEF Filled
  <2> HIDE DEF full
  <2>2. PICK half : half = [full EXCEPT !.head = m]
    OBVIOUS
  <2>3. half = [pos |-> o, head |-> m, n_swa |-> w, swa_type |-> type]
    BY <2>1, <2>2
  <2>4. [half EXCEPT !.pos = back] = [pos |-> back, head |-> m, n_swa |-> w, swa_type |-> type]
    BY <2>3
  <2> QED
    BY <2>2, <2>4
<1>7. kv = [pos |-> back, head |-> m, n_swa |-> w, swa_type |-> type]
  BY <1>4 DEF Filled
<1> QED
  BY <1>5, <1>6, <1>7 DEF saved
-----------------------------------------------------------------------------
(* A micro-batch that finds its cells is placed, and remembered.           *)
LEMMA PlacesOne ==
  ASSUME NEW kv, NEW states, NEW pos, FindSlot(kv, Len(pos)) = pos, pos # <<>>
  PROVE  PlaceNext([kv |-> kv, states |-> states, success |-> TRUE], pos)
           = [kv |-> ApplyUbatch(kv, pos, pos), states |-> Append(states, Saved(kv, pos)), success |-> TRUE]
<1>1. PICK s : s = [kv |-> kv, states |-> states, success |-> TRUE]
  OBVIOUS
<1>2. s.kv = kv /\ s.states = states /\ s.success
  BY <1>1
<1>3. PICK a, l : a = ApplyUbatch(kv, pos, pos) /\ l = Append(states, Saved(kv, pos))
  OBVIOUS
<1>4. PlaceNext(s, pos) = [s EXCEPT !.kv = ApplyUbatch(@, pos, pos), !.states = Append(@, Saved(s.kv, pos))]
  BY <1>2 DEF PlaceNext
<1>5. PICK half : half = [s EXCEPT !.kv = ApplyUbatch(@, pos, pos)]
  OBVIOUS
<1>6. half = [kv |-> a, states |-> states, success |-> TRUE]
  BY <1>1, <1>3, <1>5
<1>7. PlaceNext(s, pos) = [half EXCEPT !.states = Append(@, Saved(kv, pos))]
  BY <1>2, <1>4, <1>5
<1>8. PlaceNext(s, pos) = [kv |-> a, states |-> l, success |-> TRUE]
  BY <1>3, <1>6, <1>7
<1> QED
  BY <1>1, <1>3, <1>8

(* A cache has room for some micro-batches, and asking leaves no trace.    *)
Finds(kv, batches) == Prepare(kv, batches) = [kv |-> kv, sinfos |-> batches]

(* All micro-batches find the cells of their numbers, and the cache is     *)
(* left as it was.                                                         *)
LEMMA PreparesNext ==
  ASSUME NEW size \in Nat, NEW B \in Nat, NEW E \in [0 .. B -> Nat],
         \A b \in 1 .. B : E[b - 1] < E[b] /\ E[b] <= size,
         NEW w, NEW type,
         NEW batches, batches = [b \in 1 .. B |-> Run(E[b - 1], E[b] - E[b - 1])]
  PROVE  Finds(Filled(size, E[0], w, type), batches)
<1> DEFINE KV(b) == Filled(size, E[b], w, type)
           Kept(q) == Saved(KV(q - 1), batches[q])
           Placed(b) == [kv |-> KV(b), states |-> [q \in 1 .. b |-> Kept(q)], success |-> TRUE]
<1>1. DOMAIN batches = 1 .. B /\ Len(batches) = B
  OBVIOUS
<1>2. ASSUME NEW b \in 1 .. B
      PROVE  /\ FindSlot(KV(b - 1), Len(batches[b])) = batches[b]
             /\ batches[b] # <<>>
             /\ ApplyUbatch(KV(b - 1), batches[b], batches[b]) = KV(b)
             /\ Restore(Kept(b), KV(b)) = KV(b - 1)
  <2>1. PICK m \in Nat : m = E[b - 1]
    OBVIOUS
  <2>2. PICK n \in Nat : n = E[b] - E[b - 1] /\ n > 0 /\ E[b] = m + n /\ m + n <= size
    <3>1. b \in 0 .. B /\ b - 1 \in 0 .. B
      OBVIOUS
    <3>2. E[b] \in Nat /\ E[b - 1] \in Nat
      BY <3>1
    <3>3. E[b - 1] < E[b] /\ E[b] <= size
      OBVIOUS
    <3>4. PICK x \in Nat, y \in Nat : x = E[b - 1] /\ y = E[b] /\ x < y /\ y <= size
      BY <3>2, <3>3
    <3>5. y - x \in Nat /\ y - x > 0 /\ y = x + (y - x)
      BY <3>4
    <3> QED
      BY <2>1, <3>4, <3>5
  <2>3. batches[b] = Run(m, n)
    BY <2>1, <2>2
  <2>4. Len(Run(m, n)) = n /\ Run(m, n) # <<>>
    BY <2>2, CellOfRun
  <2>5. FindSlot(Filled(size, m, w, type), n) = Run(m, n)
    BY <2>2, FindsNextCells
  <2>6. ApplyUbatch(Filled(size, m, w, type), Run(m, n), Run(m, n)) = Filled(size, m + n, w, type)
    BY <2>2, PlacesNext
  <2>7. Restore(Saved(Filled(size, m, w, type), Run(m, n)), Filled(size, m + n, w, type))
          = Filled(size, m, w, type)
    BY <2>2, RestoresLast
  <2> QED
    BY <2>1, <2>2, <2>3, <2>4, <2>5, <2>6, <2>7
<1> HIDE DEF KV
<1>3. PICK h : /\ h[0] = [kv |-> KV(0), states |-> <<>>, success |-> TRUE]
               /\ \A q \in 1 .. B : h[q] = PlaceNext(h[q - 1], batches[q])
               /\ FoldLeft(PlaceNext, [kv |-> KV(0), states |-> <<>>, success |-> TRUE], batches) = h[B]
  <2> DEFINE base == [kv |-> KV(0), states |-> <<>>, success |-> TRUE]
  <2>1. PICK s : s = base
    OBVIOUS
  <2>2. \E h : /\ h[0] = s
               /\ \A q \in 1 .. Len(batches) : h[q] = PlaceNext(h[q - 1], batches[q])
               /\ FoldLeft(PlaceNext, s, batches) = h[Len(batches)]
    <3>1. \A x : Len(x) \in Nat /\ DOMAIN x = 1 .. Len(x) =>
            \E h : /\ h[0] = s
                   /\ \A q \in 1 .. Len(x) : h[q] = PlaceNext(h[q - 1], x[q])
                   /\ FoldLeft(PlaceNext, s, x) = h[Len(x)]
      BY FoldPlaceNext, ZenonT(60)
    <3>2. Len(batches) \in Nat /\ DOMAIN batches = 1 .. Len(batches)
      BY <1>1
    <3> QED
      BY <3>1, <3>2
  <2> HIDE DEF base
  <2>3. \E h : /\ h[0] = base
               /\ \A q \in 1 .. B : h[q] = PlaceNext(h[q - 1], batches[q])
               /\ FoldLeft(PlaceNext, base, batches) = h[B]
    BY <1>1, <2>1, <2>2
  <2> QED
    BY <2>3 DEF base
<1>4. ASSUME NEW b \in 1 .. B, h[b - 1] = Placed(b - 1)
      PROVE  h[b] = Placed(b)
  <2>1. PICK l : l = [q \in 1 .. b - 1 |-> Kept(q)]
    OBVIOUS
  <2>2. PICK kv, pos : kv = KV(b - 1) /\ pos = batches[b]
    OBVIOUS
  <2>3. h[b] = PlaceNext([kv |-> kv, states |-> l, success |-> TRUE], pos)
    BY <1>3, <1>4, <2>1, <2>2
  <2>4. FindSlot(kv, Len(pos)) = pos /\ pos # <<>> /\ ApplyUbatch(kv, pos, pos) = KV(b)
    BY <1>2, <2>2
  <2>5. h[b] = [kv |-> ApplyUbatch(kv, pos, pos), states |-> Append(l, Saved(kv, pos)), success |-> TRUE]
    BY <2>3, <2>4, PlacesOne
  <2>6. Saved(kv, pos) = Kept(b)
    BY <2>2
  <2> HIDE DEF Kept
  <2>7. Append(l, Kept(b)) = [q \in 1 .. b |-> Kept(q)]
    <3>1. b \in Nat /\ b - 1 \in Nat /\ (b - 1) + 1 = b
      OBVIOUS
    <3>2. PICK S : S = {Kept(q) : q \in 1 .. b}
      OBVIOUS
    <3>3. l \in Seq(S) /\ Len(l) = b - 1 /\ Kept(b) \in S
      <4>1. \A q \in 1 .. b : Kept(q) \in S
        BY <3>2
      <4>2. \A q \in 1 .. b - 1 : Kept(q) \in S
        BY <3>1, <4>1
      <4>3. b \in 1 .. b
        BY <3>1
      <4> QED
        BY <2>1, <3>1, <4>1, <4>2, <4>3
    <3>4. PICK a : a = Append(l, Kept(b))
      OBVIOUS
    <3>5. a \in Seq(S) /\ Len(a) = b /\ a[b] = Kept(b) /\ \A q \in 1 .. b - 1 : a[q] = l[q]
      <4>1. PICK x \in S : x = Kept(b)
        BY <3>3
      <4>2. a \in Seq(S) /\ Len(a) = Len(l) + 1
        BY <3>3, <3>4
      <4>3. a[Len(l) + 1] = x
        BY <3>3, <3>4, <4>1
      <4>4. \A q \in 1 .. Len(l) : a[q] = l[q]
        BY <3>3, <3>4, <4>1
      <4> QED
        BY <3>1, <3>3, <4>1, <4>2, <4>3, <4>4
    <3>6. \A q \in 1 .. b : a[q] = Kept(q)
      <4> TAKE q \in 1 .. b
      <4>1. CASE q = b
        BY <3>5, <4>1
      <4>2. CASE q # b
        <5>1. q \in 1 .. b - 1
          BY <3>1, <4>2
        <5>2. l[q] = Kept(q)
          BY <2>1, <5>1
        <5> QED
          BY <3>5, <5>1, <5>2
      <4> QED
        BY <4>1, <4>2
    <3>7. a = [q \in 1 .. b |-> a[q]]
      BY <3>5
    <3> QED
      BY <3>4, <3>6, <3>7
  <2> QED
    BY <2>4, <2>5, <2>6, <2>7
<1>5. h[0] = Placed(0)
  <2> HIDE DEF Kept
  <2>1. [q \in 1 .. 0 |-> Kept(q)] = <<>>
    OBVIOUS
  <2> QED
    BY <1>3, <2>1
<1>6. h[B] = Placed(B)
  <2> DEFINE Bad == {b \in Nat : b <= B /\ h[b] # Placed(b)}
  <2> HIDE DEF Placed
  <2>1. Bad = {}
    <3>1. SUFFICES ASSUME Bad # {} PROVE FALSE
      OBVIOUS
    <3>2. PICK b \in Bad : \A c \in Bad : b <= c
      <4>1. Bad \subseteq Nat
        OBVIOUS
      <4> HIDE DEF Bad
      <4> QED
        BY <3>1, <4>1, LeastNumber
    <3>3. b \in Nat /\ b <= B /\ h[b] # Placed(b) /\ b # 0
      BY <1>5, <3>2
    <3>4. b \in 1 .. B /\ b - 1 \in Nat /\ b - 1 <= B /\ ~(b <= b - 1)
      BY <3>3
    <3>5. h[b - 1] = Placed(b - 1)
      BY <3>2, <3>4
    <3> QED
      BY <1>4, <3>3, <3>4, <3>5
  <2>2. B \in Nat /\ B <= B /\ B \notin Bad
    BY <2>1
  <2> QED
    BY <2>2
<1>7. PICK states : /\ states = [q \in 1 .. B |-> Kept(q)]
                    /\ FoldLeft(PlaceNext, [kv |-> KV(0), states |-> <<>>, success |-> TRUE], batches)
                         = [kv |-> KV(B), states |-> states, success |-> TRUE]
  BY <1>3, <1>6
<1>8. DOMAIN states = 1 .. B /\ Len(states) = B
  BY <1>7
<1>9. PICK g : /\ g[B] = KV(B)
               /\ \A q \in 1 .. B : g[q - 1] = Restore(states[q], g[q])
               /\ FoldRight(Restore, states, KV(B)) = g[0]
  <2>1. PICK s : s = KV(B)
    OBVIOUS
  <2>2. \E g : /\ g[Len(states)] = s
               /\ \A q \in 1 .. Len(states) : g[q - 1] = Restore(states[q], g[q])
               /\ FoldRight(Restore, states, s) = g[0]
    <3>1. Len(states) \in Nat /\ DOMAIN states = 1 .. Len(states)
      BY <1>8
    <3> QED
      BY <3>1, FoldRestore, ZenonT(60)
  <2> QED
    BY <1>8, <2>1, <2>2
<1>10. g[0] = KV(0)
  <2> DEFINE Bad == {d \in Nat : d <= B /\ g[B - d] # KV(B - d)}
  <2>1. Bad = {}
    <3>1. SUFFICES ASSUME Bad # {} PROVE FALSE
      OBVIOUS
    <3>2. PICK d \in Bad : \A c \in Bad : d <= c
      <4>1. Bad \subseteq Nat
        OBVIOUS
      <4> HIDE DEF Bad
      <4> QED
        BY <3>1, <4>1, LeastNumber
    <3>3. d \in Nat /\ d <= B /\ g[B - d] # KV(B - d)
      BY <3>2
    <3>4. d # 0
      <4>1. d = 0 => B - d = B
        OBVIOUS
      <4> QED
        BY <1>9, <3>3, <4>1
    <3>5. PICK b \in 1 .. B : b = B - (d - 1) /\ B - d = b - 1
      BY <3>3, <3>4
    <3>6. d - 1 \in Nat /\ d - 1 <= B /\ ~(d <= d - 1)
      BY <3>3, <3>4
    <3>7. g[b] = KV(b)
      BY <3>2, <3>5, <3>6
    <3>8. g[b - 1] = Restore(states[b], KV(b)) /\ states[b] = Kept(b)
      BY <1>7, <1>9, <3>7
    <3>9. g[b - 1] = KV(b - 1)
      BY <1>2, <3>8
    <3> QED
      BY <3>3, <3>5, <3>9
  <2>2. B \in Nat /\ B <= B /\ B - B = 0
    OBVIOUS
  <2>3. g[B - B] = KV(B - B)
    BY <2>1, <2>2
  <2> QED
    BY <2>2, <2>3
<1>11. ASSUME NEW b \in 1 .. B
       PROVE  states[b].sinfo = batches[b]
  BY <1>7 DEF Saved
<1>12. Prepare(KV(0), batches) = [kv |-> KV(0), sinfos |-> batches]
  <2>1. PICK tried : tried = FoldLeft(PlaceNext, [kv |-> KV(0), states |-> <<>>, success |-> TRUE], batches)
    OBVIOUS
  <2>2. tried.kv = KV(B) /\ tried.states = states /\ tried.success
    BY <1>7, <2>1
  <2>3. Prepare(KV(0), batches)
          = [kv     |-> FoldRight(Restore, tried.states, tried.kv),
             sinfos |-> IF tried.success
                        THEN [b \in DOMAIN tried.states |-> tried.states[b].sinfo] ELSE <<>>]
    BY <2>1 DEF Prepare
  <2>4. [b \in DOMAIN states |-> states[b].sinfo] = batches
    <3>1. batches = [b \in 1 .. B |-> batches[b]]
      OBVIOUS
    <3> QED
      BY <1>8, <1>11, <3>1
  <2> QED
    BY <1>9, <1>10, <2>2, <2>3, <2>4
<1> QED
  BY <1>12 DEF KV, Finds
-----------------------------------------------------------------------------
(* A number of cells is rounded up.                                        *)
LEMMA PaddedHolds ==
  ASSUME NEW n \in Nat
  PROVE  Padded(n) \in Nat /\ n <= Padded(n)
<1>1. PICK c \in Nat, p \in Nat : c = n + Pad - 1 /\ p = Pad /\ p > 0
  BY CacheAssumption
<1>2. c \div p \in Int /\ c = p * (c \div p) + (c % p) /\ c % p \in 0 .. p - 1
  BY <1>1
<1>3. PICK q \in Int, r \in 0 .. p - 1 : q = c \div p /\ r = c % p
  BY <1>2
<1>4. c = p * q + r
  BY <1>2, <1>3
<1>5. PICK z \in Int : z = q * p /\ z = p * q
  OBVIOUS
<1>6. n <= z
  BY <1>1, <1>4, <1>5
<1>7. Padded(n) = q * p
  BY <1>1, <1>3 DEF Padded
<1> QED
  BY <1>5, <1>6, <1>7

(* The cells that a computation reads are those in use, and some more.     *)
LEMMA ReadsAllInUse ==
  ASSUME NEW size \in Nat, NEW m \in Nat, m <= size, NEW w, NEW type
  PROVE  GetNKv(Filled(size, m, w, type)) \in m .. size
<1>1. PICK kv : kv = Filled(size, m, w, type)
  OBVIOUS
<1>2. Used(kv) = 0 .. m - 1 /\ Cardinality(Cells(kv)) = size
  BY <1>1, FilledHolds
<1> DEFINE top == IF Used(kv) = {} THEN 0 ELSE Max(Used(kv)) + 1
<1>3. top = m
  <2>1. CASE m = 0
    BY <1>2, <2>1
  <2>2. CASE m # 0
    <3>1. m - 1 \in 0 .. m - 1 /\ IsFiniteSet(0 .. m - 1) /\ 0 .. m - 1 \subseteq Int
      BY <2>2, FS_Interval
    <3>2. Max(0 .. m - 1) \in 0 .. m - 1 /\ \A k \in 0 .. m - 1 : k <= Max(0 .. m - 1)
      BY <3>1, GreatestOf
    <3>3. Max(0 .. m - 1) = m - 1
      BY <3>1, <3>2
    <3> QED
      BY <1>2, <3>1, <3>3
  <2> QED
    BY <2>1, <2>2
<1>4. Padded(m) \in Nat /\ m <= Padded(m) /\ Pad \in Nat
  BY PaddedHolds, CacheAssumption
<1>5. GetNKv(kv) = LET least == IF Padded(m) > Pad THEN Padded(m) ELSE Pad
                   IN  IF size < least THEN size ELSE least
  BY <1>2, <1>3 DEF GetNKv
<1>6. GetNKv(kv) \in m .. size
  BY <1>4, <1>5
<1> QED
  BY <1>1, <1>6

(* What a token at position p is to attend to, and what cells with the     *)
(* tokens held make of it.                                                 *)
Unmasked(w, type, p) == {s \in 0 .. p : ~IsMaskedSwa(w, type, s, p)}
Attends(held, row, past) == {held[j] : j \in row} = past /\ Cardinality(row) = Cardinality(past)

(* A token attends to the tokens before it that its window does not hide.  *)
LEMMA AttendsRow ==
  ASSUME NEW size \in Nat, NEW a \in Nat, NEW n \in Nat, a + n <= size,
         NEW w \in Nat, NEW type \in SwaTypes, type = "chunked" => w > 0,
         NEW n_kv \in a + n .. size, NEW t \in 1 .. n,
         NEW held, held = [j \in 0 .. size - 1 |-> IF j < a + n THEN j ELSE None]
  PROVE  Attends(held, MaskRow(Filled(size, a + n, w, type), n_kv, Run(a, n), t), Unmasked(w, type, Run(a, n)[t]))
<1> USE DEF Attends, Unmasked
<1>1. PICK kv : kv = Filled(size, a + n, w, type)
  OBVIOUS
<1>2. PICK pos : pos = Run(a, n)
  OBVIOUS
<1>3. kv.n_swa = w /\ kv.swa_type = type /\ kv.pos = [j \in 0 .. size - 1 |-> IF j < a + n THEN j ELSE Empty]
  BY <1>1 DEF Filled
<1>4. pos \in Seq(Nat) /\ DOMAIN pos = 1 .. n
  BY <1>2, CellOfRun
<1>5. pos[t] = a + t - 1 /\ pos[1] = a /\ pos[t] \in Nat /\ pos[1] <= pos[t]
  <2>1. \A q \in 1 .. n : pos[q] = a + q - 1
    BY <1>2 DEF Run
  <2>2. 1 \in 1 .. n /\ t \in Nat /\ t >= 1 /\ t <= n
    OBVIOUS
  <2>3. pos[t] = a + t - 1 /\ pos[1] = a + 1 - 1
    BY <2>1, <2>2
  <2>4. a + 1 - 1 = a /\ a + t - 1 \in Nat /\ a <= a + t - 1
    BY <2>2
  <2>5. pos[t] \in Nat
    BY <2>3, <2>4
  <2>6. pos[1] <= pos[t]
    BY <2>3, <2>4
  <2> QED
    BY <2>3, <2>4, <2>5, <2>6
<1>6. n_kv \in Nat /\ \A j \in 0 .. n_kv - 1 : kv.pos[j] = IF j < a + n THEN j ELSE Empty
  BY <1>3
<1>7. \A j \in 0 .. n_kv - 1 : kv.pos[j] \in Nat \cup {Empty}
  BY <1>6
<1>a. kv.n_swa \in Nat /\ kv.swa_type \in SwaTypes /\ (kv.swa_type = "chunked" => kv.n_swa > 0)
  BY <1>3
<1>b. t \in DOMAIN pos /\ n_kv \in Nat
  BY <1>4, <1>6
<1>8. MaskRow(kv, n_kv, pos, t) = {j \in 0 .. n_kv - 1 : Visible(kv, j, pos[t])}
  <2>1. Maskable(kv, n_kv)
    BY <1>7, <1>a DEF Maskable
  <2> QED
    BY <1>4, <1>5, <1>b, <2>1, MaskIsExact, SMT
<1> DEFINE past == {s \in 0 .. pos[t] : ~IsMaskedSwa(w, type, s, pos[t])}
<1>9. ASSUME NEW j
      PROVE  j \in MaskRow(kv, n_kv, pos, t) <=> j \in past
  <2>1. PICK p \in Nat : p = pos[t] /\ p < a + n
    BY <1>5
  <2>2. CASE j \in 0 .. n_kv - 1
    <3>1. CASE j < a + n
      <4>1. kv.pos[j] = j /\ j # Empty
        BY <1>6, <2>2, <3>1 DEF Empty
      <4>2. Visible(kv, j, p) <=> j <= p /\ ~IsMaskedSwa(w, type, j, p)
        BY <1>3, <4>1 DEF Visible
      <4> QED
        BY <1>8, <2>1, <2>2, <4>2
    <3>2. CASE ~(j < a + n)
      <4>1. kv.pos[j] = Empty
        BY <1>6, <2>2, <3>2
      <4>2. ~Visible(kv, j, p)
        BY <4>1 DEF Visible
      <4>3. ~(j <= p)
        BY <2>1, <2>2, <3>2
      <4> QED
        BY <1>8, <2>1, <2>2, <4>2, <4>3
    <3> QED
      BY <3>1, <3>2
  <2>3. CASE j \notin 0 .. n_kv - 1
    <3>1. j \notin 0 .. p
      BY <2>1, <2>3
    <3> QED
      BY <1>8, <2>1, <2>3, <3>1
  <2> QED
    BY <2>2, <2>3
<1>10. MaskRow(kv, n_kv, pos, t) = past
  <2> HIDE DEF past
  <2> QED
    BY <1>9
<1>11. \A j \in past : held[j] = j
  <2>1. \A j \in past : j \in Nat /\ j <= pos[t]
    BY <1>5
  <2>2. \A j \in past : j \in 0 .. size - 1 /\ j < a + n
    BY <1>5, <2>1
  <2> QED
    BY <2>2
<1>12. {held[j] : j \in past} = past
  <2> HIDE DEF past
  <2> QED
    BY <1>11
<1> QED
  BY <1>1, <1>2, <1>10, <1>12

(* A part of a sequence, from the cell after x to cell y.                  *)
LEMMA PartOf ==
  ASSUME NEW f \in Seq(Nat), NEW x \in Nat, NEW y \in Nat, x <= y, y <= Len(f), NEW s, s = SubSeq(f, x + 1, y)
  PROVE  s \in Seq(Nat) /\ Len(s) = y - x /\ \A q \in 1 .. y - x : s[q] = f[x + q]
<1>1. PICK m \in Nat : m = x + 1
  OBVIOUS
<1>2. \A z \in m .. y : f[z] \in Nat
  BY <1>1
<1>3. /\ SubSeq(f, m, y) \in Seq(Nat)
      /\ Len(SubSeq(f, m, y)) = IF m <= y THEN y - m + 1 ELSE 0
      /\ \A q \in 1 .. y - m + 1 : SubSeq(f, m, y)[q] = f[m + q - 1]
  BY <1>2, SubSeqProperties
<1>4. s = SubSeq(f, m, y) /\ y - m + 1 = y - x
  BY <1>1
<1>5. \A q \in 1 .. y - x : m + q - 1 = x + q
  BY <1>1
<1>6. (IF m <= y THEN y - m + 1 ELSE 0) = y - x
  BY <1>1
<1> QED
  BY <1>3, <1>4, <1>5, <1>6

(* A batch is cut into runs, of which the last has the output.             *)
Bounds(E, B, d, n) ==
  /\ B \in Nat \ {0} /\ E \in [0 .. B -> Nat]
  /\ E[0] = d /\ E[B] = d + n
  /\ \A b \in 1 .. B : E[b - 1] < E[b] /\ E[b] <= d + n
Piece(E, B, n, b) ==
  [tokens  |-> Run(E[b - 1], E[b] - E[b - 1]),
   pos     |-> Run(E[b - 1], E[b] - E[b - 1]),
   outputs |-> IF b = B THEN {n} ELSE {}]

(* A batch of n tokens makes B micro-batches of u, the last maybe shorter. *)
Cuts(n, u, B) ==
  /\ B \in Nat \ {0} /\ (B - 1) * u < n /\ n <= B * u
  /\ \A b \in 1 .. B : (b - 1) * u \in Nat /\ (b - 1) * u < n /\ b * u = (b - 1) * u + u
  /\ \A b \in 1 .. B : b # B => b * u < n

(* The number that is worked out is that one.                              *)
LEMMA NumberOfPieces ==
  ASSUME NEW n \in Nat \ {0}, NEW u \in Nat \ {0}, NEW B, B = (n + u - 1) \div u
  PROVE  Cuts(n, u, B)
<1> USE DEF Cuts
<1> DEFINE c == n + u - 1
<1>1. B \in Int /\ c = u * B + (c % u) /\ c % u \in 0 .. u - 1 /\ c \in Nat
  <2>0. c \in Nat
    OBVIOUS
  <2> HIDE DEF c
  <2>1. c \div u \in Int /\ c = u * (c \div u) + (c % u) /\ c % u \in 0 .. u - 1
    BY <2>0
  <2> QED
    BY <2>0, <2>1 DEF c
<1>2. PICK r \in 0 .. u - 1 : r = c % u
  BY <1>1
<1>3. u * B \in Int /\ u * B = n + u - 1 - r
  BY <1>1, <1>2
<1>4. n <= u * B /\ u * B < n + u
  BY <1>2, <1>3
<1>5. u * B = B * u /\ (B - 1) * u = B * u - u
  BY <1>1
<1>6. B > 0
  <2>1. ASSUME B <= 0 PROVE u * B <= 0
    BY <1>1, <2>1
  <2> QED
    BY <1>1, <1>3, <1>4, <2>1
<1>7. ASSUME NEW b \in 1 .. B
      PROVE  /\ (b - 1) * u \in Nat /\ (b - 1) * u <= (B - 1) * u /\ b * u = (b - 1) * u + u
             /\ b # B => b * u <= (B - 1) * u
  <2>1. b - 1 \in Nat /\ B - b \in Nat /\ b \in Nat
    BY <1>1
  <2>2. (b - 1) * u \in Nat
    BY <2>1
  <2>3. (B - b) * u \in Nat
    BY <2>1
  <2>4. (B - b) * u = B * u - b * u /\ (b - 1) * u = b * u - u /\ B * u \in Int /\ b * u \in Int
    BY <1>1, <2>1
  <2>5. b # B => (B - b - 1) * u \in Nat
    <3>1. b # B => B - b - 1 \in Nat
      BY <2>1, <1>1
    <3> QED
      BY <3>1
  <2>6. (B - b - 1) * u = (B - b) * u - u
    BY <1>1, <2>1
  <2>7. PICK x \in Nat, y \in Nat, v \in Int, k \in Int :
          x = (b - 1) * u /\ y = (B - b) * u /\ v = B * u /\ k = b * u
    BY <2>2, <2>3, <2>4
  <2>8. y = v - k /\ x = k - u /\ (B - 1) * u = v - u
    BY <1>5, <2>4, <2>7
  <2>9. b # B => y - u \in Nat
    BY <2>5, <2>6, <2>7
  <2>10. x <= v - u /\ k = x + u /\ (b # B => k <= v - u)
    BY <2>7, <2>8, <2>9
  <2> QED
    BY <2>7, <2>8, <2>10
<1>8. (B - 1) * u < n /\ n <= B * u
  BY <1>1, <1>3, <1>4, <1>5
<1>9. \A b \in 1 .. B : (b - 1) * u < n /\ (b # B => b * u < n)
  <2> TAKE b \in 1 .. B
  <2>0. (B - 1) * u \in Int
    BY <1>3, <1>5
  <2>a. (b - 1) * u \in Nat /\ b * u = (b - 1) * u + u
    BY <1>7
  <2>1. PICK x \in Nat, y \in Int : x = (b - 1) * u /\ y = (B - 1) * u /\ b * u = x + u
    BY <2>0, <2>a
  <2>2. x <= y /\ (b # B => x + u <= y) /\ y < n
    BY <1>7, <1>8, <2>1
  <2> QED
    BY <2>1, <2>2
<1> QED
  BY <1>1, <1>6, <1>7, <1>8, <1>9

(* So is every batch that follows what the cache holds.                    *)
LEMMA SplitIsRuns ==
  ASSUME NEW d \in Nat, NEW n \in Nat \ {0}, batch = Run(d, n), n_ubatch \in Nat \ {0}
  PROVE  \E B, E : /\ Bounds(E, B, d, n)
                   /\ Split(d) = [b \in 1 .. B |-> Piece(E, B, n, b)]
<1>1. PICK u \in Nat \ {0} : u = n_ubatch
  OBVIOUS
<1>2. PICK B : B = (n + u - 1) \div u
  OBVIOUS
<1>3. /\ B \in Nat \ {0} /\ (B - 1) * u < n /\ n <= B * u
      /\ \A b \in 1 .. B : (b - 1) * u \in Nat /\ (b - 1) * u < n /\ b * u = (b - 1) * u + u
      /\ \A b \in 1 .. B : b # B => b * u < n
  <2>1. Cuts(n, u, B)
    BY <1>2, NumberOfPieces
  <2> QED
    BY <2>1 DEF Cuts
<1> DEFINE E == [b \in 0 .. B |-> d + Smaller(b * u, n)]
<1>4. ASSUME NEW b \in 1 .. B
      PROVE  /\ E[b - 1] = d + (b - 1) * u
             /\ E[b] = d + Smaller(b * u, n) /\ Smaller(b * u, n) \in Nat
             /\ (b - 1) * u < Smaller(b * u, n) /\ Smaller(b * u, n) <= n
             /\ Smaller(b * u, n) = n <=> b = B
             /\ (b - 1) * u \in Nat
  <2>1. PICK x \in Nat : x = (b - 1) * u /\ x < n /\ b * u = x + u
    BY <1>3
  <2>2. Smaller(b * u, n) = IF x + u < n THEN x + u ELSE n
    BY <2>1 DEF Smaller
  <2>3. Smaller((b - 1) * u, n) = x
    BY <2>1 DEF Smaller
  <2>4. b # B => x + u < n
    BY <1>3, <2>1
  <2>5. b = B => n <= x + u
    BY <1>3, <2>1
  <2>6. b - 1 \in 0 .. B /\ b \in 0 .. B
    BY <1>3
  <2>7. E[b - 1] = d + x /\ E[b] = d + Smaller(b * u, n)
    BY <2>3, <2>6
  <2>8. /\ Smaller(b * u, n) \in Nat /\ x < Smaller(b * u, n) /\ Smaller(b * u, n) <= n
        /\ Smaller(b * u, n) = n <=> b = B
    BY <2>1, <2>2, <2>4, <2>5
  <2> QED
    BY <2>1, <2>7, <2>8
<1>5. E[0] = d
  <2>1. 0 * u = 0 /\ 0 \in 0 .. B
    BY <1>3
  <2>2. Smaller(0, n) = 0
    BY DEF Smaller
  <2> QED
    BY <2>1, <2>2
<1>6. E \in [0 .. B -> Nat]
  <2>1. \A b \in 0 .. B : E[b] \in Nat
    <3> TAKE b \in 0 .. B
    <3>1. CASE b = 0
      BY <1>5, <3>1
    <3>2. CASE b # 0
      <4>1. b \in 1 .. B
        BY <1>3, <3>2
      <4> QED
        <5>1. PICK y \in Nat : E[b] = d + y
          BY <1>4, <4>1
        <5> HIDE DEF E
        <5> QED
          BY <5>1
    <3> QED
      BY <3>1, <3>2
  <2> QED
    BY <2>1
<1>7. Bounds(E, B, d, n)
  <2>1. B \in 1 .. B
    BY <1>3
  <2>2. E[B] = d + n
    BY <1>4, <2>1
  <2>3. \A b \in 1 .. B : E[b - 1] < E[b] /\ E[b] <= d + n
    <3> TAKE b \in 1 .. B
    <3>1. PICK x \in Nat, y \in Nat : /\ x = (b - 1) * u /\ y = Smaller(b * u, n) /\ x < y /\ y <= n
                                      /\ E[b - 1] = d + x /\ E[b] = d + y
      BY <1>4
    <3> QED
      BY <3>1
  <2> HIDE DEF E
  <2> QED
    BY <1>3, <1>5, <1>6, <2>2, <2>3 DEF Bounds
<1>8. Len(batch) = n
  BY CellOfRun
<1>9. ASSUME NEW b \in 1 .. B
      PROVE  Ubatch(d, (b - 1) * n_ubatch + 1, Smaller(b * n_ubatch, n)) = Piece(E, B, n, b)
  <2>1. PICK x \in Nat, y \in Nat : /\ x = (b - 1) * u /\ y = Smaller(b * u, n) /\ x < y /\ y <= n
                                    /\ E[b - 1] = d + x /\ E[b] = d + y /\ (y = n <=> b = B)
    BY <1>4
  <2> HIDE DEF E
  <2>2. y - (x + 1) + 1 = y - x /\ E[b] - E[b - 1] = y - x /\ y - x \in Nat
    BY <2>1
  <2>3. SubSeq(batch, x + 1, y) = Run(d + x, y - x)
    <3>1. batch \in Seq(Nat) /\ Len(batch) = n
      <4>1. Run(d, n) \in Seq(Nat) /\ Len(Run(d, n)) = n
        BY CellOfRun
      <4> QED
        BY <4>1
    <3>2. PICK s : s = SubSeq(batch, x + 1, y)
      OBVIOUS
    <3>a. x <= y /\ y <= Len(batch)
      BY <2>1, <3>1
    <3>b. PICK f \in Seq(Nat) : f = batch
      BY <3>1
    <3>3. s \in Seq(Nat) /\ Len(s) = y - x /\ \A q \in 1 .. y - x : s[q] = batch[x + q]
      BY <3>2, <3>a, <3>b, PartOf
    <3>4. \A q \in 1 .. y - x : s[q] = d + x + q - 1
      <4> TAKE q \in 1 .. y - x
      <4>1. x + q \in 1 .. n
        BY <2>1
      <4>2. batch[x + q] = d + (x + q) - 1
        BY <4>1 DEF Run
      <4> QED
        BY <3>3, <4>2
    <3>5. s = [q \in 1 .. y - x |-> s[q]]
      BY <3>3
    <3> QED
      BY <3>2, <3>4, <3>5 DEF Run
  <2>4. [j \in 1 .. y - (x + 1) + 1 |-> d + (x + 1) + j - 2] = Run(d + x, y - x)
    <3>1. \A j \in 1 .. y - x : d + (x + 1) + j - 2 = d + x + j - 1
      BY <2>1
    <3> QED
      BY <2>2, <3>1 DEF Run
  <2>5. {idx \in x + 1 .. y : Output(Len(batch), idx)} = IF b = B THEN {n} ELSE {}
    <3>1. \A idx : idx \in {z \in x + 1 .. y : Output(Len(batch), z)} <=> idx = n /\ n \in x + 1 .. y
      BY <1>8 DEF Output
    <3>2. n \in x + 1 .. y <=> b = B
      BY <2>1
    <3> QED
      BY <3>1, <3>2
  <2>6. Ubatch(d, x + 1, y)
          = [tokens |-> SubSeq(batch, x + 1, y),
             pos |-> [j \in 1 .. y - (x + 1) + 1 |-> d + (x + 1) + j - 2],
             outputs |-> {idx \in x + 1 .. y : Output(Len(batch), idx)}]
    BY DEF Ubatch
  <2>7. Ubatch(d, x + 1, y) = Piece(E, B, n, b)
    BY <2>1, <2>2, <2>3, <2>4, <2>5, <2>6 DEF Piece
  <2> QED
    BY <1>1, <2>1, <2>7
<1>10. Split(d) = [b \in 1 .. B |-> Piece(E, B, n, b)]
  BY <1>1, <1>2, <1>8, <1>9 DEF Split
<1> HIDE DEF E
<1> QED
  BY <1>7, <1>10
-----------------------------------------------------------------------------
(* The caches of a context of the given size that hold the first m tokens, *)
(* each in the cell of its number, and what is stored in the cells.        *)
CachesOf(mdl, size, m) == [k \in Kinds(mdl) |-> Filled(size, m, Window(mdl, k), SwaType(mdl, k))]
ContentsOf(mdl, size, m) == [k \in Kinds(mdl) |-> [j \in 0 .. size - 1 |-> IF j < m THEN j ELSE None]]

(* What the cache holds before the batch, and how long the batch is.       *)
Decoded == IF i = 0 THEN 0 ELSE n_tokens + i - 1
Given == IF i = 0 THEN n_tokens ELSE 1

(* The prompt is decoded first, and then one token after the other.        *)
InContext ==
  /\ model \in Models /\ n_tokens \in Nat \ {0} /\ n_tokens < nCtx
  /\ maxTokens \in Nat /\ n_tokens + maxTokens <= nCtx
  /\ i \in Nat /\ (i > 0 => i < maxTokens)
  /\ batch = Run(Decoded, Given) /\ rc = 0

Stored(m) ==
  memory = CachesOf(model, Padded(nCtx), m) /\ kv_data = ContentsOf(model, Padded(nCtx), m)

(* The batch is cut into B micro-batches at E[0], E[1], ..., E[B]: i_cur   *)
(* of them are computed, the cells of the others are those they name.      *)
Placing(E, B) ==
  /\ Bounds(E, B, Decoded, Given)
  /\ ubatches = [b \in 1 .. B |-> Piece(E, B, Given, b)]
  /\ sinfos = [k \in Kinds(model) |-> [b \in 1 .. B |-> Run(E[b - 1], E[b] - E[b - 1])]]
  /\ i_cur \in 0 .. B
  /\ Stored(E[i_cur])
  /\ DOMAIN logits = {1}
  /\ n_outputs = IF i_cur = B THEN 1 ELSE 0
  /\ i_cur = B => logits[1] = Last(batch)
  /\ i_cur > 0 => gf.n_kv = [k \in Kinds(model) |-> GetNKv(memory[k])]
  /\ pc = "sample" <=> i_cur = B

NoneBeyond == \A k \in DOMAIN memory : \A p \in Positions(memory[k]) : p < model.n_ctx_train

Fresh == memory = <<>> /\ i_cur = 0 /\ rc = 0 /\ logits = <<>>

ChatInv ==
  /\ pc \in {"idle", "context", "loop", "ubatch", "failed", "sample"}
  /\ pc \in {"idle", "context"} => Fresh
  /\ pc = "context" => model \in Models /\ n_tokens \in Nat \ {0}
  /\ pc = "loop" => InContext /\ Stored(Decoded) /\ (logits = <<>> \/ DOMAIN logits = {1})
  /\ pc \in {"ubatch", "sample"} => InContext /\ \E E, B : Placing(E, B)
  /\ pc = "failed" => rc # 1 /\ NoneBeyond

(* What holds of a model, and of the caches made for it.                   *)
LEMMA ModelFacts ==
  ASSUME NEW m \in Models, NEW k \in Kinds(m)
  PROVE  /\ Window(m, k) \in Nat /\ SwaType(m, k) \in SwaTypes
         /\ SwaType(m, k) = "chunked" => Window(m, k) > 0
<1>1. m.n_swa \in Nat /\ m.swa_type \in {"none", "standard", "chunked"} /\ (m.swa_type # "none" => m.n_swa > 0)
  BY ChatAssumption
<1> QED
  BY <1>1 DEF Window, SwaType, SwaTypes

(* The size of the context.                                                *)
LEMMA SizeFacts ==
  ASSUME model \in Models
  PROVE  /\ nCtx \in Nat \ {0} /\ nCtx <= model.n_ctx_train /\ model.n_ctx_train \in Nat
         /\ n_ubatch \in Nat \ {0}
         /\ Padded(nCtx) \in Nat /\ nCtx <= Padded(nCtx)
<1>1. model.n_ctx_train \in Nat \ {0} /\ maxContextTokens \in Nat \ {0} /\ n_ubatch_max \in Nat \ {0}
  BY ChatAssumption
<1>2. nCtx \in Nat \ {0} /\ nCtx <= model.n_ctx_train
  BY <1>1 DEF nCtx, Smaller
<1>3. n_ubatch \in Nat \ {0}
  BY <1>1, <1>2 DEF n_ubatch, n_batch, Smaller
<1>4. Padded(nCtx) \in Nat /\ nCtx <= Padded(nCtx)
  BY <1>2, PaddedHolds
<1> QED
  BY <1>1, <1>2, <1>3, <1>4

(* Every batch fits, behind what is in the cache.                          *)
LEMMA ContextFacts ==
  ASSUME InContext
  PROVE  /\ Decoded \in Nat /\ Given \in Nat \ {0} /\ Decoded + Given <= nCtx
         /\ Len(batch) = Given /\ Last(batch) = batch[Given]
         /\ Decoded + Given = n_tokens + i
<1>1. nCtx \in Nat /\ model \in Models
  BY SizeFacts DEF InContext
<1>2. /\ n_tokens \in Nat \ {0} /\ n_tokens < nCtx /\ maxTokens \in Nat /\ n_tokens + maxTokens <= nCtx
      /\ i \in Nat /\ (i > 0 => i < maxTokens)
  BY DEF InContext
<1>3. Decoded \in Nat /\ Given \in Nat \ {0} /\ Decoded + Given = n_tokens + i
  BY <1>2 DEF Decoded, Given
<1>4. Decoded + Given <= nCtx
  BY <1>1, <1>2, <1>3
<1>5. Len(Run(Decoded, Given)) = Given
  BY <1>3, CellOfRun
<1>6. Len(batch) = Given
  BY <1>5 DEF InContext
<1>7. Last(batch) = batch[Given]
  BY <1>6 DEF Last
<1> QED
  BY <1>3, <1>4, <1>6, <1>7

(* Only what the invariant speaks of matters.                              *)
LEMMA SameContext ==
  ASSUME ChatInv, UNCHANGED vars
  PROVE  ChatInv'
BY DEF ChatInv, vars, decodeVars, Fresh, InContext, Stored, Placing, NoneBeyond, Decoded, Given, nCtx

(* The end of a call leaves nothing behind.                                *)
LEMMA ReturnedStep ==
  ASSUME Returned
  PROVE  ChatInv'
BY DEF ChatInv, Returned, Goto, Fresh, Nothing

(* A call begins.                                                          *)
LEMMA ChatStep ==
  ASSUME ChatInv, NEW m \in Models, NEW n \in PromptLengths, Chat(m, n)
  PROVE  ChatInv'
BY ChatAssumption DEF ChatInv, Chat, Goto, Fresh, decodeVars

(* The context is made, and the reply cut to what it has room for.         *)
LEMMA NewContextStep ==
  ASSUME ChatInv, NewContext
  PROVE  ChatInv'
<1>1. /\ Fresh /\ model \in Models /\ n_tokens \in Nat \ {0} /\ n_tokens < nCtx
      /\ model' = model /\ n_tokens' = n_tokens /\ i' = 0 /\ rc' = 0 /\ pc' = "loop" /\ logits' = <<>>
      /\ maxTokens' = ReplyLimit(n_tokens, nCtx)
  BY DEF ChatInv, NewContext, Goto, Fresh, decodeVars
<1>2. nCtx \in Nat /\ Padded(nCtx) \in Nat
  BY <1>1, SizeFacts
<1>3. nCtx' = nCtx
  BY <1>1 DEF nCtx
<1>4. Decoded' = 0 /\ Given' = n_tokens
  BY <1>1 DEF Decoded, Given
<1>5. maxTokens' \in Nat /\ n_tokens + maxTokens' <= nCtx
  BY <1>1, <1>2, ChatAssumption DEF ReplyLimit
<1>6. batch' = Run(0, n_tokens)
  <2>1. \A q \in 1 .. n_tokens : 0 + q - 1 = q - 1
    OBVIOUS
  <2> QED
    BY <1>1, <2>1 DEF NewContext, Run
<1>7. PICK size \in Nat : size = Padded(nCtx)
  BY <1>2
<1>8. \A w, type : NewCache(size, w, type) = Filled(size, 0, w, type)
  <2>1. [j \in 0 .. size - 1 |-> Empty] = [j \in 0 .. size - 1 |-> IF j < 0 THEN j ELSE Empty]
    OBVIOUS
  <2> QED
    BY <2>1 DEF NewCache, Filled
<1>9. memory' = CachesOf(model, size, 0)
  BY <1>7, <1>8 DEF NewContext, CachesOf
<1>10. kv_data' = ContentsOf(model, size, 0)
  <2>1. [j \in 0 .. size - 1 |-> None] = [j \in 0 .. size - 1 |-> IF j < 0 THEN j ELSE None]
    OBVIOUS
  <2> QED
    BY <1>7, <2>1 DEF NewContext, ContentsOf
<1>11. Stored(Decoded)'
  BY <1>1, <1>3, <1>4, <1>7, <1>9, <1>10 DEF Stored
<1>12. InContext'
  BY <1>1, <1>2, <1>3, <1>4, <1>5, <1>6 DEF InContext
<1> QED
  BY <1>1, <1>11, <1>12 DEF ChatInv
-----------------------------------------------------------------------------
(* Tokens without a position follow what the cache holds.                  *)
LEMMA FirstPosFollows ==
  ASSUME NEW size \in Nat, NEW d \in Nat, d <= size, NEW mem, mem = CachesOf(model, size, d)
  PROVE  FirstPos(mem) = d
<1>1. \A w, type : SeqPosMax(Filled(size, d, w, type)) = d - 1
  BY FilledHolds
<1>2. DOMAIN mem = Kinds(model) /\ "base" \in Kinds(model)
  BY DEF CachesOf, Kinds
<1>3. \A k \in Kinds(model) : mem[k] = Filled(size, d, Window(model, k), SwaType(model, k))
  BY DEF CachesOf
<1>4. \A k \in Kinds(model) : SeqPosMax(mem[k]) = d - 1
  BY <1>1, <1>3
<1>5. SeqPosMax(IF "swa" \in DOMAIN mem THEN mem["swa"] ELSE mem["base"]) = d - 1
  BY <1>2, <1>4
<1> QED
  BY <1>5 DEF FirstPos

(* Every batch finds its cells: the next ones.                             *)
LEMMA DecodeStep ==
  ASSUME ChatInv, Decode
  PROVE  ChatInv'
<1>1. /\ InContext /\ Stored(Decoded) /\ (logits = <<>> \/ DOMAIN logits = {1})
      /\ model \in Models
  BY DEF ChatInv, Decode, InContext
<1>2. PICK d \in Nat, n \in Nat \ {0} : d = Decoded /\ n = Given
  BY <1>1, ContextFacts
<1>3. PICK size \in Nat : size = Padded(nCtx) /\ d + n <= size
  BY <1>1, <1>2, ContextFacts, SizeFacts
<1>4. /\ memory = CachesOf(model, size, d) /\ kv_data = ContentsOf(model, size, d)
      /\ batch = Run(d, n) /\ DOMAIN memory = Kinds(model) /\ "base" \in Kinds(model)
  BY <1>1, <1>2, <1>3 DEF Stored, InContext, CachesOf, Kinds
<1>5. FirstPos(memory) = d
  BY <1>3, <1>4, FirstPosFollows
<1>6. PICK B, E : Bounds(E, B, d, n) /\ Split(d) = [b \in 1 .. B |-> Piece(E, B, n, b)]
  BY <1>1, <1>4, SizeFacts, SplitIsRuns
<1>7. /\ B \in Nat \ {0} /\ E \in [0 .. B -> Nat] /\ E[0] = d /\ E[B] = d + n
      /\ \A b \in 1 .. B : E[b - 1] < E[b] /\ E[b] <= d + n
  BY <1>6 DEF Bounds
<1>8. PICK split : split = Split(d)
  OBVIOUS
<1>9. PICK runs : runs = [b \in 1 .. B |-> Run(E[b - 1], E[b] - E[b - 1])]
  OBVIOUS
<1>10. [b \in DOMAIN split |-> split[b].pos] = runs
  <2>1. DOMAIN split = 1 .. B
    BY <1>6, <1>8
  <2>2. \A b \in 1 .. B : split[b].pos = Run(E[b - 1], E[b] - E[b - 1])
    BY <1>6, <1>8 DEF Piece
  <2> QED
    BY <1>9, <2>1, <2>2
<1>11. \A k \in Kinds(model) : Prepare(memory[k], runs) = [kv |-> memory[k], sinfos |-> runs]
  <2> TAKE k \in Kinds(model)
  <2>1. memory[k] = Filled(size, E[0], Window(model, k), SwaType(model, k))
    BY <1>4, <1>7 DEF CachesOf
  <2>2. \A b \in 1 .. B : E[b - 1] < E[b] /\ E[b] <= size
    <3> TAKE b \in 1 .. B
    <3>1. E[b - 1] < E[b] /\ E[b] <= d + n /\ E[b] \in Nat
      BY <1>7
    <3> QED
      BY <1>3, <3>1
  <2>3. B \in Nat /\ E \in [0 .. B -> Nat]
    BY <1>7
  <2>4. \A w, type : Finds(Filled(size, E[0], w, type), runs)
    BY <1>9, <2>2, <2>3, PreparesNext
  <2> QED
    BY <2>1, <2>4 DEF Finds
<1>12. runs # <<>>
  <2>1. Len(runs) = B
    BY <1>7, <1>9
  <2> QED
    BY <1>7, <2>1
<1> DEFINE prepared == [k \in DOMAIN memory |-> Prepare(memory[k], [b \in DOMAIN split |-> split[b].pos])]
<1>13. /\ DOMAIN prepared = Kinds(model)
       /\ \A k \in Kinds(model) : prepared[k].kv = memory[k] /\ prepared[k].sinfos = runs
  BY <1>4, <1>10, <1>11
<1> DEFINE asked == IF prepared["base"].sinfos = <<>> THEN {"base"} ELSE DOMAIN memory
           found == \A k \in DOMAIN memory : prepared[k].sinfos # <<>>
<1>14. /\ ubatches' = split
       /\ memory' = [k \in DOMAIN memory |-> IF k \in asked THEN prepared[k].kv ELSE memory[k]]
       /\ sinfos' = [k \in DOMAIN memory |-> prepared[k].sinfos]
       /\ rc' = IF found THEN 0 ELSE 1
       /\ pc' = IF found THEN "ubatch" ELSE "failed"
  BY <1>5, <1>8 DEF Decode, Goto
<1>15. found
  BY <1>4, <1>12, <1>13
<1>16. memory' = memory
  <2>1. \A k \in DOMAIN memory : (IF k \in asked THEN prepared[k].kv ELSE memory[k]) = memory[k]
    BY <1>4, <1>13
  <2>2. memory = [k \in DOMAIN memory |-> memory[k]]
    BY <1>4 DEF CachesOf
  <2> HIDE DEF asked, prepared
  <2> QED
    BY <1>14, <2>1, <2>2
<1>17. sinfos' = [k \in Kinds(model) |-> runs]
  <2> HIDE DEF prepared
  <2> QED
    BY <1>4, <1>13, <1>14
<1> HIDE DEF prepared, asked, found
<1>18. rc' = 0 /\ pc' = "ubatch"
  BY <1>14, <1>15
<1>19. /\ i_cur' = 0 /\ n_outputs' = 0 /\ logits' = (IF logits = <<>> THEN <<None>> ELSE logits)
       /\ model' = model /\ n_tokens' = n_tokens /\ maxTokens' = maxTokens /\ i' = i /\ batch' = batch
       /\ kv_data' = kv_data
  BY DEF Decode
<1>20. DOMAIN logits' = {1}
  BY <1>1, <1>19
<1>21. nCtx' = nCtx /\ Decoded' = Decoded /\ Given' = Given
  BY <1>19 DEF nCtx, Decoded, Given
<1>22. InContext'
  BY <1>1, <1>18, <1>19, <1>21 DEF InContext
<1>23. Stored(E[0])'
  BY <1>3, <1>4, <1>7, <1>16, <1>19, <1>21 DEF Stored
<1>24. Placing(E, B)'
  <2>1. Bounds(E, B, Decoded', Given') /\ ubatches' = [b \in 1 .. B |-> Piece(E, B, Given', b)]
    BY <1>2, <1>6, <1>8, <1>14, <1>21
  <2>2. sinfos' = [k \in Kinds(model') |-> [b \in 1 .. B |-> Run(E[b - 1], E[b] - E[b - 1])]]
    BY <1>9, <1>17, <1>19
  <2>3. i_cur' = 0 /\ i_cur' \in 0 .. B /\ i_cur' # B
    BY <1>7, <1>19
  <2> QED
    BY <2>1, <2>2, <2>3, <1>18, <1>19, <1>20, <1>23 DEF Placing
<1> QED
  BY <1>18, <1>22, <1>24 DEF ChatInv

(* The cells of a micro-batch hold its tokens.                             *)
LEMMA StoresTokens ==
  ASSUME NEW size \in Nat, NEW x \in Nat, NEW n \in Nat, NEW j \in 0 .. size - 1
  PROVE  (IF j \in ToSet(Run(x, n))
          THEN Run(x, n)[CHOOSE t \in DOMAIN Run(x, n) : Run(x, n)[t] = j]
          ELSE IF j < x THEN j ELSE None)
         = IF j < x + n THEN j ELSE None
<1>1. ToSet(Run(x, n)) = x .. x + n - 1
  BY CellOfRun
<1>2. CASE j \in x .. x + n - 1
  <2> DEFINE s == Run(x, n)
  <2>1. DOMAIN s = 1 .. n /\ \A q \in 1 .. n : s[q] = x + q - 1
    BY DEF Run
  <2>2. j - x + 1 \in 1 .. n /\ \A q \in 1 .. n : s[q] = j <=> q = j - x + 1
    BY <1>2, <2>1
  <2>3. j < x + n
    BY <1>2
  <2>4. j \in ToSet(s)
    BY <1>1, <1>2
  <2> HIDE DEF s
  <2>5. s[CHOOSE t \in DOMAIN s : s[t] = j] = j
    BY <2>1, <2>2
  <2>6. (IF j \in ToSet(s) THEN s[CHOOSE t \in DOMAIN s : s[t] = j] ELSE IF j < x THEN j ELSE None)
         = IF j < x + n THEN j ELSE None
    BY <2>3, <2>4, <2>5
  <2> QED
    BY <2>6 DEF s
<1>3. CASE j \notin x .. x + n - 1
  BY <1>1, <1>3
<1> QED
  BY <1>2, <1>3

(* The only number of a set of one is its first.                           *)
LEMMA NthOfOne ==
  ASSUME NEW n \in Nat
  PROVE  Nth({n}, 1) = n
<1>1. {y \in {n} : y < n} = {}
  OBVIOUS
<1>2. Cardinality({}) = 0 /\ 1 - 1 = 0
  BY FS_EmptySet
<1>3. \E x \in {n} : Cardinality({y \in {n} : y < x}) = 1 - 1
  BY <1>1, <1>2
<1> QED
  BY <1>3 DEF Nth
-----------------------------------------------------------------------------
(* A micro-batch takes the next cells of every cache.                      *)
LEMMA AppliedFollows ==
  ASSUME NEW size \in Nat, NEW x \in Nat, NEW n \in Nat \ {0}, x + n <= size,
         memory = CachesOf(model, size, x), NEW b, ubatches[b].pos = Run(x, n),
         \A k \in Kinds(model) : sinfos[k][b] = Run(x, n)
  PROVE  Applied(b) = CachesOf(model, size, x + n)
<1>1. DOMAIN memory = Kinds(model)
  BY DEF CachesOf
<1>2. ASSUME NEW k \in Kinds(model)
      PROVE  ApplyUbatch(memory[k], sinfos[k][b], ubatches[b].pos)
               = Filled(size, x + n, Window(model, k), SwaType(model, k))
  <2>1. memory[k] = Filled(size, x, Window(model, k), SwaType(model, k))
    BY DEF CachesOf
  <2>2. n \in Nat /\ n > 0
    OBVIOUS
  <2>3. ApplyUbatch(Filled(size, x, Window(model, k), SwaType(model, k)), Run(x, n), Run(x, n))
          = Filled(size, x + n, Window(model, k), SwaType(model, k))
    BY <2>2, PlacesNext
  <2> QED
    BY <2>1, <2>3
<1> QED
  BY <1>1, <1>2 DEF Applied, CachesOf

(* The next micro-batch: n tokens from x on, where they go, and what the  *)
(* caches are with them.                                                   *)
IsNext(E, B, size, x, n) ==
  /\ size = Padded(nCtx) /\ x = E[i_cur] /\ x + n = E[i_cur + 1] /\ x + n <= nCtx /\ x + n <= size
  /\ i_cur + 1 \in 1 .. B /\ i_cur # B /\ Len(ubatches) = B
  /\ ubatches[i_cur + 1] = [tokens |-> Run(x, n), pos |-> Run(x, n),
                            outputs |-> IF i_cur + 1 = B THEN {Given} ELSE {}]
  /\ \A k \in Kinds(model) : sinfos[k][i_cur + 1] = Run(x, n)
  /\ memory = CachesOf(model, size, x) /\ kv_data = ContentsOf(model, size, x)
  /\ Applied(i_cur + 1) = CachesOf(model, size, x + n)

(* There is one.                                                           *)
LEMMA NextPiece ==
  ASSUME InContext, NEW E, NEW B, Placing(E, B), pc = "ubatch"
  PROVE  \E size \in Nat, x \in Nat, n \in Nat \ {0} : IsNext(E, B, size, x, n)
<1>1. /\ B \in Nat \ {0} /\ E \in [0 .. B -> Nat]
      /\ \A b \in 1 .. B : E[b - 1] < E[b] /\ E[b] <= Decoded + Given
  BY DEF Placing, Bounds
<1>2. i_cur \in 0 .. B /\ i_cur # B
  BY DEF Placing
<1>3. PICK b \in 1 .. B : b = i_cur + 1 /\ b - 1 = i_cur
  BY <1>1, <1>2
<1>4. E[b - 1] \in Nat /\ E[b] \in Nat /\ E[b - 1] < E[b] /\ E[b] <= Decoded + Given
  BY <1>1, <1>2, <1>3
<1>5. PICK x \in Nat, y \in Nat : x = E[b - 1] /\ y = E[b] /\ x < y /\ y <= Decoded + Given
  BY <1>4
<1>6. PICK n \in Nat \ {0} : n = y - x /\ x + n = y
  BY <1>5
<1>7. model \in Models /\ Decoded \in Nat /\ Given \in Nat /\ Decoded + Given <= nCtx
  BY ContextFacts DEF InContext
<1>8. PICK size \in Nat : size = Padded(nCtx) /\ nCtx <= size /\ nCtx \in Nat
  BY <1>7, SizeFacts
<1>9. y <= nCtx /\ y <= size
  BY <1>5, <1>7, <1>8
<1>10. memory = CachesOf(model, size, x) /\ kv_data = ContentsOf(model, size, x)
  BY <1>3, <1>5, <1>8 DEF Placing, Stored
<1>11. /\ ubatches = [c \in 1 .. B |-> Piece(E, B, Given, c)]
       /\ sinfos = [k \in Kinds(model) |-> [c \in 1 .. B |-> Run(E[c - 1], E[c] - E[c - 1])]]
  BY DEF Placing
<1>12. Len(ubatches) = B
  BY <1>1, <1>11
<1>13. ubatches[b] = [tokens |-> Run(x, n), pos |-> Run(x, n), outputs |-> IF b = B THEN {Given} ELSE {}]
  <2>1. ubatches[b] = Piece(E, B, Given, b)
    BY <1>11
  <2> QED
    BY <2>1, <1>5, <1>6 DEF Piece
<1>14. \A k \in Kinds(model) : sinfos[k][b] = Run(x, n)
  BY <1>5, <1>6, <1>11
<1>15. ubatches[b].pos = Run(x, n)
  BY <1>13
<1>16. Applied(b) = CachesOf(model, size, x + n)
  BY <1>6, <1>9, <1>10, <1>14, <1>15, AppliedFollows
<1>17. /\ x = E[i_cur] /\ x + n = E[i_cur + 1] /\ x + n <= nCtx /\ x + n <= size
       /\ i_cur + 1 \in 1 .. B
  BY <1>3, <1>5, <1>6, <1>9
<1> QED
  BY <1>2, <1>3, <1>8, <1>10, <1>12, <1>13, <1>14, <1>16, <1>17 DEF IsNext

(* A micro-batch is computed.                                              *)
LEMMA ProcessUbatchStep ==
  ASSUME ChatInv, ProcessUbatch
  PROVE  ChatInv'
<1>1. pc = "ubatch" /\ InContext
  BY DEF ChatInv, ProcessUbatch
<1>2. PICK E, B : Placing(E, B)
  BY <1>1 DEF ChatInv
<1>0. PICK size \in Nat, x \in Nat, n \in Nat \ {0} : IsNext(E, B, size, x, n)
  BY <1>1, <1>2, NextPiece
<1>3. /\ size = Padded(nCtx) /\ x = E[i_cur] /\ x + n = E[i_cur + 1] /\ x + n <= nCtx /\ x + n <= size
      /\ i_cur + 1 \in 1 .. B /\ i_cur # B /\ Len(ubatches) = B
      /\ ubatches[i_cur + 1] = [tokens |-> Run(x, n), pos |-> Run(x, n),
                                outputs |-> IF i_cur + 1 = B THEN {Given} ELSE {}]
      /\ \A k \in Kinds(model) : sinfos[k][i_cur + 1] = Run(x, n)
      /\ memory = CachesOf(model, size, x) /\ kv_data = ContentsOf(model, size, x)
      /\ Applied(i_cur + 1) = CachesOf(model, size, x + n)
  BY <1>0 DEF IsNext
<1>4. PICK b : b = i_cur + 1
  OBVIOUS
<1>5. PICK u : u = ubatches[b]
  OBVIOUS
<1>6. PICK mem : mem = CachesOf(model, size, x + n)
  OBVIOUS
<1>7. PICK r : r = Cardinality(u.outputs)
  OBVIOUS
<1> DEFINE shape == [n_tokens |-> Len(u.tokens), n_outputs |-> r, n_kv |-> [k \in DOMAIN mem |-> GetNKv(mem[k])]]
<1>8. Applied(b) = mem
  BY <1>3, <1>4, <1>6
<1>9. /\ memory' = mem
      /\ gf' = IF CanReuse(gf, shape) THEN gf ELSE shape
      /\ kv_data' = [k \in DOMAIN kv_data |-> [j \in DOMAIN kv_data[k] |->
                       IF j \in ToSet(sinfos[k][b])
                       THEN u.tokens[CHOOSE t \in DOMAIN u.tokens : sinfos[k][b][t] = j]
                       ELSE kv_data[k][j]]]
      /\ logits' = [q \in DOMAIN logits |->
                      IF q \in n_outputs + 1 .. n_outputs + r
                      THEN batch[Nth(u.outputs, q - n_outputs)] ELSE logits[q]]
      /\ n_outputs' = n_outputs + r
      /\ i_cur' = b
      /\ pc' = IF b = Len(ubatches) THEN "sample" ELSE "ubatch"
  <2> HIDE DEF shape
  <2>1. shape = [n_tokens |-> Len(u.tokens), n_outputs |-> r, n_kv |-> [k \in DOMAIN mem |-> GetNKv(mem[k])]]
    BY DEF shape
  <2> QED
    BY <1>4, <1>5, <1>7, <1>8, <2>1 DEF ProcessUbatch, Goto
<1>10. /\ model' = model /\ n_tokens' = n_tokens /\ maxTokens' = maxTokens /\ i' = i /\ batch' = batch
       /\ rc' = rc /\ ubatches' = ubatches /\ sinfos' = sinfos
  BY DEF ProcessUbatch
<1>11. nCtx' = nCtx /\ Decoded' = Decoded /\ Given' = Given
  BY <1>10 DEF nCtx, Decoded, Given
<1>12. InContext'
  BY <1>1, <1>10, <1>11 DEF InContext
<1>13. u.tokens = Run(x, n) /\ u.outputs = IF b = B THEN {Given} ELSE {}
  BY <1>3, <1>4, <1>5
<1>14. gf'.n_kv = [k \in Kinds(model) |-> GetNKv(mem[k])]
  <2>1. DOMAIN mem = Kinds(model)
    BY <1>6 DEF CachesOf
  <2>2. shape.n_kv = [k \in Kinds(model) |-> GetNKv(mem[k])]
    BY <2>1
  <2> HIDE DEF shape
  <2> QED
    BY <1>9, <2>2 DEF CanReuse
<1> HIDE DEF shape
<1>15. kv_data' = ContentsOf(model, size, x + n)
  <2>1. DOMAIN kv_data = Kinds(model)
    BY <1>3 DEF ContentsOf
  <2>2. ASSUME NEW k \in Kinds(model)
        PROVE  [j \in DOMAIN kv_data[k] |->
                       IF j \in ToSet(sinfos[k][b])
                       THEN u.tokens[CHOOSE t \in DOMAIN u.tokens : sinfos[k][b][t] = j]
                       ELSE kv_data[k][j]]
               = [j \in 0 .. size - 1 |-> IF j < x + n THEN j ELSE None]
    <3>1. kv_data[k] = [j \in 0 .. size - 1 |-> IF j < x THEN j ELSE None]
      BY <1>3 DEF ContentsOf
    <3>2. DOMAIN kv_data[k] = 0 .. size - 1 /\ \A j \in 0 .. size - 1 : kv_data[k][j] = IF j < x THEN j ELSE None
      BY <3>1
    <3>3. sinfos[k][b] = Run(x, n)
      BY <1>3, <1>4
    <3>4. n \in Nat
      OBVIOUS
    <3>5. \A j \in 0 .. size - 1 :
             (IF j \in ToSet(Run(x, n))
              THEN Run(x, n)[CHOOSE t \in DOMAIN Run(x, n) : Run(x, n)[t] = j]
              ELSE IF j < x THEN j ELSE None)
             = IF j < x + n THEN j ELSE None
      BY <3>4, StoresTokens
    <3> QED
      BY <1>13, <3>2, <3>3, <3>5
  <2> QED
    BY <1>9, <2>1, <2>2 DEF ContentsOf
<1>16. DOMAIN logits = {1} /\ n_outputs = 0
  BY <1>2, <1>3 DEF Placing
<1>17. n_outputs' = (IF b = B THEN 1 ELSE 0) /\ DOMAIN logits' = {1}
  <2>1. r = IF b = B THEN 1 ELSE 0
    BY <1>7, <1>13, FS_EmptySet, FS_Singleton
  <2> QED
    BY <1>9, <1>16, <2>1
<1>18. b = B => logits'[1] = Last(batch)
  <2> SUFFICES ASSUME b = B PROVE logits'[1] = Last(batch)
    OBVIOUS
  <2>1. u.outputs = {Given} /\ Given \in Nat
    BY <1>1, <1>13, ContextFacts
  <2>2. r = 1
    BY <1>7, <2>1, FS_Singleton
  <2>3. 1 \in n_outputs + 1 .. n_outputs + r /\ 1 - n_outputs = 1
    BY <1>16, <2>2
  <2>4. logits'[1] = batch[Nth(u.outputs, 1 - n_outputs)]
    BY <1>9, <1>16, <2>3
  <2>5. Nth(u.outputs, 1 - n_outputs) = Given
    BY <2>1, <2>3, NthOfOne
  <2> QED
    BY <1>1, <2>4, <2>5, ContextFacts
<1>19. E[b] = x + n /\ i_cur' = b /\ b \in 1 .. B /\ B \in Nat
  BY <1>2, <1>3, <1>4, <1>9 DEF Placing, Bounds
<1>20. Stored(E[i_cur])'
  BY <1>3, <1>6, <1>9, <1>10, <1>11, <1>15, <1>19 DEF Stored
<1>21. pc' = (IF b = B THEN "sample" ELSE "ubatch")
  BY <1>3, <1>9
<1>22. Placing(E, B)'
  <2>1. /\ Bounds(E, B, Decoded', Given') /\ ubatches' = [c \in 1 .. B |-> Piece(E, B, Given', c)]
        /\ sinfos' = [k \in Kinds(model') |-> [c \in 1 .. B |-> Run(E[c - 1], E[c] - E[c - 1])]]
    BY <1>2, <1>10, <1>11 DEF Placing
  <2>2. gf'.n_kv = [k \in Kinds(model') |-> GetNKv(memory'[k])]
    BY <1>9, <1>10, <1>14
  <2>3. i_cur' \in 0 .. B
    BY <1>19
  <2>4. /\ n_outputs' = (IF i_cur' = B THEN 1 ELSE 0) /\ (i_cur' = B => logits'[1] = Last(batch'))
        /\ (pc' = "sample" <=> i_cur' = B)
    BY <1>10, <1>17, <1>18, <1>19, <1>21
  <2> QED
    BY <1>17, <1>20, <2>1, <2>2, <2>3, <2>4 DEF Placing
<1> QED
  BY <1>12, <1>21, <1>22 DEF ChatInv
-----------------------------------------------------------------------------
(* What is removed from a cache leaves no position that was not there.     *)
LEMMA RemovesOnly ==
  ASSUME NEW size \in Nat, NEW m \in Nat, m <= size, NEW w, NEW type, NEW p0, NEW p1
  PROVE  Positions(SeqRm(Filled(size, m, w, type), p0, p1)) \subseteq 0 .. m - 1
<1>1. PICK kv : kv = Filled(size, m, w, type)
  OBVIOUS
<1>2. Positions(kv) = 0 .. m - 1
  BY <1>1, FilledHolds
<1>3. PICK hit : hit = {j \in Used(kv) : kv.pos[j] >= p0 /\ kv.pos[j] < p1}
  OBVIOUS
<1>4. kv = [pos |-> kv.pos, head |-> kv.head, n_swa |-> w, swa_type |-> type]
  BY <1>1 DEF Filled
<1>5. PICK gone : gone = SeqRm(kv, p0, p1)
  OBVIOUS
<1>6. gone.pos = [j \in DOMAIN kv.pos |-> IF j \in hit THEN Empty ELSE kv.pos[j]]
  BY <1>3, <1>4, <1>5 DEF SeqRm
<1>7. \A p \in Positions(gone) : p \in Positions(kv)
  BY <1>6 DEF Positions, Used, Cells
<1> QED
  BY <1>1, <1>2, <1>5, <1>7

(* A micro-batch fails: what was decoded before it stays.                  *)
LEMMA UbatchFailsStep ==
  ASSUME ChatInv, UbatchFails
  PROVE  ChatInv'
<1>1. pc = "ubatch" /\ InContext
  BY DEF ChatInv, UbatchFails
<1>2. PICK E, B : Placing(E, B)
  BY <1>1 DEF ChatInv
<1>3. PICK size \in Nat, m \in Nat :
           m <= nCtx /\ m <= size /\ Applied(i_cur + 1) = CachesOf(model, size, m)
  <2>1. PICK size \in Nat, x \in Nat, n \in Nat \ {0} :
           x + n <= nCtx /\ x + n <= size /\ Applied(i_cur + 1) = CachesOf(model, size, x + n)
    <3>1. PICK size \in Nat, x \in Nat, n \in Nat \ {0} : IsNext(E, B, size, x, n)
      BY <1>1, <1>2, NextPiece
    <3> QED
      BY <3>1 DEF IsNext
  <2>2. x + n \in Nat
    OBVIOUS
  <2> QED
    BY <2>1, <2>2
<1>4. /\ DOMAIN memory' = DOMAIN memory
      /\ \A k \in DOMAIN memory : \E p0, p1 : memory'[k] = SeqRm(Applied(i_cur + 1)[k], p0, p1)
  BY DEF UbatchFails
<1>5. rc' \in {-2, -3} /\ pc' = "failed" /\ model' = model
  BY DEF UbatchFails, Goto
<1>6. nCtx \in Nat /\ nCtx <= model.n_ctx_train /\ model.n_ctx_train \in Nat
  BY <1>1, SizeFacts DEF InContext
<1>7. DOMAIN memory = Kinds(model)
  BY <1>2 DEF Placing, Stored, CachesOf
<1>8. ASSUME NEW k \in Kinds(model), NEW p \in Positions(memory'[k])
      PROVE  p < model.n_ctx_train
  <2>1. PICK p0, p1 : memory'[k] = SeqRm(Applied(i_cur + 1)[k], p0, p1)
    BY <1>4, <1>7
  <2>2. Applied(i_cur + 1)[k] = Filled(size, m, Window(model, k), SwaType(model, k))
    BY <1>3 DEF CachesOf
  <2>3. Positions(memory'[k]) \subseteq 0 .. m - 1
    BY <1>3, <2>1, <2>2, RemovesOnly
  <2>4. p \in 0 .. m - 1
    BY <1>8, <2>3
  <2> QED
    BY <1>3, <1>6, <2>4
<1>9. NoneBeyond'
  BY <1>4, <1>5, <1>7, <1>8 DEF NoneBeyond
<1> QED
  BY <1>5, <1>9 DEF ChatInv

(* One token after the prompt, or after the token before.                  *)
LEMMA NextTokenStep ==
  ASSUME ChatInv, NextToken
  PROVE  ChatInv'
<1>1. pc = "sample" /\ InContext
  BY DEF ChatInv, NextToken
<1>2. PICK E, B : Placing(E, B)
  BY <1>1 DEF ChatInv
<1>3. /\ i + 1 < maxTokens /\ i' = i + 1 /\ batch' = <<n_tokens + i>> /\ pc' = "loop"
      /\ model' = model /\ n_tokens' = n_tokens /\ maxTokens' = maxTokens /\ rc' = rc
      /\ memory' = memory /\ kv_data' = kv_data /\ logits' = logits
  BY DEF NextToken, Goto, decodeVars
<1>4. nCtx' = nCtx
  BY <1>3 DEF nCtx
<1>5. i \in Nat /\ n_tokens \in Nat
  BY <1>1 DEF InContext
<1>6. Decoded' = n_tokens + i /\ Given' = 1
  BY <1>3, <1>5 DEF Decoded, Given
<1>7. Decoded + Given = n_tokens + i
  BY <1>1, ContextFacts
<1>8. Stored(n_tokens + i) /\ DOMAIN logits = {1}
  BY <1>1, <1>2, <1>7 DEF Placing, Bounds
<1>9. Stored(Decoded)'
  BY <1>3, <1>4, <1>6, <1>8 DEF Stored
<1>10. <<n_tokens + i>> = Run(n_tokens + i, 1)
  <2>1. 1 .. 1 = {1} /\ n_tokens + i + 1 - 1 = n_tokens + i
    BY <1>5
  <2> QED
    BY <2>1 DEF Run
<1>11. InContext'
  BY <1>1, <1>3, <1>4, <1>5, <1>6, <1>10 DEF InContext
<1> QED
  BY <1>3, <1>8, <1>9, <1>11 DEF ChatInv

(* The invariant.                                                          *)
LEMMA ChatInvHolds == StageSpec => []ChatInv
<1>1. StageInit => ChatInv
  BY DEF StageInit, Init, ChatInv, Fresh, Nothing
<1>2. ASSUME ChatInv, [Next]_vars
      PROVE  ChatInv'
  <2>1. CASE UNCHANGED vars
    BY <1>2, <2>1, SameContext
  <2>2. ASSUME NEW m \in Models, NEW n \in PromptLengths, Chat(m, n)
        PROVE  ChatInv'
    BY <1>2, <2>2, ChatStep
  <2>3. CASE NoContext \/ Cancelled \/ DecodeFailed \/ ReplyEnds
    BY <2>3, ReturnedStep DEF NoContext, Cancelled, DecodeFailed, ReplyEnds
  <2>4. CASE NewContext
    BY <1>2, <2>4, NewContextStep
  <2>5. CASE Decode
    BY <1>2, <2>5, DecodeStep
  <2>6. CASE ProcessUbatch
    BY <1>2, <2>6, ProcessUbatchStep
  <2>7. CASE UbatchFails
    BY <1>2, <2>7, UbatchFailsStep
  <2>8. CASE NextToken
    BY <1>2, <2>8, NextTokenStep
  <2> QED
    BY <1>2, <2>1, <2>2, <2>3, <2>4, <2>5, <2>6, <2>7, <2>8 DEF Next
<1>3. [StageNext]_stageVars => [Next]_vars
  BY DEF StageNext, Asks, Waits, Answers, Strips, Next, stageVars
<1>4. ChatInv /\ [StageNext]_stageVars => ChatInv'
  BY <1>2, <1>3
<1> QED
  BY <1>1, <1>4, PTL DEF StageSpec

(* Each token of a micro-batch attends to itself and to every token before *)
(* it that its window does not hide, and to nothing else, and the next     *)
(* token is sampled from the row of the last one (find_slot,               *)
(* set_input_kq_mask, can_reuse): for models and prompts of every size.    *)
THEOREM TokensAttend == StageSpec => []AttendsItsPast
<1>1. ASSUME ChatInv PROVE AttendsItsPast
  <2>1. ASSUME pc \in {"ubatch", "sample"}, i_cur > 0, NEW k \in DOMAIN memory,
               NEW t \in DOMAIN ubatches[i_cur].tokens
        PROVE  LET row  == MaskRow(memory[k], gf.n_kv[k], ubatches[i_cur].pos, t)
                   past == Past(k, ubatches[i_cur].tokens[t])
               IN  {kv_data[k][j] : j \in row} = past /\ Cardinality(row) = Cardinality(past)
    <3>1. InContext /\ model \in Models
      BY <1>1, <2>1 DEF ChatInv, InContext
    <3>2. PICK E, B : Placing(E, B)
      BY <1>1, <2>1 DEF ChatInv
    <3>3. /\ B \in Nat \ {0} /\ E \in [0 .. B -> Nat]
          /\ \A b \in 1 .. B : E[b - 1] < E[b] /\ E[b] <= Decoded + Given
      BY <3>2 DEF Placing, Bounds
    <3>4. PICK b \in 1 .. B : b = i_cur
      BY <2>1, <3>2, <3>3 DEF Placing
    <3>5. PICK a \in Nat, y \in Nat : a = E[b - 1] /\ y = E[b] /\ a < y /\ y <= Decoded + Given
      BY <3>3
    <3>6. PICK n \in Nat : n = y - a /\ a + n = y
      BY <3>5
    <3>7. PICK size \in Nat : size = Padded(nCtx) /\ a + n <= size
      BY <3>1, <3>5, <3>6, SizeFacts, ContextFacts
    <3>8. memory = CachesOf(model, size, y) /\ kv_data = ContentsOf(model, size, y)
      BY <3>2, <3>4, <3>5, <3>7 DEF Placing, Stored
    <3>9. k \in Kinds(model)
      BY <3>8 DEF CachesOf
    <3>10. PICK w \in Nat, type \in SwaTypes :
              w = Window(model, k) /\ type = SwaType(model, k) /\ (type = "chunked" => w > 0)
      BY <3>1, <3>9, ModelFacts
    <3>11. memory[k] = Filled(size, a + n, w, type)
      BY <3>6, <3>8, <3>9, <3>10 DEF CachesOf
    <3>12. kv_data[k] = [j \in 0 .. size - 1 |-> IF j < a + n THEN j ELSE None]
      BY <3>6, <3>8, <3>9 DEF ContentsOf
    <3>13. gf.n_kv[k] = GetNKv(memory[k])
      BY <2>1, <3>2, <3>9 DEF Placing
    <3>14. PICK n_kv \in a + n .. size : n_kv = gf.n_kv[k]
      <4>1. a + n \in Nat
        OBVIOUS
      <4>2. GetNKv(Filled(size, a + n, w, type)) \in a + n .. size
        BY <3>7, <4>1, ReadsAllInUse
      <4> QED
        BY <3>11, <3>13, <4>2
    <3>15. ubatches[i_cur].tokens = Run(a, n) /\ ubatches[i_cur].pos = Run(a, n)
      <4>1. ubatches[b] = Piece(E, B, Given, b)
        BY <3>2 DEF Placing
      <4> QED
        BY <3>4, <3>5, <3>6, <4>1 DEF Piece
    <3>16. t \in 1 .. n
      <4>1. DOMAIN Run(a, n) = 1 .. n
        BY DEF Run
      <4> QED
        BY <2>1, <3>15, <4>1
    <3>17. PICK held : held = kv_data[k]
      OBVIOUS
    <3>18. Attends(held, MaskRow(Filled(size, a + n, w, type), n_kv, Run(a, n), t), Unmasked(w, type, Run(a, n)[t]))
      BY <3>7, <3>10, <3>12, <3>16, <3>17, AttendsRow
    <3>19. Past(k, Run(a, n)[t]) = Unmasked(w, type, Run(a, n)[t])
      BY <3>10 DEF Past, Unmasked
    <3> QED
      BY <3>11, <3>14, <3>15, <3>17, <3>18, <3>19 DEF Attends
  <2>2. ASSUME pc = "sample"
        PROVE  n_outputs = 1 /\ logits[n_outputs] = Last(batch)
    <3>1. PICK E, B : Placing(E, B)
      BY <1>1, <2>2 DEF ChatInv
    <3> QED
      BY <2>2, <3>1 DEF Placing
  <2> QED
    BY <2>1, <2>2 DEF AttendsItsPast
<1> QED
  BY <1>1, ChatInvHolds, PTL

(* The context has room for the prompt and the reply it was cut to: no     *)
(* decoding is refused for want of cells, none is larger than n_batch, and *)
(* no token lies beyond the positions the model was trained for.           *)
THEOREM ContextIsEnough == StageSpec => []ContextSuffices
<1>1. ASSUME ChatInv PROVE ContextSuffices
  <2>1. rc # 1
    BY <1>1 DEF ChatInv, Fresh, InContext
  <2>2. ASSUME pc \in {"loop", "ubatch", "sample"}
        PROVE  Len(batch) <= n_batch
    <3>1. InContext /\ model \in Models
      BY <1>1, <2>2 DEF ChatInv, InContext
    <3> QED
      BY <3>1, ContextFacts, SizeFacts DEF n_batch
  <2>3. ASSUME InContext, NEW m \in Nat, m <= Decoded + Given, Stored(m)
        PROVE  NoneBeyond
    <3>1. model \in Models
      BY <2>3 DEF InContext
    <3>2. PICK size \in Nat : size = Padded(nCtx) /\ m <= size /\ m <= model.n_ctx_train /\ model.n_ctx_train \in Nat
      BY <2>3, <3>1, SizeFacts, ContextFacts
    <3>3. memory = CachesOf(model, size, m)
      BY <2>3, <3>2 DEF Stored
    <3>4. \A w, type : Positions(Filled(size, m, w, type)) = 0 .. m - 1
      BY <3>2, FilledHolds
    <3>5. ASSUME NEW k \in DOMAIN memory, NEW p \in Positions(memory[k])
          PROVE  p < model.n_ctx_train
      <4>1. Positions(memory[k]) = 0 .. m - 1
        BY <3>3, <3>4 DEF CachesOf
      <4>2. p \in 0 .. m - 1
        BY <3>5, <4>1
      <4> QED
        BY <3>2, <4>2
    <3> QED
      BY <3>5 DEF NoneBeyond
  <2>4. NoneBeyond
    <3>1. CASE pc \in {"idle", "context"}
      <4>1. memory = <<>>
        BY <1>1, <3>1 DEF ChatInv, Fresh
      <4> QED
        BY <4>1 DEF NoneBeyond
    <3>2. CASE pc = "loop"
      <4>1. InContext /\ Stored(Decoded)
        BY <1>1, <3>2 DEF ChatInv
      <4> QED
        BY <2>3, <4>1, ContextFacts
    <3>3. CASE pc \in {"ubatch", "sample"}
      <4>1. PICK E, B : InContext /\ Placing(E, B)
        BY <1>1, <3>3 DEF ChatInv
      <4>2. PICK m : m = E[i_cur]
        OBVIOUS
      <4>3. m \in Nat /\ m <= Decoded + Given
        <5>1. /\ B \in Nat \ {0} /\ E \in [0 .. B -> Nat] /\ E[0] = Decoded
              /\ \A b \in 1 .. B : E[b - 1] < E[b] /\ E[b] <= Decoded + Given
              /\ i_cur \in 0 .. B
          BY <4>1 DEF Placing, Bounds
        <5>2. Decoded \in Nat /\ Given \in Nat
          BY <4>1, ContextFacts
        <5>3. CASE i_cur = 0
          BY <4>2, <5>1, <5>2, <5>3
        <5>4. CASE i_cur \in 1 .. B
          BY <4>2, <5>1, <5>4
        <5> QED
          BY <5>1, <5>3, <5>4
      <4>4. Stored(m)
        BY <4>1, <4>2 DEF Placing
      <4> QED
        BY <2>3, <4>1, <4>3, <4>4
    <3>4. CASE pc = "failed"
      BY <1>1, <3>4 DEF ChatInv
    <3> QED
      BY <1>1, <3>1, <3>2, <3>3, <3>4 DEF ChatInv
  <2> QED
    BY <2>1, <2>2, <2>4 DEF ContextSuffices, NoneBeyond
<1> QED
  BY <1>1, ChatInvHolds, PTL
=============================================================================
