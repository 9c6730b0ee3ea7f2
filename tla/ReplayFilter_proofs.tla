------------------------ MODULE ReplayFilter_proofs -------------------------
(***************************************************************************)
(* For every ring size, word size and set of sequence numbers: the filter  *)
(* keeps its invariant, never lets a number through twice inside its exact *)
(* window, and implements the bitmap-free specification ReplayWindow.      *)
(***************************************************************************)
EXTENDS ReplayFilter, TLAPS

USE ReplayAssumption DEF ReplayAssumption

-----------------------------------------------------------------------------
(* Word and bit arithmetic                                                 *)

(* Multiplication by a positive number reflects the order.                 *)
LEMMA TimesPositive ==
  ASSUME NEW k \in Int, NEW d \in Nat \ {0}, k >= 1
  PROVE  d * k >= d
  BY SMT

(* A number is its word times the word size plus its bit.                  *)
LEMMA Split ==
  ASSUME NEW s \in Int
  PROVE  /\ WordOf(s) \in Int /\ BitOf(s) \in 0 .. (Bits - 1)
         /\ s = Bits * WordOf(s) + BitOf(s)
  BY SMT DEF WordOf, BitOf

(* Words are ordered as the numbers in them are.                           *)
LEMMA WordMonotone ==
  ASSUME NEW s \in Int, NEW t \in Int, s <= t
  PROVE  WordOf(s) <= WordOf(t)
<1>1. /\ WordOf(s) \in Int /\ BitOf(s) \in 0 .. (Bits - 1)
      /\ WordOf(t) \in Int /\ BitOf(t) \in 0 .. (Bits - 1)
      /\ s = Bits * WordOf(s) + BitOf(s) /\ t = Bits * WordOf(t) + BitOf(t)
  BY Split
<1>2. PICK k \in Int : k = WordOf(s) - WordOf(t)
  BY <1>1
<1>3. Bits * k = Bits * WordOf(s) - Bits * WordOf(t)
  BY <1>1, <1>2
<1>4. Bits * k \in Int /\ Bits * k < Bits
  BY <1>1, <1>3
<1>5. ~(k >= 1)
  BY <1>4, TimesPositive
<1> QED
  BY <1>1, <1>2, <1>5

(* A number at least one window ahead is at least Words words ahead, and   *)
(* one less than a window ahead is at most Words words ahead.              *)
LEMMA WindowInWords ==
  ASSUME NEW s \in Nat, NEW t \in Nat
  PROVE  /\ t - s >= Size => WordOf(t) - WordOf(s) >= Words
         /\ t - s < Size => WordOf(t) - WordOf(s) <= Words
<1>1. /\ WordOf(s) \in Int /\ BitOf(s) \in 0 .. (Bits - 1)
      /\ WordOf(t) \in Int /\ BitOf(t) \in 0 .. (Bits - 1)
      /\ s = Bits * WordOf(s) + BitOf(s) /\ t = Bits * WordOf(t) + BitOf(t)
  BY Split
<1>2. PICK k \in Int : k = WordOf(t) - WordOf(s) - Words
  BY <1>1
<1>3. /\ Size \in Int /\ Bits * k \in Int
      /\ Bits * k = Bits * WordOf(t) - Bits * WordOf(s) - Size
  BY <1>1, <1>2 DEF Size
<1>4. t - s - Size = Bits * k + BitOf(t) - BitOf(s)
  <2>1. /\ Bits * WordOf(s) = s - BitOf(s) /\ Bits * WordOf(t) = t - BitOf(t)
    BY <1>1
  <2> QED
    BY <1>1, <1>3, <2>1
<1>5. ASSUME t - s >= Size PROVE k >= 0
  <2>1. Bits * k > -Bits
    BY <1>1, <1>3, <1>4, <1>5
  <2>2. Bits * (-k) = -(Bits * k) /\ -k \in Int
    OBVIOUS
  <2>3. ~(-k >= 1)
    BY <1>3, <2>1, <2>2, TimesPositive
  <2> QED
    BY <2>3
<1>6. ASSUME t - s < Size PROVE k <= 0
  <2>1. Bits * k < Bits
    BY <1>1, <1>3, <1>4, <1>6
  <2>2. ~(k >= 1)
    BY <1>3, <2>1, TimesPositive
  <2> QED
    BY <2>2
<1> QED
  BY <1>1, <1>2, <1>5, <1>6

(* A number Words words behind is all but a word of a window behind.       *)
LEMMA FarInWords ==
  ASSUME NEW s \in Nat, NEW t \in Nat, WordOf(s) <= WordOf(t) - Words
  PROVE  t - s >= Size - Bits + 1
<1>1. /\ WordOf(s) \in Int /\ BitOf(s) \in 0 .. (Bits - 1)
      /\ WordOf(t) \in Int /\ BitOf(t) \in 0 .. (Bits - 1)
      /\ s = Bits * WordOf(s) + BitOf(s) /\ t = Bits * WordOf(t) + BitOf(t)
  BY Split
<1>2. PICK k \in Int : k = WordOf(t) - WordOf(s) - Words
  BY <1>1
<1>3. /\ Size \in Int /\ Bits * k \in Int
      /\ Bits * k = Bits * WordOf(t) - Bits * WordOf(s) - Size
  BY <1>1, <1>2 DEF Size
<1>4. Bits * k >= 0
  <2>1. k = 0 => Bits * k = 0
    OBVIOUS
  <2>2. k = 0 \/ k >= 1
    BY <1>1, <1>2
  <2> QED
    BY <1>3, <2>1, <2>2, TimesPositive
<1>5. Bits * WordOf(s) = s - BitOf(s) /\ Bits * WordOf(t) = t - BitOf(t)
  BY <1>1
<1> QED
  BY <1>1, <1>3, <1>4, <1>5

(* Slots are indices of the ring, and two words with the same slot are a   *)
(* multiple of Words apart.                                                *)
LEMMA SlotDistance ==
  ASSUME NEW v \in Int, NEW w \in Int
  PROVE  /\ Slot(v) \in Slots
         /\ Slot(v) = Slot(w) /\ v <= w /\ w - v < Words => v = w
         /\ w - v = Words => Slot(v) = Slot(w)
<1> DEFINE q(x) == x \div Words
<1>1. \A x \in Int : q(x) \in Int /\ Slot(x) \in 0 .. (Words - 1)
                     /\ x = Words * q(x) + Slot(x)
  BY SMT DEF Slot
<1> HIDE DEF q
<1>2. /\ q(v) \in Int /\ q(w) \in Int
      /\ Slot(v) \in 0 .. (Words - 1) /\ Slot(w) \in 0 .. (Words - 1)
      /\ v = Words * q(v) + Slot(v) /\ w = Words * q(w) + Slot(w)
  BY <1>1
<1>3. PICK k \in Int : k = q(w) - q(v)
  BY <1>2
<1>4. Words * k \in Int /\ w - v = Words * k + Slot(w) - Slot(v)
  <2>1. Words * k = Words * q(w) - Words * q(v) /\ Words * k \in Int
    BY <1>2, <1>3
  <2>2. Words * q(v) = v - Slot(v) /\ Words * q(w) = w - Slot(w)
    BY <1>2
  <2> QED
    BY <1>2, <2>1, <2>2
<1>5. ASSUME Slot(v) = Slot(w), v <= w, w - v < Words PROVE v = w
  <2>1. Words * k = w - v
    BY <1>2, <1>4, <1>5
  <2>2. ~(k >= 1)
    BY <1>5, <2>1, TimesPositive
  <2>3. Words * (-k) = -(Words * k) /\ -k \in Int
    OBVIOUS
  <2>4. ~(-k >= 1)
    BY <1>5, <2>1, <2>3, TimesPositive
  <2>5. k = 0
    BY <2>2, <2>4
  <2>6. Words * k = 0
    BY <2>5
  <2> QED
    BY <2>1, <2>6
<1>6. ASSUME w - v = Words PROVE Slot(v) = Slot(w)
  <2>1. Words * (k - 1) = Words * k - Words
    OBVIOUS
  <2>2. Words * (k - 1) = Slot(v) - Slot(w)
    BY <1>2, <1>4, <1>6, <2>1
  <2>3. ~(k - 1 >= 1) /\ ~(-(k - 1) >= 1)
    <3>1. Words * (-(k - 1)) = Slot(w) - Slot(v)
      BY <1>2, <2>2
    <3> QED
      BY <1>2, <2>2, <3>1, TimesPositive
  <2>4. Words * (k - 1) = 0
    BY <2>3
  <2> QED
    BY <1>2, <2>2, <2>4
<1> QED
  BY <1>2, <1>5, <1>6 DEF Slots

-----------------------------------------------------------------------------
(* Operations on the ring                                                  *)

(* Two numbers that share a slot and a bit, and lie less than a full ring  *)
(* of words apart, are the same number.                                    *)
LEMMA SamePlace ==
  ASSUME NEW s \in Int, NEW t \in Int,
         Slot(WordOf(s)) = Slot(WordOf(t)), BitOf(s) = BitOf(t),
         WordOf(s) - WordOf(t) < Words, WordOf(t) - WordOf(s) < Words
  PROVE  s = t
<1>1. WordOf(s) \in Int /\ WordOf(t) \in Int
  BY Split
<1>2. WordOf(s) = WordOf(t)
  BY <1>1, SlotDistance
<1> QED
  BY <1>2, Split

(* Two numbers that share a slot and a bit, in words one ring apart, are   *)
(* one window apart.                                                       *)
LEMMA OneRingApart ==
  ASSUME NEW s \in Int, NEW t \in Int,
         BitOf(s) = BitOf(t), WordOf(t) - WordOf(s) = Words
  PROVE  s = t - Size
<1>1. /\ WordOf(s) \in Int /\ BitOf(s) \in 0 .. (Bits - 1)
      /\ WordOf(t) \in Int
      /\ s = Bits * WordOf(s) + BitOf(s) /\ t = Bits * WordOf(t) + BitOf(t)
  BY Split
<1>2. Bits * (WordOf(s) + Words) = Bits * WordOf(s) + Bits * Words
  BY <1>1
<1>3. WordOf(t) = WordOf(s) + Words
  BY <1>1
<1>4. Size \in Int /\ Size = Bits * Words
  BY DEF Size
<1> QED
  BY <1>1, <1>2, <1>3, <1>4

(* Marking a number adds its bit to its slot and leaves the rest alone.    *)
LEMMA MarkAdds ==
  ASSUME NEW bm \in [Slots -> SUBSET (0 .. (Bits - 1))], NEW s \in Int,
         NEW t \in Int
  PROVE  /\ Mark(bm, s) \in [Slots -> SUBSET (0 .. (Bits - 1))]
         /\ BitOf(t) \in Mark(bm, s)[Slot(WordOf(t))]
              <=> \/ BitOf(t) \in bm[Slot(WordOf(t))]
                  \/ Slot(WordOf(t)) = Slot(WordOf(s)) /\ BitOf(t) = BitOf(s)
<1>1. Slot(WordOf(s)) \in Slots /\ Slot(WordOf(t)) \in Slots
  BY Split, SlotDistance
<1>2. BitOf(s) \in 0 .. (Bits - 1)
  BY Split
<1> QED
  BY <1>1, <1>2 DEF Mark

(* The window moved up to s: the slots of the words entered are empty, and *)
(* those of the words that stay inside the window are as they were.        *)
LEMMA AdvancedKeeps ==
  ASSUME TypeOK, NEW s \in Nat, s > highestSeq, NEW w \in Int,
         w > WordOf(s) - Words, w <= WordOf(s)
  PROVE  /\ Advanced(s) \in [Slots -> SUBSET (0 .. (Bits - 1))]
         /\ w <= WordOf(highestSeq) => Advanced(s)[Slot(w)] = bitmap[Slot(w)]
         /\ w > WordOf(highestSeq) => Advanced(s)[Slot(w)] = {}
<1>1. /\ highestSeq \in Nat /\ WordOf(s) \in Int /\ WordOf(highestSeq) \in Int
      /\ bitmap \in [Slots -> SUBSET (0 .. (Bits - 1))]
      /\ WordOf(highestSeq) <= WordOf(s)
  <2>1. highestSeq \in Int /\ s \in Int /\ highestSeq <= s
    BY DEF TypeOK
  <2> QED
    BY <2>1, Split, WordMonotone DEF TypeOK
<1>2. Slot(w) \in Slots
  BY SlotDistance
<1>3. CASE s - highestSeq >= Size \/ WordOf(s) - WordOf(highestSeq) >= Words
  <2>1. WordOf(s) - WordOf(highestSeq) >= Words
    BY <1>1, <1>3, WindowInWords
  <2>2. Advanced(s) = Blank
    BY <1>3 DEF Advanced
  <2> QED
    BY <1>1, <1>2, <2>1, <2>2 DEF Blank
<1>4. CASE ~(s - highestSeq >= Size \/ WordOf(s) - WordOf(highestSeq) >= Words)
  <2> DEFINE New == Entered(WordOf(highestSeq), WordOf(s))
  <2>1. Advanced(s) = [i \in Slots |-> IF i \in New THEN {} ELSE bitmap[i]]
    BY <1>4 DEF Advanced
  <2>2. ASSUME w > WordOf(highestSeq) PROVE Slot(w) \in New
    BY <1>1, <2>2 DEF Entered
  <2>3. ASSUME w <= WordOf(highestSeq) PROVE Slot(w) \notin New
    <3>1. SUFFICES ASSUME NEW x \in (WordOf(highestSeq) + 1) .. WordOf(s),
                          Slot(x) = Slot(w)
                   PROVE  FALSE
      BY DEF Entered
    <3>2. x \in Int /\ w <= x /\ x - w < Words
      BY <1>1, <2>3
    <3>3. w = x
      BY <3>1, <3>2, SlotDistance
    <3> QED
      BY <1>1, <2>3, <3>2, <3>3
  <2> HIDE DEF New
  <2> QED
    BY <1>1, <1>2, <2>1, <2>2, <2>3
<1> QED
  BY <1>3, <1>4

-----------------------------------------------------------------------------
(* The inductive invariant                                                 *)

(* A fresh filter satisfies the invariant.                                 *)
LEMMA InitIInv == Init => IInv
<1> SUFFICES ASSUME Init PROVE IInv
  OBVIOUS
<1>1. Blank \in [Slots -> SUBSET (0 .. (Bits - 1))]
  BY DEF Blank
<1>2. TypeOK
  BY <1>1 DEF Init, TypeOK, NoCall
<1>3. HighestIsTop /\ AcceptedIsMarked /\ MarkIsExplained
  BY DEF Init, HighestIsTop, AcceptedIsMarked, MarkIsExplained
<1> QED
  BY <1>2, <1>3 DEF IInv

(* The first number accepted sets the one mark of the ring.                *)
LEMMA FirstIInv ==
  ASSUME IInv, NEW s \in Seqs, First(s)
  PROVE  IInv'
<1>1. /\ s \in Nat /\ highestSeq' = s /\ initialized' = TRUE
      /\ accepted = {} /\ accepted' = {s} /\ bitmap = Blank
      /\ bitmap' = [bitmap EXCEPT ![Slot(WordOf(s))] = {BitOf(s)}]
      /\ call' = [seq |-> s, ok |-> TRUE, again |-> FALSE]
  <2>1. s \in Nat /\ accepted = {} /\ bitmap = Blank
    BY DEF IInv, HighestIsTop, First
  <2>2. accepted' = accepted \union {s} /\ (s \in accepted) = FALSE
    BY <2>1 DEF First, Answer
  <2>3. call' = [seq |-> s, ok |-> TRUE, again |-> (s \in accepted)]
    BY DEF First, Answer
  <2> QED
    BY <2>1, <2>2, <2>3 DEF First
<1>2. /\ WordOf(s) \in Int /\ BitOf(s) \in 0 .. (Bits - 1)
      /\ Slot(WordOf(s)) \in Slots
  BY <1>1, Split, SlotDistance
<1>3. TypeOK'
  BY <1>1, <1>2 DEF IInv, TypeOK, Blank
<1>4. HighestIsTop'
  BY <1>1 DEF HighestIsTop
<1>5. AcceptedIsMarked'
  BY <1>1, <1>2 DEF AcceptedIsMarked, IsMarked, Blank
<1>6. MarkIsExplained'
  <2> SUFFICES ASSUME NEW t \in Seqs,
                      WordOf(t) \in (WordOf(s) - Words + 1) .. WordOf(s),
                      BitOf(t) \in bitmap'[Slot(WordOf(t))]
               PROVE  t = s
    BY <1>1 DEF MarkIsExplained, IsMarked
  <2>1. /\ t \in Int /\ WordOf(t) \in Int /\ Slot(WordOf(t)) \in Slots
    BY Split, SlotDistance
  <2>2. Slot(WordOf(t)) = Slot(WordOf(s)) /\ BitOf(t) = BitOf(s)
    BY <1>1, <1>2, <2>1 DEF Blank
  <2> QED
    BY <1>1, <1>2, <2>1, <2>2, SamePlace
<1> QED
  BY <1>3, <1>4, <1>5, <1>6 DEF IInv

(* A newer number moves the window, which forgets only words that fall out *)
(* of it and the stale marks of the words it enters.                       *)
LEMMA NewerIInv ==
  ASSUME IInv, NEW s \in Seqs, Newer(s)
  PROVE  IInv'
<1>1. /\ s \in Nat /\ s > highestSeq /\ highestSeq \in Nat
      /\ initialized = TRUE /\ initialized' = TRUE /\ highestSeq' = s
      /\ accepted' = accepted \union {s} /\ accepted \subseteq Seqs
      /\ bitmap' = Mark(Advanced(s), s)
      /\ call' = [seq |-> s, ok |-> TRUE, again |-> s \in accepted]
  BY DEF IInv, TypeOK, Newer, Answer
<1>2. /\ WordOf(s) \in Int /\ WordOf(highestSeq) \in Int
      /\ WordOf(highestSeq) <= WordOf(s)
  <2>1. highestSeq \in Int /\ s \in Int /\ highestSeq <= s
    BY <1>1
  <2> QED
    BY <2>1, Split, WordMonotone
<1>3. Advanced(s) \in [Slots -> SUBSET (0 .. (Bits - 1))]
  BY <1>1, <1>2, AdvancedKeeps DEF IInv
<1>4. TypeOK'
  BY <1>1, <1>3, MarkAdds DEF TypeOK
<1>5. HighestIsTop'
  BY <1>1 DEF IInv, HighestIsTop
<1>6. AcceptedIsMarked'
  <2> SUFFICES ASSUME NEW t \in accepted', WordOf(t) > WordOf(s) - Words
               PROVE  BitOf(t) \in bitmap'[Slot(WordOf(t))]
    BY <1>1 DEF AcceptedIsMarked, IsMarked
  <2>1. CASE t = s
    BY <1>1, <1>3, <2>1, MarkAdds
  <2>2. CASE t \in accepted
    <3>1. t \in Nat /\ t <= highestSeq /\ WordOf(t) \in Int
      BY <1>1, <2>2, Split DEF IInv, HighestIsTop
    <3>2. WordOf(t) <= WordOf(highestSeq)
      BY <1>1, <3>1, WordMonotone
    <3>3. IsMarked(t)
      BY <1>2, <2>2, <3>1 DEF IInv, AcceptedIsMarked
    <3>4. Advanced(s)[Slot(WordOf(t))] = bitmap[Slot(WordOf(t))]
      BY <1>1, <1>2, <3>1, <3>2, AdvancedKeeps DEF IInv
    <3> QED
      BY <1>1, <1>3, <3>1, <3>3, <3>4, MarkAdds DEF IsMarked
  <2> QED
    BY <1>1, <2>1, <2>2
<1>7. MarkIsExplained'
  <2> SUFFICES ASSUME NEW t \in Seqs,
                      WordOf(t) \in (WordOf(s) - Words + 1) .. WordOf(s),
                      BitOf(t) \in bitmap'[Slot(WordOf(t))]
               PROVE  t \in accepted' \/ t - Size \in accepted'
    BY <1>1 DEF MarkIsExplained, IsMarked
  <2>1. t \in Int /\ WordOf(t) \in Int
    BY Split
  <2>2. \/ BitOf(t) \in Advanced(s)[Slot(WordOf(t))]
        \/ Slot(WordOf(t)) = Slot(WordOf(s)) /\ BitOf(t) = BitOf(s)
    BY <1>1, <1>3, <2>1, MarkAdds
  <2>3. CASE Slot(WordOf(t)) = Slot(WordOf(s)) /\ BitOf(t) = BitOf(s)
    BY <1>1, <1>2, <2>1, <2>3, SamePlace
  <2>4. CASE BitOf(t) \in Advanced(s)[Slot(WordOf(t))]
    <3>1. WordOf(t) <= WordOf(highestSeq) /\ IsMarked(t)
      BY <1>1, <1>2, <2>1, <2>4, AdvancedKeeps DEF IInv, IsMarked
    <3>2. WordOf(t) \in (WordOf(highestSeq) - Words + 1) .. WordOf(highestSeq)
      BY <1>2, <2>1, <3>1
    <3> QED
      BY <1>1, <3>1, <3>2 DEF IInv, MarkIsExplained
  <2> QED
    BY <2>2, <2>3, <2>4
<1> QED
  BY <1>4, <1>5, <1>6, <1>7 DEF IInv

(* A late number sets its own bit, which may also be the bit of the number *)
(* one whole window later.                                                 *)
LEMMA LateIInv ==
  ASSUME IInv, NEW s \in Seqs, Late(s)
  PROVE  IInv'
<1>1. /\ s \in Nat /\ s <= highestSeq /\ highestSeq \in Nat
      /\ highestSeq - s < Size
      /\ initialized = TRUE /\ initialized' = TRUE /\ highestSeq' = highestSeq
      /\ accepted' = accepted \union {s} /\ accepted \subseteq Seqs
      /\ bitmap' = Mark(bitmap, s)
      /\ bitmap \in [Slots -> SUBSET (0 .. (Bits - 1))]
      /\ call' = [seq |-> s, ok |-> TRUE, again |-> s \in accepted]
  BY DEF IInv, TypeOK, Late, Answer
<1>2. /\ WordOf(s) \in Int /\ WordOf(highestSeq) \in Int
      /\ WordOf(s) <= WordOf(highestSeq)
      /\ WordOf(highestSeq) - WordOf(s) <= Words
  <2>1. highestSeq \in Int /\ s \in Int /\ s <= highestSeq
    BY <1>1
  <2>2. WordOf(s) <= WordOf(highestSeq)
    BY <2>1, WordMonotone
  <2>3. WordOf(highestSeq) - WordOf(s) <= Words
    BY <1>1, WindowInWords
  <2> QED
    BY <2>1, <2>2, <2>3, Split
<1>3. TypeOK'
  BY <1>1, MarkAdds DEF TypeOK
<1>4. HighestIsTop'
  BY <1>1 DEF IInv, HighestIsTop
<1>5. AcceptedIsMarked'
  <2> SUFFICES ASSUME NEW t \in accepted', WordOf(t) > WordOf(highestSeq) - Words
               PROVE  BitOf(t) \in bitmap'[Slot(WordOf(t))]
    BY <1>1 DEF AcceptedIsMarked, IsMarked
  <2>1. t \in Int
    BY <1>1
  <2>2. t = s \/ BitOf(t) \in bitmap[Slot(WordOf(t))]
    BY <1>1 DEF IInv, AcceptedIsMarked, IsMarked
  <2> QED
    BY <1>1, <2>1, <2>2, MarkAdds
<1>6. MarkIsExplained'
  <2> SUFFICES ASSUME NEW t \in Seqs,
                      WordOf(t) \in (WordOf(highestSeq) - Words + 1)
                                      .. WordOf(highestSeq),
                      BitOf(t) \in bitmap'[Slot(WordOf(t))]
               PROVE  t \in accepted' \/ t - Size \in accepted'
    BY <1>1 DEF MarkIsExplained, IsMarked
  <2>1. t \in Int /\ WordOf(t) \in Int
    BY Split
  <2>2. \/ BitOf(t) \in bitmap[Slot(WordOf(t))]
        \/ Slot(WordOf(t)) = Slot(WordOf(s)) /\ BitOf(t) = BitOf(s)
    BY <1>1, <2>1, MarkAdds
  <2>3. CASE BitOf(t) \in bitmap[Slot(WordOf(t))]
    BY <1>1, <2>3 DEF IInv, MarkIsExplained, IsMarked
  <2>4. CASE Slot(WordOf(t)) = Slot(WordOf(s)) /\ BitOf(t) = BitOf(s)
    <3>1. CASE WordOf(t) - WordOf(s) = Words
      BY <1>1, <2>1, <2>4, <3>1, OneRingApart
    <3>2. CASE WordOf(t) - WordOf(s) # Words
      <4>1. WordOf(t) - WordOf(s) < Words /\ WordOf(s) - WordOf(t) < Words
        BY <1>2, <2>1, <3>2
      <4> QED
        BY <1>1, <2>1, <2>4, <4>1, SamePlace
    <3> QED
      BY <3>1, <3>2
  <2> QED
    BY <2>2, <2>3, <2>4
<1> QED
  BY <1>3, <1>4, <1>5, <1>6 DEF IInv

(* Every step of the filter keeps the invariant.                           *)
LEMMA NextIInv == IInv /\ [Next]_vars => IInv'
<1> SUFFICES ASSUME IInv, [Next]_vars PROVE IInv'
  OBVIOUS
<1>1. CASE Reset
  BY <1>1 DEF Reset, IInv, TypeOK, HighestIsTop, AcceptedIsMarked,
              MarkIsExplained, Blank, NoCall
<1>2. ASSUME NEW s \in Seqs, Reject(s) PROVE IInv'
  BY <1>2 DEF Reject, Answer, IInv, TypeOK, HighestIsTop, AcceptedIsMarked,
              MarkIsExplained, IsMarked
<1>3. CASE UNCHANGED vars
  BY <1>3 DEF vars, IInv, TypeOK, HighestIsTop, AcceptedIsMarked,
              MarkIsExplained, IsMarked
<1> QED
  BY <1>1, <1>2, <1>3, FirstIInv, NewerIInv, LateIInv DEF Next, ValidateAndAccept

(* The filter's state is well typed and its ring agrees with what it       *)
(* accepted, in every reachable state.                                     *)
THEOREM Invariance == Spec => []IInv
  BY InitIInv, NextIInv, PTL DEF Spec

(* The ring holds bits of a word only, and the window ends at a number.    *)
THEOREM TypeCorrect == Spec => []TypeOK
<1>1. IInv => TypeOK
  BY DEF IInv
<1> QED BY <1>1, Invariance, PTL

(* highestSeq is the highest number accepted since the last Reset.         *)
THEOREM TopIsHighest == Spec => []HighestIsTop
<1>1. IInv => HighestIsTop
  BY DEF IInv
<1> QED BY <1>1, Invariance, PTL

(* No number accepted in the live words has lost its bit.                  *)
THEOREM AcceptedStaysMarked == Spec => []AcceptedIsMarked
<1>1. IInv => AcceptedIsMarked
  BY DEF IInv
<1> QED BY <1>1, Invariance, PTL

(* No bit of a live word is left over from an earlier lap of the ring.     *)
THEOREM MarksAreExplained == Spec => []MarkIsExplained
<1>1. IInv => MarkIsExplained
  BY DEF IInv
<1> QED BY <1>1, Invariance, PTL

(* A number is accepted a second time only a whole ring of words behind    *)
(* the newest one.                                                         *)
THEOREM NoNearDuplicateHolds == Spec => []NoNearDuplicate
<1>1. Init => NoNearDuplicate
  BY DEF Init, NoNearDuplicate, NoCall
<1>2. IInv /\ NoNearDuplicate /\ [Next]_vars => NoNearDuplicate'
  <2> SUFFICES ASSUME IInv, NoNearDuplicate, [Next]_vars
               PROVE  NoNearDuplicate'
    OBVIOUS
  <2>1. ASSUME NEW s \in Seqs, First(s) PROVE NoNearDuplicate'
    <3>1. call'.again = (s \in accepted) /\ accepted = {}
      BY <2>1 DEF First, Answer, IInv, HighestIsTop
    <3> QED
      BY <3>1 DEF NoNearDuplicate
  <2>2. ASSUME NEW s \in Seqs, Newer(s) PROVE NoNearDuplicate'
    <3>1. call'.again = (s \in accepted) /\ s > highestSeq
      BY <2>2 DEF Newer, Answer
    <3>2. s \in Nat /\ highestSeq \in Nat /\ s \notin accepted
      BY <3>1 DEF IInv, TypeOK, HighestIsTop
    <3> QED
      BY <3>1, <3>2 DEF NoNearDuplicate
  <2>3. ASSUME NEW s \in Seqs, Late(s) PROVE NoNearDuplicate'
    <3>1. /\ call'.again = (s \in accepted) /\ call'.seq = s
          /\ highestSeq' = highestSeq /\ ~IsMarked(s)
      BY <2>3 DEF Late, Answer
    <3>2. s \in accepted => WordOf(s) <= WordOf(highestSeq) - Words
      <4>1. WordOf(s) \in Int /\ WordOf(highestSeq) \in Int
        BY Split DEF IInv, TypeOK
      <4> QED
        BY <3>1, <4>1 DEF IInv, AcceptedIsMarked
    <3> QED
      BY <3>1, <3>2 DEF NoNearDuplicate
  <2>4. ASSUME NEW s \in Seqs, Reject(s) PROVE NoNearDuplicate'
    BY <2>4 DEF Reject, Answer, NoNearDuplicate
  <2>5. CASE Reset
    BY <2>5 DEF Reset, NoCall, NoNearDuplicate
  <2>6. CASE UNCHANGED vars
    BY <2>6 DEF vars, NoNearDuplicate
  <2> QED
    BY <2>1, <2>2, <2>3, <2>4, <2>5, <2>6 DEF Next, ValidateAndAccept
<1> QED
  BY <1>1, <1>2, Invariance, PTL DEF Spec

(* Every behaviour of the filter is one of the bitmap-free window          *)
(* specification.                                                          *)
THEOREM Refinement == Spec => ImplementsWindow
<1> DEFINE Top == IF initialized THEN highestSeq ELSE -1
<1>1. Init => Window!Init
  BY DEF Init, Window!Init, NoCall, Window!NoCall
<1>2. IInv /\ [Next]_vars => [Window!Next]_(Window!vars)
  <2> SUFFICES ASSUME IInv, [Next]_vars PROVE [Window!Next]_(Window!vars)
    OBVIOUS
  <2>1. ASSUME NEW s \in Seqs, First(s) PROVE Window!Accept(s)
    BY <2>1 DEF First, Answer, Window!Accept, IInv, HighestIsTop
  <2>2. ASSUME NEW s \in Seqs, Newer(s) PROVE Window!Accept(s)
    BY <2>2 DEF Newer, Answer, Window!Accept
  <2>3. ASSUME NEW s \in Seqs, Late(s) PROVE Window!Accept(s)
    <3>1. /\ s \in Nat /\ highestSeq \in Nat /\ s <= highestSeq
          /\ highestSeq - s < Size /\ initialized /\ initialized'
          /\ highestSeq' = highestSeq
      BY <2>3 DEF Late, IInv, TypeOK
    <3>2. s \in accepted => highestSeq - s >= Size - Bits + 1
      <4> SUFFICES ASSUME s \in accepted
                   PROVE  highestSeq - s >= Size - Bits + 1
        OBVIOUS
      <4>1. WordOf(s) \in Int /\ WordOf(highestSeq) \in Int
        BY <3>1, Split
      <4>2. WordOf(s) <= WordOf(highestSeq) - Words
        BY <2>3, <4>1 DEF Late, IInv, AcceptedIsMarked
      <4> QED
        BY <3>1, <4>1, <4>2, FarInWords
    <3> QED
      BY <2>3, <3>1, <3>2 DEF Late, Answer, Window!Accept
  <2>4. ASSUME NEW s \in Seqs, Reject(s) PROVE Window!Drop(s)
    <3>1. /\ s \in Nat /\ highestSeq \in Nat /\ s <= highestSeq
          /\ initialized /\ initialized' /\ highestSeq' = highestSeq
          /\ highestSeq - s >= Size \/ IsMarked(s)
          /\ initialized \in BOOLEAN /\ initialized' = initialized
      BY <2>4 DEF Reject, IInv, TypeOK
    <3>2. \/ s \in accepted \/ s - Size \in accepted
          \/ highestSeq - s >= Size - Bits + 1
      <4>1. WordOf(s) \in Int /\ WordOf(highestSeq) \in Int /\ Size \in Int
        BY <3>1, Split DEF Size
      <4>2. WordOf(s) <= WordOf(highestSeq)
        <5>1. s \in Int /\ highestSeq \in Int
          BY <3>1
        <5> QED
          BY <3>1, <5>1, WordMonotone
      <4>3. CASE highestSeq - s >= Size
        BY <3>1, <4>1, <4>3
      <4>4. CASE WordOf(s) <= WordOf(highestSeq) - Words
        BY <3>1, <4>4, FarInWords
      <4>5. CASE IsMarked(s) /\ WordOf(s) > WordOf(highestSeq) - Words
        <5>1. WordOf(s) \in (WordOf(highestSeq) - Words + 1)
                              .. WordOf(highestSeq)
          BY <4>1, <4>2, <4>5
        <5> QED
          BY <3>1, <4>5, <5>1 DEF IInv, MarkIsExplained
      <4> QED
        BY <3>1, <4>1, <4>3, <4>4, <4>5
    <3> QED
      BY <2>4, <3>1, <3>2 DEF Reject, Answer, Window!Drop
  <2>5. CASE Reset
    BY <2>5 DEF Reset, Window!Next, Window!Forget, NoCall, Window!NoCall
  <2>6. CASE UNCHANGED vars
    BY <2>6 DEF vars, Window!vars
  <2> QED
    BY <2>1, <2>2, <2>3, <2>4, <2>5, <2>6
       DEF Next, ValidateAndAccept, Window!Next
<1> QED
  BY <1>1, <1>2, Invariance, PTL DEF Spec, ImplementsWindow, Window!Spec
=============================================================================
