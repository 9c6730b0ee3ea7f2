---------------------------- MODULE ReplayFilter ----------------------------
(***************************************************************************)
(* The sliding-window duplicate filter of internal/crypto/replay.go: a     *)
(* ring of Words words of Bits bits, indexed by the sequence number.  Each *)
(* call holds f.mu from its first line to its last, so a call is one step. *)
(***************************************************************************)
EXTENDS Integers

(* A definition that nothing below uses is a fault the code could have had *)
(* in the definition it stands before; the properties must notice it.      *)

CONSTANTS Words,   \* ReplayWindowWords, 32 in the code
          Bits,    \* bits in a word, 64 in the code
          Seqs     \* the sequence numbers that may arrive

ASSUME ReplayAssumption ==
  Words \in Nat \ {0} /\ Bits \in Nat \ {0} /\ Seqs \subseteq Nat

VARIABLES initialized, highestSeq, bitmap,
          accepted,  \* history: numbers accepted since the last Reset
          call       \* history: the last call, its answer, and whether its number
                     \* had been accepted before

vars == <<initialized, highestSeq, bitmap, accepted, call>>

Size      == Words * Bits
WordOf(s) == s \div Bits
BitOf(s)  == s % Bits
Slot(w)   == w % Words
Slots     == 0 .. (Words - 1)
Blank     == [i \in Slots |-> {}]
NoCall    == [seq |-> -1, ok |-> FALSE, again |-> FALSE]

Unchecked(s) == FALSE
IsMarked(s) == BitOf(s) \in bitmap[Slot(WordOf(s))]
MarkAlone(bm, s) == [bm EXCEPT ![Slot(WordOf(s))] = {BitOf(s)}]
Mark(bm, s) == [bm EXCEPT ![Slot(WordOf(s))] = @ \union {BitOf(s)}]

(* Slots of the words the window enters when it moves from word old to new *)
Entered(old, new) == {Slot(w) : w \in (old + 1) .. new}

(* The ring once the window has moved up to s: the slots of the words it   *)
(* enters are cleared, all of them when nothing of the old window is left. *)
Advanced(s) ==
  IF s - highestSeq >= Size \/ WordOf(s) - WordOf(highestSeq) >= Words
  THEN Blank
  ELSE [i \in Slots |->
          IF i \in Entered(WordOf(highestSeq), WordOf(s)) THEN {} ELSE bitmap[i]]

Answer(s, ok) ==
  /\ accepted' = IF ok THEN accepted \union {s} ELSE accepted
  /\ call' = [seq |-> s, ok |-> ok, again |-> s \in accepted]

-----------------------------------------------------------------------------
(* State and the branches of ValidateAndAccept                             *)

Init ==
  /\ initialized = FALSE
  /\ highestSeq = 0
  /\ bitmap = Blank
  /\ accepted = {}
  /\ call = NoCall

First(s) ==
  /\ ~initialized
  /\ initialized' = TRUE
  /\ highestSeq' = s
  /\ bitmap' = [bitmap EXCEPT ![Slot(WordOf(s))] = {BitOf(s)}]
  /\ Answer(s, TRUE)

Newer(s) ==
  /\ initialized
  /\ s > highestSeq
  /\ bitmap' = Mark(Advanced(s), s)
  /\ highestSeq' = s
  /\ Answer(s, TRUE)
  /\ UNCHANGED initialized

Late(s) ==
  /\ initialized
  /\ s <= highestSeq
  /\ highestSeq - s < Size
  /\ ~IsMarked(s)
  /\ bitmap' = Mark(bitmap, s)
  /\ Answer(s, TRUE)
  /\ UNCHANGED <<initialized, highestSeq>>

Reject(s) ==
  /\ initialized
  /\ s <= highestSeq
  /\ highestSeq - s >= Size \/ IsMarked(s)
  /\ Answer(s, FALSE)
  /\ UNCHANGED <<initialized, highestSeq, bitmap>>

ValidateAndAccept(s) == First(s) \/ Newer(s) \/ Late(s) \/ Reject(s)

Reset ==
  /\ initialized' = FALSE
  /\ highestSeq' = 0
  /\ bitmap' = Blank
  /\ accepted' = {}
  /\ call' = NoCall

Next == Reset \/ \E s \in Seqs : ValidateAndAccept(s)

Spec == Init /\ [][Next]_vars

-----------------------------------------------------------------------------
(* Properties                                                              *)

TypeOK ==
  /\ initialized \in BOOLEAN
  /\ highestSeq \in Nat
  /\ bitmap \in [Slots -> SUBSET (0 .. (Bits - 1))]
  /\ accepted \subseteq Seqs
  /\ call \in [seq : Seqs \union {-1}, ok : BOOLEAN, again : BOOLEAN]

(* highestSeq is the largest number accepted, and the filter is untouched  *)
(* exactly while nothing was accepted.                                     *)
HighestIsTop ==
  /\ initialized <=> accepted # {}
  /\ initialized => highestSeq \in accepted
  /\ ~initialized => bitmap = Blank
  /\ \A s \in accepted : s <= highestSeq

(* No accepted number in the last Words words lost its mark: moving the    *)
(* window clears only the slots of the words it enters.                    *)
AcceptedIsMarked ==
  \A s \in accepted :
     WordOf(s) > WordOf(highestSeq) - Words => IsMarked(s)

(* Every mark comes from a number that was accepted: this one, or the one  *)
(* a whole window earlier, which shares its bit.                           *)
MarkIsExplained ==
  \A s \in Seqs :
     /\ initialized
     /\ WordOf(s) \in (WordOf(highestSeq) - Words + 1) .. WordOf(highestSeq)
     /\ IsMarked(s)
     => s \in accepted \/ s - Size \in accepted

IInv == TypeOK /\ HighestIsTop /\ AcceptedIsMarked /\ MarkIsExplained

(* A packet delivered twice is let through once: a second acceptance can   *)
(* only be of a number that is a whole window of words behind.             *)
NoNearDuplicate ==
  call.ok /\ call.again
    => WordOf(call.seq) <= WordOf(highestSeq) - Words

(* The filter answers as the bitmap-free window specification does, exact  *)
(* up to one word less than the ring holds.                                *)
Window == INSTANCE ReplayWindow WITH
            seen   <- accepted,
            top    <- IF initialized THEN highestSeq ELSE -1,
            Window <- Size,
            Near   <- Size - Bits + 1

ImplementsWindow == Window!Spec

(* What the comments of replay.go say: "If seq is a duplicate or too old   *)
(* to be validated, it returns false", for every one of the                *)
(* "ReplayWindowSize ... packets tracked by the replay filter".            *)
NoDuplicateInWindow == ~(call.ok /\ call.again)
=============================================================================
