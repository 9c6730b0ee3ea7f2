---------------------------- MODULE ReplayWindow ----------------------------
(***************************************************************************)
(* What internal/crypto/replay.go promises its callers, with no bitmap: a  *)
(* filter that remembers the numbers it let through and decides each call  *)
(* from that set alone.  ReplayFilter is shown to implement it.            *)
(*                                                                         *)
(* Near is the distance behind the newest number within which a number is  *)
(* never let through twice, Window the distance beyond which it is never   *)
(* let through at all; the decision is free between the two.               *)
(***************************************************************************)
EXTENDS Integers

CONSTANTS Seqs,     \* the sequence numbers that may arrive
          Window,   \* ReplayWindowSize
          Near      \* the distance within which the filter is exact

VARIABLES seen,     \* numbers let through since the last Reset
          top,      \* the newest of them, -1 when there is none
          call      \* the last call and its answer

vars == <<seen, top, call>>

NoCall == [seq |-> -1, ok |-> FALSE, again |-> FALSE]

Init == seen = {} /\ top = -1 /\ call = NoCall

(* A newer number is always let through.  Any other one only inside the    *)
(* window, and a second time only beyond Near.                             *)
Accept(s) ==
  /\ \/ s > top
     \/ top - s < Window /\ (s \notin seen \/ top - s >= Near)
  /\ seen' = seen \union {s}
  /\ top' = IF s > top THEN s ELSE top
  /\ call' = [seq |-> s, ok |-> TRUE, again |-> s \in seen]

(* A number is turned away for one of three reasons: it was let through    *)
(* before, it is far behind, or the number one whole window before it was  *)
(* let through and left its mark in the bit they share.                    *)
Drop(s) ==
  /\ s <= top
  /\ s \in seen \/ top - s >= Near \/ s - Window \in seen
  /\ call' = [seq |-> s, ok |-> FALSE, again |-> s \in seen]
  /\ UNCHANGED <<seen, top>>

Forget == seen' = {} /\ top' = -1 /\ call' = NoCall

Next == Forget \/ \E s \in Seqs : Accept(s) \/ Drop(s)

Spec == Init /\ [][Next]_vars
=============================================================================
