------------------------------ MODULE ScoreHeap ------------------------------
(***************************************************************************)
(* class ScoreHeap (src/src/async-iterable-pool.ts): a binary max-heap in  *)
(* an array, ordered by score and, among equal scores, by insertion.       *)
(* Indices start at 1 here, at 0 in the code.                              *)
(***************************************************************************)
EXTENDS Naturals, Sequences

HeapEntries == [item : Nat, score : Nat, seq : Nat]
Arrays == Seq(HeapEntries)
Positions == {x \in Arrays \X Nat : x[2] \in 1..Len(x[1])}

(* Mutant: equal scores are taken newest first. *)
BetterUnstable(x, y) == IF x.score # y.score THEN x.score > y.score ELSE x.seq > y.seq

(* x belongs closer to the root than y. *)
Better(x, y) == IF x.score # y.score THEN x.score > y.score ELSE x.seq < y.seq

Swap(a, i, k) == [a EXCEPT ![i] = a[k], ![k] = a[i]]

SiftUp[x \in Positions] ==
  LET a == x[1]  i == x[2]  p == i \div 2
  IN  IF i = 1 \/ ~ Better(a[i], a[p]) THEN a ELSE SiftUp[<<Swap(a, i, p), p>>]

(* The best of node i and its children. *)
BestOf(a, i) ==
  LET l == 2 * i
      b == IF l <= Len(a) /\ Better(a[l], a[i]) THEN l ELSE i
  IN  IF l + 1 <= Len(a) /\ Better(a[l + 1], a[b]) THEN l + 1 ELSE b

SiftDown[x \in Positions] ==
  LET a == x[1]  i == x[2]  b == BestOf(a, i)
  IN  IF b = i THEN a ELSE SiftDown[<<Swap(a, i, b), b>>]

Push(a, entry) == SiftUp[<<Append(a, entry), Len(a) + 1>>]

(* What is left when the root is taken: the last leaf takes its place. *)
Pop(a) ==
  IF Len(a) = 1 THEN <<>>
  ELSE SiftDown[<<[SubSeq(a, 1, Len(a) - 1) EXCEPT ![1] = a[Len(a)]], 1>>]
=============================================================================
