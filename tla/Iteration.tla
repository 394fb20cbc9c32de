------------------------------ MODULE Iteration ------------------------------
(***************************************************************************)
(* Loops of the store, written so that they can be proved about: a         *)
(* transaction that walks rows in order is the composition of one step     *)
(* function per row.  The recursion is a function over an interval, never  *)
(* a RECURSIVE operator, and IterationProofs shows what it preserves.      *)
(***************************************************************************)
LOCAL INSTANCE Naturals
LOCAL INSTANCE Sequences

(* The result of applying step[1], ..., step[n], in that order, to start.  *)
Iterate(step, start, n) ==
    LET after[i \in 0..n] == IF i = 0 THEN start
                                      ELSE step[i][after[i - 1]]
    IN  after[n]

(* The members of the sequence q that are not in the set R, in order.      *)
Without(q, R, S) ==
    Iterate([i \in 1..Len(q) |->
                [kept \in Seq(S) |-> IF q[i] \in R THEN kept
                                                   ELSE Append(kept, q[i])]],
            << >>, Len(q))
==============================================================================
