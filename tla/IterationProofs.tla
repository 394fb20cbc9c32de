--------------------------- MODULE IterationProofs ---------------------------
(***************************************************************************)
(* What a loop written with Iterate preserves.  The library states         *)
(* induction with an operator parameter, which the provers cannot          *)
(* instantiate, so induction over the naturals is first derived in a form  *)
(* about sets, from the well-foundedness of strict inclusion.              *)
(***************************************************************************)
EXTENDS Iteration, Integers, Sequences, FiniteSetTheorems, SequenceTheorems,
        WellFoundedInduction, TLAPS

(* A set that holds 0 and the successor of each of its naturals holds every
   natural: the least number it lacks would be a minimal initial segment. *)
LEMMA SetInduction ==
  ASSUME NEW S, 0 \in S, \A n \in Nat : n \in S => n + 1 \in S
  PROVE  Nat \subseteq S
<1> DEFINE Bad == Nat \ S
           Segments == {0..i : i \in Bad}
<1> SUFFICES ASSUME Bad # {} PROVE FALSE
  OBVIOUS
<1>1. IsWellFoundedOn(StrictSubsetOrdering(Nat), FiniteSubsetsOf(Nat))
  BY FS_StrictSubsetOrderingWellFounded
<1>2. Segments \subseteq FiniteSubsetsOf(Nat)
  <2> SUFFICES ASSUME NEW i \in Bad PROVE 0..i \in FiniteSubsetsOf(Nat)
    OBVIOUS
  <2>1. i \in Int /\ 0 \in Int
    OBVIOUS
  <2>2. IsFiniteSet(0..i)
    BY <2>1, FS_Interval
  <2>3. 0..i \subseteq Nat
    OBVIOUS
  <2> QED
    BY <2>2, <2>3 DEF FiniteSubsetsOf
<1>3. Segments # {}
  OBVIOUS
<1> HIDE DEF Segments
<1>4. PICK t \in Segments :
         \A y \in Segments : ~(<<y, t>> \in StrictSubsetOrdering(Nat))
  BY <1>1, <1>2, <1>3, WFMin
<1>5. PICK x \in Bad : t = 0..x
  BY DEF Segments
<1>6. x # 0
  OBVIOUS
<1>7. x - 1 \in Nat /\ x - 1 + 1 = x
  BY <1>6, SMT
<1>8. x - 1 \in Bad
  BY <1>7
<1>9. 0..(x - 1) \in Segments
  BY <1>8 DEF Segments
<1>10. /\ 0..(x - 1) \subseteq 0..x
       /\ x \in 0..x /\ x \notin 0..(x - 1)
       /\ 0..x \subseteq Nat
  BY <1>7
<1>11. <<0..(x - 1), t>> \in StrictSubsetOrdering(Nat)
  BY <1>5, <1>10 DEF StrictSubsetOrdering
<1> QED
  BY <1>4, <1>9, <1>11

(* Step i leads from every state of Good[i - 1] to a state of Good[i]. *)
Leads(step, n, Good) ==
    \A i \in 1..n : \A s \in Good[i - 1] : step[i][s] \in Good[i]

(* Every step from 1 to n keeps a state of Good inside Good. *)
StaysWithin(step, n, Good) ==
    \A i \in 1..n : \A s \in Good : step[i][s] \in Good

(* The function f runs the steps up to n from start. *)
Runs(f, step, start, n) ==
    /\ f[0] = start
    /\ \A i \in 1..n : f[i] = step[i][f[i - 1]]

(* A recursion over 0..n whose step i leads from Good[i - 1] to Good[i]
   defines a function whose value at i is in Good[i]. *)
LEMMA IntervalRecursion ==
  ASSUME NEW n \in Nat, NEW Good, NEW start \in Good[0], NEW step,
         Leads(step, n, Good)
  PROVE  \E f : /\ f = [i \in 0..n |-> f[i]]
                /\ Runs(f, step, start, n)
                /\ \A i \in 0..n : f[i] \in Good[i]
<1> DEFINE Upto(m, f) == /\ f = [i \in 0..m |-> f[i]]
                         /\ f[0] = start
                         /\ \A i \in 1..m : f[i] = step[i][f[i - 1]]
                         /\ \A i \in 0..m : f[i] \in Good[i]
           Reach == {m \in Nat : m <= n => \E f : Upto(m, f)}
<1>1. 0 \in Reach
  <2> DEFINE z == [i \in 0..0 |-> start]
  <2>1. Upto(0, z)
    BY SMT
  <2> QED
    BY <2>1
<1>2. ASSUME NEW m \in Nat, m \in Reach PROVE m + 1 \in Reach
  <2> SUFFICES ASSUME m + 1 <= n PROVE \E g : Upto(m + 1, g)
    <3> HIDE DEF Upto
    <3> QED
      BY SMT
  <2>1. PICK f : Upto(m, f)
    BY <1>2, SMT
  <2> DEFINE g == [i \in 0..(m + 1) |->
                     IF i <= m THEN f[i] ELSE step[m + 1][f[m]]]
  <2>2. f[m] \in Good[m] /\ m + 1 \in 1..n /\ m + 1 - 1 = m
    BY <2>1, SMT
  <2>3. step[m + 1][f[m]] \in Good[m + 1]
    BY <2>2 DEF Leads
  <2>4. \A i \in 0..(m + 1) : g[i] \in Good[i]
    <3> SUFFICES ASSUME NEW i \in 0..(m + 1) PROVE g[i] \in Good[i]
      OBVIOUS
    <3>1. CASE i <= m
      BY <2>1, <3>1, SMT
    <3>2. CASE i = m + 1
      <4>1. ~(i <= m)
        BY <3>2, SMT
      <4> QED
        BY <2>3, <3>2, <4>1
    <3> QED
      BY <3>1, <3>2, SMT
  <2>5. g[0] = start
    BY <2>1, SMT
  <2>6. ASSUME NEW i \in 1..(m + 1) PROVE g[i] = step[i][g[i - 1]]
    <3>1. CASE i <= m
      <4>1. i \in 1..m /\ i \in 0..(m + 1) /\ i - 1 <= m /\ i - 1 \in 0..(m + 1)
        BY <3>1, SMT
      <4>2. f[i] = step[i][f[i - 1]]
        BY <2>1, <4>1
      <4> QED
        BY <3>1, <4>1, <4>2
    <3>2. CASE i = m + 1
      <4>1. ~(i <= m) /\ i - 1 = m /\ m <= m /\ m \in 0..(m + 1)
        BY <3>2, SMT
      <4> QED
        BY <3>2, <4>1
    <3> QED
      BY <3>1, <3>2, SMT
  <2>7. g = [i \in 0..(m + 1) |-> g[i]]
    OBVIOUS
  <2> HIDE DEF g
  <2> QED
    BY <2>4, <2>5, <2>6, <2>7
<1>3. Nat \subseteq Reach
  <2> HIDE DEF Reach
  <2> QED
    BY <1>1, <1>2, SetInduction
<1> QED
  BY <1>3, SMT DEF Runs

(* A loop whose step i leads from Good[i - 1] to Good[i] leads from Good[0]
   to Good[n]: what is known after a row may depend on the rows before it. *)
THEOREM IterateLeads ==
  ASSUME NEW n \in Nat, NEW Good, NEW start \in Good[0], NEW step,
         Leads(step, n, Good)
  PROVE  Iterate(step, start, n) \in Good[n]
<1> DEFINE body(f) == [i \in 0..n |-> IF i = 0 THEN start
                                               ELSE step[i][f[i - 1]]]
           after == CHOOSE f : f = body(f)
<1>1. PICK g : /\ g = [i \in 0..n |-> g[i]]
               /\ Runs(g, step, start, n)
  BY IntervalRecursion
<1>2. \A i \in 0..n : g[i] = IF i = 0 THEN start ELSE step[i][g[i - 1]]
  <2> SUFFICES ASSUME NEW i \in 0..n
               PROVE  g[i] = IF i = 0 THEN start ELSE step[i][g[i - 1]]
    OBVIOUS
  <2>1. i = 0 \/ (i \in 1..n /\ i # 0)
    BY SMT
  <2> QED
    BY <1>1, <2>1, Zenon DEF Runs
<1>3. g = body(g)
  BY <1>1, <1>2
<1>4. after = body(after)
  BY <1>3, Zenon
<1> DEFINE Reach == {m \in Nat : m <= n => after[m] \in Good[m]}
<1> HIDE DEF after
<1>5. 0 \in Reach
  BY <1>4, SMT
<1>6. ASSUME NEW m \in Nat, m \in Reach PROVE m + 1 \in Reach
  <2> SUFFICES ASSUME m + 1 <= n PROVE after[m + 1] \in Good[m + 1]
    OBVIOUS
  <2>1. after[m] \in Good[m]
    BY <1>6, SMT
  <2>2. m + 1 \in 0..n /\ m + 1 # 0 /\ m + 1 - 1 = m /\ m + 1 \in 1..n
    BY SMT
  <2>3. after[m + 1] = step[m + 1][after[m]]
    BY <1>4, <2>2
  <2> QED
    BY <2>1, <2>2, <2>3 DEF Leads
<1>7. Nat \subseteq Reach
  <2> HIDE DEF Reach
  <2> QED
    BY <1>5, <1>6, SetInduction
<1>8. after[n] \in Good[n]
  BY <1>7, SMT
<1> QED
  BY <1>8 DEF Iterate, after

(* A loop whose every step keeps the state inside Good ends inside Good. *)
THEOREM IterateInvariant ==
  ASSUME NEW n \in Nat, NEW Good, NEW start \in Good, NEW step,
         StaysWithin(step, n, Good)
  PROVE  Iterate(step, start, n) \in Good
<1> DEFINE Always == [i \in 0..n |-> Good]
<1>1. start \in Always[0] /\ Always[n] = Good
  OBVIOUS
<1>2. Leads(step, n, Always)
  BY DEF Leads, StaysWithin
<1> HIDE DEF Always
<1> QED
  BY <1>1, <1>2, IterateLeads

(* What is left of a sequence after removing members is a sequence over
   the same set. *)
THEOREM WithoutType ==
  ASSUME NEW S, NEW q \in Seq(S), NEW R
  PROVE  Without(q, R, S) \in Seq(S)
<1> DEFINE step == [i \in 1..Len(q) |->
                      [kept \in Seq(S) |-> IF q[i] \in R THEN kept
                                           ELSE Append(kept, q[i])]]
<1>1. Len(q) \in Nat /\ << >> \in Seq(S)
  OBVIOUS
<1>2. StaysWithin(step, Len(q), Seq(S))
  BY DEF StaysWithin
<1> HIDE DEF step
<1>3. Iterate(step, << >>, Len(q)) \in Seq(S)
  BY <1>1, <1>2, IterateInvariant
<1> QED
  BY <1>3 DEF Without, step

(* What is left when the first i members of q were looked at: members of q
   outside R, every one of them, and different rows for different rows. *)
Selected(q, R, S, i) ==
    {kept \in Seq(S) :
        /\ Len(kept) <= i
        /\ \A m \in 1..Len(kept) : \E k \in 1..i : kept[m] = q[k] /\ q[k] \notin R
        /\ \A k \in 1..i : q[k] \in R \/ \E m \in 1..Len(kept) : kept[m] = q[k]
        /\ \A m, n \in 1..Len(kept) : m # n =>
              \E j, k \in 1..i : j # k /\ kept[m] = q[j] /\ kept[n] = q[k]}

(* What is left of a sequence after removing the members of a set is every
   other member, each row of it at most once. *)
THEOREM WithoutSelects ==
  ASSUME NEW S, NEW q \in Seq(S), NEW R
  PROVE  Without(q, R, S) \in Selected(q, R, S, Len(q))
<1> DEFINE n == Len(q)
           step == [i \in 1..n |->
                      [kept \in Seq(S) |->
                         IF q[i] \in R THEN kept ELSE Append(kept, q[i])]]
           Good == [i \in 0..n |-> Selected(q, R, S, i)]
<1>1. n \in Nat
  OBVIOUS
<1>2. << >> \in Good[0]
  <2>1. << >> \in Selected(q, R, S, 0)
    BY DEF Selected
  <2> QED
    BY <1>1, <2>1
<1>3. Leads(step, n, Good)
  <2> SUFFICES ASSUME NEW i \in 1..n, NEW kept \in Good[i - 1]
               PROVE  step[i][kept] \in Good[i]
    BY DEF Leads
  <2>1. i - 1 \in 0..n /\ i \in 0..n /\ 1..i = 1..(i - 1) \cup {i} /\ i \notin 1..(i - 1)
    BY <1>1
  <2>2. kept \in Selected(q, R, S, i - 1)
    BY <2>1
  <2>7. Good[i] = Selected(q, R, S, i)
    BY <2>1
  <2>2a. kept \in Seq(S) /\ Len(kept) <= i - 1
    BY <2>2 DEF Selected
  <2>2b. \A m \in 1..Len(kept) : \E k \in 1..(i - 1) : kept[m] = q[k] /\ q[k] \notin R
    BY <2>2 DEF Selected
  <2>2c. \A k \in 1..(i - 1) : q[k] \in R \/ \E m \in 1..Len(kept) : kept[m] = q[k]
    BY <2>2 DEF Selected
  <2>2d. \A m, l \in 1..Len(kept) : m # l =>
            \E j, k \in 1..(i - 1) : j # k /\ kept[m] = q[j] /\ kept[l] = q[k]
    BY <2>2 DEF Selected
  <2>3. q[i] \in S /\ Len(kept) \in Nat
    BY <1>1, <2>2a, <2>1, LenProperties, ElementOfSeq
  <2>4. step[i][kept] = IF q[i] \in R THEN kept ELSE Append(kept, q[i])
    BY <2>2a
  <2> HIDE DEF step, Good
  <2>5. CASE q[i] \in R
    <3>1. kept \in Selected(q, R, S, i)
      BY <2>1, <2>2a, <2>2b, <2>2c, <2>2d, <2>3, <2>5 DEF Selected
    <3> QED
      BY <2>4, <2>5, <2>7, <3>1
  <2>6. CASE q[i] \notin R
    <3> DEFINE longer == Append(kept, q[i])
               len == Len(kept)
    <3>1. longer \in Seq(S) /\ Len(longer) = len + 1
      BY <2>2a, <2>3, AppendProperties
    <3>1a. \A m \in 1..len : longer[m] = kept[m]
      BY <2>2a, <2>3, AppendProperties
    <3>1b. longer[len + 1] = q[i]
      BY <2>2a, <2>3, AppendProperties
    <3>2. /\ 1..(len + 1) = 1..len \cup {len + 1}
          /\ len + 1 \notin 1..len
      BY <2>3
    <3> HIDE DEF longer, len
    <3>3. \A m \in 1..(len + 1) : \E k \in 1..i : longer[m] = q[k] /\ q[k] \notin R
      BY <2>1, <2>2b, <2>6, <3>1a, <3>1b, <3>2 DEF len
    <3>4. \A k \in 1..i : q[k] \in R \/ \E m \in 1..(len + 1) : longer[m] = q[k]
      BY <2>1, <2>2c, <3>1a, <3>1b, <3>2 DEF len
    <3>8. 1..Len(longer) = 1..(len + 1)
      BY <3>1
    <3>5. ASSUME NEW m \in 1..Len(longer), NEW l \in 1..Len(longer), m # l
          PROVE  \E j, k \in 1..i : j # k /\ longer[m] = q[j] /\ longer[l] = q[k]
      <4>1. CASE m \in 1..len /\ l \in 1..len
        <5>1. PICK j \in 1..(i - 1), k \in 1..(i - 1) :
                 j # k /\ kept[m] = q[j] /\ kept[l] = q[k]
          BY <2>2d, <3>5, <4>1 DEF len
        <5>2. j \in 1..i /\ k \in 1..i /\ longer[m] = kept[m] /\ longer[l] = kept[l]
          BY <2>1, <3>1a, <4>1
        <5> QED
          BY <5>1, <5>2
      <4>2. CASE m = len + 1
        BY <2>1, <2>2b, <3>1a, <3>1b, <3>2, <3>5, <3>8, <4>2 DEF len
      <4>3. CASE l = len + 1
        BY <2>1, <2>2b, <3>1a, <3>1b, <3>2, <3>5, <3>8, <4>3 DEF len
      <4> QED
        BY <3>2, <3>8, <4>1, <4>2, <4>3
    <3>6. Len(longer) <= i
      BY <2>1, <2>2a, <2>3, <3>1 DEF len
    <3>9. \A m \in 1..Len(longer) : \E k \in 1..i : longer[m] = q[k] /\ q[k] \notin R
      BY <3>3, <3>8
    <3>10. \A k \in 1..i : q[k] \in R \/ \E m \in 1..Len(longer) : longer[m] = q[k]
      BY <3>4, <3>8
    <3>7. longer \in Selected(q, R, S, i)
      BY <3>1, <3>6, <3>9, <3>5, <3>10, Zenon DEF Selected
    <3> QED
      BY <2>4, <2>6, <2>7, <3>7 DEF longer
  <2> QED
    BY <2>5, <2>6
<1>4. Good[n] = Selected(q, R, S, n)
  BY <1>1
<1> HIDE DEF step, Good
<1>5. Iterate(step, << >>, n) \in Good[n]
  BY <1>1, <1>2, <1>3, IterateLeads
<1> QED
  BY <1>4, <1>5 DEF Without, step
==============================================================================
