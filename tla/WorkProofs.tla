----------------------------- MODULE WorkProofs -----------------------------
(***************************************************************************)
(* Components of the sum MCIntegration that find, offer and follow work:   *)
(* wakes, offers of work, pull requests, the catalog of the forge,         *)
(* problems and blueprint runs. Each lemma about a step is stated for the  *)
(* component alone, by its instance in the sum: its invariant, stated in   *)
(* the component's module, holds at first, every step of the component     *)
(* keeps it, and the action properties follow from it.                     *)
(***************************************************************************)
EXTENDS MCIntegration, Integers, IterationProofs, SequenceTheorems, FiniteSetTheorems, TLAPS

(* The greater and the smaller of two numbers.                               *)
LEMMA GreaterOfTwo ==
  ASSUME NEW a \in Int, NEW b \in Int
  PROVE  Wa!Max({a, b}) = IF a >= b THEN a ELSE b
<1>1. PICK m : m = IF a >= b THEN a ELSE b
  OBVIOUS
<1>2. m \in {a, b} /\ \A y \in {a, b} : m >= y
  BY <1>1
<1>3. Wa!Max({a, b}) \in {a, b} /\ \A y \in {a, b} : Wa!Max({a, b}) >= y
  BY <1>2 DEF Wa!Max
<1> QED
  BY <1>1, <1>3

(* The smaller of two numbers, as Min of the community modules defines it. *)
LEMMA SmallerOfTwo ==
  ASSUME NEW a \in Int, NEW b \in Int
  PROVE  Wa!Min({a, b}) = IF a <= b THEN a ELSE b
<1>1. PICK m : m = IF a <= b THEN a ELSE b
  OBVIOUS
<1>2. m \in {a, b} /\ \A y \in {a, b} : m <= y
  BY <1>1
<1>3. Wa!Min({a, b}) \in {a, b} /\ \A y \in {a, b} : Wa!Min({a, b}) <= y
  BY <1>2 DEF Wa!Min
<1> QED
  BY <1>1, <1>3

(* The doublings of one, as far as n of them.                                *)
Doublings(n, f) ==
    /\ f = [i \in 0..n |-> f[i]] /\ f[0] = 1
    /\ \A i \in 1..n : f[i] = 2 * f[i - 1]
    /\ \A i \in 0..n : f[i] \in Nat

(* There are doublings as far as any number.                                 *)
LEMMA DoublingsExist == \A n \in Nat : \E f : Doublings(n, f)
<1> SUFFICES ASSUME NEW n \in Nat PROVE \E f : Doublings(n, f)
  OBVIOUS
<1>1. PICK step : step = [i \in 1..n |-> [x \in Nat |-> 2 * x]]
  OBVIOUS
<1>2. PICK Good : Good = [i \in 0..n |-> Nat]
  OBVIOUS
<1>3. \A i \in 1..n : \A x \in Nat : step[i][x] = 2 * x /\ 2 * x \in Nat
  BY <1>1
<1>4. \A i \in 1..n : Good[i - 1] = Nat /\ Good[i] = Nat
  BY <1>2
<1>5. Leads(step, n, Good)
  BY <1>3, <1>4 DEF Leads
<1>6. 1 \in Good[0] /\ \A i \in 0..n : Good[i] = Nat
  BY <1>2
<1>7. PICK f : f = [i \in 0..n |-> f[i]] /\ Runs(f, step, 1, n) /\ \A i \in 0..n : f[i] \in Good[i]
  BY <1>5, <1>6, IntervalRecursion
<1>8. \A i \in 0..n : f[i] \in Nat
  BY <1>6, <1>7
<1>9. \A i \in 1..n : f[i] = 2 * f[i - 1]
  <2>1. SUFFICES ASSUME NEW i \in 1..n PROVE f[i] = 2 * f[i - 1]
    OBVIOUS
  <2>2. f[i] = step[i][f[i - 1]]
    BY <1>7 DEF Runs
  <2>3. f[i - 1] \in Nat
    BY <1>8
  <2> QED
    BY <2>2, <2>3, <1>3
<1>10. f[0] = 1
  BY <1>7 DEF Runs
<1> QED
  BY <1>7, <1>8, <1>9, <1>10, Zenon DEF Doublings

(* Any two doublings agree where both are defined.                           *)
LEMMA DoublingsAgree ==
  ASSUME NEW n \in Nat, NEW m \in Nat, NEW f, NEW g, Doublings(n, f), Doublings(m, g)
  PROVE  \A k \in Nat : k <= n /\ k <= m => f[k] = g[k]
<1>1. PICK S : S = {k \in Nat : k <= n /\ k <= m => f[k] = g[k]}
  OBVIOUS
<1>2. 0 \in S
  BY <1>1 DEF Doublings
<1>3. ASSUME NEW k \in Nat, k \in S PROVE k + 1 \in S
  <2>1. SUFFICES ASSUME k + 1 <= n, k + 1 <= m PROVE f[k + 1] = g[k + 1]
    BY <1>1
  <2>2. f[k] = g[k]
    BY <1>1, <1>3, <2>1
  <2>3. k + 1 \in 1..n /\ k + 1 \in 1..m /\ (k + 1) - 1 = k
    BY <2>1
  <2>4. f[k + 1] = 2 * f[k]
    BY <2>3 DEF Doublings
  <2>5. g[k + 1] = 2 * g[k]
    BY <2>3 DEF Doublings
  <2> QED
    BY <2>2, <2>4, <2>5
<1>4. Nat \subseteq S
  BY <1>2, <1>3, SetInduction
<1> QED
  BY <1>1, <1>4

(* The powers of two double.                                                 *)
LEMMA PowersDouble ==
  /\ Wa!PowerOfTwo[0] = 1 /\ \A n \in Nat : Wa!PowerOfTwo[n] \in Nat
  /\ \A n \in Nat : Wa!PowerOfTwo[n + 1] = 2 * Wa!PowerOfTwo[n]
<1>1. PICK d : d = [n \in Nat |-> CHOOSE f : Doublings(n, f)]
  OBVIOUS
<1>2. \A n \in Nat : Doublings(n, d[n])
  <2>1. SUFFICES ASSUME NEW n \in Nat PROVE Doublings(n, d[n])
    OBVIOUS
  <2>2. \E f : Doublings(n, f)
    BY DoublingsExist
  <2>3. Doublings(n, CHOOSE f : Doublings(n, f))
    BY <2>2, Zenon
  <2> QED
    BY <1>1, <2>3
<1>3. PICK h : h = [n \in Nat |-> d[n][n]]
  OBVIOUS
<1>4. \A n \in Nat : h[n] = d[n][n] /\ h[n] \in Nat
  <2>1. SUFFICES ASSUME NEW n \in Nat PROVE h[n] = d[n][n] /\ h[n] \in Nat
    OBVIOUS
  <2>2. \A i \in 0..n : d[n][i] \in Nat
    BY <1>2, Zenon DEF Doublings
  <2>3. n \in 0..n
    OBVIOUS
  <2> QED
    BY <1>3, <2>2, <2>3
<1>5. h[0] = 1
  BY <1>2, <1>4 DEF Doublings
<1>6. ASSUME NEW n \in Nat, n # 0 PROVE h[n] = 2 * h[n - 1]
  <2>1. n - 1 \in Nat /\ n \in 1..n /\ n - 1 <= n
    BY <1>6
  <2>2. h[n] = 2 * d[n][n - 1]
    BY <1>2, <1>4, <2>1 DEF Doublings
  <2>3. d[n][n - 1] = d[n - 1][n - 1]
    <3>1. Doublings(n, d[n]) /\ Doublings(n - 1, d[n - 1])
      BY <1>2, <2>1
    <3> QED
      BY <2>1, <3>1, DoublingsAgree
  <2> QED
    BY <1>4, <2>1, <2>2, <2>3
<1>7. h = [n \in Nat |-> IF n = 0 THEN 1 ELSE 2 * h[n - 1]]
  <2>1. \A n \in Nat : h[n] = IF n = 0 THEN 1 ELSE 2 * h[n - 1]
    BY <1>5, <1>6
  <2>2. h = [n \in Nat |-> h[n]]
    BY <1>3
  <2> QED
    BY <2>1, <2>2
<1>8. Wa!PowerOfTwo = [n \in Nat |-> IF n = 0 THEN 1 ELSE 2 * Wa!PowerOfTwo[n - 1]]
  <2>1. \E f : f = [n \in Nat |-> IF n = 0 THEN 1 ELSE 2 * f[n - 1]]
    BY <1>7
  <2> QED
    BY <2>1, Zenon DEF Wa!PowerOfTwo
<1>9. /\ Wa!PowerOfTwo[0] = 1
      /\ \A n \in Nat : Wa!PowerOfTwo[n + 1] = 2 * Wa!PowerOfTwo[n]
  <2>1. PICK p : p = Wa!PowerOfTwo
    OBVIOUS
  <2>2. \A n \in Nat : p[n] = IF n = 0 THEN 1 ELSE 2 * p[n - 1]
    BY <1>8, <2>1, SMT
  <2>3. p[0] = 1 /\ \A n \in Nat : p[n + 1] = 2 * p[n]
    <3>1. \A n \in Nat : n + 1 \in Nat /\ n + 1 # 0 /\ (n + 1) - 1 = n
      OBVIOUS
    <3> QED
      BY <2>2, <3>1
  <2> QED
    BY <2>1, <2>3
<1>10. \A n \in Nat : Wa!PowerOfTwo[n] \in Nat
  <2>1. PICK S : S = {n \in Nat : Wa!PowerOfTwo[n] \in Nat}
    OBVIOUS
  <2>2. 0 \in S
    BY <1>9, <2>1
  <2>3. ASSUME NEW n \in Nat, n \in S PROVE n + 1 \in S
    BY <1>9, <2>1, <2>3
  <2>4. Nat \subseteq S
    BY <2>2, <2>3, SetInduction
  <2> QED
    BY <2>1, <2>4
<1> QED
  BY <1>9, <1>10

(* The delay grows with the steps and is a number of windows.                *)
LEMMA DelaysGrow ==
  /\ \A a \in Int : Wa!Doubled(a) \in Nat /\ Wa!Doubled(a) <= WakeCeiling
  /\ \A a, b \in Int : a <= b => Wa!Doubled(a) <= Wa!Doubled(b)
<1> USE IntegrationAssumption
<1>1. PICK p : p = Wa!PowerOfTwo
  OBVIOUS
<1>2. p[0] = 1 /\ (\A n \in Nat : p[n] \in Nat) /\ \A n \in Nat : p[n + 1] = 2 * p[n]
  BY <1>1, PowersDouble
<1>3. \A b \in Nat : \A a \in 0..b : p[a] <= p[b]
  <2>1. PICK S : S = {b \in Nat : \A a \in 0..b : p[a] <= p[b]}
    OBVIOUS
  <2>2. 0 \in S
    BY <1>2, <2>1
  <2>3. ASSUME NEW b \in Nat, b \in S PROVE b + 1 \in S
    <3>1. SUFFICES ASSUME NEW a \in 0..(b + 1) PROVE p[a] <= p[b + 1]
      BY <2>1
    <3>2. CASE a = b + 1
      BY <1>2, <3>2
    <3>3. CASE a # b + 1
      <4>1. a \in 0..b
        BY <3>3
      <4>2. p[a] <= p[b] /\ p[b] \in Nat /\ p[b + 1] = 2 * p[b] /\ p[a] \in Nat
        BY <1>2, <2>1, <2>3, <4>1
      <4> QED
        BY <4>2
    <3> QED
      BY <3>2, <3>3
  <2>4. Nat \subseteq S
    BY <2>2, <2>3, SetInduction
  <2> QED
    BY <2>1, <2>4
<1>4. ASSUME NEW a \in Int
      PROVE  \E n \in Nat : /\ n = (IF a >= 0 THEN a ELSE 0)
                            /\ Wa!Doubled(a) = IF p[n] <= WakeCeiling THEN p[n] ELSE WakeCeiling
  <2>1. PICK n : n = Wa!Max({a, 0})
    OBVIOUS
  <2>2. n = (IF a >= 0 THEN a ELSE 0) /\ n \in Nat
    BY <2>1, GreaterOfTwo
  <2>3. PICK v : v = p[n]
    OBVIOUS
  <2>4. v \in Nat /\ WakeCeiling \in Int
    BY <1>2, <2>2, <2>3
  <2>5. Wa!Min({v, WakeCeiling}) = IF v <= WakeCeiling THEN v ELSE WakeCeiling
    BY <2>4, SmallerOfTwo
  <2>6. Wa!Doubled(a) = Wa!Min({v, WakeCeiling})
    BY <1>1, <2>1, <2>3, Zenon DEF Wa!Doubled
  <2> QED
    BY <2>2, <2>3, <2>5, <2>6
<1>5. ASSUME NEW a \in Int PROVE Wa!Doubled(a) \in Nat /\ Wa!Doubled(a) <= WakeCeiling
  BY <1>2, <1>4
<1>6. ASSUME NEW a \in Int, NEW b \in Int, a <= b PROVE Wa!Doubled(a) <= Wa!Doubled(b)
  <2>1. PICK n \in Nat : n = (IF a >= 0 THEN a ELSE 0)
            /\ Wa!Doubled(a) = IF p[n] <= WakeCeiling THEN p[n] ELSE WakeCeiling
    BY <1>4
  <2>2. PICK m \in Nat : m = (IF b >= 0 THEN b ELSE 0)
            /\ Wa!Doubled(b) = IF p[m] <= WakeCeiling THEN p[m] ELSE WakeCeiling
    BY <1>4
  <2>3. n \in 0..m
    BY <1>6, <2>1, <2>2
  <2>4. p[n] <= p[m] /\ p[n] \in Nat /\ p[m] \in Nat
    BY <1>2, <1>3, <2>3
  <2> QED
    BY <2>1, <2>2, <2>4
<1> QED
  BY <1>5, <1>6

(* Clearing a block leaves what was counted, and about what.                 *)
LEMMA ClearingKeepsTheCount ==
  ASSUME NEW r \in Wa!WakeRows
  PROVE  /\ Wa!Cleared(r) \in Wa!WakeRows
         /\ Wa!Cleared(r).at = r.at /\ Wa!Cleared(r).attempts = r.attempts
         /\ Wa!Cleared(r).mail = r.mail /\ Wa!Cleared(r).work = r.work
         /\ Wa!Cleared(r).marker = r.marker /\ Wa!Cleared(r).result = r.result
<1> USE IntegrationAssumption
<1>1. PICK c : c = Wa!Cleared(r)
  OBVIOUS
<1>2. c = r \/ c = [r EXCEPT !.blocked = "", !.escalated = FALSE, !.exhausted = FALSE]
  BY <1>1, Zenon DEF Wa!Cleared
<1>3. c \in Wa!WakeRows /\ c.at = r.at /\ c.attempts = r.attempts /\ c.mail = r.mail
      /\ c.work = r.work /\ c.marker = r.marker /\ c.result = r.result
  BY <1>2, ZenonT(40) DEF Wa!WakeRows
<1> QED
  BY <1>1, <1>3

(* What the poll takes the attempts to be, and from when it spaces the next. *)
LEMMA AttemptsAreRead ==
  ASSUME NEW r \in Wa!WakeRows, s7 \in Wa!Dispatches
  PROVE  /\ Wa!Attempts(r) \in Nat /\ Wa!Throttle(r) \in Int
         /\ Wa!Worked(r) => Wa!Attempts(r) = 0
         /\ Wa!Same(r) => Wa!Throttle(r) >= r.at
         /\ Wa!Same(r) /\ ~Wa!Worked(r) => Wa!Attempts(r) >= r.attempts
         /\ Wa!Wanted(r) # 0 /\ ~Wa!Worked(r) => Wa!Attempts(r) >= s7.attempts
<1> USE IntegrationAssumption
<1>1. PICK o : o = IF Wa!Same(r) /\ ~Wa!Worked(r) THEN r.attempts ELSE 0
  OBVIOUS
<1>2. PICK t : t = IF Wa!Same(r) THEN r.at ELSE Wa!LongAgo
  OBVIOUS
<1>3. /\ r.attempts \in Nat /\ r.at \in Int /\ s7.attempts \in Nat /\ s7.at \in Nat
      /\ Wa!LongAgo \in Int
  <2>1. r.attempts \in Nat /\ r.at \in Int /\ s7.attempts \in Nat /\ s7.at \in Nat
    BY DEF Wa!WakeRows, Wa!Dispatches
  <2>2. Wa!LongAgo \in Int
    <3>1. -WakeCeiling \in Int
      OBVIOUS
    <3> QED
      BY <3>1, Zenon DEF Wa!LongAgo
  <2> QED
    BY <2>1, <2>2
<1>4. o \in Nat /\ t \in Int
  BY <1>1, <1>2, <1>3
<1>5. /\ Wa!Max({o, s7.attempts}) = IF o >= s7.attempts THEN o ELSE s7.attempts
      /\ Wa!Max({t, s7.at}) = IF t >= s7.at THEN t ELSE s7.at
  <2>1. o \in Int /\ t \in Int /\ s7.attempts \in Int /\ s7.at \in Int
    BY <1>3, <1>4
  <2>2. Wa!Max({o, s7.attempts}) = IF o >= s7.attempts THEN o ELSE s7.attempts
    BY <2>1, GreaterOfTwo
  <2>3. Wa!Max({t, s7.at}) = IF t >= s7.at THEN t ELSE s7.at
    BY <2>1, GreaterOfTwo
  <2> QED
    BY <2>2, <2>3
<1>6. Wa!Attempts(r) = IF Wa!Wanted(r) # 0 /\ ~Wa!Worked(r) THEN Wa!Max({o, s7.attempts}) ELSE o
  BY <1>1, Zenon DEF Wa!Attempts
<1>7. Wa!Throttle(r) = IF Wa!Wanted(r) # 0 /\ s7.attempts > 0 THEN Wa!Max({t, s7.at}) ELSE t
  BY <1>2, Zenon DEF Wa!Throttle
<1>8. Wa!Attempts(r) \in Nat /\ Wa!Throttle(r) \in Int
  BY <1>3, <1>4, <1>5, <1>6, <1>7
<1>9. Wa!Worked(r) => Wa!Attempts(r) = 0
  BY <1>1, <1>6
<1>10. Wa!Same(r) => Wa!Throttle(r) >= r.at
  BY <1>2, <1>3, <1>5, <1>7
<1>11. Wa!Same(r) /\ ~Wa!Worked(r) => Wa!Attempts(r) >= r.attempts
  BY <1>1, <1>3, <1>5, <1>6
<1>12. Wa!Wanted(r) # 0 /\ ~Wa!Worked(r) => Wa!Attempts(r) >= s7.attempts
  BY <1>3, <1>4, <1>5, <1>6
<1> QED
  BY <1>8, <1>9, <1>10, <1>11, <1>12, Zenon

(* What the poll decides of the row: progress starts the count anew.         *)
LEMMA DecidedRow ==
  ASSUME NEW r \in Wa!WakeRows, s8 \in 0..MaxProgress
  PROVE  /\ Wa!Decided(r) \in Wa!WakeRows
         /\ Wa!Decided(r).at = r.at /\ Wa!Decided(r).mail = r.mail
         /\ Wa!Decided(r).work = r.work
         /\ Wa!Worked(r) => Wa!Decided(r).marker = s8
         /\ ~Wa!Worked(r) => /\ Wa!Decided(r).marker = r.marker
                             /\ Wa!Decided(r).attempts = r.attempts
<1> USE IntegrationAssumption
<1>1. PICK e : e = IF Wa!Worked(r)
                   THEN [r EXCEPT !.attempts = 0, !.marker = s8, !.blocked = "",
                                  !.escalated = FALSE, !.exhausted = FALSE]
                   ELSE r
  OBVIOUS
<1>2. /\ e \in Wa!WakeRows /\ e.at = r.at /\ e.mail = r.mail /\ e.work = r.work
      /\ Wa!Worked(r) => e.marker = s8
      /\ ~Wa!Worked(r) => e.marker = r.marker /\ e.attempts = r.attempts
  <2>1. CASE Wa!Worked(r)
    <3>1. e = [r EXCEPT !.attempts = 0, !.marker = s8, !.blocked = "",
                        !.escalated = FALSE, !.exhausted = FALSE]
      BY <1>1, <2>1
    <3>2. s8 \in -1..MaxProgress
      OBVIOUS
    <3>3. e \in Wa!WakeRows /\ e.at = r.at /\ e.mail = r.mail /\ e.work = r.work /\ e.marker = s8
      BY <3>1, <3>2 DEF Wa!WakeRows
    <3> QED
      BY <2>1, <3>3
  <2>2. CASE ~Wa!Worked(r)
    BY <1>1, <2>2
  <2> QED
    BY <2>1, <2>2
<1>3. PICK a \in BOOLEAN, b \in BOOLEAN :
         Wa!Decided(r) = [e EXCEPT !.exhausted = a, !.escalated = b]
  <2>1. e.exhausted \in BOOLEAN /\ e.escalated \in BOOLEAN
    BY <1>2 DEF Wa!WakeRows
  <2>2. PICK a \in BOOLEAN : a = (e.exhausted \/ Wa!Attempts(r) >= WakeAttempts)
    OBVIOUS
  <2>3. PICK b \in BOOLEAN :
           b = (e.escalated \/ (Wa!Attempts(r) >= WakeAttempts /\ Wa!Wanted(r) # 0))
    OBVIOUS
  <2>4. Wa!Decided(r) = [e EXCEPT !.exhausted = (@ \/ Wa!Attempts(r) >= WakeAttempts),
                                  !.escalated = (@ \/ (Wa!Attempts(r) >= WakeAttempts
                                                        /\ Wa!Wanted(r) # 0))]
    BY <1>1, Zenon DEF Wa!Decided
  <2> QED
    BY <2>2, <2>3, <2>4, Zenon
<1>4. PICK d : d = Wa!Decided(r)
  OBVIOUS
<1>5. /\ d \in Wa!WakeRows /\ d.at = e.at /\ d.mail = e.mail /\ d.work = e.work
      /\ d.marker = e.marker /\ d.attempts = e.attempts
  BY <1>2, <1>3, <1>4 DEF Wa!WakeRows
<1> QED
  BY <1>2, <1>4, <1>5

(* What it decides of the offer's file: nothing, a fresh start, or the end.  *)
LEMMA DecidedFile ==
  ASSUME NEW r \in Wa!WakeRows, s7 \in Wa!Dispatches, s1 \in Nat
  PROVE  /\ Wa!DecidedDispatch(r) \in Wa!Dispatches
         /\ \/ Wa!DecidedDispatch(r) = s7
            \/ Wa!DecidedDispatch(r) = Wa!NoDispatch /\ Wa!Worked(r) /\ Wa!Wanted(r) # 0
            \/ Wa!DecidedDispatch(r).state = "escalated" /\ Wa!Wanted(r) # 0
         /\ Wa!Wanted(r) = 0 => Wa!DecidedDispatch(r) = s7
         /\ Wa!Wanted(r) # 0 /\ Wa!Attempts(r) >= WakeAttempts =>
               Wa!DecidedDispatch(r).state = "escalated"
<1> USE IntegrationAssumption
<1>1. Wa!NoDispatch \in Wa!Dispatches
  BY DEF Wa!NoDispatch, Wa!Dispatches
<1>2. PICK e : e = IF Wa!Worked(r) /\ Wa!Wanted(r) # 0 THEN Wa!NoDispatch ELSE s7
  OBVIOUS
<1>3. PICK n : n = Wa!Attempts(r)
  OBVIOUS
<1>4. n \in Nat
  BY <1>3, AttemptsAreRead
<1>5. PICK d : d = Wa!DecidedDispatch(r)
  OBVIOUS
<1>6. d = IF Wa!Wanted(r) # 0 /\ n >= WakeAttempts /\ e.state # "escalated"
          THEN [state |-> "escalated", attempts |-> n, at |-> s1] ELSE e
  BY <1>2, <1>3, <1>5, Zenon DEF Wa!DecidedDispatch
<1>7. PICK f : f = [state |-> "escalated", attempts |-> n, at |-> s1]
  OBVIOUS
<1>8. f \in Wa!Dispatches /\ f.state = "escalated"
  BY <1>4, <1>7 DEF Wa!Dispatches
<1>9. d = IF Wa!Wanted(r) # 0 /\ n >= WakeAttempts /\ e.state # "escalated" THEN f ELSE e
  BY <1>6, <1>7, Zenon
<1>10. d \in Wa!Dispatches
  BY <1>1, <1>2, <1>8, <1>9
<1>11. \/ d = s7
       \/ d = Wa!NoDispatch /\ Wa!Worked(r) /\ Wa!Wanted(r) # 0
       \/ d.state = "escalated" /\ Wa!Wanted(r) # 0
  BY <1>2, <1>8, <1>9
<1>12. Wa!Wanted(r) = 0 => d = s7
  BY <1>2, <1>9
<1>13. Wa!Wanted(r) # 0 /\ n >= WakeAttempts => d.state = "escalated"
  BY <1>8, <1>9
<1> QED
  BY <1>3, <1>5, <1>10, <1>11, <1>12, <1>13, Zenon

(* A wake that asks nothing of the offer is one of an offer the poll gave up. *)
LEMMA WantedOrGivenUp ==
  ASSUME NEW r
  PROVE  /\ Wa!Wanted(r) = 0 \/ Wa!Wanted(r) = s5
         /\ Wa!Wanted(r) # 0 => Wa!Wanted(r) = s5 /\ (Wa!Worked(r) \/ s7.state # "escalated")
         /\ Wa!Wanted(r) = 0 => s5 = 0 \/ (s7.state = "escalated" /\ ~Wa!Worked(r))
BY Zenon DEF Wa!Wanted

(* Every step around and of the waker keeps this, and backs off.             *)
LEMMA WakesStep ==
  ASSUME Wa!WakesInv, Wa!WakesNext
  PROVE  Wa!WakesInv' /\ Wa!PromptsBackOffStep
<1> USE IntegrationAssumption
<1>1. /\ Wa!TimeShape
      /\ Wa!ConditionShape
      /\ Wa!UnreadShape
      /\ Wa!OfferShape
      /\ Wa!DispatchShape
      /\ Wa!ProgressShape
      /\ Wa!RowShape
      /\ Wa!CountShape
      /\ Wa!StreakIsPast
      /\ Wa!NothingToAskFor
      /\ Wa!DispatchCounts
      /\ Wa!ProgressIsFresh
      /\ Wa!RowCountsTheStreak
      /\ Wa!OfferPromptsAreBounded
  BY DEF Wa!WakesInv
<1>2. ASSUME Wa!Pass
      PROVE  Wa!WakesInv' /\ Wa!PromptsBackOffStep
  <2>1. /\ s2' = s2 /\ s3' = s3 /\ s4' = s4 /\ s5' = s5 /\ s6' = s6 /\ s7' = s7
        /\ s8' = s8 /\ s9' = s9 /\ s10' = s10 /\ s11' = s11
    BY <1>2, Zenon DEF Wa!Pass
  <2>2. s1' = s1 + 1
    BY <1>2, Zenon DEF Wa!Pass
  <2>3. /\ s1 \in Nat /\ s7 \in Wa!Dispatches /\ s8 \in 0..MaxProgress /\ s9 \in Wa!WakeRows
        /\ s10 \in Nat /\ s11.count \in Nat /\ s11.at \in Nat /\ s4 \in SUBSET WakeMail
        /\ s5 \in 0..MaxWakeOffers /\ s6 \in 0..MaxWakeOffers
    <3>1. /\ s1 \in 0..MaxWindows /\ s7 \in Wa!Dispatches /\ s8 \in 0..MaxProgress /\ s9 \in Wa!WakeRows
          /\ s10 \in Nat /\ s11 \in [count : Nat, at : Nat] /\ s4 \in SUBSET WakeMail
          /\ s5 \in 0..MaxWakeOffers /\ s6 \in 0..MaxWakeOffers
      BY <1>1, Zenon DEF Wa!TimeShape, Wa!DispatchShape, Wa!ProgressShape, Wa!RowShape, Wa!CountShape, Wa!UnreadShape, Wa!OfferShape
    <3> QED
      BY <3>1
  <2>4. s1' \in 0..MaxWindows
    <3>1. s1 < MaxWindows /\ s1' = s1 + 1
      BY <1>2, Zenon DEF Wa!Pass
    <3> QED
      BY <3>1, <2>3
  <2>5. Wa!ConditionShape' /\ Wa!UnreadShape' /\ Wa!OfferShape'
    BY <1>1, <2>1, Zenon DEF Wa!ConditionShape, Wa!UnreadShape, Wa!OfferShape
  <2>6. Wa!DispatchShape' /\ Wa!ProgressShape' /\ Wa!RowShape'
    BY <1>1, <2>1, Zenon DEF Wa!DispatchShape, Wa!ProgressShape, Wa!RowShape
  <2>7. Wa!CountShape' /\ Wa!NothingToAskFor' /\ Wa!DispatchCounts'
    BY <1>1, <2>1, Zenon DEF Wa!CountShape, Wa!NothingToAskFor, Wa!DispatchCounts
  <2>8. Wa!ProgressIsFresh' /\ Wa!RowCountsTheStreak' /\ Wa!OfferPromptsAreBounded'
    BY <1>1, <2>1, Zenon DEF Wa!ProgressIsFresh, Wa!Worked, Wa!RowCountsTheStreak, Wa!Same,
       Wa!OfferPromptsAreBounded
  <2>9. Wa!TimeShape'
    BY <2>4 DEF Wa!TimeShape
  <2>10. Wa!StreakIsPast'
    BY <1>1, <2>1, <2>2, <2>3 DEF Wa!StreakIsPast
  <2>11. Wa!PromptsBackOffStep
    BY <1>1, <2>1 DEF Wa!PromptsBackOffStep, Wa!CountShape
  <2> QED
    BY <2>5, <2>6, <2>7, <2>8, <2>9, <2>10, <2>11 DEF Wa!WakesInv
<1>3. ASSUME NEW d \in Wa!Conditions, Wa!Become(d)
      PROVE  Wa!WakesInv' /\ Wa!PromptsBackOffStep
  <2>1. /\ s1' = s1 /\ s3' = s3 /\ s4' = s4 /\ s5' = s5 /\ s6' = s6 /\ s7' = s7
        /\ s8' = s8 /\ s9' = s9 /\ s10' = s10 /\ s11' = s11
    BY <1>3, Zenon DEF Wa!Become
  <2>2. s2' = d
    BY <1>3, Zenon DEF Wa!Become
  <2>3. Wa!TimeShape' /\ Wa!UnreadShape' /\ Wa!OfferShape'
    BY <1>1, <2>1, Zenon DEF Wa!TimeShape, Wa!UnreadShape, Wa!OfferShape
  <2>4. Wa!DispatchShape' /\ Wa!ProgressShape' /\ Wa!RowShape'
    BY <1>1, <2>1, Zenon DEF Wa!DispatchShape, Wa!ProgressShape, Wa!RowShape
  <2>5. Wa!CountShape' /\ Wa!StreakIsPast' /\ Wa!NothingToAskFor'
    BY <1>1, <2>1, Zenon DEF Wa!CountShape, Wa!StreakIsPast, Wa!NothingToAskFor
  <2>6. Wa!DispatchCounts' /\ Wa!ProgressIsFresh' /\ Wa!RowCountsTheStreak'
    BY <1>1, <2>1, Zenon DEF Wa!DispatchCounts, Wa!ProgressIsFresh, Wa!Worked,
       Wa!RowCountsTheStreak, Wa!Same
  <2>7. Wa!OfferPromptsAreBounded'
    BY <1>1, <2>1, Zenon DEF Wa!OfferPromptsAreBounded
  <2>8. Wa!ConditionShape'
    BY <2>2 DEF Wa!ConditionShape
  <2>9. Wa!PromptsBackOffStep
    BY <1>1, <2>1 DEF Wa!PromptsBackOffStep, Wa!CountShape
  <2> QED
    BY <2>3, <2>4, <2>5, <2>6, <2>7, <2>8, <2>9 DEF Wa!WakesInv
<1>4. ASSUME NEW m \in WakeMail, Wa!MailComes(m)
      PROVE  Wa!WakesInv' /\ Wa!PromptsBackOffStep
  <2>1. /\ s1' = s1 /\ s2' = s2 /\ s3' = s3 /\ s5' = s5 /\ s6' = s6 /\ s7' = s7
        /\ s8' = s8 /\ s9' = s9 /\ s10' = s10
    BY <1>4, Zenon DEF Wa!MailComes
  <2>2. s4' = s4 \cup {m}
    BY <1>4, Zenon DEF Wa!MailComes
  <2>3. /\ s1 \in Nat /\ s7 \in Wa!Dispatches /\ s8 \in 0..MaxProgress /\ s9 \in Wa!WakeRows
        /\ s10 \in Nat /\ s11.count \in Nat /\ s11.at \in Nat /\ s4 \in SUBSET WakeMail
        /\ s5 \in 0..MaxWakeOffers /\ s6 \in 0..MaxWakeOffers
    <3>1. /\ s1 \in 0..MaxWindows /\ s7 \in Wa!Dispatches /\ s8 \in 0..MaxProgress /\ s9 \in Wa!WakeRows
          /\ s10 \in Nat /\ s11 \in [count : Nat, at : Nat] /\ s4 \in SUBSET WakeMail
          /\ s5 \in 0..MaxWakeOffers /\ s6 \in 0..MaxWakeOffers
      BY <1>1, Zenon DEF Wa!TimeShape, Wa!DispatchShape, Wa!ProgressShape, Wa!RowShape, Wa!CountShape, Wa!UnreadShape, Wa!OfferShape
    <3> QED
      BY <3>1
  <2>4. s11' = [count |-> 0, at |-> s1] /\ s11'.count = 0 /\ s11'.at = s1
    <3>1. s11' = [count |-> 0, at |-> s1]
      BY <1>4, Zenon DEF Wa!MailComes, Wa!Fresh
    <3> QED
      BY <3>1
  <2>5. Wa!TimeShape' /\ Wa!ConditionShape' /\ Wa!OfferShape'
    BY <1>1, <2>1, Zenon DEF Wa!TimeShape, Wa!ConditionShape, Wa!OfferShape
  <2>6. Wa!DispatchShape' /\ Wa!ProgressShape' /\ Wa!RowShape'
    BY <1>1, <2>1, Zenon DEF Wa!DispatchShape, Wa!ProgressShape, Wa!RowShape
  <2>7. Wa!NothingToAskFor' /\ Wa!DispatchCounts' /\ Wa!OfferPromptsAreBounded'
    BY <1>1, <2>1, Zenon DEF Wa!NothingToAskFor, Wa!DispatchCounts, Wa!OfferPromptsAreBounded
  <2>8. Wa!UnreadShape'
    BY <2>2, <2>3 DEF Wa!UnreadShape
  <2>9. Wa!CountShape'
    <3>1. s11' \in [count : Nat, at : Nat]
      BY <2>4, <2>3
    <3> QED
      BY <1>4, <2>1, <2>3, <3>1 DEF Wa!CountShape
  <2>10. Wa!StreakIsPast'
    BY <2>1, <2>4, <2>3 DEF Wa!StreakIsPast
  <2>11. Wa!ProgressIsFresh'
    BY <1>1, <2>1, <2>4 DEF Wa!ProgressIsFresh, Wa!Worked
  <2>12. Wa!RowCountsTheStreak'
    BY <2>4 DEF Wa!RowCountsTheStreak
  <2>13. Wa!PromptsBackOffStep
    BY <2>4, <2>3 DEF Wa!PromptsBackOffStep
  <2> QED
    BY <2>5, <2>6, <2>7, <2>8, <2>9, <2>10, <2>11, <2>12, <2>13 DEF Wa!WakesInv
<1>5. ASSUME NEW m \in WakeMail, Wa!Answers(m)
      PROVE  Wa!WakesInv' /\ Wa!PromptsBackOffStep
  <2>1. /\ s1' = s1 /\ s2' = s2 /\ s3' = s3 /\ s5' = s5 /\ s6' = s6 /\ s7' = s7
        /\ s8' = s8 /\ s9' = s9 /\ s10' = s10
    BY <1>5, Zenon DEF Wa!Answers
  <2>2. s4' = s4 \ {m}
    BY <1>5, Zenon DEF Wa!Answers
  <2>3. /\ s1 \in Nat /\ s7 \in Wa!Dispatches /\ s8 \in 0..MaxProgress /\ s9 \in Wa!WakeRows
        /\ s10 \in Nat /\ s11.count \in Nat /\ s11.at \in Nat /\ s4 \in SUBSET WakeMail
        /\ s5 \in 0..MaxWakeOffers /\ s6 \in 0..MaxWakeOffers
    <3>1. /\ s1 \in 0..MaxWindows /\ s7 \in Wa!Dispatches /\ s8 \in 0..MaxProgress /\ s9 \in Wa!WakeRows
          /\ s10 \in Nat /\ s11 \in [count : Nat, at : Nat] /\ s4 \in SUBSET WakeMail
          /\ s5 \in 0..MaxWakeOffers /\ s6 \in 0..MaxWakeOffers
      BY <1>1, Zenon DEF Wa!TimeShape, Wa!DispatchShape, Wa!ProgressShape, Wa!RowShape, Wa!CountShape, Wa!UnreadShape, Wa!OfferShape
    <3> QED
      BY <3>1
  <2>4. s11' = [count |-> 0, at |-> s1] /\ s11'.count = 0 /\ s11'.at = s1
    <3>1. s11' = [count |-> 0, at |-> s1]
      BY <1>5, Zenon DEF Wa!Answers, Wa!Fresh
    <3> QED
      BY <3>1
  <2>5. Wa!TimeShape' /\ Wa!ConditionShape' /\ Wa!OfferShape'
    BY <1>1, <2>1, Zenon DEF Wa!TimeShape, Wa!ConditionShape, Wa!OfferShape
  <2>6. Wa!DispatchShape' /\ Wa!ProgressShape' /\ Wa!RowShape'
    BY <1>1, <2>1, Zenon DEF Wa!DispatchShape, Wa!ProgressShape, Wa!RowShape
  <2>7. Wa!NothingToAskFor' /\ Wa!DispatchCounts' /\ Wa!OfferPromptsAreBounded'
    BY <1>1, <2>1, Zenon DEF Wa!NothingToAskFor, Wa!DispatchCounts, Wa!OfferPromptsAreBounded
  <2>8. Wa!UnreadShape'
    BY <2>2, <2>3 DEF Wa!UnreadShape
  <2>9. Wa!CountShape'
    <3>1. s11' \in [count : Nat, at : Nat]
      BY <2>4, <2>3
    <3> QED
      BY <1>5, <2>1, <2>3, <3>1 DEF Wa!CountShape
  <2>10. Wa!StreakIsPast'
    BY <2>1, <2>4, <2>3 DEF Wa!StreakIsPast
  <2>11. Wa!ProgressIsFresh'
    BY <1>1, <2>1, <2>4 DEF Wa!ProgressIsFresh, Wa!Worked
  <2>12. Wa!RowCountsTheStreak'
    BY <2>4 DEF Wa!RowCountsTheStreak
  <2>13. Wa!PromptsBackOffStep
    BY <2>4, <2>3 DEF Wa!PromptsBackOffStep
  <2> QED
    BY <2>5, <2>6, <2>7, <2>8, <2>9, <2>10, <2>11, <2>12, <2>13 DEF Wa!WakesInv
<1>6. ASSUME Wa!Publish
      PROVE  Wa!WakesInv' /\ Wa!PromptsBackOffStep
  <2>1. s1' = s1 /\ s2' = s2 /\ s3' = s3 /\ s4' = s4 /\ s8' = s8 /\ s9' = s9
    BY <1>6, Zenon DEF Wa!Publish
  <2>2. /\ s5' = s6 + 1
        /\ s6' = s6 + 1
        /\ s7' = Wa!NoDispatch
        /\ s10' = 0
    BY <1>6, Zenon DEF Wa!Publish
  <2>3. /\ s1 \in Nat /\ s7 \in Wa!Dispatches /\ s8 \in 0..MaxProgress /\ s9 \in Wa!WakeRows
        /\ s10 \in Nat /\ s11.count \in Nat /\ s11.at \in Nat /\ s4 \in SUBSET WakeMail
        /\ s5 \in 0..MaxWakeOffers /\ s6 \in 0..MaxWakeOffers
    <3>1. /\ s1 \in 0..MaxWindows /\ s7 \in Wa!Dispatches /\ s8 \in 0..MaxProgress /\ s9 \in Wa!WakeRows
          /\ s10 \in Nat /\ s11 \in [count : Nat, at : Nat] /\ s4 \in SUBSET WakeMail
          /\ s5 \in 0..MaxWakeOffers /\ s6 \in 0..MaxWakeOffers
      BY <1>1, Zenon DEF Wa!TimeShape, Wa!DispatchShape, Wa!ProgressShape, Wa!RowShape, Wa!CountShape, Wa!UnreadShape, Wa!OfferShape
    <3> QED
      BY <3>1
  <2>4. s11' = [count |-> 0, at |-> s1] /\ s11'.count = 0 /\ s11'.at = s1
    <3>1. s11' = [count |-> 0, at |-> s1]
      BY <1>6, Zenon DEF Wa!Publish, Wa!Fresh
    <3> QED
      BY <3>1
  <2>5. /\ Wa!NoDispatch \in Wa!Dispatches /\ Wa!NoDispatch.attempts = 0
    BY DEF Wa!NoDispatch, Wa!Dispatches
  <2>6. s6 + 1 \in 0..MaxWakeOffers /\ s6 + 1 # 0
    <3>1. s6 < MaxWakeOffers
      BY <1>6, Zenon DEF Wa!Publish
    <3> QED
      BY <3>1, <2>3
  <2>7. Wa!TimeShape' /\ Wa!ConditionShape' /\ Wa!UnreadShape'
    BY <1>1, <2>1, Zenon DEF Wa!TimeShape, Wa!ConditionShape, Wa!UnreadShape
  <2>8. Wa!ProgressShape' /\ Wa!RowShape'
    BY <1>1, <2>1, Zenon DEF Wa!ProgressShape, Wa!RowShape
  <2>9. Wa!OfferShape'
    BY <2>2, <2>6 DEF Wa!OfferShape
  <2>10. Wa!DispatchShape'
    BY <2>2, <2>5 DEF Wa!DispatchShape
  <2>11. Wa!CountShape'
    <3>1. s11' \in [count : Nat, at : Nat]
      BY <2>4, <2>3
    <3> QED
      BY <2>2, <2>1, <2>3, <3>1 DEF Wa!CountShape
  <2>12. Wa!StreakIsPast'
    BY <2>1, <2>4, <2>3 DEF Wa!StreakIsPast
  <2>13. Wa!NothingToAskFor'
    BY <2>2, <2>6 DEF Wa!NothingToAskFor
  <2>14. Wa!DispatchCounts'
    BY <2>2, <2>5 DEF Wa!DispatchCounts
  <2>15. Wa!ProgressIsFresh'
    BY <2>2, <2>4 DEF Wa!ProgressIsFresh
  <2>16. Wa!RowCountsTheStreak'
    BY <2>4 DEF Wa!RowCountsTheStreak
  <2>17. Wa!OfferPromptsAreBounded'
    BY <2>2 DEF Wa!OfferPromptsAreBounded
  <2>18. Wa!PromptsBackOffStep
    BY <2>4, <2>3 DEF Wa!PromptsBackOffStep
  <2> QED
    BY <2>7, <2>8, <2>9, <2>10, <2>11, <2>12, <2>13, <2>14, <2>15, <2>16, <2>17, <2>18 DEF
       Wa!WakesInv
<1>7. ASSUME Wa!Withdraw
      PROVE  Wa!WakesInv' /\ Wa!PromptsBackOffStep
  <2>1. /\ s1' = s1 /\ s2' = s2 /\ s3' = s3 /\ s4' = s4 /\ s6' = s6 /\ s8' = s8
        /\ s9' = s9
    BY <1>7, Zenon DEF Wa!Withdraw
  <2>2. /\ s5' = 0
        /\ s7' = Wa!NoDispatch
        /\ s10' = 0
    BY <1>7, Zenon DEF Wa!Withdraw
  <2>3. /\ s1 \in Nat /\ s7 \in Wa!Dispatches /\ s8 \in 0..MaxProgress /\ s9 \in Wa!WakeRows
        /\ s10 \in Nat /\ s11.count \in Nat /\ s11.at \in Nat /\ s4 \in SUBSET WakeMail
        /\ s5 \in 0..MaxWakeOffers /\ s6 \in 0..MaxWakeOffers
    <3>1. /\ s1 \in 0..MaxWindows /\ s7 \in Wa!Dispatches /\ s8 \in 0..MaxProgress /\ s9 \in Wa!WakeRows
          /\ s10 \in Nat /\ s11 \in [count : Nat, at : Nat] /\ s4 \in SUBSET WakeMail
          /\ s5 \in 0..MaxWakeOffers /\ s6 \in 0..MaxWakeOffers
      BY <1>1, Zenon DEF Wa!TimeShape, Wa!DispatchShape, Wa!ProgressShape, Wa!RowShape, Wa!CountShape, Wa!UnreadShape, Wa!OfferShape
    <3> QED
      BY <3>1
  <2>4. s11' = [count |-> 0, at |-> s1] /\ s11'.count = 0 /\ s11'.at = s1
    <3>1. s11' = [count |-> 0, at |-> s1]
      BY <1>7, Zenon DEF Wa!Withdraw, Wa!Fresh
    <3> QED
      BY <3>1
  <2>5. /\ Wa!NoDispatch \in Wa!Dispatches /\ Wa!NoDispatch.attempts = 0
    BY DEF Wa!NoDispatch, Wa!Dispatches
  <2>6. Wa!TimeShape' /\ Wa!ConditionShape' /\ Wa!UnreadShape'
    BY <1>1, <2>1, Zenon DEF Wa!TimeShape, Wa!ConditionShape, Wa!UnreadShape
  <2>7. Wa!ProgressShape' /\ Wa!RowShape'
    BY <1>1, <2>1, Zenon DEF Wa!ProgressShape, Wa!RowShape
  <2>8. Wa!OfferShape'
    BY <2>2, <2>1, <2>3 DEF Wa!OfferShape
  <2>9. Wa!DispatchShape'
    BY <2>2, <2>5 DEF Wa!DispatchShape
  <2>10. Wa!CountShape'
    <3>1. s11' \in [count : Nat, at : Nat]
      BY <2>4, <2>3
    <3> QED
      BY <2>2, <2>1, <2>3, <3>1 DEF Wa!CountShape
  <2>11. Wa!StreakIsPast'
    BY <2>1, <2>4, <2>3 DEF Wa!StreakIsPast
  <2>12. Wa!NothingToAskFor'
    BY <2>2 DEF Wa!NothingToAskFor
  <2>13. Wa!DispatchCounts'
    BY <2>2, <2>5 DEF Wa!DispatchCounts
  <2>14. Wa!ProgressIsFresh'
    BY <2>2, <2>4 DEF Wa!ProgressIsFresh
  <2>15. Wa!RowCountsTheStreak'
    BY <2>4 DEF Wa!RowCountsTheStreak
  <2>16. Wa!OfferPromptsAreBounded'
    BY <2>2 DEF Wa!OfferPromptsAreBounded
  <2>17. Wa!PromptsBackOffStep
    BY <2>4, <2>3 DEF Wa!PromptsBackOffStep
  <2> QED
    BY <2>6, <2>7, <2>8, <2>9, <2>10, <2>11, <2>12, <2>13, <2>14, <2>15, <2>16, <2>17 DEF
       Wa!WakesInv
<1>8. ASSUME Wa!Advance
      PROVE  Wa!WakesInv' /\ Wa!PromptsBackOffStep
  <2>1. /\ s1' = s1 /\ s2' = s2 /\ s3' = s3 /\ s4' = s4 /\ s5' = s5 /\ s6' = s6
        /\ s7' = s7 /\ s9' = s9
    BY <1>8, Zenon DEF Wa!Advance
  <2>2. /\ s8' = s8 + 1
        /\ s10' = 0
    BY <1>8, Zenon DEF Wa!Advance
  <2>3. /\ s1 \in Nat /\ s7 \in Wa!Dispatches /\ s8 \in 0..MaxProgress /\ s9 \in Wa!WakeRows
        /\ s10 \in Nat /\ s11.count \in Nat /\ s11.at \in Nat /\ s4 \in SUBSET WakeMail
        /\ s5 \in 0..MaxWakeOffers /\ s6 \in 0..MaxWakeOffers
    <3>1. /\ s1 \in 0..MaxWindows /\ s7 \in Wa!Dispatches /\ s8 \in 0..MaxProgress /\ s9 \in Wa!WakeRows
          /\ s10 \in Nat /\ s11 \in [count : Nat, at : Nat] /\ s4 \in SUBSET WakeMail
          /\ s5 \in 0..MaxWakeOffers /\ s6 \in 0..MaxWakeOffers
      BY <1>1, Zenon DEF Wa!TimeShape, Wa!DispatchShape, Wa!ProgressShape, Wa!RowShape, Wa!CountShape, Wa!UnreadShape, Wa!OfferShape
    <3> QED
      BY <3>1
  <2>4. s11' = [count |-> 0, at |-> s1] /\ s11'.count = 0 /\ s11'.at = s1
    <3>1. s11' = [count |-> 0, at |-> s1]
      BY <1>8, Zenon DEF Wa!Advance, Wa!Fresh
    <3> QED
      BY <3>1
  <2>5. s8 + 1 \in 0..MaxProgress
    <3>1. s8 < MaxProgress
      BY <1>8, Zenon DEF Wa!Advance
    <3> QED
      BY <3>1, <2>3
  <2>6. Wa!TimeShape' /\ Wa!ConditionShape' /\ Wa!UnreadShape'
    BY <1>1, <2>1, Zenon DEF Wa!TimeShape, Wa!ConditionShape, Wa!UnreadShape
  <2>7. Wa!OfferShape' /\ Wa!DispatchShape' /\ Wa!RowShape'
    BY <1>1, <2>1, Zenon DEF Wa!OfferShape, Wa!DispatchShape, Wa!RowShape
  <2>8. Wa!ProgressShape'
    BY <2>2, <2>5 DEF Wa!ProgressShape
  <2>9. Wa!CountShape'
    <3>1. s11' \in [count : Nat, at : Nat]
      BY <2>4, <2>3
    <3> QED
      BY <2>2, <2>1, <2>3, <3>1 DEF Wa!CountShape
  <2>10. Wa!StreakIsPast'
    BY <2>1, <2>4, <2>3 DEF Wa!StreakIsPast
  <2>11. Wa!NothingToAskFor'
    BY <1>1, <2>2, <2>1 DEF Wa!NothingToAskFor
  <2>12. Wa!DispatchCounts'
    BY <1>1, <2>2, <2>1, <2>3 DEF Wa!DispatchCounts, Wa!Dispatches
  <2>13. Wa!ProgressIsFresh'
    BY <2>2, <2>4 DEF Wa!ProgressIsFresh
  <2>14. Wa!RowCountsTheStreak'
    BY <2>4 DEF Wa!RowCountsTheStreak
  <2>15. Wa!OfferPromptsAreBounded'
    BY <2>2 DEF Wa!OfferPromptsAreBounded
  <2>16. Wa!PromptsBackOffStep
    BY <2>4, <2>3 DEF Wa!PromptsBackOffStep
  <2> QED
    BY <2>6, <2>7, <2>8, <2>9, <2>10, <2>11, <2>12, <2>13, <2>14, <2>15, <2>16 DEF Wa!WakesInv
<1>9. ASSUME Wa!Defer
      PROVE  Wa!WakesInv' /\ Wa!PromptsBackOffStep
  <2>1. /\ s1' = s1 /\ s2' = s2 /\ s3' = s3 /\ s4' = s4 /\ s5' = s5 /\ s6' = s6
        /\ s7' = s7 /\ s8' = s8 /\ s10' = s10 /\ s11' = s11
    BY <1>9, Zenon DEF Wa!Defer
  <2>2. /\ s1 \in Nat /\ s7 \in Wa!Dispatches /\ s8 \in 0..MaxProgress /\ s9 \in Wa!WakeRows
        /\ s10 \in Nat /\ s11.count \in Nat /\ s11.at \in Nat /\ s4 \in SUBSET WakeMail
        /\ s5 \in 0..MaxWakeOffers /\ s6 \in 0..MaxWakeOffers
    <3>1. /\ s1 \in 0..MaxWindows /\ s7 \in Wa!Dispatches /\ s8 \in 0..MaxProgress /\ s9 \in Wa!WakeRows
          /\ s10 \in Nat /\ s11 \in [count : Nat, at : Nat] /\ s4 \in SUBSET WakeMail
          /\ s5 \in 0..MaxWakeOffers /\ s6 \in 0..MaxWakeOffers
      BY <1>1, Zenon DEF Wa!TimeShape, Wa!DispatchShape, Wa!ProgressShape, Wa!RowShape, Wa!CountShape, Wa!UnreadShape, Wa!OfferShape
    <3> QED
      BY <3>1
  <2>3. PICK long \in BOOLEAN : s9' = [s9 EXCEPT !.blocked = "blocked", !.escalated = (@ \/ long)]
    BY <1>9, Zenon DEF Wa!Defer
  <2>4. /\ s9' \in Wa!WakeRows /\ s9'.marker = s9.marker /\ s9'.at = s9.at
        /\ s9'.attempts = s9.attempts /\ s9'.mail = s9.mail /\ s9'.work = s9.work
    <3>1. PICK b \in BOOLEAN : b = (s9.escalated \/ long)
      OBVIOUS
    <3>2. s9' = [s9 EXCEPT !.blocked = "blocked", !.escalated = b]
      BY <2>3, <3>1, Zenon
    <3> QED
      BY <3>2, <2>2 DEF Wa!WakeRows
  <2>5. Wa!TimeShape' /\ Wa!ConditionShape' /\ Wa!UnreadShape'
    BY <1>1, <2>1, Zenon DEF Wa!TimeShape, Wa!ConditionShape, Wa!UnreadShape
  <2>6. Wa!OfferShape' /\ Wa!DispatchShape' /\ Wa!ProgressShape'
    BY <1>1, <2>1, Zenon DEF Wa!OfferShape, Wa!DispatchShape, Wa!ProgressShape
  <2>7. Wa!CountShape' /\ Wa!StreakIsPast' /\ Wa!NothingToAskFor'
    BY <1>1, <2>1, Zenon DEF Wa!CountShape, Wa!StreakIsPast, Wa!NothingToAskFor
  <2>8. Wa!DispatchCounts' /\ Wa!OfferPromptsAreBounded'
    BY <1>1, <2>1, Zenon DEF Wa!DispatchCounts, Wa!OfferPromptsAreBounded
  <2>9. Wa!RowShape'
    BY <2>4 DEF Wa!RowShape
  <2>10. Wa!ProgressIsFresh'
    BY <1>1, <2>1, <2>4 DEF Wa!ProgressIsFresh, Wa!Worked
  <2>11. Wa!RowCountsTheStreak'
    BY <1>1, <2>1, <2>4 DEF Wa!RowCountsTheStreak, Wa!Same
  <2>12. Wa!PromptsBackOffStep
    BY <1>1, <2>1 DEF Wa!PromptsBackOffStep, Wa!CountShape
  <2> QED
    BY <2>5, <2>6, <2>7, <2>8, <2>9, <2>10, <2>11, <2>12 DEF Wa!WakesInv
<1>10. ASSUME Wa!NotYet
       PROVE  Wa!WakesInv' /\ Wa!PromptsBackOffStep
  <2>1. /\ s1' = s1 /\ s2' = s2 /\ s3' = s3 /\ s4' = s4 /\ s5' = s5 /\ s6' = s6
        /\ s8' = s8 /\ s10' = s10 /\ s11' = s11
    BY <1>10, Zenon DEF Wa!NotYet
  <2>2. /\ s1 \in Nat /\ s7 \in Wa!Dispatches /\ s8 \in 0..MaxProgress /\ s9 \in Wa!WakeRows
        /\ s10 \in Nat /\ s11.count \in Nat /\ s11.at \in Nat /\ s4 \in SUBSET WakeMail
        /\ s5 \in 0..MaxWakeOffers /\ s6 \in 0..MaxWakeOffers
    <3>1. /\ s1 \in 0..MaxWindows /\ s7 \in Wa!Dispatches /\ s8 \in 0..MaxProgress /\ s9 \in Wa!WakeRows
          /\ s10 \in Nat /\ s11 \in [count : Nat, at : Nat] /\ s4 \in SUBSET WakeMail
          /\ s5 \in 0..MaxWakeOffers /\ s6 \in 0..MaxWakeOffers
      BY <1>1, Zenon DEF Wa!TimeShape, Wa!DispatchShape, Wa!ProgressShape, Wa!RowShape, Wa!CountShape, Wa!UnreadShape, Wa!OfferShape
    <3> QED
      BY <3>1
  <2>3. /\ Wa!NoDispatch \in Wa!Dispatches /\ Wa!NoDispatch.attempts = 0
    BY DEF Wa!NoDispatch, Wa!Dispatches
  <2>4. PICK row : row = Wa!Cleared(s9)
    OBVIOUS
  <2>5. /\ row \in Wa!WakeRows /\ row.at = s9.at /\ row.attempts = s9.attempts
        /\ row.mail = s9.mail /\ row.work = s9.work /\ row.marker = s9.marker
    BY <2>2, <2>4, ClearingKeepsTheCount
  <2>6. (Wa!Same(row) <=> (Wa!Same(s9))) /\ (Wa!Worked(row) <=> (Wa!Worked(s9)))
    BY <2>5 DEF Wa!Same, Wa!Worked
  <2>7. /\ Wa!Attempts(row) \in Nat /\ Wa!Throttle(row) \in Int
        /\ Wa!Worked(row) => Wa!Attempts(row) = 0
        /\ Wa!Same(row) => Wa!Throttle(row) >= row.at
        /\ Wa!Same(row) /\ ~Wa!Worked(row) => Wa!Attempts(row) >= row.attempts
        /\ Wa!Wanted(row) # 0 /\ ~Wa!Worked(row) => Wa!Attempts(row) >= s7.attempts
    BY <2>5, <2>2, AttemptsAreRead
  <2>8. /\ Wa!Wanted(row) # 0 => Wa!Wanted(row) = s5 /\ (Wa!Worked(row) \/ s7.state # "escalated")
        /\ Wa!Wanted(row) = 0 => s5 = 0 \/ (s7.state = "escalated" /\ ~Wa!Worked(row))
        /\ Wa!Wanted(row) = 0 \/ Wa!Wanted(row) = s5
    BY WantedOrGivenUp, Zenon
  <2>9. PICK d : /\ d = Wa!DecidedDispatch(row) /\ d \in Wa!Dispatches
                 /\ \/ d = s7
                    \/ d = Wa!NoDispatch /\ Wa!Worked(row) /\ Wa!Wanted(row) # 0
                    \/ d.state = "escalated" /\ Wa!Wanted(row) # 0
                 /\ Wa!Wanted(row) = 0 => d = s7
                 /\ Wa!Wanted(row) # 0 /\ Wa!Attempts(row) >= WakeAttempts => d.state = "escalated"
    BY <2>5, <2>2, DecidedFile
  <2>10. Wa!Worked(row) => s10 = 0 /\ s11.count = 0
    BY <1>1, <2>6 DEF Wa!ProgressIsFresh
  <2>11. s7' = d /\ \E b \in {"", "blocked", "budget"} : s9' = [Wa!Decided(row) EXCEPT !.blocked = b]
    <3>1. s7' = d
      BY <1>10, <2>4, <2>9, Zenon DEF Wa!NotYet
    <3>2. /\ Wa!Decided(row) \in Wa!WakeRows
      BY <2>5, <2>2, DecidedRow
    <3>3. Wa!Decided(row).blocked \in {"", "blocked", "budget"}
      BY <3>2 DEF Wa!WakeRows
    <3>4. \/ s9' = [Wa!Decided(row) EXCEPT !.blocked = IF row.result = "" THEN @ ELSE ""]
          \/ s9' = [Wa!Decided(row) EXCEPT !.blocked = "budget"]
      BY <1>10, <2>4, Zenon DEF Wa!NotYet
    <3>5. PICK b : b = IF row.result = "" THEN Wa!Decided(row).blocked ELSE ""
      OBVIOUS
    <3>6. \/ s9' = [Wa!Decided(row) EXCEPT !.blocked = b]
          \/ s9' = [Wa!Decided(row) EXCEPT !.blocked = "budget"]
      BY <3>4, <3>5, Zenon
    <3>7. b \in {"", "blocked", "budget"}
      BY <3>3, <3>5
    <3> QED
      BY <3>1, <3>6, <3>7
  <2>12. /\ s9' \in Wa!WakeRows /\ s9'.at = s9.at /\ s9'.mail = s9.mail /\ s9'.work = s9.work
         /\ Wa!Worked(row) => s9'.marker = s8
         /\ ~Wa!Worked(row) => s9'.marker = s9.marker /\ s9'.attempts = s9.attempts
    <3>1. PICK e : e = Wa!Decided(row)
      OBVIOUS
    <3>2. /\ e \in Wa!WakeRows /\ e.at = row.at /\ e.mail = row.mail /\ e.work = row.work
          /\ Wa!Worked(row) => e.marker = s8
          /\ ~Wa!Worked(row) => e.marker = row.marker /\ e.attempts = row.attempts
      BY <2>5, <2>2, <3>1, DecidedRow
    <3>3. PICK b \in {"", "blocked", "budget"} : s9' = [e EXCEPT !.blocked = b]
      BY <2>11, <3>1
    <3>4. /\ s9' \in Wa!WakeRows /\ s9'.at = e.at /\ s9'.mail = e.mail /\ s9'.work = e.work
          /\ s9'.marker = e.marker /\ s9'.attempts = e.attempts
      BY <3>2, <3>3 DEF Wa!WakeRows
    <3> QED
      BY <3>2, <3>4, <2>5
  <2>13. Wa!TimeShape' /\ Wa!ConditionShape' /\ Wa!UnreadShape'
    BY <1>1, <2>1, Zenon DEF Wa!TimeShape, Wa!ConditionShape, Wa!UnreadShape
  <2>14. Wa!OfferShape' /\ Wa!ProgressShape' /\ Wa!CountShape'
    BY <1>1, <2>1, Zenon DEF Wa!OfferShape, Wa!ProgressShape, Wa!CountShape
  <2>15. Wa!StreakIsPast' /\ Wa!OfferPromptsAreBounded'
    BY <1>1, <2>1, Zenon DEF Wa!StreakIsPast, Wa!OfferPromptsAreBounded
  <2>16. Wa!DispatchShape'
    BY <2>11, <2>9 DEF Wa!DispatchShape
  <2>17. Wa!RowShape'
    BY <2>12 DEF Wa!RowShape
  <2>18. Wa!NothingToAskFor'
    BY <1>1, <2>1, <2>11, <2>9, <2>8 DEF Wa!NothingToAskFor
  <2>19. Wa!DispatchCounts'
    <3>1. s7' = d /\ s10' = s10
      BY <2>1, <2>11
    <3>2. CASE d = s7
      BY <1>1, <3>1, <3>2 DEF Wa!DispatchCounts
    <3>3. CASE d = Wa!NoDispatch /\ Wa!Worked(row)
      BY <3>1, <3>3, <2>10, <2>3 DEF Wa!DispatchCounts
    <3>4. CASE d.state = "escalated"
      BY <3>1, <3>4 DEF Wa!DispatchCounts
    <3> QED
      BY <3>2, <3>3, <3>4, <2>9
  <2>20. Wa!ProgressIsFresh'
    <3>1. s8' = s8 /\ s10' = s10 /\ s11' = s11
      BY <2>1
    <3> QED
      BY <1>1, <3>1, <2>12, <2>6 DEF Wa!ProgressIsFresh, Wa!Worked
  <2>21. Wa!RowCountsTheStreak'
    <3>1. ASSUME s11.count > 0, d.state # "escalated" PROVE d = s7 /\ ~Wa!Worked(row)
      BY <3>1, <2>9, <2>10, <2>2
    <3>2. s4' = s4 /\ s5' = s5 /\ s11' = s11 /\ s7' = d
      BY <2>1, <2>11
    <3> QED
      BY <1>1, <3>1, <3>2, <2>12 DEF Wa!RowCountsTheStreak, Wa!Same
  <2>22. Wa!PromptsBackOffStep
    BY <1>1, <2>1 DEF Wa!PromptsBackOffStep, Wa!CountShape
  <2> QED
    BY <2>13, <2>14, <2>15, <2>16, <2>17, <2>18, <2>19, <2>20, <2>21, <2>22 DEF Wa!WakesInv
<1>11. ASSUME NEW result \in Wa!Asks, Wa!Ask(result)
      PROVE  Wa!WakesInv' /\ Wa!PromptsBackOffStep
  <2>1. s1' = s1 /\ s2' = s2 /\ s4' = s4 /\ s5' = s5 /\ s6' = s6 /\ s8' = s8
    BY <1>11, Zenon DEF Wa!Ask
  <2>2. /\ s1 \in Nat /\ s7 \in Wa!Dispatches /\ s8 \in 0..MaxProgress /\ s9 \in Wa!WakeRows
        /\ s10 \in Nat /\ s11.count \in Nat /\ s11.at \in Nat /\ s4 \in SUBSET WakeMail
        /\ s5 \in 0..MaxWakeOffers /\ s6 \in 0..MaxWakeOffers
    <3>1. /\ s1 \in 0..MaxWindows /\ s7 \in Wa!Dispatches /\ s8 \in 0..MaxProgress /\ s9 \in Wa!WakeRows
          /\ s10 \in Nat /\ s11 \in [count : Nat, at : Nat] /\ s4 \in SUBSET WakeMail
          /\ s5 \in 0..MaxWakeOffers /\ s6 \in 0..MaxWakeOffers
      BY <1>1, Zenon DEF Wa!TimeShape, Wa!DispatchShape, Wa!ProgressShape, Wa!RowShape, Wa!CountShape, Wa!UnreadShape, Wa!OfferShape
    <3> QED
      BY <3>1
  <2>3. /\ Wa!NoDispatch \in Wa!Dispatches /\ Wa!NoDispatch.attempts = 0
    BY DEF Wa!NoDispatch, Wa!Dispatches
  <2>4. PICK row : row = Wa!Cleared(s9)
    OBVIOUS
  <2>5. /\ row \in Wa!WakeRows /\ row.at = s9.at /\ row.attempts = s9.attempts
        /\ row.mail = s9.mail /\ row.work = s9.work /\ row.marker = s9.marker
    BY <2>2, <2>4, ClearingKeepsTheCount
  <2>6. (Wa!Same(row) <=> (Wa!Same(s9))) /\ (Wa!Worked(row) <=> (Wa!Worked(s9)))
    BY <2>5 DEF Wa!Same, Wa!Worked
  <2>7. /\ Wa!Attempts(row) \in Nat /\ Wa!Throttle(row) \in Int
        /\ Wa!Worked(row) => Wa!Attempts(row) = 0
        /\ Wa!Same(row) => Wa!Throttle(row) >= row.at
        /\ Wa!Same(row) /\ ~Wa!Worked(row) => Wa!Attempts(row) >= row.attempts
        /\ Wa!Wanted(row) # 0 /\ ~Wa!Worked(row) => Wa!Attempts(row) >= s7.attempts
    BY <2>5, <2>2, AttemptsAreRead
  <2>8. /\ Wa!Wanted(row) # 0 => Wa!Wanted(row) = s5 /\ (Wa!Worked(row) \/ s7.state # "escalated")
        /\ Wa!Wanted(row) = 0 => s5 = 0 \/ (s7.state = "escalated" /\ ~Wa!Worked(row))
        /\ Wa!Wanted(row) = 0 \/ Wa!Wanted(row) = s5
    BY WantedOrGivenUp, Zenon
  <2>9. PICK d : /\ d = Wa!DecidedDispatch(row) /\ d \in Wa!Dispatches
                 /\ \/ d = s7
                    \/ d = Wa!NoDispatch /\ Wa!Worked(row) /\ Wa!Wanted(row) # 0
                    \/ d.state = "escalated" /\ Wa!Wanted(row) # 0
                 /\ Wa!Wanted(row) = 0 => d = s7
                 /\ Wa!Wanted(row) # 0 /\ Wa!Attempts(row) >= WakeAttempts => d.state = "escalated"
    BY <2>5, <2>2, DecidedFile
  <2>10. Wa!Worked(row) => s10 = 0 /\ s11.count = 0
    BY <1>1, <2>6 DEF Wa!ProgressIsFresh
  <2>11. PICK n, w, counts : n = Wa!Attempts(row) /\ w = Wa!Wanted(row) /\ counts = Wa!Counts(result) /\ counts \in BOOLEAN
    BY Zenon DEF Wa!Counts
  <2>12. PICK m : m = n + (IF counts THEN 1 ELSE 0)
    OBVIOUS
  <2>13. n \in Nat /\ m \in Nat /\ (counts => m = n + 1) /\ (~counts => m = n) /\ w \in 0..MaxWakeOffers
    BY <2>7, <2>11, <2>12, <2>8, <2>2
  <2>14. s1 >= Wa!Throttle(row) + Wa!Doubled(n - 1)
    BY <1>11, <2>4, <2>11, Zenon DEF Wa!Ask, Wa!WakeDue
  <2>15. /\ s9' \in Wa!WakeRows /\ s9'.at = s1 /\ s9'.attempts = m /\ s9'.mail = s4
         /\ s9'.work = w /\ s9'.marker = s8
    <3>1. PICK ex \in BOOLEAN : ex = (m >= WakeAttempts)
      <4>1. (m >= WakeAttempts) \in BOOLEAN
        BY <2>13
      <4> QED
        BY <4>1, Zenon
    <3>2. PICK es \in BOOLEAN : es = (n >= WakeAttempts /\ Wa!Decided(row).escalated)
      OBVIOUS
    <3>3. s9' = [at |-> s1, attempts |-> m, mail |-> s4, work |-> w, marker |-> s8,
                 result |-> result, blocked |-> "", exhausted |-> ex, escalated |-> es]
      BY <1>11, <2>4, <2>11, <2>12, <3>1, <3>2, Zenon DEF Wa!Ask
    <3>4. s1 \in Int /\ s8 \in -1..MaxProgress
      BY <2>2
    <3> QED
      BY <3>3, <3>4, <2>13, <2>2 DEF Wa!WakeRows
  <2>16. /\ s7' \in Wa!Dispatches
         /\ w = 0 \/ n >= WakeAttempts => s7' = d
         /\ ~(w = 0 \/ n >= WakeAttempts) => s7'.attempts = m /\ s7'.state # "escalated"
    <3>1. PICK st \in {"awaiting", "deferred"} : st = IF counts THEN "awaiting" ELSE "deferred"
      OBVIOUS
    <3>2. s7' = IF w = 0 \/ n >= WakeAttempts THEN d ELSE [state |-> st, attempts |-> m, at |-> s1]
      BY <1>11, <2>4, <2>9, <2>11, <2>12, <3>1, Zenon DEF Wa!Ask
    <3>3. PICK q : q = [state |-> st, attempts |-> m, at |-> s1]
      OBVIOUS
    <3>4. q \in Wa!Dispatches /\ q.attempts = m /\ q.state # "escalated"
      BY <3>1, <3>3, <2>13, <2>2 DEF Wa!Dispatches
    <3> QED
      BY <3>2, <3>3, <3>4, <2>9
  <2>17. /\ s10' = IF w # 0 /\ counts THEN s10 + 1 ELSE s10
         /\ s11' = IF counts THEN [count |-> s11.count + 1, at |-> s1] ELSE s11
    BY <1>11, <2>4, <2>11, Zenon DEF Wa!Ask
  <2>18. /\ s11' \in [count : Nat, at : Nat]
         /\ counts => s11'.count = s11.count + 1 /\ s11'.at = s1
         /\ ~counts => s11' = s11
    BY <1>1, <2>17, <2>2 DEF Wa!CountShape
  <2>19. /\ s10 > 0 \/ s11.count > 0 => ~Wa!Worked(row)
         /\ w # 0 => n >= s10 /\ s10 <= WakeAttempts
         /\ s11.count > 0 /\ s7.state # "escalated" => Wa!Same(row) /\ n >= s11.count /\ Wa!Throttle(row) >= s11.at
    <3>1. s10 > 0 \/ s11.count > 0 => ~Wa!Worked(row)
      BY <2>10, <2>2
    <3>2. ASSUME w # 0 PROVE n >= s10 /\ s10 <= WakeAttempts
      <4>1. CASE Wa!Worked(row)
        BY <4>1, <2>10, <2>13
      <4>2. CASE ~Wa!Worked(row)
        <5>1. s7.state # "escalated" /\ n >= s7.attempts
          BY <3>2, <4>2, <2>8, <2>7, <2>11
        <5>2. s10 <= s7.attempts /\ s7.attempts <= WakeAttempts /\ s7.attempts \in Nat
          BY <1>1, <5>1, <2>2 DEF Wa!DispatchCounts, Wa!Dispatches
        <5> QED
          BY <5>1, <5>2, <2>13, <2>2
      <4> QED
        BY <4>1, <4>2
    <3>3. ASSUME s11.count > 0, s7.state # "escalated"
          PROVE  Wa!Same(row) /\ n >= s11.count /\ Wa!Throttle(row) >= s11.at
      <4>1. Wa!Same(s9) /\ s9.attempts >= s11.count /\ s9.at >= s11.at
        BY <1>1, <3>3, Zenon DEF Wa!RowCountsTheStreak
      <4>2. n >= row.attempts /\ Wa!Throttle(row) >= row.at
        BY <3>1, <3>3, <4>1, <2>6, <2>7, <2>11
      <4>3. row.attempts \in Nat /\ row.at \in Int
        BY <2>5 DEF Wa!WakeRows
      <4> QED
        BY <4>1, <4>2, <4>3, <2>6, <2>5, <2>2, <2>13, <2>7
    <3> QED
      BY <3>1, <3>2, <3>3
  <2>20. s7'.state # "escalated" => w = s5 /\ (s11.count > 0 => s7.state # "escalated")
    <3>1. SUFFICES ASSUME s7'.state # "escalated"
                   PROVE  w = s5 /\ (s11.count > 0 => s7.state # "escalated")
      OBVIOUS
    <3>2. CASE w = 0
      <4>1. s7' = s7
        BY <3>2, <2>16, <2>9, <2>11
      <4> QED
        BY <3>1, <3>2, <4>1, <2>8, <2>11
    <3>3. CASE w # 0
      BY <3>3, <2>8, <2>11, <2>19
    <3> QED
      BY <3>2, <3>3
  <2>21. Wa!TimeShape' /\ Wa!ConditionShape' /\ Wa!UnreadShape'
    BY <1>1, <2>1, Zenon DEF Wa!TimeShape, Wa!ConditionShape, Wa!UnreadShape
  <2>22. Wa!OfferShape' /\ Wa!ProgressShape'
    BY <1>1, <2>1, Zenon DEF Wa!OfferShape, Wa!ProgressShape
  <2>23. Wa!DispatchShape'
    BY <2>16 DEF Wa!DispatchShape
  <2>24. Wa!RowShape'
    BY <2>15 DEF Wa!RowShape
  <2>25. Wa!CountShape'
    <3>1. s10' \in Nat
      BY <2>17, <2>2
    <3> QED
      BY <3>1, <2>18, Zenon DEF Wa!CountShape
  <2>26. Wa!StreakIsPast'
    BY <1>1, <2>1, <2>18, <2>2 DEF Wa!StreakIsPast
  <2>27. Wa!NothingToAskFor'
    <3>1. s5 = 0 => w = 0
      BY <2>8, <2>11
    <3>2. w = 0 => s7' = s7 /\ s10' = s10
      BY <2>16, <2>9, <2>11, <2>17
    <3> QED
      BY <1>1, <3>1, <3>2, <2>1 DEF Wa!NothingToAskFor
  <2>28. Wa!DispatchCounts'
    <3>1. CASE w = 0
      <4>1. s7' = s7 /\ s10' = s10
        BY <3>1, <2>16, <2>9, <2>11, <2>17
      <4> QED
        BY <1>1, <4>1 DEF Wa!DispatchCounts
    <3>2. CASE w # 0 /\ n >= WakeAttempts
      BY <3>2, <2>16, <2>9, <2>11 DEF Wa!DispatchCounts
    <3>3. CASE w # 0 /\ ~(n >= WakeAttempts)
      <4>1. s7'.attempts = m /\ m <= WakeAttempts
        BY <3>3, <2>16, <2>13
      <4>2. s10' <= m
        BY <3>3, <2>17, <2>13, <2>19, <2>2
      <4> QED
        BY <4>1, <4>2 DEF Wa!DispatchCounts
    <3> QED
      BY <3>1, <3>2, <3>3
  <2>29. Wa!ProgressIsFresh'
    BY <2>1, <2>15 DEF Wa!ProgressIsFresh, Wa!Worked
  <2>30. Wa!RowCountsTheStreak'
    <3>1. SUFFICES ASSUME s11'.count > 0, s7'.state # "escalated"
                   PROVE  s9'.mail = s4' /\ s9'.work = s5' /\ s9'.attempts >= s11'.count /\ s9'.at >= s11'.at
      BY Zenon DEF Wa!RowCountsTheStreak, Wa!Same
    <3>2. s9'.mail = s4' /\ s9'.work = s5'
      BY <3>1, <2>1, <2>15, <2>20
    <3>3. s11.count > 0 => n >= s11.count
      BY <3>1, <2>20, <2>19
    <3>4. s9'.attempts >= s11'.count
      BY <3>1, <3>3, <2>15, <2>18, <2>13, <2>2
    <3>5. s11.at <= s1
      BY <1>1 DEF Wa!StreakIsPast
    <3>6. s9'.at >= s11'.at
      BY <3>5, <2>15, <2>18, <2>2
    <3> QED
      BY <3>2, <3>4, <3>6
  <2>31. Wa!OfferPromptsAreBounded'
    BY <1>1, <2>17, <2>19, <2>2 DEF Wa!OfferPromptsAreBounded
  <2>32. Wa!PromptsBackOffStep
    <3>1. SUFFICES ASSUME s11'.count > s11.count, s11.count > 0, s7.state # "escalated"
                   PROVE  s1 - s11.at >= Wa!Doubled(s11.count - 1)
      BY Zenon DEF Wa!PromptsBackOffStep
    <3>2. n >= s11.count /\ Wa!Throttle(row) >= s11.at
      BY <3>1, <2>19
    <3>3. Wa!Doubled(s11.count - 1) <= Wa!Doubled(n - 1)
      <4>1. s11.count - 1 \in Int /\ n - 1 \in Int /\ s11.count - 1 <= n - 1
        BY <3>2, <2>2, <2>13
      <4> QED
        BY <4>1, DelaysGrow
    <3>4. Wa!Doubled(s11.count - 1) \in Nat /\ Wa!Doubled(n - 1) \in Nat
      <4>1. s11.count - 1 \in Int /\ n - 1 \in Int
        BY <2>2, <2>13
      <4> QED
        BY <4>1, DelaysGrow
    <3> QED
      BY <3>2, <3>3, <3>4, <2>14, <2>2, <2>7
  <2> QED
    BY <2>21, <2>22, <2>23, <2>24, <2>25, <2>26, <2>27, <2>28, <2>29, <2>30, <2>31, <2>32
       DEF Wa!WakesInv
<1> QED
  BY <1>2, <1>3, <1>4, <1>5, <1>6, <1>7, <1>8, <1>9, <1>10, <1>11, Zenon DEF Wa!WakesNext

(* Nothing was asked of the lane, and no prompt is due to anything.          *)
LEMMA WakesInitially == Wa!WakesInit => Wa!WakesInv
<1> SUFFICES ASSUME Wa!WakesInit PROVE Wa!WakesInv
  OBVIOUS
<1> USE IntegrationAssumption
<1>1. /\ s1 = 0 /\ s2 = "idle" /\ s4 = {} /\ s5 = 0 /\ s6 = 0 /\ s7 = Wa!NoDispatch
      /\ s8 = 0 /\ s9 = Wa!NoWake /\ s10 = 0 /\ s11 = [count |-> 0, at |-> 0]
  BY Zenon DEF Wa!WakesInit
<1>2. s11.count = 0 /\ s11.at = 0 /\ s11 \in [count : Nat, at : Nat]
  BY <1>1
<1>3. Wa!LongAgo \in Int
  <2>1. -WakeCeiling \in Int
    OBVIOUS
  <2> QED
    BY <2>1, Zenon DEF Wa!LongAgo
<1>4. Wa!NoWake \in Wa!WakeRows /\ Wa!NoWake.marker = -1
  <2>1. /\ {} \in SUBSET WakeMail /\ 0 \in 0..MaxWakeOffers /\ -1 \in -1..MaxProgress
        /\ 0 \in Nat /\ "" \in Wa!Asks \cup {""} /\ "" \in {"", "blocked", "budget"}
    OBVIOUS
  <2> QED
    BY <1>3, <2>1 DEF Wa!NoWake, Wa!WakeRows
<1>5. Wa!NoDispatch \in Wa!Dispatches /\ Wa!NoDispatch.attempts = 0
  BY DEF Wa!NoDispatch, Wa!Dispatches
<1>6. /\ Wa!TimeShape /\ Wa!ConditionShape /\ Wa!UnreadShape /\ Wa!OfferShape /\ Wa!DispatchShape
      /\ Wa!ProgressShape
  BY <1>1, <1>5 DEF Wa!TimeShape, Wa!ConditionShape, Wa!Conditions, Wa!UnreadShape, Wa!OfferShape,
     Wa!DispatchShape, Wa!ProgressShape
<1>7. Wa!RowShape /\ Wa!ProgressIsFresh
  BY <1>1, <1>4 DEF Wa!RowShape, Wa!ProgressIsFresh, Wa!Worked
<1>8. Wa!CountShape /\ Wa!StreakIsPast /\ Wa!RowCountsTheStreak
  BY <1>1, <1>2 DEF Wa!CountShape, Wa!StreakIsPast, Wa!RowCountsTheStreak
<1>9. Wa!NothingToAskFor /\ Wa!DispatchCounts /\ Wa!OfferPromptsAreBounded
  BY <1>1, <1>5 DEF Wa!NothingToAskFor, Wa!DispatchCounts, Wa!OfferPromptsAreBounded
<1> QED
  BY <1>6, <1>7, <1>8, <1>9, Zenon DEF Wa!WakesInv

(* The invariant says what the run asks of wakes.                            *)
LEMMA WakesSaySo ==
  Wa!WakesInv => Wa!WakesTypeOK /\ Wa!OfferPromptsAreBounded
<1> SUFFICES ASSUME Wa!WakesInv PROVE Wa!WakesTypeOK /\ Wa!OfferPromptsAreBounded
  OBVIOUS
<1>1. Wa!WakesTypeOK
  BY Zenon DEF Wa!WakesInv, Wa!WakesTypeOK, Wa!TimeShape, Wa!ConditionShape, Wa!UnreadShape,
     Wa!OfferShape, Wa!DispatchShape, Wa!RowShape
<1>2. Wa!OfferPromptsAreBounded
  BY Zenon DEF Wa!WakesInv
<1> QED
  BY <1>1, <1>2

(* Where nothing happens nothing changes.                                    *)
LEMMA WakesStay ==
  ASSUME Wa!WakesInv, UNCHANGED Wa!wakeVars
  PROVE  Wa!WakesInv' /\ Wa!PromptsBackOffStep
<1>1. /\ Wa!TimeShape
      /\ Wa!ConditionShape
      /\ Wa!UnreadShape
      /\ Wa!OfferShape
      /\ Wa!DispatchShape
      /\ Wa!ProgressShape
      /\ Wa!RowShape
      /\ Wa!CountShape
      /\ Wa!StreakIsPast
      /\ Wa!NothingToAskFor
      /\ Wa!DispatchCounts
      /\ Wa!ProgressIsFresh
      /\ Wa!RowCountsTheStreak
      /\ Wa!OfferPromptsAreBounded
  BY DEF Wa!WakesInv
<1>2. /\ s1' = s1 /\ s2' = s2 /\ s3' = s3 /\ s4' = s4 /\ s5' = s5 /\ s6' = s6
      /\ s7' = s7 /\ s8' = s8 /\ s9' = s9 /\ s10' = s10 /\ s11' = s11
  BY DEF Wa!wakeVars
<1>3. Wa!TimeShape' /\ Wa!ConditionShape' /\ Wa!UnreadShape'
  BY <1>1, <1>2, Zenon DEF Wa!TimeShape, Wa!ConditionShape, Wa!UnreadShape
<1>4. Wa!OfferShape' /\ Wa!DispatchShape' /\ Wa!ProgressShape'
  BY <1>1, <1>2, Zenon DEF Wa!OfferShape, Wa!DispatchShape, Wa!ProgressShape
<1>5. Wa!RowShape' /\ Wa!CountShape' /\ Wa!StreakIsPast'
  BY <1>1, <1>2, Zenon DEF Wa!RowShape, Wa!CountShape, Wa!StreakIsPast
<1>6. Wa!NothingToAskFor' /\ Wa!DispatchCounts' /\ Wa!ProgressIsFresh'
  BY <1>1, <1>2, Zenon DEF Wa!NothingToAskFor, Wa!DispatchCounts, Wa!ProgressIsFresh, Wa!Worked
<1>7. Wa!RowCountsTheStreak' /\ Wa!OfferPromptsAreBounded'
  BY <1>1, <1>2, Zenon DEF Wa!RowCountsTheStreak, Wa!Same, Wa!OfferPromptsAreBounded
<1>8. Wa!PromptsBackOffStep
  BY <1>1, <1>2 DEF Wa!PromptsBackOffStep, Wa!CountShape
<1> QED
  BY <1>3, <1>4, <1>5, <1>6, <1>7, <1>8 DEF Wa!WakesInv

(* Among some issues there is a least.                                        *)
LEMMA LeastIssue ==
  ASSUME NEW S \in SUBSET Wo!WorkIssue, S # {}
  PROVE  Wo!Min(S) \in S
<1> USE IntegrationAssumption
<1> DEFINE Below == {n \in Nat : \A k \in 0..n : k \notin S}
<1>1. S \subseteq Nat
  BY DEF Wo!WorkIssue
<1>2. \E x \in S : \A y \in S : x <= y
  <2>1. SUFFICES ASSUME \A x \in S : \E y \in S : y < x PROVE FALSE
    BY <1>1
  <2>2. 0 \in Below
    BY <1>1, <2>1
  <2>3. ASSUME NEW n \in Nat, n \in Below PROVE n + 1 \in Below
    <3>1. \A k \in 0..n : k \notin S
      BY <2>3
    <3>2. n + 1 \notin S
      <4>1. SUFFICES ASSUME n + 1 \in S PROVE FALSE
        OBVIOUS
      <4>2. PICK y \in S : y < n + 1
        BY <2>1, <4>1
      <4>3. y \in 0..n
        BY <1>1, <4>2
      <4> QED
        BY <3>1, <4>3
    <3>3. \A k \in 0..(n + 1) : k \in 0..n \/ k = n + 1
      OBVIOUS
    <3>4. \A k \in 0..(n + 1) : k \notin S
      BY <3>1, <3>2, <3>3
    <3> QED
      BY <3>4
  <2> HIDE DEF Below
  <2>4. Nat \subseteq Below
    BY <2>2, <2>3, SetInduction
  <2>5. PICK x \in S : x \in Nat
    BY <1>1
  <2>6. x \in Below
    BY <2>4, <2>5
  <2> QED
    BY <2>5, <2>6 DEF Below
<1> QED
  BY <1>2 DEF Wo!Min

(* No offer is an offer of nothing.                                           *)
LEMMA NoWorkIsWork == Wo!NoWork \in Wo!Works /\ Wo!NoWork.lead = 0
<1> USE IntegrationAssumption
<1>1. PICK p : p = [i \in {} |-> 0]
  OBVIOUS
<1>2. p \in [{} -> 0..WorkLanes]
  BY <1>1
<1>3. {} \in SUBSET Wo!WorkIssue
  OBVIOUS
<1>4. p \in Wo!Progress
  BY <1>2, <1>3, Zenon DEF Wo!Progress
<1>5. Wo!NoWork = [kind |-> "none", issues |-> {}, lead |-> 0, progress |-> p]
  BY <1>1, Zenon DEF Wo!NoWork
<1> QED
  BY <1>3, <1>4, <1>5 DEF Wo!Works, Wo!Kinds

(* A lead is a free issue, and one nobody before was led to while there is one. *)
LEMMA LeadsAreFree ==
  ASSUME NEW r, NEW taken
  PROVE  /\ Wo!Lead(r, taken) \in 0..WorkIssues
         /\ Wo!Lead(r, taken) # 0 => Wo!Available(r) \subseteq taken \/ Wo!Lead(r, taken) \notin taken
<1> USE IntegrationAssumption
<1>1. Wo!Available(r) \in SUBSET Wo!WorkIssue
  BY Zenon DEF Wo!Available
<1>2. Wo!WorkIssue = 1..WorkIssues
  BY DEF Wo!WorkIssue
<1>3. CASE Wo!Available(r) = {}
  <2>1. Wo!Lead(r, taken) = 0
    BY <1>3, Zenon DEF Wo!Lead
  <2> QED
    BY <2>1
<1>4. CASE Wo!Available(r) # {} /\ Wo!Available(r) \subseteq taken
  <2>1. Wo!Lead(r, taken) = Wo!Min(Wo!Available(r))
    BY <1>4, Zenon DEF Wo!Lead
  <2>2. Wo!Lead(r, taken) \in Wo!WorkIssue
    BY <2>1, <1>1, <1>4, LeastIssue, Zenon
  <2> QED
    BY <2>2, <1>2, <1>4
<1>5. CASE Wo!Available(r) # {} /\ ~(Wo!Available(r) \subseteq taken)
  <2>1. Wo!Lead(r, taken) = Wo!Min(Wo!Available(r) \ taken)
    BY <1>5, Zenon DEF Wo!Lead
  <2>2. Wo!Available(r) \ taken \in SUBSET Wo!WorkIssue /\ Wo!Available(r) \ taken # {}
    BY <1>1, <1>5, Zenon
  <2>3. Wo!Lead(r, taken) \in Wo!Available(r) \ taken
    BY <2>1, <2>2, LeastIssue, Zenon
  <2>4. Wo!Lead(r, taken) \in Wo!WorkIssue /\ Wo!Lead(r, taken) \notin taken
    BY <2>3, <2>2, Zenon
  <2> QED
    BY <2>4, <1>2
<1> QED
  BY <1>3, <1>4, <1>5

(* An offer names issues of the ledger, and leads where a lead does or nowhere. *)
LEMMA OffersAreWorks ==
  ASSUME NEW r, r.owns \in [Wo!WorkIssue -> 0..WorkLanes], NEW l \in Wo!WorkLane, NEW taken
  PROVE  /\ Wo!OfferFor(r, l, taken) \in Wo!Works
         /\ Wo!OfferFor(r, l, taken).lead \in {0, Wo!Lead(r, taken)}
<1> USE IntegrationAssumption
<1>1. ASSUME NEW k \in Wo!Kinds, NEW I \in SUBSET Wo!WorkIssue, NEW d \in {0, Wo!Lead(r, taken)}
      PROVE  Wo!Named(r, k, I, d) \in Wo!Works /\ Wo!Named(r, k, I, d).lead = d
  <2>1. PICK p : p = [i \in I |-> r.owns[i]]
    OBVIOUS
  <2>2. p \in [I -> 0..WorkLanes]
    BY <2>1
  <2>3. p \in Wo!Progress
    BY <2>2, Zenon DEF Wo!Progress
  <2>4. d \in 0..WorkIssues
    BY LeadsAreFree
  <2>5. Wo!Named(r, k, I, d) = [kind |-> k, issues |-> I, lead |-> d, progress |-> p]
    BY <2>1, Zenon DEF Wo!Named
  <2> QED
    BY <2>3, <2>4, <2>5 DEF Wo!Works
<1>2. /\ Wo!Continuation(r, l) \in SUBSET Wo!WorkIssue /\ Wo!Mine(r, l) \in SUBSET Wo!WorkIssue
      /\ Wo!Available(r) \cup Wo!BusyWork(r) \in SUBSET Wo!WorkIssue
  <2>1. \A h : Wo!Continuation(r, h) \in SUBSET Wo!WorkIssue /\ Wo!Mine(r, h) \in SUBSET Wo!WorkIssue
    BY Zenon DEF Wo!Continuation, Wo!Mine
  <2>2. Wo!Available(r) \in SUBSET Wo!WorkIssue
    BY Zenon DEF Wo!Available
  <2>3. Wo!BusyWork(r) \in SUBSET Wo!WorkIssue
    BY <2>1, Zenon DEF Wo!BusyWork
  <2> QED
    BY <2>1, <2>2, <2>3, Zenon
<1>3. /\ "rebalance" \in Wo!Kinds /\ "split" \in Wo!Kinds /\ "continue" \in Wo!Kinds
      /\ "pull" \in Wo!Kinds
  BY DEF Wo!Kinds
<1>4. CASE Wo!Rebalances(r, l)
  <2>1. Wo!OfferFor(r, l, taken) = Wo!Named(r, "rebalance", Wo!Continuation(r, l), 0)
    BY <1>4, Zenon DEF Wo!OfferFor
  <2> QED
    BY <2>1, <1>1, <1>2, <1>3, ZenonT(40)
<1>5. CASE ~Wo!Rebalances(r, l) /\ Wo!Splits(r, l)
  <2>1. PICK m : m = Wo!Min(Wo!Continuation(r, l) \cap r.backlog)
    OBVIOUS
  <2>2. Wo!OfferFor(r, l, taken) = Wo!Named(r, "split", {m}, 0)
    BY <1>5, <2>1, Zenon DEF Wo!OfferFor
  <2>3. /\ Wo!Continuation(r, l) \cap r.backlog # {}
        /\ Wo!Continuation(r, l) \cap r.backlog \in SUBSET Wo!WorkIssue
    BY <1>2, <1>5, Zenon DEF Wo!Splits
  <2>4. m \in Wo!Continuation(r, l) \cap r.backlog
    BY <2>1, <2>3, LeastIssue, Zenon
  <2>5. {m} \in SUBSET Wo!WorkIssue
    BY <2>3, <2>4, Zenon
  <2> QED
    BY <2>2, <2>5, <1>1, <1>3, Zenon
<1>6. CASE ~Wo!Rebalances(r, l) /\ ~Wo!Splits(r, l) /\ Wo!Continues(r, l)
  <2>1. PICK I, d : /\ I = IF Wo!Continuation(r, l) # {} THEN Wo!Continuation(r, l) ELSE Wo!Mine(r, l)
                    /\ d = IF Wo!Continuation(r, l) = {} /\ r.fit[l] = "fit"
                           THEN Wo!Lead(r, taken) ELSE 0
    OBVIOUS
  <2>2. I \in SUBSET Wo!WorkIssue /\ d \in {0, Wo!Lead(r, taken)}
    BY <2>1, <1>2, Zenon
  <2>3. Wo!OfferFor(r, l, taken) = Wo!Named(r, "continue", I, d)
    BY <1>6, <2>1, Zenon DEF Wo!OfferFor
  <2>4. Wo!Named(r, "continue", I, d) \in Wo!Works /\ Wo!Named(r, "continue", I, d).lead = d
    BY <2>2, <1>1, <1>3, Zenon
  <2> QED
    BY <2>2, <2>3, <2>4, Zenon
<1>7. CASE /\ ~Wo!Rebalances(r, l) /\ ~Wo!Splits(r, l) /\ ~Wo!Continues(r, l)
           /\ Wo!Pulls(r, l)
  <2>1. Wo!OfferFor(r, l, taken) =
          Wo!Named(r, "pull", Wo!Available(r) \cup Wo!BusyWork(r), Wo!Lead(r, taken))
    BY <1>7, Zenon DEF Wo!OfferFor
  <2> QED
    BY <2>1, <1>1, <1>2, <1>3, ZenonT(40)
<1>8. CASE /\ ~Wo!Rebalances(r, l) /\ ~Wo!Splits(r, l) /\ ~Wo!Continues(r, l)
           /\ ~Wo!Pulls(r, l)
  <2>1. Wo!OfferFor(r, l, taken) = Wo!NoWork
    BY <1>8, Zenon DEF Wo!OfferFor
  <2> QED
    BY <2>1, NoWorkIsWork
<1> QED
  BY <1>4, <1>5, <1>6, <1>7, <1>8, Zenon

(* The lanes in turn: each is led to an issue nobody before was led to, unless all
   the free ones were taken.                                                  *)
LEMMA OffersAreSpread ==
  ASSUME NEW r, r.owns \in [Wo!WorkIssue -> 0..WorkLanes]
  PROVE  /\ Wo!Offers(r) \in Seq(Wo!Works) /\ Len(Wo!Offers(r)) = WorkLanes
         /\ \A l, m \in Wo!WorkLane :
              l # m /\ Wo!Offers(r)[l].lead # 0 /\ Wo!Offers(r)[l].lead = Wo!Offers(r)[m].lead
                => Wo!Available(r) \subseteq {Wo!Offers(r)[k].lead : k \in Wo!WorkLane}
<1> USE IntegrationAssumption
<1> DEFINE Twice(q) == \E a, b \in DOMAIN q : a < b /\ q[b].lead # 0 /\ q[a].lead = q[b].lead
           Good == [i \in 0..WorkLanes |->
                      {q \in Seq(Wo!Works) : Len(q) = i
                         /\ (Twice(q) => Wo!Available(r) \subseteq {q[k].lead : k \in DOMAIN q})}]
           step == [l \in Wo!WorkLane |-> [made \in Seq(Wo!Works) |->
                      Append(made, Wo!OfferFor(r, l, Wo!LeadsOf(made)))]]
<1>1. Wo!Offers(r) = Iterate(step, << >>, WorkLanes)
  BY Zenon DEF Wo!Offers, Wo!Iterate, Iterate
<1>2. << >> \in Good[0]
  <2>1. << >> \in Seq(Wo!Works) /\ Len(<< >>) = 0 /\ ~Twice(<< >>)
    OBVIOUS
  <2>2. 0 \in 0..WorkLanes
    OBVIOUS
  <2> QED
    BY <2>1, <2>2, Zenon
<1>3. ASSUME NEW i \in 1..WorkLanes, NEW q \in Good[i - 1]
      PROVE  step[i][q] \in Good[i]
  <2>1. i - 1 \in 0..WorkLanes /\ i \in 0..WorkLanes /\ i \in Wo!WorkLane
    BY DEF Wo!WorkLane
  <2>2. /\ q \in Seq(Wo!Works) /\ Len(q) = i - 1
        /\ Twice(q) => Wo!Available(r) \subseteq {q[k].lead : k \in DOMAIN q}
    BY <1>3, <2>1, Zenon
  <2>3. PICK taken, o : taken = Wo!LeadsOf(q) /\ o = Wo!OfferFor(r, i, taken)
    OBVIOUS
  <2>4. o \in Wo!Works /\ o.lead \in {0, Wo!Lead(r, taken)}
    BY <2>1, <2>3, OffersAreWorks
  <2>5. o.lead # 0 => Wo!Available(r) \subseteq taken \/ o.lead \notin taken
    BY <2>4, LeadsAreFree
  <2>6. step[i][q] = Append(q, o)
    BY <2>1, <2>2, <2>3, Zenon
  <2>7. PICK p : p = Append(q, o)
    OBVIOUS
  <2>8. /\ p \in Seq(Wo!Works) /\ Len(p) = i /\ p[i] = o /\ DOMAIN p = 1..i
        /\ DOMAIN q = 1..(i - 1) /\ \A k \in 1..(i - 1) : p[k] = q[k]
    BY <2>2, <2>4, <2>7
  <2>9. /\ \A k \in 1..(i - 1) : k \in 1..i
        /\ \A k \in 1..i : k \in 1..(i - 1) \/ k = i
        /\ \A k \in 1..i : ~(i < k)
    OBVIOUS
  <2>10. \A k \in 1..(i - 1) : q[k].lead \in {p[n].lead : n \in DOMAIN p}
    BY <2>8, <2>9, Zenon
  <2>11. taken = {q[k].lead : k \in 1..(i - 1)} \ {0}
    BY <2>3, <2>8, Zenon DEF Wo!LeadsOf
  <2>12. ASSUME Twice(p), NEW x \in Wo!Available(r)
         PROVE  x \in {p[n].lead : n \in DOMAIN p}
    <3>1. PICK a, b \in 1..i : a < b /\ p[b].lead # 0 /\ p[a].lead = p[b].lead
      BY <2>8, <2>12, Zenon
    <3>2. a \in 1..(i - 1)
      BY <3>1
    <3>3. CASE b \in 1..(i - 1)
      <4>1. Twice(q)
        BY <2>8, <3>1, <3>2, <3>3, Zenon
      <4>2. x \in {q[k].lead : k \in 1..(i - 1)}
        BY <2>2, <2>8, <2>12, <4>1, Zenon
      <4> QED
        BY <4>2, <2>10, Zenon
    <3>4. CASE b = i
      <4>1. o.lead # 0 /\ q[a].lead = o.lead
        BY <2>8, <3>1, <3>2, <3>4, Zenon
      <4>2. o.lead \in taken
        BY <2>11, <3>2, <4>1, Zenon
      <4>3. x \in taken
        BY <2>5, <2>12, <4>1, <4>2, Zenon
      <4>4. PICK k \in 1..(i - 1) : x = q[k].lead
        BY <2>11, <4>3, Zenon
      <4> QED
        BY <4>4, <2>10, Zenon
    <3> QED
      BY <2>9, <3>3, <3>4, Zenon
  <2>13. Twice(p) => Wo!Available(r) \subseteq {p[n].lead : n \in DOMAIN p}
    BY <2>12, Zenon
  <2>14. Good[i] = {z \in Seq(Wo!Works) : Len(z) = i
                     /\ (Twice(z) => Wo!Available(r) \subseteq {z[k].lead : k \in DOMAIN z})}
    BY <2>1, Zenon
  <2> HIDE DEF Twice, Good, step
  <2>15. p \in Good[i]
    BY <2>8, <2>13, <2>14
  <2> QED
    BY <2>6, <2>7, <2>15, Zenon
<1>4. WorkLanes \in Nat /\ Wo!WorkLane = 1..WorkLanes
  BY DEF Wo!WorkLane
<1>5. Iterate(step, << >>, WorkLanes) \in Good[WorkLanes]
  <2> HIDE DEF Good, step
  <2>1. Leads(step, WorkLanes, Good)
    BY <1>3, Zenon DEF Leads
  <2> QED
    BY <1>2, <1>4, <2>1, IterateLeads, Zenon
<1>6. PICK q : q = Wo!Offers(r)
  OBVIOUS
<1>7. /\ q \in Seq(Wo!Works) /\ Len(q) = WorkLanes
      /\ Twice(q) => Wo!Available(r) \subseteq {q[k].lead : k \in DOMAIN q}
  <2>1. WorkLanes \in 0..WorkLanes
    BY <1>4
  <2>2. Good[WorkLanes] = {z \in Seq(Wo!Works) : Len(z) = WorkLanes
                            /\ (Twice(z) => Wo!Available(r) \subseteq {z[k].lead : k \in DOMAIN z})}
    BY <2>1, Zenon
  <2> HIDE DEF Twice, Good, step
  <2> QED
    BY <1>1, <1>5, <1>6, <2>2
<1>8. DOMAIN q = Wo!WorkLane
  BY <1>4, <1>7
<1>9. ASSUME NEW l \in Wo!WorkLane, NEW m \in Wo!WorkLane, l # m, q[l].lead # 0,
             q[l].lead = q[m].lead
      PROVE  Wo!Available(r) \subseteq {q[k].lead : k \in Wo!WorkLane}
  <2>1. l < m \/ m < l
    BY <1>4, <1>9
  <2>2. Twice(q)
    BY <1>8, <1>9, <2>1, Zenon
  <2> QED
    BY <1>7, <1>8, <2>2, Zenon
<1>10. \A l, m \in Wo!WorkLane :
          l # m /\ q[l].lead # 0 /\ q[l].lead = q[m].lead
            => Wo!Available(r) \subseteq {q[k].lead : k \in Wo!WorkLane}
  BY <1>9, Zenon
<1> HIDE DEF Twice, Good, step
<1> QED
  BY <1>6, <1>7, <1>10

(* Every step of the ledger, the polls and the waker keeps this.             *)
LEMMA WorkOffersStep ==
  ASSUME Wo!WorkOffersInv, Wo!WorkOffersNext
  PROVE  Wo!WorkOffersInv' /\ Wo!LeadsAreSpreadStep
<1> USE IntegrationAssumption
<1>1. /\ Wo!OwnersShape
      /\ Wo!PublishedShape
      /\ Wo!AttemptsShape
      /\ Wo!AskedShape
      /\ Wo!CountedShape
      /\ Wo!RoundShape
      /\ Wo!RoundIsSpread
      /\ Wo!AttemptsAreTheOffers
  BY DEF Wo!WorkOffersInv
<1>2. ASSUME Wo!LedgerMoves
      PROVE  Wo!WorkOffersInv' /\ Wo!LeadsAreSpreadStep
  <2>1. s2' = s2 /\ s3' = s3 /\ s4' = s4 /\ s5' = s5 /\ s6' = s6
    BY <1>2, Zenon DEF Wo!LedgerMoves
  <2>2. \A k : (Wo!LedTo(k))' = Wo!LedTo(k)
    BY <2>1, Zenon DEF Wo!LedTo
  <2>3. PICK i \in Wo!WorkIssue, l \in 0..WorkLanes : s1' = [s1 EXCEPT ![i] = l]
    BY <1>2, Zenon DEF Wo!LedgerMoves
  <2>4. Wo!PublishedShape' /\ Wo!AttemptsShape' /\ Wo!AskedShape'
    BY <1>1, <2>1, Zenon DEF Wo!PublishedShape, Wo!AttemptsShape, Wo!AskedShape
  <2>5. Wo!CountedShape' /\ Wo!RoundShape' /\ Wo!AttemptsAreTheOffers'
    BY <1>1, <2>1, Zenon DEF Wo!CountedShape, Wo!RoundShape, Wo!AttemptsAreTheOffers
  <2>6. Wo!OwnersShape'
    BY <1>1, <2>3 DEF Wo!OwnersShape
  <2>7. Wo!RoundIsSpread'
    BY <1>1, <2>1, <2>2, Zenon DEF Wo!RoundIsSpread
  <2>8. Wo!LeadsAreSpreadStep
    BY <2>1, Zenon DEF Wo!LeadsAreSpreadStep
  <2> QED
    BY <2>4, <2>5, <2>6, <2>7, <2>8 DEF Wo!WorkOffersInv
<1>3. ASSUME NEW l \in WokenLanes, Wo!AskFor(l)
      PROVE  Wo!WorkOffersInv' /\ Wo!LeadsAreSpreadStep
  <2>1. s1' = s1 /\ s2' = s2 /\ s3' = s3 /\ s4' = s4 /\ s6' = s6
    BY <1>3, Zenon DEF Wo!AskFor
  <2>2. s5' = [lane |-> l, offer |-> s2[l]]
    BY <1>3, Zenon DEF Wo!AskFor
  <2>3. \A k : (Wo!LedTo(k))' = Wo!LedTo(k)
    BY <2>1, Zenon DEF Wo!LedTo
  <2>4. Wo!OwnersShape' /\ Wo!PublishedShape' /\ Wo!AttemptsShape'
    BY <1>1, <2>1, Zenon DEF Wo!OwnersShape, Wo!PublishedShape, Wo!AttemptsShape
  <2>5. Wo!CountedShape' /\ Wo!RoundShape' /\ Wo!AttemptsAreTheOffers'
    BY <1>1, <2>1, Zenon DEF Wo!CountedShape, Wo!RoundShape, Wo!AttemptsAreTheOffers
  <2>6. Wo!AskedShape'
    BY <2>2 DEF Wo!AskedShape
  <2>7. Wo!RoundIsSpread'
    BY <1>1, <2>1, <2>3, Zenon DEF Wo!RoundIsSpread
  <2>8. Wo!LeadsAreSpreadStep
    BY <2>1, Zenon DEF Wo!LeadsAreSpreadStep
  <2> QED
    BY <2>4, <2>5, <2>6, <2>7, <2>8 DEF Wo!WorkOffersInv
<1>4. ASSUME Wo!CountAttempt
      PROVE  Wo!WorkOffersInv' /\ Wo!LeadsAreSpreadStep
  <2>1. s1' = s1 /\ s2' = s2 /\ s4' = s4
    BY <1>4, Zenon DEF Wo!CountAttempt
  <2>2. s5' = [lane |-> 0, offer |-> Wo!NoWork]
    BY <1>4, Zenon DEF Wo!CountAttempt
  <2>3. \A k : (Wo!LedTo(k))' = Wo!LedTo(k)
    BY <2>1, Zenon DEF Wo!LedTo
  <2>4. s5.lane \in Wo!WorkLane
    <3>1. s5.lane \in 0..WorkLanes /\ s5.lane # 0
      BY <1>1, <1>4, Zenon DEF Wo!AskedShape, Wo!CountAttempt
    <3> QED
      BY <3>1 DEF Wo!WorkLane
  <2>5. \/ s3' = s3 /\ s6' = s6
        \/ /\ s2[s5.lane] = s5.offer /\ s3[s5.lane] < MaxTries
           /\ s3' = [s3 EXCEPT ![s5.lane] = @ + 1] /\ s6' = [s6 EXCEPT ![s5.lane] = s5.offer]
    BY <1>4, Zenon DEF Wo!CountAttempt, Wo!Same
  <2>6. s2[s5.lane] \in Wo!Works
    BY <1>1, <2>4 DEF Wo!PublishedShape
  <2>7. Wo!OwnersShape' /\ Wo!PublishedShape' /\ Wo!RoundShape'
    BY <1>1, <2>1, Zenon DEF Wo!OwnersShape, Wo!PublishedShape, Wo!RoundShape
  <2>8. Wo!AttemptsShape'
    BY <1>1, <2>4, <2>5 DEF Wo!AttemptsShape
  <2>9. Wo!AskedShape'
    BY <2>2 DEF Wo!AskedShape
  <2>10. Wo!CountedShape'
    BY <1>1, <2>4, <2>5, <2>6 DEF Wo!CountedShape
  <2>11. Wo!RoundIsSpread'
    BY <1>1, <2>1, <2>3, Zenon DEF Wo!RoundIsSpread
  <2>12. Wo!AttemptsAreTheOffers'
    BY <1>1, <2>1, <2>4, <2>5 DEF Wo!AttemptsAreTheOffers, Wo!AttemptsShape, Wo!CountedShape
  <2>13. Wo!LeadsAreSpreadStep
    BY <2>1, Zenon DEF Wo!LeadsAreSpreadStep
  <2> QED
    BY <2>7, <2>8, <2>9, <2>10, <2>11, <2>12, <2>13 DEF Wo!WorkOffersInv
<1>5. ASSUME Wo!ReadWork
      PROVE  Wo!WorkOffersInv' /\ Wo!LeadsAreSpreadStep
  <2>1. s1' = s1 /\ s2' = s2 /\ s3' = s3 /\ s5' = s5 /\ s6' = s6
    BY <1>5, Zenon DEF Wo!ReadWork
  <2>2. s4 = Wo!NoRound
    BY <1>5, Zenon DEF Wo!ReadWork
  <2>3. PICK r : r.owns = s1 /\ s4' = [lane |-> 1, offers |-> Wo!Offers(r), free |-> Wo!Available(r)]
    <3>1. PICK stuck \in SUBSET Wo!WorkIssue, f \in [Wo!WorkLane -> Wo!Fitness],
              idle \in SUBSET Wo!WorkLane, backlog \in SUBSET Wo!WorkIssue :
             s4' = [lane |-> 1,
                    offers |-> Wo!Offers([owns |-> s1, stuck |-> stuck, backlog |-> backlog, fit |-> f, idle |-> idle]),
                    free |-> Wo!Available([owns |-> s1, stuck |-> stuck, backlog |-> backlog, fit |-> f, idle |-> idle])]
      BY <1>5, ZenonT(30) DEF Wo!ReadWork
    <3>2. PICK r : r = [owns |-> s1, stuck |-> stuck, backlog |-> backlog, fit |-> f, idle |-> idle]
      OBVIOUS
    <3>3. r.owns = s1
      BY <3>2
    <3> QED
      BY <3>1, <3>2, <3>3, Zenon
  <2>4. PICK q : q = Wo!Offers(r)
    OBVIOUS
  <2>5. /\ q \in Seq(Wo!Works) /\ Len(q) = WorkLanes /\ Wo!Available(r) \in SUBSET Wo!WorkIssue
        /\ \A l, m \in Wo!WorkLane :
             l # m /\ q[l].lead # 0 /\ q[l].lead = q[m].lead
               => Wo!Available(r) \subseteq {q[k].lead : k \in Wo!WorkLane}
    <3>1. r.owns \in [Wo!WorkIssue -> 0..WorkLanes]
      BY <1>1, <2>3, Zenon DEF Wo!OwnersShape
    <3>2. Wo!Available(r) \in SUBSET Wo!WorkIssue
      BY Zenon DEF Wo!Available
    <3>3. /\ Wo!Offers(r) \in Seq(Wo!Works) /\ Len(Wo!Offers(r)) = WorkLanes
          /\ \A l, m \in Wo!WorkLane :
               l # m /\ Wo!Offers(r)[l].lead # 0 /\ Wo!Offers(r)[l].lead = Wo!Offers(r)[m].lead
                 => Wo!Available(r) \subseteq {Wo!Offers(r)[k].lead : k \in Wo!WorkLane}
      BY <3>1, OffersAreSpread, Zenon
    <3> QED
      BY <3>2, <3>3, <2>4, Zenon
  <2>6. /\ s4' = [lane |-> 1, offers |-> q, free |-> Wo!Available(r)]
        /\ s4'.lane = 1 /\ s4'.offers = q /\ s4'.free = Wo!Available(r) /\ 1 \in Wo!WorkLane
        /\ q \in [1..WorkLanes -> Wo!Works] /\ Wo!WorkLane = 1..WorkLanes
    <3>1. s4' = [lane |-> 1, offers |-> q, free |-> Wo!Available(r)]
      BY <2>3, <2>4, Zenon
    <3>2. s4'.lane = 1 /\ s4'.offers = q /\ s4'.free = Wo!Available(r)
      BY <3>1
    <3>3. q \in [1..WorkLanes -> Wo!Works]
      BY <2>5
    <3> QED
      BY <3>1, <3>2, <3>3 DEF Wo!WorkLane
  <2>7. Wo!OwnersShape' /\ Wo!PublishedShape' /\ Wo!AttemptsShape'
    BY <1>1, <2>1, Zenon DEF Wo!OwnersShape, Wo!PublishedShape, Wo!AttemptsShape
  <2>8. Wo!AskedShape' /\ Wo!CountedShape' /\ Wo!AttemptsAreTheOffers'
    BY <1>1, <2>1, Zenon DEF Wo!AskedShape, Wo!CountedShape, Wo!AttemptsAreTheOffers
  <2>9. Wo!RoundShape'
    <3>1. s4' \in [lane : Wo!WorkLane, offers : {q}, free : SUBSET Wo!WorkIssue]
      BY <2>6, <2>5
    <3> QED
      BY <2>6, <3>1, Zenon DEF Wo!RoundShape
  <2>10. Wo!RoundIsSpread'
    <3>1. \A l \in Wo!WorkLane : (Wo!LedTo(l))' = q[l].lead
      BY <2>6 DEF Wo!LedTo
    <3>2. ASSUME NEW l \in Wo!WorkLane, NEW m \in Wo!WorkLane, l # m, q[l].lead # 0, q[l].lead = q[m].lead,
                 NEW i \in Wo!Available(r)
          PROVE  \E k \in Wo!WorkLane : q[k].lead = i
      BY <3>2, <2>5, Zenon
    <3>3. s4'.free = Wo!Available(r)
      BY <2>6, Zenon
    <3> QED
      BY <3>1, <3>2, <3>3, Zenon DEF Wo!RoundIsSpread
  <2>11. Wo!LeadsAreSpreadStep
    BY <2>2, Zenon DEF Wo!LeadsAreSpreadStep
  <2> QED
    BY <2>7, <2>8, <2>9, <2>10, <2>11 DEF Wo!WorkOffersInv
<1>6. ASSUME Wo!Publish
      PROVE  Wo!WorkOffersInv' /\ Wo!LeadsAreSpreadStep
  <2>1. s1' = s1 /\ s5' = s5
    BY <1>6, Zenon DEF Wo!Publish
  <2>2. s4 # Wo!NoRound
    BY <1>6, Zenon DEF Wo!Publish
  <2>3. PICK l, q, free : /\ l = s4.lane /\ q = s4.offers /\ free = s4.free
                     /\ l \in Wo!WorkLane /\ q \in [l..WorkLanes -> Wo!Works] /\ free \in SUBSET Wo!WorkIssue
    <3>1. /\ s4 \in [lane : Wo!WorkLane, offers : {s4.offers}, free : SUBSET Wo!WorkIssue]
          /\ s4.offers \in [s4.lane..WorkLanes -> Wo!Works]
      BY <1>1, <2>2, Zenon DEF Wo!RoundShape
    <3>2. s4.lane \in Wo!WorkLane /\ s4.free \in SUBSET Wo!WorkIssue
      BY <3>1
    <3> QED
      BY <3>1, <3>2, Zenon
  <2>4. l \in 1..WorkLanes /\ q[l] \in Wo!Works /\ Wo!WorkLane = 1..WorkLanes
    BY <2>3 DEF Wo!WorkLane
  <2>5. /\ s2' = [s2 EXCEPT ![l] = q[l]]
        /\ s3' = [s3 EXCEPT ![l] = Wo!Dispatch(l, q[l])]
        /\ s6' = (IF s3'[l] > 0 THEN s6 ELSE [s6 EXCEPT ![l] = Wo!NoWork])
    BY <1>6, <2>3, Zenon DEF Wo!Publish
  <2>6. \/ l = WorkLanes /\ s4' = Wo!NoRound
        \/ /\ l # WorkLanes
           /\ s4' = [s4 EXCEPT !.lane = @ + 1, !.offers = [k \in (l + 1)..WorkLanes |-> @[k]]]
    BY <1>6, <2>3, Zenon DEF Wo!Publish
  <2>7. Wo!Dispatch(l, q[l]) \in 0..MaxTries /\ (Wo!Dispatch(l, q[l]) # 0 => q[l] = s2[l] /\ Wo!Dispatch(l, q[l]) = s3[l])
    <3>1. \/ Wo!Dispatch(l, q[l]) = 0
          \/ q[l] = s2[l] /\ Wo!Dispatch(l, q[l]) = s3[l]
      BY Zenon DEF Wo!Dispatch
    <3>2. s3[l] \in 0..MaxTries
      BY <1>1, <2>3 DEF Wo!AttemptsShape
    <3> QED
      BY <3>1, <3>2
  <2>8. /\ s2' \in [Wo!WorkLane -> Wo!Works] /\ s2'[l] = q[l]
        /\ \A k \in Wo!WorkLane : k # l => s2'[k] = s2[k]
    BY <1>1, <2>5, <2>4 DEF Wo!PublishedShape
  <2>9. /\ s3' \in [Wo!WorkLane -> 0..MaxTries] /\ s3'[l] = Wo!Dispatch(l, q[l])
        /\ \A k \in Wo!WorkLane : k # l => s3'[k] = s3[k]
    BY <1>1, <2>5, <2>4, <2>7 DEF Wo!AttemptsShape
  <2>10. /\ s6' \in [Wo!WorkLane -> Wo!Works] /\ (s3'[l] > 0 => s6' = s6)
         /\ \A k \in Wo!WorkLane : k # l => s6'[k] = s6[k]
    BY <1>1, <2>5, <2>4, NoWorkIsWork DEF Wo!CountedShape
  <2>11. \A a, b \in Wo!WorkLane :
             a # b /\ Wo!LedTo(a) # 0 /\ Wo!LedTo(a) = Wo!LedTo(b) =>
                 \A i \in free : \E k \in Wo!WorkLane : Wo!LedTo(k) = i
    BY <1>1, <2>2, <2>3, Zenon DEF Wo!RoundIsSpread
  <2>12. \A k \in Wo!WorkLane : Wo!LedTo(k) = IF k < l THEN s2[k].lead ELSE q[k].lead
    BY <2>3 DEF Wo!LedTo
  <2>13. Wo!OwnersShape' /\ Wo!AskedShape'
    BY <1>1, <2>1, Zenon DEF Wo!OwnersShape, Wo!AskedShape
  <2>14. Wo!PublishedShape'
    BY <2>8 DEF Wo!PublishedShape
  <2>15. Wo!AttemptsShape'
    BY <2>9 DEF Wo!AttemptsShape
  <2>16. Wo!CountedShape'
    BY <2>10 DEF Wo!CountedShape
  <2>17. Wo!RoundShape'
    <3>1. CASE s4' = Wo!NoRound
      BY <3>1, Zenon DEF Wo!RoundShape, Wo!NoRound
    <3>2. CASE /\ l # WorkLanes
               /\ s4' = [s4 EXCEPT !.lane = @ + 1, !.offers = [k \in (l + 1)..WorkLanes |-> @[k]]]
      <4>1. PICK p : p = [k \in (l + 1)..WorkLanes |-> q[k]]
        OBVIOUS
      <4>2. p \in [(l + 1)..WorkLanes -> Wo!Works] /\ l + 1 \in Wo!WorkLane
        <5>1. \A k \in (l + 1)..WorkLanes : q[k] \in Wo!Works
          BY <2>3, <2>4
        <5>2. l # WorkLanes
          BY <3>2, Zenon
        <5>3. WorkLanes \in Nat
          OBVIOUS
        <5>4. l + 1 \in 1..WorkLanes
          BY <5>2, <5>3, <2>4
        <5>5. p \in [(l + 1)..WorkLanes -> Wo!Works]
          BY <4>1, <5>1, Zenon
        <5> QED
          BY <5>4, <5>5, <2>4, Zenon
      <4>3. s4' = [s4 EXCEPT !.lane = l + 1, !.offers = p]
        BY <3>2, <4>1, <2>3, Zenon
      <4>4. s4 \in [lane : Wo!WorkLane, offers : {q}, free : SUBSET Wo!WorkIssue]
        BY <1>1, <2>2, <2>3, Zenon DEF Wo!RoundShape
      <4>5. /\ s4' \in [lane : Wo!WorkLane, offers : {p}, free : SUBSET Wo!WorkIssue]
            /\ s4'.lane = l + 1 /\ s4'.offers = p /\ s4'.free = free
        BY <4>2, <4>3, <4>4, <2>3
      <4> QED
        BY <4>2, <4>5, Zenon DEF Wo!RoundShape
    <3> QED
      BY <2>6, <3>1, <3>2
  <2>18. Wo!RoundIsSpread'
    <3>1. CASE s4' = Wo!NoRound
      BY <3>1, Zenon DEF Wo!RoundIsSpread, Wo!NoRound
    <3>2. CASE /\ l # WorkLanes
               /\ s4' = [s4 EXCEPT !.lane = @ + 1, !.offers = [k \in (l + 1)..WorkLanes |-> @[k]]]
      <4>1. PICK p : p = [k \in (l + 1)..WorkLanes |-> q[k]]
        OBVIOUS
      <4>2. p \in [(l + 1)..WorkLanes -> Wo!Works] /\ l + 1 \in Wo!WorkLane
        <5>1. \A k \in (l + 1)..WorkLanes : q[k] \in Wo!Works
          BY <2>3, <2>4
        <5>2. l # WorkLanes
          BY <3>2, Zenon
        <5>3. WorkLanes \in Nat
          OBVIOUS
        <5>4. l + 1 \in 1..WorkLanes
          BY <5>2, <5>3, <2>4
        <5>5. p \in [(l + 1)..WorkLanes -> Wo!Works]
          BY <4>1, <5>1, Zenon
        <5> QED
          BY <5>4, <5>5, <2>4, Zenon
      <4>3. s4' = [s4 EXCEPT !.lane = l + 1, !.offers = p]
        BY <3>2, <4>1, <2>3, Zenon
      <4>4. s4 \in [lane : Wo!WorkLane, offers : {q}, free : SUBSET Wo!WorkIssue]
        BY <1>1, <2>2, <2>3, Zenon DEF Wo!RoundShape
      <4>5. /\ s4' \in [lane : Wo!WorkLane, offers : {p}, free : SUBSET Wo!WorkIssue]
            /\ s4'.lane = l + 1 /\ s4'.offers = p /\ s4'.free = free
        BY <4>2, <4>3, <4>4, <2>3
      <4>6. \A k \in Wo!WorkLane : (Wo!LedTo(k))' = Wo!LedTo(k)
        <5>1. SUFFICES ASSUME NEW k \in Wo!WorkLane PROVE (Wo!LedTo(k))' = Wo!LedTo(k)
          BY Zenon
        <5>2. (Wo!LedTo(k))' = IF k < l + 1 THEN s2'[k].lead ELSE p[k].lead
          BY <4>5, Zenon DEF Wo!LedTo
        <5>3. CASE k < l
          BY <5>2, <5>3, <2>12, <2>8, <2>4
        <5>4. CASE k = l
          BY <5>2, <5>4, <2>12, <2>8, <2>4
        <5>5. CASE k > l
          <6>1. k \in (l + 1)..WorkLanes
            BY <5>5, <2>4
          <6>2. p[k] = q[k]
            BY <4>1, <6>1
          <6> QED
            BY <5>2, <5>5, <6>2, <2>12, <2>4
        <5>6. k < l \/ k = l \/ k > l
          BY <2>4
        <5> QED
          BY <5>3, <5>4, <5>5, <5>6
      <4> QED
        BY <4>5, <4>6, <2>11, Zenon DEF Wo!RoundIsSpread
    <3> QED
      BY <2>6, <3>1, <3>2
  <2>19. Wo!AttemptsAreTheOffers'
    <3>1. ASSUME NEW k \in Wo!WorkLane, s3'[k] > 0
          PROVE  s6'[k] = s2'[k]
      <4>1. CASE k = l
        <5>1. q[l] = s2[l] /\ s3'[l] = s3[l]
          BY <3>1, <4>1, <2>9, <2>7
        <5>2. s6' = s6 /\ s6[l] = s2[l]
          BY <1>1, <3>1, <4>1, <5>1, <2>10 DEF Wo!AttemptsAreTheOffers
        <5> QED
          BY <4>1, <5>1, <5>2, <2>8
      <4>2. CASE k # l
        BY <1>1, <3>1, <4>2, <2>8, <2>9, <2>10 DEF Wo!AttemptsAreTheOffers
      <4> QED
        BY <4>1, <4>2
    <3> QED
      BY <3>1, Zenon DEF Wo!AttemptsAreTheOffers
  <2>20. Wo!LeadsAreSpreadStep
    <3>1. CASE /\ l # WorkLanes
               /\ s4' = [s4 EXCEPT !.lane = @ + 1, !.offers = [k \in (l + 1)..WorkLanes |-> @[k]]]
      <4>1. s4 \in [lane : Wo!WorkLane, offers : {q}, free : SUBSET Wo!WorkIssue]
        BY <1>1, <2>2, <2>3, Zenon DEF Wo!RoundShape
      <4>2. s4'.lane = l + 1
        BY <3>1, <4>1, <2>3
      <4>3. Wo!NoRound.lane = WorkLanes + 1
        BY DEF Wo!NoRound
      <4>4. l # WorkLanes /\ l \in Int /\ WorkLanes \in Int
        BY <3>1, <2>4
      <4>5. s4'.lane # Wo!NoRound.lane
        BY <4>2, <4>3, <4>4
      <4>6. s4' # Wo!NoRound
        BY <4>5, Zenon
      <4> QED
        BY <4>6, Zenon DEF Wo!LeadsAreSpreadStep
    <3>2. CASE l = WorkLanes
      <4>1. \A k \in Wo!WorkLane : Wo!LedTo(k) = s2'[k].lead
        <5>1. SUFFICES ASSUME NEW k \in Wo!WorkLane PROVE Wo!LedTo(k) = s2'[k].lead
          BY Zenon
        <5>2. CASE k = l
          BY <5>2, <2>12, <2>8, <2>4
        <5>3. CASE k # l
          <6>1. k < l
            BY <3>2, <5>3, <2>4
          <6> QED
            BY <5>3, <6>1, <2>12, <2>8
        <5> QED
          BY <5>2, <5>3
      <4>2. ASSUME NEW a \in Wo!WorkLane, NEW b \in Wo!WorkLane, a # b, s2'[a].lead # 0,
                   s2'[a].lead = s2'[b].lead, NEW i \in free
            PROVE  i \in {s2'[k].lead : k \in Wo!WorkLane}
        <5>1. PICK k \in Wo!WorkLane : Wo!LedTo(k) = i
          BY <4>1, <4>2, <2>11, Zenon
        <5> QED
          BY <4>1, <5>1
      <4> QED
        BY <4>2, <2>3, Zenon DEF Wo!LeadsAreSpreadStep
    <3> QED
      BY <2>6, <3>1, <3>2
  <2> QED
    BY <2>13, <2>14, <2>15, <2>16, <2>17, <2>18, <2>19, <2>20 DEF Wo!WorkOffersInv
<1> QED
  BY <1>2, <1>3, <1>4, <1>5, <1>6, Zenon DEF Wo!WorkOffersNext

(* Nothing is offered, and nobody was asked.                                 *)
LEMMA WorkOffersInitially == Wo!WorkOffersInit => Wo!WorkOffersInv
<1> SUFFICES ASSUME Wo!WorkOffersInit PROVE Wo!WorkOffersInv
  OBVIOUS
<1> USE IntegrationAssumption
<1>1. /\ s1 = [i \in Wo!WorkIssue |-> 0] /\ s2 = [l \in Wo!WorkLane |-> Wo!NoWork]
      /\ s3 = [l \in Wo!WorkLane |-> 0] /\ s4 = Wo!NoRound
      /\ s5 = [lane |-> 0, offer |-> Wo!NoWork] /\ s6 = [l \in Wo!WorkLane |-> Wo!NoWork]
  BY Zenon DEF Wo!WorkOffersInit
<1>2. Wo!OwnersShape /\ Wo!AttemptsShape /\ Wo!AskedShape
  BY <1>1 DEF Wo!OwnersShape, Wo!AttemptsShape, Wo!AskedShape
<1>3. Wo!PublishedShape /\ Wo!CountedShape
  BY <1>1, NoWorkIsWork DEF Wo!PublishedShape, Wo!CountedShape
<1>4. Wo!RoundShape /\ Wo!RoundIsSpread
  BY <1>1, Zenon DEF Wo!RoundShape, Wo!RoundIsSpread
<1>5. Wo!AttemptsAreTheOffers
  BY <1>1 DEF Wo!AttemptsAreTheOffers
<1> QED
  BY <1>2, <1>3, <1>4, <1>5 DEF Wo!WorkOffersInv

(* The poll under way is at a lane, or through.                              *)
LEMMA WorkOffersSaySo ==
  ASSUME Wo!WorkOffersInv
  PROVE  Wo!WorkOffersTypeOK /\ Wo!AttemptsAreTheOffers
<1> USE IntegrationAssumption
<1>1. /\ Wo!OwnersShape /\ Wo!PublishedShape /\ Wo!AttemptsShape /\ Wo!AskedShape
      /\ Wo!RoundShape /\ Wo!AttemptsAreTheOffers
  BY Zenon DEF Wo!WorkOffersInv
<1>2. s4.lane \in 1..(WorkLanes + 1)
  <2>1. CASE s4 = Wo!NoRound
    BY <2>1 DEF Wo!NoRound
  <2>2. CASE s4 # Wo!NoRound
    <3>1. s4 \in [lane : Wo!WorkLane, offers : {s4.offers}, free : SUBSET Wo!WorkIssue]
      BY <1>1, <2>2, Zenon DEF Wo!RoundShape
    <3>2. s4.lane \in Wo!WorkLane
      BY <3>1
    <3> QED
      BY <3>2 DEF Wo!WorkLane
  <2> QED
    BY <2>1, <2>2
<1> QED
  BY <1>1, <1>2, Zenon DEF Wo!WorkOffersTypeOK, Wo!OwnersShape, Wo!PublishedShape,
     Wo!AttemptsShape, Wo!AskedShape

(* Where nothing happens nothing changes.                                    *)
LEMMA WorkOffersStay ==
  ASSUME Wo!WorkOffersInv, UNCHANGED Wo!workVars
  PROVE  Wo!WorkOffersInv' /\ Wo!LeadsAreSpreadStep
<1>1. /\ Wo!OwnersShape
      /\ Wo!PublishedShape
      /\ Wo!AttemptsShape
      /\ Wo!AskedShape
      /\ Wo!CountedShape
      /\ Wo!RoundShape
      /\ Wo!RoundIsSpread
      /\ Wo!AttemptsAreTheOffers
  BY DEF Wo!WorkOffersInv
<1>2. s1' = s1 /\ s2' = s2 /\ s3' = s3 /\ s4' = s4 /\ s5' = s5 /\ s6' = s6
  BY DEF Wo!workVars
<1>3. \A k : (Wo!LedTo(k))' = Wo!LedTo(k)
  BY <1>2, Zenon DEF Wo!LedTo
<1>4. Wo!OwnersShape' /\ Wo!PublishedShape' /\ Wo!AttemptsShape'
  BY <1>1, <1>2, Zenon DEF Wo!OwnersShape, Wo!PublishedShape, Wo!AttemptsShape
<1>5. Wo!AskedShape' /\ Wo!CountedShape' /\ Wo!RoundShape'
  BY <1>1, <1>2, Zenon DEF Wo!AskedShape, Wo!CountedShape, Wo!RoundShape
<1>6. Wo!AttemptsAreTheOffers'
  BY <1>1, <1>2, Zenon DEF Wo!AttemptsAreTheOffers
<1>7. Wo!RoundIsSpread'
  BY <1>1, <1>2, <1>3, Zenon DEF Wo!RoundIsSpread
<1>8. Wo!LeadsAreSpreadStep
  BY <1>1, <1>2, <1>3 DEF Wo!LeadsAreSpreadStep
<1> QED
  BY <1>4, <1>5, <1>6, <1>7, <1>8 DEF Wo!WorkOffersInv

(* What a reading becomes beside the record: the pull request as it is, with
   the rounds, the re-run and the grants of the record carried on.           *)
LEMMA ReadingIsCarried ==
  ASSUME NEW b \in Pr!Readings, s1 \in [head : 1..MaxHeads, run : 0..MaxRuns,
             checks : Pr!Finished \cup {"pending"}, reviews : 0..MaxReviews]
  PROVE  LET c == Pr!Carried(b, s1)
         IN  /\ c \in Pr!Readings
             /\ c.head = s1.head /\ c.checks = s1.checks /\ c.reviews = s1.reviews
             /\ c.granted = b.granted /\ (c.rerun <=> (b.head = s1.head /\ b.rerun))
             /\ c.round = IF s1.checks \in Pr!Finished THEN s1.head ELSE b.round
             /\ c.rounds = IF s1.checks \in Pr!Finished /\ s1.head # b.round THEN b.rounds + 1 ELSE b.rounds
<1> USE IntegrationAssumption
<1>1. PICK n : n = IF s1.checks \in Pr!Finished /\ s1.head # b.round THEN b.rounds + 1 ELSE b.rounds
  OBVIOUS
<1>2. PICK o : o = IF s1.checks \in Pr!Finished THEN s1.head ELSE b.round
  OBVIOUS
<1>3. PICK k \in BOOLEAN : k = (b.head = s1.head /\ b.rerun)
  OBVIOUS
<1>4. PICK p \in BOOLEAN :
         p = (s1.checks = "pending" /\ b.checks = "pending" /\ b.head = s1.head /\ b.stalled)
  OBVIOUS
<1>5. PICK c : c = Pr!Carried(b, s1)
  OBVIOUS
<1>6. c = [head |-> s1.head, checks |-> s1.checks, reviews |-> s1.reviews, stalled |-> p,
           rerun |-> k, rounds |-> n, round |-> o,
           granted |-> b.granted, taken |-> b.taken, exhausted |-> b.exhausted]
  BY <1>1, <1>2, <1>3, <1>4, <1>5, Zenon DEF Pr!Carried, Pr!PendingClock, Pr!RerunKept,
     Pr!CiRounds, Pr!SameHead
<1>7. /\ s1.head \in 0..MaxHeads /\ s1.checks \in Pr!Finished \cup {"pending", ""}
      /\ s1.reviews \in 0..MaxReviews
  <2>1. s1.head \in 1..MaxHeads /\ s1.checks \in Pr!Finished \cup {"pending"} /\ s1.reviews \in 0..MaxReviews
    OBVIOUS
  <2>2. 1..MaxHeads \subseteq 0..MaxHeads
    OBVIOUS
  <2> QED
    BY <2>1, <2>2
<1>8. b.rounds \in Nat /\ b.round \in 0..MaxHeads /\ b.granted \in Nat /\ b.taken \in BOOLEAN
      /\ b.exhausted \in Nat
  BY DEF Pr!Readings
<1>9. n \in Nat /\ o \in 0..MaxHeads
  <2>1. n \in Nat
    <3>1. n = b.rounds \/ n = b.rounds + 1
      BY <1>1, Zenon
    <3> QED
      BY <3>1, <1>8
  <2>2. o \in 0..MaxHeads
    BY <1>2, <1>7, <1>8, Zenon
  <2> QED
    BY <2>1, <2>2
<1>10. c \in Pr!Readings
  BY <1>6, <1>7, <1>8, <1>9 DEF Pr!Readings
<1>11. /\ c.head = s1.head /\ c.checks = s1.checks /\ c.reviews = s1.reviews
       /\ c.granted = b.granted /\ c.rerun = k /\ c.round = o /\ c.rounds = n
  BY <1>6
<1>12. c.rerun <=> (b.head = s1.head /\ b.rerun)
  BY <1>3, <1>11
<1> QED
  BY <1>1, <1>2, <1>5, <1>10, <1>11, <1>12, Zenon

(* An answer and the round limit leave the reading, and count a grant.       *)
LEMMA LimitCountsTheGrant ==
  ASSUME NEW c \in Pr!Readings
  PROVE  LET r == Pr!RoundLimit(Pr!Answered(c))
         IN  /\ r \in Pr!Readings
             /\ r.head = c.head /\ r.checks = c.checks /\ r.reviews = c.reviews
             /\ r.rerun = c.rerun /\ r.round = c.round /\ r.rounds = c.rounds
             /\ r.stalled = c.stalled
             /\ r.granted = IF s3 = "grant" THEN c.granted + 1 ELSE c.granted
<1>1. PICK g : g = IF s3 = "grant" THEN c.granted + 1 ELSE c.granted
  OBVIOUS
<1>2. PICK t \in BOOLEAN : t = (c.taken \/ s3 = "takeover")
  OBVIOUS
<1>3. PICK a : a = Pr!Answered(c)
  OBVIOUS
<1>4. a = [c EXCEPT !.granted = g, !.taken = t]
  BY <1>1, <1>2, <1>3, Zenon DEF Pr!Answered
<1>5. g \in Nat
  <2>1. c.granted \in Nat
    BY DEF Pr!Readings
  <2>2. g = c.granted \/ g = c.granted + 1
    BY <1>1, Zenon
  <2> QED
    BY <2>1, <2>2
<1>6. /\ a \in Pr!Readings
      /\ a.head = c.head /\ a.checks = c.checks /\ a.reviews = c.reviews
      /\ a.rerun = c.rerun /\ a.round = c.round /\ a.rounds = c.rounds
      /\ a.stalled = c.stalled /\ a.granted = g
  BY <1>4, <1>5 DEF Pr!Readings
<1>7. PICK x \in {0, a.rounds} : Pr!RoundLimit(a) = [a EXCEPT !.exhausted = x]
  BY Zenon DEF Pr!RoundLimit
<1>8. PICK r : r = Pr!RoundLimit(a)
  OBVIOUS
<1>9. /\ r \in Pr!Readings
      /\ r.head = a.head /\ r.checks = a.checks /\ r.reviews = a.reviews
      /\ r.rerun = a.rerun /\ r.round = a.round /\ r.rounds = a.rounds
      /\ r.stalled = a.stalled /\ r.granted = a.granted
  <2>1. x \in Nat
    <3>1. a.rounds \in Nat
      BY <1>6 DEF Pr!Readings
    <3> QED
      BY <1>7, <3>1
  <2>2. r = [a EXCEPT !.exhausted = x]
    BY <1>7, <1>8
  <2> QED
    BY <1>6, <2>1, <2>2 DEF Pr!Readings
<1> QED
  BY <1>1, <1>3, <1>6, <1>8, <1>9

(* What a reading counts are numbers.                                        *)
LEMMA ReadingsAreNumbers ==
  ASSUME NEW b \in Pr!Readings
  PROVE  /\ b.head \in Nat /\ b.round \in Nat /\ b.rounds \in Nat
         /\ b.granted \in Nat /\ b.reviews \in Nat
<1> USE IntegrationAssumption
<1>1. /\ b.head \in 0..MaxHeads /\ b.round \in 0..MaxHeads /\ b.rounds \in Nat
      /\ b.granted \in Nat /\ b.reviews \in 0..MaxReviews
  BY DEF Pr!Readings
<1> QED
  BY <1>1

(* Every step of the forge, the operator and the polls keeps this.           *)
LEMMA PullRequestsStep ==
  ASSUME Pr!PullRequestsInv, Pr!PullRequestsNext
  PROVE  Pr!PullRequestsInv'
<1> USE IntegrationAssumption
<1>1. /\ Pr!PulledShape
      /\ Pr!SeenShape
      /\ Pr!DecisionShape
      /\ Pr!StageShape
      /\ Pr!HeardShape
      /\ Pr!CountShape
      /\ Pr!SavedWasTold
      /\ Pr!ToldIsRead
      /\ Pr!AskedIsRead
      /\ Pr!GrantsAreRead
      /\ Pr!HeadsAreCounted
      /\ Pr!RecordedChangesWereTold
      /\ Pr!VerdictsAreToldOnce
      /\ Pr!OneRerunPerHead
      /\ Pr!GrantsBuyRounds
      /\ Pr!RoundsAreHeads
  BY DEF Pr!PullRequestsInv
<1>2. ASSUME Pr!Push
      PROVE  Pr!PullRequestsInv'
  <2>1. /\ s2' = s2 /\ s3' = s3 /\ s4' = s4 /\ s5' = s5 /\ s6' = s6 /\ s9' = s9
        /\ s10' = s10
    BY <1>2, Zenon DEF Pr!Push, Pr!Forge
  <2>2. /\ s1 \in [head : 1..MaxHeads, run : 0..MaxRuns, checks : Pr!Finished \cup {"pending"}, reviews : 0..MaxReviews]
        /\ s2 \in Pr!Readings /\ s4.read \in Pr!Readings /\ s4.at \in {"idle", "tell", "save"}
        /\ s4.at = "idle" => s4 = Pr!Idle
        /\ s7 \in Nat /\ s8 \in Nat /\ s9 \in Nat /\ s10 \in Nat
    <3>1. s4 \in [at : {"idle", "tell", "save"}, read : Pr!Readings]
      BY <1>1, Zenon DEF Pr!StageShape
    <3>2. s4.read \in Pr!Readings /\ s4.at \in {"idle", "tell", "save"}
      BY <3>1
    <3> QED
      BY <1>1, <3>2, Zenon DEF Pr!PulledShape, Pr!SeenShape, Pr!StageShape, Pr!CountShape
  <2>3. s2.head \in Nat /\ s2.rounds \in Nat /\ s2.round \in Nat /\ s4.read.head \in Nat /\ s4.read.rounds \in Nat /\ s4.read.round \in Nat
        /\ s1.head \in Nat /\ s2.granted \in Nat /\ s4.read.granted \in Nat
    <3>1. s1.head \in 1..MaxHeads
      BY <2>2
    <3>2. s1.head \in Nat
      BY <3>1
    <3> QED
      BY <2>2, <3>2, ReadingsAreNumbers
  <2>4. s1.head < MaxHeads
    BY <1>2, Zenon DEF Pr!Push
  <2>5. PICK p : /\ p = [s1 EXCEPT !.head = @ + 1, !.run = 0, !.checks = "pending"] /\ s1' = p
                 /\ s7' = IF p.run # s1.run \/ p.head # s1.head THEN 0 ELSE s7
                 /\ s8' = IF p.head # s1.head THEN 0 ELSE s8
    BY <1>2, Zenon DEF Pr!Push, Pr!Forge
  <2>6. /\ s1' \in [head : 1..MaxHeads, run : 0..MaxRuns, checks : Pr!Finished \cup {"pending"}, reviews : 0..MaxReviews]
        /\ s1'.head = s1.head + 1 /\ s1'.head \in Nat
    <3>1. s1.head + 1 \in 1..MaxHeads /\ s1.head + 1 \in Nat
      BY <2>2, <2>4, <2>3
    <3>2. 0 \in 0..MaxRuns /\ "pending" \in Pr!Finished \cup {"pending"}
      OBVIOUS
    <3> QED
      BY <2>2, <2>5, <3>1, <3>2
  <2>7. s7' = 0 /\ s8' = 0
    <3>1. p.head # s1.head
      BY <2>5, <2>6, <2>3
    <3> QED
      BY <2>5, <3>1
  <2>8. Pr!SeenShape' /\ Pr!DecisionShape' /\ Pr!StageShape'
    BY <1>1, <2>1, Zenon DEF Pr!SeenShape, Pr!DecisionShape, Pr!StageShape
  <2>9. Pr!HeardShape' /\ Pr!SavedWasTold' /\ Pr!GrantsAreRead'
    BY <1>1, <2>1, Zenon DEF Pr!HeardShape, Pr!SavedWasTold, Pr!GrantsAreRead, Pr!Polling
  <2>10. Pr!RecordedChangesWereTold' /\ Pr!GrantsBuyRounds'
    BY <1>1, <2>1, Zenon DEF Pr!RecordedChangesWereTold, Pr!GrantsBuyRounds
  <2>11. Pr!PulledShape'
    BY <2>6 DEF Pr!PulledShape
  <2>12. Pr!CountShape'
    BY <2>1, <2>7, <2>2 DEF Pr!CountShape
  <2>13. Pr!ToldIsRead'
    BY <1>1, <2>1, <2>6, <2>7, <2>2 DEF Pr!ToldIsRead, Pr!Polling, Pr!Matches
  <2>14. Pr!AskedIsRead'
    BY <1>1, <2>1, <2>6, <2>7, <2>2 DEF Pr!AskedIsRead, Pr!Polling
  <2>15. Pr!HeadsAreCounted'
    BY <1>1, <2>1, <2>6, <2>3 DEF Pr!HeadsAreCounted, Pr!CountsHeads, Pr!Polling
  <2>16. Pr!VerdictsAreToldOnce'
    BY <1>1, <2>1, <2>7, <2>2 DEF Pr!VerdictsAreToldOnce
  <2>17. Pr!OneRerunPerHead'
    BY <1>1, <2>1, <2>7, <2>2 DEF Pr!OneRerunPerHead
  <2>18. Pr!RoundsAreHeads'
    BY <1>1, <2>1, <2>6, <2>3 DEF Pr!RoundsAreHeads
  <2> QED
    BY <2>8, <2>9, <2>10, <2>11, <2>12, <2>13, <2>14, <2>15, <2>16, <2>17, <2>18 DEF
       Pr!PullRequestsInv
<1>3. ASSUME Pr!RunAgain
      PROVE  Pr!PullRequestsInv'
  <2>1. /\ s2' = s2 /\ s3' = s3 /\ s4' = s4 /\ s5' = s5 /\ s6' = s6 /\ s9' = s9
        /\ s10' = s10
    BY <1>3, Zenon DEF Pr!RunAgain, Pr!Forge
  <2>2. /\ s1 \in [head : 1..MaxHeads, run : 0..MaxRuns, checks : Pr!Finished \cup {"pending"}, reviews : 0..MaxReviews]
        /\ s2 \in Pr!Readings /\ s4.read \in Pr!Readings /\ s4.at \in {"idle", "tell", "save"}
        /\ s4.at = "idle" => s4 = Pr!Idle
        /\ s7 \in Nat /\ s8 \in Nat /\ s9 \in Nat /\ s10 \in Nat
    <3>1. s4 \in [at : {"idle", "tell", "save"}, read : Pr!Readings]
      BY <1>1, Zenon DEF Pr!StageShape
    <3>2. s4.read \in Pr!Readings /\ s4.at \in {"idle", "tell", "save"}
      BY <3>1
    <3> QED
      BY <1>1, <3>2, Zenon DEF Pr!PulledShape, Pr!SeenShape, Pr!StageShape, Pr!CountShape
  <2>3. s2.head \in Nat /\ s2.rounds \in Nat /\ s2.round \in Nat /\ s4.read.head \in Nat /\ s4.read.rounds \in Nat /\ s4.read.round \in Nat
        /\ s1.head \in Nat /\ s2.granted \in Nat /\ s4.read.granted \in Nat
    <3>1. s1.head \in 1..MaxHeads
      BY <2>2
    <3>2. s1.head \in Nat
      BY <3>1
    <3> QED
      BY <2>2, <3>2, ReadingsAreNumbers
  <2>4. s1.checks \in Pr!Finished
    BY <1>3, Zenon DEF Pr!RunAgain
  <2>5. PICK p : /\ p = [s1 EXCEPT !.checks = "pending"] /\ s1' = p
                 /\ s7' = IF p.run # s1.run \/ p.head # s1.head THEN 0 ELSE s7
                 /\ s8' = IF p.head # s1.head THEN 0 ELSE s8
    BY <1>3, Zenon DEF Pr!RunAgain, Pr!Forge
  <2>6. /\ s1' \in [head : 1..MaxHeads, run : 0..MaxRuns, checks : Pr!Finished \cup {"pending"}, reviews : 0..MaxReviews]
        /\ s1'.head = s1.head /\ s1'.run = s1.run /\ s1'.checks = "pending" /\ s1'.head \in Nat
    BY <2>2, <2>4, <2>5, <2>3
  <2>7. s7' = s7 /\ s8' = s8
    BY <2>5, <2>6
  <2>8. Pr!SeenShape' /\ Pr!DecisionShape' /\ Pr!StageShape'
    BY <1>1, <2>1, Zenon DEF Pr!SeenShape, Pr!DecisionShape, Pr!StageShape
  <2>9. Pr!HeardShape' /\ Pr!SavedWasTold' /\ Pr!GrantsAreRead'
    BY <1>1, <2>1, Zenon DEF Pr!HeardShape, Pr!SavedWasTold, Pr!GrantsAreRead, Pr!Polling
  <2>10. Pr!RecordedChangesWereTold' /\ Pr!GrantsBuyRounds'
    BY <1>1, <2>1, Zenon DEF Pr!RecordedChangesWereTold, Pr!GrantsBuyRounds
  <2>11. Pr!PulledShape'
    BY <2>6 DEF Pr!PulledShape
  <2>12. Pr!CountShape'
    BY <2>1, <2>7, <2>2 DEF Pr!CountShape
  <2>13. Pr!ToldIsRead'
    BY <1>1, <2>1, <2>6, <2>7, <2>2 DEF Pr!ToldIsRead, Pr!Polling, Pr!Matches
  <2>14. Pr!AskedIsRead'
    BY <1>1, <2>1, <2>6, <2>7, <2>2 DEF Pr!AskedIsRead, Pr!Polling
  <2>15. Pr!HeadsAreCounted'
    BY <1>1, <2>1, <2>6, <2>3 DEF Pr!HeadsAreCounted, Pr!CountsHeads, Pr!Polling
  <2>16. Pr!VerdictsAreToldOnce'
    BY <1>1, <2>1, <2>7, <2>2 DEF Pr!VerdictsAreToldOnce
  <2>17. Pr!OneRerunPerHead'
    BY <1>1, <2>1, <2>7, <2>2 DEF Pr!OneRerunPerHead
  <2>18. Pr!RoundsAreHeads'
    BY <1>1, <2>1, <2>6, <2>3 DEF Pr!RoundsAreHeads
  <2> QED
    BY <2>8, <2>9, <2>10, <2>11, <2>12, <2>13, <2>14, <2>15, <2>16, <2>17, <2>18 DEF
       Pr!PullRequestsInv
<1>4. ASSUME Pr!Review
      PROVE  Pr!PullRequestsInv'
  <2>1. /\ s2' = s2 /\ s3' = s3 /\ s4' = s4 /\ s5' = s5 /\ s6' = s6 /\ s9' = s9
        /\ s10' = s10
    BY <1>4, Zenon DEF Pr!Review, Pr!Forge
  <2>2. /\ s1 \in [head : 1..MaxHeads, run : 0..MaxRuns, checks : Pr!Finished \cup {"pending"}, reviews : 0..MaxReviews]
        /\ s2 \in Pr!Readings /\ s4.read \in Pr!Readings /\ s4.at \in {"idle", "tell", "save"}
        /\ s4.at = "idle" => s4 = Pr!Idle
        /\ s7 \in Nat /\ s8 \in Nat /\ s9 \in Nat /\ s10 \in Nat
    <3>1. s4 \in [at : {"idle", "tell", "save"}, read : Pr!Readings]
      BY <1>1, Zenon DEF Pr!StageShape
    <3>2. s4.read \in Pr!Readings /\ s4.at \in {"idle", "tell", "save"}
      BY <3>1
    <3> QED
      BY <1>1, <3>2, Zenon DEF Pr!PulledShape, Pr!SeenShape, Pr!StageShape, Pr!CountShape
  <2>3. s2.head \in Nat /\ s2.rounds \in Nat /\ s2.round \in Nat /\ s4.read.head \in Nat /\ s4.read.rounds \in Nat /\ s4.read.round \in Nat
        /\ s1.head \in Nat /\ s2.granted \in Nat /\ s4.read.granted \in Nat
    <3>1. s1.head \in 1..MaxHeads
      BY <2>2
    <3>2. s1.head \in Nat
      BY <3>1
    <3> QED
      BY <2>2, <3>2, ReadingsAreNumbers
  <2>4. s1.reviews < MaxReviews
    BY <1>4, Zenon DEF Pr!Review
  <2>5. PICK p : /\ p = [s1 EXCEPT !.reviews = @ + 1] /\ s1' = p
                 /\ s7' = IF p.run # s1.run \/ p.head # s1.head THEN 0 ELSE s7
                 /\ s8' = IF p.head # s1.head THEN 0 ELSE s8
    BY <1>4, Zenon DEF Pr!Review, Pr!Forge
  <2>6. /\ s1' \in [head : 1..MaxHeads, run : 0..MaxRuns, checks : Pr!Finished \cup {"pending"}, reviews : 0..MaxReviews]
        /\ s1'.head = s1.head /\ s1'.run = s1.run /\ s1'.checks = s1.checks /\ s1'.head \in Nat
    <3>1. s1.reviews + 1 \in 0..MaxReviews
      BY <2>2, <2>4
    <3> QED
      BY <2>2, <2>5, <2>3, <3>1
  <2>7. s7' = s7 /\ s8' = s8
    BY <2>5, <2>6
  <2>8. Pr!SeenShape' /\ Pr!DecisionShape' /\ Pr!StageShape'
    BY <1>1, <2>1, Zenon DEF Pr!SeenShape, Pr!DecisionShape, Pr!StageShape
  <2>9. Pr!HeardShape' /\ Pr!SavedWasTold' /\ Pr!GrantsAreRead'
    BY <1>1, <2>1, Zenon DEF Pr!HeardShape, Pr!SavedWasTold, Pr!GrantsAreRead, Pr!Polling
  <2>10. Pr!RecordedChangesWereTold' /\ Pr!GrantsBuyRounds'
    BY <1>1, <2>1, Zenon DEF Pr!RecordedChangesWereTold, Pr!GrantsBuyRounds
  <2>11. Pr!PulledShape'
    BY <2>6 DEF Pr!PulledShape
  <2>12. Pr!CountShape'
    BY <2>1, <2>7, <2>2 DEF Pr!CountShape
  <2>13. Pr!ToldIsRead'
    BY <1>1, <2>1, <2>6, <2>7, <2>2 DEF Pr!ToldIsRead, Pr!Polling, Pr!Matches
  <2>14. Pr!AskedIsRead'
    BY <1>1, <2>1, <2>6, <2>7, <2>2 DEF Pr!AskedIsRead, Pr!Polling
  <2>15. Pr!HeadsAreCounted'
    BY <1>1, <2>1, <2>6, <2>3 DEF Pr!HeadsAreCounted, Pr!CountsHeads, Pr!Polling
  <2>16. Pr!VerdictsAreToldOnce'
    BY <1>1, <2>1, <2>7, <2>2 DEF Pr!VerdictsAreToldOnce
  <2>17. Pr!OneRerunPerHead'
    BY <1>1, <2>1, <2>7, <2>2 DEF Pr!OneRerunPerHead
  <2>18. Pr!RoundsAreHeads'
    BY <1>1, <2>1, <2>6, <2>3 DEF Pr!RoundsAreHeads
  <2> QED
    BY <2>8, <2>9, <2>10, <2>11, <2>12, <2>13, <2>14, <2>15, <2>16, <2>17, <2>18 DEF
       Pr!PullRequestsInv
<1>5. ASSUME Pr!Tell
      PROVE  Pr!PullRequestsInv'
  <2>1. s1' = s1 /\ s2' = s2 /\ s3' = s3 /\ s8' = s8 /\ s9' = s9 /\ s10' = s10
    BY <1>5, Zenon DEF Pr!Tell
  <2>2. /\ s1 \in [head : 1..MaxHeads, run : 0..MaxRuns, checks : Pr!Finished \cup {"pending"}, reviews : 0..MaxReviews]
        /\ s2 \in Pr!Readings /\ s4.read \in Pr!Readings /\ s4.at \in {"idle", "tell", "save"}
        /\ s4.at = "idle" => s4 = Pr!Idle
        /\ s7 \in Nat /\ s8 \in Nat /\ s9 \in Nat /\ s10 \in Nat
    <3>1. s4 \in [at : {"idle", "tell", "save"}, read : Pr!Readings]
      BY <1>1, Zenon DEF Pr!StageShape
    <3>2. s4.read \in Pr!Readings /\ s4.at \in {"idle", "tell", "save"}
      BY <3>1
    <3> QED
      BY <1>1, <3>2, Zenon DEF Pr!PulledShape, Pr!SeenShape, Pr!StageShape, Pr!CountShape
  <2>3. s2.head \in Nat /\ s2.rounds \in Nat /\ s2.round \in Nat /\ s4.read.head \in Nat /\ s4.read.rounds \in Nat /\ s4.read.round \in Nat
        /\ s1.head \in Nat /\ s2.granted \in Nat /\ s4.read.granted \in Nat
    <3>1. s1.head \in 1..MaxHeads
      BY <2>2
    <3>2. s1.head \in Nat
      BY <3>1
    <3> QED
      BY <2>2, <3>2, ReadingsAreNumbers
  <2>4. Pr!Idle.at = "idle"
    BY DEF Pr!Idle
  <2>5. PICK r : r = s4.read /\ s4.at = "tell"
    BY <1>5, Zenon DEF Pr!Tell
  <2>6. /\ s5' = {v \in s5 : v[1] >= s2.head} \cup (IF Pr!News(s2, r) THEN {<<r.head, r.checks>>} ELSE {})
        /\ s6' = s6 \cup (s2.reviews + 1)..r.reviews
        /\ s7' = (IF Pr!News(s2, r) /\ s1.head = r.head /\ s1.checks = r.checks THEN s7 + 1 ELSE s7)
        /\ s4' = [s4 EXCEPT !.at = "save"]
    BY <1>5, <2>5, Zenon DEF Pr!Tell
  <2>7. /\ s4' \in [at : {"idle", "tell", "save"}, read : Pr!Readings]
        /\ s4'.at = "save" /\ s4'.read = r /\ r \in Pr!Readings
    <3>1. s4 \in [at : {"idle", "tell", "save"}, read : Pr!Readings]
      BY <1>1, Zenon DEF Pr!StageShape
    <3> QED
      BY <3>1, <2>6, <2>5
  <2>8. /\ s2.checks \in Pr!Finished => <<s2.head, s2.checks>> \in s5'
        /\ r.checks \in Pr!Finished => <<r.head, r.checks>> \in s5'
    <3>1. ASSUME s2.checks \in Pr!Finished PROVE <<s2.head, s2.checks>> \in s5'
      <4>1. <<s2.head, s2.checks>> \in s5
        BY <1>1, <3>1, Zenon DEF Pr!RecordedChangesWereTold
      <4>2. <<s2.head, s2.checks>>[1] >= s2.head
        BY <2>3
      <4> QED
        BY <4>1, <4>2, <2>6
    <3>2. ASSUME r.checks \in Pr!Finished PROVE <<r.head, r.checks>> \in s5'
      <4>1. CASE Pr!News(s2, r)
        BY <4>1, <2>6
      <4>2. CASE ~Pr!News(s2, r)
        <5>1. s2.head = r.head /\ s2.checks = r.checks
          BY <3>2, <4>2 DEF Pr!News
        <5> QED
          BY <3>1, <3>2, <5>1
      <4> QED
        BY <4>1, <4>2
    <3> QED
      BY <3>1, <3>2
  <2>9. /\ s7' = s7 \/ s7' = s7 + 1
        /\ s7' = s7 + 1 /\ s7' # s7 => Pr!News(s2, r) /\ s1.head = r.head /\ s1.checks = r.checks
    BY <2>6
  <2>10. s7' <= s10 + 1 /\ (s7' > s10 => Pr!Matches(r))
    <3>1. s7 > s10 => Pr!Matches(s2) /\ Pr!Matches(r)
      BY <1>1, <2>5, <2>2 DEF Pr!ToldIsRead, Pr!Polling
    <3>2. s7 <= 1 + s10
      BY <1>1, Zenon DEF Pr!VerdictsAreToldOnce
    <3>3. CASE s7' = s7
      BY <3>1, <3>2, <3>3, <2>2
    <3>4. CASE s7' # s7
      <4>1. Pr!News(s2, r) /\ s1.head = r.head /\ s1.checks = r.checks /\ s7' = s7 + 1
        BY <3>4, <2>9
      <4>2. ~Pr!Matches(s2)
        <5>1. s1.checks # "pending"
          BY <4>1 DEF Pr!News, Pr!Finished
        <5> QED
          BY <4>1, <5>1 DEF Pr!News, Pr!Matches
      <4>3. Pr!Matches(r)
        BY <4>1 DEF Pr!Matches
      <4> QED
        BY <3>1, <4>1, <4>2, <4>3, <2>2
    <3> QED
      BY <3>3, <3>4
  <2>11. Pr!PulledShape' /\ Pr!SeenShape' /\ Pr!DecisionShape'
    BY <1>1, <2>1, Zenon DEF Pr!PulledShape, Pr!SeenShape, Pr!DecisionShape
  <2>12. Pr!OneRerunPerHead' /\ Pr!RoundsAreHeads'
    BY <1>1, <2>1, Zenon DEF Pr!OneRerunPerHead, Pr!RoundsAreHeads
  <2>13. Pr!StageShape'
    BY <2>7 DEF Pr!StageShape
  <2>14. Pr!HeardShape'
    <3>1. r.head \in Nat
      BY <2>3, <2>5
    <3>2. Pr!News(s2, r) => <<r.head, r.checks>> \in Nat \X Pr!Finished
      BY <3>1 DEF Pr!News
    <3> QED
      BY <1>1, <3>2, <2>6 DEF Pr!HeardShape
  <2>15. Pr!CountShape'
    BY <2>1, <2>9, <2>2 DEF Pr!CountShape
  <2>16. Pr!SavedWasTold'
    <3>1. s2.reviews \in Nat /\ r.reviews \in Nat
      BY <2>2, <2>7, ReadingsAreNumbers
    <3>2. 1..s2.reviews \subseteq s6
      BY <1>1, Zenon DEF Pr!RecordedChangesWereTold
    <3>3. 1..r.reviews \subseteq s6'
      BY <3>1, <3>2, <2>6
    <3> QED
      BY <3>3, <2>7, <2>8 DEF Pr!SavedWasTold
  <2>17. Pr!ToldIsRead'
    <3>1. s1' = s1 /\ s2' = s2 /\ s10' = s10
      BY <2>1
    <3> QED
      BY <3>1, <2>7, <2>10 DEF Pr!ToldIsRead, Pr!Matches, Pr!Polling
  <2>18. Pr!AskedIsRead'
    BY <1>1, <2>1, <2>7, <2>5 DEF Pr!AskedIsRead, Pr!Polling
  <2>19. Pr!GrantsAreRead'
    BY <1>1, <2>1, <2>7, <2>5 DEF Pr!GrantsAreRead, Pr!Polling
  <2>20. Pr!HeadsAreCounted'
    BY <1>1, <2>1, <2>7, <2>5 DEF Pr!HeadsAreCounted, Pr!Polling, Pr!CountsHeads
  <2>21. Pr!RecordedChangesWereTold'
    BY <1>1, <2>1, <2>8, <2>6 DEF Pr!RecordedChangesWereTold
  <2>22. Pr!VerdictsAreToldOnce'
    BY <2>1, <2>10, <2>9, <2>2 DEF Pr!VerdictsAreToldOnce
  <2>23. Pr!GrantsBuyRounds'
    <3>1. s4' # Pr!Idle
      BY <2>7, <2>4
    <3> QED
      BY <3>1, Zenon DEF Pr!GrantsBuyRounds
  <2> QED
    BY <2>11, <2>12, <2>13, <2>14, <2>15, <2>16, <2>17, <2>18, <2>19, <2>20, <2>21, <2>22,
       <2>23 DEF Pr!PullRequestsInv
<1>6. ASSUME Pr!Save
      PROVE  Pr!PullRequestsInv'
  <2>1. /\ s1' = s1 /\ s3' = s3 /\ s5' = s5 /\ s6' = s6 /\ s7' = s7 /\ s8' = s8
        /\ s9' = s9 /\ s10' = s10
    BY <1>6, Zenon DEF Pr!Save
  <2>2. s2' = s4.read
    BY <1>6, Zenon DEF Pr!Save
  <2>3. /\ s1 \in [head : 1..MaxHeads, run : 0..MaxRuns, checks : Pr!Finished \cup {"pending"}, reviews : 0..MaxReviews]
        /\ s2 \in Pr!Readings /\ s4.read \in Pr!Readings /\ s4.at \in {"idle", "tell", "save"}
        /\ s4.at = "idle" => s4 = Pr!Idle
        /\ s7 \in Nat /\ s8 \in Nat /\ s9 \in Nat /\ s10 \in Nat
    <3>1. s4 \in [at : {"idle", "tell", "save"}, read : Pr!Readings]
      BY <1>1, Zenon DEF Pr!StageShape
    <3>2. s4.read \in Pr!Readings /\ s4.at \in {"idle", "tell", "save"}
      BY <3>1
    <3> QED
      BY <1>1, <3>2, Zenon DEF Pr!PulledShape, Pr!SeenShape, Pr!StageShape, Pr!CountShape
  <2>4. s2.head \in Nat /\ s2.rounds \in Nat /\ s2.round \in Nat /\ s4.read.head \in Nat /\ s4.read.rounds \in Nat /\ s4.read.round \in Nat
        /\ s1.head \in Nat /\ s2.granted \in Nat /\ s4.read.granted \in Nat
    <3>1. s1.head \in 1..MaxHeads
      BY <2>3
    <3>2. s1.head \in Nat
      BY <3>1
    <3> QED
      BY <2>3, <3>2, ReadingsAreNumbers
  <2>5. Pr!Idle.at = "idle"
    BY DEF Pr!Idle
  <2>6. s4' = Pr!Idle /\ s4'.at = "idle" /\ s4' \in [at : {"idle", "tell", "save"}, read : Pr!Readings]
    <3>1. Pr!NotSeen \in Pr!Readings
      <4>1. 0 \in 0..MaxHeads /\ 0 \in 0..MaxReviews /\ 0 \in Nat
        OBVIOUS
      <4> QED
        BY <4>1 DEF Pr!NotSeen, Pr!Readings
    <3>2. s4' = Pr!Idle
      BY <1>6, Zenon DEF Pr!Save
    <3>3. Pr!Idle \in [at : {"idle", "tell", "save"}, read : Pr!Readings]
      BY <3>1 DEF Pr!Idle
    <3> QED
      BY <3>2, <3>3, <2>5
  <2>7. s4.at = "save"
    BY <1>6, Zenon DEF Pr!Save
  <2>8. Pr!PulledShape' /\ Pr!DecisionShape' /\ Pr!HeardShape'
    BY <1>1, <2>1, Zenon DEF Pr!PulledShape, Pr!DecisionShape, Pr!HeardShape
  <2>9. Pr!CountShape' /\ Pr!VerdictsAreToldOnce' /\ Pr!OneRerunPerHead'
    BY <1>1, <2>1, Zenon DEF Pr!CountShape, Pr!VerdictsAreToldOnce, Pr!OneRerunPerHead
  <2>10. Pr!SeenShape'
    BY <2>2, <2>3 DEF Pr!SeenShape
  <2>11. Pr!StageShape'
    BY <2>6 DEF Pr!StageShape
  <2>12. Pr!SavedWasTold'
    BY <2>6 DEF Pr!SavedWasTold
  <2>13. Pr!ToldIsRead'
    BY <1>1, <2>1, <2>2, <2>7, <2>6 DEF Pr!ToldIsRead, Pr!Polling, Pr!Matches
  <2>14. Pr!AskedIsRead'
    BY <1>1, <2>1, <2>2, <2>7, <2>6 DEF Pr!AskedIsRead, Pr!Polling
  <2>15. Pr!GrantsAreRead'
    BY <2>6 DEF Pr!GrantsAreRead, Pr!Polling
  <2>16. Pr!HeadsAreCounted'
    BY <1>1, <2>1, <2>2, <2>7, <2>6 DEF Pr!HeadsAreCounted, Pr!Polling, Pr!CountsHeads
  <2>17. Pr!RecordedChangesWereTold'
    BY <1>1, <2>1, <2>2, <2>7 DEF Pr!RecordedChangesWereTold, Pr!SavedWasTold
  <2>18. Pr!GrantsBuyRounds'
    BY <1>1, <2>1, <2>2, <2>7 DEF Pr!GrantsBuyRounds, Pr!GrantsAreRead, Pr!Polling
  <2>19. Pr!RoundsAreHeads'
    BY <1>1, <2>1, <2>2, <2>7, <2>4 DEF Pr!RoundsAreHeads, Pr!HeadsAreCounted,
       Pr!CountsHeads, Pr!Polling
  <2> QED
    BY <2>8, <2>9, <2>10, <2>11, <2>12, <2>13, <2>14, <2>15, <2>16, <2>17, <2>18, <2>19 DEF
       Pr!PullRequestsInv
<1>7. ASSUME Pr!Cut
      PROVE  Pr!PullRequestsInv'
  <2>1. /\ s1' = s1 /\ s2' = s2 /\ s3' = s3 /\ s5' = s5 /\ s6' = s6 /\ s7' = s7
        /\ s8' = s8 /\ s9' = s9
    BY <1>7, Zenon DEF Pr!Cut
  <2>2. s10' = s10 + 1
    BY <1>7, Zenon DEF Pr!Cut
  <2>3. /\ s1 \in [head : 1..MaxHeads, run : 0..MaxRuns, checks : Pr!Finished \cup {"pending"}, reviews : 0..MaxReviews]
        /\ s2 \in Pr!Readings /\ s4.read \in Pr!Readings /\ s4.at \in {"idle", "tell", "save"}
        /\ s4.at = "idle" => s4 = Pr!Idle
        /\ s7 \in Nat /\ s8 \in Nat /\ s9 \in Nat /\ s10 \in Nat
    <3>1. s4 \in [at : {"idle", "tell", "save"}, read : Pr!Readings]
      BY <1>1, Zenon DEF Pr!StageShape
    <3>2. s4.read \in Pr!Readings /\ s4.at \in {"idle", "tell", "save"}
      BY <3>1
    <3> QED
      BY <1>1, <3>2, Zenon DEF Pr!PulledShape, Pr!SeenShape, Pr!StageShape, Pr!CountShape
  <2>4. s2.head \in Nat /\ s2.rounds \in Nat /\ s2.round \in Nat /\ s4.read.head \in Nat /\ s4.read.rounds \in Nat /\ s4.read.round \in Nat
        /\ s1.head \in Nat /\ s2.granted \in Nat /\ s4.read.granted \in Nat
    <3>1. s1.head \in 1..MaxHeads
      BY <2>3
    <3>2. s1.head \in Nat
      BY <3>1
    <3> QED
      BY <2>3, <3>2, ReadingsAreNumbers
  <2>5. Pr!Idle.at = "idle"
    BY DEF Pr!Idle
  <2>6. s4' = Pr!Idle /\ s4'.at = "idle" /\ s4' \in [at : {"idle", "tell", "save"}, read : Pr!Readings]
    <3>1. Pr!NotSeen \in Pr!Readings
      <4>1. 0 \in 0..MaxHeads /\ 0 \in 0..MaxReviews /\ 0 \in Nat
        OBVIOUS
      <4> QED
        BY <4>1 DEF Pr!NotSeen, Pr!Readings
    <3>2. s4' = Pr!Idle
      BY <1>7, Zenon DEF Pr!Cut
    <3>3. Pr!Idle \in [at : {"idle", "tell", "save"}, read : Pr!Readings]
      BY <3>1 DEF Pr!Idle
    <3> QED
      BY <3>2, <3>3, <2>5
  <2>7. s4 # Pr!Idle /\ s4.at # "idle"
    <3>1. s4 # Pr!Idle
      BY <1>7, Zenon DEF Pr!Cut
    <3> QED
      BY <3>1, <2>3
  <2>8. s7 <= 1 + s10 /\ s8 <= 1 + s10
    BY <1>1, Zenon DEF Pr!VerdictsAreToldOnce, Pr!OneRerunPerHead
  <2>9. Pr!PulledShape' /\ Pr!SeenShape' /\ Pr!DecisionShape'
    BY <1>1, <2>1, Zenon DEF Pr!PulledShape, Pr!SeenShape, Pr!DecisionShape
  <2>10. Pr!HeardShape' /\ Pr!RecordedChangesWereTold' /\ Pr!RoundsAreHeads'
    BY <1>1, <2>1, Zenon DEF Pr!HeardShape, Pr!RecordedChangesWereTold, Pr!RoundsAreHeads
  <2>11. Pr!StageShape'
    BY <2>6 DEF Pr!StageShape
  <2>12. Pr!CountShape'
    BY <2>1, <2>2, <2>3 DEF Pr!CountShape
  <2>13. Pr!SavedWasTold'
    BY <2>6 DEF Pr!SavedWasTold
  <2>14. Pr!ToldIsRead'
    BY <2>1, <2>2, <2>8, <2>3 DEF Pr!ToldIsRead
  <2>15. Pr!AskedIsRead'
    BY <2>1, <2>2, <2>8, <2>3 DEF Pr!AskedIsRead
  <2>16. Pr!GrantsAreRead'
    BY <2>6 DEF Pr!GrantsAreRead, Pr!Polling
  <2>17. Pr!HeadsAreCounted'
    BY <1>1, <2>1, <2>6 DEF Pr!HeadsAreCounted, Pr!Polling, Pr!CountsHeads
  <2>18. Pr!VerdictsAreToldOnce'
    BY <2>1, <2>2, <2>8, <2>3 DEF Pr!VerdictsAreToldOnce
  <2>19. Pr!OneRerunPerHead'
    BY <2>1, <2>2, <2>8, <2>3 DEF Pr!OneRerunPerHead
  <2>20. Pr!GrantsBuyRounds'
    BY <1>1, <2>1, <2>2, <2>7, <2>3, <2>4 DEF Pr!GrantsBuyRounds, Pr!GrantsAreRead, Pr!Polling
  <2> QED
    BY <2>9, <2>10, <2>11, <2>12, <2>13, <2>14, <2>15, <2>16, <2>17, <2>18, <2>19, <2>20 DEF
       Pr!PullRequestsInv
<1>8. ASSUME NEW v \in Pr!Finished, Pr!Verdict(v)
      PROVE  Pr!PullRequestsInv'
  <2>1. /\ s2' = s2 /\ s3' = s3 /\ s4' = s4 /\ s5' = s5 /\ s6' = s6 /\ s9' = s9
        /\ s10' = s10
    BY <1>8, Zenon DEF Pr!Verdict, Pr!Forge
  <2>2. /\ s1 \in [head : 1..MaxHeads, run : 0..MaxRuns, checks : Pr!Finished \cup {"pending"}, reviews : 0..MaxReviews]
        /\ s2 \in Pr!Readings /\ s4.read \in Pr!Readings /\ s4.at \in {"idle", "tell", "save"}
        /\ s4.at = "idle" => s4 = Pr!Idle
        /\ s7 \in Nat /\ s8 \in Nat /\ s9 \in Nat /\ s10 \in Nat
    <3>1. s4 \in [at : {"idle", "tell", "save"}, read : Pr!Readings]
      BY <1>1, Zenon DEF Pr!StageShape
    <3>2. s4.read \in Pr!Readings /\ s4.at \in {"idle", "tell", "save"}
      BY <3>1
    <3> QED
      BY <1>1, <3>2, Zenon DEF Pr!PulledShape, Pr!SeenShape, Pr!StageShape, Pr!CountShape
  <2>3. s2.head \in Nat /\ s2.rounds \in Nat /\ s2.round \in Nat /\ s4.read.head \in Nat /\ s4.read.rounds \in Nat /\ s4.read.round \in Nat
        /\ s1.head \in Nat /\ s2.granted \in Nat /\ s4.read.granted \in Nat
    <3>1. s1.head \in 1..MaxHeads
      BY <2>2
    <3>2. s1.head \in Nat
      BY <3>1
    <3> QED
      BY <2>2, <3>2, ReadingsAreNumbers
  <2>4. s1.checks = "pending" /\ s1.run < MaxRuns
    BY <1>8, Zenon DEF Pr!Verdict
  <2>5. PICK p : /\ p = [s1 EXCEPT !.checks = v, !.run = @ + 1] /\ s1' = p
                 /\ s7' = IF p.run # s1.run \/ p.head # s1.head THEN 0 ELSE s7
                 /\ s8' = IF p.head # s1.head THEN 0 ELSE s8
    BY <1>8, Zenon DEF Pr!Verdict, Pr!Forge
  <2>6. /\ s1' \in [head : 1..MaxHeads, run : 0..MaxRuns, checks : Pr!Finished \cup {"pending"}, reviews : 0..MaxReviews]
        /\ s1'.head = s1.head /\ s1'.run = s1.run + 1 /\ s1'.head \in Nat
    <3>1. s1.run + 1 \in 0..MaxRuns
      BY <2>2, <2>4
    <3>2. v \in Pr!Finished \cup {"pending"}
      OBVIOUS
    <3> QED
      BY <2>2, <2>5, <2>3, <3>1, <3>2
  <2>7. s7' = 0 /\ s8' = s8
    <3>1. s1.run \in Nat
      BY <2>2
    <3>2. p.run # s1.run /\ p.head = s1.head
      BY <2>5, <2>6, <3>1
    <3> QED
      BY <2>5, <3>2
  <2>8. Pr!SeenShape' /\ Pr!DecisionShape' /\ Pr!StageShape'
    BY <1>1, <2>1, Zenon DEF Pr!SeenShape, Pr!DecisionShape, Pr!StageShape
  <2>9. Pr!HeardShape' /\ Pr!SavedWasTold' /\ Pr!GrantsAreRead'
    BY <1>1, <2>1, Zenon DEF Pr!HeardShape, Pr!SavedWasTold, Pr!GrantsAreRead, Pr!Polling
  <2>10. Pr!RecordedChangesWereTold' /\ Pr!GrantsBuyRounds'
    BY <1>1, <2>1, Zenon DEF Pr!RecordedChangesWereTold, Pr!GrantsBuyRounds
  <2>11. Pr!PulledShape'
    BY <2>6 DEF Pr!PulledShape
  <2>12. Pr!CountShape'
    BY <2>1, <2>7, <2>2 DEF Pr!CountShape
  <2>13. Pr!ToldIsRead'
    BY <1>1, <2>1, <2>6, <2>7, <2>2 DEF Pr!ToldIsRead, Pr!Polling, Pr!Matches
  <2>14. Pr!AskedIsRead'
    BY <1>1, <2>1, <2>6, <2>7, <2>2 DEF Pr!AskedIsRead, Pr!Polling
  <2>15. Pr!HeadsAreCounted'
    BY <1>1, <2>1, <2>6, <2>3 DEF Pr!HeadsAreCounted, Pr!CountsHeads, Pr!Polling
  <2>16. Pr!VerdictsAreToldOnce'
    BY <1>1, <2>1, <2>7, <2>2 DEF Pr!VerdictsAreToldOnce
  <2>17. Pr!OneRerunPerHead'
    BY <1>1, <2>1, <2>7, <2>2 DEF Pr!OneRerunPerHead
  <2>18. Pr!RoundsAreHeads'
    BY <1>1, <2>1, <2>6, <2>3 DEF Pr!RoundsAreHeads
  <2> QED
    BY <2>8, <2>9, <2>10, <2>11, <2>12, <2>13, <2>14, <2>15, <2>16, <2>17, <2>18 DEF
       Pr!PullRequestsInv
<1>9. ASSUME NEW late \in BOOLEAN, Pr!Read(late)
      PROVE  Pr!PullRequestsInv'
  <2>1. s1' = s1 /\ s2' = s2 /\ s5' = s5 /\ s6' = s6 /\ s7' = s7 /\ s10' = s10
    BY <1>9, Zenon DEF Pr!Read
  <2>2. /\ s1 \in [head : 1..MaxHeads, run : 0..MaxRuns, checks : Pr!Finished \cup {"pending"}, reviews : 0..MaxReviews]
        /\ s2 \in Pr!Readings /\ s4.read \in Pr!Readings /\ s4.at \in {"idle", "tell", "save"}
        /\ s4.at = "idle" => s4 = Pr!Idle
        /\ s7 \in Nat /\ s8 \in Nat /\ s9 \in Nat /\ s10 \in Nat
    <3>1. s4 \in [at : {"idle", "tell", "save"}, read : Pr!Readings]
      BY <1>1, Zenon DEF Pr!StageShape
    <3>2. s4.read \in Pr!Readings /\ s4.at \in {"idle", "tell", "save"}
      BY <3>1
    <3> QED
      BY <1>1, <3>2, Zenon DEF Pr!PulledShape, Pr!SeenShape, Pr!StageShape, Pr!CountShape
  <2>3. s2.head \in Nat /\ s2.rounds \in Nat /\ s2.round \in Nat /\ s4.read.head \in Nat /\ s4.read.rounds \in Nat /\ s4.read.round \in Nat
        /\ s1.head \in Nat /\ s2.granted \in Nat /\ s4.read.granted \in Nat
    <3>1. s1.head \in 1..MaxHeads
      BY <2>2
    <3>2. s1.head \in Nat
      BY <3>1
    <3> QED
      BY <2>2, <3>2, ReadingsAreNumbers
  <2>4. Pr!Idle.at = "idle"
    BY DEF Pr!Idle
  <2>5. s4 = Pr!Idle
    BY <1>9, Zenon DEF Pr!Read
  <2>6. PICK f : f = Pr!Carried(s2, s1)
    OBVIOUS
  <2>7. PICK r : r = Pr!RoundLimit(Pr!Answered(f))
    OBVIOUS
  <2>8. /\ r \in Pr!Readings /\ r.head = s1.head /\ r.checks = s1.checks /\ r.reviews = s1.reviews
        /\ (r.rerun <=> (s2.head = s1.head /\ s2.rerun))
        /\ r.round = IF s1.checks \in Pr!Finished THEN s1.head ELSE s2.round
        /\ r.rounds = IF s1.checks \in Pr!Finished /\ s1.head # s2.round THEN s2.rounds + 1 ELSE s2.rounds
        /\ r.granted = IF s3 = "grant" THEN s2.granted + 1 ELSE s2.granted
    <3>1. /\ f \in Pr!Readings
          /\ f.head = s1.head /\ f.checks = s1.checks /\ f.reviews = s1.reviews
          /\ f.granted = s2.granted /\ (f.rerun <=> (s2.head = s1.head /\ s2.rerun))
          /\ f.round = IF s1.checks \in Pr!Finished THEN s1.head ELSE s2.round
          /\ f.rounds = IF s1.checks \in Pr!Finished /\ s1.head # s2.round THEN s2.rounds + 1 ELSE s2.rounds
      BY <2>2, <2>6, ReadingIsCarried
    <3>2. /\ r \in Pr!Readings
          /\ r.head = f.head /\ r.checks = f.checks /\ r.reviews = f.reviews
          /\ r.rerun = f.rerun /\ r.round = f.round /\ r.rounds = f.rounds
          /\ r.granted = IF s3 = "grant" THEN f.granted + 1 ELSE f.granted
      BY <3>1, <2>7, LimitCountsTheGrant
    <3> QED
      BY <3>1, <3>2
  <2>9. PICK asks \in BOOLEAN : asks = (r.checks = "cancelled" /\ ~r.rerun)
    OBVIOUS
  <2>10. PICK st \in BOOLEAN : st = (r.stalled \/ Pr!Stalls(f, late))
    BY DEF Pr!Stalls
  <2>11. PICK rr \in BOOLEAN : rr = (r.rerun \/ asks)
    OBVIOUS
  <2>12. PICK q : q = [r EXCEPT !.rerun = rr, !.stalled = st]
    OBVIOUS
  <2>13. /\ q \in Pr!Readings /\ q.head = r.head /\ q.checks = r.checks /\ q.reviews = r.reviews
         /\ q.rerun = rr /\ q.round = r.round /\ q.rounds = r.rounds /\ q.granted = r.granted
    BY <2>8, <2>12 DEF Pr!Readings
  <2>14. /\ s4' = [at |-> "tell", read |-> q] /\ s3' = Pr!DecisionAfter(Pr!Answered(f))
         /\ s9' = (IF s3 = "grant" THEN s9 + 1 ELSE s9)
         /\ s8' = (IF asks THEN s8 + 1 ELSE s8)
    BY <1>9, <2>6, <2>7, <2>9, <2>10, <2>11, <2>12, Zenon DEF Pr!Read, Pr!Asks
  <2>15. /\ s4' \in [at : {"idle", "tell", "save"}, read : Pr!Readings]
         /\ s4'.at = "tell" /\ s4'.read = q
    BY <2>14, <2>13
  <2>16. /\ q.granted \in Nat /\ q.head \in Nat /\ q.round \in Nat /\ q.rounds \in Nat
    BY <2>13, ReadingsAreNumbers
  <2>17. /\ s2.granted <= s9 /\ s9 <= s2.granted + s10
         /\ s7 > s10 => Pr!Matches(s2)
         /\ s8 <= 1 + s10 /\ (s8 > s10 => s2.head = s1.head /\ s2.rerun)
    <3>1. s2.granted <= s9 /\ s9 <= s2.granted + s10
      BY <1>1, <2>5, Zenon DEF Pr!GrantsBuyRounds
    <3>2. s7 > s10 => Pr!Matches(s2)
      BY <1>1, <2>5, <2>4 DEF Pr!ToldIsRead
    <3>3. s8 <= 1 + s10
      BY <1>1, Zenon DEF Pr!OneRerunPerHead
    <3>4. s8 > s10 => s2.head = s1.head /\ s2.rerun
      BY <1>1, <2>5, <2>4 DEF Pr!AskedIsRead, Pr!Polling
    <3> QED
      BY <3>1, <3>2, <3>3, <3>4
  <2>18. s8' <= 1 + s10 /\ s8' \in Nat /\ (s8' > s10 => rr)
    <3>1. CASE asks
      <4>1. s8' = s8 + 1 /\ rr
        BY <3>1, <2>14, <2>11
      <4>2. ~(s8 > s10)
        BY <3>1, <2>9, <2>8, <2>17
      <4> QED
        BY <4>1, <4>2, <2>2
    <3>2. CASE ~asks
      <4>1. s8' = s8 /\ (rr <=> (r.rerun))
        BY <3>2, <2>14, <2>11, <2>8 DEF Pr!Readings
      <4> QED
        BY <4>1, <2>17, <2>8, <2>2
    <3> QED
      BY <3>1, <3>2
  <2>19. Pr!PulledShape' /\ Pr!SeenShape' /\ Pr!HeardShape'
    BY <1>1, <2>1, Zenon DEF Pr!PulledShape, Pr!SeenShape, Pr!HeardShape
  <2>20. Pr!RecordedChangesWereTold' /\ Pr!VerdictsAreToldOnce' /\ Pr!RoundsAreHeads'
    BY <1>1, <2>1, Zenon DEF Pr!RecordedChangesWereTold, Pr!VerdictsAreToldOnce,
       Pr!RoundsAreHeads
  <2>21. Pr!DecisionShape'
    <3>1. Pr!DecisionAfter(Pr!Answered(f)) \in {"none", "open", "grant", "takeover", "applied"}
      <4>1. s3 \in {"none", "open", "grant", "takeover", "applied"}
        BY <1>1, Zenon DEF Pr!DecisionShape
      <4> QED
        BY <4>1 DEF Pr!DecisionAfter
    <3> QED
      BY <3>1, <2>14 DEF Pr!DecisionShape
  <2>22. Pr!StageShape'
    BY <2>15 DEF Pr!StageShape
  <2>23. Pr!CountShape'
    BY <2>1, <2>14, <2>18, <2>2 DEF Pr!CountShape
  <2>24. Pr!SavedWasTold'
    BY <2>15 DEF Pr!SavedWasTold
  <2>25. Pr!ToldIsRead'
    <3>1. Pr!Matches(q)
      BY <2>13, <2>8 DEF Pr!Matches
    <3>2. s1' = s1 /\ s2' = s2 /\ s7' = s7 /\ s10' = s10
      BY <2>1
    <3> QED
      BY <3>1, <3>2, <2>17, <2>15 DEF Pr!ToldIsRead, Pr!Matches, Pr!Polling
  <2>26. Pr!AskedIsRead'
    BY <2>1, <2>15, <2>18, <2>13, <2>8 DEF Pr!AskedIsRead, Pr!Polling
  <2>27. Pr!GrantsAreRead'
    BY <2>1, <2>15, <2>14, <2>13, <2>8, <2>17, <2>2, <2>3, <2>16 DEF Pr!GrantsAreRead,
       Pr!Polling
  <2>28. Pr!HeadsAreCounted'
    <3>1. s2.rounds <= s2.round /\ s2.round <= s2.head /\ s2.head <= s1.head
      BY <1>1, Zenon DEF Pr!HeadsAreCounted, Pr!CountsHeads
    <3>2. CASE s1.checks \in Pr!Finished
      BY <3>1, <3>2, <2>1, <2>15, <2>13, <2>8, <2>3 DEF Pr!HeadsAreCounted, Pr!CountsHeads, Pr!Polling
    <3>3. CASE s1.checks \notin Pr!Finished
      BY <3>1, <3>3, <2>1, <2>15, <2>13, <2>8, <2>3 DEF Pr!HeadsAreCounted, Pr!CountsHeads, Pr!Polling
    <3> QED
      BY <3>2, <3>3
  <2>29. Pr!OneRerunPerHead'
    BY <2>1, <2>18 DEF Pr!OneRerunPerHead
  <2>30. Pr!GrantsBuyRounds'
    <3>1. s4' # Pr!Idle
      BY <2>15, <2>4
    <3> QED
      BY <3>1, Zenon DEF Pr!GrantsBuyRounds
  <2> QED
    BY <2>19, <2>20, <2>21, <2>22, <2>23, <2>24, <2>25, <2>26, <2>27, <2>28, <2>29, <2>30
       DEF Pr!PullRequestsInv
<1>10. ASSUME NEW a \in {"grant", "takeover"}, Pr!Decide(a)
       PROVE  Pr!PullRequestsInv'
  <2>1. /\ s1' = s1 /\ s2' = s2 /\ s4' = s4 /\ s5' = s5 /\ s6' = s6 /\ s7' = s7
        /\ s8' = s8 /\ s9' = s9 /\ s10' = s10
    BY <1>10, Zenon DEF Pr!Decide
  <2>2. s3' = a
    BY <1>10, Zenon DEF Pr!Decide
  <2>3. Pr!PulledShape' /\ Pr!SeenShape' /\ Pr!StageShape'
    BY <1>1, <2>1, Zenon DEF Pr!PulledShape, Pr!SeenShape, Pr!StageShape
  <2>4. Pr!HeardShape' /\ Pr!CountShape' /\ Pr!SavedWasTold'
    BY <1>1, <2>1, Zenon DEF Pr!HeardShape, Pr!CountShape, Pr!SavedWasTold
  <2>5. Pr!ToldIsRead' /\ Pr!AskedIsRead' /\ Pr!GrantsAreRead'
    BY <1>1, <2>1, Zenon DEF Pr!ToldIsRead, Pr!Polling, Pr!Matches, Pr!AskedIsRead,
       Pr!GrantsAreRead
  <2>6. Pr!HeadsAreCounted' /\ Pr!RecordedChangesWereTold' /\ Pr!VerdictsAreToldOnce'
    BY <1>1, <2>1, Zenon DEF Pr!HeadsAreCounted, Pr!Polling, Pr!CountsHeads,
       Pr!RecordedChangesWereTold, Pr!VerdictsAreToldOnce
  <2>7. Pr!OneRerunPerHead' /\ Pr!GrantsBuyRounds' /\ Pr!RoundsAreHeads'
    BY <1>1, <2>1, Zenon DEF Pr!OneRerunPerHead, Pr!GrantsBuyRounds, Pr!RoundsAreHeads
  <2>8. Pr!DecisionShape'
    BY <2>2 DEF Pr!DecisionShape
  <2> QED
    BY <2>3, <2>4, <2>5, <2>6, <2>7, <2>8 DEF Pr!PullRequestsInv
<1> QED
  BY <1>2, <1>3, <1>4, <1>5, <1>6, <1>7, <1>8, <1>9, <1>10, Zenon DEF Pr!PullRequestsNext

(* Nothing was read of the pull request just opened.                         *)
LEMMA PullRequestsInitially == Pr!PullRequestsInit => Pr!PullRequestsInv
<1> SUFFICES ASSUME Pr!PullRequestsInit PROVE Pr!PullRequestsInv
  OBVIOUS
<1> USE IntegrationAssumption
<1>1. /\ s1 = [head |-> 1, run |-> 0, checks |-> "pending", reviews |-> 0]
      /\ s2 = Pr!NotSeen /\ s3 = "none" /\ s4 = Pr!Idle /\ s5 = {} /\ s6 = {} /\ s7 = 0
      /\ s8 = 0 /\ s9 = 0 /\ s10 = 0
  BY Zenon DEF Pr!PullRequestsInit
<1>2. /\ 0 \in 0..MaxHeads /\ 0 \in 0..MaxReviews /\ 0 \in Nat /\ 1 \in 1..MaxHeads
      /\ 0 \in 0..MaxRuns
  OBVIOUS
<1>3. /\ Pr!NotSeen \in Pr!Readings /\ Pr!NotSeen.granted = 0 /\ Pr!NotSeen.rounds = 0
      /\ Pr!NotSeen.round = 0 /\ Pr!NotSeen.head = 0 /\ Pr!NotSeen.reviews = 0
      /\ Pr!NotSeen.checks = ""
  BY <1>2 DEF Pr!NotSeen, Pr!Readings
<1>4. /\ Pr!Idle \in [at : {"idle", "tell", "save"}, read : Pr!Readings]
      /\ Pr!Idle.at = "idle"
  BY <1>3 DEF Pr!Idle
<1>5. /\ s2.granted = 0 /\ s2.rounds = 0 /\ s2.round = 0 /\ s2.head = 0 /\ s4.at = "idle"
     /\ s7 = 0 /\ s8 = 0 /\ s9 = 0 /\ s10 = 0
  BY <1>1, <1>3, <1>4, Zenon
<1>6. s1.head = 1 /\ Pr!PulledShape
  <2>1. "pending" \in Pr!Finished \cup {"pending"}
    OBVIOUS
  <2> QED
    BY <1>1, <1>2, <2>1 DEF Pr!PulledShape
<1>7. Pr!SeenShape /\ Pr!DecisionShape /\ Pr!StageShape /\ Pr!HeardShape /\ Pr!CountShape
  BY <1>1, <1>3, <1>4 DEF Pr!SeenShape, Pr!DecisionShape, Pr!StageShape, Pr!HeardShape,
     Pr!CountShape
<1>8. Pr!SavedWasTold /\ Pr!ToldIsRead /\ Pr!AskedIsRead /\ Pr!GrantsAreRead /\ Pr!HeadsAreCounted
  <2>1. Pr!SavedWasTold /\ Pr!GrantsAreRead
    BY <1>5 DEF Pr!SavedWasTold, Pr!GrantsAreRead, Pr!Polling
  <2>2. Pr!ToldIsRead /\ Pr!AskedIsRead
    BY <1>5 DEF Pr!ToldIsRead, Pr!AskedIsRead
  <2>3. Pr!HeadsAreCounted
    BY <1>6, <1>5 DEF Pr!HeadsAreCounted, Pr!CountsHeads, Pr!Polling
  <2> QED
    BY <2>1, <2>2, <2>3
<1>9. Pr!RecordedChangesWereTold
  <2>1. 1..0 \subseteq {}
    OBVIOUS
  <2>2. "" \notin Pr!Finished
    BY DEF Pr!Finished
  <2> QED
    BY <1>1, <1>3, <2>1, <2>2 DEF Pr!RecordedChangesWereTold
<1>10. Pr!VerdictsAreToldOnce /\ Pr!OneRerunPerHead /\ Pr!GrantsBuyRounds /\ Pr!RoundsAreHeads
  <2>1. Pr!VerdictsAreToldOnce /\ Pr!OneRerunPerHead
    BY <1>5 DEF Pr!VerdictsAreToldOnce, Pr!OneRerunPerHead
  <2>2. Pr!GrantsBuyRounds /\ Pr!RoundsAreHeads
    BY <1>6, <1>5 DEF Pr!GrantsBuyRounds, Pr!RoundsAreHeads
  <2> QED
    BY <2>1, <2>2
<1> QED
  BY <1>6, <1>7, <1>8, <1>9, <1>10, Zenon DEF Pr!PullRequestsInv

(* The invariant says what the run asks of pull requests.                    *)
LEMMA PullRequestsSaySo ==
  Pr!PullRequestsInv =>
    /\ Pr!PullRequestsTypeOK
    /\ Pr!RecordedChangesWereTold /\ Pr!VerdictsAreToldOnce /\ Pr!OneRerunPerHead
    /\ Pr!GrantsBuyRounds /\ Pr!RoundsAreHeads
<1> SUFFICES ASSUME Pr!PullRequestsInv
             PROVE  /\ Pr!PullRequestsTypeOK
                    /\ Pr!RecordedChangesWereTold /\ Pr!VerdictsAreToldOnce /\ Pr!OneRerunPerHead
                    /\ Pr!GrantsBuyRounds /\ Pr!RoundsAreHeads
  OBVIOUS
<1>1. /\ s1 \in [head : 1..MaxHeads, run : 0..MaxRuns, checks : Pr!Finished \cup {"pending"},
                 reviews : 0..MaxReviews]
      /\ s2 \in Pr!Readings /\ s4 \in [at : {"idle", "tell", "save"}, read : Pr!Readings]
      /\ s3 \in {"none", "open", "grant", "takeover", "applied"}
  BY Zenon DEF Pr!PullRequestsInv, Pr!PulledShape, Pr!SeenShape, Pr!StageShape, Pr!DecisionShape
<1>2. s1.head \in 1..MaxHeads /\ s1.run \in 0..MaxRuns /\ s1.checks \in Pr!Finished \cup {"pending"}
  BY <1>1
<1>3. s2.head \in 0..MaxHeads /\ s2.granted \in Nat
  BY <1>1 DEF Pr!Readings
<1>4. s4.at \in {"idle", "tell", "save"}
  BY <1>1
<1>5. Pr!PullRequestsTypeOK
  BY <1>1, <1>2, <1>3, <1>4, Zenon DEF Pr!PullRequestsTypeOK
<1> QED
  BY <1>5, Zenon DEF Pr!PullRequestsInv

(* Where nothing happens nothing changes.                                    *)
LEMMA PullRequestsStay ==
  ASSUME Pr!PullRequestsInv, UNCHANGED Pr!prVars
  PROVE  Pr!PullRequestsInv'
<1>1. /\ Pr!PulledShape
      /\ Pr!SeenShape
      /\ Pr!DecisionShape
      /\ Pr!StageShape
      /\ Pr!HeardShape
      /\ Pr!CountShape
      /\ Pr!SavedWasTold
      /\ Pr!ToldIsRead
      /\ Pr!AskedIsRead
      /\ Pr!GrantsAreRead
      /\ Pr!HeadsAreCounted
      /\ Pr!RecordedChangesWereTold
      /\ Pr!VerdictsAreToldOnce
      /\ Pr!OneRerunPerHead
      /\ Pr!GrantsBuyRounds
      /\ Pr!RoundsAreHeads
  BY DEF Pr!PullRequestsInv
<1>2. /\ s1' = s1 /\ s2' = s2 /\ s3' = s3 /\ s4' = s4 /\ s5' = s5 /\ s6' = s6
      /\ s7' = s7 /\ s8' = s8 /\ s9' = s9 /\ s10' = s10
  BY DEF Pr!prVars
<1>3. Pr!PulledShape' /\ Pr!SeenShape' /\ Pr!DecisionShape'
  BY <1>1, <1>2, Zenon DEF Pr!PulledShape, Pr!SeenShape, Pr!DecisionShape
<1>4. Pr!StageShape' /\ Pr!HeardShape' /\ Pr!CountShape'
  BY <1>1, <1>2, Zenon DEF Pr!StageShape, Pr!HeardShape, Pr!CountShape
<1>5. Pr!SavedWasTold' /\ Pr!ToldIsRead' /\ Pr!AskedIsRead'
  BY <1>1, <1>2, Zenon DEF Pr!SavedWasTold, Pr!ToldIsRead, Pr!Polling, Pr!Matches,
     Pr!AskedIsRead
<1>6. Pr!GrantsAreRead' /\ Pr!HeadsAreCounted' /\ Pr!RecordedChangesWereTold'
  BY <1>1, <1>2, Zenon DEF Pr!GrantsAreRead, Pr!Polling, Pr!HeadsAreCounted, Pr!CountsHeads,
     Pr!RecordedChangesWereTold
<1>7. Pr!VerdictsAreToldOnce' /\ Pr!OneRerunPerHead' /\ Pr!GrantsBuyRounds'
  BY <1>1, <1>2, Zenon DEF Pr!VerdictsAreToldOnce, Pr!OneRerunPerHead, Pr!GrantsBuyRounds
<1>8. Pr!RoundsAreHeads'
  BY <1>1, <1>2, Zenon DEF Pr!RoundsAreHeads
<1> QED
  BY <1>3, <1>4, <1>5, <1>6, <1>7, <1>8 DEF Pr!PullRequestsInv

(* A refresh takes its lock, reads pages and publishes what it read, while the
   forge and the ledger move on: every step keeps the catalog's invariant, and
   a claim it ends is on closed work. *)
LEMMA CatalogStep ==
  ASSUME Fc!CatalogInv, Fc!CatalogNext
  PROVE  Fc!CatalogInv' /\ Fc!OnlyClosedWorkIsEndedStep
<1> USE IntegrationAssumption
<1>1. /\ Fc!ClockShape
      /\ Fc!ForgeShape
      /\ Fc!CatalogShape
      /\ Fc!RefreshShape
      /\ Fc!RecordsShape
      /\ Fc!ClosedShape
      /\ Fc!EditsShape
      /\ Fc!ForgeIsPast
      /\ Fc!CatalogIsPast
      /\ Fc!ReadingIsLater
      /\ Fc!ClosedIsNoted
      /\ Fc!AnswerIsCurrent
      /\ Fc!UnlistedWereClosed
      /\ Fc!CatalogIsCurrent
  BY DEF Fc!CatalogInv
<1>2. ASSUME Fc!CatalogTick
      PROVE  Fc!CatalogInv' /\ Fc!OnlyClosedWorkIsEndedStep
  <2>1. /\ s2' = s2 /\ s3' = s3 /\ s4' = s4 /\ s5' = s5 /\ s6' = s6 /\ s7' = s7
        /\ s8' = s8
    BY <1>2, Zenon DEF Fc!CatalogTick, Fc!Bounds
  <2>2. s1' = s1 + 1
    BY <1>2, Zenon DEF Fc!CatalogTick, Fc!Bounds
  <2>3. s1 < MaxClock
    BY <1>2, Zenon DEF Fc!CatalogTick
  <2>4. /\ s1 \in Nat /\ s3.read \in Nat /\ s3.complete \in Nat /\ s4.at \in Nat
        /\ \A j \in CatIssues : s2[j].at \in Nat /\ s5[j].touched \in Nat
    BY <1>1 DEF Fc!ClockShape, Fc!CatalogShape, Fc!RefreshShape, Fc!ForgeShape,
       Fc!RecordsShape, Fc!Times
  <2>5. Fc!ForgeShape' /\ Fc!CatalogShape' /\ Fc!RefreshShape'
    BY <1>1, <2>1, Zenon DEF Fc!ForgeShape, Fc!Times, Fc!CatalogShape, Fc!RefreshShape
  <2>6. Fc!RecordsShape' /\ Fc!ClosedShape' /\ Fc!EditsShape'
    BY <1>1, <2>1, Zenon DEF Fc!RecordsShape, Fc!Times, Fc!ClosedShape, Fc!EditsShape
  <2>7. Fc!ClosedIsNoted' /\ Fc!AnswerIsCurrent' /\ Fc!UnlistedWereClosed'
    BY <1>1, <2>1, Zenon DEF Fc!ClosedIsNoted, Fc!Open, Fc!AnswerIsCurrent,
       Fc!UnlistedWereClosed
  <2>8. Fc!CatalogIsCurrent'
    BY <1>1, <2>1, Zenon DEF Fc!CatalogIsCurrent, Fc!Open, Fc!HasCatalog
  <2>9. Fc!ClockShape'
    BY <1>1, <2>2, <2>3 DEF Fc!ClockShape, Fc!Times
  <2>10. Fc!ForgeIsPast'
    BY <1>1, <2>1, <2>2, <2>4 DEF Fc!ForgeIsPast
  <2>11. Fc!CatalogIsPast'
    BY <1>1, <2>1, <2>2, <2>4 DEF Fc!CatalogIsPast
  <2>12. Fc!ReadingIsLater'
    BY <1>1, <2>1, <2>2, <2>4 DEF Fc!ReadingIsLater, Fc!HasCatalog
  <2>13. Fc!OnlyClosedWorkIsEndedStep
    BY <2>1, Zenon DEF Fc!OnlyClosedWorkIsEndedStep
  <2> QED
    BY <2>5, <2>6, <2>7, <2>8, <2>9, <2>10, <2>11, <2>12, <2>13 DEF Fc!CatalogInv
<1>3. ASSUME NEW i \in CatIssues, Fc!Touch(i)
      PROVE  Fc!CatalogInv' /\ Fc!OnlyClosedWorkIsEndedStep
  <2>1. s1' = s1 /\ s2' = s2 /\ s3' = s3 /\ s4' = s4 /\ s7' = s7
    BY <1>3, Zenon DEF Fc!Touch
  <2>2. s8' = s8 + 1
    BY <1>3, Zenon DEF Fc!Touch
  <2>3. /\ s1 \in Nat /\ s3.read \in Nat /\ s3.complete \in Nat /\ s4.at \in Nat
        /\ \A j \in CatIssues : s2[j].at \in Nat /\ s5[j].touched \in Nat
    BY <1>1 DEF Fc!ClockShape, Fc!CatalogShape, Fc!RefreshShape, Fc!ForgeShape,
       Fc!RecordsShape, Fc!Times
  <2>4. s5' = [s5 EXCEPT ![i] = [known |-> TRUE, owned |-> ~s5[i].owned,
                   ended |-> s5[i].ended /\ s5[i].owned, touched |-> s1]]
    BY <1>3, Zenon DEF Fc!Touch
  <2>5. s6' = IF Fc!Open(i) THEN s6 \ {i} ELSE s6 \cup {i}
    BY <1>3, Zenon DEF Fc!Touch
  <2>6. s8 < MaxTouches
    BY <1>3, Zenon DEF Fc!Touch
  <2>7. s5[i].ended \in BOOLEAN /\ s5[i].owned \in BOOLEAN
    BY <1>1 DEF Fc!RecordsShape
  <2>8. [known |-> TRUE, owned |-> ~s5[i].owned, ended |-> s5[i].ended /\ s5[i].owned, touched |-> s1]
           \in [known : BOOLEAN, owned : BOOLEAN, ended : BOOLEAN, touched : Fc!Times]
    <3>1. ASSUME NEW o \in BOOLEAN, NEW e \in BOOLEAN, NEW t \in Fc!Times
          PROVE  [known |-> TRUE, owned |-> o, ended |-> e, touched |-> t]
                    \in [known : BOOLEAN, owned : BOOLEAN, ended : BOOLEAN, touched : Fc!Times]
      BY Zenon
    <3>2. (~s5[i].owned) \in BOOLEAN /\ (s5[i].ended /\ s5[i].owned) \in BOOLEAN
      BY Zenon
    <3> QED
      BY <1>1, <3>1, <3>2, Zenon DEF Fc!ClockShape
  <2>9. /\ s5' \in [CatIssues -> [known : BOOLEAN, owned : BOOLEAN, ended : BOOLEAN, touched : Fc!Times]]
        /\ s5'[i].touched = s1 /\ (s5'[i].ended => s5[i].ended)
        /\ \A j \in CatIssues : j # i => s5'[j] = s5[j]
    <3>1. PICK n : n = [known |-> TRUE, owned |-> ~s5[i].owned, ended |-> s5[i].ended /\ s5[i].owned, touched |-> s1]
      OBVIOUS
    <3>2. n.touched = s1 /\ (n.ended => s5[i].ended)
      BY <3>1, <2>7
    <3>3. s5' = [s5 EXCEPT ![i] = n] /\ n \in [known : BOOLEAN, owned : BOOLEAN, ended : BOOLEAN, touched : Fc!Times]
      BY <2>4, <2>8, <3>1, Zenon
    <3> QED
      BY <1>1, <3>2, <3>3 DEF Fc!RecordsShape
  <2>10. Fc!ClockShape' /\ Fc!ForgeShape' /\ Fc!CatalogShape'
    BY <1>1, <2>1, Zenon DEF Fc!ClockShape, Fc!Times, Fc!ForgeShape, Fc!CatalogShape
  <2>11. Fc!RefreshShape' /\ Fc!ForgeIsPast' /\ Fc!CatalogIsPast'
    BY <1>1, <2>1, Zenon DEF Fc!RefreshShape, Fc!Times, Fc!ForgeIsPast, Fc!CatalogIsPast
  <2>12. Fc!ReadingIsLater' /\ Fc!AnswerIsCurrent' /\ Fc!CatalogIsCurrent'
    BY <1>1, <2>1, Zenon DEF Fc!ReadingIsLater, Fc!HasCatalog, Fc!AnswerIsCurrent, Fc!Open,
       Fc!CatalogIsCurrent
  <2>13. Fc!RecordsShape'
    BY <2>9 DEF Fc!RecordsShape
  <2>14. Fc!ClosedShape'
    BY <1>1, <2>5, Zenon DEF Fc!ClosedShape
  <2>15. Fc!EditsShape'
    BY <1>1, <2>1, <2>2, <2>6 DEF Fc!EditsShape
  <2>16. Fc!ClosedIsNoted'
    BY <1>1, <2>1, <2>5, Zenon DEF Fc!ClosedIsNoted, Fc!Open
  <2>17. Fc!UnlistedWereClosed'
    <3>1. SUFFICES ASSUME s4.stage = "answered", Fc!Cardinality(s4.answer) < CatLimit, NEW j \in CatIssues
                    PROVE  j \in s4.answer \/ j \in s6' \/ s5'[j].touched >= s4.at
      BY <2>1, Zenon DEF Fc!UnlistedWereClosed
    <3>2. s4.at <= s1
      BY <1>1, <3>1 DEF Fc!ReadingIsLater
    <3>3. CASE j = i
      BY <3>2, <3>3, <2>9, <2>3
    <3>4. CASE j # i
      BY <1>1, <3>1, <3>4, <2>9, <2>5 DEF Fc!UnlistedWereClosed
    <3> QED
      BY <3>3, <3>4
  <2>18. Fc!OnlyClosedWorkIsEndedStep
    BY <2>9 DEF Fc!OnlyClosedWorkIsEndedStep
  <2> QED
    BY <2>10, <2>11, <2>12, <2>13, <2>14, <2>15, <2>16, <2>17, <2>18 DEF Fc!CatalogInv
<1>4. ASSUME NEW i \in CatIssues, NEW s \in {"open", "closed", "gone"}, Fc!ForgeChanges(i, s)
      PROVE  Fc!CatalogInv' /\ Fc!OnlyClosedWorkIsEndedStep
  <2>1. s1' = s1 /\ s3' = s3 /\ s4' = s4 /\ s5' = s5 /\ s8' = s8
    BY <1>4, Zenon DEF Fc!ForgeChanges
  <2>2. s7' = s7 + 1
    BY <1>4, Zenon DEF Fc!ForgeChanges
  <2>3. /\ s1 \in Nat /\ s3.read \in Nat /\ s3.complete \in Nat /\ s4.at \in Nat
        /\ \A j \in CatIssues : s2[j].at \in Nat /\ s5[j].touched \in Nat
    BY <1>1 DEF Fc!ClockShape, Fc!CatalogShape, Fc!RefreshShape, Fc!ForgeShape,
       Fc!RecordsShape, Fc!Times
  <2>4. s2' = [s2 EXCEPT ![i] = [state |-> s, at |-> s1]]
    BY <1>4, Zenon DEF Fc!ForgeChanges
  <2>5. s6' = IF s = "open" THEN s6 ELSE s6 \cup {i}
    BY <1>4, Zenon DEF Fc!ForgeChanges
  <2>6. s7 < MaxForgeEdits
    BY <1>4, Zenon DEF Fc!ForgeChanges
  <2>7. /\ s2' \in [CatIssues -> [state : {"open", "closed", "gone"}, at : Fc!Times]]
        /\ s2'[i].state = s /\ s2'[i].at = s1
        /\ \A j \in CatIssues : j # i => s2'[j] = s2[j]
    BY <1>1, <2>4 DEF Fc!ForgeShape, Fc!ClockShape
  <2>8. Fc!ClockShape' /\ Fc!CatalogShape' /\ Fc!RefreshShape'
    BY <1>1, <2>1, Zenon DEF Fc!ClockShape, Fc!Times, Fc!CatalogShape, Fc!RefreshShape
  <2>9. Fc!RecordsShape' /\ Fc!CatalogIsPast' /\ Fc!ReadingIsLater'
    BY <1>1, <2>1, Zenon DEF Fc!RecordsShape, Fc!Times, Fc!CatalogIsPast, Fc!ReadingIsLater,
       Fc!HasCatalog
  <2>10. Fc!ForgeShape'
    BY <2>7 DEF Fc!ForgeShape
  <2>11. Fc!ClosedShape'
    BY <1>1, <2>5, Zenon DEF Fc!ClosedShape
  <2>12. Fc!EditsShape'
    BY <1>1, <2>1, <2>2, <2>6 DEF Fc!EditsShape
  <2>13. Fc!ForgeIsPast'
    BY <1>1, <2>1, <2>7, <2>3 DEF Fc!ForgeIsPast
  <2>14. Fc!ClosedIsNoted'
    BY <1>1, <2>5, <2>7 DEF Fc!ClosedIsNoted, Fc!Open
  <2>15. Fc!AnswerIsCurrent'
    <3>1. SUFFICES ASSUME s4.stage \in {"answered", "merged"}, NEW j \in CatIssues, s2'[j].at < s4.at
                    PROVE  /\ j \in s4.answer => s2'[j].state = "open"
                              \/ (s2'[j].state = "gone" /\ ~s4.full /\ s2'[j].at >= s3.complete)
                           /\ s2'[j].state = "open" => j \in s4.answer
                              \/ (s4.full /\ Fc!Cardinality(s4.answer) >= CatLimit)
                              \/ (~s4.full /\ s3.cut)
      BY <2>1, Zenon DEF Fc!AnswerIsCurrent, Fc!Open
    <3>2. s4.at <= s1
      BY <1>1, <3>1 DEF Fc!ReadingIsLater
    <3>3. j # i
      BY <3>1, <3>2, <2>7, <2>3
    <3>4. s2'[j] = s2[j]
      BY <3>3, <2>7
    <3> QED
      BY <1>1, <3>1, <3>4 DEF Fc!AnswerIsCurrent, Fc!Open
  <2>16. Fc!UnlistedWereClosed'
    <3>1. \A j : j \in s6 => j \in s6'
      BY <2>5
    <3> QED
      BY <1>1, <2>1, <3>1, Zenon DEF Fc!UnlistedWereClosed
  <2>17. Fc!CatalogIsCurrent'
    <3>1. SUFFICES ASSUME s3.read > 0, NEW j \in CatIssues, s2'[j].at < s3.read
                    PROVE  /\ j \in s3.listed => s2'[j].state = "open"
                              \/ (s2'[j].state = "gone" /\ s2'[j].at >= s3.complete)
                           /\ s2'[j].state = "open" => j \in s3.listed \/ s3.cut
      BY <2>1, Zenon DEF Fc!CatalogIsCurrent, Fc!Open, Fc!HasCatalog
    <3>2. s3.read <= s1
      BY <1>1 DEF Fc!CatalogIsPast
    <3>3. j # i
      BY <3>1, <3>2, <2>7, <2>3
    <3>4. s2'[j] = s2[j]
      BY <3>3, <2>7
    <3> QED
      BY <1>1, <3>1, <3>4 DEF Fc!CatalogIsCurrent, Fc!Open, Fc!HasCatalog
  <2>18. Fc!OnlyClosedWorkIsEndedStep
    BY <2>1, Zenon DEF Fc!OnlyClosedWorkIsEndedStep
  <2> QED
    BY <2>8, <2>9, <2>10, <2>11, <2>12, <2>13, <2>14, <2>15, <2>16, <2>17, <2>18 DEF
       Fc!CatalogInv
<1>5. ASSUME Fc!Begin
      PROVE  Fc!CatalogInv' /\ Fc!OnlyClosedWorkIsEndedStep
  <2>1. /\ s1' = s1 /\ s2' = s2 /\ s3' = s3 /\ s5' = s5 /\ s6' = s6 /\ s7' = s7
        /\ s8' = s8
    BY <1>5, Zenon DEF Fc!Begin, Fc!Bounds
  <2>2. /\ s1 \in Nat /\ s3.read \in Nat /\ s3.complete \in Nat /\ s4.at \in Nat
        /\ \A j \in CatIssues : s2[j].at \in Nat /\ s5[j].touched \in Nat
    BY <1>1 DEF Fc!ClockShape, Fc!CatalogShape, Fc!RefreshShape, Fc!ForgeShape,
       Fc!RecordsShape, Fc!Times
  <2>3. s4' = [stage |-> "asking", at |-> s1, answer |-> {},
                full |-> ~Fc!HasCatalog \/ s1 - s3.complete >= CatFull]
    BY <1>5, Zenon DEF Fc!Begin
  <2>4. s1 - s3.read >= 1
    BY <1>5, Zenon DEF Fc!Begin
  <2>5. \/ s4' = [stage |-> "asking", at |-> s1, answer |-> {}, full |-> TRUE]
        \/ s4' = [stage |-> "asking", at |-> s1, answer |-> {}, full |-> FALSE] /\ Fc!HasCatalog
    BY <2>3, Zenon
  <2>6. Fc!ClockShape' /\ Fc!ForgeShape' /\ Fc!CatalogShape'
    BY <1>1, <2>1, Zenon DEF Fc!ClockShape, Fc!Times, Fc!ForgeShape, Fc!CatalogShape
  <2>7. Fc!RecordsShape' /\ Fc!ClosedShape' /\ Fc!EditsShape'
    BY <1>1, <2>1, Zenon DEF Fc!RecordsShape, Fc!Times, Fc!ClosedShape, Fc!EditsShape
  <2>8. Fc!ForgeIsPast' /\ Fc!CatalogIsPast' /\ Fc!ClosedIsNoted'
    BY <1>1, <2>1, Zenon DEF Fc!ForgeIsPast, Fc!CatalogIsPast, Fc!ClosedIsNoted, Fc!Open
  <2>9. Fc!CatalogIsCurrent'
    BY <1>1, <2>1, Zenon DEF Fc!CatalogIsCurrent, Fc!Open, Fc!HasCatalog
  <2>10. Fc!RefreshShape'
    <3>1. \A b \in BOOLEAN : [stage |-> "asking", at |-> s1, answer |-> {}, full |-> b]
             \in [stage : {"idle", "asking", "answered", "merged"}, at : Fc!Times, full : BOOLEAN,
                  answer : SUBSET CatIssues]
      <4>1. \A b \in BOOLEAN, t \in Fc!Times, a \in SUBSET CatIssues :
               [stage |-> "asking", at |-> t, answer |-> a, full |-> b]
                 \in [stage : {"idle", "asking", "answered", "merged"}, at : Fc!Times, full : BOOLEAN,
                      answer : SUBSET CatIssues]
        BY Zenon
      <4>2. {} \in SUBSET CatIssues
        OBVIOUS
      <4> QED
        BY <1>1, <4>1, <4>2, Zenon DEF Fc!ClockShape
    <3> QED
      BY <2>5, <3>1, Zenon DEF Fc!RefreshShape
  <2>11. Fc!ReadingIsLater'
    BY <1>1, <2>1, <2>5, <2>4, <2>2 DEF Fc!ReadingIsLater, Fc!HasCatalog
  <2>12. Fc!AnswerIsCurrent'
    BY <2>5 DEF Fc!AnswerIsCurrent
  <2>13. Fc!UnlistedWereClosed'
    BY <2>5 DEF Fc!UnlistedWereClosed
  <2>14. Fc!OnlyClosedWorkIsEndedStep
    BY <2>1, Zenon DEF Fc!OnlyClosedWorkIsEndedStep
  <2> QED
    BY <2>6, <2>7, <2>8, <2>9, <2>10, <2>11, <2>12, <2>13, <2>14 DEF Fc!CatalogInv
<1>6. ASSUME Fc!AskFails
      PROVE  Fc!CatalogInv' /\ Fc!OnlyClosedWorkIsEndedStep
  <2>1. s1' = s1 /\ s2' = s2 /\ s5' = s5 /\ s6' = s6 /\ s7' = s7 /\ s8' = s8
    BY <1>6, Zenon DEF Fc!AskFails, Fc!Bounds
  <2>2. s4'.stage = "idle" /\ s4' \in [stage : {"idle", "asking", "answered", "merged"},
                at : Fc!Times, full : BOOLEAN, answer : SUBSET CatIssues]
    <3>1. Fc!NoRefresh.stage = "idle" /\ Fc!NoRefresh \in [stage : {"idle", "asking", "answered", "merged"},
              at : Fc!Times, full : BOOLEAN, answer : SUBSET CatIssues]
      BY DEF Fc!NoRefresh, Fc!Times
    <3> QED
      BY <1>6, <3>1, Zenon DEF Fc!AskFails
  <2>3. /\ s3' \in [read : Fc!Times, complete : Fc!Times, failed : Fc!Times, listed : SUBSET CatIssues, cut : BOOLEAN]
        /\ s3'.read = s3.read /\ s3'.complete = s3.complete /\ s3'.listed = s3.listed /\ (s3'.cut <=> s3.cut)
    <3>1. s3' = [s3 EXCEPT !.failed = s4.at]
      BY <1>6, Zenon DEF Fc!AskFails
    <3>2. s4.at \in Fc!Times
      BY <1>1 DEF Fc!RefreshShape
    <3> QED
      BY <1>1, <3>1, <3>2 DEF Fc!CatalogShape
  <2>4. Fc!ClockShape' /\ Fc!ForgeShape' /\ Fc!RecordsShape'
    BY <1>1, <2>1, Zenon DEF Fc!ClockShape, Fc!Times, Fc!ForgeShape, Fc!RecordsShape
  <2>5. Fc!ClosedShape' /\ Fc!EditsShape' /\ Fc!ForgeIsPast'
    BY <1>1, <2>1, Zenon DEF Fc!ClosedShape, Fc!EditsShape, Fc!ForgeIsPast
  <2>6. Fc!ClosedIsNoted'
    BY <1>1, <2>1, Zenon DEF Fc!ClosedIsNoted, Fc!Open
  <2>7. Fc!CatalogShape'
    BY <2>3 DEF Fc!CatalogShape
  <2>8. Fc!RefreshShape'
    BY <2>2 DEF Fc!RefreshShape
  <2>9. Fc!CatalogIsPast'
    BY <1>1, <2>1, <2>3 DEF Fc!CatalogIsPast
  <2>10. Fc!ReadingIsLater'
    BY <2>2 DEF Fc!ReadingIsLater
  <2>11. Fc!AnswerIsCurrent'
    BY <2>2 DEF Fc!AnswerIsCurrent
  <2>12. Fc!UnlistedWereClosed'
    BY <2>2 DEF Fc!UnlistedWereClosed
  <2>13. Fc!CatalogIsCurrent'
    BY <1>1, <2>1, <2>3, Zenon DEF Fc!CatalogIsCurrent, Fc!Open, Fc!HasCatalog
  <2>14. Fc!OnlyClosedWorkIsEndedStep
    BY <2>1, Zenon DEF Fc!OnlyClosedWorkIsEndedStep
  <2> QED
    BY <2>4, <2>5, <2>6, <2>7, <2>8, <2>9, <2>10, <2>11, <2>12, <2>13, <2>14 DEF Fc!CatalogInv
<1>7. ASSUME Fc!Stops
      PROVE  Fc!CatalogInv' /\ Fc!OnlyClosedWorkIsEndedStep
  <2>1. /\ s1' = s1 /\ s2' = s2 /\ s3' = s3 /\ s5' = s5 /\ s6' = s6 /\ s7' = s7
        /\ s8' = s8
    BY <1>7, Zenon DEF Fc!Stops, Fc!Bounds
  <2>2. s4'.stage = "idle" /\ s4' \in [stage : {"idle", "asking", "answered", "merged"},
                at : Fc!Times, full : BOOLEAN, answer : SUBSET CatIssues]
    <3>1. Fc!NoRefresh.stage = "idle" /\ Fc!NoRefresh \in [stage : {"idle", "asking", "answered", "merged"},
              at : Fc!Times, full : BOOLEAN, answer : SUBSET CatIssues]
      BY DEF Fc!NoRefresh, Fc!Times
    <3> QED
      BY <1>7, <3>1, Zenon DEF Fc!Stops
  <2>3. Fc!ClockShape' /\ Fc!ForgeShape' /\ Fc!CatalogShape'
    BY <1>1, <2>1, Zenon DEF Fc!ClockShape, Fc!Times, Fc!ForgeShape, Fc!CatalogShape
  <2>4. Fc!RecordsShape' /\ Fc!ClosedShape' /\ Fc!EditsShape'
    BY <1>1, <2>1, Zenon DEF Fc!RecordsShape, Fc!Times, Fc!ClosedShape, Fc!EditsShape
  <2>5. Fc!ForgeIsPast' /\ Fc!CatalogIsPast' /\ Fc!ClosedIsNoted'
    BY <1>1, <2>1, Zenon DEF Fc!ForgeIsPast, Fc!CatalogIsPast, Fc!ClosedIsNoted, Fc!Open
  <2>6. Fc!CatalogIsCurrent'
    BY <1>1, <2>1, Zenon DEF Fc!CatalogIsCurrent, Fc!Open, Fc!HasCatalog
  <2>7. Fc!RefreshShape'
    BY <2>2 DEF Fc!RefreshShape
  <2>8. Fc!ReadingIsLater'
    BY <2>2 DEF Fc!ReadingIsLater
  <2>9. Fc!AnswerIsCurrent'
    BY <2>2 DEF Fc!AnswerIsCurrent
  <2>10. Fc!UnlistedWereClosed'
    BY <2>2 DEF Fc!UnlistedWereClosed
  <2>11. Fc!OnlyClosedWorkIsEndedStep
    BY <2>1, Zenon DEF Fc!OnlyClosedWorkIsEndedStep
  <2> QED
    BY <2>3, <2>4, <2>5, <2>6, <2>7, <2>8, <2>9, <2>10, <2>11 DEF Fc!CatalogInv
<1>8. ASSUME NEW listed \in SUBSET CatIssues, Fc!AskFull(listed)
      PROVE  Fc!CatalogInv' /\ Fc!OnlyClosedWorkIsEndedStep
  <2>1. /\ s1' = s1 /\ s2' = s2 /\ s3' = s3 /\ s5' = s5 /\ s6' = s6 /\ s7' = s7
        /\ s8' = s8
    BY <1>8, Zenon DEF Fc!AskFull, Fc!Bounds
  <2>2. /\ s1 \in Nat /\ s3.read \in Nat /\ s3.complete \in Nat /\ s4.at \in Nat
        /\ \A j \in CatIssues : s2[j].at \in Nat /\ s5[j].touched \in Nat
    BY <1>1 DEF Fc!ClockShape, Fc!CatalogShape, Fc!RefreshShape, Fc!ForgeShape,
       Fc!RecordsShape, Fc!Times
  <2>3. s4' = [s4 EXCEPT !.stage = "answered", !.answer = listed]
    BY <1>8, Zenon DEF Fc!AskFull
  <2>4. s4.stage = "asking" /\ s4.full
    BY <1>8, Zenon DEF Fc!AskFull
  <2>5. PICK open : /\ open = {i \in CatIssues : Fc!Open(i)} /\ listed \subseteq open
                   /\ Fc!Cardinality(listed) = IF Fc!Cardinality(open) < CatLimit THEN Fc!Cardinality(open) ELSE CatLimit
    BY <1>8, Zenon DEF Fc!AskFull
  <2>6. listed = open \/ Fc!Cardinality(listed) >= CatLimit
    <3>1. IsFiniteSet(open)
      BY <2>5, FS_Subset
    <3>2. Cardinality(open) \in Nat
      BY <3>1, FS_CardinalityType
    <3>3. Cardinality(open) = Fc!Cardinality(open) /\ Cardinality(listed) = Fc!Cardinality(listed)
      BY Zenon DEF Cardinality, Fc!Cardinality
    <3>4. PICK n, m : n = Cardinality(open) /\ m = Cardinality(listed)
      OBVIOUS
    <3>5. CASE n < CatLimit
      <4>1. m = n
        BY <2>5, <3>3, <3>4, <3>5
      <4> QED
        BY <4>1, <3>1, <3>4, <2>5, FS_Subset
    <3>6. CASE ~(n < CatLimit)
      <4>1. Fc!Cardinality(listed) = CatLimit
        BY <2>5, <3>3, <3>4, <3>6, Zenon
      <4> QED
        BY <4>1
    <3> QED
      BY <3>5, <3>6
  <2>7. /\ s4' \in [stage : {"idle", "asking", "answered", "merged"},
                    at : Fc!Times, full : BOOLEAN, answer : SUBSET CatIssues]
        /\ s4'.stage = "answered" /\ s4'.at = s4.at /\ s4'.full = s4.full /\ s4'.answer = listed
    BY <1>1, <2>3 DEF Fc!RefreshShape
  <2>8. Fc!ClockShape' /\ Fc!ForgeShape' /\ Fc!CatalogShape'
    BY <1>1, <2>1, Zenon DEF Fc!ClockShape, Fc!Times, Fc!ForgeShape, Fc!CatalogShape
  <2>9. Fc!RecordsShape' /\ Fc!ClosedShape' /\ Fc!EditsShape'
    BY <1>1, <2>1, Zenon DEF Fc!RecordsShape, Fc!Times, Fc!ClosedShape, Fc!EditsShape
  <2>10. Fc!ForgeIsPast' /\ Fc!CatalogIsPast' /\ Fc!ClosedIsNoted'
    BY <1>1, <2>1, Zenon DEF Fc!ForgeIsPast, Fc!CatalogIsPast, Fc!ClosedIsNoted, Fc!Open
  <2>11. Fc!CatalogIsCurrent'
    BY <1>1, <2>1, Zenon DEF Fc!CatalogIsCurrent, Fc!Open, Fc!HasCatalog
  <2>12. Fc!RefreshShape'
    BY <2>7 DEF Fc!RefreshShape
  <2>13. Fc!ReadingIsLater'
    BY <1>1, <2>1, <2>4, <2>7 DEF Fc!ReadingIsLater, Fc!HasCatalog
  <2>14. Fc!AnswerIsCurrent'
    <3>1. \A i \in CatIssues : i \in listed => Fc!Open(i)
      BY <2>5
    <3>2. \A i \in CatIssues : Fc!Open(i) => i \in listed \/ Fc!Cardinality(listed) >= CatLimit
      BY <2>5, <2>6, Zenon
    <3>3. s4'.full /\ s4'.answer = listed
      BY <2>7, <2>4
    <3> QED
      BY <2>1, <3>1, <3>2, <3>3, Zenon DEF Fc!AnswerIsCurrent, Fc!Open
  <2>15. Fc!UnlistedWereClosed'
    <3>1. Fc!Cardinality(listed) < CatLimit => \A i \in CatIssues : Fc!Open(i) => i \in listed
      <4>1. PICK n : n = Fc!Cardinality(listed)
        OBVIOUS
      <4>2. n \in Nat
        <5>1. IsFiniteSet(listed)
          BY <1>8, FS_Subset
        <5> QED
          BY <5>1, <4>1, FS_CardinalityType, Zenon DEF Cardinality, Fc!Cardinality
      <4>3. n < CatLimit => listed = open
        BY <4>1, <4>2, <2>6
      <4> QED
        BY <4>1, <4>3, <2>5, Zenon
    <3> QED
      BY <1>1, <2>1, <3>1, <2>7, Zenon DEF Fc!UnlistedWereClosed, Fc!ClosedIsNoted
  <2>16. Fc!OnlyClosedWorkIsEndedStep
    BY <2>1, Zenon DEF Fc!OnlyClosedWorkIsEndedStep
  <2> QED
    BY <2>8, <2>9, <2>10, <2>11, <2>12, <2>13, <2>14, <2>15, <2>16 DEF Fc!CatalogInv
<1>9. ASSUME NEW listed \in SUBSET CatIssues, Fc!AskDelta(listed)
      PROVE  Fc!CatalogInv' /\ Fc!OnlyClosedWorkIsEndedStep
  <2>1. /\ s1' = s1 /\ s2' = s2 /\ s3' = s3 /\ s5' = s5 /\ s6' = s6 /\ s7' = s7
        /\ s8' = s8
    BY <1>9, Zenon DEF Fc!AskDelta, Fc!Bounds
  <2>2. /\ s1 \in Nat /\ s3.read \in Nat /\ s3.complete \in Nat /\ s4.at \in Nat
        /\ \A j \in CatIssues : s2[j].at \in Nat /\ s5[j].touched \in Nat
    BY <1>1 DEF Fc!ClockShape, Fc!CatalogShape, Fc!RefreshShape, Fc!ForgeShape,
       Fc!RecordsShape, Fc!Times
  <2>3. s4.stage = "asking" /\ ~s4.full
    BY <1>9, Zenon DEF Fc!AskDelta
  <2>4. s3.read > 0 /\ s3.read < s4.at /\ s4.at <= s1
    BY <1>1, <2>3 DEF Fc!ReadingIsLater, Fc!HasCatalog
  <2>5. PICK delta, m : /\ delta = Fc!Found(s3.read - 1, listed) /\ m = Fc!Merge(delta)
                      /\ listed \subseteq {i \in CatIssues : s2[i].at = s1}
                      /\ \/ s4' = [s4 EXCEPT !.full = TRUE]
                         \/ s4' = [s4 EXCEPT !.stage = "merged", !.answer = m]
    <3>1. PICK since : since = IF s3.read = 0 THEN 0 ELSE s3.read - 1
      OBVIOUS
    <3>2. since = s3.read - 1
      BY <3>1, <2>4, <2>2
    <3>3. PICK delta : delta = Fc!Found(since, listed)
      OBVIOUS
    <3> QED
      BY <1>9, <3>1, <3>2, <3>3, Zenon DEF Fc!AskDelta
  <2>6. /\ \A i \in CatIssues : i \in delta <=> s2[i].state # "gone" /\ s2[i].at >= s3.read - 1 /\ i \notin listed
        /\ \A i \in CatIssues : i \in m <=> (i \in s3.listed /\ i \notin delta) \/ (i \in delta /\ Fc!Open(i))
        /\ m \in SUBSET CatIssues /\ \A i \in listed : s2[i].at = s1
    <3>1. s3.listed \in SUBSET CatIssues
      BY <1>1 DEF Fc!CatalogShape
    <3>2. \A i \in CatIssues : i \in delta <=> (s2[i].state # "gone" /\ s2[i].at >= s3.read - 1 /\ i \notin listed)
      BY <2>5, Zenon DEF Fc!Found
    <3>3. delta \subseteq CatIssues
      BY <2>5, Zenon DEF Fc!Found
    <3>4. \A i \in CatIssues : i \in m <=> (i \in s3.listed /\ i \notin delta) \/ (i \in delta /\ Fc!Open(i))
      BY <2>5, Zenon DEF Fc!Merge
    <3>5. m \in SUBSET CatIssues
      BY <2>5, <3>1, <3>3, Zenon DEF Fc!Merge
    <3>6. \A i \in listed : s2[i].at = s1
      BY <2>5, Zenon
    <3> QED
      BY <3>2, <3>4, <3>5, <3>6
  <2>7. \A i \in CatIssues : s2[i].at < s4.at => i \notin listed
    BY <2>6, <2>4, <2>2
  <2>8. \A i \in CatIssues : s2[i].at < s4.at =>
              /\ i \in m => Fc!Open(i) \/ (s2[i].state = "gone" /\ s2[i].at >= s3.complete)
              /\ Fc!Open(i) => i \in m \/ s3.cut
    <3>1. SUFFICES ASSUME NEW i \in CatIssues, s2[i].at < s4.at
                    PROVE  /\ i \in m => Fc!Open(i) \/ (s2[i].state = "gone" /\ s2[i].at >= s3.complete)
                           /\ Fc!Open(i) => i \in m \/ s3.cut
      BY Zenon
    <3>2. i \in delta <=> (s2[i].state # "gone" /\ s2[i].at >= s3.read - 1)
      BY <3>1, <2>7, <2>6, Zenon
    <3>3. s2[i].at < s3.read => /\ i \in s3.listed => Fc!Open(i) \/ (s2[i].state = "gone" /\ s2[i].at >= s3.complete)
                                /\ Fc!Open(i) => i \in s3.listed \/ s3.cut
      BY <1>1, <2>4 DEF Fc!CatalogIsCurrent, Fc!HasCatalog
    <3>4. s3.complete <= s3.read
      BY <1>1 DEF Fc!CatalogIsPast
    <3>5. CASE i \in delta
      BY <3>5, <2>6 DEF Fc!Open
    <3>6. CASE i \notin delta /\ s2[i].state = "gone"
      <4>1. s2[i].at < s3.read \/ s2[i].at >= s3.complete
        BY <3>4, <2>2
      <4> QED
        BY <3>3, <3>6, <4>1, <2>6 DEF Fc!Open
    <3>7. CASE i \notin delta /\ s2[i].state # "gone"
      <4>1. s2[i].at < s3.read
        BY <3>2, <3>7, <2>2
      <4> QED
        BY <3>3, <3>7, <4>1, <2>6, Zenon
    <3> QED
      BY <3>5, <3>6, <3>7
  <2>9. /\ s4' \in [stage : {"idle", "asking", "answered", "merged"},
                    at : Fc!Times, full : BOOLEAN, answer : SUBSET CatIssues]
        /\ s4'.at = s4.at
        /\ \/ s4'.stage = "asking" /\ s4'.full
           \/ s4'.stage = "merged" /\ ~s4'.full /\ s4'.answer = m
    BY <1>1, <2>5, <2>6, <2>3 DEF Fc!RefreshShape
  <2>10. Fc!ClockShape' /\ Fc!ForgeShape' /\ Fc!CatalogShape'
    BY <1>1, <2>1, Zenon DEF Fc!ClockShape, Fc!Times, Fc!ForgeShape, Fc!CatalogShape
  <2>11. Fc!RecordsShape' /\ Fc!ClosedShape' /\ Fc!EditsShape'
    BY <1>1, <2>1, Zenon DEF Fc!RecordsShape, Fc!Times, Fc!ClosedShape, Fc!EditsShape
  <2>12. Fc!ForgeIsPast' /\ Fc!CatalogIsPast' /\ Fc!ClosedIsNoted'
    BY <1>1, <2>1, Zenon DEF Fc!ForgeIsPast, Fc!CatalogIsPast, Fc!ClosedIsNoted, Fc!Open
  <2>13. Fc!CatalogIsCurrent'
    BY <1>1, <2>1, Zenon DEF Fc!CatalogIsCurrent, Fc!Open, Fc!HasCatalog
  <2>14. Fc!RefreshShape'
    BY <2>9 DEF Fc!RefreshShape
  <2>15. Fc!ReadingIsLater'
    BY <2>1, <2>4, <2>9 DEF Fc!ReadingIsLater, Fc!HasCatalog
  <2>16. Fc!AnswerIsCurrent'
    BY <2>1, <2>8, <2>9 DEF Fc!AnswerIsCurrent, Fc!Open
  <2>17. Fc!UnlistedWereClosed'
    BY <2>9 DEF Fc!UnlistedWereClosed
  <2>18. Fc!OnlyClosedWorkIsEndedStep
    BY <2>1, Zenon DEF Fc!OnlyClosedWorkIsEndedStep
  <2> QED
    BY <2>10, <2>11, <2>12, <2>13, <2>14, <2>15, <2>16, <2>17, <2>18 DEF Fc!CatalogInv
<1>10. ASSUME Fc!EndClosedIssues
       PROVE  Fc!CatalogInv' /\ Fc!OnlyClosedWorkIsEndedStep
  <2>1. s1' = s1 /\ s2' = s2 /\ s3' = s3 /\ s6' = s6 /\ s7' = s7 /\ s8' = s8
    BY <1>10, Zenon DEF Fc!EndClosedIssues, Fc!Bounds
  <2>2. /\ s1 \in Nat /\ s3.read \in Nat /\ s3.complete \in Nat /\ s4.at \in Nat
        /\ \A j \in CatIssues : s2[j].at \in Nat /\ s5[j].touched \in Nat
    BY <1>1 DEF Fc!ClockShape, Fc!CatalogShape, Fc!RefreshShape, Fc!ForgeShape,
       Fc!RecordsShape, Fc!Times
  <2>3. s4.stage = "answered"
    BY <1>10, Zenon DEF Fc!EndClosedIssues
  <2>4. s4' = [s4 EXCEPT !.stage = "merged"]
    BY <1>10, Zenon DEF Fc!EndClosedIssues
  <2>5. /\ s4' \in [stage : {"idle", "asking", "answered", "merged"},
                    at : Fc!Times, full : BOOLEAN, answer : SUBSET CatIssues]
        /\ s4'.stage = "merged" /\ s4'.at = s4.at /\ s4'.full = s4.full /\ s4'.answer = s4.answer
    BY <1>1, <2>4 DEF Fc!RefreshShape
  <2>6. \A i \in CatIssues : s5[i] \in [known : BOOLEAN, owned : BOOLEAN, ended : BOOLEAN, touched : Fc!Times]
    BY <1>1 DEF Fc!RecordsShape
  <2>7. \/ s5' = s5
        \/ /\ Fc!Cardinality(s4.answer) < CatLimit
           /\ s5' = [i \in CatIssues |-> [s5[i] EXCEPT !.ended = @ \/ Fc!Ends(i)]]
    BY <1>10, Zenon DEF Fc!EndClosedIssues
  <2>8. \A i \in CatIssues :
            /\ [s5[i] EXCEPT !.ended = @ \/ Fc!Ends(i)]
                 \in [known : BOOLEAN, owned : BOOLEAN, ended : BOOLEAN, touched : Fc!Times]
            /\ [s5[i] EXCEPT !.ended = @ \/ Fc!Ends(i)].touched = s5[i].touched
            /\ [s5[i] EXCEPT !.ended = @ \/ Fc!Ends(i)].ended => s5[i].ended \/ Fc!Ends(i)
    <3>1. TAKE i \in CatIssues
    <3>2. PICK e \in BOOLEAN : e = (s5[i].ended \/ Fc!Ends(i))
      BY Zenon
    <3>3. [s5[i] EXCEPT !.ended = e] \in [known : BOOLEAN, owned : BOOLEAN, ended : BOOLEAN, touched : Fc!Times]
      BY <2>6
    <3>4. [s5[i] EXCEPT !.ended = e].touched = s5[i].touched /\ [s5[i] EXCEPT !.ended = e].ended = e
      BY <2>6
    <3>5. [s5[i] EXCEPT !.ended = @ \/ Fc!Ends(i)] = [s5[i] EXCEPT !.ended = e]
      BY <3>2, Zenon
    <3>6. e => s5[i].ended \/ Fc!Ends(i)
      BY <3>2, Zenon
    <3> QED
      BY <3>3, <3>4, <3>5, <3>6, Zenon
  <2>9. Fc!ClockShape' /\ Fc!ForgeShape' /\ Fc!CatalogShape'
    BY <1>1, <2>1, Zenon DEF Fc!ClockShape, Fc!Times, Fc!ForgeShape, Fc!CatalogShape
  <2>10. Fc!ClosedShape' /\ Fc!EditsShape' /\ Fc!ForgeIsPast'
    BY <1>1, <2>1, Zenon DEF Fc!ClosedShape, Fc!EditsShape, Fc!ForgeIsPast
  <2>11. Fc!CatalogIsPast' /\ Fc!ClosedIsNoted' /\ Fc!CatalogIsCurrent'
    BY <1>1, <2>1, Zenon DEF Fc!CatalogIsPast, Fc!ClosedIsNoted, Fc!Open,
       Fc!CatalogIsCurrent, Fc!HasCatalog
  <2>12. Fc!RefreshShape'
    BY <2>5 DEF Fc!RefreshShape
  <2>13. Fc!RecordsShape'
    <3>1. CASE s5' = s5
      BY <1>1, <3>1, Zenon DEF Fc!RecordsShape
    <3>2. CASE s5' = [i \in CatIssues |-> [s5[i] EXCEPT !.ended = @ \/ Fc!Ends(i)]]
      BY <2>8, <3>2, Zenon DEF Fc!RecordsShape
    <3> QED
      BY <2>7, <3>1, <3>2
  <2>14. Fc!ReadingIsLater'
    BY <1>1, <2>1, <2>3, <2>5 DEF Fc!ReadingIsLater, Fc!HasCatalog
  <2>15. Fc!AnswerIsCurrent'
    BY <1>1, <2>1, <2>3, <2>5, SMT DEF Fc!AnswerIsCurrent, Fc!Open
  <2>16. Fc!UnlistedWereClosed'
    BY <2>5 DEF Fc!UnlistedWereClosed
  <2>17. Fc!OnlyClosedWorkIsEndedStep
    <3>1. CASE s5' = s5
      BY <3>1, Zenon DEF Fc!OnlyClosedWorkIsEndedStep
    <3>2. CASE /\ Fc!Cardinality(s4.answer) < CatLimit
               /\ s5' = [i \in CatIssues |-> [s5[i] EXCEPT !.ended = @ \/ Fc!Ends(i)]]
      <4>1. ASSUME NEW i \in CatIssues, s5'[i].ended, ~s5[i].ended
            PROVE  i \in s6
        <5>1. Fc!Ends(i)
          BY <3>2, <4>1, <2>8, Zenon
        <5>2. i \notin s4.answer /\ s5[i].touched < s4.at
          BY <5>1, Zenon DEF Fc!Ends
        <5>3. i \in s4.answer \/ i \in s6 \/ s5[i].touched >= s4.at
          BY <1>1, <3>2, <2>3, Zenon DEF Fc!UnlistedWereClosed
        <5> QED
          BY <5>2, <5>3, <2>2
      <4> QED
        BY <4>1, Zenon DEF Fc!OnlyClosedWorkIsEndedStep
    <3> QED
      BY <2>7, <3>1, <3>2
  <2> QED
    BY <2>9, <2>10, <2>11, <2>12, <2>13, <2>14, <2>15, <2>16, <2>17 DEF Fc!CatalogInv
<1>11. ASSUME Fc!Write
      PROVE  Fc!CatalogInv' /\ Fc!OnlyClosedWorkIsEndedStep
  <2>1. s1' = s1 /\ s2' = s2 /\ s5' = s5 /\ s6' = s6 /\ s7' = s7 /\ s8' = s8
    BY <1>11, Zenon DEF Fc!Write, Fc!Bounds
  <2>2. /\ s1 \in Nat /\ s3.read \in Nat /\ s3.complete \in Nat /\ s4.at \in Nat
        /\ \A j \in CatIssues : s2[j].at \in Nat /\ s5[j].touched \in Nat
    BY <1>1 DEF Fc!ClockShape, Fc!CatalogShape, Fc!RefreshShape, Fc!ForgeShape,
       Fc!RecordsShape, Fc!Times
  <2>3. s4'.stage = "idle" /\ s4' \in [stage : {"idle", "asking", "answered", "merged"},
                at : Fc!Times, full : BOOLEAN, answer : SUBSET CatIssues]
    <3>1. Fc!NoRefresh.stage = "idle" /\ Fc!NoRefresh \in [stage : {"idle", "asking", "answered", "merged"},
              at : Fc!Times, full : BOOLEAN, answer : SUBSET CatIssues]
      BY DEF Fc!NoRefresh, Fc!Times
    <3> QED
      BY <1>11, <3>1, Zenon DEF Fc!Write
  <2>4. s4.stage = "merged"
    BY <1>11, Zenon DEF Fc!Write
  <2>5. s3.read < s4.at /\ s4.at <= s1 /\ (s4.full \/ s3.read > 0) /\ s3.complete <= s3.read
    BY <1>1, <2>4 DEF Fc!ReadingIsLater, Fc!HasCatalog, Fc!CatalogIsPast
  <2>6. PICK k \in BOOLEAN, t \in Fc!Times :
                /\ s3' = [read |-> s4.at, failed |-> 0, listed |-> s4.answer, complete |-> t, cut |-> k]
                /\ (s4.full /\ t = s4.at /\ (k <=> Fc!Cardinality(s4.answer) >= CatLimit)) \/ (~s4.full /\ t = s3.complete /\ (k <=> s3.cut))
    <3>1. s4.at \in Fc!Times /\ s3.complete \in Fc!Times /\ s3.cut \in BOOLEAN
      BY <1>1 DEF Fc!RefreshShape, Fc!CatalogShape
    <3>2. (Fc!Cardinality(s4.answer) >= CatLimit) \in BOOLEAN
      <4>1. IsFiniteSet(s4.answer)
        BY <1>1, FS_Subset DEF Fc!RefreshShape
      <4>2. Fc!Cardinality(s4.answer) \in Nat
        BY <4>1, FS_CardinalityType, Zenon DEF Cardinality, Fc!Cardinality
      <4>3. PICK n \in Nat : n = Fc!Cardinality(s4.answer)
        BY <4>2
      <4>4. (n >= CatLimit) \in BOOLEAN
        BY SMT
      <4> QED
        BY <4>3, <4>4, Zenon
    <3>3. CASE s4.full
      BY <1>11, <3>1, <3>2, <3>3, Zenon DEF Fc!Write
    <3>4. CASE ~s4.full
      BY <1>11, <3>1, <3>4, Zenon DEF Fc!Write
    <3> QED
      BY <3>3, <3>4, Zenon
  <2>7. /\ s3' \in [read : Fc!Times, complete : Fc!Times, failed : Fc!Times, listed : SUBSET CatIssues, cut : BOOLEAN]
        /\ s3'.read = s4.at /\ s3'.listed = s4.answer /\ s3'.complete = t /\ (s3'.cut <=> k)
    <3>1. s4.at \in Fc!Times /\ s4.answer \in SUBSET CatIssues /\ 0 \in Fc!Times
      BY <1>1 DEF Fc!RefreshShape, Fc!Times
    <3> QED
      BY <2>6, <3>1
  <2>8. Fc!ClockShape' /\ Fc!ForgeShape' /\ Fc!RecordsShape'
    BY <1>1, <2>1, Zenon DEF Fc!ClockShape, Fc!Times, Fc!ForgeShape, Fc!RecordsShape
  <2>9. Fc!ClosedShape' /\ Fc!EditsShape' /\ Fc!ForgeIsPast'
    BY <1>1, <2>1, Zenon DEF Fc!ClosedShape, Fc!EditsShape, Fc!ForgeIsPast
  <2>10. Fc!ClosedIsNoted'
    BY <1>1, <2>1, Zenon DEF Fc!ClosedIsNoted, Fc!Open
  <2>11. Fc!CatalogShape'
    BY <2>7 DEF Fc!CatalogShape
  <2>12. Fc!RefreshShape'
    BY <2>3 DEF Fc!RefreshShape
  <2>13. Fc!CatalogIsPast'
    BY <2>1, <2>7, <2>6, <2>5, <2>2 DEF Fc!CatalogIsPast
  <2>14. Fc!ReadingIsLater'
    BY <2>3 DEF Fc!ReadingIsLater
  <2>15. Fc!AnswerIsCurrent'
    BY <2>3 DEF Fc!AnswerIsCurrent
  <2>16. Fc!UnlistedWereClosed'
    BY <2>3 DEF Fc!UnlistedWereClosed
  <2>17. Fc!CatalogIsCurrent'
    <3>1. SUFFICES ASSUME NEW i \in CatIssues, s2[i].at < s4.at
                    PROVE  /\ i \in s4.answer => Fc!Open(i) \/ (s2[i].state = "gone" /\ s2[i].at >= t)
                           /\ Fc!Open(i) => i \in s4.answer \/ k
      BY <2>1, <2>7, Zenon DEF Fc!CatalogIsCurrent, Fc!Open
    <3>2. /\ i \in s4.answer => Fc!Open(i) \/ (s2[i].state = "gone" /\ ~s4.full /\ s2[i].at >= s3.complete)
          /\ Fc!Open(i) => \/ i \in s4.answer
                           \/ (s4.full /\ Fc!Cardinality(s4.answer) >= CatLimit)
                           \/ (~s4.full /\ s3.cut)
      BY <1>1, <3>1, <2>4 DEF Fc!AnswerIsCurrent
    <3> QED
      BY <3>2, <2>6, Zenon
  <2>18. Fc!OnlyClosedWorkIsEndedStep
    BY <2>1, Zenon DEF Fc!OnlyClosedWorkIsEndedStep
  <2> QED
    BY <2>8, <2>9, <2>10, <2>11, <2>12, <2>13, <2>14, <2>15, <2>16, <2>17, <2>18 DEF
       Fc!CatalogInv
<1> QED
  BY <1>2, <1>3, <1>4, <1>5, <1>6, <1>7, <1>8, <1>9, <1>10, <1>11, Zenon DEF Fc!CatalogNext

(* Nothing was read, and what is closed counts as closed.                     *)
LEMMA CatalogInitially == Fc!CatalogInit => Fc!CatalogInv
<1> SUFFICES ASSUME Fc!CatalogInit PROVE Fc!CatalogInv
  OBVIOUS
<1> USE IntegrationAssumption
<1>1. /\ s1 = 2 /\ s2 \in [CatIssues -> [state : {"open", "closed"}, at : {0}]]
      /\ s3 = [read |-> 0, complete |-> 0, failed |-> 0, listed |-> {}, cut |-> FALSE]
      /\ s4 = [stage |-> "idle", at |-> 0, full |-> FALSE, answer |-> {}]
      /\ s5 = [i \in CatIssues |-> [known |-> FALSE, owned |-> FALSE, ended |-> FALSE, touched |-> 0]]
      /\ s6 = {i \in CatIssues : s2[i].state = "closed"} /\ s7 = 0 /\ s8 = 0
  BY Zenon DEF Fc!CatalogInit, Fc!NoRefresh
<1>2. 0 \in Fc!Times /\ 2 \in Fc!Times
  BY DEF Fc!Times
<1>3. Fc!ClockShape /\ Fc!CatalogShape /\ Fc!RefreshShape
  BY <1>1, <1>2 DEF Fc!ClockShape, Fc!CatalogShape, Fc!RefreshShape
<1>4. Fc!ForgeShape /\ Fc!RecordsShape /\ Fc!ClosedShape /\ Fc!EditsShape
  BY <1>1, <1>2 DEF Fc!ForgeShape, Fc!RecordsShape, Fc!ClosedShape, Fc!EditsShape
<1>5. Fc!ForgeIsPast /\ Fc!CatalogIsPast /\ Fc!ClosedIsNoted
  BY <1>1 DEF Fc!ForgeIsPast, Fc!CatalogIsPast, Fc!ClosedIsNoted, Fc!Open
<1>6. Fc!ReadingIsLater /\ Fc!AnswerIsCurrent /\ Fc!UnlistedWereClosed /\ Fc!CatalogIsCurrent
  BY <1>1 DEF Fc!ReadingIsLater, Fc!AnswerIsCurrent, Fc!UnlistedWereClosed,
     Fc!CatalogIsCurrent, Fc!HasCatalog
<1> QED
  BY <1>3, <1>4, <1>5, <1>6 DEF Fc!CatalogInv

(* Work is offered from a catalog that was right when it was read, and is not old. *)
LEMMA CatalogSaysSo ==
  ASSUME Fc!CatalogInv
  PROVE  Fc!CatalogTypeOK /\ Fc!CatalogIsCurrent /\ Fc!OfferedWorkWasOpen
<1> USE IntegrationAssumption
<1>1. Fc!CatalogTypeOK
  BY Zenon DEF Fc!CatalogInv, Fc!CatalogTypeOK, Fc!ClockShape, Fc!ForgeShape, Fc!CatalogShape,
     Fc!RefreshShape, Fc!RecordsShape, Fc!ClosedShape, Fc!EditsShape
<1>2. Fc!CatalogIsCurrent
  BY Zenon DEF Fc!CatalogInv
<1>3. ASSUME NEW i \in Fc!Offered
      PROVE  Fc!Open(i) \/ s2[i].state = "gone" \/ s1 - s2[i].at < CatStale
  <2>1. Fc!Usable /\ i \in s3.listed
    BY Zenon DEF Fc!Offered
  <2>2. s3.read > 0 /\ s1 - s3.read < CatStale
    BY <2>1, Zenon DEF Fc!Usable, Fc!HasCatalog
  <2>3. i \in CatIssues
    BY <1>1, <2>1 DEF Fc!CatalogTypeOK
  <2>4. s1 \in Nat /\ s3.read \in Nat /\ s2[i].at \in Nat
    BY <1>1, <2>3 DEF Fc!CatalogTypeOK, Fc!Times
  <2>5. CASE s2[i].at < s3.read
    BY <1>2, <2>1, <2>2, <2>3, <2>5, Zenon DEF Fc!CatalogIsCurrent, Fc!HasCatalog
  <2>6. CASE ~(s2[i].at < s3.read)
    BY <2>2, <2>4, <2>6
  <2> QED
    BY <2>5, <2>6
<1> QED
  BY <1>1, <1>2, <1>3, Zenon DEF Fc!OfferedWorkWasOpen

(* Where nothing happens nothing changes.                                    *)
LEMMA CatalogStays ==
  ASSUME Fc!CatalogInv, UNCHANGED Fc!catalogVars
  PROVE  Fc!CatalogInv' /\ Fc!OnlyClosedWorkIsEndedStep
<1>1. /\ Fc!ClockShape
      /\ Fc!ForgeShape
      /\ Fc!CatalogShape
      /\ Fc!RefreshShape
      /\ Fc!RecordsShape
      /\ Fc!ClosedShape
      /\ Fc!EditsShape
      /\ Fc!ForgeIsPast
      /\ Fc!CatalogIsPast
      /\ Fc!ReadingIsLater
      /\ Fc!ClosedIsNoted
      /\ Fc!AnswerIsCurrent
      /\ Fc!UnlistedWereClosed
      /\ Fc!CatalogIsCurrent
  BY DEF Fc!CatalogInv
<1>2. /\ s1' = s1 /\ s2' = s2 /\ s3' = s3 /\ s4' = s4 /\ s5' = s5 /\ s6' = s6
      /\ s7' = s7 /\ s8' = s8
  BY DEF Fc!catalogVars
<1>3. Fc!ClockShape' /\ Fc!ForgeShape' /\ Fc!CatalogShape'
  BY <1>1, <1>2, Zenon DEF Fc!ClockShape, Fc!Times, Fc!ForgeShape, Fc!CatalogShape
<1>4. Fc!RefreshShape' /\ Fc!RecordsShape' /\ Fc!ClosedShape'
  BY <1>1, <1>2, Zenon DEF Fc!RefreshShape, Fc!Times, Fc!RecordsShape, Fc!ClosedShape
<1>5. Fc!EditsShape' /\ Fc!ForgeIsPast' /\ Fc!CatalogIsPast'
  BY <1>1, <1>2, Zenon DEF Fc!EditsShape, Fc!ForgeIsPast, Fc!CatalogIsPast
<1>6. Fc!ReadingIsLater' /\ Fc!ClosedIsNoted' /\ Fc!AnswerIsCurrent'
  BY <1>1, <1>2, Zenon DEF Fc!ReadingIsLater, Fc!HasCatalog, Fc!ClosedIsNoted, Fc!Open,
     Fc!AnswerIsCurrent
<1>7. Fc!UnlistedWereClosed' /\ Fc!CatalogIsCurrent'
  BY <1>1, <1>2, Zenon DEF Fc!UnlistedWereClosed, Fc!CatalogIsCurrent, Fc!Open, Fc!HasCatalog
<1>8. Fc!OnlyClosedWorkIsEndedStep
  BY <1>1, <1>2 DEF Fc!OnlyClosedWorkIsEndedStep
<1> QED
  BY <1>3, <1>4, <1>5, <1>6, <1>7, <1>8 DEF Fc!CatalogInv

(* The commands of the rows, and troubles, leave a record; only a retirement
   retires, and only a lane that does not run.                                *)
LEMMA TurnedRecords ==
  ASSUME NEW r \in Pb!Recs
  PROVE  Pb!Turn(r) \in Pb!Recs /\ Pb!Turn(r).retired = r.retired
<1> USE IntegrationAssumption
<1> DEFINE c == [i \in HeldIssue |-> IF r.claims[i] = "orphaned" THEN "working" ELSE r.claims[i]]
<1>1. c \in [HeldIssue -> Pb!ClaimStates]
  BY DEF Pb!Recs, Pb!ClaimStates
<1>2. Pb!Turn(r) =
        [alive |-> TRUE, quiet |-> FALSE, stopped |-> FALSE, paused |-> FALSE,
         retired |-> r.retired, dialog |-> "none", wake |-> "none", attempts |-> 0,
         stalled |-> FALSE, foreign |-> r.foreign, mail |-> FALSE, refused |-> FALSE,
         drift |-> r.drift, dirty |-> r.dirty, over |-> r.over, oldOrphans |-> r.oldOrphans,
         claims |-> c]
  BY Zenon DEF Pb!Turn
<1> HIDE DEF c
<1>3. ASSUME NEW a \in BOOLEAN, NEW f \in BOOLEAN, NEW d \in BOOLEAN, NEW t \in BOOLEAN,
             NEW o \in BOOLEAN, NEW h \in BOOLEAN, NEW n \in 0..WakeLimit
      PROVE  [alive |-> TRUE, quiet |-> FALSE, stopped |-> FALSE, paused |-> FALSE,
              retired |-> a, dialog |-> "none", wake |-> "none", attempts |-> n,
              stalled |-> FALSE, foreign |-> f, mail |-> FALSE, refused |-> FALSE,
              drift |-> d, dirty |-> t, over |-> o, oldOrphans |-> h, claims |-> c] \in Pb!Recs
  BY <1>1, Zenon DEF Pb!Recs
<1>4. /\ r.retired \in BOOLEAN /\ r.foreign \in BOOLEAN /\ r.drift \in BOOLEAN /\ r.dirty \in BOOLEAN
      /\ r.over \in BOOLEAN /\ r.oldOrphans \in BOOLEAN /\ 0 \in 0..WakeLimit
  <2>1. 0 \in 0..WakeLimit
    OBVIOUS
  <2>2. /\ r.retired \in BOOLEAN /\ r.foreign \in BOOLEAN /\ r.drift \in BOOLEAN /\ r.dirty \in BOOLEAN
        /\ r.over \in BOOLEAN /\ r.oldOrphans \in BOOLEAN
    BY Zenon DEF Pb!Recs
  <2> QED
    BY <2>1, <2>2
<1>5. PICK a \in BOOLEAN, f \in BOOLEAN, d \in BOOLEAN, t \in BOOLEAN, o \in BOOLEAN, h \in BOOLEAN, n \in 0..WakeLimit :
         a = r.retired /\ f = r.foreign /\ d = r.drift /\ t = r.dirty /\ o = r.over /\ h = r.oldOrphans /\ n = 0
  BY <1>4
<1>6. Pb!Turn(r) =
        [alive |-> TRUE, quiet |-> FALSE, stopped |-> FALSE, paused |-> FALSE,
         retired |-> a, dialog |-> "none", wake |-> "none", attempts |-> n,
         stalled |-> FALSE, foreign |-> f, mail |-> FALSE, refused |-> FALSE,
         drift |-> d, dirty |-> t, over |-> o, oldOrphans |-> h, claims |-> c]
  BY <1>2, <1>5, Zenon
<1>7. Pb!Turn(r) \in Pb!Recs
  BY <1>6, <1>3
<1> QED
  BY <1>2, <1>7, SMTT(30)

(* A claim that is taken leaves a record. *)
LEMMA ClaimedRecords ==
  ASSUME NEW r \in Pb!Recs, NEW i \in HeldIssue, NEW c \in Pb!ClaimStates
  PROVE  /\ Pb!Claimed(r, i, c) \in Pb!Recs
         /\ Pb!Claimed(r, i, c).retired = r.retired
<1>1. PICK f : f = [r.claims EXCEPT ![i] = c]
  OBVIOUS
<1>2. Pb!Claimed(r, i, c) = [r EXCEPT !.claims = f]
  BY <1>1, Zenon DEF Pb!Claimed
<1>3. f \in [HeldIssue -> Pb!ClaimStates]
  BY <1>1 DEF Pb!Recs
<1>4. [r EXCEPT !.claims = f] \in Pb!Recs /\ [r EXCEPT !.claims = f].retired = r.retired
  BY <1>3 DEF Pb!Recs
<1> QED
  BY <1>2, <1>4

(* A row that is settled leaves a record. *)
LEMMA SettledRecords ==
  ASSUME NEW r \in Pb!Recs, NEW K
  PROVE  \A q \in Pb!Settled(r, K) : q \in Pb!Recs /\ q.retired = r.retired
<1> SUFFICES ASSUME NEW q \in Pb!Settled(r, K) PROVE q \in Pb!Recs /\ q.retired = r.retired
  OBVIOUS
<1>1. PICK i \in HeldIssue : q = Pb!Claimed(r, i, "none")
  BY DEF Pb!Settled, Pb!Claims
<1>2. "none" \in Pb!ClaimStates
  BY DEF Pb!ClaimStates
<1> QED
  BY <1>1, <1>2, ClaimedRecords

(* Whatever kind of row the operator acts on, a record is left, and only a
   lane without work in the way is retired. *)
LEMMA CarriedRecords ==
  ASSUME NEW r \in Pb!Recs, NEW k, NEW q \in Pb!Carried(r, k)
  PROVE  q \in Pb!Recs /\ (q.retired = r.retired \/ (k = "ready" /\ ~r.alive))
<1>1. \/ q = Pb!Turn(r) \/ (\E K : q \in Pb!Settled(r, K))
      \/ q \in {[r EXCEPT !.foreign = FALSE]} \/ q \in {[r EXCEPT !.drift = FALSE]}
      \/ q \in {[r EXCEPT !.dirty = FALSE]} \/ q \in {[r EXCEPT !.over = FALSE]}
      \/ \E i \in HeldIssue, c \in {"none", "awaiting"} : q = Pb!Claimed(r, i, c)
      \/ (k = "ready" /\ q \in Pb!Retired(r))
  <2>1. \A i \in Pb!Claims(r, {"ready"}) : i \in HeldIssue
    BY DEF Pb!Claims
  <2> DEFINE F == {[r EXCEPT !.foreign = FALSE]} 
             D == {[r EXCEPT !.drift = FALSE]}
             T == {[r EXCEPT !.dirty = FALSE]}
             O == {[r EXCEPT !.over = FALSE]}
  <2>2. q \in Pb!When(k \in {"wake", "approval", "held", "stalled", "inactive", "ack", "holding"}, {Pb!Turn(r)})
           \cup Pb!When(k = "foreign", F)
           \cup Pb!When(k = "overdue", Pb!Settled(r, {"overdue"}))
           \cup Pb!When(k = "unopened", Pb!Opened(r))
           \cup Pb!When(k = "over cap", Pb!Settled(r, Pb!ClaimStates \ {"none", "delivered"}))
           \cup Pb!When(k = "integrate", Pb!Settled(r, Pb!InReview))
           \cup Pb!When(k = "ready", Pb!Retired(r))
           \cup Pb!When(k = "orphaned", Pb!Settled(r, {"orphaned"}))
           \cup Pb!When(k = "unresolved", Pb!Settled(r, {"complete"}))
           \cup Pb!When(k = "drift", D)
           \cup Pb!When(k = "dirty", T)
           \cup Pb!When(k = "budget", O)
    BY Zenon DEF Pb!Carried
  <2>3. \A x \in Pb!Opened(r) : \E i \in HeldIssue, c \in {"none", "awaiting"} : x = Pb!Claimed(r, i, c)
    BY <2>1 DEF Pb!Opened
  <2> HIDE DEF F, D, T, O
  <2>4. \/ q \in {Pb!Turn(r)} \/ (\E K : q \in Pb!Settled(r, K))
        \/ q \in F \/ q \in D \/ q \in T \/ q \in O \/ q \in Pb!Opened(r)
        \/ (k = "ready" /\ q \in Pb!Retired(r))
    BY <2>2 DEF Pb!When
  <2> QED
    BY <2>4, <2>3 DEF F, D, T, O
<1>2. CASE q = Pb!Turn(r)
  BY <1>2, TurnedRecords
<1>3. CASE \E K : q \in Pb!Settled(r, K)
  BY <1>3, SettledRecords
<1>4. CASE q \in {[r EXCEPT !.foreign = FALSE]}
  BY <1>4 DEF Pb!Recs
<1>5. CASE q \in {[r EXCEPT !.drift = FALSE]}
  BY <1>5 DEF Pb!Recs
<1>6. CASE q \in {[r EXCEPT !.dirty = FALSE]}
  BY <1>6 DEF Pb!Recs
<1>7. CASE q \in {[r EXCEPT !.over = FALSE]}
  BY <1>7 DEF Pb!Recs
<1>8. CASE \E i \in HeldIssue, c \in {"none", "awaiting"} : q = Pb!Claimed(r, i, c)
  <2>1. PICK i \in HeldIssue, c \in {"none", "awaiting"} : q = Pb!Claimed(r, i, c)
    BY <1>8
  <2>2. c \in Pb!ClaimStates
    BY DEF Pb!ClaimStates
  <2> QED
    BY <2>1, <2>2, ClaimedRecords
<1>9. CASE k = "ready" /\ q \in Pb!Retired(r)
  <2>1. CASE r.alive \/ r.dirty
    BY <1>9, <2>1 DEF Pb!Retired
  <2>2. CASE ~(r.alive \/ r.dirty)
    <3>1. PICK f : f = [i \in HeldIssue |-> "none"]
      OBVIOUS
    <3>2. q = [r EXCEPT !.retired = TRUE, !.claims = f]
      BY <1>9, <2>2, <3>1, Zenon DEF Pb!Retired
    <3>3. f \in [HeldIssue -> Pb!ClaimStates]
      BY <3>1 DEF Pb!ClaimStates
    <3>4. q \in Pb!Recs
      BY <3>2, <3>3 DEF Pb!Recs
    <3> QED
      BY <1>9, <2>2, <3>4
  <2> QED
    BY <2>1, <2>2
<1> QED
  BY <1>1, <1>2, <1>3, <1>4, <1>5, <1>6, <1>7, <1>8, <1>9

(* Whatever goes wrong with a lane leaves a record. *)
LEMMA TroubledRecords ==
  ASSUME NEW r \in Pb!Recs, NEW q \in Pb!Troubled(r)
  PROVE  q \in Pb!Recs
<1> USE IntegrationAssumption
<1>1. [r EXCEPT !.quiet = TRUE] \in Pb!Recs
  BY DEF Pb!Recs
<1>2. [r EXCEPT !.quiet = TRUE, !.stalled = TRUE] \in Pb!Recs
  BY DEF Pb!Recs
<1>3. [r EXCEPT !.alive = FALSE, !.quiet = TRUE] \in Pb!Recs
  BY DEF Pb!Recs
<1>4. [r EXCEPT !.alive = FALSE, !.quiet = TRUE, !.stopped = TRUE] \in Pb!Recs
  BY DEF Pb!Recs
<1>5. [r EXCEPT !.paused = TRUE] \in Pb!Recs
  BY DEF Pb!Recs
<1>6. [r EXCEPT !.dialog = "permission", !.quiet = TRUE] \in Pb!Recs
  BY DEF Pb!Recs
<1>7. [r EXCEPT !.dialog = "escalated", !.quiet = TRUE] \in Pb!Recs
  BY DEF Pb!Recs
<1>8. [r EXCEPT !.attempts = WakeLimit, !.quiet = TRUE] \in Pb!Recs
  <2>1. PICK n \in 0..WakeLimit : n = WakeLimit
    OBVIOUS
  <2>2. [r EXCEPT !.attempts = n, !.quiet = TRUE] \in Pb!Recs
    BY DEF Pb!Recs
  <2> QED
    BY <2>1, <2>2
<1>9. [r EXCEPT !.foreign = TRUE] \in Pb!Recs
  BY DEF Pb!Recs
<1>10. [r EXCEPT !.mail = TRUE] \in Pb!Recs
  BY DEF Pb!Recs
<1>11. [r EXCEPT !.refused = TRUE] \in Pb!Recs
  BY DEF Pb!Recs
<1>12. [r EXCEPT !.drift = TRUE] \in Pb!Recs
  BY DEF Pb!Recs
<1>13. [r EXCEPT !.dirty = TRUE] \in Pb!Recs
  BY DEF Pb!Recs
<1>14. [r EXCEPT !.over = TRUE] \in Pb!Recs
  BY DEF Pb!Recs
<1>15. [r EXCEPT !.oldOrphans = TRUE] \in Pb!Recs
  BY DEF Pb!Recs
<1>16. \A w \in {"dialog", "attention", "session held", "unavailable", "opt in missing"} :
         [r EXCEPT !.wake = w, !.quiet = TRUE] \in Pb!Recs
  <2>1. [r EXCEPT !.wake = "dialog", !.quiet = TRUE] \in Pb!Recs
    BY DEF Pb!Recs
  <2>2. [r EXCEPT !.wake = "attention", !.quiet = TRUE] \in Pb!Recs
    BY DEF Pb!Recs
  <2>3. [r EXCEPT !.wake = "session held", !.quiet = TRUE] \in Pb!Recs
    BY DEF Pb!Recs
  <2>4. [r EXCEPT !.wake = "unavailable", !.quiet = TRUE] \in Pb!Recs
    BY DEF Pb!Recs
  <2>5. [r EXCEPT !.wake = "opt in missing", !.quiet = TRUE] \in Pb!Recs
    BY DEF Pb!Recs
  <2> QED
    BY <2>1, <2>2, <2>3, <2>4, <2>5
<1>17. \A i \in HeldIssue, c \in Pb!ClaimStates : Pb!Claimed(r, i, c) \in Pb!Recs
  BY ClaimedRecords
<1>18. \A x \in Pb!Struck(r) : x \in Pb!Recs
  BY <1>1, <1>2, <1>3, <1>4, <1>5, <1>6, <1>7, <1>8, <1>9, <1>10, <1>11, <1>12, <1>13, <1>14, <1>15, ZenonT(40)
     DEF Pb!Struck
<1>19. ASSUME q \notin Pb!Struck(r)
       PROVE  q \in Pb!Recs
  <2> DEFINE W == {[r EXCEPT !.wake = w, !.quiet = TRUE] :
                     w \in {"dialog", "attention", "session held", "unavailable", "opt in missing"}}
  <2>1. \A x \in W : x \in Pb!Recs
    BY <1>16, Zenon
  <2> HIDE DEF W
  <2>2. q \in W \/ \E i \in HeldIssue, c \in Pb!ClaimStates : q = Pb!Claimed(r, i, c)
    <3>1. Pb!Troubled(r) = Pb!Struck(r) \cup W \cup {Pb!Claimed(r, i, c) : i \in HeldIssue,
                     c \in Pb!ClaimStates \ (IF r.alive THEN {"none", "orphaned"} ELSE {"none"})}
      BY DEF Pb!Troubled, W
    <3> QED
      BY <1>19, <3>1
  <2> QED
    BY <1>17, <2>1, <2>2
<1> QED
  BY <1>18, <1>19

(* What is listed is a row, and a lane with a pull request under review has
   no row that says it may be retired.                                       *)
LEMMA ListedRows ==
  ASSUME NEW r, NEW row \in Pb!RowsOf(r)
  PROVE  row \in Pb!Row /\ (Pb!AwaitingIntegration(r) => row.kind # "ready")
<1> DEFINE Fine(k) == k \in {"wake", "approval", "held", "foreign", "stalled", "inactive", "overdue",
             "unopened", "over cap", "integrate", "orphaned", "unresolved",
             "ack", "holding", "drift", "dirty", "budget"}
<1>1. \A k, a : Fine(k) /\ a \in {"operator", "service"}
         => \A x \in Pb!By(k, a) : x \in Pb!Row /\ x.kind # "ready"
  <2> TAKE k, a
  <2> SUFFICES ASSUME Fine(k), a \in {"operator", "service"}
               PROVE  [kind |-> k, actor |-> a] \in Pb!Row /\ k # "ready"
    <3>1. \A x \in Pb!By(k, a) : x = [kind |-> k, actor |-> a]
      BY DEF Pb!By
    <3>2. [kind |-> k, actor |-> a].kind = k
      OBVIOUS
    <3> QED
      BY <3>1, <3>2
  <2>1. k # "ready"
    OBVIOUS
  <2>2. [kind |-> k, actor |-> a] \in Pb!Row
    BY Zenon DEF Pb!Row
  <2> QED
    BY <2>1, <2>2
<1>2. Pb!TurnBy(r) \in {"operator", "service"}
  BY DEF Pb!TurnBy
<1>3. \A k, a, b : Fine(k) /\ a \in {"operator", "service"}
         => \A x \in Pb!When(b, Pb!By(k, a)) : x \in Pb!Row /\ x.kind # "ready"
  BY <1>1 DEF Pb!When
<1>4. \A x \in Pb!WakeRows(r) \cup Pb!OverdueRows(r) \cup Pb!UnopenedRows(r) \cup Pb!CapRows(r)
         \cup Pb!IntegrateRows(r) : x \in Pb!Row /\ x.kind # "ready"
  BY <1>2, <1>3, ZenonT(60) DEF Pb!WakeRows, Pb!OverdueRows, Pb!UnopenedRows, Pb!CapRows, Pb!IntegrateRows
<1>5. \A x \in Pb!OrphanRows(r) \cup Pb!UnresolvedRows(r) \cup Pb!AckRows(r) \cup Pb!HoldingRows(r) :
         x \in Pb!Row /\ x.kind # "ready"
  BY <1>2, <1>3, ZenonT(60) DEF Pb!OrphanRows, Pb!UnresolvedRows, Pb!AckRows, Pb!HoldingRows
<1>6. \A x \in Pb!PromptRows(r) : x \in Pb!Row /\ x.kind # "ready"
  BY <1>1 DEF Pb!PromptRows
<1>7. \A x \in Pb!SilenceRows(r) : x \in Pb!Row /\ x.kind # "ready"
  BY <1>1, <1>2 DEF Pb!SilenceRows
<1>8. \A x \in Pb!TreeRows(r) : x \in Pb!Row /\ x.kind # "ready"
  BY <1>1 DEF Pb!TreeRows
<1>9. \A x \in Pb!RetireRows(r) : x \in Pb!Row
  <2>1. [kind |-> "ready", actor |-> "operator"] \in Pb!Row
    BY DEF Pb!Row
  <2> QED
    BY <2>1, Zenon DEF Pb!RetireRows, Pb!When, Pb!By
<1>10. CASE r.retired
  BY <1>3, <1>10 DEF Pb!RowsOf
<1>11. CASE ~r.retired
  <2>1. \/ row \in Pb!WakeRows(r) \/ row \in Pb!PromptRows(r)
        \/ row \in Pb!When(r.foreign, Pb!By("foreign", "operator"))
        \/ row \in Pb!SilenceRows(r) \/ row \in Pb!OverdueRows(r) \/ row \in Pb!UnopenedRows(r)
        \/ row \in Pb!CapRows(r)
        \/ (row \in Pb!IntegrateRows(r) \/ row \in Pb!OrphanRows(r))
        \/ (~Pb!AwaitingIntegration(r) /\ row \in Pb!RetireRows(r))
        \/ row \in Pb!UnresolvedRows(r) \/ row \in Pb!AckRows(r) \/ row \in Pb!HoldingRows(r)
        \/ row \in Pb!TreeRows(r) \/ row \in Pb!When(r.over, Pb!By("budget", "operator"))
    BY <1>11, Zenon DEF Pb!RowsOf
  <2>2. \A x \in Pb!When(r.foreign, Pb!By("foreign", "operator"))
           \cup Pb!When(r.over, Pb!By("budget", "operator")) : x \in Pb!Row /\ x.kind # "ready"
    BY <1>3
  <2> HIDE DEF Fine
  <2> QED
    BY <2>1, <2>2, <1>4, <1>5, <1>6, <1>7, <1>8, <1>9
<1> QED
  BY <1>10, <1>11

(* A row is the service's only where the service has the lane's turn.         *)
LEMMA RowsLeftToService ==
  ASSUME NEW r, NEW row \in Pb!RowsOf(r), row.actor = "service"
  PROVE  ~r.retired /\ Pb!TurnBy(r) = "service"
<1> DEFINE Fine(x) == x.actor = "service" => Pb!TurnBy(r) = "service"
<1>1. \A k, b : \A x \in Pb!When(b, Pb!By(k, "operator")) : x.actor = "operator"
  BY DEF Pb!When, Pb!By
<1>2. \A k, b : \A x \in Pb!When(b, Pb!By(k, Pb!TurnBy(r))) : Fine(x)
  BY DEF Pb!When, Pb!By
<1>3. \A x \in Pb!WakeRows(r) \cup Pb!OverdueRows(r) \cup Pb!UnopenedRows(r) \cup Pb!CapRows(r)
         \cup Pb!IntegrateRows(r) : Fine(x)
  BY <1>1, <1>2, ZenonT(60) DEF Pb!WakeRows, Pb!OverdueRows, Pb!UnopenedRows, Pb!CapRows, Pb!IntegrateRows
<1>4. \A x \in Pb!OrphanRows(r) \cup Pb!UnresolvedRows(r) \cup Pb!AckRows(r) \cup Pb!HoldingRows(r)
         \cup Pb!RetireRows(r) : Fine(x)
  BY <1>1, <1>2, ZenonT(60) DEF Pb!OrphanRows, Pb!UnresolvedRows, Pb!AckRows, Pb!HoldingRows, Pb!RetireRows
<1>5. \A x \in Pb!PromptRows(r) \cup Pb!SilenceRows(r) \cup Pb!TreeRows(r) : Fine(x)
  <2>1. \A k : \A x \in Pb!By(k, "operator") : Fine(x)
    BY DEF Pb!By
  <2>2. \A k : \A x \in Pb!By(k, Pb!TurnBy(r)) : Fine(x)
    BY DEF Pb!By
  <2> HIDE DEF Fine
  <2>3. \A x \in Pb!PromptRows(r) : Fine(x)
    BY <2>1 DEF Pb!PromptRows
  <2>4. \A x \in Pb!SilenceRows(r) : Fine(x)
    BY <2>2 DEF Pb!SilenceRows
  <2>5. \A x \in Pb!TreeRows(r) : Fine(x)
    BY <2>1 DEF Pb!TreeRows
  <2> QED
    BY <2>3, <2>4, <2>5
<1>6. CASE r.retired
  <2>1. row \in Pb!When(r.dirty, Pb!By("dirty", "operator"))
    BY <1>6 DEF Pb!RowsOf
  <2> QED
    BY <1>1, <2>1
<1>7. CASE ~r.retired
  <2>1. \/ row \in Pb!WakeRows(r) \/ row \in Pb!PromptRows(r)
        \/ row \in Pb!When(r.foreign, Pb!By("foreign", "operator"))
        \/ row \in Pb!SilenceRows(r) \/ row \in Pb!OverdueRows(r) \/ row \in Pb!UnopenedRows(r)
        \/ row \in Pb!CapRows(r)
        \/ (row \in Pb!IntegrateRows(r) \/ row \in Pb!OrphanRows(r))
        \/ row \in Pb!RetireRows(r)
        \/ row \in Pb!UnresolvedRows(r) \/ row \in Pb!AckRows(r) \/ row \in Pb!HoldingRows(r)
        \/ row \in Pb!TreeRows(r) \/ row \in Pb!When(r.over, Pb!By("budget", "operator"))
    BY <1>7, Zenon DEF Pb!RowsOf
  <2>2. Fine(row)
    <3>1. \A x \in Pb!When(r.foreign, Pb!By("foreign", "operator"))
           \cup Pb!When(r.over, Pb!By("budget", "operator")) : Fine(x)
      BY <1>1
    <3> HIDE DEF Fine
    <3> QED
      BY <2>1, <3>1, <1>3, <1>4, <1>5
  <2> QED
    BY <1>7, <2>2
<1> QED
  BY <1>6, <1>7

(* Nothing went wrong yet.                                                   *)
LEMMA ProblemsInitially == Pb!ProblemsInit => Pb!ProblemsInv
<1> SUFFICES ASSUME Pb!ProblemsInit PROVE Pb!ProblemsInv
  OBVIOUS
<1> USE IntegrationAssumption
<1>1. s1 = Pb!Healthy /\ s2 = {} /\ s3 = 0 /\ s4 = FALSE
  BY DEF Pb!ProblemsInit
<1>2. Pb!RecShape
  <2> DEFINE c == [i \in HeldIssue |-> "none"]
  <2>1. c \in [HeldIssue -> Pb!ClaimStates] /\ 0 \in 0..WakeLimit
    BY DEF Pb!ClaimStates
  <2>2. s1 = [alive |-> TRUE, quiet |-> FALSE, stopped |-> FALSE, paused |-> FALSE,
              retired |-> FALSE, dialog |-> "none", wake |-> "none", attempts |-> 0,
              stalled |-> FALSE, foreign |-> FALSE, mail |-> FALSE, refused |-> FALSE,
              drift |-> FALSE, dirty |-> FALSE, over |-> FALSE, oldOrphans |-> FALSE, claims |-> c]
    BY <1>1, Zenon DEF Pb!Healthy
  <2> HIDE DEF c
  <2>3. [alive |-> TRUE, quiet |-> FALSE, stopped |-> FALSE, paused |-> FALSE,
         retired |-> FALSE, dialog |-> "none", wake |-> "none", attempts |-> 0,
         stalled |-> FALSE, foreign |-> FALSE, mail |-> FALSE, refused |-> FALSE,
         drift |-> FALSE, dirty |-> FALSE, over |-> FALSE, oldOrphans |-> FALSE, claims |-> c]
        \in Pb!Recs
    BY <2>1, Zenon DEF Pb!Recs
  <2> QED
    BY <2>2, <2>3 DEF Pb!RecShape
<1>3. Pb!ListedShape /\ Pb!TroublesShape /\ Pb!NothingIsRetiredAway
  <2>1. 0 \in 0..MaxTroubles
    OBVIOUS
  <2> QED
    BY <1>1, <2>1, Zenon DEF Pb!ListedShape, Pb!TroublesShape, Pb!NothingIsRetiredAway
<1> QED
  BY <1>2, <1>3 DEF Pb!ProblemsInv

(* Every step keeps the records and the list, and retires nothing away.      *)
LEMMA ProblemsStep ==
  ASSUME Pb!ProblemsInv, Pb!ProblemsNext
  PROVE  Pb!ProblemsInv'
<1> USE IntegrationAssumption
<1>1. /\ s1 \in Pb!Recs /\ s2 \subseteq Pb!Row /\ s3 \in 0..MaxTroubles /\ ~s4
      /\ s4 \in BOOLEAN
  BY Zenon DEF Pb!ProblemsInv, Pb!RecShape, Pb!ListedShape, Pb!TroublesShape, Pb!NothingIsRetiredAway
<1>2. s4 = FALSE
  BY <1>1, Zenon
<1>3. ASSUME Pb!Trouble PROVE Pb!ProblemsInv'
  <2>1. s3 < MaxTroubles /\ s3' = s3 + 1 /\ s1' \in Pb!Troubled(s1) /\ s2' = s2 /\ s4' = s4
    BY <1>3, Zenon DEF Pb!Trouble
  <2>2. Pb!RecShape'
    BY <1>1, <2>1, TroubledRecords DEF Pb!RecShape
  <2>3. s3' \in 0..MaxTroubles
    BY <1>1, <2>1
  <2>4. s4' = FALSE
    BY <1>2, <2>1, Zenon
  <2>5. Pb!TroublesShape'
    BY <2>3, <2>4, Zenon DEF Pb!TroublesShape
  <2>6. Pb!ListedShape' /\ Pb!NothingIsRetiredAway'
    BY <1>1, <2>1, <2>4, Zenon DEF Pb!ListedShape, Pb!NothingIsRetiredAway
  <2> QED
    BY <2>2, <2>5, <2>6 DEF Pb!ProblemsInv
<1>4. ASSUME Pb!List PROVE Pb!ProblemsInv'
  <2>1. s2' = Pb!RowsOf(s1) /\ s1' = s1 /\ s3' = s3 /\ s4' = s4
    BY <1>4, Zenon DEF Pb!List
  <2>2. Pb!ListedShape'
    <3>1. \A row \in Pb!RowsOf(s1) : row \in Pb!Row
      BY ListedRows
    <3> QED
      BY <2>1, <3>1 DEF Pb!ListedShape
  <2>3. s4' = FALSE /\ s1' \in Pb!Recs /\ s3' \in 0..MaxTroubles
    BY <1>1, <1>2, <2>1, Zenon
  <2>4. Pb!RecShape' /\ Pb!TroublesShape' /\ Pb!NothingIsRetiredAway'
    BY <2>3, Zenon DEF Pb!RecShape, Pb!TroublesShape, Pb!NothingIsRetiredAway
  <2> QED
    BY <2>2, <2>4 DEF Pb!ProblemsInv
<1>5. ASSUME Pb!Act PROVE Pb!ProblemsInv'
  <2>1. PICK row \in s2 :
          /\ row.kind = "ready" => row \in Pb!RowsOf(s1)
          /\ s1' \in Pb!Carried(s1, row.kind)
          /\ s4' = (s4 \/ (s1'.retired /\ ~s1.retired /\ (s1.alive \/ Pb!AwaitingIntegration(s1))))
    BY <1>5, Zenon DEF Pb!Act
  <2>2. s2' = s2 /\ s3' = s3
    BY <1>5, Zenon DEF Pb!Act
  <2>3. /\ s1' \in Pb!Recs
        /\ s1'.retired = s1.retired \/ (row.kind = "ready" /\ ~s1.alive)
    BY <1>1, <2>1, CarriedRecords
  <2>4. row.kind = "ready" => ~Pb!AwaitingIntegration(s1)
    BY <2>1, ListedRows
  <2>5. ~(s1'.retired /\ ~s1.retired /\ (s1.alive \/ Pb!AwaitingIntegration(s1)))
    BY <2>3, <2>4
  <2>6. s4' = FALSE
    <3>1. (s4 \/ (s1'.retired /\ ~s1.retired /\ (s1.alive \/ Pb!AwaitingIntegration(s1)))) = FALSE
      BY <1>2, <2>5, Zenon
    <3> QED
      BY <2>1, <3>1, Zenon
  <2>7. Pb!RecShape' /\ Pb!NothingIsRetiredAway'
    BY <2>3, <2>6, Zenon DEF Pb!RecShape, Pb!NothingIsRetiredAway
  <2>8. Pb!ListedShape'
    BY <1>1, <2>2, Zenon DEF Pb!ListedShape
  <2>9. Pb!TroublesShape'
    BY <1>1, <2>6, <2>2, Zenon DEF Pb!TroublesShape
  <2> QED
    BY <2>7, <2>8, <2>9 DEF Pb!ProblemsInv
<1>6. ASSUME Pb!Serve PROVE Pb!ProblemsInv'
  <2>1. /\ s1' \in {Pb!Turn(s1), [s1 EXCEPT !.attempts = @ + 1]} /\ Pb!WouldWake(s1)
        /\ s2' = s2 /\ s3' = s3 /\ s4' = s4
    BY <1>6, Zenon DEF Pb!Serve
  <2>2. s1.attempts \in 0..WakeLimit /\ s1.attempts < WakeLimit
    BY <1>1, <2>1 DEF Pb!WouldWake, Pb!Recs
  <2>3. PICK n \in 0..WakeLimit : n = s1.attempts + 1
    BY <2>2
  <2>4. [s1 EXCEPT !.attempts = n] \in Pb!Recs
    BY <1>1 DEF Pb!Recs
  <2>5. Pb!RecShape'
    BY <1>1, <2>1, <2>3, <2>4, TurnedRecords DEF Pb!RecShape
  <2>6. s4' = FALSE /\ s2' \subseteq Pb!Row /\ s3' \in 0..MaxTroubles
    BY <1>1, <1>2, <2>1, Zenon
  <2>7. Pb!ListedShape' /\ Pb!TroublesShape' /\ Pb!NothingIsRetiredAway'
    BY <2>6, Zenon DEF Pb!ListedShape, Pb!TroublesShape, Pb!NothingIsRetiredAway
  <2> QED
    BY <2>5, <2>7 DEF Pb!ProblemsInv
<1> QED
  BY <1>3, <1>4, <1>5, <1>6, Zenon DEF Pb!ProblemsNext

(* Of every record: a row left to the service is about a lane the service will
   prompt, and a lane nobody will prompt has a row that asks the operator.    *)
LEMMA RowsAreServed ==
  ASSUME Pb!ProblemsInv
  PROVE  Pb!ServiceRowsAreServed /\ Pb!NobodyWaitsUnseen
<1> USE IntegrationAssumption
<1>1. s1 \in Pb!Recs
  BY DEF Pb!ProblemsInv, Pb!RecShape
<1>2. Pb!TurnBy(s1) = "service" /\ ~s1.retired => Pb!WouldWake(s1)
  <2> SUFFICES ASSUME Pb!TurnBy(s1) = "service", ~s1.retired PROVE Pb!WouldWake(s1)
    OBVIOUS
  <2>1. /\ s1.wake \notin {"session held", "unavailable", "opt in missing"}
        /\ ~Pb!Blocked(s1) /\ ~(s1.attempts >= WakeLimit)
    BY DEF Pb!TurnBy
  <2>2. /\ ~s1.stopped /\ s1.wake \notin {"dialog", "attention"} /\ Pb!Prompt(s1) = "none" /\ ~s1.paused
    BY <2>1, Zenon DEF Pb!Blocked
  <2>3. s1.wake \in {"none", "dialog", "attention", "session held", "unavailable", "opt in missing"}
        /\ s1.attempts \in 0..WakeLimit
    BY <1>1 DEF Pb!Recs
  <2>4. s1.wake = "none"
    BY <2>1, <2>2, <2>3, Zenon
  <2>5. PICK n \in 0..WakeLimit : n = s1.attempts /\ ~(n >= WakeLimit)
    BY <2>1, <2>3
  <2>6. s1.wake = "none" /\ s1.attempts < WakeLimit
    BY <2>4, <2>5
  <2> QED
    BY <2>2, <2>6, Zenon DEF Pb!WouldWake
<1>3. Pb!TurnBy(s1) \in {"operator", "service"}
  BY DEF Pb!TurnBy
<1>4. Pb!ServiceRowsAreServed
  <2> SUFFICES ASSUME NEW row \in Pb!RowsOf(s1), row.actor = "service" PROVE Pb!WouldWake(s1)
    BY DEF Pb!ServiceRowsAreServed
  <2>1. ~s1.retired /\ Pb!TurnBy(s1) = "service"
    BY RowsLeftToService
  <2> QED
    BY <1>2, <2>1
<1>5. Pb!NobodyWaitsUnseen
  <2> SUFFICES ASSUME ~s1.retired, s1.alive, s1.quiet,
                      Pb!Held(s1) \ Pb!Claims(s1, {"delivered"}) # {}, ~Pb!WouldWake(s1)
               PROVE  \E row \in Pb!RowsOf(s1) : row.actor = "operator"
    BY DEF Pb!NobodyWaitsUnseen
  <2>1. Pb!TurnBy(s1) = "operator"
    BY <1>2, <1>3
  <2>2. \E row \in Pb!SilenceRows(s1) : row.actor = "operator"
    <3>1. \A k : \E row \in Pb!By(k, "operator") : row.actor = "operator"
      BY DEF Pb!By
    <3>2. CASE s1.stalled
      BY <2>1, <3>1, <3>2 DEF Pb!SilenceRows
    <3>3. CASE ~s1.stalled
      BY <2>1, <3>1, <3>3 DEF Pb!SilenceRows
    <3> QED
      BY <3>2, <3>3
  <2>3. Pb!SilenceRows(s1) \subseteq Pb!RowsOf(s1)
    BY DEF Pb!RowsOf
  <2> QED
    BY <2>2, <2>3
<1> QED
  BY <1>4, <1>5

(* Where nothing happens nothing changes.                                    *)
LEMMA ProblemsStay ==
  ASSUME Pb!ProblemsInv, UNCHANGED Pb!problemsVars
  PROVE  Pb!ProblemsInv'
<1>1. s1' = s1 /\ s2' = s2 /\ s3' = s3 /\ s4' = s4
  BY DEF Pb!problemsVars
<1> QED
  BY <1>1, Zenon DEF Pb!ProblemsInv, Pb!RecShape, Pb!ListedShape, Pb!TroublesShape,
     Pb!NothingIsRetiredAway

(* The invariant says what the run asks of project problems.                 *)
LEMMA ProblemsSaySo ==
  Pb!ProblemsInv =>
    /\ Pb!ProblemsTypeOK
    /\ Pb!NobodyWaitsUnseen /\ Pb!ServiceRowsAreServed /\ Pb!NothingIsRetiredAway
<1> SUFFICES ASSUME Pb!ProblemsInv
             PROVE  /\ Pb!ProblemsTypeOK
                    /\ Pb!NobodyWaitsUnseen /\ Pb!ServiceRowsAreServed
                    /\ Pb!NothingIsRetiredAway
  OBVIOUS
<1>1. s1 \in Pb!Recs /\ s2 \subseteq Pb!Row /\ s3 \in 0..MaxTroubles /\ s4 \in BOOLEAN
  BY Zenon DEF Pb!ProblemsInv, Pb!RecShape, Pb!ListedShape, Pb!TroublesShape
<1>2. /\ s1.dialog \in {"none", "permission", "escalated"}
      /\ s1.wake \in {"none", "dialog", "attention", "session held", "unavailable",
                      "opt in missing"}
      /\ s1.attempts \in 0..WakeLimit
      /\ s1.claims \in [HeldIssue -> Pb!ClaimStates]
  BY <1>1 DEF Pb!Recs
<1>3. Pb!ProblemsTypeOK
  BY <1>1, <1>2, Zenon DEF Pb!ProblemsTypeOK
<1>4. Pb!NobodyWaitsUnseen /\ Pb!ServiceRowsAreServed
  BY RowsAreServed
<1> QED
  BY <1>3, <1>4, Zenon DEF Pb!ProblemsInv

(* What a run's readings are.                                                *)
LEMMA RunsAreRead ==
  ASSUME NEW r \in Bl!RunRecords
  PROVE  /\ r.status \in Bl!Statuses /\ r.plan \in Bl!Parsed /\ r.node \in Bl!Nodes
         /\ r.visits \in 0..MaxVisits + 1 /\ r.failures \in [Bl!Nodes -> 0..2]
         /\ r.output \in Bl!Texts /\ r.judged \in 0..MaxReds
  BY DEF Bl!RunRecords

(* A node that passed is one visit more and no failure, and is recorded.      *)
LEMMA WalkPasses ==
  ASSUME Bl!CopyShape, NEW o \in Bl!Texts, s5.visits < MaxVisits, Bl!Passes(o)
  PROVE  /\ s5' \in Bl!RunRecords /\ s5'.status = "running" /\ s5'.failures = s5.failures
         /\ s5'.plan = s5.plan /\ s5'.judged = s5.judged /\ s6' = "loop" /\ s4' = s5'
         /\ s8' = [s8 EXCEPT !.afterRecord = s8.afterCopy]
<1> USE IntegrationAssumption
<1>1. s5 \in Bl!RunRecords
  BY DEF Bl!CopyShape
<1>2. PICK v \in 0..MaxVisits + 1 : v = s5.visits + 1
  BY <1>1, RunsAreRead
<1>3. PICK nd \in Bl!Nodes : nd = Bl!Following(s5.node)
  BY Zenon DEF Bl!Following, Bl!Nodes
<1>4. PICK st \in Bl!Statuses : st = "running"
  BY DEF Bl!Statuses
<1>5. s5' = [s5 EXCEPT !.status = st, !.visits = v, !.output = o, !.node = nd]
  BY <1>2, <1>3, <1>4, Zenon DEF Bl!Passes
<1>6. s6' = "loop" /\ s4' = s5' /\ s8' = [s8 EXCEPT !.afterRecord = s8.afterCopy]
  BY Zenon DEF Bl!Passes, Bl!Save
<1>7. /\ s5' \in Bl!RunRecords /\ s5'.status = st /\ s5'.failures = s5.failures
      /\ s5'.plan = s5.plan /\ s5'.judged = s5.judged
  <2>1. s5.failures \in [Bl!Nodes -> 0..2] /\ s5.judged \in 0..MaxReds
    BY <1>1, RunsAreRead
  <2> QED
    BY <1>1, <1>5, <2>1 DEF Bl!RunRecords
<1> QED
  BY <1>4, <1>6, <1>7

(* A node that failed is one visit and one failure more; beyond its retries the
   run is blocked.  Nothing is recorded.                                      *)
LEMMA WalkFails ==
  ASSUME Bl!CopyShape, NEW o \in Bl!Texts, NEW j \in 0..MaxReds, s5.visits < MaxVisits,
         Bl!Fails(o, j), Bl!WithinRetries(s5), Bl!InProgress(s5)
  PROVE  /\ s5' \in Bl!RunRecords /\ s5'.plan = s5.plan /\ s5'.judged = j
         /\ s5'.visits = s5.visits + 1
         /\ s5'.failures = [s5.failures EXCEPT ![s5.node] = s5.failures[s5.node] + 1]
         /\ \/ s5'.status = "blocked" /\ s6' = "stopping"
            \/ /\ s5'.status = "running" /\ s6' = "loop"
               /\ s5.failures[s5.node] + 1 <= s5.plan.retries
         /\ s4' = s4 /\ s8' = s8
<1> USE IntegrationAssumption
<1>1. s5 \in Bl!RunRecords
  BY DEF Bl!CopyShape
<1>2. PICK v \in 0..MaxVisits + 1 : v = s5.visits + 1
  BY <1>1, RunsAreRead
<1>3. PICK e, c : e = s5.failures /\ c = s5.node
  OBVIOUS
<1>4. e \in [Bl!Nodes -> 0..2] /\ c \in Bl!Nodes /\ s5.plan.retries \in 0..1
  <2>1. s5.plan \in Bl!Parsed
    BY <1>1, RunsAreRead
  <2> QED
    BY <1>1, <1>3, <2>1, RunsAreRead DEF Bl!Parsed
<1>5. e[c] <= s5.plan.retries
  BY <1>3, <1>4, Zenon DEF Bl!WithinRetries
<1>6. PICK g \in [Bl!Nodes -> 0..2] : g = [e EXCEPT ![c] = e[c] + 1]
  <2>1. e[c] \in 0..1
    BY <1>4, <1>5
  <2>2. [e EXCEPT ![c] = e[c] + 1] \in [Bl!Nodes -> 0..2]
    BY <1>4, <2>1
  <2> QED
    BY <2>2
<1>7. PICK f : f = [s5 EXCEPT !.visits = v, !.output = o, !.judged = j, !.failures = g]
  OBVIOUS
<1>8. /\ f \in Bl!RunRecords /\ f.plan = s5.plan /\ f.judged = j /\ f.status = s5.status
      /\ f.visits = v /\ f.failures = g /\ f.node = s5.node
  <2>1. s5.status \in Bl!Statuses /\ s5.node \in Bl!Nodes
    BY <1>1, RunsAreRead
  <2> QED
    BY <1>1, <1>7, <2>1 DEF Bl!RunRecords
<1>9. f = [s5 EXCEPT !.visits = @ + 1, !.output = o, !.judged = j, !.failures[s5.node] = e[c] + 1]
  BY <1>2, <1>3, <1>6, <1>7, Zenon
<1>10. /\ s4' = s4 /\ s8' = s8
       /\ \/ /\ e[c] + 1 > s5.plan.retries
             /\ s5' = [f EXCEPT !.status = "blocked"] /\ s6' = "stopping"
          \/ /\ ~(e[c] + 1 > s5.plan.retries) /\ s6' = "loop"
             /\ s5' = [f EXCEPT !.status = "running",
                                !.node = IF s5.plan.onFailure = "itself" THEN s5.node ELSE "work"]
  BY <1>3, <1>9, Zenon DEF Bl!Fails, Bl!Keep
<1>11. CASE s5' = [f EXCEPT !.status = "blocked"] /\ s6' = "stopping"
  <2>1. /\ s5' \in Bl!RunRecords /\ s5'.status = "blocked" /\ s5'.failures = f.failures
        /\ s5'.plan = f.plan /\ s5'.judged = f.judged /\ s5'.visits = f.visits
    BY <1>8, <1>11 DEF Bl!RunRecords, Bl!Statuses
  <2> QED
    BY <1>2, <1>3, <1>6, <1>8, <1>10, <1>11, <2>1, Zenon
<1>12. CASE /\ ~(e[c] + 1 > s5.plan.retries) /\ s6' = "loop"
            /\ s5' = [f EXCEPT !.status = "running",
                               !.node = IF s5.plan.onFailure = "itself" THEN s5.node ELSE "work"]
  <2>1. PICK n \in Bl!Nodes : n = IF s5.plan.onFailure = "itself" THEN s5.node ELSE "work"
    BY <1>3, <1>4 DEF Bl!Nodes
  <2>2. s5' = [f EXCEPT !.status = "running", !.node = n]
    BY <1>12, <2>1, Zenon
  <2>3. /\ s5' \in Bl!RunRecords /\ s5'.status = "running" /\ s5'.failures = f.failures
        /\ s5'.plan = f.plan /\ s5'.judged = f.judged /\ s5'.visits = f.visits
    BY <1>8, <2>2 DEF Bl!RunRecords, Bl!Statuses
  <2>4. e[c] + 1 <= s5.plan.retries
    BY <1>4, <1>12
  <2> QED
    BY <1>2, <1>3, <1>6, <1>8, <1>10, <1>12, <2>3, <2>4, Zenon
<1> QED
  BY <1>10, <1>11, <1>12

(* A walk that stops leaves what it found as it was.                          *)
LEMMA WalkWaits ==
  ASSUME Bl!BlueprintsInv,
         s1' = s1,
         s2' = s2,
         s3' = s3,
         s7' = s7,
         s9' = s9,
         s10' = s10,
         s11' = s11,
         s12' = s12,
         s4' = s4,
         s8' = s8,
         s5' = s5,
         s6' = "stopping"
  PROVE  Bl!BlueprintsInv'
<1> USE IntegrationAssumption
<1>1. /\ Bl!FlagsShape
      /\ Bl!RecordShape
      /\ Bl!CopyShape
      /\ Bl!WalkShape
      /\ Bl!SentShape
      /\ Bl!AnswerShape
      /\ Bl!VerdictShape
      /\ Bl!CountsShape
      /\ Bl!WalksAreInProgress
      /\ Bl!PromptIsSent
      /\ Bl!RecordWithinRetries
      /\ Bl!CopyWithinRetries
      /\ Bl!RecordIsJudged
      /\ Bl!CopyIsJudged
      /\ Bl!RecordWasAsked
      /\ Bl!CopyWasAsked
      /\ Bl!NothingRunsOnAnUnrecordedPass
      /\ Bl!DefaultsAreRecorded
  BY DEF Bl!BlueprintsInv
<1>2. /\ s1' = s1 /\ s2' = s2 /\ s3' = s3 /\ s7' = s7 /\ s9' = s9 /\ s10' = s10
      /\ s11' = s11 /\ s12' = s12 /\ s4' = s4 /\ s8' = s8 /\ s5' = s5
  OBVIOUS
<1>3. Bl!FlagsShape' /\ Bl!RecordShape' /\ Bl!CopyShape'
  BY <1>1, <1>2, Zenon DEF Bl!FlagsShape, Bl!RecordShape, Bl!CopyShape
<1>4. Bl!SentShape' /\ Bl!AnswerShape' /\ Bl!VerdictShape'
  BY <1>1, <1>2, Zenon DEF Bl!SentShape, Bl!AnswerShape, Bl!VerdictShape
<1>5. Bl!CountsShape' /\ Bl!RecordWithinRetries' /\ Bl!CopyWithinRetries'
  BY <1>1, <1>2, Zenon DEF Bl!CountsShape, Bl!RecordWithinRetries, Bl!WithinRetries,
     Bl!InProgress, Bl!CopyWithinRetries
<1>6. Bl!RecordIsJudged' /\ Bl!CopyIsJudged' /\ Bl!RecordWasAsked'
  BY <1>1, <1>2, Zenon DEF Bl!RecordIsJudged, Bl!Judged, Bl!CopyIsJudged, Bl!RecordWasAsked,
     Bl!WasAsked
<1>7. Bl!CopyWasAsked'
  BY <1>1, <1>2, Zenon DEF Bl!CopyWasAsked, Bl!WasAsked
<1>8. Bl!WalkShape'
  BY DEF Bl!WalkShape
<1>9. Bl!WalksAreInProgress'
  BY DEF Bl!WalksAreInProgress
<1>10. Bl!PromptIsSent'
  BY DEF Bl!PromptIsSent
<1>11. Bl!NothingRunsOnAnUnrecordedPass'
  BY DEF Bl!NothingRunsOnAnUnrecordedPass
<1>12. Bl!DefaultsAreRecorded'
  BY <1>1, <1>2 DEF Bl!DefaultsAreRecorded
<1> QED
  BY <1>3, <1>4, <1>5, <1>6, <1>7, <1>8, <1>9, <1>10, <1>11, <1>12 DEF Bl!BlueprintsInv

(* A run that stops at its checks, or blocked, was failed for no more than it was
   judged for.                                                                *)
LEMMA WalkIsOver ==
  ASSUME Bl!BlueprintsInv,
         s1' = s1,
         s2' = s2,
         s3' = s3,
         s7' = s7,
         s9' = s9,
         s10' = s10,
         s11' = s11,
         s12' = s12,
         s4' = s4,
         s8' = s8,
         s6' = "stopping",
         s6 = "loop",
         s5' \in Bl!RunRecords,
         s5'.failures = s5.failures,
         s5'.plan = s5.plan,
         s5'.judged = s5.judged \/ s5'.judged = s10,
         s5'.status = "blocked" \/ (s5'.status = "waiting" /\ s5'.node = "checks")
  PROVE  Bl!BlueprintsInv'
<1> USE IntegrationAssumption
<1>1. /\ Bl!FlagsShape
      /\ Bl!RecordShape
      /\ Bl!CopyShape
      /\ Bl!WalkShape
      /\ Bl!SentShape
      /\ Bl!AnswerShape
      /\ Bl!VerdictShape
      /\ Bl!CountsShape
      /\ Bl!WalksAreInProgress
      /\ Bl!PromptIsSent
      /\ Bl!RecordWithinRetries
      /\ Bl!CopyWithinRetries
      /\ Bl!RecordIsJudged
      /\ Bl!CopyIsJudged
      /\ Bl!RecordWasAsked
      /\ Bl!CopyWasAsked
      /\ Bl!NothingRunsOnAnUnrecordedPass
      /\ Bl!DefaultsAreRecorded
  BY DEF Bl!BlueprintsInv
<1>2. /\ s1' = s1 /\ s2' = s2 /\ s3' = s3 /\ s7' = s7 /\ s9' = s9 /\ s10' = s10
      /\ s11' = s11 /\ s12' = s12 /\ s4' = s4 /\ s8' = s8
  OBVIOUS
<1>3. s5.status \in {"running", "waiting"}
  BY <1>1 DEF Bl!WalksAreInProgress, Bl!InProgress
<1>4. "checks" \in Bl!Nodes /\ s5 \in Bl!RunRecords /\ s10 \in Nat
  BY <1>1 DEF Bl!Nodes, Bl!CopyShape, Bl!CountsShape
<1>5. s5.judged \in Nat /\ s5.failures["checks"] \in Nat
  BY <1>4 DEF Bl!RunRecords
<1>6. Bl!FlagsShape' /\ Bl!RecordShape' /\ Bl!SentShape'
  BY <1>1, <1>2, Zenon DEF Bl!FlagsShape, Bl!RecordShape, Bl!SentShape
<1>7. Bl!AnswerShape' /\ Bl!VerdictShape' /\ Bl!CountsShape'
  BY <1>1, <1>2, Zenon DEF Bl!AnswerShape, Bl!VerdictShape, Bl!CountsShape
<1>8. Bl!RecordWithinRetries' /\ Bl!RecordIsJudged' /\ Bl!RecordWasAsked'
  BY <1>1, <1>2, Zenon DEF Bl!RecordWithinRetries, Bl!WithinRetries, Bl!InProgress,
     Bl!RecordIsJudged, Bl!Judged, Bl!RecordWasAsked, Bl!WasAsked
<1>9. Bl!CopyShape'
  BY DEF Bl!CopyShape
<1>10. Bl!WalkShape'
  BY DEF Bl!WalkShape
<1>11. Bl!WalksAreInProgress'
  BY DEF Bl!WalksAreInProgress
<1>12. Bl!PromptIsSent'
  BY DEF Bl!PromptIsSent
<1>13. Bl!CopyWithinRetries'
  BY <1>1, <1>3 DEF Bl!CopyWithinRetries, Bl!WithinRetries, Bl!InProgress
<1>14. Bl!CopyIsJudged'
  BY <1>1, <1>2, <1>5, <1>4 DEF Bl!CopyIsJudged, Bl!Judged
<1>15. Bl!CopyWasAsked'
  BY DEF Bl!CopyWasAsked, Bl!WasAsked
<1>16. Bl!NothingRunsOnAnUnrecordedPass'
  BY DEF Bl!NothingRunsOnAnUnrecordedPass
<1>17. Bl!DefaultsAreRecorded'
  BY <1>1, <1>2 DEF Bl!DefaultsAreRecorded
<1> QED
  BY <1>6, <1>7, <1>8, <1>9, <1>10, <1>11, <1>12, <1>13, <1>14, <1>15, <1>16, <1>17 DEF
     Bl!BlueprintsInv

(* A node that passed leaves the run recorded.                                *)
LEMMA WalkGoesOn ==
  ASSUME Bl!BlueprintsInv,
         NEW o \in Bl!Texts,
         Bl!Passes(o),
         s6 = "loop",
         s5.visits < MaxVisits,
         s1' = s1,
         s2' = s2,
         s3' = s3,
         s7' = s7,
         s9' = s9,
         s10' = s10,
         s11' = s11,
         s12' = s12
  PROVE  Bl!BlueprintsInv'
<1> USE IntegrationAssumption
<1>1. /\ Bl!FlagsShape
      /\ Bl!RecordShape
      /\ Bl!CopyShape
      /\ Bl!WalkShape
      /\ Bl!SentShape
      /\ Bl!AnswerShape
      /\ Bl!VerdictShape
      /\ Bl!CountsShape
      /\ Bl!WalksAreInProgress
      /\ Bl!PromptIsSent
      /\ Bl!RecordWithinRetries
      /\ Bl!CopyWithinRetries
      /\ Bl!RecordIsJudged
      /\ Bl!CopyIsJudged
      /\ Bl!RecordWasAsked
      /\ Bl!CopyWasAsked
      /\ Bl!NothingRunsOnAnUnrecordedPass
      /\ Bl!DefaultsAreRecorded
  BY DEF Bl!BlueprintsInv
<1>2. /\ s1' = s1 /\ s2' = s2 /\ s3' = s3 /\ s7' = s7 /\ s9' = s9 /\ s10' = s10
      /\ s11' = s11 /\ s12' = s12
  OBVIOUS
<1>3. /\ s5' \in Bl!RunRecords /\ s5'.status = "running" /\ s5'.failures = s5.failures
      /\ s5'.plan = s5.plan /\ s5'.judged = s5.judged /\ s6' = "loop" /\ s4' = s5'
      /\ s8' = [s8 EXCEPT !.afterRecord = s8.afterCopy]
  BY <1>1, WalkPasses
<1>4. s5.status \in {"running", "waiting"}
  BY <1>1 DEF Bl!WalksAreInProgress, Bl!InProgress
<1>5. Bl!FlagsShape' /\ Bl!SentShape' /\ Bl!VerdictShape'
  BY <1>1, <1>2, Zenon DEF Bl!FlagsShape, Bl!SentShape, Bl!VerdictShape
<1>6. Bl!CountsShape'
  BY <1>1, <1>2, Zenon DEF Bl!CountsShape
<1>7. Bl!RecordShape'
  BY <1>3 DEF Bl!RecordShape
<1>8. Bl!CopyShape'
  BY <1>3 DEF Bl!CopyShape
<1>9. Bl!WalkShape'
  BY <1>3 DEF Bl!WalkShape
<1>10. Bl!AnswerShape'
  BY <1>1, <1>3 DEF Bl!AnswerShape
<1>11. Bl!WalksAreInProgress'
  BY <1>3 DEF Bl!WalksAreInProgress, Bl!InProgress
<1>12. Bl!PromptIsSent'
  BY <1>3 DEF Bl!PromptIsSent
<1>13. Bl!RecordWithinRetries'
  BY <1>1, <1>4, <1>3 DEF Bl!CopyWithinRetries, Bl!RecordWithinRetries, Bl!WithinRetries,
     Bl!InProgress
<1>14. Bl!CopyWithinRetries'
  BY <1>1, <1>4, <1>3 DEF Bl!CopyWithinRetries, Bl!WithinRetries, Bl!InProgress
<1>15. Bl!RecordIsJudged'
  BY <1>1, <1>2, <1>3 DEF Bl!CopyIsJudged, Bl!RecordIsJudged, Bl!Judged
<1>16. Bl!CopyIsJudged'
  BY <1>1, <1>2, <1>3 DEF Bl!CopyIsJudged, Bl!Judged
<1>17. Bl!RecordWasAsked'
  BY <1>3 DEF Bl!RecordWasAsked, Bl!WasAsked
<1>18. Bl!CopyWasAsked'
  BY <1>3 DEF Bl!CopyWasAsked, Bl!WasAsked
<1>19. Bl!NothingRunsOnAnUnrecordedPass'
  BY <1>3, Zenon DEF Bl!NothingRunsOnAnUnrecordedPass, Bl!PassCount, Bl!FailureCount
<1>20. Bl!DefaultsAreRecorded'
  BY <1>1, <1>2 DEF Bl!DefaultsAreRecorded
<1> QED
  BY <1>5, <1>6, <1>7, <1>8, <1>9, <1>10, <1>11, <1>12, <1>13, <1>14, <1>15, <1>16, <1>17,
     <1>18, <1>19, <1>20 DEF Bl!BlueprintsInv

(* A node that failed was not passed: the walk and the record count the same
   passes, and the checks were failed for a verdict not judged before.        *)
LEMMA WalkGoesBack ==
  ASSUME Bl!BlueprintsInv,
         NEW o \in Bl!Texts,
         NEW j \in 0..MaxReds,
         Bl!Fails(o, j),
         s6 = "loop",
         s5.visits < MaxVisits,
         (s5.node # "checks" /\ j = s5.judged) \/ (s5.judged # s10 /\ j = s10),
         s1' = s1,
         s2' = s2,
         s3' = s3,
         s7' = s7,
         s9' = s9,
         s10' = s10,
         s11' = s11,
         s12' = s12
  PROVE  Bl!BlueprintsInv'
<1> USE IntegrationAssumption
<1>1. /\ Bl!FlagsShape
      /\ Bl!RecordShape
      /\ Bl!CopyShape
      /\ Bl!WalkShape
      /\ Bl!SentShape
      /\ Bl!AnswerShape
      /\ Bl!VerdictShape
      /\ Bl!CountsShape
      /\ Bl!WalksAreInProgress
      /\ Bl!PromptIsSent
      /\ Bl!RecordWithinRetries
      /\ Bl!CopyWithinRetries
      /\ Bl!RecordIsJudged
      /\ Bl!CopyIsJudged
      /\ Bl!RecordWasAsked
      /\ Bl!CopyWasAsked
      /\ Bl!NothingRunsOnAnUnrecordedPass
      /\ Bl!DefaultsAreRecorded
  BY DEF Bl!BlueprintsInv
<1>2. s5.status \in {"running", "waiting"} /\ Bl!InProgress(s5)
  BY <1>1 DEF Bl!WalksAreInProgress, Bl!InProgress
<1>3. /\ s5' \in Bl!RunRecords /\ s5'.plan = s5.plan /\ s5'.judged = j /\ s5'.visits = s5.visits + 1
      /\ s5'.failures = [s5.failures EXCEPT ![s5.node] = s5.failures[s5.node] + 1]
      /\ \/ s5'.status = "blocked" /\ s6' = "stopping"
         \/ /\ s5'.status = "running" /\ s6' = "loop"
            /\ s5.failures[s5.node] + 1 <= s5.plan.retries
      /\ s4' = s4 /\ s8' = s8
  BY <1>1, <1>2, WalkFails DEF Bl!CopyWithinRetries
<1>4. /\ s1' = s1 /\ s2' = s2 /\ s3' = s3 /\ s7' = s7 /\ s9' = s9 /\ s10' = s10
      /\ s11' = s11 /\ s12' = s12 /\ s4' = s4 /\ s8' = s8
  BY <1>3
<1>5. /\ s5.failures \in [Bl!Nodes -> 0..2] /\ s5.node \in Bl!Nodes /\ s5.judged \in Nat /\ s10 \in Nat
      /\ s5.visits \in Nat
  BY <1>1, RunsAreRead DEF Bl!CopyShape, Bl!CountsShape
<1>6. \A n \in Bl!Nodes : s5'.failures[n] = IF n = s5.node THEN s5.failures[n] + 1 ELSE s5.failures[n]
  BY <1>3, <1>5
<1>7. Bl!FlagsShape' /\ Bl!RecordShape' /\ Bl!SentShape'
  BY <1>1, <1>4, Zenon DEF Bl!FlagsShape, Bl!RecordShape, Bl!SentShape
<1>8. Bl!AnswerShape' /\ Bl!VerdictShape' /\ Bl!CountsShape'
  BY <1>1, <1>4, Zenon DEF Bl!AnswerShape, Bl!VerdictShape, Bl!CountsShape
<1>9. Bl!RecordWithinRetries' /\ Bl!RecordIsJudged' /\ Bl!RecordWasAsked'
  BY <1>1, <1>4, Zenon DEF Bl!RecordWithinRetries, Bl!WithinRetries, Bl!InProgress,
     Bl!RecordIsJudged, Bl!Judged, Bl!RecordWasAsked, Bl!WasAsked
<1>10. Bl!CopyShape'
  BY <1>3 DEF Bl!CopyShape
<1>11. Bl!WalkShape'
  BY <1>3 DEF Bl!WalkShape
<1>12. Bl!WalksAreInProgress'
  BY <1>3 DEF Bl!WalksAreInProgress, Bl!InProgress
<1>13. Bl!PromptIsSent'
  BY <1>3 DEF Bl!PromptIsSent
<1>14. Bl!CopyWithinRetries'
  BY <1>1, <1>2, <1>3, <1>6 DEF Bl!CopyWithinRetries, Bl!WithinRetries, Bl!InProgress
<1>15. Bl!CopyIsJudged'
  <2>1. "checks" \in Bl!Nodes /\ s5.failures["checks"] \in Nat
    BY <1>5 DEF Bl!Nodes
  <2>2. s5.failures["checks"] <= s5.judged /\ s5.judged <= s10
    BY <1>1 DEF Bl!CopyIsJudged, Bl!Judged
  <2>3. s5'.failures["checks"] <= j /\ j <= s10
    BY <2>1, <2>2, <1>5, <1>6
  <2> QED
    BY <2>3, <1>3, <1>4 DEF Bl!CopyIsJudged, Bl!Judged
<1>16. Bl!CopyWasAsked'
  BY <1>3 DEF Bl!CopyWasAsked, Bl!WasAsked
<1>17. Bl!NothingRunsOnAnUnrecordedPass'
  <2>1. s5.visits - Bl!FailureCount(s5) = s4.visits - Bl!FailureCount(s4)
    BY <1>1, Zenon DEF Bl!NothingRunsOnAnUnrecordedPass, Bl!PassCount
  <2>2. /\ "work" \in Bl!Nodes /\ "test" \in Bl!Nodes /\ "checks" \in Bl!Nodes /\ "end" \in Bl!Nodes
        /\ s5.node \in {"work", "test", "checks", "end"}
    BY <1>5 DEF Bl!Nodes
  <2>3. PICK a \in 0..2, b \in 0..2, d \in 0..2, e \in 0..2 :
           /\ a = s5.failures["work"] /\ b = s5.failures["test"]
           /\ d = s5.failures["checks"] /\ e = s5.failures["end"]
    BY <2>2, <1>5
  <2>4. /\ s5'.failures["work"] = IF s5.node = "work" THEN a + 1 ELSE a
        /\ s5'.failures["test"] = IF s5.node = "test" THEN b + 1 ELSE b
        /\ s5'.failures["checks"] = IF s5.node = "checks" THEN d + 1 ELSE d
        /\ s5'.failures["end"] = IF s5.node = "end" THEN e + 1 ELSE e
    BY <2>2, <2>3, <1>6
  <2>5. (Bl!FailureCount(s5))' = Bl!FailureCount(s5) + 1 /\ Bl!FailureCount(s5) = a + b + d + e
    BY <2>2, <2>3, <2>4 DEF Bl!FailureCount
  <2>6. s5'.visits - (Bl!FailureCount(s5))' = s5.visits - Bl!FailureCount(s5)
    BY <2>5, <1>3, <1>5
  <2> QED
    BY <2>1, <2>6, <1>4, Zenon DEF Bl!NothingRunsOnAnUnrecordedPass, Bl!PassCount, Bl!FailureCount
<1>18. Bl!DefaultsAreRecorded'
  BY <1>1, <1>4 DEF Bl!DefaultsAreRecorded
<1> QED
  BY <1>7, <1>8, <1>9, <1>10, <1>11, <1>12, <1>13, <1>14, <1>15, <1>16, <1>17, <1>18 DEF
     Bl!BlueprintsInv

(* Every step of a run, its lane, the forge and the operator keeps this.       *)
LEMMA BlueprintsStep ==
  ASSUME Bl!BlueprintsInv, Bl!BlueprintsNext
  PROVE  Bl!BlueprintsInv'
<1> USE IntegrationAssumption
<1>1. /\ Bl!FlagsShape
      /\ Bl!RecordShape
      /\ Bl!CopyShape
      /\ Bl!WalkShape
      /\ Bl!SentShape
      /\ Bl!AnswerShape
      /\ Bl!VerdictShape
      /\ Bl!CountsShape
      /\ Bl!WalksAreInProgress
      /\ Bl!PromptIsSent
      /\ Bl!RecordWithinRetries
      /\ Bl!CopyWithinRetries
      /\ Bl!RecordIsJudged
      /\ Bl!CopyIsJudged
      /\ Bl!RecordWasAsked
      /\ Bl!CopyWasAsked
      /\ Bl!NothingRunsOnAnUnrecordedPass
      /\ Bl!DefaultsAreRecorded
  BY DEF Bl!BlueprintsInv
<1>2. ASSUME Bl!Define
      PROVE  Bl!BlueprintsInv'
  <2>1. /\ s2' = s2 /\ s3' = s3 /\ s4' = s4 /\ s5' = s5 /\ s6' = s6 /\ s7' = s7
        /\ s8' = s8 /\ s9' = s9 /\ s10' = s10 /\ s11' = s11 /\ s12' = s12
    BY <1>2, Zenon DEF Bl!Define
  <2>2. s1' \in BOOLEAN /\ (s1' \/ ~s2)
    BY <1>2, Zenon DEF Bl!Define
  <2>3. Bl!RecordShape' /\ Bl!CopyShape' /\ Bl!WalkShape'
    BY <1>1, <2>1, Zenon DEF Bl!RecordShape, Bl!CopyShape, Bl!WalkShape
  <2>4. Bl!SentShape' /\ Bl!AnswerShape' /\ Bl!VerdictShape'
    BY <1>1, <2>1, Zenon DEF Bl!SentShape, Bl!AnswerShape, Bl!VerdictShape
  <2>5. Bl!CountsShape' /\ Bl!WalksAreInProgress' /\ Bl!PromptIsSent'
    BY <1>1, <2>1, Zenon DEF Bl!CountsShape, Bl!WalksAreInProgress, Bl!InProgress,
       Bl!PromptIsSent
  <2>6. Bl!RecordWithinRetries' /\ Bl!CopyWithinRetries' /\ Bl!RecordIsJudged'
    BY <1>1, <2>1, Zenon DEF Bl!RecordWithinRetries, Bl!WithinRetries, Bl!InProgress,
       Bl!CopyWithinRetries, Bl!RecordIsJudged, Bl!Judged
  <2>7. Bl!CopyIsJudged' /\ Bl!RecordWasAsked' /\ Bl!CopyWasAsked'
    BY <1>1, <2>1, Zenon DEF Bl!CopyIsJudged, Bl!Judged, Bl!RecordWasAsked, Bl!WasAsked,
       Bl!CopyWasAsked
  <2>8. Bl!NothingRunsOnAnUnrecordedPass'
    BY <1>1, <2>1, Zenon DEF Bl!NothingRunsOnAnUnrecordedPass, Bl!PassCount, Bl!FailureCount
  <2>9. Bl!FlagsShape'
    BY <1>1, <2>1, <2>2 DEF Bl!FlagsShape
  <2>10. Bl!DefaultsAreRecorded'
    BY <2>1, <2>2 DEF Bl!DefaultsAreRecorded
  <2> QED
    BY <2>3, <2>4, <2>5, <2>6, <2>7, <2>8, <2>9, <2>10 DEF Bl!BlueprintsInv
<1>3. ASSUME Bl!Default
      PROVE  Bl!BlueprintsInv'
  <2>1. /\ s1' = s1 /\ s3' = s3 /\ s4' = s4 /\ s5' = s5 /\ s6' = s6 /\ s7' = s7
        /\ s8' = s8 /\ s9' = s9 /\ s10' = s10 /\ s11' = s11 /\ s12' = s12
    BY <1>3, Zenon DEF Bl!Default
  <2>2. s2' = ~s2
    BY <1>3, Zenon DEF Bl!Default
  <2>3. s2 \/ s1
    BY <1>3, Zenon DEF Bl!Default
  <2>4. Bl!RecordShape' /\ Bl!CopyShape' /\ Bl!WalkShape'
    BY <1>1, <2>1, Zenon DEF Bl!RecordShape, Bl!CopyShape, Bl!WalkShape
  <2>5. Bl!SentShape' /\ Bl!AnswerShape' /\ Bl!VerdictShape'
    BY <1>1, <2>1, Zenon DEF Bl!SentShape, Bl!AnswerShape, Bl!VerdictShape
  <2>6. Bl!CountsShape' /\ Bl!WalksAreInProgress' /\ Bl!PromptIsSent'
    BY <1>1, <2>1, Zenon DEF Bl!CountsShape, Bl!WalksAreInProgress, Bl!InProgress,
       Bl!PromptIsSent
  <2>7. Bl!RecordWithinRetries' /\ Bl!CopyWithinRetries' /\ Bl!RecordIsJudged'
    BY <1>1, <2>1, Zenon DEF Bl!RecordWithinRetries, Bl!WithinRetries, Bl!InProgress,
       Bl!CopyWithinRetries, Bl!RecordIsJudged, Bl!Judged
  <2>8. Bl!CopyIsJudged' /\ Bl!RecordWasAsked' /\ Bl!CopyWasAsked'
    BY <1>1, <2>1, Zenon DEF Bl!CopyIsJudged, Bl!Judged, Bl!RecordWasAsked, Bl!WasAsked,
       Bl!CopyWasAsked
  <2>9. Bl!NothingRunsOnAnUnrecordedPass'
    BY <1>1, <2>1, Zenon DEF Bl!NothingRunsOnAnUnrecordedPass, Bl!PassCount, Bl!FailureCount
  <2>10. Bl!FlagsShape'
    BY <1>1, <2>1, <2>2, Zenon DEF Bl!FlagsShape
  <2>11. Bl!DefaultsAreRecorded'
    BY <1>1, <2>1, <2>2, <2>3 DEF Bl!DefaultsAreRecorded
  <2> QED
    BY <2>4, <2>5, <2>6, <2>7, <2>8, <2>9, <2>10, <2>11 DEF Bl!BlueprintsInv
<1>4. ASSUME Bl!Start
      PROVE  Bl!BlueprintsInv'
  <2>1. /\ s1' = s1 /\ s2' = s2 /\ s3' = s3 /\ s7' = s7 /\ s9' = s9 /\ s10' = s10
        /\ s12' = s12
    BY <1>4, Zenon DEF Bl!Start
  <2>2. /\ s6' = "loop"
        /\ s11' = s11 + 1
    BY <1>4, Zenon DEF Bl!Start
  <2>3. Bl!NoRun \in Bl!RunRecords /\ Bl!NoRun.status = "none" /\ Bl!NoRun.failures["checks"] = 0
        /\ Bl!NoRun.judged = 0 /\ Bl!NoRun.node = "work" /\ Bl!NoRun.failures = [n \in Bl!Nodes |-> 0]
    <3>1. [retries |-> 0, onFailure |-> "work"] \in Bl!Parsed /\ [n \in Bl!Nodes |-> 0] \in [Bl!Nodes -> 0..2]
      BY DEF Bl!Parsed
    <3>2. "none" \in Bl!Statuses /\ "work" \in Bl!Nodes /\ "plain" \in Bl!Texts /\ "checks" \in Bl!Nodes
      BY DEF Bl!Statuses, Bl!Nodes, Bl!Texts
    <3>3. 0 \in 0..MaxVisits + 1 /\ 0 \in 0..MaxReds
      OBVIOUS
    <3>4. Bl!NoRun \in Bl!RunRecords
      BY <3>1, <3>2, <3>3, Zenon DEF Bl!NoRun, Bl!RunRecords
    <3> QED
      BY <3>2, <3>4 DEF Bl!NoRun
  <2>4. s11 < MaxBlueprintRuns
    BY <1>4, Zenon DEF Bl!Start
  <2>5. PICK p \in Bl!Parsed : s4' = [Bl!NoRun EXCEPT !.status = "running", !.plan = p]
    BY <1>4, Zenon DEF Bl!Start
  <2>6. s5' = s4'
    BY <1>4, Zenon DEF Bl!Start
  <2>7. /\ s4' \in Bl!RunRecords /\ s4'.status = "running" /\ s4'.failures = [n \in Bl!Nodes |-> 0]
        /\ s4'.judged = 0 /\ s4'.plan = p
    BY <2>3, <2>5 DEF Bl!RunRecords, Bl!Statuses
  <2>8. p.retries \in Nat
    BY DEF Bl!Parsed
  <2>9. s8' \in [outcome : {"none", "ready", "blocked"}, summary : Bl!Texts, afterRecord : BOOLEAN,
               afterCopy : BOOLEAN]
    <3>1. \A a \in BOOLEAN, b \in BOOLEAN : [s8 EXCEPT !.afterRecord = a, !.afterCopy = b]
               \in [outcome : {"none", "ready", "blocked"}, summary : Bl!Texts, afterRecord : BOOLEAN,
                    afterCopy : BOOLEAN]
      BY <1>1 DEF Bl!AnswerShape
    <3>2. ((s8.outcome # "none")) \in BOOLEAN /\ ((s8.outcome # "none")) \in BOOLEAN
      BY <1>1, Zenon DEF Bl!AnswerShape
    <3>3. s8' = [s8 EXCEPT !.afterRecord = (s8.outcome # "none"), !.afterCopy = (s8.outcome # "none")]
      BY <1>4, Zenon DEF Bl!Start
    <3> QED
      BY <3>1, <3>2, <3>3, Zenon
  <2>10. "checks" \in Bl!Nodes
    BY DEF Bl!Nodes
  <2>11. s10 \in Nat
    BY <1>1 DEF Bl!CountsShape
  <2>12. Bl!FlagsShape' /\ Bl!SentShape' /\ Bl!VerdictShape'
    BY <1>1, <2>1, Zenon DEF Bl!FlagsShape, Bl!SentShape, Bl!VerdictShape
  <2>13. Bl!RecordShape'
    BY <2>7 DEF Bl!RecordShape
  <2>14. Bl!CopyShape'
    BY <2>7, <2>6 DEF Bl!CopyShape
  <2>15. Bl!WalkShape'
    BY <2>2 DEF Bl!WalkShape
  <2>16. Bl!AnswerShape'
    BY <2>9, Zenon DEF Bl!AnswerShape
  <2>17. Bl!CountsShape'
    BY <1>1, <2>1, <2>2, <2>4 DEF Bl!CountsShape
  <2>18. Bl!WalksAreInProgress'
    BY <2>7, <2>6, <2>2 DEF Bl!WalksAreInProgress, Bl!InProgress
  <2>19. Bl!PromptIsSent'
    BY <2>2 DEF Bl!PromptIsSent
  <2>20. Bl!RecordWithinRetries'
    BY <2>7, <2>8 DEF Bl!RecordWithinRetries, Bl!WithinRetries
  <2>21. Bl!CopyWithinRetries'
    BY <2>7, <2>6, <2>8 DEF Bl!CopyWithinRetries, Bl!WithinRetries
  <2>22. Bl!RecordIsJudged'
    BY <2>7, <2>1, <2>10, <2>11 DEF Bl!RecordIsJudged, Bl!Judged
  <2>23. Bl!CopyIsJudged'
    BY <2>7, <2>6, <2>1, <2>10, <2>11 DEF Bl!CopyIsJudged, Bl!Judged
  <2>24. Bl!RecordWasAsked'
    BY <2>7 DEF Bl!RecordWasAsked, Bl!WasAsked
  <2>25. Bl!CopyWasAsked'
    BY <2>7, <2>6 DEF Bl!CopyWasAsked, Bl!WasAsked
  <2>26. Bl!NothingRunsOnAnUnrecordedPass'
    BY <2>6, Zenon DEF Bl!NothingRunsOnAnUnrecordedPass, Bl!PassCount, Bl!FailureCount
  <2>27. Bl!DefaultsAreRecorded'
    BY <1>1, <2>1 DEF Bl!DefaultsAreRecorded
  <2> QED
    BY <2>12, <2>13, <2>14, <2>15, <2>16, <2>17, <2>18, <2>19, <2>20, <2>21, <2>22, <2>23,
       <2>24, <2>25, <2>26, <2>27 DEF Bl!BlueprintsInv
<1>5. ASSUME Bl!LaneReports
      PROVE  Bl!BlueprintsInv'
  <2>1. /\ s1' = s1 /\ s2' = s2 /\ s3' = s3 /\ s4' = s4 /\ s5' = s5 /\ s6' = s6
        /\ s7' = s7 /\ s9' = s9 /\ s10' = s10 /\ s11' = s11 /\ s12' = s12
    BY <1>5, Zenon DEF Bl!LaneReports
  <2>2. s8' \in [outcome : {"none", "ready", "blocked"}, summary : Bl!Texts, afterRecord : BOOLEAN,
               afterCopy : BOOLEAN]
    <3>1. PICK o \in {"ready", "blocked"}, s \in {"x", "y"} :
             s8' = [outcome |-> o, summary |-> s, afterRecord |-> TRUE, afterCopy |-> s6 # "idle"]
      BY <1>5, Zenon DEF Bl!LaneReports
    <3>2. \A b \in BOOLEAN : [outcome |-> o, summary |-> s, afterRecord |-> TRUE, afterCopy |-> b]
             \in [outcome : {"none", "ready", "blocked"}, summary : Bl!Texts, afterRecord : BOOLEAN,
                  afterCopy : BOOLEAN]
      BY Zenon DEF Bl!Texts
    <3>3. (s6 # "idle") \in BOOLEAN
      BY Zenon
    <3> QED
      BY <3>1, <3>2, <3>3, Zenon
  <2>3. Bl!FlagsShape' /\ Bl!RecordShape' /\ Bl!CopyShape'
    BY <1>1, <2>1, Zenon DEF Bl!FlagsShape, Bl!RecordShape, Bl!CopyShape
  <2>4. Bl!WalkShape' /\ Bl!SentShape' /\ Bl!VerdictShape'
    BY <1>1, <2>1, Zenon DEF Bl!WalkShape, Bl!SentShape, Bl!VerdictShape
  <2>5. Bl!CountsShape' /\ Bl!WalksAreInProgress' /\ Bl!PromptIsSent'
    BY <1>1, <2>1, Zenon DEF Bl!CountsShape, Bl!WalksAreInProgress, Bl!InProgress,
       Bl!PromptIsSent
  <2>6. Bl!RecordWithinRetries' /\ Bl!CopyWithinRetries' /\ Bl!RecordIsJudged'
    BY <1>1, <2>1, Zenon DEF Bl!RecordWithinRetries, Bl!WithinRetries, Bl!InProgress,
       Bl!CopyWithinRetries, Bl!RecordIsJudged, Bl!Judged
  <2>7. Bl!CopyIsJudged' /\ Bl!RecordWasAsked' /\ Bl!CopyWasAsked'
    BY <1>1, <2>1, Zenon DEF Bl!CopyIsJudged, Bl!Judged, Bl!RecordWasAsked, Bl!WasAsked,
       Bl!CopyWasAsked
  <2>8. Bl!NothingRunsOnAnUnrecordedPass'
    BY <1>1, <2>1, Zenon DEF Bl!NothingRunsOnAnUnrecordedPass, Bl!PassCount, Bl!FailureCount
  <2>9. Bl!AnswerShape'
    BY <2>2, Zenon DEF Bl!AnswerShape
  <2>10. Bl!DefaultsAreRecorded'
    BY <1>1, <2>1 DEF Bl!DefaultsAreRecorded
  <2> QED
    BY <2>3, <2>4, <2>5, <2>6, <2>7, <2>8, <2>9, <2>10 DEF Bl!BlueprintsInv
<1>6. ASSUME Bl!LaneLoses
      PROVE  Bl!BlueprintsInv'
  <2>1. /\ s1' = s1 /\ s2' = s2 /\ s4' = s4 /\ s5' = s5 /\ s6' = s6 /\ s7' = s7
        /\ s8' = s8 /\ s9' = s9 /\ s10' = s10 /\ s11' = s11 /\ s12' = s12
    BY <1>6, Zenon DEF Bl!LaneLoses
  <2>2. s3' = FALSE
    BY <1>6, Zenon DEF Bl!LaneLoses
  <2>3. Bl!RecordShape' /\ Bl!CopyShape' /\ Bl!WalkShape'
    BY <1>1, <2>1, Zenon DEF Bl!RecordShape, Bl!CopyShape, Bl!WalkShape
  <2>4. Bl!SentShape' /\ Bl!AnswerShape' /\ Bl!VerdictShape'
    BY <1>1, <2>1, Zenon DEF Bl!SentShape, Bl!AnswerShape, Bl!VerdictShape
  <2>5. Bl!CountsShape' /\ Bl!WalksAreInProgress' /\ Bl!PromptIsSent'
    BY <1>1, <2>1, Zenon DEF Bl!CountsShape, Bl!WalksAreInProgress, Bl!InProgress,
       Bl!PromptIsSent
  <2>6. Bl!RecordWithinRetries' /\ Bl!CopyWithinRetries' /\ Bl!RecordIsJudged'
    BY <1>1, <2>1, Zenon DEF Bl!RecordWithinRetries, Bl!WithinRetries, Bl!InProgress,
       Bl!CopyWithinRetries, Bl!RecordIsJudged, Bl!Judged
  <2>7. Bl!CopyIsJudged' /\ Bl!RecordWasAsked' /\ Bl!CopyWasAsked'
    BY <1>1, <2>1, Zenon DEF Bl!CopyIsJudged, Bl!Judged, Bl!RecordWasAsked, Bl!WasAsked,
       Bl!CopyWasAsked
  <2>8. Bl!NothingRunsOnAnUnrecordedPass'
    BY <1>1, <2>1, Zenon DEF Bl!NothingRunsOnAnUnrecordedPass, Bl!PassCount, Bl!FailureCount
  <2>9. Bl!FlagsShape'
    BY <1>1, <2>1, <2>2, Zenon DEF Bl!FlagsShape
  <2>10. Bl!DefaultsAreRecorded'
    BY <1>1, <2>1 DEF Bl!DefaultsAreRecorded
  <2> QED
    BY <2>3, <2>4, <2>5, <2>6, <2>7, <2>8, <2>9, <2>10 DEF Bl!BlueprintsInv
<1>7. ASSUME Bl!ForgeAnswers
      PROVE  Bl!BlueprintsInv'
  <2>1. /\ s1' = s1 /\ s2' = s2 /\ s3' = s3 /\ s4' = s4 /\ s5' = s5 /\ s6' = s6
        /\ s7' = s7 /\ s8' = s8 /\ s11' = s11 /\ s12' = s12
    BY <1>7, Zenon DEF Bl!ForgeAnswers
  <2>2. /\ s9' \in {"pending", "red", "exhausted", "green", "closed"}
        /\ s10' = s10 \/ (s10 < MaxReds /\ s10' = s10 + 1)
    BY <1>7, Zenon DEF Bl!ForgeAnswers
  <2>3. s10' \in 0..MaxReds /\ s10 <= s10' /\ s10 \in Nat
    BY <1>1, <2>2 DEF Bl!CountsShape
  <2>4. s4.judged \in Nat /\ s5.judged \in Nat
    BY <1>1 DEF Bl!RecordShape, Bl!CopyShape, Bl!RunRecords
  <2>5. Bl!FlagsShape' /\ Bl!RecordShape' /\ Bl!CopyShape'
    BY <1>1, <2>1, Zenon DEF Bl!FlagsShape, Bl!RecordShape, Bl!CopyShape
  <2>6. Bl!WalkShape' /\ Bl!SentShape' /\ Bl!AnswerShape'
    BY <1>1, <2>1, Zenon DEF Bl!WalkShape, Bl!SentShape, Bl!AnswerShape
  <2>7. Bl!WalksAreInProgress' /\ Bl!PromptIsSent' /\ Bl!RecordWithinRetries'
    BY <1>1, <2>1, Zenon DEF Bl!WalksAreInProgress, Bl!InProgress, Bl!PromptIsSent,
       Bl!RecordWithinRetries, Bl!WithinRetries
  <2>8. Bl!CopyWithinRetries' /\ Bl!RecordWasAsked' /\ Bl!CopyWasAsked'
    BY <1>1, <2>1, Zenon DEF Bl!CopyWithinRetries, Bl!WithinRetries, Bl!InProgress,
       Bl!RecordWasAsked, Bl!WasAsked, Bl!CopyWasAsked
  <2>9. Bl!NothingRunsOnAnUnrecordedPass'
    BY <1>1, <2>1, Zenon DEF Bl!NothingRunsOnAnUnrecordedPass, Bl!PassCount, Bl!FailureCount
  <2>10. Bl!VerdictShape'
    BY <2>2 DEF Bl!VerdictShape
  <2>11. Bl!CountsShape'
    BY <1>1, <2>1, <2>3 DEF Bl!CountsShape
  <2>12. Bl!RecordIsJudged'
    BY <1>1, <2>1, <2>3, <2>4 DEF Bl!RecordIsJudged, Bl!Judged
  <2>13. Bl!CopyIsJudged'
    BY <1>1, <2>1, <2>3, <2>4 DEF Bl!CopyIsJudged, Bl!Judged
  <2>14. Bl!DefaultsAreRecorded'
    BY <1>1, <2>1 DEF Bl!DefaultsAreRecorded
  <2> QED
    BY <2>5, <2>6, <2>7, <2>8, <2>9, <2>10, <2>11, <2>12, <2>13, <2>14 DEF Bl!BlueprintsInv
<1>8. ASSUME NEW b \in BOOLEAN, Bl!Begin(b)
      PROVE  Bl!BlueprintsInv'
  <2>1. /\ s1' = s1 /\ s2' = s2 /\ s3' = s3 /\ s4' = s4 /\ s7' = s7 /\ s9' = s9
        /\ s10' = s10 /\ s11' = s11 /\ s12' = s12
    BY <1>8, Zenon DEF Bl!Begin
  <2>2. s4.status \in {"running", "waiting"}
    BY <1>8, Zenon DEF Bl!Begin, Bl!InProgress
  <2>3. \/ s5' = [s4 EXCEPT !.status = s4.status] /\ s6' = "loop"
        \/ s5' = [s4 EXCEPT !.status = "blocked"] /\ s6' = "stopping"
    BY <1>8, Zenon DEF Bl!Begin
  <2>4. /\ s5' \in Bl!RunRecords /\ s5'.status \in {s4.status, "blocked"} /\ s5'.failures = s4.failures
        /\ s5'.plan = s4.plan /\ s5'.judged = s4.judged /\ s5'.visits = s4.visits /\ s5'.node = s4.node
        /\ (s6' = "loop" /\ s5'.status = s4.status) \/ s6' = "stopping"
    BY <1>1, <2>3 DEF Bl!RecordShape, Bl!RunRecords, Bl!Statuses
  <2>5. s8' \in [outcome : {"none", "ready", "blocked"}, summary : Bl!Texts, afterRecord : BOOLEAN,
               afterCopy : BOOLEAN]
    <3>1. s8' = [s8 EXCEPT !.afterCopy = s8.afterRecord]
      BY <1>8, Zenon DEF Bl!Begin
    <3> QED
      BY <1>1, <3>1 DEF Bl!AnswerShape
  <2>6. Bl!FlagsShape' /\ Bl!RecordShape' /\ Bl!SentShape'
    BY <1>1, <2>1, Zenon DEF Bl!FlagsShape, Bl!RecordShape, Bl!SentShape
  <2>7. Bl!VerdictShape' /\ Bl!CountsShape' /\ Bl!RecordWithinRetries'
    BY <1>1, <2>1, Zenon DEF Bl!VerdictShape, Bl!CountsShape, Bl!RecordWithinRetries,
       Bl!WithinRetries, Bl!InProgress
  <2>8. Bl!RecordIsJudged' /\ Bl!RecordWasAsked'
    BY <1>1, <2>1, Zenon DEF Bl!RecordIsJudged, Bl!Judged, Bl!RecordWasAsked, Bl!WasAsked
  <2>9. Bl!CopyShape'
    BY <2>4 DEF Bl!CopyShape
  <2>10. Bl!WalkShape'
    BY <2>4 DEF Bl!WalkShape
  <2>11. Bl!AnswerShape'
    BY <2>5, Zenon DEF Bl!AnswerShape
  <2>12. Bl!WalksAreInProgress'
    BY <2>4, <2>2 DEF Bl!WalksAreInProgress, Bl!InProgress
  <2>13. Bl!PromptIsSent'
    BY <2>4 DEF Bl!PromptIsSent
  <2>14. Bl!CopyWithinRetries'
    BY <1>1, <2>2, <2>4 DEF Bl!CopyWithinRetries, Bl!RecordWithinRetries, Bl!WithinRetries,
       Bl!InProgress
  <2>15. Bl!CopyIsJudged'
    BY <1>1, <2>1, <2>4 DEF Bl!CopyIsJudged, Bl!RecordIsJudged, Bl!Judged
  <2>16. Bl!CopyWasAsked'
    BY <1>1, <2>1, <2>4 DEF Bl!CopyWasAsked, Bl!RecordWasAsked, Bl!WasAsked
  <2>17. Bl!NothingRunsOnAnUnrecordedPass'
    BY <2>1, <2>4, Zenon DEF Bl!NothingRunsOnAnUnrecordedPass, Bl!PassCount, Bl!FailureCount
  <2>18. Bl!DefaultsAreRecorded'
    BY <1>1, <2>1 DEF Bl!DefaultsAreRecorded
  <2> QED
    BY <2>6, <2>7, <2>8, <2>9, <2>10, <2>11, <2>12, <2>13, <2>14, <2>15, <2>16, <2>17, <2>18
       DEF Bl!BlueprintsInv
<1>9. ASSUME Bl!Ends
      PROVE  Bl!BlueprintsInv'
  <2>1. /\ s1' = s1 /\ s2' = s2 /\ s3' = s3 /\ s4' = s4 /\ s7' = s7 /\ s8' = s8
        /\ s9' = s9 /\ s10' = s10 /\ s11' = s11 /\ s12' = s12
    BY <1>9, Zenon DEF Bl!Ends
  <2>2. PICK st \in {"done", "blocked"} : s5' = [s5 EXCEPT !.status = st] /\ s6' = "stopping"
    BY <1>9, Zenon DEF Bl!Ends
  <2>3. /\ s5' \in Bl!RunRecords /\ s5'.status \in {"done", "blocked"} /\ s5'.failures = s5.failures
        /\ s5'.plan = s5.plan /\ s5'.judged = s5.judged /\ s5'.visits = s5.visits /\ s5'.node = s5.node
        /\ s6' = "stopping"
    BY <1>1, <2>2 DEF Bl!CopyShape, Bl!RunRecords, Bl!Statuses
  <2>4. Bl!FlagsShape' /\ Bl!RecordShape' /\ Bl!SentShape'
    BY <1>1, <2>1, Zenon DEF Bl!FlagsShape, Bl!RecordShape, Bl!SentShape
  <2>5. Bl!AnswerShape' /\ Bl!VerdictShape' /\ Bl!CountsShape'
    BY <1>1, <2>1, Zenon DEF Bl!AnswerShape, Bl!VerdictShape, Bl!CountsShape
  <2>6. Bl!RecordWithinRetries' /\ Bl!RecordIsJudged' /\ Bl!RecordWasAsked'
    BY <1>1, <2>1, Zenon DEF Bl!RecordWithinRetries, Bl!WithinRetries, Bl!InProgress,
       Bl!RecordIsJudged, Bl!Judged, Bl!RecordWasAsked, Bl!WasAsked
  <2>7. Bl!CopyShape'
    BY <2>3 DEF Bl!CopyShape
  <2>8. Bl!WalkShape'
    BY <2>3 DEF Bl!WalkShape
  <2>9. Bl!WalksAreInProgress'
    BY <2>3 DEF Bl!WalksAreInProgress
  <2>10. Bl!PromptIsSent'
    BY <2>3 DEF Bl!PromptIsSent
  <2>11. Bl!CopyWithinRetries'
    BY <1>1, <2>3 DEF Bl!CopyWithinRetries, Bl!WithinRetries, Bl!InProgress
  <2>12. Bl!CopyIsJudged'
    BY <1>1, <2>1, <2>3 DEF Bl!CopyIsJudged, Bl!Judged
  <2>13. Bl!CopyWasAsked'
    BY <1>1, <2>1, <2>3 DEF Bl!CopyWasAsked, Bl!WasAsked
  <2>14. Bl!NothingRunsOnAnUnrecordedPass'
    BY <2>3 DEF Bl!NothingRunsOnAnUnrecordedPass
  <2>15. Bl!DefaultsAreRecorded'
    BY <1>1, <2>1 DEF Bl!DefaultsAreRecorded
  <2> QED
    BY <2>4, <2>5, <2>6, <2>7, <2>8, <2>9, <2>10, <2>11, <2>12, <2>13, <2>14, <2>15 DEF
       Bl!BlueprintsInv
<1>10. ASSUME Bl!ReadReport
       PROVE  Bl!BlueprintsInv'
  <2>1. /\ s1' = s1 /\ s2' = s2 /\ s3' = s3 /\ s7' = s7 /\ s9' = s9 /\ s10' = s10
        /\ s11' = s11 /\ s12' = s12
    BY <1>10, Zenon DEF Bl!ReadReport
  <2>2. s6 = "loop" /\ s5.visits < MaxVisits /\ s5.node = "work"
    BY <1>10, Zenon DEF Bl!ReadReport, Bl!Walking
  <2>3. s8.summary \in Bl!Texts /\ s5.judged \in 0..MaxReds
    BY <1>1 DEF Bl!AnswerShape, Bl!CopyShape, Bl!RunRecords
  <2>4. \/ s6' = "stopping" /\ s5' = s5 /\ s4' = s4 /\ s8' = s8
        \/ Bl!Passes(s8.summary)
        \/ Bl!Fails(s8.summary, s5.judged)
    BY <1>10, Zenon DEF Bl!ReadReport, Bl!Keep
  <2>5. CASE s6' = "stopping" /\ s5' = s5 /\ s4' = s4 /\ s8' = s8
    BY <2>1, <2>5, WalkWaits
  <2>6. CASE Bl!Passes(s8.summary)
    BY <2>1, <2>2, <2>3, <2>6, WalkGoesOn
  <2>7. CASE Bl!Fails(s8.summary, s5.judged)
    BY <2>1, <2>2, <2>3, <2>7, WalkGoesBack
  <2> QED
    BY <2>4, <2>5, <2>6, <2>7
<1>11. ASSUME Bl!Ask
      PROVE  Bl!BlueprintsInv'
  <2>1. /\ s1' = s1 /\ s2' = s2 /\ s3' = s3 /\ s4' = s4 /\ s5' = s5 /\ s7' = s7
        /\ s9' = s9 /\ s10' = s10 /\ s11' = s11 /\ s12' = s12
    BY <1>11, Zenon DEF Bl!Ask
  <2>2. s6' = "asking"
    BY <1>11, Zenon DEF Bl!Ask
  <2>3. s6 = "loop" /\ s5.visits < MaxVisits
    BY <1>11, Zenon DEF Bl!Ask, Bl!Walking
  <2>4. s8' \in [outcome : {"none", "ready", "blocked"}, summary : Bl!Texts, afterRecord : BOOLEAN,
               afterCopy : BOOLEAN]
    <3>1. s8' = [s8 EXCEPT !.afterCopy = FALSE]
      BY <1>11, Zenon DEF Bl!Ask
    <3>2. \A b \in BOOLEAN : [s8 EXCEPT !.afterCopy = b]
             \in [outcome : {"none", "ready", "blocked"}, summary : Bl!Texts, afterRecord : BOOLEAN,
                  afterCopy : BOOLEAN]
      BY <1>1 DEF Bl!AnswerShape
    <3> QED
      BY <3>1, <3>2, Zenon
  <2>5. Bl!FlagsShape' /\ Bl!RecordShape' /\ Bl!CopyShape'
    BY <1>1, <2>1, Zenon DEF Bl!FlagsShape, Bl!RecordShape, Bl!CopyShape
  <2>6. Bl!SentShape' /\ Bl!VerdictShape' /\ Bl!CountsShape'
    BY <1>1, <2>1, Zenon DEF Bl!SentShape, Bl!VerdictShape, Bl!CountsShape
  <2>7. Bl!RecordWithinRetries' /\ Bl!CopyWithinRetries' /\ Bl!RecordIsJudged'
    BY <1>1, <2>1, Zenon DEF Bl!RecordWithinRetries, Bl!WithinRetries, Bl!InProgress,
       Bl!CopyWithinRetries, Bl!RecordIsJudged, Bl!Judged
  <2>8. Bl!CopyIsJudged' /\ Bl!RecordWasAsked' /\ Bl!CopyWasAsked'
    BY <1>1, <2>1, Zenon DEF Bl!CopyIsJudged, Bl!Judged, Bl!RecordWasAsked, Bl!WasAsked,
       Bl!CopyWasAsked
  <2>9. Bl!WalkShape'
    BY <2>2 DEF Bl!WalkShape
  <2>10. Bl!AnswerShape'
    BY <2>4, Zenon DEF Bl!AnswerShape
  <2>11. Bl!WalksAreInProgress'
    BY <1>1, <2>1, <2>2, <2>3 DEF Bl!WalksAreInProgress
  <2>12. Bl!PromptIsSent'
    BY <2>2 DEF Bl!PromptIsSent
  <2>13. Bl!NothingRunsOnAnUnrecordedPass'
    BY <2>2 DEF Bl!NothingRunsOnAnUnrecordedPass
  <2>14. Bl!DefaultsAreRecorded'
    BY <1>1, <2>1 DEF Bl!DefaultsAreRecorded
  <2> QED
    BY <2>5, <2>6, <2>7, <2>8, <2>9, <2>10, <2>11, <2>12, <2>13, <2>14 DEF Bl!BlueprintsInv
<1>12. ASSUME Bl!Cut
      PROVE  Bl!BlueprintsInv'
  <2>1. /\ s1' = s1 /\ s2' = s2 /\ s3' = s3 /\ s4' = s4 /\ s7' = s7 /\ s9' = s9
        /\ s10' = s10 /\ s11' = s11
    BY <1>12, Zenon DEF Bl!Cut
  <2>2. s12' = s12 + 1
    BY <1>12, Zenon DEF Bl!Cut
  <2>3. Bl!NoRun \in Bl!RunRecords /\ Bl!NoRun.status = "none" /\ Bl!NoRun.failures["checks"] = 0
        /\ Bl!NoRun.judged = 0 /\ Bl!NoRun.node = "work" /\ Bl!NoRun.failures = [n \in Bl!Nodes |-> 0]
    <3>1. [retries |-> 0, onFailure |-> "work"] \in Bl!Parsed /\ [n \in Bl!Nodes |-> 0] \in [Bl!Nodes -> 0..2]
      BY DEF Bl!Parsed
    <3>2. "none" \in Bl!Statuses /\ "work" \in Bl!Nodes /\ "plain" \in Bl!Texts /\ "checks" \in Bl!Nodes
      BY DEF Bl!Statuses, Bl!Nodes, Bl!Texts
    <3>3. 0 \in 0..MaxVisits + 1 /\ 0 \in 0..MaxReds
      OBVIOUS
    <3>4. Bl!NoRun \in Bl!RunRecords
      BY <3>1, <3>2, <3>3, Zenon DEF Bl!NoRun, Bl!RunRecords
    <3> QED
      BY <3>2, <3>4 DEF Bl!NoRun
  <2>4. s5' = Bl!NoRun /\ s6' = "idle"
    BY <1>12, Zenon DEF Bl!Cut, Bl!Leave
  <2>5. s12 < MaxBlueprintCuts
    BY <1>12, Zenon DEF Bl!Cut
  <2>6. s8' \in [outcome : {"none", "ready", "blocked"}, summary : Bl!Texts, afterRecord : BOOLEAN,
               afterCopy : BOOLEAN]
    <3>1. s8' = [s8 EXCEPT !.afterCopy = FALSE]
      BY <1>12, Zenon DEF Bl!Cut
    <3>2. \A b \in BOOLEAN : [s8 EXCEPT !.afterCopy = b]
             \in [outcome : {"none", "ready", "blocked"}, summary : Bl!Texts, afterRecord : BOOLEAN,
                  afterCopy : BOOLEAN]
      BY <1>1 DEF Bl!AnswerShape
    <3> QED
      BY <3>1, <3>2, Zenon
  <2>7. Bl!FlagsShape' /\ Bl!RecordShape' /\ Bl!SentShape'
    BY <1>1, <2>1, Zenon DEF Bl!FlagsShape, Bl!RecordShape, Bl!SentShape
  <2>8. Bl!VerdictShape' /\ Bl!RecordWithinRetries' /\ Bl!RecordIsJudged'
    BY <1>1, <2>1, Zenon DEF Bl!VerdictShape, Bl!RecordWithinRetries, Bl!WithinRetries,
       Bl!InProgress, Bl!RecordIsJudged, Bl!Judged
  <2>9. Bl!RecordWasAsked'
    BY <1>1, <2>1, Zenon DEF Bl!RecordWasAsked, Bl!WasAsked
  <2>10. Bl!CopyShape'
    BY <2>4, <2>3 DEF Bl!CopyShape
  <2>11. Bl!WalkShape'
    BY <2>4 DEF Bl!WalkShape
  <2>12. Bl!AnswerShape'
    BY <2>6, Zenon DEF Bl!AnswerShape
  <2>13. Bl!CountsShape'
    BY <1>1, <2>1, <2>2, <2>5 DEF Bl!CountsShape
  <2>14. Bl!WalksAreInProgress'
    BY <2>4 DEF Bl!WalksAreInProgress
  <2>15. Bl!PromptIsSent'
    BY <2>4 DEF Bl!PromptIsSent
  <2>16. Bl!CopyWithinRetries'
    BY <2>4, <2>3 DEF Bl!CopyWithinRetries, Bl!WithinRetries, Bl!InProgress
  <2>17. Bl!CopyIsJudged'
    BY <1>1, <2>1, <2>4, <2>3 DEF Bl!CopyIsJudged, Bl!Judged, Bl!CountsShape
  <2>18. Bl!CopyWasAsked'
    BY <2>4, <2>3 DEF Bl!CopyWasAsked, Bl!WasAsked
  <2>19. Bl!NothingRunsOnAnUnrecordedPass'
    BY <2>4 DEF Bl!NothingRunsOnAnUnrecordedPass
  <2>20. Bl!DefaultsAreRecorded'
    BY <1>1, <2>1 DEF Bl!DefaultsAreRecorded
  <2> QED
    BY <2>7, <2>8, <2>9, <2>10, <2>11, <2>12, <2>13, <2>14, <2>15, <2>16, <2>17, <2>18,
       <2>19, <2>20 DEF Bl!BlueprintsInv
<1>13. ASSUME Bl!Stop
      PROVE  Bl!BlueprintsInv'
  <2>1. /\ s1' = s1 /\ s2' = s2 /\ s3' = s3 /\ s7' = s7 /\ s9' = s9 /\ s10' = s10
        /\ s11' = s11 /\ s12' = s12
    BY <1>13, Zenon DEF Bl!Stop
  <2>2. s4' = s5
    BY <1>13, Zenon DEF Bl!Stop
  <2>3. Bl!NoRun \in Bl!RunRecords /\ Bl!NoRun.status = "none" /\ Bl!NoRun.failures["checks"] = 0
        /\ Bl!NoRun.judged = 0 /\ Bl!NoRun.node = "work" /\ Bl!NoRun.failures = [n \in Bl!Nodes |-> 0]
    <3>1. [retries |-> 0, onFailure |-> "work"] \in Bl!Parsed /\ [n \in Bl!Nodes |-> 0] \in [Bl!Nodes -> 0..2]
      BY DEF Bl!Parsed
    <3>2. "none" \in Bl!Statuses /\ "work" \in Bl!Nodes /\ "plain" \in Bl!Texts /\ "checks" \in Bl!Nodes
      BY DEF Bl!Statuses, Bl!Nodes, Bl!Texts
    <3>3. 0 \in 0..MaxVisits + 1 /\ 0 \in 0..MaxReds
      OBVIOUS
    <3>4. Bl!NoRun \in Bl!RunRecords
      BY <3>1, <3>2, <3>3, Zenon DEF Bl!NoRun, Bl!RunRecords
    <3> QED
      BY <3>2, <3>4 DEF Bl!NoRun
  <2>4. s5' = Bl!NoRun /\ s6' = "idle"
    BY <1>13, Zenon DEF Bl!Stop, Bl!Leave
  <2>5. s8' \in [outcome : {"none", "ready", "blocked"}, summary : Bl!Texts, afterRecord : BOOLEAN,
               afterCopy : BOOLEAN]
    <3>1. \A a \in BOOLEAN, b \in BOOLEAN : [s8 EXCEPT !.afterRecord = a, !.afterCopy = b]
               \in [outcome : {"none", "ready", "blocked"}, summary : Bl!Texts, afterRecord : BOOLEAN,
                    afterCopy : BOOLEAN]
      BY <1>1 DEF Bl!AnswerShape
    <3>2. (s8.afterCopy) \in BOOLEAN /\ (FALSE) \in BOOLEAN
      BY <1>1, Zenon DEF Bl!AnswerShape
    <3>3. s8' = [s8 EXCEPT !.afterRecord = s8.afterCopy, !.afterCopy = FALSE]
      BY <1>13, Zenon DEF Bl!Stop
    <3> QED
      BY <3>1, <3>2, <3>3, Zenon
  <2>6. Bl!FlagsShape' /\ Bl!SentShape' /\ Bl!VerdictShape'
    BY <1>1, <2>1, Zenon DEF Bl!FlagsShape, Bl!SentShape, Bl!VerdictShape
  <2>7. Bl!CountsShape'
    BY <1>1, <2>1, Zenon DEF Bl!CountsShape
  <2>8. Bl!RecordShape'
    BY <1>1, <2>2, Zenon DEF Bl!RecordShape, Bl!CopyShape
  <2>9. Bl!CopyShape'
    BY <2>4, <2>3 DEF Bl!CopyShape
  <2>10. Bl!WalkShape'
    BY <2>4 DEF Bl!WalkShape
  <2>11. Bl!AnswerShape'
    BY <2>5, Zenon DEF Bl!AnswerShape
  <2>12. Bl!WalksAreInProgress'
    BY <2>4 DEF Bl!WalksAreInProgress
  <2>13. Bl!PromptIsSent'
    BY <2>4 DEF Bl!PromptIsSent
  <2>14. Bl!RecordWithinRetries'
    BY <1>1, <2>2, Zenon DEF Bl!RecordWithinRetries, Bl!CopyWithinRetries, Bl!WithinRetries,
       Bl!InProgress
  <2>15. Bl!CopyWithinRetries'
    BY <2>4, <2>3 DEF Bl!CopyWithinRetries, Bl!WithinRetries, Bl!InProgress
  <2>16. Bl!RecordIsJudged'
    BY <1>1, <2>2, <2>1, Zenon DEF Bl!RecordIsJudged, Bl!CopyIsJudged, Bl!Judged
  <2>17. Bl!CopyIsJudged'
    BY <1>1, <2>1, <2>4, <2>3 DEF Bl!CopyIsJudged, Bl!Judged, Bl!CountsShape
  <2>18. Bl!RecordWasAsked'
    BY <1>1, <2>2, <2>1, Zenon DEF Bl!RecordWasAsked, Bl!CopyWasAsked, Bl!WasAsked
  <2>19. Bl!CopyWasAsked'
    BY <2>4, <2>3 DEF Bl!CopyWasAsked, Bl!WasAsked
  <2>20. Bl!NothingRunsOnAnUnrecordedPass'
    BY <2>4 DEF Bl!NothingRunsOnAnUnrecordedPass
  <2>21. Bl!DefaultsAreRecorded'
    BY <1>1, <2>1 DEF Bl!DefaultsAreRecorded
  <2> QED
    BY <2>6, <2>7, <2>8, <2>9, <2>10, <2>11, <2>12, <2>13, <2>14, <2>15, <2>16, <2>17,
       <2>18, <2>19, <2>20, <2>21 DEF Bl!BlueprintsInv
<1>14. ASSUME Bl!Say
      PROVE  Bl!BlueprintsInv'
  <2>1. /\ s1' = s1 /\ s2' = s2 /\ s3' = s3 /\ s4' = s4 /\ s9' = s9 /\ s10' = s10
        /\ s11' = s11 /\ s12' = s12
    BY <1>14, Zenon DEF Bl!Say
  <2>2. Bl!NoRun \in Bl!RunRecords /\ Bl!NoRun.status = "none" /\ Bl!NoRun.failures["checks"] = 0
        /\ Bl!NoRun.judged = 0 /\ Bl!NoRun.node = "work" /\ Bl!NoRun.failures = [n \in Bl!Nodes |-> 0]
    <3>1. [retries |-> 0, onFailure |-> "work"] \in Bl!Parsed /\ [n \in Bl!Nodes |-> 0] \in [Bl!Nodes -> 0..2]
      BY DEF Bl!Parsed
    <3>2. "none" \in Bl!Statuses /\ "work" \in Bl!Nodes /\ "plain" \in Bl!Texts /\ "checks" \in Bl!Nodes
      BY DEF Bl!Statuses, Bl!Nodes, Bl!Texts
    <3>3. 0 \in 0..MaxVisits + 1 /\ 0 \in 0..MaxReds
      OBVIOUS
    <3>4. Bl!NoRun \in Bl!RunRecords
      BY <3>1, <3>2, <3>3, Zenon DEF Bl!NoRun, Bl!RunRecords
    <3> QED
      BY <3>2, <3>4 DEF Bl!NoRun
  <2>3. s6 = "asking"
    BY <1>14, Zenon DEF Bl!Say
  <2>4. s5 \in Bl!RunRecords /\ s5.visits < MaxVisits /\ (s5.status = "running" \/ s5.status = "waiting")
    BY <1>1, <2>3 DEF Bl!WalksAreInProgress, Bl!InProgress, Bl!CopyShape
  <2>5. \/ s5' = Bl!NoRun /\ s6' = "idle" /\ s7' = s7 /\ s8' = [s8 EXCEPT !.afterCopy = FALSE]
        \/ s5' = s5 /\ s6' = "asked" /\ s7' = s7 \cup {Bl!Prompt} /\ s8' = s8
    BY <1>14, Zenon DEF Bl!Say, Bl!Leave
  <2>6. Bl!Prompt \in [visits : 0..MaxVisits, text : Bl!Texts] /\ Bl!Prompt.visits = s5.visits
    <3>1. PICK t \in Bl!Texts : t = IF \E n \in Bl!Nodes : s5.failures[n] > 0 THEN s5.output ELSE "plain"
      BY <2>4 DEF Bl!RunRecords, Bl!Texts
    <3>2. Bl!Prompt = [visits |-> s5.visits, text |-> t]
      BY <3>1, Zenon DEF Bl!Prompt
    <3>3. s5.visits \in 0..MaxVisits
      BY <2>4 DEF Bl!RunRecords
    <3> QED
      BY <3>2, <3>3
  <2>7. \A p \in s7 : p \in s7'
    BY <2>5
  <2>8. Bl!FlagsShape' /\ Bl!RecordShape' /\ Bl!VerdictShape'
    BY <1>1, <2>1, Zenon DEF Bl!FlagsShape, Bl!RecordShape, Bl!VerdictShape
  <2>9. Bl!CountsShape' /\ Bl!RecordWithinRetries' /\ Bl!RecordIsJudged'
    BY <1>1, <2>1, Zenon DEF Bl!CountsShape, Bl!RecordWithinRetries, Bl!WithinRetries,
       Bl!InProgress, Bl!RecordIsJudged, Bl!Judged
  <2>10. Bl!CopyShape'
    BY <2>5, <2>4, <2>2 DEF Bl!CopyShape
  <2>11. Bl!WalkShape'
    BY <2>5 DEF Bl!WalkShape
  <2>12. Bl!SentShape'
    BY <1>1, <2>5, <2>6 DEF Bl!SentShape
  <2>13. Bl!AnswerShape'
    <3>1. \A b \in BOOLEAN : [s8 EXCEPT !.afterCopy = b]
             \in [outcome : {"none", "ready", "blocked"}, summary : Bl!Texts, afterRecord : BOOLEAN,
                  afterCopy : BOOLEAN]
      BY <1>1 DEF Bl!AnswerShape
    <3> QED
      BY <1>1, <2>5, <3>1, Zenon DEF Bl!AnswerShape
  <2>14. Bl!WalksAreInProgress'
    BY <2>5, <2>4 DEF Bl!WalksAreInProgress, Bl!InProgress
  <2>15. Bl!PromptIsSent'
    BY <2>5, <2>6 DEF Bl!PromptIsSent
  <2>16. Bl!CopyWithinRetries'
    BY <1>1, <2>5, <2>2 DEF Bl!CopyWithinRetries, Bl!WithinRetries, Bl!InProgress
  <2>17. Bl!CopyIsJudged'
    BY <1>1, <2>1, <2>5, <2>2 DEF Bl!CopyIsJudged, Bl!Judged, Bl!CountsShape
  <2>18. Bl!RecordWasAsked'
    BY <1>1, <2>1, <2>7, Zenon DEF Bl!RecordWasAsked, Bl!WasAsked
  <2>19. Bl!CopyWasAsked'
    BY <1>1, <2>7, <2>5, <2>2 DEF Bl!CopyWasAsked, Bl!WasAsked
  <2>20. Bl!NothingRunsOnAnUnrecordedPass'
    BY <2>5 DEF Bl!NothingRunsOnAnUnrecordedPass
  <2>21. Bl!DefaultsAreRecorded'
    BY <1>1, <2>1 DEF Bl!DefaultsAreRecorded
  <2> QED
    BY <2>8, <2>9, <2>10, <2>11, <2>12, <2>13, <2>14, <2>15, <2>16, <2>17, <2>18, <2>19,
       <2>20, <2>21 DEF Bl!BlueprintsInv
<1>15. ASSUME Bl!Asked
      PROVE  Bl!BlueprintsInv'
  <2>1. /\ s1' = s1 /\ s2' = s2 /\ s3' = s3 /\ s4' = s4 /\ s7' = s7 /\ s8' = s8
        /\ s9' = s9 /\ s10' = s10 /\ s11' = s11 /\ s12' = s12
    BY <1>15, Zenon DEF Bl!Asked
  <2>2. s6 = "asked"
    BY <1>15, Zenon DEF Bl!Asked
  <2>3. s5.status \in {"running", "waiting"}
    BY <1>1, <2>2 DEF Bl!WalksAreInProgress, Bl!InProgress
  <2>4. s5' = [s5 EXCEPT !.status = "waiting"] /\ s6' = "stopping"
    BY <1>15, Zenon DEF Bl!Asked
  <2>5. /\ s5' \in Bl!RunRecords /\ s5'.status = "waiting" /\ s5'.failures = s5.failures
        /\ s5'.plan = s5.plan /\ s5'.judged = s5.judged /\ s5'.visits = s5.visits /\ s5'.node = s5.node
        /\ s6' = "stopping"
    BY <1>1, <2>4 DEF Bl!CopyShape, Bl!RunRecords, Bl!Statuses
  <2>6. Bl!FlagsShape' /\ Bl!RecordShape' /\ Bl!SentShape'
    BY <1>1, <2>1, Zenon DEF Bl!FlagsShape, Bl!RecordShape, Bl!SentShape
  <2>7. Bl!AnswerShape' /\ Bl!VerdictShape' /\ Bl!CountsShape'
    BY <1>1, <2>1, Zenon DEF Bl!AnswerShape, Bl!VerdictShape, Bl!CountsShape
  <2>8. Bl!RecordWithinRetries' /\ Bl!RecordIsJudged' /\ Bl!RecordWasAsked'
    BY <1>1, <2>1, Zenon DEF Bl!RecordWithinRetries, Bl!WithinRetries, Bl!InProgress,
       Bl!RecordIsJudged, Bl!Judged, Bl!RecordWasAsked, Bl!WasAsked
  <2>9. Bl!CopyShape'
    BY <2>5 DEF Bl!CopyShape
  <2>10. Bl!WalkShape'
    BY <2>5 DEF Bl!WalkShape
  <2>11. Bl!WalksAreInProgress'
    BY <2>5 DEF Bl!WalksAreInProgress
  <2>12. Bl!PromptIsSent'
    BY <2>5 DEF Bl!PromptIsSent
  <2>13. Bl!CopyWithinRetries'
    BY <1>1, <2>3, <2>5 DEF Bl!CopyWithinRetries, Bl!WithinRetries, Bl!InProgress
  <2>14. Bl!CopyIsJudged'
    BY <1>1, <2>1, <2>5 DEF Bl!CopyIsJudged, Bl!Judged
  <2>15. Bl!CopyWasAsked'
    BY <1>1, <2>1, <2>2, <2>5 DEF Bl!CopyWasAsked, Bl!WasAsked, Bl!PromptIsSent
  <2>16. Bl!NothingRunsOnAnUnrecordedPass'
    BY <2>5 DEF Bl!NothingRunsOnAnUnrecordedPass
  <2>17. Bl!DefaultsAreRecorded'
    BY <1>1, <2>1 DEF Bl!DefaultsAreRecorded
  <2> QED
    BY <2>6, <2>7, <2>8, <2>9, <2>10, <2>11, <2>12, <2>13, <2>14, <2>15, <2>16, <2>17 DEF
       Bl!BlueprintsInv
<1>16. ASSUME Bl!Execute
      PROVE  Bl!BlueprintsInv'
  <2>1. /\ s1' = s1 /\ s2' = s2 /\ s3' = s3 /\ s7' = s7 /\ s9' = s9 /\ s10' = s10
        /\ s11' = s11 /\ s12' = s12
    BY <1>16, Zenon DEF Bl!Execute
  <2>2. s6 = "loop" /\ s5.visits < MaxVisits /\ s5.node = "test"
    BY <1>16, Zenon DEF Bl!Execute, Bl!Walking
  <2>3. "x" \in Bl!Texts /\ "y" \in Bl!Texts /\ s5.judged \in 0..MaxReds
    BY <1>1 DEF Bl!Texts, Bl!CopyShape, Bl!RunRecords
  <2>4. \/ Bl!Passes("x")
        \/ \E o \in Bl!Texts : Bl!Fails(o, s5.judged)
    BY <1>16, <2>3, Zenon DEF Bl!Execute
  <2>5. CASE Bl!Passes("x")
    BY <2>1, <2>2, <2>3, <2>5, WalkGoesOn
  <2>6. ASSUME NEW o \in Bl!Texts, Bl!Fails(o, s5.judged) PROVE Bl!BlueprintsInv'
    BY <2>1, <2>2, <2>3, <2>6, WalkGoesBack
  <2> QED
    BY <2>4, <2>5, <2>6, Zenon
<1>17. ASSUME Bl!WaitChecks
      PROVE  Bl!BlueprintsInv'
  <2>1. /\ s1' = s1 /\ s2' = s2 /\ s3' = s3 /\ s7' = s7 /\ s9' = s9 /\ s10' = s10
        /\ s11' = s11 /\ s12' = s12
    BY <1>17, Zenon DEF Bl!WaitChecks
  <2>2. s6 = "loop" /\ s5.visits < MaxVisits /\ s5.node = "checks"
    BY <1>17, Zenon DEF Bl!WaitChecks, Bl!Walking
  <2>3. "x" \in Bl!Texts /\ "y" \in Bl!Texts /\ s10 \in 0..MaxReds
    BY <1>1 DEF Bl!Texts, Bl!CountsShape
  <2>4. \/ Bl!Passes("x")
        \/ s5' = [s5 EXCEPT !.status = "blocked"] /\ s6' = "stopping" /\ s4' = s4 /\ s8' = s8
        \/ s5.judged # s10 /\ Bl!Fails("y", s10)
        \/ s5' = [s5 EXCEPT !.status = "blocked", !.judged = s10] /\ s6' = "stopping" /\ s4' = s4 /\ s8' = s8
        \/ s5' = [s5 EXCEPT !.status = "waiting"] /\ s6' = "stopping" /\ s4' = s4 /\ s8' = s8
    BY <1>17, Zenon DEF Bl!WaitChecks, Bl!Keep, Bl!JudgedBefore
  <2>5. CASE Bl!Passes("x")
    BY <2>1, <2>2, <2>3, <2>5, WalkGoesOn
  <2>6. CASE s5.judged # s10 /\ Bl!Fails("y", s10)
    BY <2>1, <2>2, <2>3, <2>6, WalkGoesBack
  <2>7. s5 \in Bl!RunRecords /\ s5.status \in {"running", "waiting"}
    BY <1>1, <2>2 DEF Bl!WalksAreInProgress, Bl!InProgress, Bl!CopyShape
  <2>8. CASE s5' = [s5 EXCEPT !.status = "blocked"] /\ s6' = "stopping" /\ s4' = s4 /\ s8' = s8
    <3>1. /\ s5' \in Bl!RunRecords /\ s5'.status = "blocked" /\ s5'.failures = s5.failures
          /\ s5'.plan = s5.plan /\ s5'.judged = s5.judged
      BY <2>7, <2>8 DEF Bl!RunRecords, Bl!Statuses
    <3> QED
      BY <2>1, <2>2, <2>8, <3>1, WalkIsOver
  <2>9. CASE s5' = [s5 EXCEPT !.status = "blocked", !.judged = s10] /\ s6' = "stopping" /\ s4' = s4 /\ s8' = s8
    <3>1. /\ s5' \in Bl!RunRecords /\ s5'.status = "blocked" /\ s5'.failures = s5.failures
          /\ s5'.plan = s5.plan /\ s5'.judged = s10
      BY <2>7, <2>3, <2>9 DEF Bl!RunRecords, Bl!Statuses
    <3> QED
      BY <2>1, <2>2, <2>9, <3>1, WalkIsOver
  <2>10. CASE s5' = [s5 EXCEPT !.status = "waiting"] /\ s6' = "stopping" /\ s4' = s4 /\ s8' = s8
    <3>1. /\ s5' \in Bl!RunRecords /\ s5'.status = "waiting" /\ s5'.failures = s5.failures
          /\ s5'.plan = s5.plan /\ s5'.judged = s5.judged /\ s5'.node = "checks"
      BY <2>7, <2>2, <2>10 DEF Bl!RunRecords, Bl!Statuses
    <3> QED
      BY <2>1, <2>2, <2>10, <3>1, WalkIsOver
  <2> QED
    BY <2>4, <2>5, <2>6, <2>8, <2>9, <2>10
<1> QED
  BY <1>2, <1>3, <1>4, <1>5, <1>6, <1>7, <1>8, <1>9, <1>10, <1>11, <1>12, <1>13, <1>14, <1>15,
     <1>16, <1>17, Zenon DEF Bl!BlueprintsNext, Bl!Walk

(* No run was started, and nothing was asked.                                *)
LEMMA BlueprintsInitially == Bl!BlueprintsInit => Bl!BlueprintsInv
<1> SUFFICES ASSUME Bl!BlueprintsInit PROVE Bl!BlueprintsInv
  OBVIOUS
<1> USE IntegrationAssumption
<1>1. /\ s1 = FALSE /\ s2 = FALSE /\ s3 = TRUE /\ s4 = Bl!NoRun /\ s5 = Bl!NoRun /\ s6 = "idle"
      /\ s7 = {} /\ s9 = "pending" /\ s10 = 0 /\ s11 = 0 /\ s12 = 0
      /\ s8 = [outcome |-> "none", summary |-> "plain", afterRecord |-> FALSE, afterCopy |-> FALSE]
  BY Zenon DEF Bl!BlueprintsInit
<1>2. /\ Bl!NoRun \in Bl!RunRecords /\ Bl!NoRun.status = "none" /\ Bl!NoRun.failures["checks"] = 0
      /\ Bl!NoRun.judged = 0
  <2>1. [retries |-> 0, onFailure |-> "work"] \in Bl!Parsed /\ [n \in Bl!Nodes |-> 0] \in [Bl!Nodes -> 0..2]
    BY DEF Bl!Parsed
  <2>2. "none" \in Bl!Statuses /\ "work" \in Bl!Nodes /\ "plain" \in Bl!Texts /\ "checks" \in Bl!Nodes
    BY DEF Bl!Statuses, Bl!Nodes, Bl!Texts
  <2>3. 0 \in 0..MaxVisits + 1 /\ 0 \in 0..MaxReds
    OBVIOUS
  <2>4. Bl!NoRun \in Bl!RunRecords
    BY <2>1, <2>2, <2>3, Zenon DEF Bl!NoRun, Bl!RunRecords
  <2> QED
    BY <2>2, <2>4 DEF Bl!NoRun
<1>3. Bl!FlagsShape /\ Bl!RecordShape /\ Bl!CopyShape /\ Bl!DefaultsAreRecorded
  BY <1>1, <1>2, Zenon DEF Bl!FlagsShape, Bl!RecordShape, Bl!CopyShape, Bl!DefaultsAreRecorded
<1>4. Bl!WalkShape /\ Bl!SentShape /\ Bl!AnswerShape /\ Bl!VerdictShape /\ Bl!CountsShape
  BY <1>1 DEF Bl!WalkShape, Bl!SentShape, Bl!AnswerShape, Bl!VerdictShape, Bl!CountsShape, Bl!Texts
<1>5. Bl!WalksAreInProgress /\ Bl!PromptIsSent /\ Bl!NothingRunsOnAnUnrecordedPass
  BY <1>1 DEF Bl!WalksAreInProgress, Bl!PromptIsSent, Bl!NothingRunsOnAnUnrecordedPass
<1>6. /\ Bl!RecordWithinRetries /\ Bl!CopyWithinRetries /\ Bl!RecordWasAsked /\ Bl!CopyWasAsked
  BY <1>1, <1>2 DEF Bl!RecordWithinRetries, Bl!CopyWithinRetries, Bl!WithinRetries, Bl!InProgress,
     Bl!RecordWasAsked, Bl!CopyWasAsked, Bl!WasAsked
<1>7. Bl!RecordIsJudged /\ Bl!CopyIsJudged
  BY <1>1, <1>2 DEF Bl!RecordIsJudged, Bl!CopyIsJudged, Bl!Judged
<1> QED
  BY <1>3, <1>4, <1>5, <1>6, <1>7 DEF Bl!BlueprintsInv

(* A run was failed for its checks once for each red verdict at most.         *)
LEMMA BlueprintsSaySo ==
  ASSUME Bl!BlueprintsInv
  PROVE  /\ Bl!BlueprintsTypeOK /\ Bl!NothingRunsOnAnUnrecordedPass /\ Bl!AFailureForEachVerdict
         /\ Bl!WaitingRunsWereAsked /\ Bl!DefaultsAreRecorded
<1>1. Bl!BlueprintsTypeOK
  BY Zenon DEF Bl!BlueprintsInv, Bl!BlueprintsTypeOK, Bl!FlagsShape, Bl!RecordShape, Bl!CopyShape,
     Bl!WalkShape, Bl!SentShape, Bl!AnswerShape, Bl!VerdictShape, Bl!CountsShape
<1>2. Bl!NothingRunsOnAnUnrecordedPass /\ Bl!DefaultsAreRecorded
  BY Zenon DEF Bl!BlueprintsInv
<1>3. Bl!WaitingRunsWereAsked
  BY Zenon DEF Bl!BlueprintsInv, Bl!WaitingRunsWereAsked, Bl!RecordWasAsked, Bl!WasAsked
<1>4. Bl!AFailureForEachVerdict
  <2>1. Bl!RecordIsJudged /\ Bl!CopyIsJudged /\ Bl!RecordShape /\ Bl!CopyShape /\ Bl!CountsShape
    BY Zenon DEF Bl!BlueprintsInv
  <2>2. /\ s4.failures["checks"] \in Nat /\ s4.judged \in Nat /\ s5.failures["checks"] \in Nat
        /\ s5.judged \in Nat /\ s10 \in Nat
    <3>1. "checks" \in Bl!Nodes
      BY DEF Bl!Nodes
    <3> QED
      BY <2>1, <3>1 DEF Bl!RecordShape, Bl!CopyShape, Bl!CountsShape, Bl!RunRecords
  <2> QED
    BY <2>1, <2>2 DEF Bl!RecordIsJudged, Bl!CopyIsJudged, Bl!Judged, Bl!AFailureForEachVerdict
<1> QED
  BY <1>1, <1>2, <1>3, <1>4

(* Where nothing happens nothing changes.                                    *)
LEMMA BlueprintsStay ==
  ASSUME Bl!BlueprintsInv, UNCHANGED Bl!blueprintVars
  PROVE  Bl!BlueprintsInv'
<1>1. /\ Bl!FlagsShape
      /\ Bl!RecordShape
      /\ Bl!CopyShape
      /\ Bl!WalkShape
      /\ Bl!SentShape
      /\ Bl!AnswerShape
      /\ Bl!VerdictShape
      /\ Bl!CountsShape
      /\ Bl!WalksAreInProgress
      /\ Bl!PromptIsSent
      /\ Bl!RecordWithinRetries
      /\ Bl!CopyWithinRetries
      /\ Bl!RecordIsJudged
      /\ Bl!CopyIsJudged
      /\ Bl!RecordWasAsked
      /\ Bl!CopyWasAsked
      /\ Bl!NothingRunsOnAnUnrecordedPass
      /\ Bl!DefaultsAreRecorded
  BY DEF Bl!BlueprintsInv
<1>2. /\ s1' = s1 /\ s2' = s2 /\ s3' = s3 /\ s4' = s4 /\ s5' = s5 /\ s6' = s6
      /\ s7' = s7 /\ s8' = s8 /\ s9' = s9 /\ s10' = s10 /\ s11' = s11 /\ s12' = s12
  BY DEF Bl!blueprintVars
<1>3. Bl!FlagsShape' /\ Bl!RecordShape' /\ Bl!CopyShape'
  BY <1>1, <1>2, Zenon DEF Bl!FlagsShape, Bl!RecordShape, Bl!CopyShape
<1>4. Bl!WalkShape' /\ Bl!SentShape' /\ Bl!AnswerShape'
  BY <1>1, <1>2, Zenon DEF Bl!WalkShape, Bl!SentShape, Bl!AnswerShape
<1>5. Bl!VerdictShape' /\ Bl!CountsShape' /\ Bl!WalksAreInProgress'
  BY <1>1, <1>2, Zenon DEF Bl!VerdictShape, Bl!CountsShape, Bl!WalksAreInProgress, Bl!InProgress
<1>6. Bl!PromptIsSent' /\ Bl!RecordWithinRetries' /\ Bl!CopyWithinRetries'
  BY <1>1, <1>2, Zenon DEF Bl!PromptIsSent, Bl!RecordWithinRetries, Bl!WithinRetries,
     Bl!InProgress, Bl!CopyWithinRetries
<1>7. Bl!RecordIsJudged' /\ Bl!CopyIsJudged' /\ Bl!RecordWasAsked'
  BY <1>1, <1>2, Zenon DEF Bl!RecordIsJudged, Bl!Judged, Bl!CopyIsJudged, Bl!RecordWasAsked,
     Bl!WasAsked
<1>8. Bl!CopyWasAsked' /\ Bl!NothingRunsOnAnUnrecordedPass' /\ Bl!DefaultsAreRecorded'
  BY <1>1, <1>2, Zenon DEF Bl!CopyWasAsked, Bl!WasAsked, Bl!NothingRunsOnAnUnrecordedPass,
     Bl!PassCount, Bl!FailureCount, Bl!DefaultsAreRecorded
<1> QED
  BY <1>3, <1>4, <1>5, <1>6, <1>7, <1>8 DEF Bl!BlueprintsInv
=============================================================================
