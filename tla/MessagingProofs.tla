--------------------------- MODULE MessagingProofs --------------------------
(***************************************************************************)
(* The components of the sum MCMessaging. First those that carry mail:     *)
(* scheduled messages, updates of the operator, notices in batches,        *)
(* digests of decisions, and messages with their acknowledgements; then    *)
(* the slots of the service and its threads, readings of git and of the    *)
(* forge, and the marks of assignments; last the theorems about the sum.   *)
(*                                                                         *)
(* Each lemma about a step is stated for the component alone, by its       *)
(* instance in the sum: its invariant, stated in the component's module,   *)
(* holds at first, every step of the component keeps it, and the action    *)
(* properties follow from it. A behaviour of the sum is one component's,   *)
(* so its invariant is the conjunction over the components, each under the *)
(* component's name.                                                       *)
(***************************************************************************)
EXTENDS MCMessaging, IterationProofs

-----------------------------------------------------------------------------
(* Scheduled messages and offers.                                          *)

(* Every row starts with all its occurrences ahead of it. *)
LEMMA SchedulesInitially == Sc!Init => Sc!SchedulesInv
<1> SUFFICES ASSUME Sc!Init PROVE Sc!SchedulesInv
  OBVIOUS
<1> USE MessagingAssumption DEF Sc!Item
<1>1. ASSUME NEW i \in Sc!Item
      PROVE  s1[i] \in Sc!Row /\ s1[i].seq = 0 /\ s1[i].st = "waiting"
  BY DEF Sc!Init, Sc!Row
<1>2. \A i \in MessageItem : s1[i].left = Repeats
  BY DEF Sc!Init
<1>3. \A i \in OfferItem : s1[i].left = 1
  BY DEF Sc!Init
<1>4. Sc!TypeOK
  <2>1. s1 \in [Sc!Item -> Sc!Row]
    <3>1. s1 = [i \in Sc!Item |-> s1[i]]
      BY DEF Sc!Init
    <3> QED
      BY <1>1, <3>1
  <2> QED
    BY <2>1 DEF Sc!Init, Sc!TypeOK
<1>5. Sc!OccurrencesAreSentOnce
  BY <1>1 DEF Sc!Init, Sc!OccurrencesAreSentOnce
<1>6. Sc!OnlyMadeOffersComplete
  BY <1>1 DEF Sc!OnlyMadeOffersComplete
<1>7. \A i \in OfferItem : s3[i] # Sc!Offered
  BY DEF Sc!Init, Sc!Offered, Sc!NotSeen
<1> QED
  BY <1>1, <1>2, <1>3, <1>4, <1>5, <1>6, <1>7 DEF Sc!SchedulesInv, Sc!Init

(* What one record becomes in a step: itself, due, reported, cancelled, or *)
(* advanced.                                                               *)
LEMMA RowChanges ==
  ASSUME NEW r \in Sc!Row
  PROVE  /\ [r EXCEPT !.due = TRUE] \in Sc!Row
         /\ [r EXCEPT !.unless = TRUE] \in Sc!Row
         /\ [r EXCEPT !.st = "cancelled"] \in Sc!Row
         /\ [r EXCEPT !.st = "delivered"] \in Sc!Row
         /\ r.left > 1 /\ r.seq < Repeats
               => [r EXCEPT !.seq = r.seq + 1, !.left = r.left - 1, !.due = FALSE] \in Sc!Row
<1>1. r.left > 1 /\ r.seq < Repeats => r.seq + 1 \in 0..Repeats /\ r.left - 1 \in 1..Repeats
  BY MessagingAssumption DEF Sc!Row
<1>2. ASSUME NEW q \in 0..Repeats, NEW k \in 1..Repeats
      PROVE  [r EXCEPT !.seq = q, !.left = k, !.due = FALSE] \in Sc!Row
  BY DEF Sc!Row
<1>3. r.left > 1 /\ r.seq < Repeats
         => [r EXCEPT !.seq = r.seq + 1, !.left = r.left - 1, !.due = FALSE] \in Sc!Row
  BY <1>1, <1>2
<1> QED
  BY <1>3 DEF Sc!Row

(* A step that changes at most one record and what was sent of it.         *)
LEMMA RowStep ==
  ASSUME Sc!SchedulesInv, NEW i \in Sc!Item, NEW r \in Sc!Row,
         s1' = [s1 EXCEPT ![i] = r],
         NEW n \in 0..Repeats, s2' = [s2 EXCEPT ![i] = n],
         i \in MessageItem => /\ n = r.seq + (IF r.st = "delivered" THEN 1 ELSE 0)
                              /\ r.seq + r.left = Repeats,
         i \in OfferItem => r.left = 1 /\ (r.st = "delivered" => s7 # {}),
         s7' = s7
  PROVE  /\ s1' \in [Sc!Item -> Sc!Row] /\ s2' \in [Sc!Item -> 0..Repeats]
         /\ Sc!OccurrencesAreSentOnce' /\ Sc!OnlyMadeOffersComplete'
         /\ \A j \in MessageItem : s1'[j].seq + s1'[j].left = Repeats
         /\ \A j \in OfferItem : s1'[j].left = 1
<1> USE MessagingAssumption DEF Sc!Item
<1>1. s1 \in [Sc!Item -> Sc!Row] /\ s2 \in [Sc!Item -> 0..Repeats]
  BY DEF Sc!SchedulesInv, Sc!TypeOK
<1>2. s1' \in [Sc!Item -> Sc!Row] /\ s2' \in [Sc!Item -> 0..Repeats]
  BY <1>1
<1>3. s1'[i] = r /\ s2'[i] = n
  BY <1>1
<1>4. \A j \in Sc!Item : j # i => s1'[j] = s1[j] /\ s2'[j] = s2[j]
  BY <1>1
<1>5. Sc!OccurrencesAreSentOnce'
  BY <1>3, <1>4 DEF Sc!SchedulesInv, Sc!OccurrencesAreSentOnce
<1>6. Sc!OnlyMadeOffersComplete'
  BY <1>3, <1>4 DEF Sc!SchedulesInv, Sc!OnlyMadeOffersComplete
<1>7. \A j \in MessageItem : s1'[j].seq + s1'[j].left = Repeats
  BY <1>3, <1>4 DEF Sc!SchedulesInv
<1>8. \A j \in OfferItem : s1'[j].left = 1
  BY <1>3, <1>4 DEF Sc!SchedulesInv
<1> QED
  BY <1>2, <1>5, <1>6, <1>7, <1>8

(* Readers, deliveries, cancellations and restarts keep the rows and what was
   sent of them together. *)
LEMMA SchedulesStep ==
  Sc!SchedulesInv /\ [Sc!Next]_(Sc!scheduleVars) => Sc!SchedulesInv'
<1> SUFFICES ASSUME Sc!SchedulesInv, [Sc!Next]_(Sc!scheduleVars)
             PROVE  Sc!SchedulesInv'
  OBVIOUS
<1> USE MessagingAssumption
<1>1. /\ s1 \in [Sc!Item -> Sc!Row] /\ s2 \in [Sc!Item -> 0..Repeats]
      /\ s7 \subseteq OfferItem /\ s6 \in {"held", "offered", "taken"}
  BY DEF Sc!SchedulesInv, Sc!TypeOK
<1>2. /\ \A i \in MessageItem : /\ s1[i].seq + s1[i].left = Repeats
                                /\ s2[i] = s1[i].seq + (IF s1[i].st = "delivered" THEN 1 ELSE 0)
      /\ \A i \in OfferItem : s1[i].left = 1 /\ (s1[i].st = "delivered" => s7 # {})
      /\ \A i \in OfferItem : s3[i] = Sc!Offered => s7 # {}
      /\ s6 = "offered" => s7 # {}
      /\ DOMAIN s3 = Sc!Item
  BY DEF Sc!SchedulesInv, Sc!OccurrencesAreSentOnce, Sc!OnlyMadeOffersComplete
<1>3. Sc!NotSeen # Sc!Offered
  BY DEF Sc!NotSeen, Sc!Offered
<1> DEFINE Rest == /\ s7' \subseteq OfferItem /\ s6' \in {"held", "offered", "taken"}
                   /\ DOMAIN s3' = Sc!Item
                   /\ \A i \in OfferItem : s3'[i] = Sc!Offered => s7' # {}
                   /\ s6' = "offered" => s7' # {}
(* Where no record changes. *)
<1>4. ASSUME UNCHANGED <<s1, s2>>, Rest, s7 \subseteq s7'
      PROVE  Sc!SchedulesInv'
  BY <1>1, <1>2, <1>4
     DEF Sc!SchedulesInv, Sc!TypeOK, Sc!OccurrencesAreSentOnce, Sc!OnlyMadeOffersComplete
(* Where one does, as in RowStep. *)
<1>5. ASSUME NEW i \in Sc!Item, NEW r \in Sc!Row, s1' = [s1 EXCEPT ![i] = r],
             NEW n \in 0..Repeats, s2' = [s2 EXCEPT ![i] = n],
             i \in MessageItem => /\ n = r.seq + (IF r.st = "delivered" THEN 1 ELSE 0)
                                  /\ r.seq + r.left = Repeats,
             i \in OfferItem => r.left = 1 /\ (r.st = "delivered" => s7 # {}),
             s7' = s7, Rest
      PROVE  Sc!SchedulesInv'
  <2>1. /\ s1' \in [Sc!Item -> Sc!Row] /\ s2' \in [Sc!Item -> 0..Repeats]
        /\ Sc!OccurrencesAreSentOnce' /\ Sc!OnlyMadeOffersComplete'
        /\ \A j \in MessageItem : s1'[j].seq + s1'[j].left = Repeats
        /\ \A j \in OfferItem : s1'[j].left = 1
    BY <1>5, RowStep
  <2> QED
    BY <1>5, <2>1 DEF Sc!SchedulesInv, Sc!TypeOK
<1>6. CASE Sc!ReadItems
  <2>1. \A i \in OfferItem : s3'[i] # Sc!Offered
    <3> SUFFICES ASSUME NEW i \in OfferItem PROVE s3'[i] # Sc!Offered
      OBVIOUS
    <3>1. s3'[i] = s1[i] \/ s3'[i] = Sc!NotSeen
      BY <1>6 DEF Sc!ReadItems, Sc!Item
    <3>2. s1[i].seq >= 0
      BY <1>1 DEF Sc!Item, Sc!Row
    <3> QED
      BY <1>3, <3>1, <3>2 DEF Sc!Offered
  <2>2. Rest
    BY <1>1, <1>2, <1>6, <2>1 DEF Sc!ReadItems
  <2> QED
    BY <1>4, <1>6, <2>2 DEF Sc!ReadItems
<1>7. CASE Sc!World
  BY <1>1, <1>2, <1>4, <1>7 DEF Sc!World
<1>8. CASE Sc!Halt
  BY <1>1, <1>2, <1>3, <1>4, <1>8 DEF Sc!Halt, Sc!Item
<1>9. ASSUME NEW i \in Sc!Item, Sc!Settled(i), s7' = s7, s6' = s6
      PROVE  Rest
  BY <1>1, <1>2, <1>3, <1>9 DEF Sc!Settled, Sc!Item
(* A record that only ceases to wait, or comes due or is reported. *)
<1>10. ASSUME NEW i \in Sc!Item
       PROVE  /\ s1 = [s1 EXCEPT ![i] = s1[i]] /\ s2 = [s2 EXCEPT ![i] = s2[i]]
              /\ s1[i] \in Sc!Row /\ s2[i] \in 0..Repeats
  BY <1>1
<1>11. ASSUME NEW i \in Sc!Item, Sc!Waiting(i), s1' = [s1 EXCEPT ![i].st = "cancelled"],
              s2' = s2, s7' = s7, Rest
       PROVE  Sc!SchedulesInv'
  <2> DEFINE r == [s1[i] EXCEPT !.st = "cancelled"]
  <2>1. r \in Sc!Row
    BY <1>10, RowChanges
  <2>2. r.st = "cancelled" /\ r.seq = s1[i].seq /\ r.left = s1[i].left
    BY <1>10 DEF Sc!Row
  <2>3. s1' = [s1 EXCEPT ![i] = r] /\ s2' = [s2 EXCEPT ![i] = s2[i]]
    BY <1>10, <1>11
  <2>4. i \in MessageItem => s2[i] = s1[i].seq /\ s1[i].seq + s1[i].left = Repeats
    BY <1>2, <1>10, <1>11 DEF Sc!Waiting, Sc!Row
  <2>5. i \in OfferItem => s1[i].left = 1
    BY <1>2
  <2>6. i \in MessageItem => /\ s2[i] = r.seq + (IF r.st = "delivered" THEN 1 ELSE 0)
                             /\ r.seq + r.left = Repeats
    BY <1>10, <2>2, <2>4
  <2> HIDE DEF r, Rest
  <2> QED
    BY <1>5, <1>10, <1>11, <2>1, <2>2, <2>3, <2>5, <2>6
<1>12. ASSUME NEW i \in Sc!Item, Sc!CancelReported(i)
       PROVE  Sc!SchedulesInv'
  <2>1. Rest
    BY <1>9, <1>12 DEF Sc!CancelReported
  <2>2. CASE Sc!Waiting(i) /\ s1[i].seq = s3[i].seq
    <3>1. s1' = [s1 EXCEPT ![i].st = "cancelled"]
      BY <1>12, <2>2 DEF Sc!CancelReported, Sc!Waiting
    <3> QED
      BY <1>11, <1>12, <2>1, <2>2, <3>1 DEF Sc!CancelReported
  <2>3. CASE ~(Sc!Waiting(i) /\ s1[i].seq = s3[i].seq)
    <3>1. s1' = [s1 EXCEPT ![i].st = @]
      BY <1>12, <2>3 DEF Sc!CancelReported, Sc!Waiting
    <3>2. s1' = s1
      BY <1>1, <3>1 DEF Sc!Row
    <3> QED
      BY <1>4, <1>12, <2>1, <3>2 DEF Sc!CancelReported
  <2> QED
    BY <2>2, <2>3
(* The next occurrence, or the last one delivered, counted as n.           *)
<1>13. ASSUME NEW i \in Sc!Item, Sc!Waiting(i), Sc!Advance(i), NEW n,
              i \in MessageItem => n = s2[i] + 1,
              i \in OfferItem => n = s2[i] /\ s7 # {},
              s2' = [s2 EXCEPT ![i] = n], s7' = s7, Rest
       PROVE  Sc!SchedulesInv'
  <2> DEFINE r == Sc!Advanced(s1[i])
  <2>1. s1' = [s1 EXCEPT ![i] = r]
    BY <1>13 DEF Sc!Advance
  <2>2. s1[i].seq \in 0..Repeats /\ s1[i].left \in 1..Repeats /\ s1[i].st = "waiting"
    BY <1>10, <1>13 DEF Sc!Row, Sc!Waiting
  <2>3. i \in MessageItem => s2[i] = s1[i].seq /\ s1[i].seq + s1[i].left = Repeats
    BY <1>2, <2>2
  <2>4. i \in OfferItem => s1[i].left = 1
    BY <1>2
  <2>5. i \in MessageItem \/ i \in OfferItem
    BY DEF Sc!Item
  <2>6. s1[i].left > 1 => s1[i].seq < Repeats
    BY <2>2, <2>3, <2>4, <2>5
  <2>7. r \in Sc!Row
    BY <1>10, <2>6, RowChanges DEF Sc!Advanced
  <2>8. s1[i].left > 1 => r.seq = s1[i].seq + 1 /\ r.left = s1[i].left - 1 /\ r.st = "waiting"
    BY <1>10, <2>2 DEF Sc!Row, Sc!Advanced
  <2>9. ~(s1[i].left > 1) => r.seq = s1[i].seq /\ r.left = s1[i].left /\ r.st = "delivered"
    BY <1>10, <2>2 DEF Sc!Row, Sc!Advanced
  <2> HIDE DEF r, Rest
  <2>10. n \in 0..Repeats
    BY <1>10, <1>13, <2>2, <2>3, <2>4, <2>5
  <2>11. i \in MessageItem => /\ n = r.seq + (IF r.st = "delivered" THEN 1 ELSE 0)
                              /\ r.seq + r.left = Repeats
    BY <1>13, <2>2, <2>3, <2>8, <2>9
  <2>12. i \in OfferItem => r.left = 1 /\ (r.st = "delivered" => s7 # {})
    BY <1>13, <2>4, <2>8, <2>9
  <2> QED
    BY <1>5, <1>13, <2>1, <2>7, <2>10, <2>11, <2>12
<1>14. ASSUME NEW i \in Sc!Item, Sc!Deliver(i)
       PROVE  Sc!SchedulesInv'
  <2>1. Rest
    BY <1>9, <1>14 DEF Sc!Deliver
  <2>2. CASE ~Sc!Waiting(i) \/ s1[i].seq # s3[i].seq
    BY <1>4, <1>14, <2>1, <2>2 DEF Sc!Deliver
  <2>3. CASE ~(~Sc!Waiting(i) \/ s1[i].seq # s3[i].seq) /\ s5
    <3>1. s2[i] = s1[i].seq
      BY <1>2, <1>10, <1>14, <2>3 DEF Sc!Deliver, Sc!Waiting, Sc!Row
    <3>2. s1[i].seq >= s2[i]
      BY <1>10, <3>1
    <3>3. s2' = [s2 EXCEPT ![i] = s2[i] + 1]
      BY <1>14, <2>3, <3>2 DEF Sc!Deliver
    <3>4. i \in MessageItem /\ i \notin OfferItem
      BY <1>14 DEF Sc!Deliver
    <3>5. Sc!Advance(i) /\ s7' = s7 /\ Sc!Waiting(i)
      BY <1>14, <2>3 DEF Sc!Deliver
    <3> HIDE DEF Rest
    <3> QED
      BY <1>13, <2>1, <3>3, <3>4, <3>5
  <2>4. CASE ~(~Sc!Waiting(i) \/ s1[i].seq # s3[i].seq) /\ ~s5
    <3>1. s1' = [s1 EXCEPT ![i].st = "cancelled"] /\ UNCHANGED <<s2, s7>>
      BY <1>14, <2>4 DEF Sc!Deliver
    <3> HIDE DEF Rest
    <3> QED
      BY <1>11, <2>1, <2>4, <3>1
  <2> QED
    BY <2>2, <2>3, <2>4
<1>15. ASSUME NEW i \in Sc!Item, Sc!Offer(i)
       PROVE  Sc!SchedulesInv'
  BY <1>1, <1>2, <1>4, <1>15 DEF Sc!Offer
<1>16. ASSUME NEW i \in Sc!Item, Sc!OfferRefused(i)
       PROVE  Sc!SchedulesInv'
  BY <1>1, <1>2, <1>3, <1>4, <1>16 DEF Sc!OfferRefused
<1>17. ASSUME NEW i \in Sc!Item, Sc!Complete(i)
       PROVE  Sc!SchedulesInv'
  <2>1. Rest
    BY <1>9, <1>17 DEF Sc!Complete
  <2>2. CASE Sc!Waiting(i)
    <3>1. i \in OfferItem /\ i \notin MessageItem /\ s7 # {} /\ UNCHANGED <<s2, s7>>
          /\ Sc!Advance(i)
      BY <1>2, <1>17, <2>2 DEF Sc!Complete
    <3>2. s2' = [s2 EXCEPT ![i] = s2[i]]
      BY <1>10, <3>1
    <3> HIDE DEF Rest
    <3> QED
      BY <1>13, <2>1, <2>2, <3>1, <3>2
  <2>3. CASE ~Sc!Waiting(i)
    BY <1>4, <1>17, <2>1, <2>3 DEF Sc!Complete
  <2> QED
    BY <2>2, <2>3
<1>18. ASSUME NEW i \in Sc!Item, Sc!Cancel(i)
       PROVE  Sc!SchedulesInv'
  <2>1. Rest
    BY <1>1, <1>2, <1>18 DEF Sc!Cancel
  <2> HIDE DEF Rest
  <2> QED
    BY <1>11, <1>18, <2>1 DEF Sc!Cancel
(* What comes due or is reported keeps its occurrence and its state. *)
<1>19. ASSUME NEW i \in Sc!Item, NEW r \in Sc!Row, s1' = [s1 EXCEPT ![i] = r],
              r.seq = s1[i].seq, r.left = s1[i].left, r.st = s1[i].st,
              UNCHANGED <<s2, s3, s6, s7>>
       PROVE  Sc!SchedulesInv'
  <2>1. Rest
    BY <1>1, <1>2, <1>19
  <2>2. s2' = [s2 EXCEPT ![i] = s2[i]] /\ s2[i] \in 0..Repeats
    BY <1>10, <1>19
  <2>3. i \in MessageItem => /\ s2[i] = r.seq + (IF r.st = "delivered" THEN 1 ELSE 0)
                             /\ r.seq + r.left = Repeats
    BY <1>2, <1>19
  <2>4. i \in OfferItem => r.left = 1 /\ (r.st = "delivered" => s7 # {})
    BY <1>2, <1>19
  <2> HIDE DEF Rest
  <2> QED
    BY <1>5, <1>19, <2>1, <2>2, <2>3, <2>4
<1>20. ASSUME NEW i \in Sc!Item, Sc!ComeDue(i)
       PROVE  Sc!SchedulesInv'
  <2> DEFINE r == [s1[i] EXCEPT !.due = TRUE]
  <2>1. r \in Sc!Row
    BY <1>10, RowChanges
  <2>2. s1' = [s1 EXCEPT ![i] = r] /\ UNCHANGED <<s2, s3, s6, s7>>
    BY <1>20 DEF Sc!ComeDue
  <2>3. r.seq = s1[i].seq /\ r.left = s1[i].left /\ r.st = s1[i].st
    BY <1>10 DEF Sc!Row
  <2> HIDE DEF r
  <2> QED
    BY <1>19, <2>1, <2>2, <2>3
<1>21. ASSUME NEW i \in Sc!Item, Sc!Report(i)
       PROVE  Sc!SchedulesInv'
  <2> DEFINE r == [s1[i] EXCEPT !.unless = TRUE]
  <2>1. r \in Sc!Row
    BY <1>10, RowChanges
  <2>2. s1' = [s1 EXCEPT ![i] = r] /\ UNCHANGED <<s2, s3, s6, s7>>
    BY <1>21 DEF Sc!Report
  <2>3. r.seq = s1[i].seq /\ r.left = s1[i].left /\ r.st = s1[i].st
    BY <1>10 DEF Sc!Row
  <2> HIDE DEF r
  <2> QED
    BY <1>19, <2>1, <2>2, <2>3
<1>22. CASE UNCHANGED Sc!scheduleVars
  BY <1>1, <1>2, <1>4, <1>22 DEF Sc!scheduleVars
<1> QED
  BY <1>6, <1>7, <1>8, <1>12, <1>14, <1>15, <1>16, <1>17, <1>18, <1>20, <1>21, <1>22
     DEF Sc!Next, Sc!Settle

(* A delivery reads the row again in its own transaction: a cancelled one
   sends nothing. *)
LEMMA CancelledStaysUnsent ==
  Sc!SchedulesInv /\ [Sc!Next]_(Sc!scheduleVars) => Sc!CancelledIsNotSentStep
<1> SUFFICES ASSUME Sc!SchedulesInv, [Sc!Next]_(Sc!scheduleVars),
                    NEW i \in MessageItem, s1[i].st = "cancelled"
             PROVE  s2'[i] = s2[i]
  BY DEF Sc!CancelledIsNotSentStep
<1>1. CASE UNCHANGED s2
  BY <1>1
<1>2. ASSUME NEW j \in Sc!Item, Sc!Deliver(j), ~UNCHANGED s2
      PROVE  s2'[i] = s2[i]
  <2>1. s1[j].st = "waiting"
    BY <1>2 DEF Sc!Deliver, Sc!Waiting
  <2>2. i # j
    BY <2>1
  <2> QED
    BY <1>2, <2>2 DEF Sc!Deliver, Sc!SchedulesInv, Sc!TypeOK, Sc!Item
<1> QED
  BY <1>1, <1>2
     DEF Sc!Next, Sc!Settle, Sc!scheduleVars, Sc!ReadItems, Sc!World, Sc!Halt,
         Sc!CancelReported, Sc!Offer, Sc!Complete, Sc!OfferRefused, Sc!Cancel, Sc!ComeDue,
         Sc!Report

-----------------------------------------------------------------------------
(* Updates of the operator.                                                *)

(* The reader starts after the confirmed offset. *)
LEMMA InboundInitially == No!InboundInit => No!InboundInv
<1> SUFFICES ASSUME No!InboundInit PROVE No!InboundInv
  OBVIOUS
<1> USE MessagingAssumption DEF No!InboundInit, No!NoMisses
<1>1. MaxRestarts * MaxUpdates \in Nat /\ 0 * MaxUpdates = 0
  OBVIOUS
<1>2. s1 \in Seq(BOOLEAN) /\ Len(s1) = 0 /\ s4 \in Seq(No!Ids) /\ DOMAIN s4 = {} /\ Len(s4) = 0
  OBVIOUS
<1>3. {s5, s6} \subseteq [recent : 0..MissLimit, locked : BOOLEAN]
  OBVIOUS
<1>4. s8 \in [No!Ids -> 0..(MaxRestarts + 1)] /\ \A i \in No!Ids : s8[i] = 0
  OBVIOUS
<1>5. No!InboundTypeOK
  <2>1. s10 \in BOOLEAN
    BY Zenon
  <2> QED
    BY <1>1, <1>2, <1>3, <1>4, <2>1 DEF No!InboundTypeOK
<1>6. s5.recent = 0 /\ s6.recent = 0 /\ s5 = s6 /\ ~s5.locked
  OBVIOUS
<1> QED
  BY <1>1, <1>2, <1>4, <1>5, <1>6
     DEF No!InboundInv, No!MissesAreBounded, No!ServedOncePerReader

(* The rows of a gate after a miss.                                        *)
LEMMA AfterMissGate ==
  ASSUME NEW g \in [recent : 0..MissLimit, locked : BOOLEAN], g.recent < MissLimit, ~g.locked
  PROVE  /\ No!AfterMiss(g) \in [recent : 0..MissLimit, locked : BOOLEAN]
         /\ No!AfterMiss(g).recent < MissLimit
         /\ g.recent + 1 = IF No!AfterMiss(g).locked THEN MissLimit ELSE No!AfterMiss(g).recent
<1> USE MessagingAssumption
<1>1. CASE g.recent + 1 < MissLimit
  BY <1>1 DEF No!AfterMiss
<1>2. CASE ~(g.recent + 1 < MissLimit)
  BY <1>2 DEF No!AfterMiss
<1> QED
  BY <1>1, <1>2

(* A batch is the updates after the offset; each that is served moves the
   offset, each that misses moves the gate. *)
LEMMA InboundStep ==
  No!InboundInv /\ [No!InboundNext]_(No!inboundVars) => No!InboundInv'
<1> SUFFICES ASSUME No!InboundInv, [No!InboundNext]_(No!inboundVars)
             PROVE  No!InboundInv'
  OBVIOUS
<1> USE MessagingAssumption
<1> DEFINE Gate == [recent : 0..MissLimit, locked : BOOLEAN]
<1>1. /\ s1 \in Seq(BOOLEAN) /\ Len(s1) <= MaxUpdates
      /\ s2 \in 0..MaxUpdates /\ s3 \in 0..MaxUpdates
      /\ s4 \in Seq(No!Ids) /\ s5 \in Gate /\ s6 \in Gate
      /\ s7 \in 0..MaxRestarts /\ s8 \in [No!Ids -> 0..(MaxRestarts + 1)]
      /\ s9 \in 0..(MaxUpdates + MaxRestarts * MaxUpdates) /\ s10 \in BOOLEAN
  BY DEF No!InboundInv, No!InboundTypeOK
<1>2. /\ ~s10 => s9 <= MissLimit
      /\ \A i \in No!Ids : s8[i] <= s7 + 1
      /\ \A k \in DOMAIN s4 : s4[k] = s3 + k
      /\ s3 + Len(s4) <= Len(s1) /\ s2 <= s3
      /\ \A i \in No!Ids : i > s3 => s8[i] <= s7
      /\ s5.recent < MissLimit /\ s6.recent < MissLimit
      /\ s9 <= s3 + s7 * MaxUpdates
      /\ ~s10 => /\ s5 = s6
                 /\ s9 = IF s5.locked THEN MissLimit ELSE s5.recent
  BY DEF No!InboundInv, No!MissesAreBounded, No!ServedOncePerReader
<1>3. /\ s7 * MaxUpdates \in Nat /\ MaxRestarts * MaxUpdates \in Nat
      /\ s7 * MaxUpdates <= MaxRestarts * MaxUpdates
      /\ (s7 + 1) * MaxUpdates = s7 * MaxUpdates + MaxUpdates
  BY <1>1
<1> DEFINE Given == /\ s1' \in Seq(BOOLEAN) /\ Len(s1') <= MaxUpdates
                    /\ s2' \in 0..MaxUpdates /\ s3' \in 0..MaxUpdates
                    /\ s4' \in Seq(No!Ids)
                    /\ \A k \in DOMAIN s4' : s4'[k] = s3' + k
                    /\ s3' + Len(s4') <= Len(s1') /\ s2' <= s3'
           Counted == /\ s7' \in 0..MaxRestarts
                      /\ s8' \in [No!Ids -> 0..(MaxRestarts + 1)]
                      /\ \A i \in No!Ids : s8'[i] <= s7' + 1
                      /\ \A i \in No!Ids : i > s3' => s8'[i] <= s7'
           Gated == /\ s5' \in Gate /\ s6' \in Gate /\ s10' \in BOOLEAN
                    /\ s5'.recent < MissLimit /\ s6'.recent < MissLimit
                    /\ ~s10' => /\ s5' = s6'
                                /\ s9' = IF s5'.locked THEN MissLimit ELSE s5'.recent
           Missed == /\ s9' \in 0..(MaxUpdates + MaxRestarts * MaxUpdates)
                     /\ s9' <= s3' + s7' * MaxUpdates
<1>4. ASSUME Given, Counted, Gated, Missed
      PROVE  No!InboundInv'
  <2>1. ~s10' => s9' <= MissLimit
    BY <1>4
  <2>2. No!InboundTypeOK'
    BY <1>4 DEF No!InboundTypeOK
  <2> QED
    BY <1>4, <2>1, <2>2 DEF No!InboundInv, No!MissesAreBounded, No!ServedOncePerReader
<1>5. UNCHANGED <<s1, s2, s3, s4>> => Given
  BY <1>1, <1>2
<1>6. UNCHANGED <<s3, s7, s8>> => Counted
  BY <1>1, <1>2
<1>7. UNCHANGED <<s5, s6, s9, s10>> => Gated
  BY <1>1, <1>2
<1>8. UNCHANGED <<s3, s7, s9>> => Missed
  BY <1>1, <1>2
<1>9. PICK past \in Nat, most \in Nat :
          /\ past = s7 * MaxUpdates /\ most = MaxRestarts * MaxUpdates /\ past <= most
  BY <1>3
<1>10. s9 <= s3 + past
  BY <1>2, <1>9
<1>11. ASSUME s7' = s7, s9' \in Nat, s9' <= s3' + past, s3' \in 0..MaxUpdates
       PROVE  Missed
  <2>1. s9' <= MaxUpdates + most
    BY <1>9, <1>11
  <2>2. s9' \in 0..(MaxUpdates + MaxRestarts * MaxUpdates)
    BY <1>9, <1>11, <2>1
  <2>3. s9' <= s3' + s7' * MaxUpdates
    BY <1>9, <1>11
  <2> QED
    BY <2>2, <2>3
<1> HIDE DEF Given, Counted, Gated, Missed, Gate
<1>12. CASE No!UpdateArrives
  <2>1. PICK right \in BOOLEAN : s1' = Append(s1, right)
    BY <1>12 DEF No!UpdateArrives
  <2>2. s1' \in Seq(BOOLEAN) /\ Len(s1') = Len(s1) + 1 /\ Len(s1) < MaxUpdates
    BY <1>1, <1>12, <2>1 DEF No!UpdateArrives
  <2>3. Len(s4) \in Nat /\ Len(s1) \in Nat
    BY <1>1
  <2>4. Given
    BY <1>1, <1>2, <1>12, <2>2, <2>3 DEF No!UpdateArrives, Given
  <2> QED
    BY <1>4, <1>6, <1>7, <1>8, <1>12, <2>4 DEF No!UpdateArrives
<1>13. CASE No!Poll
  <2>1. Len(s1) \in Nat /\ s3 < Len(s1) /\ s4' = [i \in 1..(Len(s1) - s3) |-> s3 + i]
    BY <1>1, <1>13 DEF No!Poll
  <2>2. Len(s1) - s3 \in Nat
    BY <1>1, <2>1
  <2>3. s4' \in Seq(No!Ids)
    <3>1. \A i \in 1..(Len(s1) - s3) : s3 + i \in No!Ids
      BY <1>1, <2>1 DEF No!Ids
    <3> QED
      BY <2>1, <2>2, <3>1
  <2>4. Len(s4') = Len(s1) - s3 /\ DOMAIN s4' = 1..(Len(s1) - s3)
    BY <2>1, <2>2
  <2>5. Given
    BY <1>1, <1>13, <2>1, <2>2, <2>3, <2>4 DEF No!Poll, Given
  <2> QED
    BY <1>4, <1>6, <1>7, <1>8, <1>13, <2>5 DEF No!Poll
<1>14. CASE No!Serve
  <2> DEFINE i == Head(s4)
  <2>1. s4 # <<>> /\ Len(s4) \in Nat \ {0} /\ Len(s1) \in Nat
    BY <1>1, <1>14 DEF No!Serve
  <2>2. i = s3 + 1 /\ i \in No!Ids
    <3>1. 1 \in DOMAIN s4 /\ i = s4[1]
      BY <1>1, <2>1
    <3> QED
      BY <1>1, <1>2, <3>1
  <2>3. /\ s3' = i /\ s4' = Tail(s4) /\ UNCHANGED <<s1, s2, s7>>
        /\ s8' = [s8 EXCEPT ![i] = IF @ <= MaxRestarts THEN @ + 1 ELSE @]
        /\ No!Admit(s1[i])
    BY <1>1, <1>14, <2>2 DEF No!Serve, No!NextOffset, No!Ids
  <2> HIDE DEF i
  <2>4. s3' = s3 + 1 /\ s3' \in 0..MaxUpdates /\ s7' = s7
    BY <1>1, <2>2, <2>3 DEF No!Ids
  <2>5. /\ s4' \in Seq(No!Ids) /\ Len(s4') = Len(s4) - 1
        /\ \A k \in DOMAIN s4' : k + 1 \in DOMAIN s4 /\ s4'[k] = s4[k + 1] /\ k \in Nat
    BY <1>1, <2>1, <2>3
  <2>6. Given
    <3>1. s3' \in 0..MaxUpdates /\ s2 <= s3'
      BY <1>1, <1>2, <2>2, <2>3 DEF No!Ids
    <3>2. s3' + Len(s4') <= Len(s1)
      BY <1>1, <1>2, <2>1, <2>2, <2>3, <2>5
    <3>3. \A k \in DOMAIN s4' : s4'[k] = s3' + k
      BY <1>1, <1>2, <2>2, <2>3, <2>5
    <3> QED
      BY <1>1, <1>14, <2>3, <2>5, <3>1, <3>2, <3>3 DEF Given
  <2>7. s8[i] <= s7
    BY <1>1, <1>2, <2>2
  <2>8. s8'[i] = s8[i] + 1 /\ \A j \in No!Ids : j # i => s8'[j] = s8[j]
    BY <1>1, <2>2, <2>3, <2>7
  <2>9. s8' \in [No!Ids -> 0..(MaxRestarts + 1)]
    BY <1>1, <2>2, <2>3, <2>7
  <2>10. Counted
    <3>1. \A j \in No!Ids : s8'[j] <= s7 + 1
      BY <1>1, <1>2, <2>7, <2>8
    <3>2. \A j \in No!Ids : j > s3' => s8'[j] <= s7
      BY <1>1, <1>2, <2>2, <2>3, <2>8 DEF No!Ids
    <3> QED
      BY <1>1, <2>3, <2>9, <3>1, <3>2 DEF Counted
  <2>11. CASE s5.locked \/ (s1[i] /\ s5.recent = 0)
    <3>1. UNCHANGED <<s5, s6, s9, s10>>
      BY <2>3, <2>11 DEF No!Admit
    <3>2. Missed
      BY <1>1, <1>9, <1>10, <1>11, <2>2, <2>3, <3>1 DEF No!Ids
    <3> QED
      BY <1>4, <1>7, <2>6, <2>10, <3>1, <3>2
  <2>12. CASE ~(s5.locked \/ (s1[i] /\ s5.recent = 0)) /\ s1[i]
    <3>1. s5' = No!NoMisses /\ s9' = 0 /\ No!Save(s5')
      BY <2>3, <2>12 DEF No!Admit
    <3>2. /\ No!NoMisses \in Gate /\ No!NoMisses.recent < MissLimit
          /\ No!NoMisses.recent = 0 /\ ~No!NoMisses.locked
      BY DEF No!NoMisses, Gate
    <3>3. Missed
      <4>1. 0 <= s3' + past /\ s7' = s7 /\ s3' \in 0..MaxUpdates
        BY <1>9, <2>4
      <4> QED
        BY <1>11, <3>1, <4>1
    <3>4. Gated
      <4>1. CASE s6' = s5' /\ UNCHANGED s10
        BY <1>1, <3>1, <3>2, <4>1 DEF Gated
      <4>2. CASE s10' = TRUE /\ UNCHANGED s6
        BY <1>1, <1>2, <3>1, <3>2, <4>2 DEF Gated
      <4> QED
        BY <3>1, <4>1, <4>2 DEF No!Save
    <3> QED
      BY <1>4, <2>6, <2>10, <3>3, <3>4
  <2>13. CASE ~(s5.locked \/ (s1[i] /\ s5.recent = 0)) /\ ~s1[i]
    <3>1. s5' = No!AfterMiss(s5) /\ s9' = s9 + 1 /\ No!Save(s5') /\ ~s5.locked
      BY <2>3, <2>13 DEF No!Admit
    <3>2. /\ s5' \in Gate /\ s5'.recent < MissLimit
          /\ s5.recent + 1 = IF s5'.locked THEN MissLimit ELSE s5'.recent
      BY <1>1, <1>2, <3>1, AfterMissGate DEF Gate
    <3>3. Missed
      <4>1. s9 + 1 <= s3' + past /\ s7' = s7 /\ s3' \in 0..MaxUpdates
        BY <1>1, <1>9, <1>10, <2>4
      <4> QED
        BY <1>1, <1>11, <3>1, <4>1
    <3>4. Gated
      <4>1. CASE s6' = s5' /\ UNCHANGED s10
        BY <1>1, <1>2, <3>1, <3>2, <4>1 DEF Gated
      <4>2. CASE s10' = TRUE /\ UNCHANGED s6
        BY <1>1, <1>2, <3>1, <3>2, <4>2 DEF Gated
      <4> QED
        BY <3>1, <4>1, <4>2 DEF No!Save
    <3> QED
      BY <1>4, <2>6, <2>10, <3>3, <3>4
  <2> QED
    BY <2>11, <2>12, <2>13
<1>15. CASE No!WindowPasses \/ No!LockEnds
  <2>1. /\ s5' = No!NoMisses /\ s6' = No!NoMisses /\ s9' = 0
        /\ UNCHANGED <<s1, s2, s3, s4, s7, s8, s10>>
    BY <1>15 DEF No!WindowPasses, No!LockEnds
  <2>2. /\ No!NoMisses \in Gate /\ No!NoMisses.recent < MissLimit
        /\ No!NoMisses.recent = 0 /\ ~No!NoMisses.locked
    BY DEF No!NoMisses, Gate
  <2>3. Gated /\ Missed
    BY <1>1, <1>3, <2>1, <2>2 DEF Gated, Missed
  <2> QED
    BY <1>4, <1>5, <1>6, <2>1, <2>3
<1>16. CASE No!Restart
  <2>1. /\ s7 < MaxRestarts /\ s7' = s7 + 1 /\ s5' = s6 /\ s3' = s2 /\ s4' = <<>>
        /\ UNCHANGED <<s1, s2, s6, s8, s9, s10>>
    BY <1>16 DEF No!Restart, No!Held
  <2>2. Given
    <3>1. <<>> \in Seq(No!Ids) /\ Len(<<>>) = 0 /\ DOMAIN <<>> = {} /\ Len(s4) \in Nat
      BY <1>1
    <3>2. s2 + 0 <= Len(s1)
      BY <1>1, <1>2, <3>1
    <3> QED
      BY <1>1, <2>1, <3>1, <3>2 DEF Given
  <2>3. Counted
    BY <1>1, <1>2, <2>1 DEF Counted
  <2>4. Gated
    BY <1>1, <1>2, <2>1 DEF Gated
  <2>5. Missed
    BY <1>1, <1>2, <1>3, <2>1 DEF Missed
  <2> QED
    BY <1>4, <2>2, <2>3, <2>4, <2>5
<1>17. CASE UNCHANGED No!inboundVars
  BY <1>4, <1>5, <1>6, <1>7, <1>8, <1>17 DEF No!inboundVars
<1> QED
  BY <1>12, <1>13, <1>14, <1>15, <1>16, <1>17 DEF No!InboundNext

-----------------------------------------------------------------------------
(* The batches of mail for a lane.                                         *)

(* The component's operator is the one of Iteration. *)
LEMMA SameWithout ==
  \A q, R, S : No!Without(q, R, S) = Without(q, R, S)
BY DEF No!Without, Without, No!Iterate, Iterate

(* Numbers up to a bound have a greatest one.                              *)
LEMMA GreatestExists ==
  ASSUME NEW n \in Nat, NEW S \in SUBSET (1..n), S # {}
  PROVE  \E x \in S : \A y \in S : x >= y
<1> DEFINE Good == {m \in Nat : \A T \in SUBSET (1..m) :
                       T # {} => \E x \in T : \A y \in T : x >= y}
<1>1. 0 \in Good
  <2>1. 1..0 = {}
    OBVIOUS
  <2> QED
    BY <2>1
<1>2. ASSUME NEW m \in Nat, m \in Good
      PROVE  m + 1 \in Good
  <2> SUFFICES ASSUME NEW T \in SUBSET (1..(m + 1)), T # {}
               PROVE  \E x \in T : \A y \in T : x >= y
    OBVIOUS
  <2>1. CASE m + 1 \in T
    BY <2>1
  <2>2. CASE m + 1 \notin T
    <3>1. T \in SUBSET (1..m)
      BY <2>2
    <3> QED
      BY <1>2, <3>1
  <2> QED
    BY <2>1, <2>2
<1>3. Nat \subseteq Good
  <2> HIDE DEF Good
  <2> QED
    BY <1>1, <1>2, SetInduction
<1> QED
  BY <1>3

(* The maximum of a set of numbers is a greatest member. *)
LEMMA GreatestIsMax ==
  ASSUME NEW n \in Nat, NEW S \in SUBSET (1..n), S # {}
  PROVE  No!Max(S) \in S /\ \A y \in S : No!Max(S) >= y
BY GreatestExists DEF No!Max

(* A message is named when a batch has it. *)
LEMMA NamedMembers ==
  ASSUME NEW q, NEW i
  PROVE  i \in No!Named(q) <=> \E k \in DOMAIN q : i \in q[k].ids
BY DEF No!Named, No!ToSet

(* No mail has arrived at first and there are no batches. *)
LEMMA DeliveryInitially == No!Init => No!DeliveryInv
<1> SUFFICES ASSUME No!Init PROVE No!DeliveryInv
  OBVIOUS
<1> USE MessagingAssumption
<1>1. /\ s1 = 0 /\ s2 = {} /\ s3 = 0 /\ s4 = 0 /\ s6 = <<>>
      /\ s5 = [cursor |-> 0, notices |-> 0, batches |-> <<>>]
      /\ s7 = [p \in Poller |-> No!Idle]
  BY DEF No!Init
<1>2. No!TypeOK
  BY <1>1 DEF No!TypeOK
<1>3. No!PassedMailIsInABatch /\ No!MailIsAnnouncedOnce
  BY <1>1 DEF No!PassedMailIsInABatch, No!MailIsAnnouncedOnce
<1> QED
  BY <1>1, <1>2, <1>3 DEF No!DeliveryInv

(* Threads compose from the state they read and write only if it is still
   that: batches keep apart and reach up to the cursor. *)
LEMMA DeliveryStep ==
  No!DeliveryInv /\ [No!Next]_(No!deliveryVars) => No!DeliveryInv'
<1> SUFFICES ASSUME No!DeliveryInv, [No!Next]_(No!deliveryVars)
             PROVE  No!DeliveryInv'
  OBVIOUS
<1> USE MessagingAssumption
<1> DEFINE Batches == [ids : SUBSET (1..MaxArrivals), written : 0..MaxNotices]
           Row(b) == b.ids \subseteq 1..MaxArrivals
           Counts == /\ s1 \in 0..MaxArrivals /\ s2 \subseteq 1..s1
                     /\ s3 \in 0..MaxNotices /\ s4 \in 0..MaxNotices
           File == s6 \in Seq(Batches)
           Fields == /\ s5 = [cursor |-> s5.cursor, notices |-> s5.notices, batches |-> s5.batches]
                     /\ s5.cursor \in 0..s1 /\ s5.notices \in 0..MaxNotices
                     /\ s5.batches \in Seq(Batches) /\ Len(s5.batches) <= MaxBatches
           Once == \A j, k \in DOMAIN s5.batches :
                      j # k => s5.batches[j].ids \cap s5.batches[k].ids = {}
           Passed == \A k \in DOMAIN s5.batches : s5.batches[k].ids \subseteq 1..s5.cursor
           InOne == \A i \in 1..s5.cursor :
                      i \in s2 \/ i \in s8 \/ \E k \in DOMAIN s5.batches : i \in s5.batches[k].ids
           Left(kept, batches, read) ==
               /\ kept \in Seq(Batches) /\ Len(kept) <= Len(batches)
               /\ \A m \in DOMAIN kept : \E k \in DOMAIN batches : kept[m] = batches[k]
               /\ \A m, n \in DOMAIN kept : m # n =>
                     \E j, k \in DOMAIN batches :
                        j # k /\ kept[m] = batches[j] /\ kept[n] = batches[k]
               /\ \A k \in DOMAIN batches :
                     batches[k].ids \subseteq read \/ \E m \in DOMAIN kept : kept[m] = batches[k]
           Made(r, last, read) == /\ r.phase \in {"compose", "trim"} /\ r.notices \in 0..MaxNotices
                      /\ Left(r.kept, r.read.batches, read)
                      /\ r.ids \subseteq (r.read.cursor + 1)..last
                      /\ \A i \in r.ids : (r.read.cursor + 1)..i \subseteq r.ids \cup read
           idle == [phase |-> "idle"]
           Reads == DOMAIN s7 = Poller /\ \A p \in Poller : s7[p] = idle \/ Made(s7[p], s1, s2)
<1>1. Counts /\ File /\ Fields /\ Once /\ Passed /\ InOne /\ Reads
  <2>1. Counts /\ File /\ Fields
    BY DEF No!DeliveryInv, No!TypeOK, No!Batch, No!Mail
  <2>2. Once /\ Passed
    BY DEF No!DeliveryInv, No!MailIsAnnouncedOnce
  <2>3. InOne
    BY NamedMembers DEF No!DeliveryInv, No!PassedMailIsInABatch
  <2>4. Reads
    BY DEF No!DeliveryInv, No!ComposedFrom, No!LeftOf, No!Idle, No!Batch, No!Mail
  <2> QED
    BY <2>1, <2>2, <2>3, <2>4
<1>2. ASSUME Counts', File', Fields', Once', Passed', InOne', Reads'
      PROVE  No!DeliveryInv'
  <2>1. Counts' /\ Fields'
    BY <1>2
  <2>2. s5'.cursor \in 0..s1' /\ s1' \in 0..MaxArrivals
    BY <2>1
  <2>3. s5'.cursor \in 0..MaxArrivals /\ s5'.cursor <= s1'
    BY <2>2
  <2>4. No!TypeOK'
    BY <1>2, <2>3 DEF No!TypeOK, No!Batch, No!Mail
  <2>5. No!MailIsAnnouncedOnce'
    BY <1>2 DEF No!MailIsAnnouncedOnce
  <2>6. No!PassedMailIsInABatch'
    BY <1>2, NamedMembers DEF No!PassedMailIsInABatch
  <2>7. DOMAIN s7' = Poller /\ \A p \in Poller : s7'[p] = idle \/ No!ComposedFrom(s7[p])'
    <3>1. DOMAIN s7' = Poller
      BY <1>2
    <3>2. ASSUME NEW p \in Poller, s7'[p] # idle
          PROVE  No!ComposedFrom(s7[p])'
      <4>1. Made(s7'[p], s1', s2')
        BY <1>2, <3>2
      <4> QED
        BY <4>1 DEF No!ComposedFrom, No!LeftOf, No!Batch, No!Mail
    <3> QED
      BY <3>1, <3>2
  <2> QED
    BY <1>2, <2>4, <2>5, <2>6, <2>7, <2>3 DEF No!DeliveryInv, No!Idle
(* What a thread composed stays so while mail arrives and is read.         *)
<1>3. ASSUME NEW r, NEW last \in Nat, NEW later \in Nat, NEW read, NEW more,
             last <= later, read \subseteq more, Made(r, last, read)
      PROVE  Made(r, later, more)
  <2>1. r.ids \subseteq (r.read.cursor + 1)..later
    <3>1. r.ids \subseteq (r.read.cursor + 1)..last
      BY <1>3
    <3> QED
      BY <1>3, <3>1
  <2>2. Left(r.kept, r.read.batches, more)
    BY <1>3
  <2> QED
    BY <1>3, <2>1, <2>2
<1>4. ASSUME UNCHANGED <<s5, s6, s7, s8>>, Counts', s1 <= s1', s2 \subseteq s2'
      PROVE  No!DeliveryInv'
  <2>1. s1 \in Nat /\ s1' \in Nat
    BY <1>1, <1>4
  <2>2. Reads'
    <3> HIDE DEF Made
    <3> QED
      BY <1>1, <1>3, <1>4, <2>1
  <2>3. File' /\ Once' /\ Passed' /\ InOne'
    BY <1>1, <1>4
  <2>4. Fields'
    <3>1. s5.cursor \in 0..s1
      BY <1>1
    <3>2. s5'.cursor \in 0..s1'
      BY <1>4, <2>1, <3>1
    <3> QED
      BY <1>1, <1>4, <3>2
  <2> QED
    BY <1>2, <1>4, <2>2, <2>3, <2>4
<1>5. CASE No!Arrive \/ No!Notice \/ No!Write \/ (\E i \in No!Mail : No!ReadOne(i))
  <2>1. UNCHANGED <<s5, s6, s7, s8>>
    BY <1>5 DEF No!Arrive, No!Notice, No!Write, No!ReadOne
  <2>2. Counts' /\ s1 <= s1' /\ s2 \subseteq s2'
    <3>1. Counts
      BY <1>1
    <3>2. CASE No!Arrive
      BY <3>1, <3>2 DEF No!Arrive
    <3>3. CASE No!Notice
      BY <3>1, <3>3 DEF No!Notice
    <3>4. CASE No!Write
      BY <3>1, <3>4 DEF No!Write
    <3>5. CASE \E i \in No!Mail : No!ReadOne(i)
      BY <3>1, <3>5 DEF No!ReadOne, No!Mail
    <3> QED
      BY <1>5, <3>2, <3>3, <3>4, <3>5
  <2> QED
    BY <1>4, <2>1, <2>2
(* What is kept of the batches.                                            *)
<1>6. ASSUME NEW text
      PROVE  Left(No!Kept(s5.batches, text), s5.batches, s2)
  <2> DEFINE q == s5.batches
             gone == {b \in No!Batch :
                        ~(\/ b.ids \ s2 # {}
                          \/ b.ids = {} /\ b.written >= s4
                          \/ b.ids = {} /\ ~text /\ b = q[Len(q)])}
             kept == Without(q, gone, Batches)
  <2>1. q \in Seq(Batches) /\ Batches = No!Batch
    BY <1>1 DEF No!Batch, No!Mail
  <2>2. No!Kept(q, text) = kept
    BY <2>1, SameWithout DEF No!Kept
  <2>3. \A b \in gone : b.ids \subseteq s2
    OBVIOUS
  <2> HIDE DEF gone
  <2>4. kept \in Selected(q, gone, Batches, Len(q))
    BY <2>1, WithoutSelects
  <2> HIDE DEF kept, q
  <2>5. Len(q) \in Nat /\ DOMAIN q = 1..Len(q) /\ kept \in Seq(Batches)
        /\ DOMAIN kept = 1..Len(kept)
    BY <2>1, <2>4, LenProperties DEF Selected
  <2>6. Left(kept, q, s2)
    <3>1. /\ Len(kept) <= Len(q)
          /\ \A m \in 1..Len(kept) : \E k \in 1..Len(q) : kept[m] = q[k] /\ q[k] \notin gone
          /\ \A k \in 1..Len(q) : q[k] \in gone \/ \E m \in 1..Len(kept) : kept[m] = q[k]
          /\ \A m, n \in 1..Len(kept) : m # n =>
                \E j, k \in 1..Len(q) : j # k /\ kept[m] = q[j] /\ kept[n] = q[k]
      BY <2>4 DEF Selected
    <3>2. \A k \in DOMAIN q : q[k].ids \subseteq s2 \/ \E m \in DOMAIN kept : kept[m] = q[k]
      BY <2>3, <2>5, <3>1
    <3>3. \A m \in DOMAIN kept : \E k \in DOMAIN q : kept[m] = q[k]
      BY <2>5, <3>1
    <3>4. ASSUME NEW m \in DOMAIN kept, NEW n \in DOMAIN kept, m # n
          PROVE  \E j, k \in DOMAIN q : j # k /\ kept[m] = q[j] /\ kept[n] = q[k]
      <4>1. m \in 1..Len(kept) /\ n \in 1..Len(kept)
        BY <2>5
      <4>2. PICK j \in 1..Len(q), k \in 1..Len(q) : j # k /\ kept[m] = q[j] /\ kept[n] = q[k]
        BY <3>1, <3>4, <4>1
      <4> QED
        BY <2>5, <4>2
    <3> QED
      BY <2>5, <3>1, <3>2, <3>3, <3>4
  <2> QED
    BY <2>2, <2>6 DEF q
<1>7. ASSUME NEW p \in Poller, No!Compose(p)
      PROVE  No!DeliveryInv'
  <2>1. PICK lines \in No!Digests :
           LET text == s3 # s5.notices \/ lines # {} IN
           s7' = [s7 EXCEPT ![p] =
                [phase |-> IF text THEN "compose" ELSE "trim",
                 read |-> s5, ids |-> lines, notices |-> s3,
                 kept |-> No!Kept(s5.batches, text)]]
    BY <1>7 DEF No!Compose
  <2> DEFINE text == s3 # s5.notices \/ lines # {}
             r == [phase |-> IF text THEN "compose" ELSE "trim",
                   read |-> s5, ids |-> lines, notices |-> s3,
                   kept |-> No!Kept(s5.batches, text)]
  <2>2. Left(r.kept, r.read.batches, s2)
    <3>1. \A t : Left(No!Kept(s5.batches, t), s5.batches, s2)
      BY <1>6
    <3> HIDE DEF Left
    <3> QED
      BY <3>1
  <2>3. /\ lines \subseteq {i \in (s5.cursor + 1)..s1 : i \notin s2}
        /\ \A i \in lines, j \in {i \in (s5.cursor + 1)..s1 : i \notin s2} \ lines : i < j
    BY <2>1 DEF No!Digests, No!Mailbox
  <2>4. \A i \in lines : (s5.cursor + 1)..i \subseteq lines \cup s2
    <3> SUFFICES ASSUME NEW i \in lines, NEW j \in (s5.cursor + 1)..i, j \notin lines, j \notin s2
                 PROVE  FALSE
      OBVIOUS
    <3>1. i \in (s5.cursor + 1)..s1
      BY <2>3
    <3>2. s5.cursor \in Nat /\ s1 \in Nat
      BY <1>1
    <3>3. j \in (s5.cursor + 1)..s1
      BY <3>1, <3>2
    <3>4. i < j
      BY <2>3, <3>3
    <3> QED
      BY <3>1, <3>2, <3>4
  <2>5. Made(r, s1, s2)
    <3>1. s3 \in 0..MaxNotices
      BY <1>1
    <3> QED
      BY <2>2, <2>3, <2>4, <3>1
  <2>6. UNCHANGED <<s1, s2, s3, s4, s5, s6, s8>>
    BY <1>7 DEF No!Compose
  <2> HIDE DEF r, Made
  <2>7. s7' = [s7 EXCEPT ![p] = r]
    BY <2>1 DEF r
  <2>8. Reads'
    BY <1>1, <2>5, <2>6, <2>7
  <2>9. Counts' /\ File' /\ Fields' /\ Once' /\ Passed' /\ InOne'
    BY <1>1, <2>6
  <2> USE DEF Made
  <2> QED
    BY <1>2, <2>8, <2>9
<1>8. ASSUME NEW p \in Poller, No!Trim(p)
      PROVE  No!DeliveryInv'
  <2> DEFINE r == s7[p]
  <2>1. /\ r.phase = "trim" /\ s7' = [s7 EXCEPT ![p] = idle] /\ UNCHANGED <<s1, s2, s3, s4, s8>>
        /\ \/ /\ s5.batches = r.read.batches /\ s5' = [s5 EXCEPT !.batches = r.kept]
              /\ s6' \in {r.kept, s6}
           \/ UNCHANGED <<s5, s6>>
    BY <1>8 DEF No!Trim, No!Idle
  <2>2. Made(r, s1, s2)
    <3>1. r # idle
      BY <2>1
    <3> HIDE DEF Made
    <3> QED
      BY <1>1, <3>1
  <2>3. Reads'
    <3> HIDE DEF Made
    <3> QED
      BY <1>1, <2>1
  <2>4. CASE UNCHANGED <<s5, s6>>
    <3>1. Counts' /\ File' /\ Fields' /\ Once' /\ Passed' /\ InOne'
      BY <1>1, <2>1, <2>4
    <3> QED
      BY <1>2, <2>3, <3>1
  <2>5. CASE /\ s5.batches = r.read.batches /\ s5' = [s5 EXCEPT !.batches = r.kept]
             /\ s6' \in {r.kept, s6}
    <3> DEFINE q == s5.batches
               kept == r.kept
    <3>1. Left(kept, q, s2)
      <4>1. Left(r.kept, r.read.batches, s2)
        BY <2>2
      <4> HIDE DEF Left
      <4> QED
        BY <2>5, <4>1
    <3>2. /\ s5' = [cursor |-> s5.cursor, notices |-> s5.notices, batches |-> kept]
          /\ s5'.cursor = s5.cursor /\ s5'.batches = kept /\ s5'.notices = s5.notices
      <4>1. s5 = [cursor |-> s5.cursor, notices |-> s5.notices, batches |-> s5.batches]
        BY <1>1
      <4> QED
        BY <2>5, <4>1
    <3>3. /\ q \in Seq(Batches) /\ Len(q) <= MaxBatches /\ Len(q) \in Nat
          /\ s5.cursor \in 0..s1 /\ s5.notices \in 0..MaxNotices
      BY <1>1, LenProperties
    <3>4. \A j, k \in DOMAIN q : j # k => q[j].ids \cap q[k].ids = {}
      BY <1>1
    <3>5. \A k \in DOMAIN q : q[k].ids \subseteq 1..s5.cursor
      BY <1>1
    <3>6. \A i \in 1..s5.cursor : i \in s2 \/ i \in s8 \/ \E k \in DOMAIN q : i \in q[k].ids
      BY <1>1
    <3> HIDE DEF q, kept
    <3>7. Counts'
      BY <1>1, <2>1
    <3>8. File'
      BY <1>1, <2>5, <3>1 DEF kept
    <3>9. Fields'
      <4>1. kept \in Seq(Batches) /\ Len(kept) <= Len(q) /\ Len(kept) \in Nat
        BY <3>1, LenProperties
      <4>2. Len(kept) <= MaxBatches
        BY <3>3, <4>1
      <4> QED
        BY <2>1, <3>2, <3>3, <4>1, <4>2
    <3>10. Once'
      BY <3>1, <3>2, <3>4
    <3>11. Passed'
      BY <3>1, <3>2, <3>5
    <3>12. InOne'
      <4> SUFFICES ASSUME NEW i \in 1..s5.cursor, i \notin s2, i \notin s8
                   PROVE  \E m \in DOMAIN kept : i \in kept[m].ids
        BY <2>1, <3>2
      <4>1. PICK k \in DOMAIN q : i \in q[k].ids
        BY <3>6
      <4>2. PICK m \in DOMAIN kept : kept[m] = q[k]
        BY <3>1, <4>1
      <4> QED
        BY <4>1, <4>2
    <3> QED
      BY <1>2, <2>3, <3>7, <3>8, <3>9, <3>10, <3>11, <3>12
  <2> QED
    BY <2>1, <2>4, <2>5
<1>9. ASSUME NEW p \in Poller, No!Publish(p)
      PROVE  No!DeliveryInv'
  <2> DEFINE r == s7[p]
             new == [ids |-> r.ids, written |-> s4]
             all == Append(r.kept, new)
             kept == IF Len(all) > MaxBatches THEN Tail(all) ELSE all
  <2>1. /\ r.phase = "compose" /\ s7' = [s7 EXCEPT ![p] = idle] /\ UNCHANGED <<s1, s2, s3, s4>>
        /\ \/ /\ s5 = r.read
              /\ s5' = [cursor |-> No!CursorAfter(r), notices |-> r.notices, batches |-> kept]
              /\ s6' \in {kept, s6}
              /\ s8' = s8 \cup (No!Named(all) \ No!Named(kept))
           \/ UNCHANGED <<s5, s6, s8>>
    BY <1>9 DEF No!Publish, No!Idle, No!Current
  <2>2. Made(r, s1, s2)
    <3>1. r # idle
      BY <2>1
    <3> HIDE DEF Made
    <3> QED
      BY <1>1, <3>1
  <2>3. Reads'
    <3> HIDE DEF Made
    <3> QED
      BY <1>1, <2>1
  <2>4. CASE UNCHANGED <<s5, s6, s8>>
    <3>1. Counts' /\ File' /\ Fields' /\ Once' /\ Passed' /\ InOne'
      BY <1>1, <2>1, <2>4
    <3> QED
      BY <1>2, <2>3, <3>1
  <2>5. CASE /\ s5 = r.read
             /\ s5' = [cursor |-> No!CursorAfter(r), notices |-> r.notices, batches |-> kept]
             /\ s6' \in {kept, s6}
             /\ s8' = s8 \cup (No!Named(all) \ No!Named(kept))
    <3> DEFINE q == s5.batches
               old == r.kept
               c == s5.cursor
    <3>1. Left(old, q, s2)
      <4>1. Left(r.kept, r.read.batches, s2)
        BY <2>2
      <4> HIDE DEF Left
      <4> QED
        BY <2>5, <4>1
    <3>2. /\ q \in Seq(Batches) /\ Len(q) <= MaxBatches /\ Len(q) \in Nat
          /\ c \in 0..s1 /\ s1 \in 0..MaxArrivals /\ s4 \in 0..MaxNotices
      BY <1>1, LenProperties
    <3>3. r.ids \subseteq (c + 1)..s1 /\ r.notices \in 0..MaxNotices
          /\ \A i \in r.ids : (c + 1)..i \subseteq r.ids \cup s2
      BY <2>2, <2>5
    <3>4. \A j, k \in DOMAIN q : j # k => q[j].ids \cap q[k].ids = {}
      BY <1>1
    <3>5. \A k \in DOMAIN q : q[k].ids \subseteq 1..c
      BY <1>1
    <3>6. \A i \in 1..c : i \in s2 \/ i \in s8 \/ \E k \in DOMAIN q : i \in q[k].ids
      BY <1>1
    <3>7. /\ old \in Seq(Batches) /\ Len(old) <= MaxBatches /\ Len(old) \in Nat
          /\ DOMAIN old = 1..Len(old)
      BY <3>1, <3>2, LenProperties
    <3>8. new \in Batches /\ new.ids = r.ids
      <4>1. r.ids \subseteq 1..MaxArrivals
        BY <3>2, <3>3
      <4> QED
        BY <3>2, <4>1
    <3> HIDE DEF new, old
    <3>9. /\ all \in Seq(Batches) /\ Len(all) = Len(old) + 1
          /\ all[Len(old) + 1] = new /\ \A m \in 1..Len(old) : all[m] = old[m]
      BY <3>7, <3>8, AppendProperties DEF old
    <3> HIDE DEF all
(* The cursor passes what the new batch names and nothing else.            *)
    <3> DEFINE next == No!CursorAfter(r)
    <3>10. next \in c..s1 /\ r.ids \subseteq 1..next
           /\ \A i \in (c + 1)..next : i \in r.ids \/ i \in s2
      <4>1. CASE r.ids = {}
        <5>1. next = c
          BY <4>1 DEF No!CursorAfter
        <5> QED
          BY <3>2, <4>1, <5>1
      <4>2. CASE r.ids # {}
        <5>1. r.ids \in SUBSET (1..s1) /\ s1 \in Nat /\ c \in Nat
          BY <3>2, <3>3
        <5>2. next \in r.ids /\ \A y \in r.ids : next >= y
          BY <4>2, <5>1, GreatestIsMax DEF No!CursorAfter
        <5>3. next \in (c + 1)..s1
          BY <3>3, <5>2
        <5>4. next \in c..s1 /\ r.ids \subseteq 1..next
          BY <5>1, <5>2, <5>3
        <5>5. (c + 1)..next \subseteq r.ids \cup s2
          BY <3>3, <5>2
        <5> QED
          BY <5>4, <5>5
      <4> QED
        BY <4>1, <4>2
    <3> HIDE DEF next, c, q
(* Of all the batches the rows are different, and their mail is.           *)
    <3>11. \A m \in 1..Len(old) : old[m].ids \subseteq 1..c
      BY <3>1, <3>5, <3>7
    <3>12. ASSUME NEW m \in 1..Len(old), NEW n \in 1..Len(old), m # n
           PROVE  old[m].ids \cap old[n].ids = {}
      <4>1. m \in DOMAIN old /\ n \in DOMAIN old
        BY <3>7
      <4>2. PICK j \in DOMAIN q, k \in DOMAIN q : j # k /\ old[m] = q[j] /\ old[n] = q[k]
        BY <3>1, <3>12, <4>1
      <4>3. q[j].ids \cap q[k].ids = {}
        BY <3>4, <4>2
      <4> QED
        BY <4>2, <4>3
    <3>13. c \in Nat /\ r.ids \cap 1..c = {}
      BY <3>2, <3>3
    <3>14. \A m \in 1..Len(all) :
              \/ m \in 1..Len(old) /\ all[m].ids = old[m].ids
              \/ m = Len(old) + 1 /\ all[m].ids = r.ids
      BY <3>7, <3>8, <3>9
    <3>15. ASSUME NEW m \in 1..Len(all), NEW n \in 1..Len(all), m # n
           PROVE  all[m].ids \cap all[n].ids = {}
      <4>1. CASE m \in 1..Len(old) /\ n \in 1..Len(old)
            /\ all[m].ids = old[m].ids /\ all[n].ids = old[n].ids
        BY <3>12, <3>15, <4>1
      <4>2. CASE m \in 1..Len(old) /\ all[m].ids = old[m].ids /\ all[n].ids = r.ids
        BY <3>11, <3>13, <4>2
      <4>3. CASE n \in 1..Len(old) /\ all[n].ids = old[n].ids /\ all[m].ids = r.ids
        BY <3>11, <3>13, <4>3
      <4> QED
        BY <3>15, <3>14, <4>1, <4>2, <4>3
    <3>16. ASSUME NEW m \in 1..Len(all)
           PROVE  all[m].ids \subseteq 1..next
      <4>1. 1..c \subseteq 1..next
        BY <3>10, <3>13
      <4> QED
        BY <3>10, <3>11, <3>14, <4>1
    <3>17. /\ kept \in Seq(Batches) /\ Len(kept) <= MaxBatches /\ Len(kept) \in Nat
           /\ \E e \in {0, 1} : Len(kept) + e = Len(all) /\ \A m \in 1..Len(kept) : kept[m] = all[m + e]
      <4>1. CASE Len(all) > MaxBatches
        <5>1. kept = Tail(all) /\ all # <<>>
          BY <3>9, <3>7, <4>1
        <5>2. /\ Tail(all) \in Seq(Batches) /\ Len(Tail(all)) = Len(all) - 1
              /\ \A m \in 1..Len(Tail(all)) : Tail(all)[m] = all[m + 1]
          BY <3>9, <5>1, HeadTailProperties
        <5> QED
          BY <3>7, <3>9, <5>1, <5>2
      <4>2. CASE ~(Len(all) > MaxBatches)
        <5>1. kept = all
          BY <4>2
        <5> QED
          BY <3>7, <3>9, <4>2, <5>1
      <4> QED
        BY <4>1, <4>2
    <3> HIDE DEF kept
    <3>18. PICK e \in {0, 1} : Len(kept) + e = Len(all) /\ \A m \in 1..Len(kept) : kept[m] = all[m + e]
      BY <3>17
    <3>19. DOMAIN kept = 1..Len(kept) /\ Len(all) \in Nat /\ DOMAIN all = 1..Len(all)
      BY <3>7, <3>9, <3>17, LenProperties
    <3>20. \A m \in 1..Len(kept) : m + e \in 1..Len(all)
      BY <3>17, <3>18, <3>19
    <3>21. /\ s5'.cursor = next /\ s5'.batches = kept /\ s5'.notices = r.notices
           /\ s5' = [cursor |-> s5'.cursor, notices |-> s5'.notices, batches |-> s5'.batches]
      BY <2>5 DEF next, kept
    <3>22. Counts'
      BY <1>1, <2>1
    <3>23. File'
      <4>1. s6' = kept \/ s6' = s6
        BY <2>5
      <4> QED
        BY <1>1, <3>17, <4>1
    <3>24. Fields'
      <4>1. next \in 0..s1'
        BY <2>1, <3>10, <3>13, <3>2
      <4> QED
        BY <3>3, <3>17, <3>21, <4>1
    <3>25. Once'
      <4> SUFFICES ASSUME NEW m \in 1..Len(kept), NEW n \in 1..Len(kept), m # n
                   PROVE  kept[m].ids \cap kept[n].ids = {}
        BY <3>19, <3>21
      <4>1. m + e # n + e
        BY <3>17
      <4> QED
        BY <3>15, <3>18, <3>20, <4>1
    <3>26. Passed'
      BY <3>16, <3>18, <3>19, <3>20, <3>21
    <3>27. InOne'
      <4> SUFFICES ASSUME NEW i \in 1..next, i \notin s2, i \notin s8
                   PROVE  i \in s8' \/ \E m \in DOMAIN kept : i \in kept[m].ids
        BY <2>1, <2>5, <3>21
      <4>1. \E m \in DOMAIN all : i \in all[m].ids
        <5>1. CASE i \in 1..c
          <6>1. PICK k \in DOMAIN q : i \in q[k].ids
            BY <3>6, <5>1 DEF c, q
          <6>2. PICK m \in DOMAIN old : old[m] = q[k]
            BY <3>1, <6>1
          <6>3. m \in 1..Len(old) /\ m \in 1..Len(all) /\ all[m] = old[m]
            BY <3>7, <3>9, <6>2
          <6> QED
            BY <3>19, <6>1, <6>2, <6>3
        <5>2. CASE i \notin 1..c
          <6>1. i \in r.ids
            BY <3>10, <3>13, <5>2
          <6>2. Len(old) + 1 \in 1..Len(all)
            BY <3>7, <3>9
          <6> QED
            BY <3>8, <3>9, <3>19, <6>1, <6>2
        <5> QED
          BY <5>1, <5>2
      <4>2. i \in No!Named(all)
        BY <4>1, NamedMembers
      <4>3. i \in No!Named(kept) => \E m \in DOMAIN kept : i \in kept[m].ids
        BY NamedMembers
      <4>4. s8' = s8 \cup (No!Named(all) \ No!Named(kept))
        BY <2>5 DEF kept
      <4> QED
        BY <4>2, <4>3, <4>4
    <3> QED
      BY <1>2, <2>3, <3>22, <3>23, <3>24, <3>25, <3>26, <3>27
  <2> QED
    BY <2>1, <2>4, <2>5
<1>10. CASE UNCHANGED No!deliveryVars
  <2>1. UNCHANGED <<s1, s2, s3, s4, s5, s6, s7, s8>>
    BY <1>10 DEF No!deliveryVars
  <2>2. s1 \in Nat /\ Counts'
    BY <1>1, <2>1
  <2> QED
    BY <1>4, <2>1, <2>2
<1> QED
  BY <1>5, <1>7, <1>8, <1>9, <1>10 DEF No!Next, No!Deliver

-----------------------------------------------------------------------------
(* The digests of decisions.                                               *)

(* There is no decision at first and nobody sends. *)
LEMMA DigestsInitially == No!DigestsInit => No!DigestsInv
<1> SUFFICES ASSUME No!DigestsInit PROVE No!DigestsInv
  OBVIOUS
<1> USE MessagingAssumption
<1>1. /\ s1 = [n |-> 0, open |-> FALSE, sent |-> FALSE, delivered |-> {}, attempts |-> 0, due |-> TRUE]
      /\ s2 = [s \in {"poll", "notify"} |-> [of |-> 0, missing |-> {}, took |-> {}, at |-> "idle"]]
      /\ s3 = {} /\ s7 = 0 /\ s4 = FALSE /\ s5 = FALSE /\ s6 = FALSE /\ s8 = FALSE
  BY DEF No!DigestsInit, No!Unsent, No!Resting, No!Senders
<1>2. 0 \in 0..MaxDecisions /\ 0 \in 0..DeliveryTries /\ 0 \in 0..MaxLosses
  OBVIOUS
<1>3. No!DigestsTypeOK
  BY <1>1, <1>2 DEF No!DigestsTypeOK, No!Senders
<1>4. No!EachDigestOnce /\ No!SentWasShown
  BY <1>1 DEF No!EachDigestOnce, No!SentWasShown
<1> QED
  BY <1>1, <1>3, <1>4 DEF No!DigestsInv, No!Sends, No!Senders, No!Resting

(* Both senders go by the occurrence they took; only the one that has the
   current one records what it sent. *)
LEMMA DigestsStep ==
  No!DigestsInv /\ [No!DigestsNext]_(No!digestVars) => No!DigestsInv'
<1> SUFFICES ASSUME No!DigestsInv, [No!DigestsNext]_(No!digestVars)
             PROVE  No!DigestsInv'
  OBVIOUS
<1> USE MessagingAssumption
<1> DEFINE Who == {"poll", "notify"}
           At == {"idle", "sending", "sent"}
           rest == [of |-> 0, missing |-> {}, took |-> {}, at |-> "idle"]
           Rows == [n : 0..MaxDecisions, open : BOOLEAN, sent : BOOLEAN,
                    delivered : SUBSET Transport, attempts : 0..DeliveryTries, due : BOOLEAN]
           Jobs == [of : 0..MaxDecisions, missing : SUBSET Transport,
                    took : SUBSET Transport, at : At]
           Types == s1 \in Rows /\ s2 \in [Who -> Jobs] /\ s3 \subseteq Transport /\ s7 \in 0..MaxLosses
           Flags == s4 \in BOOLEAN /\ s5 \in BOOLEAN /\ s6 \in BOOLEAN /\ s8 \in BOOLEAN
           Busy(s) == s2[s].at # "idle" /\ s2[s].of = s1.n
           Job(s) == /\ s2[s].of <= s1.n
                     /\ s2[s].at = "idle" => s2[s] = rest
                     /\ Busy(s) => /\ ~s1.due
                                   /\ \A t \in Who : Busy(t) => t = s
                                   /\ Transport \ s2[s].missing \subseteq s1.delivered
                     /\ Busy(s) /\ s2[s].at = "sending" /\ s7 = 0 => s2[s].missing \cap s3 = {}
                     /\ Busy(s) /\ s2[s].at = "sent" => s2[s].took \subseteq s3
           Held == s7 = 0 => \A t \in s3 :
                      t \in s1.delivered \/ \E s \in Who : Busy(s) /\ t \in s2[s].took
           Told == ~s8 => s1.delivered \subseteq s3
           Shown == ~s8 => /\ s1.sent => s3 = Transport
                           /\ s6 => s4 \/ s3 = Transport
<1>1. Types /\ Flags /\ ~s5 /\ (\A s \in Who : Job(s)) /\ Held /\ Told /\ Shown
  <2>1. Types /\ Flags
    BY Zenon DEF No!DigestsInv, No!DigestsTypeOK, No!Senders
  <2>2. ~s5 /\ Shown /\ Told
    BY Zenon DEF No!DigestsInv, No!EachDigestOnce, No!SentWasShown
  <2>3. (\A s \in Who : Job(s)) /\ Held
    BY DEF No!DigestsInv, No!Sends, No!Senders, No!Resting
  <2> QED
    BY <2>1, <2>2, <2>3
<1>2. ASSUME Types', Flags', ~s5', \A s \in Who : Job(s)', Held', Told', Shown'
      PROVE  No!DigestsInv'
  <2>1. No!DigestsTypeOK'
    BY <1>2, Zenon DEF No!DigestsTypeOK, No!Senders
  <2>2. No!EachDigestOnce' /\ No!SentWasShown'
    BY <1>2, Zenon DEF No!EachDigestOnce, No!SentWasShown
  <2> QED
    BY <1>2, <2>1, <2>2 DEF No!DigestsInv, No!Sends, No!Senders, No!Resting
<1>3. ASSUME NEW s \in Who
      PROVE  /\ s1.n \in 0..MaxDecisions /\ s1.delivered \subseteq Transport
             /\ s1.attempts \in 0..DeliveryTries
             /\ s2[s].of \in 0..MaxDecisions /\ s2[s].missing \subseteq Transport
             /\ s2[s].took \subseteq Transport /\ s2[s].at \in At
  BY <1>1
(* The decision opens again, as a new occurrence that nobody has seen.     *)
<1>4. ASSUME ~s1.open, s1.n < MaxDecisions
      PROVE  /\ No!Unsent(s1.n + 1) \in Rows
             /\ No!Unsent(s1.n + 1).n = s1.n + 1 /\ No!Unsent(s1.n + 1).delivered = {}
             /\ No!Unsent(s1.n + 1).sent = FALSE
             /\ No!Unsent(s1.n + 1).due = TRUE
             /\ s1.n + 1 # s1.n
             /\ \A s \in Who : s2[s].of # s1.n + 1 /\ s2[s].of <= s1.n + 1
  <2>1. s1.n + 1 \in 0..MaxDecisions /\ 0 \in 0..DeliveryTries
    BY <1>3, <1>4
  <2>2. \A s \in Who : s2[s].of # s1.n + 1 /\ s2[s].of <= s1.n + 1
    <3> SUFFICES ASSUME NEW s \in Who
                 PROVE  s2[s].of # s1.n + 1 /\ s2[s].of <= s1.n + 1
      OBVIOUS
    <3>1. s2[s].of <= s1.n
      BY <1>1
    <3>2. s1.n \in Nat /\ s2[s].of \in Nat
      BY <1>3
    <3> QED
      BY <3>1, <3>2
  <2>3. s1.n + 1 # s1.n
    BY <1>1
  <2> QED
    BY <2>1, <2>2, <2>3 DEF No!Unsent
<1>5. ASSUME UNCHANGED <<s1, s2, s3, s4, s5, s6, s7, s8>>
      PROVE  No!DigestsInv'
  <2>1. Types' /\ (\A s \in Who : Job(s)') /\ Held'
    BY <1>1, <1>5
  <2>2. Flags' /\ ~s5' /\ Told' /\ Shown'
    BY <1>1, <1>5, Zenon
  <2> QED
    BY <1>2, <2>1, <2>2
<1>6. ASSUME No!OpenEntry
      PROVE  No!DigestsInv'
  <2>1. CASE s1.open
    <3>1. s1' = s1 /\ UNCHANGED <<s2, s5, s6, s7, s8>>
      BY <1>6, <2>1 DEF No!OpenEntry, No!OpenedEntry
    <3>2. UNCHANGED <<s3, s4>>
      BY <1>6, <3>1 DEF No!OpenEntry, No!Shows
    <3> QED
      BY <1>5, <3>1, <3>2
  <2>2. CASE ~s1.open
    <3>1. s1.n < MaxDecisions /\ s1' = No!Unsent(s1.n + 1) /\ UNCHANGED <<s2, s5, s6, s7, s8>>
      BY <1>6, <2>2 DEF No!OpenEntry, No!OpenedEntry, No!MayOpenEntry
    <3>2. s1'.n # s1.n
      BY <1>4, <2>2, <3>1
    <3>3. s3' = {} /\ s4' = (s4 \/ s3 = Transport)
      BY <1>6, <3>2, Zenon DEF No!OpenEntry, No!Shows
    <3>4. Types'
      BY <1>1, <1>4, <2>2, <3>1, <3>3
    <3>5. Flags' /\ ~s5'
      BY <1>1, <3>1, <3>3, Zenon
    <3>6. \A s \in Who : Job(s)'
      BY <1>1, <1>4, <2>2, <3>1, <3>3
    <3>7. Held' /\ Told'
      BY <1>4, <2>2, <3>1, <3>3
    <3>8. ~s1'.sent
      BY <1>4, <2>2, <3>1
    <3>9. Shown'
      <4>1. ASSUME ~s8', s6'
            PROVE  s4'
        BY <1>1, <3>1, <3>3, <4>1, Zenon
      <4> QED
        BY <3>8, <4>1, Zenon
    <3> QED
      BY <1>2, <3>4, <3>5, <3>6, <3>7, <3>9
  <2> QED
    BY <2>1, <2>2
<1>7. ASSUME No!EndEntry
      PROVE  No!DigestsInv'
  <2>1. s1' = [s1 EXCEPT !.open = FALSE] /\ UNCHANGED <<s2, s3, s4, s5, s6, s7, s8>>
    BY <1>7 DEF No!EndEntry
  <2>2. /\ s1' \in Rows /\ s1'.n = s1.n /\ s1'.sent = s1.sent /\ s1'.delivered = s1.delivered
        /\ s1'.due = s1.due
    BY <1>1, <2>1
  <2>3. Types' /\ (\A s \in Who : Job(s)') /\ Held'
    BY <1>1, <2>1, <2>2
  <2>4. Flags' /\ ~s5' /\ Told' /\ Shown'
    BY <1>1, <2>1, <2>2, Zenon
  <2> QED
    BY <1>2, <2>3, <2>4
(* A sender takes what is missing where nobody sends this occurrence.      *)
<1>8. ASSUME NEW s \in Who, NEW r \in Rows, r.due, No!Lease(s, r), UNCHANGED <<s6, s7, s8, s5>>,
             \/ r = s1 /\ UNCHANGED <<s3, s4>>
             \/ /\ ~s1.open /\ s1.n < MaxDecisions /\ r = No!Unsent(s1.n + 1)
                /\ s3' = {} /\ s4' = (s4 \/ s3 = Transport)
      PROVE  No!DigestsInv'
  <2>1. /\ s1' = [r EXCEPT !.due = FALSE]
        /\ s2' = [s2 EXCEPT ![s] = [of |-> r.n, missing |-> Transport \ r.delivered,
                                    took |-> {}, at |-> "sending"]]
    BY <1>8 DEF No!Lease, No!Missing
  <2>2. /\ s1' \in Rows /\ s1'.n = r.n /\ s1'.sent = r.sent /\ s1'.delivered = r.delivered
        /\ s1'.due = FALSE
    BY <1>8, <2>1
  <2>3. /\ s2' \in [Who -> Jobs] /\ s2'[s].of = r.n /\ s2'[s].at = "sending"
        /\ s2'[s].missing = Transport \ r.delivered
        /\ \A t \in Who : t # s => s2'[t] = s2[t]
    BY <1>1, <1>8, <2>1
  <2>4. \A t \in Who : ~(s2[t].at # "idle" /\ s2[t].of = r.n)
    BY <1>1, <1>4, <1>8
  <2>5. \A t \in Who : s2[t].of <= r.n
    BY <1>1, <1>4, <1>8
  <2>6. s3' \subseteq Transport /\ (s7' = 0 => s3' \subseteq r.delivered)
    BY <1>1, <1>4, <1>8, <2>4
  <2>7. Types' /\ Held'
    BY <1>1, <1>8, <2>2, <2>3, <2>6
  <2>8. \A t \in Who : Job(t)'
    <3>1. Job(s)'
      BY <1>8, <2>2, <2>3, <2>4, <2>6
    <3>2. ASSUME NEW t \in Who, t # s
          PROVE  Job(t)'
      BY <1>1, <2>2, <2>3, <2>4, <2>5, <3>2
    <3> QED
      BY <3>1, <3>2
  <2>9. Told'
    BY <1>1, <1>4, <1>8, <2>2
  <2>10. Flags' /\ ~s5'
    BY <1>1, <1>8, Zenon
  <2>11. ~s8' /\ s1'.sent => s3' = Transport
    BY <1>1, <1>4, <1>8, <2>2
  <2>12. ASSUME ~s8', s6'
         PROVE  s4' \/ s3' = Transport
    <3>1. s4 \/ s3 = Transport
      BY <1>1, <1>8, <2>12, Zenon
    <3>2. CASE UNCHANGED <<s3, s4>>
      BY <3>1, <3>2, Zenon
    <3>3. CASE s4' = (s4 \/ s3 = Transport)
      BY <3>1, <3>3, Zenon
    <3> QED
      BY <1>8, <3>2, <3>3, Zenon
  <2>13. Shown'
    BY <2>11, <2>12, Zenon
  <2> QED
    BY <1>2, <2>7, <2>8, <2>9, <2>10, <2>13
<1>9. ASSUME No!PollFlush
      PROVE  No!DigestsInv'
  <2>1. s1.due /\ No!Lease("poll", s1) /\ UNCHANGED <<s3, s4, s5, s6, s7, s8>>
    BY <1>9 DEF No!PollFlush, No!Due
  <2> QED
    BY <1>1, <1>8, <2>1
<1>10. ASSUME No!DeliverDigest
       PROVE  No!DigestsInv'
  <2> DEFINE r == No!OpenedEntry(s1)
  <2>1. \/ r = s1 /\ UNCHANGED <<s3, s4>>
        \/ /\ ~s1.open /\ s1.n < MaxDecisions /\ r = No!Unsent(s1.n + 1)
           /\ s3' = {} /\ s4' = (s4 \/ s3 = Transport)
    <3>1. CASE s1.open
      BY <1>10, <3>1 DEF No!DeliverDigest, No!OpenedEntry, No!Shows
    <3>2. CASE ~s1.open
      <4>1. s1.n < MaxDecisions /\ r = No!Unsent(s1.n + 1)
        BY <1>10, <3>2 DEF No!DeliverDigest, No!OpenedEntry, No!MayOpenEntry
      <4>2. r.n # s1.n
        BY <1>4, <3>2, <4>1
      <4>3. s3' = {} /\ s4' = (s4 \/ s3 = Transport)
        BY <1>10, <4>2, Zenon DEF No!DeliverDigest, No!Shows
      <4> QED
        BY <3>2, <4>1, <4>3
    <3> QED
      BY <3>1, <3>2
  <2>2. r \in Rows
    BY <1>1, <1>4, <2>1
  <2>3. CASE No!Due(r)
    <3>1. r.due /\ No!Lease("notify", r) /\ UNCHANGED <<s5, s6, s7, s8>>
      BY <1>10, <2>3 DEF No!DeliverDigest, No!Due
    <3> QED
      BY <1>8, <2>1, <2>2, <3>1
  <2>4. CASE ~No!Due(r)
    <3>1. s1' = r /\ s6' = r.sent /\ UNCHANGED <<s2, s5, s7, s8>>
      BY <1>10, <2>4, Zenon DEF No!DeliverDigest
    <3>2. CASE r = s1 /\ UNCHANGED <<s3, s4>>
      <4>1. Types' /\ (\A s \in Who : Job(s)') /\ Held'
        BY <1>1, <3>1, <3>2
      <4>2. s1.sent \in BOOLEAN
        BY <1>1
      <4>3. Flags' /\ ~s5' /\ Told' /\ Shown'
        BY <1>1, <3>1, <3>2, <4>2, Zenon
      <4> QED
        BY <1>2, <4>1, <4>3
    <3>3. CASE /\ ~s1.open /\ s1.n < MaxDecisions /\ r = No!Unsent(s1.n + 1)
               /\ s3' = {} /\ s4' = (s4 \/ s3 = Transport)
      <4>1. r.sent = FALSE
        BY <1>4, <3>3
      <4>2. s6' = FALSE
        BY <3>1, <4>1, Zenon
      <4>3. Types'
        BY <1>1, <1>4, <3>1, <3>3
      <4>4. Flags' /\ ~s5'
        BY <1>1, <3>1, <3>3, <4>2, Zenon
      <4>5. \A s \in Who : Job(s)'
        BY <1>1, <1>4, <3>1, <3>3
      <4>6. Held' /\ Told'
        BY <1>4, <3>1, <3>3
      <4>7. Shown'
        BY <3>1, <4>1, <4>2, Zenon
      <4> QED
        BY <1>2, <4>3, <4>4, <4>5, <4>6, <4>7
    <3> QED
      BY <2>1, <3>2, <3>3
  <2> QED
    BY <2>3, <2>4
<1>11. ASSUME NEW s \in Who, No!Send(s)
       PROVE  No!DigestsInv'
  <2>1. PICK took \in SUBSET s2[s].missing :
           /\ s2' = [s2 EXCEPT ![s].took = took, ![s].at = "sent"]
           /\ IF s2[s].of = s1.n
              THEN s3' = s3 \cup took /\ s5' = (s5 \/ (s7 = 0 /\ s3 \cap took # {}))
              ELSE UNCHANGED <<s3, s5>>
    BY <1>11, Zenon DEF No!Send
  <2>2. s2[s].at = "sending" /\ UNCHANGED <<s1, s4, s6, s7, s8>>
    BY <1>11 DEF No!Send
  <2>3. /\ s2'[s].of = s2[s].of /\ s2'[s].missing = s2[s].missing
        /\ s2'[s].took = took /\ s2'[s].at = "sent"
        /\ \A t \in Who : t # s => s2'[t] = s2[t]
        /\ s2' \in [Who -> Jobs]
    <3>1. s2[s] \in Jobs /\ took \in SUBSET Transport
      BY <1>1, <1>3
    <3>2. s2' = [s2 EXCEPT ![s] = [s2[s] EXCEPT !.took = took, !.at = "sent"]]
      BY <2>1
    <3>3. [s2[s] EXCEPT !.took = took, !.at = "sent"] \in Jobs
      BY <3>1
    <3> QED
      BY <1>1, <3>1, <3>2, <3>3
  <2>4. \A t \in Who : Busy(t)' <=> Busy(t)
    BY <2>2, <2>3
  <2>5. CASE s2[s].of = s1.n
    <3>1. s3' = s3 \cup took
      BY <2>1, <2>5, Zenon
    <3>2. s7 = 0 => s2[s].missing \cap s3 = {}
      BY <1>1, <2>2, <2>5
    <3>3. s7 = 0 => s3 \cap took = {}
      BY <3>2
    <3>4. ~s5'
      BY <1>1, <2>1, <2>5, <3>3, Zenon
    <3>5. Flags'
      BY <1>1, <2>1, <2>2, <2>5, Zenon
    <3>6. Types' /\ Told'
      BY <1>1, <1>3, <2>2, <2>3, <3>1
    <3>7. Shown'
      BY <1>1, <1>3, <2>2, <3>1
    <3>8. \A t \in Who : Busy(t) => t = s
      BY <1>1, <2>2, <2>5
    <3>9. \A t \in Who : Job(t)'
      BY <1>1, <2>2, <2>3, <2>4, <2>5, <3>1, <3>8
    <3>10. Held'
      BY <1>1, <1>3, <2>2, <2>3, <2>4, <2>5, <3>1, <3>2, <3>8
    <3> QED
      BY <1>2, <3>4, <3>5, <3>6, <3>7, <3>9, <3>10
  <2>6. CASE s2[s].of # s1.n
    <3>1. UNCHANGED <<s3, s5>>
      BY <2>1, <2>6, Zenon
    <3>2. Types'
      BY <1>1, <2>2, <2>3, <3>1
    <3>3. Flags' /\ ~s5' /\ Told' /\ Shown'
      BY <1>1, <2>2, <3>1, Zenon
    <3>4. \A t \in Who : Job(t)'
      BY <1>1, <2>2, <2>3, <2>4, <2>6, <3>1
    <3>5. Held'
      BY <1>1, <2>2, <2>3, <2>4, <2>6, <3>1
    <3> QED
      BY <1>2, <3>2, <3>3, <3>4, <3>5
  <2> QED
    BY <2>5, <2>6
<1>12. ASSUME NEW s \in Who, No!Record(s)
       PROVE  No!DigestsInv'
  <2>1. /\ s2[s].at = "sent" /\ s2' = [s2 EXCEPT ![s] = rest]
        /\ s1' = No!Outcome(s1, s2[s])
        /\ UNCHANGED <<s3, s4, s5, s7>>
    BY <1>12 DEF No!Record, No!Resting
  <2>2. /\ s6' = (s6 \/ (s = "notify" /\ s1'.sent))
        /\ s8' = (s8 \/ s2[s].of # s1.n)
    BY <1>12, Zenon DEF No!Record
  <2>3. /\ s1' \in Rows /\ s1'.n = s1.n /\ s1'.due = s1.due
        /\ s1'.delivered = s1.delivered \cup s2[s].took
        /\ s1'.sent => s1.sent \/ s2[s].took = s2[s].missing
    <3> DEFINE d == [s1 EXCEPT !.delivered = s1.delivered \cup s2[s].took]
    <3>1. d \in Rows /\ d.n = s1.n /\ d.due = s1.due /\ d.sent = s1.sent
          /\ d.delivered = s1.delivered \cup s2[s].took /\ d.attempts = s1.attempts
      BY <1>1, <1>3
    <3>2. s1' = IF s2[s].took = s2[s].missing THEN [d EXCEPT !.sent = TRUE]
                ELSE IF s1.attempts < DeliveryTries THEN [d EXCEPT !.attempts = d.attempts + 1]
                ELSE d
      BY <2>1 DEF No!Outcome
    <3> HIDE DEF d
    <3>3. CASE s2[s].took = s2[s].missing
      BY <3>1, <3>2, <3>3
    <3>4. CASE s2[s].took # s2[s].missing /\ s1.attempts < DeliveryTries
      <4>1. s1' = [d EXCEPT !.attempts = d.attempts + 1] /\ d.attempts + 1 \in 0..DeliveryTries
        BY <1>3, <3>1, <3>2, <3>4
      <4> QED
        BY <3>1, <4>1
    <3>5. CASE s2[s].took # s2[s].missing /\ ~(s1.attempts < DeliveryTries)
      BY <3>1, <3>2, <3>5
    <3> QED
      BY <3>3, <3>4, <3>5
  <2>4. s2' \in [Who -> Jobs] /\ s2'[s] = rest /\ \A t \in Who : t # s => s2'[t] = s2[t]
    BY <1>1, <2>1
  <2>5. Types'
    BY <1>1, <2>1, <2>3, <2>4
  <2>6. Flags' /\ ~s5'
    BY <1>1, <2>1, <2>2, <2>3, Zenon
  <2>7. \A t \in Who : Job(t)'
    <3>1. 0 <= s1'.n /\ s7' = s7
      BY <1>3, <2>1, <2>3
    <3>2. Job(s)'
      BY <2>4, <3>1
    <3>3. ASSUME NEW t \in Who, t # s
          PROVE  Job(t)'
      <4>1. s2'[t] = s2[t] /\ (\A u \in Who : Busy(u)' => Busy(u))
        BY <2>3, <2>4, <3>3
      <4>2. Job(t)
        BY <1>1
      <4> QED
        BY <2>1, <2>3, <3>1, <4>1, <4>2
    <3> QED
      BY <3>2, <3>3
  <2>8. Held'
    BY <1>1, <2>1, <2>3, <2>4
  <2>9. ~s8' => ~s8 /\ s2[s].of = s1.n
    BY <2>2, Zenon
  <2>10. ~s8' => s1.delivered \subseteq s3 /\ s2[s].took \subseteq s3
    BY <1>1, <2>1, <2>9
  <2>11. Told'
    BY <2>1, <2>3, <2>10
  <2>12. ~s8' /\ s1'.sent => s3 = Transport
    <3>1. ASSUME ~s8', s2[s].took = s2[s].missing
          PROVE  s3 = Transport
      <4>1. Transport \ s2[s].missing \subseteq s1.delivered
        BY <1>1, <2>1, <2>9, <3>1
      <4> QED
        BY <1>1, <2>10, <3>1, <4>1
    <3> QED
      BY <1>1, <2>3, <2>9, <3>1
  <2>13. ASSUME ~s8', s6'
         PROVE  s4' \/ s3' = Transport
    <3>1. s6 \/ s1'.sent
      BY <2>2, <2>13, Zenon
    <3>2. s6 => s4 \/ s3 = Transport
      BY <1>1, <2>9, <2>13, Zenon
    <3>3. s3' = s3 /\ s4' = s4
      BY <2>1
    <3> QED
      BY <2>12, <2>13, <3>1, <3>2, <3>3, Zenon
  <2>14. Shown'
    <3>1. s3' = s3
      BY <2>1
    <3> QED
      BY <2>12, <2>13, <3>1, Zenon
  <2> QED
    BY <1>2, <2>5, <2>6, <2>7, <2>8, <2>11, <2>14
<1>13. CASE No!Elsewhere
  <2>1. s6' = FALSE /\ UNCHANGED <<s1, s2, s3, s4, s5, s7, s8>>
    BY <1>13 DEF No!Elsewhere
  <2>2. Types' /\ (\A s \in Who : Job(s)') /\ Held'
    BY <1>1, <2>1
  <2>3. Flags' /\ ~s5' /\ Told' /\ Shown'
    BY <1>1, <2>1, Zenon
  <2> QED
    BY <1>2, <2>2, <2>3
<1>14. CASE No!RetryComes
  <2>1. /\ s1' = [s1 EXCEPT !.due = TRUE] /\ UNCHANGED <<s2, s3, s4, s5, s6, s7, s8>>
        /\ \A s \in Who : s2[s] = rest
    BY <1>14 DEF No!RetryComes, No!Senders, No!Resting
  <2>2. /\ s1' \in Rows /\ s1'.n = s1.n /\ s1'.sent = s1.sent /\ s1'.delivered = s1.delivered
    BY <1>1, <2>1
  <2>3. Types' /\ (\A s \in Who : Job(s)') /\ Held'
    BY <1>1, <2>1, <2>2
  <2>4. Flags' /\ ~s5' /\ Told' /\ Shown'
    BY <1>1, <2>1, <2>2, Zenon
  <2> QED
    BY <1>2, <2>3, <2>4
<1>15. CASE No!Lose
  <2>1. /\ s7' = s7 + 1 /\ s7 < MaxLosses /\ s2' = [s \in Who |-> rest]
        /\ UNCHANGED <<s1, s3, s4, s5, s6, s8>>
    BY <1>15 DEF No!Lose, No!Senders, No!Resting
  <2>2. s7' \in 0..MaxLosses /\ s7' # 0
    BY <1>1, <2>1
  <2>3. s1.n >= 0 /\ 0 \in 0..MaxDecisions
    BY <1>1
  <2>4. Types' /\ (\A s \in Who : Job(s)') /\ Held'
    BY <1>1, <2>1, <2>2, <2>3
  <2>5. Flags' /\ ~s5' /\ Told' /\ Shown'
    BY <1>1, <2>1, Zenon
  <2> QED
    BY <1>2, <2>4, <2>5
<1>16. CASE UNCHANGED No!digestVars
  BY <1>5, <1>16 DEF No!digestVars
<1> QED
  BY <1>6, <1>7, <1>9, <1>10, <1>11, <1>12, <1>13, <1>14, <1>15, <1>16
     DEF No!DigestsNext, No!Senders

-----------------------------------------------------------------------------
(* Messages and the acknowledgements they ask for.                         *)

(* There is no mail at first. *)
LEMMA MailInitially == Ma!Init => Ma!MailInv
<1> SUFFICES ASSUME Ma!Init PROVE Ma!MailInv
  OBVIOUS
<1> USE MessagingAssumption
<1> QED
  BY DEF Ma!Init, Ma!MailInv, Ma!TypeOK

(* What a poll read as overdue is still there when it acts on it, and every
   message it changes or prunes is one it may: the three action properties
   follow from the same cases. *)
LEMMA MailStep ==
  Ma!MailInv /\ [Ma!Next]_(Ma!mailVars) =>
    /\ Ma!MailInv'
    /\ Ma!UnsettledMailIsKeptStep /\ Ma!RetiredAcksWereReportedStep
    /\ Ma!ReplacedMailHasASuccessorStep
<1> SUFFICES ASSUME Ma!MailInv, [Ma!Next]_(Ma!mailVars)
             PROVE  /\ Ma!MailInv'
                    /\ Ma!UnsettledMailIsKeptStep /\ Ma!RetiredAcksWereReportedStep
                    /\ Ma!ReplacedMailHasASuccessorStep
  OBVIOUS
<1> USE MessagingAssumption
<1> DEFINE Goal == /\ Ma!MailInv'
                   /\ Ma!UnsettledMailIsKeptStep /\ Ma!RetiredAcksWereReportedStep
                   /\ Ma!ReplacedMailHasASuccessorStep
           Deliveries == [state : {"none", "unread", "read", "acked"},
                          withdrawn : {"no", "replaced", "returned"}]
           Messages == [sender : Lane, key : MailKey, topic : Topic,
                        ask : {"no", "asked", "told", "refused", "retired"},
                        due : BOOLEAN, old : BOOLEAN, to : [Lane -> Deliveries]]
           pruned == [sender |-> "nobody"]
           Rows == Messages \cup {pruned}
           Poll == /\ s4 \subseteq DOMAIN s1 /\ \A i \in s4 : s1[i] # pruned
                   /\ s5 \subseteq (DOMAIN s1) \X Lane /\ \A r \in s5 : s1[r[1]] # pruned
           Lanes == s2 \subseteq Lane /\ s3 \subseteq Lane /\ s6 \in 0..MaxStops
           Settled(m) == \A l \in Lane :
                           /\ m.to[l].state # "unread"
                           /\ m.ask \in {"asked", "told", "refused"} => m.to[l].state # "read"
           Goes(m, n) == /\ n \in Messages
                         /\ m.ask = "asked" => n.ask # "retired"
           Stays(m, n) == /\ Goes(m, n)
                          /\ \A l \in Lane : m.to[l].withdrawn = "no" => n.to[l].withdrawn # "replaced"
           Over(m, n) == m = n \/ (m \in Messages /\ Stays(m, n))
<1>1. s1 \in Seq(Rows) /\ Poll /\ Lanes
  BY DEF Ma!MailInv, Ma!TypeOK, Ma!Live, Ma!Message, Ma!Delivery, Ma!Pruned
<1>2. DOMAIN s1 = 1..Len(s1) /\ Len(s1) \in Nat /\ \A i \in DOMAIN s1 : s1[i] \in Rows
  BY <1>1, LenProperties, ElementOfSeq
<1>3. \A m \in Messages : m # pruned
  OBVIOUS
<1>4. \A i \in DOMAIN s1 : (i \in Ma!Live <=> s1[i] # pruned) /\ (i \in Ma!Live => s1[i] \in Messages)
  BY <1>2 DEF Ma!Live, Ma!Pruned
<1>5. Ma!Live \subseteq DOMAIN s1
  BY DEF Ma!Live
(* Where every message stays what the properties ask of it.                *)
<1>6. ASSUME s1' = [i \in DOMAIN s1 |-> s1'[i]], \A i \in DOMAIN s1 : Over(s1[i], s1'[i]),
             s4' \subseteq s4 \cup Ma!Live, s5' \subseteq s5 \cup (Ma!Live \X Lane), Lanes'
      PROVE  Goal
  <2>1. \A i \in DOMAIN s1 : s1'[i] \in Rows /\ (s1[i] # pruned => s1'[i] # pruned)
    BY <1>2, <1>3, <1>6
  <2>2. s1' \in Seq(Rows) /\ DOMAIN s1' = DOMAIN s1
    <3>1. s1' \in [1..Len(s1) -> Rows]
      BY <1>2, <1>6, <2>1
    <3> QED
      BY <1>2, <3>1
  <2>3. Poll'
    <3>1. s4' \subseteq DOMAIN s1' /\ \A i \in s4' : s1'[i] # pruned
      BY <1>1, <1>4, <1>5, <1>6, <2>1, <2>2
    <3>2. s5' \subseteq (DOMAIN s1') \X Lane
      BY <1>1, <1>5, <1>6, <2>2
    <3>3. \A r \in s5' : s1[r[1]] # pruned /\ r[1] \in DOMAIN s1
      <4> SUFFICES ASSUME NEW r \in s5'
                   PROVE  s1[r[1]] # pruned /\ r[1] \in DOMAIN s1
        OBVIOUS
      <4>1. CASE r \in s5
        BY <1>1, <4>1
      <4>2. CASE r \in Ma!Live \X Lane
        BY <1>4, <1>5, <4>2
      <4> QED
        BY <1>6, <4>1, <4>2
    <3>4. \A r \in s5' : s1'[r[1]] # pruned
      BY <2>1, <3>3
    <3> QED
      BY <3>1, <3>2, <3>4
  <2>4. Ma!MailInv'
    BY <1>6, <2>2, <2>3
       DEF Ma!MailInv, Ma!TypeOK, Ma!Live, Ma!Message, Ma!Delivery, Ma!Pruned
  <2>5. Ma!UnsettledMailIsKeptStep
    BY <1>4, <1>5, <2>1 DEF Ma!UnsettledMailIsKeptStep, Ma!Pruned
  <2>6. Ma!RetiredAcksWereReportedStep
    BY <1>4, <1>5, <1>6 DEF Ma!RetiredAcksWereReportedStep
  <2>7. Ma!ReplacedMailHasASuccessorStep
    BY <1>4, <1>5, <1>6 DEF Ma!ReplacedMailHasASuccessorStep
  <2> QED
    BY <2>4, <2>5, <2>6, <2>7
<1> HIDE DEF Goal
<1>7. ASSUME NEW i \in Ma!Live, NEW n, s1' = [s1 EXCEPT ![i] = n], Stays(s1[i], n),
             UNCHANGED <<s2, s3, s5, s6>>, s4' \subseteq s4
      PROVE  Goal
  <2>1. s1' = [j \in DOMAIN s1 |-> s1'[j]] /\ s1'[i] = n
        /\ \A j \in DOMAIN s1 : j # i => s1'[j] = s1[j]
    BY <1>5, <1>7
  <2> HIDE DEF Stays
  <2>2. \A j \in DOMAIN s1 : Over(s1[j], s1'[j])
    BY <1>4, <1>7, <2>1
  <2>3. s5' \subseteq s5 \cup (Ma!Live \X Lane) /\ s4' \subseteq s4 \cup Ma!Live /\ Lanes'
    BY <1>1, <1>7
  <2> USE DEF Stays
  <2> QED
    BY <1>6, <2>1, <2>2, <2>3
(* A delivery gets another state.                                          *)
<1>8. ASSUME NEW m \in Messages, NEW l \in Lane, NEW st \in {"read", "acked"}
      PROVE  Stays(m, [m EXCEPT !.to = [m.to EXCEPT ![l] = [m.to[l] EXCEPT !.state = st]]])
  <2> DEFINE d == [m.to[l] EXCEPT !.state = st]
             to == [m.to EXCEPT ![l] = d]
             n == [m EXCEPT !.to = to]
  <2>1. d \in Deliveries /\ d.withdrawn = m.to[l].withdrawn
    BY <1>8
  <2> HIDE DEF d
  <2>2. to \in [Lane -> Deliveries] /\ \A k \in Lane : to[k].withdrawn = m.to[k].withdrawn
    BY <1>8, <2>1
  <2> HIDE DEF to
  <2>3. n \in Messages /\ n.to = to /\ n.ask = m.ask
    BY <1>8, <2>2
  <2> HIDE DEF n
  <2>4. Stays(m, n)
    BY <2>2, <2>3
  <2> QED
    BY <2>4 DEF n, to, d
<1>9. ASSUME NEW i \in Ma!Live, NEW l \in Lane, Ma!Read(i, l) \/ Ma!Acknowledge(i, l)
      PROVE  Goal
  <2>1. PICK st \in {"read", "acked"} : s1' = [s1 EXCEPT ![i].to[l].state = st]
    BY <1>9 DEF Ma!Read, Ma!Acknowledge, Ma!SetDelivery
  <2>2. UNCHANGED <<s2, s3, s4, s5, s6>>
    BY <1>9 DEF Ma!Read, Ma!Acknowledge
  <2> DEFINE n == [s1[i] EXCEPT !.to = [s1[i].to EXCEPT ![l] = [s1[i].to[l] EXCEPT !.state = st]]]
  <2>3. s1' = [s1 EXCEPT ![i] = n]
    BY <2>1
  <2>4. Stays(s1[i], n)
    BY <1>4, <1>5, <1>8
  <2> HIDE DEF n, Stays
  <2> QED
    BY <1>7, <2>2, <2>3, <2>4
<1>10. ASSUME NEW i \in Ma!Live, Ma!OperatorAcknowledges(i)
       PROVE  Goal
  <2> DEFINE m == s1[i]
             to == [l \in Lane |-> IF m.to[l].state = "none" THEN m.to[l]
                                   ELSE [m.to[l] EXCEPT !.state = "acked"]]
             n == [m EXCEPT !.to = to]
  <2>1. s1' = [s1 EXCEPT ![i] = n] /\ UNCHANGED <<s2, s3, s4, s5, s6>>
    BY <1>10 DEF Ma!OperatorAcknowledges
  <2>2. m \in Messages
    BY <1>4, <1>5
  <2> HIDE DEF m
  <2>3. to \in [Lane -> Deliveries] /\ \A l \in Lane : to[l].withdrawn = m.to[l].withdrawn
    BY <2>2
  <2> HIDE DEF to
  <2>4. n \in Messages /\ n.to = to /\ n.ask = m.ask
    BY <2>2, <2>3
  <2>5. Stays(m, n)
    BY <2>3, <2>4
  <2> USE DEF m
  <2> HIDE DEF n, Stays
  <2> QED
    BY <1>7, <2>1, <2>5
(* Withdrawing what is outstanding, for another reason than a newer message. *)
<1>11. ASSUME NEW m \in Messages, NEW l \in Lane
       PROVE  /\ Ma!Withdrawn(m, l, "returned") \in Deliveries
              /\ m.to[l].withdrawn = "no" => Ma!Withdrawn(m, l, "returned").withdrawn # "replaced"
  <2>1. m.to[l] \in Deliveries
    OBVIOUS
  <2> QED
    BY <2>1 DEF Ma!Withdrawn
<1>12. ASSUME NEW m \in Messages, NEW to \in [Lane -> Deliveries],
              \A l \in Lane : to[l] = m.to[l] \/ to[l] = Ma!Withdrawn(m, l, "returned")
                              \/ to[l].withdrawn = "returned"
       PROVE  Stays(m, [m EXCEPT !.to = to])
  <2> DEFINE n == [m EXCEPT !.to = to]
  <2>1. n \in Messages /\ n.to = to /\ n.ask = m.ask
    OBVIOUS
  <2> HIDE DEF n
  <2>2. \A l \in Lane : m.to[l].withdrawn = "no" => to[l].withdrawn # "replaced"
    BY <1>11, <1>12
  <2> QED
    BY <2>1, <2>2 DEF n
(* Steps that withdraw from many messages at once.                         *)
<1>13. ASSUME NEW W \in SUBSET Ma!Live, NEW to,
              s1' = [i \in DOMAIN s1 |-> IF i \in W THEN [s1[i] EXCEPT !.to = to[i]] ELSE s1[i]],
              \A i \in W : Stays(s1[i], [s1[i] EXCEPT !.to = to[i]]),
              s4' \subseteq s4, s5' \subseteq s5 \cup (Ma!Live \X Lane), Lanes'
       PROVE  Goal
  <2> HIDE DEF Stays
  <2>1. \A i \in DOMAIN s1 : Over(s1[i], s1'[i])
    BY <1>4, <1>13
  <2>2. s1' = [i \in DOMAIN s1 |-> s1'[i]]
    BY <1>13
  <2> USE DEF Stays
  <2> QED
    BY <1>6, <1>13, <2>1, <2>2
<1>14. ASSUME NEW s, NEW W \in SUBSET Ma!Live, Ma!EndClaim(s, W)
       PROVE  Goal
  <2> DEFINE to == [i \in Ma!Live |-> [l \in Lane |-> Ma!Withdrawn(s1[i], l, "returned")]]
  <2>1. s1' = [i \in DOMAIN s1 |-> IF i \in W THEN [s1[i] EXCEPT !.to = to[i]] ELSE s1[i]]
    BY <1>14 DEF Ma!EndClaim
  <2>2. UNCHANGED <<s2, s3, s4, s5, s6>>
    BY <1>14 DEF Ma!EndClaim
  <2>3. ASSUME NEW i \in W
        PROVE  Stays(s1[i], [s1[i] EXCEPT !.to = to[i]])
    <3>1. s1[i] \in Messages
      BY <1>4, <1>5
    <3>2. to[i] = [l \in Lane |-> Ma!Withdrawn(s1[i], l, "returned")]
      OBVIOUS
    <3>3. to[i] \in [Lane -> Deliveries]
      BY <1>11, <3>1, <3>2
    <3> HIDE DEF to, Stays
    <3> QED
      BY <1>12, <3>1, <3>2, <3>3
  <2> HIDE DEF to, Stays
  <2> QED
    BY <1>1, <1>13, <2>1, <2>2, <2>3
<1>15. ASSUME NEW l \in Lane, Ma!SupersedeRecipient(l)
       PROVE  Goal
  <2> DEFINE to == [i \in Ma!Live |-> [s1[i].to EXCEPT ![l] = Ma!Withdrawn(s1[i], l, "returned")]]
  <2>1. s1' = [i \in DOMAIN s1 |-> IF i \in Ma!Live THEN [s1[i] EXCEPT !.to = to[i]] ELSE s1[i]]
    BY <1>15 DEF Ma!SupersedeRecipient
  <2>2. UNCHANGED <<s2, s3, s4, s5, s6>>
    BY <1>15 DEF Ma!SupersedeRecipient
  <2>3. ASSUME NEW i \in Ma!Live
        PROVE  Stays(s1[i], [s1[i] EXCEPT !.to = to[i]])
    <3>1. s1[i] \in Messages
      BY <1>4, <1>5
    <3>2. to[i] = [s1[i].to EXCEPT ![l] = Ma!Withdrawn(s1[i], l, "returned")]
      OBVIOUS
    <3>3. Ma!Withdrawn(s1[i], l, "returned") \in Deliveries
      BY <1>11, <3>1
    <3>4. /\ to[i] \in [Lane -> Deliveries]
          /\ \A k \in Lane : to[i][k] = s1[i].to[k] \/ to[i][k] = Ma!Withdrawn(s1[i], k, "returned")
      BY <3>1, <3>2, <3>3
    <3> HIDE DEF to, Stays
    <3> QED
      BY <1>12, <3>1, <3>4
  <2> HIDE DEF to, Stays
  <2> QED
    BY <1>1, <1>13, <2>1, <2>2, <2>3
<1>16. ASSUME NEW l \in Lane, Ma!ReturnStale(l)
       PROVE  Goal
  <2> DEFINE W == {i \in Ma!Live : s1[i].old /\ Ma!Outstanding(s1[i], l)}
             to == [i \in Ma!Live |->
                      [s1[i].to EXCEPT ![l] = [s1[i].to[l] EXCEPT !.withdrawn = "returned"]]]
  <2>1. s1' = [i \in DOMAIN s1 |-> IF i \in W THEN [s1[i] EXCEPT !.to = to[i]] ELSE s1[i]]
    BY <1>16 DEF Ma!ReturnStale
  <2>2. UNCHANGED <<s2, s3, s4, s6>> /\ s5' \subseteq s5 \cup (Ma!Live \X Lane)
    BY <1>16 DEF Ma!ReturnStale
  <2>3. ASSUME NEW i \in W
        PROVE  Stays(s1[i], [s1[i] EXCEPT !.to = to[i]])
    <3>1. s1[i] \in Messages
      BY <1>4, <1>5
    <3>2. to[i] = [s1[i].to EXCEPT ![l] = [s1[i].to[l] EXCEPT !.withdrawn = "returned"]]
      OBVIOUS
    <3>3. /\ [s1[i].to[l] EXCEPT !.withdrawn = "returned"] \in Deliveries
          /\ [s1[i].to[l] EXCEPT !.withdrawn = "returned"].withdrawn = "returned"
      BY <3>1
    <3>4. /\ to[i] \in [Lane -> Deliveries]
          /\ \A k \in Lane : to[i][k] = s1[i].to[k] \/ to[i][k].withdrawn = "returned"
      BY <3>1, <3>2, <3>3
    <3> HIDE DEF to, Stays
    <3> QED
      BY <1>12, <3>1, <3>4
  <2> HIDE DEF W, to, Stays
  <2>4. W \in SUBSET Ma!Live
    BY DEF W
  <2> QED
    BY <1>1, <1>13, <2>1, <2>2, <2>3, <2>4
(* Steps that leave the messages.                                          *)
<1>17. ASSUME s1' = s1, s4' \subseteq s4 \cup Ma!Live, s5' \subseteq s5 \cup (Ma!Live \X Lane), Lanes'
       PROVE  Goal
  <2>1. s1' = [i \in DOMAIN s1 |-> s1'[i]] /\ \A i \in DOMAIN s1 : Over(s1[i], s1'[i])
    <3>1. s1 = [i \in DOMAIN s1 |-> s1[i]]
      BY <1>1, <1>2
    <3> QED
      BY <1>17, <3>1
  <2> QED
    BY <1>6, <1>17, <2>1
<1>18. ASSUME NEW l \in Lane, Ma!Revoke(l)
       PROVE  Goal
  <2>1. UNCHANGED <<s1, s3, s4, s5>> /\ s2' \subseteq s2 /\ s6 < MaxStops /\ s6' = s6 + 1
    BY <1>18 DEF Ma!Revoke
  <2>2. Lanes'
    BY <1>1, <2>1
  <2> QED
    BY <1>17, <2>1, <2>2
<1>19. ASSUME NEW l \in Mortal, Ma!Die(l)
       PROVE  Goal
  <2>1. UNCHANGED <<s1, s2, s4, s5, s6>> /\ s3' \in {s3 \cup {l}, s3 \ {l}}
    BY <1>19 DEF Ma!Die
  <2>2. Lanes'
    BY <1>1, <2>1
  <2> QED
    BY <1>17, <2>1, <2>2
<1>20. ASSUME Ma!Stop
       PROVE  Goal
  <2>1. UNCHANGED <<s1, s2, s3>> /\ s4' = {} /\ s5' = {} /\ s6 < MaxStops /\ s6' = s6 + 1
    BY <1>20 DEF Ma!Stop
  <2>2. Lanes'
    BY <1>1, <2>1
  <2>3. s4' \subseteq s4 \cup Ma!Live /\ s5' \subseteq s5 \cup (Ma!Live \X Lane) /\ s1' = s1
    BY <2>1
  <2> QED
    BY <1>17, <2>2, <2>3
<1>21. ASSUME Ma!ReadOverdue
       PROVE  Goal
  <2>1. s4' \subseteq Ma!Live /\ UNCHANGED <<s1, s2, s3, s5, s6>>
    BY <1>21 DEF Ma!ReadOverdue
  <2>2. s4' \subseteq s4 \cup Ma!Live /\ s5' \subseteq s5 \cup (Ma!Live \X Lane) /\ s1' = s1 /\ Lanes'
    BY <1>1, <2>1
  <2> QED
    BY <1>17, <2>2
<1>22. ASSUME NEW r \in s5, Ma!ReportReturned(r[1], r[2])
       PROVE  Goal
  <2>1. s5' \subseteq s5 /\ UNCHANGED <<s1, s2, s3, s4, s6>>
    BY <1>22 DEF Ma!ReportReturned
  <2>2. s4' \subseteq s4 \cup Ma!Live /\ s5' \subseteq s5 \cup (Ma!Live \X Lane) /\ s1' = s1 /\ Lanes'
    BY <1>1, <2>1
  <2> QED
    BY <1>17, <2>2
(* Steps that change what one message asks, or its age.                    *)
<1>23. ASSUME NEW i \in s4, Ma!TellSender(i)
       PROVE  Goal
  <2> DEFINE n == [s1[i] EXCEPT !.ask = IF s1[i].sender \in s2 THEN "told" ELSE "refused"]
  <2>1. s1' = [s1 EXCEPT ![i] = n] /\ UNCHANGED <<s2, s3, s4, s5, s6>> /\ i \in Ma!Live
    BY <1>1, <1>4, <1>23 DEF Ma!TellSender
  <2>2. s1[i] \in Messages
    BY <1>4, <1>5, <2>1
  <2>3. n \in Messages /\ n.to = s1[i].to /\ n.ask \in {"told", "refused"}
    BY <2>2
  <2> HIDE DEF n
  <2>4. Stays(s1[i], n)
    BY <2>3
  <2> HIDE DEF Stays
  <2> QED
    BY <1>7, <2>1, <2>4
<1>24. ASSUME NEW i \in s4, Ma!RetireAck(i)
       PROVE  Goal
  <2> DEFINE n == [s1[i] EXCEPT !.ask = IF Ma!Asks(s1[i]) THEN "retired" ELSE s1[i].ask]
  <2>1. /\ s1' = [s1 EXCEPT ![i] = n] /\ s1[i].ask # "asked" /\ i \in Ma!Live
        /\ UNCHANGED <<s2, s3, s5, s6>> /\ s4' \subseteq s4
    BY <1>1, <1>4, <1>24 DEF Ma!RetireAck
  <2>2. s1[i] \in Messages
    BY <1>4, <1>5, <2>1
  <2>3. n \in Messages /\ n.to = s1[i].to
    BY <2>2
  <2> HIDE DEF n
  <2>4. Stays(s1[i], n)
    BY <2>1, <2>3
  <2> HIDE DEF Stays
  <2> QED
    BY <1>7, <2>1, <2>4
<1>25. ASSUME NEW i \in Ma!Live, Ma!Deadline(i)
       PROVE  Goal
  <2> DEFINE n == [s1[i] EXCEPT !.due = TRUE]
  <2>1. s1' = [s1 EXCEPT ![i] = n] /\ UNCHANGED <<s2, s3, s4, s5, s6>>
    BY <1>25 DEF Ma!Deadline
  <2>2. s1[i] \in Messages
    BY <1>4, <1>5
  <2>3. n \in Messages /\ n.to = s1[i].to /\ n.ask = s1[i].ask
    BY <2>2
  <2> HIDE DEF n
  <2>4. Stays(s1[i], n)
    BY <2>3
  <2> HIDE DEF Stays
  <2> QED
    BY <1>7, <2>1, <2>4
<1>26. ASSUME NEW i \in Ma!Live, Ma!Age(i)
       PROVE  Goal
  <2> DEFINE n == [s1[i] EXCEPT !.old = TRUE]
  <2>1. s1' = [s1 EXCEPT ![i] = n] /\ UNCHANGED <<s2, s3, s4, s5, s6>>
    BY <1>26 DEF Ma!Age
  <2>2. s1[i] \in Messages
    BY <1>4, <1>5
  <2>3. n \in Messages /\ n.to = s1[i].to /\ n.ask = s1[i].ask
    BY <2>2
  <2> HIDE DEF n
  <2>4. Stays(s1[i], n)
    BY <2>3
  <2> HIDE DEF Stays
  <2> QED
    BY <1>7, <2>1, <2>4
(* Retention takes messages that are settled.                              *)
<1>27. ASSUME NEW i \in Ma!Live, Ma!Prune(i)
       PROVE  Goal
  <2>1. /\ s1' = [s1 EXCEPT ![i] = pruned] /\ UNCHANGED <<s2, s3, s4, s5, s6>>
        /\ i \notin s4 /\ \A l \in Lane : <<i, l>> \notin s5
    BY <1>27 DEF Ma!Prune, Ma!Pruned
  <2>2. \A l \in Lane : s1[i].to[l].state \in
           {"none", "acked"} \cup (IF Ma!Asks(s1[i]) THEN {} ELSE {"read"})
    BY <1>27 DEF Ma!Prune
  <2>3. s1' \in Seq(Rows) /\ DOMAIN s1' = DOMAIN s1 /\ s1'[i] = pruned
        /\ \A j \in DOMAIN s1 : j # i => s1'[j] = s1[j]
    BY <1>1, <1>2, <1>5, <2>1
  <2>4. Poll'
    <3>1. \A r \in s5 : r[1] # i
      BY <1>1, <2>1
    <3> QED
      BY <1>1, <2>1, <2>3, <3>1
  <2>5. Ma!MailInv'
    BY <1>1, <2>1, <2>3, <2>4
       DEF Ma!MailInv, Ma!TypeOK, Ma!Live, Ma!Message, Ma!Delivery, Ma!Pruned
  <2>6. \A j \in Ma!Live : j # i => s1'[j] = s1[j] /\ s1'[j] # pruned /\ s1[j] \in Messages
    BY <1>4, <1>5, <2>3
  <2>7. Ma!UnsettledMailIsKeptStep
    <3>1. \A l \in Lane : s1[i].to[l].state # "unread" /\ (Ma!Asks(s1[i]) => s1[i].to[l].state # "read")
      BY <2>2
    <3> QED
      BY <2>6, <3>1 DEF Ma!UnsettledMailIsKeptStep, Ma!Pruned
  <2>8. Ma!RetiredAcksWereReportedStep
    BY <2>3, <2>6 DEF Ma!RetiredAcksWereReportedStep, Ma!Pruned
  <2>9. Ma!ReplacedMailHasASuccessorStep
    BY <2>3, <2>6 DEF Ma!ReplacedMailHasASuccessorStep, Ma!Pruned
  <2> QED
    BY <2>5, <2>7, <2>8, <2>9 DEF Goal
(* A message replaces the outstanding ones of its topic where it is delivered. *)
<1>28. ASSUME NEW s \in Sender, NEW to, NEW topic \in Topic, NEW ack \in BOOLEAN, NEW key \in MailKey,
              Ma!Send(s, to, topic, ack, key)
       PROVE  Goal
  <2>1. PICK delivered :
           s1' = Append(Ma!Superseded(s, topic, delivered),
             [sender |-> s, key |-> key, topic |-> topic,
              ask |-> IF ack THEN "asked" ELSE "no", due |-> FALSE,
              old |-> FALSE, to |-> [l \in Lane |-> Ma!Fresh(l, delivered)]])
    BY <1>28 DEF Ma!Send
  <2>2. UNCHANGED <<s2, s3, s4, s5, s6>>
    BY <1>28 DEF Ma!Send
  <2> DEFINE fresh == [l \in Lane |-> Ma!Fresh(l, delivered)]
             new == [sender |-> s, key |-> key, topic |-> topic,
                     ask |-> IF ack THEN "asked" ELSE "no", due |-> FALSE,
                     old |-> FALSE, to |-> fresh]
             before == Ma!Superseded(s, topic, delivered)
             after(m) == [l \in Lane |-> IF l \in delivered THEN Ma!Withdrawn(m, l, "replaced")
                                         ELSE m.to[l]]
  <2>3. fresh \in [Lane -> Deliveries] /\ \A l \in delivered \cap Lane :
           fresh[l].state = "unread" /\ fresh[l].withdrawn = "no"
    BY DEF Ma!Fresh
  <2> HIDE DEF fresh
  <2>4. new \in Messages /\ new.sender = s /\ new.topic = topic /\ new.to = fresh
    BY <2>3
  <2>5. /\ DOMAIN before = DOMAIN s1
        /\ \A i \in DOMAIN s1 :
              \/ before[i] = s1[i]
              \/ /\ i \in Ma!Live /\ s1[i].sender = s /\ s1[i].topic = topic
                 /\ before[i] = [s1[i] EXCEPT !.to = after(s1[i])]
    BY DEF Ma!Superseded
  <2>6. ASSUME NEW m \in Messages
        PROVE  after(m) \in [Lane -> Deliveries]
               /\ \A l \in Lane : m.to[l].withdrawn = "no" /\ after(m)[l].withdrawn = "replaced"
                                   => l \in delivered
    <3>1. \A l \in Lane : m.to[l] \in Deliveries
      OBVIOUS
    <3>2. \A l \in Lane : Ma!Withdrawn(m, l, "replaced") \in Deliveries
      BY <3>1 DEF Ma!Withdrawn
    <3> QED
      BY <3>1, <3>2
  <2> HIDE DEF new, before, after
  <2>7. ASSUME NEW i \in Ma!Live
        PROVE  /\ before[i] \in Messages /\ before[i].ask = s1[i].ask
               /\ \A l \in Lane : s1[i].to[l].withdrawn = "no" /\ before[i].to[l].withdrawn = "replaced"
                     => l \in delivered /\ s1[i].sender = s /\ s1[i].topic = topic
    <3>1. s1[i] \in Messages /\ i \in DOMAIN s1
      BY <1>4, <1>5
    <3>2. CASE before[i] = s1[i]
      BY <3>1, <3>2
    <3>3. CASE /\ s1[i].sender = s /\ s1[i].topic = topic
               /\ before[i] = [s1[i] EXCEPT !.to = after(s1[i])]
      <4> DEFINE m == s1[i]
                 n == [m EXCEPT !.to = after(m)]
      <4>1. after(m) \in [Lane -> Deliveries]
            /\ \A l \in Lane : m.to[l].withdrawn = "no" /\ after(m)[l].withdrawn = "replaced"
                                => l \in delivered
        BY <2>6, <3>1
      <4> HIDE DEF m
      <4>2. n \in Messages /\ n.ask = m.ask /\ n.to = after(m)
        BY <3>1, <4>1 DEF m
      <4> HIDE DEF n
      <4>3. before[i] = n
        BY <3>3 DEF n, m
      <4> QED
        BY <3>3, <4>1, <4>2, <4>3 DEF m
    <3> QED
      BY <2>5, <3>1, <3>2, <3>3
  <2>8. before \in Seq(Rows) /\ Len(before) = Len(s1)
    <3>1. \A i \in DOMAIN s1 : before[i] \in Rows
      BY <1>2, <2>5, <2>7
    <3>2. before = [i \in DOMAIN s1 |-> before[i]]
      BY <2>5 DEF before, Ma!Superseded
    <3>3. before \in [1..Len(s1) -> Rows]
      BY <1>2, <3>1, <3>2
    <3> QED
      BY <1>2, <3>3
  <2>9. s1' = Append(before, new)
    BY <2>1 DEF before, new, fresh
  <2>10. /\ s1' \in Seq(Rows) /\ Len(s1') = Len(s1) + 1 /\ s1'[Len(s1')] = new
         /\ \A i \in DOMAIN s1 : s1'[i] = before[i]
    BY <1>2, <2>4, <2>8, <2>9, AppendProperties
  <2>11. DOMAIN s1' = 1..(Len(s1) + 1) /\ DOMAIN s1 \subseteq DOMAIN s1'
    BY <1>2, <2>10, LenProperties
  <2>12. \A i \in Ma!Live : i \in DOMAIN s1 /\ s1[i] \in Messages /\ s1'[i] = before[i] /\ s1'[i] # pruned
    BY <1>3, <1>4, <1>5, <2>7, <2>10
  <2>13. Poll'
    <3>1. s4 \subseteq Ma!Live /\ \A r \in s5 : r[1] \in Ma!Live /\ r \in (DOMAIN s1) \X Lane
      BY <1>1, <1>4
    <3> QED
      BY <2>2, <2>11, <2>12, <3>1
  <2>14. Ma!MailInv'
    BY <1>1, <2>2, <2>10, <2>13
       DEF Ma!MailInv, Ma!TypeOK, Ma!Live, Ma!Message, Ma!Delivery, Ma!Pruned
  <2>15. Ma!UnsettledMailIsKeptStep
    BY <2>12 DEF Ma!UnsettledMailIsKeptStep, Ma!Pruned
  <2>16. Ma!RetiredAcksWereReportedStep
    BY <2>7, <2>12 DEF Ma!RetiredAcksWereReportedStep
  <2>17. Ma!ReplacedMailHasASuccessorStep
    <3> SUFFICES ASSUME NEW i \in Ma!Live, NEW l \in Lane,
                        s1[i].to[l].withdrawn = "no", s1'[i].to[l].withdrawn = "replaced"
                 PROVE  /\ s1'[Len(s1')].sender = s1[i].sender /\ s1'[Len(s1')].topic = s1[i].topic
                        /\ Ma!Outstanding(s1'[Len(s1')], l)
      BY DEF Ma!ReplacedMailHasASuccessorStep
    <3>1. l \in delivered /\ s1[i].sender = s /\ s1[i].topic = topic
      BY <2>7, <2>12
    <3>2. Ma!Outstanding(new, l)
      BY <2>3, <2>4, <3>1 DEF Ma!Outstanding
    <3> QED
      BY <2>4, <2>10, <3>1, <3>2
  <2> QED
    BY <2>14, <2>15, <2>16, <2>17 DEF Goal
<1>29. ASSUME UNCHANGED Ma!mailVars
       PROVE  Goal
  <2>1. UNCHANGED <<s1, s2, s3, s4, s5, s6>>
    BY <1>29 DEF Ma!mailVars
  <2>2. s1' = s1 /\ Lanes' /\ s4' \subseteq s4 \cup Ma!Live /\ s5' \subseteq s5 \cup (Ma!Live \X Lane)
    BY <1>1, <2>1
  <2> QED
    BY <1>17, <2>2
<1>30. Goal
  <2> SUFFICES ASSUME Ma!Next PROVE Goal
    BY <1>29
  <2> QED
    BY <1>9, <1>10, <1>14, <1>15, <1>16, <1>18, <1>19, <1>20, <1>21, <1>22, <1>23, <1>24,
       <1>25, <1>26, <1>27, <1>28 DEF Ma!Next, Ma!Poll
<1> QED
  BY <1>30 DEF Goal

(* The components bring the operators of the standard modules with them. *)
LEMMA SameCardinality ==
  \A S : Gi!Cardinality(S) = Cardinality(S) /\ Sv!Cardinality(S) = Cardinality(S)
BY DEF Gi!Cardinality, Sv!Cardinality, Cardinality

(* Two finite sets that differ at most in one element differ by one in number. *)
LEMMA CountChanges ==
  ASSUME NEW A, NEW B, NEW r, IsFiniteSet(A), A \ {r} = B \ {r}
  PROVE  /\ IsFiniteSet(B) /\ Cardinality(A) \in Nat /\ Cardinality(B) \in Nat
         /\ Cardinality(B) + (IF r \in A THEN 1 ELSE 0)
              = Cardinality(A) + (IF r \in B THEN 1 ELSE 0)
<1> DEFINE C == A \ {r}
<1>1. IsFiniteSet(C) /\ r \notin C
  BY FS_Subset
<1>2. Cardinality(C) \in Nat /\ IsFiniteSet(C \cup {r})
      /\ Cardinality(C \cup {r}) = Cardinality(C) + 1
  BY <1>1, FS_CardinalityType, FS_AddElement
<1>3. A = (IF r \in A THEN C \cup {r} ELSE C) /\ B = (IF r \in B THEN C \cup {r} ELSE C)
  OBVIOUS
<1> HIDE DEF C
<1>4. /\ IsFiniteSet(B)
      /\ Cardinality(A) = IF r \in A THEN Cardinality(C) + 1 ELSE Cardinality(C)
      /\ Cardinality(B) = IF r \in B THEN Cardinality(C) + 1 ELSE Cardinality(C)
  BY <1>1, <1>2, <1>3
<1> QED
  BY <1>2, <1>4

-----------------------------------------------------------------------------
(* The slots of the service.                                               *)

(* A service that starts has every slot and no request. *)
LEMMA SlotsInitially == Sv!SlotsInit => Sv!SlotsInv
<1> SUFFICES ASSUME Sv!SlotsInit PROVE Sv!SlotsInv
  OBVIOUS
<1> USE MessagingAssumption
<1>1. /\ {r \in Requests : s1[r] \in {"serving", "returned"}} = {}
      /\ {r \in Requests : s1[r] \in {"waiting", "returning"}} = {}
  BY DEF Sv!SlotsInit
<1>2. /\ Sv!Cardinality({r \in Requests : s1[r] \in {"serving", "returned"}}) = 0
      /\ Sv!Cardinality({r \in Requests : s1[r] \in {"waiting", "returning"}}) = 0
  BY <1>1, SameCardinality, FS_EmptySet
<1>3. /\ s1 \in [Requests -> {"none", "serving", "waiting", "returning", "returned"}]
      /\ s2 \in 0..Workers /\ s3 \in 0..Waiters
      /\ s4 \in [waiters : 0..Waiters, slots : 0..Workers]
      /\ s2 + s4.slots + 0 = Workers /\ s3 + s4.waiters + 0 = Waiters
      /\ s4 = [waiters |-> 0, slots |-> 0] /\ s4.slots = 0 /\ s5 = "serving"
  BY DEF Sv!SlotsInit
<1>4. s6 \in BOOLEAN /\ s7 \in BOOLEAN /\ s8 \in BOOLEAN
  BY Zenon DEF Sv!SlotsInit
<1> QED
  BY <1>2, <1>3, <1>4 DEF Sv!SlotsInv, Sv!SlotsTypeOK, Sv!SlotsAreConserved, Sv!ReplacedWhenIdle

(* Connecting, answering, lending a slot to a waiter, draining and replacing
   the service keep the numbers of slots and of requests together. *)
LEMMA SlotsStep ==
  Sv!SlotsInv /\ [Sv!SlotsNext]_(Sv!slotVars) => Sv!SlotsInv'
<1> SUFFICES ASSUME Sv!SlotsInv, [Sv!SlotsNext]_(Sv!slotVars)
             PROVE  Sv!SlotsInv'
  OBVIOUS
<1> USE MessagingAssumption
<1> DEFINE Places == {"none", "serving", "waiting", "returning", "returned"}
           busy == {r \in Requests : s1[r] \in {"serving", "returned"}}
           held == {r \in Requests : s1[r] \in {"waiting", "returning"}}
           Slot(p) == IF p \in {"serving", "returned"} THEN 1 ELSE 0
           Seat(p) == IF p \in {"waiting", "returning"} THEN 1 ELSE 0
           Numbers == /\ s1 \in [Requests -> Places] /\ s2 \in 0..Workers /\ s3 \in 0..Waiters
                      /\ s4 \in [waiters : 0..Waiters, slots : 0..Workers]
                      /\ s2 + s4.slots + Cardinality(busy) = Workers
                      /\ s3 + s4.waiters + Cardinality(held) = Waiters
                      /\ s4.slots > 0 => s4.waiters = Waiters
           Flags == s6 \in BOOLEAN /\ s7 \in BOOLEAN /\ s8 \in BOOLEAN
           Idle == \A r \in Requests : s1[r] = "none"
           Phases == /\ s5 \in {"serving", "shut", "draining", "closed", "replaced", "stopped"}
                     /\ s5 # "draining" => s4 = [waiters |-> 0, slots |-> 0]
                     /\ s5 = "replaced" => Sv!Relaunching
                     /\ s5 = "replaced" /\ ~s8 => Idle
                     /\ s5 = "closed" /\ Sv!Relaunching /\ ~s8 => Idle
<1>1. Numbers /\ Flags /\ Phases
  BY SameCardinality
     DEF Sv!SlotsInv, Sv!SlotsTypeOK, Sv!SlotsAreConserved, Sv!ReplacedWhenIdle
<1>2. ASSUME Numbers', Flags', Phases'
      PROVE  Sv!SlotsInv'
  <2>1. Sv!SlotsTypeOK'
    BY <1>2 DEF Sv!SlotsTypeOK
  <2>2. Sv!SlotsAreConserved'
    BY <1>2, SameCardinality DEF Sv!SlotsAreConserved
  <2>3. s3' + s4'.waiters + Sv!Cardinality(held') = Waiters
    BY <1>2, SameCardinality
  <2> QED
    BY <1>2, <2>1, <2>2, <2>3 DEF Sv!SlotsInv, Sv!ReplacedWhenIdle
<1>3. IsFiniteSet(busy) /\ IsFiniteSet(held)
  BY FS_Subset
<1>4. Cardinality(busy) \in Nat /\ Cardinality(held) \in Nat
  BY <1>3, FS_CardinalityType
(* What a request that goes from one place to another changes.             *)
<1>5. ASSUME NEW r \in Requests, NEW p \in Places, s1' = [s1 EXCEPT ![r] = p]
      PROVE  /\ s1' \in [Requests -> Places]
             /\ Cardinality(busy') \in Nat /\ Cardinality(held') \in Nat
             /\ Cardinality(busy') + Slot(s1[r]) = Cardinality(busy) + Slot(p)
             /\ Cardinality(held') + Seat(s1[r]) = Cardinality(held) + Seat(p)
  <2>1. s1' \in [Requests -> Places] /\ s1'[r] = p /\ \A q \in Requests : q # r => s1'[q] = s1[q]
    BY <1>1, <1>5
  <2>2. busy \ {r} = busy' \ {r} /\ held \ {r} = held' \ {r}
    BY <2>1
  <2>3. (r \in busy <=> s1[r] \in {"serving", "returned"})
        /\ (r \in busy' <=> p \in {"serving", "returned"})
    BY <2>1
  <2>4. (r \in held <=> s1[r] \in {"waiting", "returning"})
        /\ (r \in held' <=> p \in {"waiting", "returning"})
    BY <2>1
  <2> HIDE DEF busy, held, Places
  <2>5. /\ Cardinality(busy') \in Nat
        /\ Cardinality(busy') + (IF r \in busy THEN 1 ELSE 0)
             = Cardinality(busy) + (IF r \in busy' THEN 1 ELSE 0)
    BY <1>3, <2>2, CountChanges
  <2>6. /\ Cardinality(held') \in Nat
        /\ Cardinality(held') + (IF r \in held THEN 1 ELSE 0)
             = Cardinality(held) + (IF r \in held' THEN 1 ELSE 0)
    BY <1>3, <2>2, CountChanges
  <2> QED
    BY <2>1, <2>3, <2>4, <2>5, <2>6
(* Where no request moves.                                                 *)
<1>6. ASSUME s1' = s1
      PROVE  Cardinality(busy') = Cardinality(busy) /\ Cardinality(held') = Cardinality(held)
  BY <1>6
(* Requests move only while the service does not rest on their absence.    *)
<1>7. ASSUME NEW r \in Requests, s1[r] # "none" \/ s5 = "serving", UNCHANGED <<s4, s5, s6, s7, s8>>
      PROVE  Flags' /\ Phases'
  <2>1. Flags'
    BY <1>1, <1>7, Zenon
  <2>2. Phases'
    BY <1>1, <1>7 DEF Sv!Relaunching
  <2> QED
    BY <2>1, <2>2
<1>8. /\ Slot("none") = 0 /\ Slot("serving") = 1 /\ Slot("returned") = 1
       /\ Slot("waiting") = 0 /\ Slot("returning") = 0
       /\ Seat("none") = 0 /\ Seat("serving") = 0 /\ Seat("returned") = 0
       /\ Seat("waiting") = 1 /\ Seat("returning") = 1
       /\ Places = {"none", "serving", "waiting", "returning", "returned"}
  OBVIOUS
<1> HIDE DEF busy, held, Slot, Seat
<1>9. ASSUME NEW r \in Requests, Sv!Connect(r)
      PROVE  Sv!SlotsInv'
  <2>1. CASE s1' = [s1 EXCEPT ![r] = "serving"] /\ s2 > 0 /\ s2' = s2 - 1
    <3>1. s1[r] = "none" /\ s3' = s3 /\ s4' = s4
      BY <1>9 DEF Sv!Connect
    <3>2. /\ s1' \in [Requests -> Places]
          /\ Cardinality(busy') \in Nat /\ Cardinality(held') \in Nat
          /\ Cardinality(busy') + Slot("none") = Cardinality(busy) + Slot("serving")
          /\ Cardinality(held') + Seat("none") = Cardinality(held) + Seat("serving")
      BY <1>5, <1>8, <2>1, <3>1, Zenon
    <3>3. s2 + s4.slots + Cardinality(busy) = Workers
          /\ s3 + s4.waiters + Cardinality(held) = Waiters
      BY <1>1
    <3>4. s2 \in Nat /\ s3 \in Nat /\ s4.slots \in Nat /\ s4.waiters \in Nat
      BY <1>1
    <3>5. /\ Cardinality(busy') = Cardinality(busy) + 1 /\ Cardinality(held') = Cardinality(held)
      BY <1>4, <1>8, <3>2
    <3>6. s2' + s4'.slots + Cardinality(busy') = Workers
          /\ s3' + s4'.waiters + Cardinality(held') = Waiters
      BY <1>4, <2>1, <3>1, <3>3, <3>4, <3>5
    <3>7. s2' \in 0..Workers /\ s3' \in 0..Waiters
      BY <1>1, <2>1, <3>1
    <3>8. Numbers'
      BY <1>1, <3>1, <3>2, <3>6, <3>7
    <3> QED
      BY <1>2, <1>7, <1>9, <3>8 DEF Sv!Connect
  <2>2. CASE UNCHANGED <<s1, s2>>
    <3>1. Numbers'
      BY <1>1, <1>6, <1>9, <2>2 DEF Sv!Connect
    <3> QED
      BY <1>2, <1>7, <1>9, <3>1 DEF Sv!Connect
  <2> QED
    BY <1>9, <2>1, <2>2 DEF Sv!Connect
<1>10. ASSUME NEW r \in Requests, Sv!AnswerRequest(r)
      PROVE  Sv!SlotsInv'
  <2>1. /\ s1[r] \in {"serving", "returned"} /\ s1' = [s1 EXCEPT ![r] = "none"]
        /\ s2' = s2 + 1 /\ s3' = s3 /\ s4' = s4
    BY <1>10 DEF Sv!AnswerRequest, Sv!FinishCall
  <2>2. /\ s1' \in [Requests -> Places]
        /\ Cardinality(busy') \in Nat /\ Cardinality(held') \in Nat
        /\ Cardinality(busy') + Slot(s1[r]) = Cardinality(busy) + Slot("none")
        /\ Cardinality(held') + Seat(s1[r]) = Cardinality(held) + Seat("none")
    BY <1>5, <1>8, <2>1, Zenon
  <2>3. s2 + s4.slots + Cardinality(busy) = Workers
        /\ s3 + s4.waiters + Cardinality(held) = Waiters
    BY <1>1
  <2>4. s2 \in Nat /\ s3 \in Nat /\ s4.slots \in Nat /\ s4.waiters \in Nat
    BY <1>1
  <2>5. /\ Cardinality(busy') = Cardinality(busy) - 1
        /\ Cardinality(held') = Cardinality(held)
    BY <1>4, <1>8, <2>1, <2>2
  <2>6. s2' + s4'.slots + Cardinality(busy') = Workers
        /\ s3' + s4'.waiters + Cardinality(held') = Waiters
    BY <1>4, <2>1, <2>3, <2>4, <2>5
  <2>7. s2' \in 0..Workers /\ s3' \in 0..Waiters
    BY <1>4, <2>1, <2>2, <2>4, <2>6
  <2>8. Numbers'
    BY <1>1, <2>1, <2>2, <2>6, <2>7
  <2> QED
    BY <1>2, <1>7, <1>10, <2>8 DEF Sv!AnswerRequest
<1>11. ASSUME NEW r \in Requests, Sv!WaitForMail(r)
       PROVE  Sv!SlotsInv'
  <2>1. /\ s1[r] = "serving" /\ s1' = [s1 EXCEPT ![r] = "waiting"]
        /\ s3 > 0 /\ s2' = s2 + 1 /\ s3' = s3 - 1 /\ s4' = s4
    BY <1>11 DEF Sv!WaitForMail, Sv!Lend
  <2>2. /\ s1' \in [Requests -> Places]
        /\ Cardinality(busy') \in Nat /\ Cardinality(held') \in Nat
        /\ Cardinality(busy') + Slot("serving") = Cardinality(busy) + Slot("waiting")
        /\ Cardinality(held') + Seat("serving") = Cardinality(held) + Seat("waiting")
    BY <1>5, <1>8, <2>1, Zenon
  <2>3. s2 + s4.slots + Cardinality(busy) = Workers
        /\ s3 + s4.waiters + Cardinality(held) = Waiters
    BY <1>1
  <2>4. s2 \in Nat /\ s3 \in Nat /\ s4.slots \in Nat /\ s4.waiters \in Nat
    BY <1>1
  <2>5. /\ Cardinality(busy') = Cardinality(busy) - 1
        /\ Cardinality(held') = Cardinality(held) + 1
    BY <1>4, <1>8, <2>1, <2>2
  <2>6. s2' + s4'.slots + Cardinality(busy') = Workers
        /\ s3' + s4'.waiters + Cardinality(held') = Waiters
    BY <1>4, <2>1, <2>3, <2>4, <2>5
  <2>7. s2' \in 0..Workers /\ s3' \in 0..Waiters
    BY <1>4, <2>1, <2>2, <2>4, <2>6
  <2>8. Numbers'
    BY <1>1, <2>1, <2>2, <2>6, <2>7
  <2> QED
    BY <1>2, <1>7, <1>11, <2>8 DEF Sv!WaitForMail
<1>12. ASSUME NEW r \in Requests, Sv!WaitEnds(r)
       PROVE  Sv!SlotsInv'
  <2>1. /\ s1[r] = "waiting" /\ s1' = [s1 EXCEPT ![r] = "returning"]
        /\ s2' = s2 /\ s3' = s3 /\ s4' = s4
    BY <1>12 DEF Sv!WaitEnds
  <2>2. /\ s1' \in [Requests -> Places]
        /\ Cardinality(busy') \in Nat /\ Cardinality(held') \in Nat
        /\ Cardinality(busy') + Slot("waiting") = Cardinality(busy) + Slot("returning")
        /\ Cardinality(held') + Seat("waiting") = Cardinality(held) + Seat("returning")
    BY <1>5, <1>8, <2>1, Zenon
  <2>3. s2 + s4.slots + Cardinality(busy) = Workers
        /\ s3 + s4.waiters + Cardinality(held) = Waiters
    BY <1>1
  <2>4. s2 \in Nat /\ s3 \in Nat /\ s4.slots \in Nat /\ s4.waiters \in Nat
    BY <1>1
  <2>5. /\ Cardinality(busy') = Cardinality(busy)
        /\ Cardinality(held') = Cardinality(held)
    BY <1>4, <1>8, <2>1, <2>2
  <2>6. s2' + s4'.slots + Cardinality(busy') = Workers
        /\ s3' + s4'.waiters + Cardinality(held') = Waiters
    BY <1>4, <2>1, <2>3, <2>4, <2>5
  <2>7. s2' \in 0..Workers /\ s3' \in 0..Waiters
    BY <1>4, <2>1, <2>2, <2>4, <2>6
  <2>8. Numbers'
    BY <1>1, <2>1, <2>2, <2>6, <2>7
  <2> QED
    BY <1>2, <1>7, <1>12, <2>8 DEF Sv!WaitEnds
<1>13. ASSUME NEW r \in Requests, Sv!TakeBack(r)
       PROVE  Sv!SlotsInv'
  <2>1. /\ s1[r] = "returning" /\ s1' = [s1 EXCEPT ![r] = "returned"]
        /\ s2 > 0 /\ s2' = s2 - 1 /\ s3' = s3 + 1 /\ s4' = s4
    BY <1>13 DEF Sv!TakeBack
  <2>2. /\ s1' \in [Requests -> Places]
        /\ Cardinality(busy') \in Nat /\ Cardinality(held') \in Nat
        /\ Cardinality(busy') + Slot("returning") = Cardinality(busy) + Slot("returned")
        /\ Cardinality(held') + Seat("returning") = Cardinality(held) + Seat("returned")
    BY <1>5, <1>8, <2>1, Zenon
  <2>3. s2 + s4.slots + Cardinality(busy) = Workers
        /\ s3 + s4.waiters + Cardinality(held) = Waiters
    BY <1>1
  <2>4. s2 \in Nat /\ s3 \in Nat /\ s4.slots \in Nat /\ s4.waiters \in Nat
    BY <1>1
  <2>5. /\ Cardinality(busy') = Cardinality(busy) + 1
        /\ Cardinality(held') = Cardinality(held) - 1
    BY <1>4, <1>8, <2>1, <2>2
  <2>6. s2' + s4'.slots + Cardinality(busy') = Workers
        /\ s3' + s4'.waiters + Cardinality(held') = Waiters
    BY <1>4, <2>1, <2>3, <2>4, <2>5
  <2>7. s2' \in 0..Workers /\ s3' \in 0..Waiters
    BY <1>4, <2>1, <2>2, <2>4, <2>6
  <2>8. Numbers'
    BY <1>1, <2>1, <2>2, <2>6, <2>7
  <2> QED
    BY <1>2, <1>7, <1>13, <2>8 DEF Sv!TakeBack
(* The main thread moves no request.                                       *)
<1>14. ASSUME UNCHANGED <<s1, s2, s3, s4>>
       PROVE  Numbers'
  BY <1>1, <1>6, <1>14
<1>15. CASE Sv!Drift
  <2>1. Flags'
    BY <1>1, <1>15, Zenon DEF Sv!Drift
  <2>2. Phases'
    BY <1>1, <1>15 DEF Sv!Drift, Sv!Relaunching
  <2> QED
    BY <1>2, <1>14, <1>15, <2>1, <2>2 DEF Sv!Drift
<1>16. CASE Sv!Signal
  <2>1. Flags'
    BY <1>1, <1>16, Zenon DEF Sv!Signal
  <2>2. Phases'
    BY <1>1, <1>16 DEF Sv!Signal, Sv!Relaunching, Sv!Alive
  <2> QED
    BY <1>2, <1>14, <1>16, <2>1, <2>2 DEF Sv!Signal
<1>17. CASE Sv!Shutdown \/ Sv!StartDrain \/ Sv!EndProcess
  <2>1. Flags'
    BY <1>1, <1>17, Zenon DEF Sv!Shutdown, Sv!StartDrain, Sv!EndProcess
  <2>2. Phases'
    BY <1>1, <1>17 DEF Sv!Shutdown, Sv!StartDrain, Sv!EndProcess, Sv!Relaunching
  <2> QED
    BY <1>2, <1>14, <1>17, <2>1, <2>2 DEF Sv!Shutdown, Sv!StartDrain, Sv!EndProcess
<1>18. CASE Sv!DrainStep
  <2>1. Numbers'
    BY <1>1, <1>4, <1>6, <1>18 DEF Sv!DrainStep, Sv!DrainOne
  <2>2. Flags'
    BY <1>1, <1>18, Zenon DEF Sv!DrainStep
  <2>3. Phases'
    BY <1>1, <1>18 DEF Sv!DrainStep
  <2> QED
    BY <1>2, <2>1, <2>2, <2>3
<1>19. ASSUME NEW late \in BOOLEAN, Sv!EndDrain(late)
       PROVE  Sv!SlotsInv'
  <2>1. Numbers'
    BY <1>1, <1>4, <1>6, <1>19 DEF Sv!EndDrain
  <2>2. Flags'
    BY <1>1, <1>19, Zenon DEF Sv!EndDrain
  <2>3. ASSUME ~late
        PROVE  Idle'
    <3>1. ~(s4.slots < Workers)
      BY <1>19, <2>3 DEF Sv!EndDrain
    <3>2. s4.slots \in 0..Workers /\ (s4.slots > 0 => s4.waiters = Waiters)
      BY <1>1
    <3>3. s4.slots = Workers /\ s4.waiters = Waiters
      BY <3>1, <3>2
    <3>4. Cardinality(busy) = 0 /\ Cardinality(held) = 0
      BY <1>1, <1>4, <3>3
    <3>5. busy = {} /\ held = {}
      BY <1>3, <3>4, FS_EmptySet
    <3>6. \A r \in Requests : s1[r] \notin {"serving", "returned", "waiting", "returning"}
      BY <3>5 DEF busy, held
    <3> QED
      BY <1>1, <1>19, <3>6 DEF Sv!EndDrain
  <2>4. Phases'
    BY <1>19, <2>3 DEF Sv!EndDrain
  <2> QED
    BY <1>2, <2>1, <2>2, <2>4
<1>20. CASE UNCHANGED Sv!slotVars
  <2>1. Flags'
    BY <1>1, <1>20, Zenon DEF Sv!slotVars
  <2>2. Phases'
    BY <1>1, <1>20 DEF Sv!slotVars, Sv!Relaunching
  <2> QED
    BY <1>2, <1>14, <1>20, <2>1, <2>2 DEF Sv!slotVars
<1> QED
  BY <1>9, <1>10, <1>11, <1>12, <1>13, <1>15, <1>16, <1>17, <1>18, <1>19, <1>20
     DEF Sv!SlotsNext

(* After a signal the service is closed and never replaced. *)
LEMMA SignalsStop ==
  Sv!SlotsInv /\ [Sv!SlotsNext]_(Sv!slotVars) => Sv!SignalsStopTheServiceStep
<1> SUFFICES ASSUME Sv!SlotsInv, [Sv!SlotsNext]_(Sv!slotVars), s7
             PROVE  s5' # "replaced"
  BY DEF Sv!SignalsStopTheServiceStep
<1>1. s5 # "replaced"
  BY DEF Sv!SlotsInv, Sv!Relaunching
<1> QED
  BY <1>1 DEF Sv!SlotsNext, Sv!slotVars, Sv!Connect, Sv!AnswerRequest, Sv!WaitForMail, Sv!WaitEnds,
     Sv!TakeBack, Sv!Drift, Sv!Signal, Sv!Shutdown, Sv!StartDrain, Sv!DrainStep, Sv!EndDrain,
     Sv!EndProcess, Sv!Relaunching

-----------------------------------------------------------------------------
(* Git's readings.                                                         *)

(* Nothing is read, kept or registered at first. *)
LEMMA ReadingsInitially == Gi!ReadingsInit => Gi!ReadingsInv
<1> SUFFICES ASSUME Gi!ReadingsInit PROVE Gi!ReadingsInv
  OBVIOUS
<1>1. /\ s1 \in 0..MaxWorld /\ s2 \in Gi!Readings /\ s3 \in Gi!Readings
      /\ s4 \in 0..Gi!Unread /\ s5 \in Gi!Leaders \cup {"none"}
      /\ s6 \in [Gi!Leaders -> 0..Gi!Unread]
      /\ s7 \in [Askers -> {"idle", "leading", "waiting", "alone"}]
      /\ s8 \in Gi!Ages /\ s11 \in 0..MaxFailures
  BY MessagingAssumption DEF Gi!ReadingsInit, Gi!Readings, Gi!Ages, Gi!Unread
<1>2. s9 \in BOOLEAN /\ s10 \in BOOLEAN /\ (s9 => s10)
  BY Zenon DEF Gi!ReadingsInit
<1>3. \A l \in Gi!Leaders : s6[l] = Gi!Unread
  BY DEF Gi!ReadingsInit
<1> QED
  BY <1>1, <1>2, <1>3, Zenon
     DEF Gi!ReadingsInv, Gi!ReadingsTypeOK, Gi!RefreshesGiveUpTheirKey

(* Who joins finds nothing under way, and then its own reading is. *)
LEMMA JoinRegisters ==
  ASSUME Gi!ReadingsInv, NEW l \in Gi!Leaders, Gi!Join(l)
  PROVE  /\ s5' \in Gi!Leaders \cup {"none"}
         /\ s6' \in [Gi!Leaders -> 0..Gi!Unread]
         /\ \A m \in Gi!Leaders : s6'[m] # Gi!Unread => s5' = m
<1>1. s1 \in 0..Gi!Unread
  BY MessagingAssumption DEF Gi!ReadingsInv, Gi!ReadingsTypeOK, Gi!Unread
<1>2. "none" \notin Gi!Leaders
  BY MessagingAssumption DEF Gi!Leaders
<1>3. CASE Gi!Leads(l)
  BY <1>1, <1>2, <1>3
     DEF Gi!ReadingsInv, Gi!ReadingsTypeOK, Gi!Join, Gi!Leads
<1>4. CASE ~Gi!Leads(l)
  BY <1>4 DEF Gi!ReadingsInv, Gi!ReadingsTypeOK, Gi!Join
<1> QED
  BY <1>3, <1>4

(* The flight that ends takes its key with it, whoever joined it. *)
LEMMA ReadingsStep ==
  Gi!ReadingsInv /\ [Gi!ReadingsNext]_(Gi!readingVars) => Gi!ReadingsInv'
<1> SUFFICES ASSUME Gi!ReadingsInv, [Gi!ReadingsNext]_(Gi!readingVars)
             PROVE  Gi!ReadingsInv'
  OBVIOUS
<1> USE MessagingAssumption
<1> USE DEF Gi!ReadingsInv, Gi!ReadingsTypeOK, Gi!RefreshesGiveUpTheirKey,
            Gi!Readings, Gi!Ages, Gi!Cache
<1>1. CASE Gi!WorldChanges
  BY <1>1 DEF Gi!WorldChanges
<1>2. CASE Gi!TimePasses
  BY <1>2 DEF Gi!TimePasses
<1>3. CASE Gi!PollReads
  BY <1>3 DEF Gi!PollReads, Gi!Unread
<1>4. CASE Gi!PollKeeps
  BY <1>4 DEF Gi!PollKeeps, Gi!Keep, Gi!Unread
<1>5. CASE Gi!AskCompletion
  <2>1. s8' \in Gi!Ages /\ s11' \in 0..MaxFailures
    BY <1>5 DEF Gi!AskCompletion
  <2>2. s9' \in BOOLEAN /\ s10' \in BOOLEAN /\ (s9' => s10')
    <3>1. CASE s9' = TRUE /\ s10' = TRUE
      BY <3>1, Zenon
    <3>2. CASE s9' = s9 /\ s10' = s10
      BY <3>2, Zenon
    <3> QED
      BY <1>5, <3>1, <3>2, Zenon DEF Gi!AskCompletion
  <2> QED
    BY <1>5, <2>1, <2>2, Zenon DEF Gi!AskCompletion
<1>6. ASSUME NEW a \in Askers, Gi!AskKept(a)
      PROVE  Gi!ReadingsInv'
  <2>1. "background" \in Gi!Leaders
    BY DEF Gi!Leaders
  <2>2. CASE Gi!Join("background") /\ UNCHANGED s11
    BY <1>6, <2>1, <2>2, JoinRegisters DEF Gi!AskKept
  <2>3. CASE /\ Gi!Leads("background") /\ s11 < MaxFailures /\ s11' = s11 + 1
             /\ s5' = "background" /\ UNCHANGED s6
    <3>1. "none" \notin Gi!Leaders
      BY DEF Gi!Leaders
    <3>2. \A m \in Gi!Leaders : s6[m] = Gi!Unread
      BY <2>3, <3>1 DEF Gi!Leads
    <3> QED
      BY <1>6, <2>1, <2>3, <3>2 DEF Gi!AskKept
  <2>4. CASE UNCHANGED <<s5, s6, s11>>
    BY <1>6, <2>4 DEF Gi!AskKept
  <2> QED
    BY <1>6, <2>2, <2>3, <2>4 DEF Gi!AskKept, Gi!StartsRefresh
<1>7. ASSUME NEW a \in Askers, Gi!AskElsewhere(a)
      PROVE  Gi!ReadingsInv'
  <2>1. a \in Gi!Leaders
    BY DEF Gi!Leaders
  <2> QED
    BY <1>7, <2>1, JoinRegisters DEF Gi!AskElsewhere
<1>8. ASSUME NEW a \in Askers, Gi!ReadAlone(a)
      PROVE  Gi!ReadingsInv'
  BY <1>8 DEF Gi!ReadAlone
<1>9. ASSUME NEW ok \in BOOLEAN, Gi!RefreshEnds(ok)
      PROVE  Gi!ReadingsInv'
  <2>1. s8' \in Gi!Ages /\ s11' \in 0..MaxFailures
    BY <1>9 DEF Gi!RefreshEnds, Gi!Refreshed
  <2>2. s9' \in BOOLEAN /\ s10' \in BOOLEAN /\ (s9' => s10')
    BY <1>9, Zenon DEF Gi!RefreshEnds, Gi!Refreshed
  <2> QED
    BY <1>9, <2>1, <2>2, Zenon DEF Gi!RefreshEnds
<1>10. ASSUME NEW ok \in BOOLEAN, NEW l \in Gi!Leaders, Gi!FlightEnds(l, ok)
       PROVE  Gi!ReadingsInv'
  <2>1. s6[l] \in 0..MaxWorld
    BY <1>10 DEF Gi!FlightEnds, Gi!Unread
  <2>2. s2' \in Gi!Readings /\ s3' \in Gi!Readings
    BY <1>10, <2>1 DEF Gi!FlightEnds, Gi!Keep
  <2>3. s7' \in [Askers -> {"idle", "leading", "waiting", "alone"}]
    BY <1>10 DEF Gi!FlightEnds, Gi!Release
  <2>4. /\ s6' \in [Gi!Leaders -> 0..Gi!Unread]
        /\ \A m \in Gi!Leaders : s6'[m] = Gi!Unread
    BY <1>10 DEF Gi!FlightEnds, Gi!Unread
  <2> QED
    BY <1>10, <2>2, <2>3, <2>4 DEF Gi!FlightEnds
<1>11. CASE UNCHANGED Gi!readingVars
  BY <1>11 DEF Gi!readingVars
<1> QED
  BY <1>1, <1>2, <1>3, <1>4, <1>5, <1>6, <1>7, <1>8, <1>9, <1>10, <1>11
     DEF Gi!ReadingsNext

(* Two flights under way would both be the registered one. *)
LEMMA ReadingsOneFlight == Gi!ReadingsInv => Gi!OneFlightAtATime
<1> SUFFICES ASSUME Gi!ReadingsInv PROVE Gi!OneFlightAtATime
  OBVIOUS
<1> DEFINE flights == {l \in Gi!Leaders : s6[l] # Gi!Unread}
<1>1. flights \subseteq {s5}
  BY DEF Gi!ReadingsInv
<1>2. IsFiniteSet({s5}) /\ Cardinality({s5}) = 1
  BY FS_Singleton
<1>3. Cardinality(flights) <= Cardinality({s5})
  BY <1>1, <1>2, FS_Subset
<1>4. Gi!Cardinality(flights) <= 1
  BY <1>2, <1>3, SameCardinality
<1> QED
  BY <1>4 DEF Gi!OneFlightAtATime

-----------------------------------------------------------------------------
(* The marks of assignments claims added.                                  *)

(* No mark is there at first and no sweep is under way. *)
LEMMA MarksInitially == Fg!MarksInit => Fg!MarksInv
<1> SUFFICES ASSUME Fg!MarksInit PROVE Fg!MarksInv
  OBVIOUS
<1>1. s2 \in {"none", "claim", "person"} /\ s5 = "idle"
      /\ s7 \in 0..MaxTurns /\ s8 \in 0..MaxForgeRefusals
  BY MessagingAssumption DEF Fg!MarksInit
<1>2. s4 \in [Commands -> {"idle", "claimed", "asked", "assigned", "released"} \cup Fg!Removing]
  BY DEF Fg!MarksInit
<1>3. s1 \in BOOLEAN /\ s3 \in BOOLEAN /\ s6 \in BOOLEAN /\ ~s6
  BY Zenon DEF Fg!MarksInit
<1> QED
  BY <1>1, <1>2, <1>3, Zenon DEF Fg!MarksInv, Fg!MarksTypeOK

(* The claim command asks before it assigns and marks after it, the sweep
   removes what is marked: neither leaves a mark on a person's assignment. *)
LEMMA MarksStep ==
  Fg!MarksInv /\ [Fg!MarksNext]_(Fg!markVars) => Fg!MarksInv'
<1> SUFFICES ASSUME Fg!MarksInv, [Fg!MarksNext]_(Fg!markVars)
             PROVE  Fg!MarksInv'
  OBVIOUS
<1> USE MessagingAssumption
<1> USE DEF Fg!MarksInv, Fg!MarksTypeOK, Fg!Bounded, Fg!Removing, Fg!Goes, Fg!Fails
<1>1. CASE Fg!PersonAssigns
  BY <1>1 DEF Fg!PersonAssigns
<1>2. CASE Fg!PersonUnassigns
  BY <1>2 DEF Fg!PersonUnassigns
<1>3. CASE Fg!SweepPicks
  BY <1>3 DEF Fg!SweepPicks
<1>4. CASE Fg!SweepAsksMark
  BY <1>4 DEF Fg!SweepAsksMark
<1>5. CASE Fg!SweepUnassigns
  <2>1. ~s6
    BY <1>5 DEF Fg!SweepUnassigns
  <2>2. s2' \in {"none", "claim", "person"} /\ s5' \in {"idle", "picked"} \cup Fg!Removing
        /\ s8' \in 0..MaxForgeRefusals
    BY <1>5 DEF Fg!SweepUnassigns, Fg!Unassign
  <2>3. s6' \in BOOLEAN /\ ~s6'
    <3>1. CASE s6' = FALSE
      BY <3>1, Zenon
    <3>2. CASE s6' = s6
      BY <2>1, <3>2, Zenon
    <3> QED
      BY <1>5, <3>1, <3>2, Zenon DEF Fg!SweepUnassigns, Fg!Unassign
  <2> QED
    BY <1>5, <2>1, <2>2, <2>3, Zenon DEF Fg!SweepUnassigns
<1>6. ASSUME NEW ok \in BOOLEAN, Fg!SweepUnmarks(ok)
      PROVE  Fg!MarksInv'
  <2>1. ~s6
    BY <1>6 DEF Fg!SweepUnmarks
  <2>2. s5' \in {"idle", "picked"} \cup Fg!Removing /\ s8' \in 0..MaxForgeRefusals
    BY <1>6 DEF Fg!SweepUnmarks, Fg!Unmark
  <2>3. s3' \in BOOLEAN /\ ~s6'
    BY <1>6, <2>1, Zenon DEF Fg!SweepUnmarks, Fg!Unmark
  <2> QED
    BY <1>6, <2>1, <2>2, <2>3, Zenon DEF Fg!SweepUnmarks
<1>7. CASE Fg!KilledSweep
  BY <1>7 DEF Fg!KilledSweep
<1>8. ASSUME NEW c \in Commands, Fg!TakeIssue(c)
      PROVE  Fg!MarksInv'
  BY <1>8 DEF Fg!TakeIssue
<1>9. ASSUME NEW c \in Commands, Fg!AskAssigned(c)
      PROVE  Fg!MarksInv'
  BY <1>9 DEF Fg!AskAssigned, Fg!MayAssign
<1>10. ASSUME NEW c \in Commands, Fg!Assign(c)
       PROVE  Fg!MarksInv'
  BY <1>10 DEF Fg!Assign
<1>11. ASSUME NEW c \in Commands, Fg!Mark(c)
       PROVE  Fg!MarksInv'
  <2>1. ~s6
    BY <1>11 DEF Fg!Mark
  <2>2. s4' \in [Commands -> {"idle", "claimed", "asked", "assigned", "released"} \cup Fg!Removing]
        /\ s8' \in 0..MaxForgeRefusals
    BY <1>11 DEF Fg!Mark
  <2>3. s3' \in BOOLEAN /\ ~s6'
    BY <1>11, <2>1, Zenon DEF Fg!Mark
  <2> QED
    BY <1>11, <2>1, <2>2, <2>3, Zenon DEF Fg!Mark
<1>12. ASSUME NEW c \in Commands, Fg!ReleaseIssue(c)
       PROVE  Fg!MarksInv'
  BY <1>12 DEF Fg!ReleaseIssue
<1>13. ASSUME NEW c \in Commands, Fg!AskMark(c)
       PROVE  Fg!MarksInv'
  BY <1>13 DEF Fg!AskMark, Fg!Marked
<1>14. ASSUME NEW c \in Commands, Fg!CommandUnassigns(c)
       PROVE  Fg!MarksInv'
  <2>1. ~s6
    BY <1>14 DEF Fg!CommandUnassigns
  <2>2. s2' \in {"none", "claim", "person"} /\ s8' \in 0..MaxForgeRefusals
        /\ s4' \in [Commands -> {"idle", "claimed", "asked", "assigned", "released"} \cup Fg!Removing]
    BY <1>14 DEF Fg!CommandUnassigns, Fg!Unassign
  <2>3. s6' \in BOOLEAN /\ ~s6'
    <3>1. CASE s6' = FALSE
      BY <3>1, Zenon
    <3>2. CASE s6' = s6
      BY <2>1, <3>2, Zenon
    <3> QED
      BY <1>14, <3>1, <3>2, Zenon DEF Fg!CommandUnassigns, Fg!Unassign
  <2> QED
    BY <1>14, <2>1, <2>2, <2>3, Zenon DEF Fg!CommandUnassigns
<1>15. ASSUME NEW c \in Commands, Fg!KilledCommand(c)
       PROVE  Fg!MarksInv'
  BY <1>15 DEF Fg!KilledCommand
<1>16. ASSUME NEW c \in Commands, NEW ok \in BOOLEAN, Fg!CommandUnmarks(c, ok)
       PROVE  Fg!MarksInv'
  <2>1. ~s6
    BY <1>16 DEF Fg!CommandUnmarks
  <2>2. s4' \in [Commands -> {"idle", "claimed", "asked", "assigned", "released"} \cup Fg!Removing]
        /\ s8' \in 0..MaxForgeRefusals
    BY <1>16 DEF Fg!CommandUnmarks, Fg!Unmark
  <2>3. s3' \in BOOLEAN /\ ~s6'
    BY <1>16, <2>1, Zenon DEF Fg!CommandUnmarks, Fg!Unmark
  <2> QED
    BY <1>16, <2>1, <2>2, <2>3, Zenon DEF Fg!CommandUnmarks
<1>17. CASE UNCHANGED Fg!markVars
  BY <1>17 DEF Fg!markVars
<1> QED
  BY <1>1, <1>2, <1>3, <1>4, <1>5, <1>6, <1>7, <1>8, <1>9, <1>10, <1>11, <1>12, <1>13,
     <1>14, <1>15, <1>16, <1>17
     DEF Fg!MarksNext, Fg!SweepStep

(* An assignment that is a person's own has no mark, so no step removes it. *)
LEMMA PeopleKeepAssignments ==
  Fg!MarksInv /\ [Fg!MarksNext]_(Fg!markVars) => Fg!PeopleKeepTheirAssignmentsStep
<1> SUFFICES ASSUME Fg!MarksInv, [Fg!MarksNext]_(Fg!markVars), s6, s2' # "person"
             PROVE  /\ s7' = s7 /\ s6' = FALSE /\ s5' = s5
                    /\ \A c \in Commands : s4'[c] = s4[c]
  BY DEF Fg!PeopleKeepTheirAssignmentsStep
<1>1. /\ s2 = "person" /\ ~s3 /\ s5 = "idle"
      /\ \A c \in Commands : s4[c] \in {"idle", "claimed", "released"}
  BY DEF Fg!MarksInv
<1>2. Fg!PersonUnassigns
  BY <1>1 DEF Fg!MarksNext, Fg!markVars, Fg!PersonAssigns, Fg!SweepStep, Fg!SweepPicks,
     Fg!SweepAsksMark, Fg!SweepUnassigns, Fg!SweepUnmarks, Fg!KilledSweep, Fg!TakeIssue,
     Fg!AskAssigned, Fg!Assign, Fg!Mark, Fg!ReleaseIssue, Fg!AskMark, Fg!CommandUnassigns,
     Fg!KilledCommand, Fg!CommandUnmarks
<1> QED
  BY <1>2 DEF Fg!PersonUnassigns, Fg!Bounded

-----------------------------------------------------------------------------
(* What the poll learns from the forge.                                    *)

(* No claim is held at first. *)
LEMMA ForgeReadInitially == Fg!ForgeReadInit => Fg!ForgeReadInv
<1> SUFFICES ASSUME Fg!ForgeReadInit PROVE Fg!ForgeReadInv
  OBVIOUS
<1>1. /\ s1 \in 0..MaxClaims /\ s4 \in Fg!Ends /\ s5 \in Fg!Ends /\ s6 \in Fg!Ends
      /\ s7 \in Fg!Kept(0..Fg!Unknown) /\ s8 \in Fg!Kept(Fg!Ends)
      /\ s9 \in {"none", "recent", "old"} /\ s10 \in SUBSET (1..MaxClaims)
      /\ s11 \in 0..MaxForgeNews /\ s12 \in 0..MaxRefusals
  BY MessagingAssumption
     DEF Fg!ForgeReadInit, Fg!Ends, Fg!Kept, Fg!Never, Fg!Unknown
<1>2. s2 \in BOOLEAN /\ s3 \in BOOLEAN /\ ~s2
  BY Zenon DEF Fg!ForgeReadInit
<1> QED
  BY <1>1, <1>2, Zenon DEF Fg!ForgeReadInv, Fg!ForgeReadTypeOK

(* Readings are kept and dropped, claims begin and end; a held claim has a
   number. *)
LEMMA ForgeReadStep ==
  Fg!ForgeReadInv /\ [Fg!ForgeReadNext]_(Fg!forgeReadVars) => Fg!ForgeReadInv'
<1> SUFFICES ASSUME Fg!ForgeReadInv, [Fg!ForgeReadNext]_(Fg!forgeReadVars)
             PROVE  Fg!ForgeReadInv'
  OBVIOUS
<1> USE MessagingAssumption
<1> USE DEF Fg!ForgeReadInv, Fg!ForgeReadTypeOK, Fg!Truth, Fg!Cached, Fg!Ends, Fg!Kept,
            Fg!Never, Fg!Unknown
<1>1. CASE Fg!ClaimOrRelease
  <2>1. CASE s2
    <3>1. ~s2'
      BY <1>1, <2>1, Zenon DEF Fg!ClaimOrRelease
    <3>2. s2' \in BOOLEAN /\ s3' \in BOOLEAN
      BY <1>1, <2>1, Zenon DEF Fg!ClaimOrRelease
    <3>3. UNCHANGED <<s1, s4, s5, s6, s7, s8, s9, s10, s11, s12>>
      BY <1>1, <2>1 DEF Fg!ClaimOrRelease
    <3> QED
      BY <3>1, <3>2, <3>3, Zenon
  <2>2. CASE ~s2
    <3>1. s1' \in 0..MaxClaims /\ s1' > 0
      BY <1>1, <2>2 DEF Fg!ClaimOrRelease
    <3>2. s2' \in BOOLEAN /\ s3' \in BOOLEAN
      BY <1>1, <2>2, Zenon DEF Fg!ClaimOrRelease
    <3>3. UNCHANGED <<s4, s5, s6, s7, s8, s9, s10, s11, s12>>
      BY <1>1, <2>2 DEF Fg!ClaimOrRelease
    <3> QED
      BY <3>1, <3>2, <3>3, Zenon
  <2> QED
    BY <2>1, <2>2
<1>2. CASE Fg!ReportsReady
  BY <1>2 DEF Fg!ReportsReady
<1>3. CASE Fg!ForgeNews
  BY <1>3 DEF Fg!ForgeNews
<1>4. CASE Fg!ReadingsExpire
  BY <1>4 DEF Fg!ReadingsExpire, Fg!Older
<1>5. ASSUME NEW ok \in BOOLEAN, Fg!Poll(ok)
      PROVE  Fg!ForgeReadInv'
  <2>1. s7' \in Fg!Kept(0..Fg!Unknown) /\ s9' \in {"none", "recent", "old"}
        /\ s12' \in 0..MaxRefusals
    BY <1>5 DEF Fg!Poll, Fg!ReadIssue, Fg!Called
  <2>2. s8' \in Fg!Kept(Fg!Ends)
    BY <1>5 DEF Fg!Poll, Fg!ReadLandings
  <2>3. s10' \in SUBSET (1..MaxClaims)
    BY <1>5 DEF Fg!Poll
  <2> QED
    BY <1>5, <2>1, <2>2, <2>3 DEF Fg!Poll
<1>6. CASE UNCHANGED Fg!forgeReadVars
  BY <1>6 DEF Fg!forgeReadVars
<1> QED
  BY <1>1, <1>2, <1>3, <1>4, <1>5, <1>6 DEF Fg!ForgeReadNext

(* A poll ends the claim it has read and no later one. *)
LEMMA OnlyThisClaimIsEnded ==
  Fg!ForgeReadInv /\ [Fg!ForgeReadNext]_(Fg!forgeReadVars) => Fg!OnlyThisClaimEndsStep
<1> SUFFICES ASSUME Fg!ForgeReadInv, [Fg!ForgeReadNext]_(Fg!forgeReadVars),
                    NEW n \in s10' \ s10, ~s3
             PROVE  n \in {s4, s5, s6, s7.says, s8.says}
  BY DEF Fg!OnlyThisClaimEndsStep
<1>1. PICK ok \in BOOLEAN : Fg!Poll(ok)
  BY DEF Fg!ForgeReadNext, Fg!forgeReadVars, Fg!ClaimOrRelease, Fg!ReportsReady,
         Fg!ForgeNews, Fg!ReadingsExpire
<1>2. n = s1 /\ Fg!EndSeen
  BY <1>1 DEF Fg!Poll
<1>3. s7'.says \in {s7.says, s4, Fg!Unknown}
  BY <1>1 DEF Fg!Poll, Fg!ReadIssue
<1>4. s8'.says \in {s8.says, s5, Fg!Never}
  BY <1>1 DEF Fg!Poll, Fg!ReadLandings
<1> QED
  BY <1>2, <1>3, <1>4
     DEF Fg!EndSeen, Fg!BranchEnded, Fg!IssueEnded, Fg!LandingEnded, Fg!InClaim

-----------------------------------------------------------------------------
(* The recoveries of hook calls.                                           *)

(* No call was made at first. *)
LEMMA HooksInitially == Sv!HookServiceInit => Sv!HookServiceInv
<1> SUFFICES ASSUME Sv!HookServiceInit PROVE Sv!HookServiceInv
  OBVIOUS
<1> USE MessagingAssumption
<1>1. /\ s1 = [c \in Calls |-> "none"] /\ s2 = [c \in Calls |-> "none"]
      /\ s3 = {} /\ s4 = 0 /\ s5 = {} /\ s6 = {} /\ s9 = <<>>
      /\ s7 = [call |-> 0, evidence |-> 0, stands |-> {}] /\ s8 = s7
      /\ s11 = [c \in Calls |-> 0]
  BY DEF Sv!HookServiceInit, Sv!None
<1>2. Cardinality(Calls) \in Nat
  BY FS_CardinalityType
<1>3. Sv!HookServiceTypeOK
  BY <1>1, <1>2, SameCardinality DEF Sv!HookServiceTypeOK, Sv!Owed
<1>4. {c \in s3 : s1[c] \in {"deciding", "served", "failed"}} = {}
  BY <1>1
<1>5. Sv!UndecidedAreCounted
  BY <1>1, <1>4, FS_EmptySet, SameCardinality DEF Sv!UndecidedAreCounted
<1>6. Sv!GateEvidenceIsKept
  BY <1>1 DEF Sv!GateEvidenceIsKept
<1> QED
  BY <1>1, <1>3, <1>5, <1>6 DEF Sv!HookServiceInv

(* The service's threads answer, abandon, count and recover calls; each owed
   call is queued by the one thread that sees it last. *)
LEMMA HooksStep ==
  Sv!HookServiceInv /\ [Sv!HookServiceNext]_(Sv!hsVars) => Sv!HookServiceInv'
<1> SUFFICES ASSUME Sv!HookServiceInv, [Sv!HookServiceNext]_(Sv!hsVars)
             PROVE  Sv!HookServiceInv'
  OBVIOUS
<1> USE MessagingAssumption
<1> DEFINE Working == {"none", "deciding", "served", "failed", "closing", "done"}
           Answering == {"none", "joining", "late", "closing", "served", "refused", "failed"}
           Places == /\ s1 \in [Calls -> Working] /\ s2 \in [Calls -> Answering]
                     /\ s3 \subseteq Calls /\ s5 \subseteq Calls /\ s6 \subseteq s5
           Threads(c) == /\ s2[c] = "none" <=> s1[c] = "none"
                         /\ c \in s5 => s1[c] \in {"served", "closing", "done"}
                         /\ c \in s3 => s2[c] = "refused"
                         /\ s1[c] = "closing" => c \in s3 \cap s5
                         /\ s2[c] \in {"closing", "served"} => s1[c] \in {"served", "failed", "done"}
                         /\ s2[c] = "closing" => c \in s5
           Alone == \A c \in Calls : Threads(c)
           Undecided == {c \in s3 : s1[c] \in {"deciding", "served", "failed"}}
           Counted == s4 = Cardinality(Undecided)
           Out(c) == c \in s5 /\ (s2[c] = "served" \/ (c \in s3 /\ s1[c] = "done"))
           Once == s11 = [c \in Calls |-> IF Out(c) THEN 1 ELSE 0]
           Owing(r) == /\ r \in [call : Calls \cup {0}, evidence : Calls \cup {0}, stands : SUBSET Calls]
                       /\ r.call \in r.stands \cup {0} /\ r.evidence \in r.stands \cup {0}
                       /\ r.call \in s5 \cup {0}
           Newest == s9 # <<>> =>
                       s9[Len(s9)] \in s10 \cup {s7.call, s7.evidence, s8.call, s8.evidence}
           Evidence == /\ s9 \in Seq(s6) /\ Owing(s7) /\ Owing(s8) /\ Newest
                       /\ s8.call \in s6 => s8.evidence = 0
           none == [call |-> 0, evidence |-> 0, stands |-> {}]
<1>1. Places /\ Alone /\ Counted /\ Once /\ Evidence
  <2>1. Places /\ Alone
    BY DEF Sv!HookServiceInv, Sv!HookServiceTypeOK
  <2>2. Counted
    BY SameCardinality DEF Sv!HookServiceInv, Sv!UndecidedAreCounted
  <2>3. Once
    BY DEF Sv!HookServiceInv
  <2>4. s9 \in Seq(s6)
    BY DEF Sv!HookServiceInv
  <2>5. Newest
    BY DEF Sv!HookServiceInv, Sv!GateEvidenceIsKept, Sv!Last
  <2>6. Owing(s7) /\ Owing(s8) /\ (s8.call \in s6 => s8.evidence = 0)
    BY DEF Sv!HookServiceInv, Sv!HookServiceTypeOK, Sv!Owed
  <2> QED
    BY <2>1, <2>2, <2>3, <2>4, <2>5, <2>6
<1>2. ASSUME Places', Alone', Counted', Once', Evidence'
      PROVE  Sv!HookServiceInv'
  <2>1. IsFiniteSet(Undecided') /\ Cardinality(Undecided') <= Cardinality(Calls)
        /\ Cardinality(Undecided') \in Nat /\ Cardinality(Calls) \in Nat
    BY <1>2, FS_Subset, FS_CardinalityType
  <2>2. s4' \in 0..Cardinality(Calls)
    BY <1>2, <2>1
  <2>3. Sv!HookServiceTypeOK'
    BY <1>2, <2>2, SameCardinality DEF Sv!HookServiceTypeOK, Sv!Owed
  <2>4. Sv!UndecidedAreCounted'
    BY <1>2, SameCardinality DEF Sv!UndecidedAreCounted
  <2>5. Sv!GateEvidenceIsKept'
    BY <1>2 DEF Sv!GateEvidenceIsKept, Sv!Last
  <2>6. \A r \in {s7', s8'} : {r.call, r.evidence} \subseteq r.stands \cup {0}
                              /\ r.call \in s5' \cup {0}
    BY <1>2
  <2> QED
    BY <1>2, <2>3, <2>4, <2>5, <2>6 DEF Sv!HookServiceInv
<1>3. IsFiniteSet(Undecided)
  BY <1>1, FS_Subset
<1>4. 0 \notin Calls
  OBVIOUS
(* What a step that queues nothing leaves of the queue.                    *)
<1>5. ASSUME UNCHANGED <<s7, s8, s9, s10>>, s5 \subseteq s5', s6 \subseteq s6',
             \A c \in s6' : c \in s6 \/ (c \in Calls /\ c \notin s5)
      PROVE  Evidence'
  <2>1. s9' \in Seq(s6')
    <3>1. s9 \in Seq(s6) /\ s9' = s9
      BY <1>1, <1>5
    <3>2. Len(s9) \in Nat /\ \A k \in 1..Len(s9) : s9[k] \in s6'
      BY <1>5, <3>1, LenProperties, ElementOfSeq
    <3>3. s9 \in [1..Len(s9) -> s6']
      BY <3>1, <3>2, LenProperties
    <3> QED
      BY <1>5, <3>2, <3>3
  <2>2. Newest'
    BY <1>1, <1>5
  <2>3. Owing(s7)' /\ Owing(s8)'
    BY <1>1, <1>5
  <2>4. s8'.call \in s6' => s8'.evidence = 0
    BY <1>1, <1>4, <1>5
  <2> QED
    BY <2>1, <2>2, <2>3, <2>4
<1>6. ASSUME UNCHANGED s11, \A c \in Calls : Out(c)' <=> Out(c)
      PROVE  Once'
  BY <1>1, <1>6
<1>7. ASSUME NEW c \in Calls, Sv!Call(c)
      PROVE  Sv!HookServiceInv'
  <2>1. /\ s1[c] = "none" /\ s2[c] = "none" /\ c \notin s3 /\ c \notin s5
        /\ s1' = [s1 EXCEPT ![c] = "deciding"] /\ s2' = [s2 EXCEPT ![c] = "joining"]
        /\ UNCHANGED <<s3, s4, s5, s6, s7, s8, s9, s10, s11>>
    BY <1>1, <1>7 DEF Sv!Call
  <2>2. Places' /\ Alone'
    BY <1>1, <2>1
  <2>3. Undecided' = Undecided
    BY <1>1, <2>1
  <2>4. Counted'
    BY <1>1, <2>1, <2>3
  <2>5. \A b \in Calls : Out(b)' <=> Out(b)
    BY <1>1, <2>1
  <2> QED
    BY <1>2, <1>5, <1>6, <2>1, <2>2, <2>4, <2>5
<1>8. ASSUME NEW c \in Calls, NEW owing \in BOOLEAN, NEW evidence \in BOOLEAN,
             Sv!Serve(c, owing, evidence)
      PROVE  Sv!HookServiceInv'
  <2>1. /\ s1[c] = "deciding" /\ s1' = [s1 EXCEPT ![c] = "served"] /\ c \notin s5
        /\ UNCHANGED <<s2, s3, s4, s7, s8, s9, s10, s11>>
    BY <1>1, <1>8 DEF Sv!Serve
  <2>2. s5' \in {s5, s5 \cup {c}} /\ s6' \in {s6, s6 \cup {c}} /\ s6' \subseteq s5'
    BY <1>1, <1>8 DEF Sv!Serve
  <2>3. Places' /\ Alone'
    BY <1>1, <2>1, <2>2
  <2>4. Undecided' = Undecided
    BY <1>1, <2>1
  <2>5. Counted'
    BY <1>1, <2>1, <2>4
  <2>6. \A b \in Calls : Out(b)' <=> Out(b)
    BY <1>1, <2>1, <2>2
  <2> QED
    BY <1>2, <1>5, <1>6, <2>1, <2>2, <2>3, <2>5, <2>6
<1>9. ASSUME NEW c \in Calls, Sv!Fail(c)
      PROVE  Sv!HookServiceInv'
  <2>1. /\ s1[c] = "deciding" /\ s1' = [s1 EXCEPT ![c] = "failed"] /\ c \notin s5
        /\ UNCHANGED <<s2, s3, s4, s5, s6, s7, s8, s9, s10, s11>>
    BY <1>1, <1>9 DEF Sv!Fail
  <2>2. Places' /\ Alone'
    BY <1>1, <2>1
  <2>3. Undecided' = Undecided
    BY <1>1, <2>1
  <2>4. Counted'
    BY <1>1, <2>1, <2>3
  <2>5. \A b \in Calls : Out(b)' <=> Out(b)
    BY <1>1, <2>1
  <2> QED
    BY <1>2, <1>5, <1>6, <2>1, <2>2, <2>4, <2>5
<1>10. ASSUME NEW c \in Calls, Sv!Finish(c)
       PROVE  Sv!HookServiceInv'
  <2>1. /\ s1[c] \in {"served", "failed"}
        /\ s1' = [s1 EXCEPT ![c] = IF c \in s3 /\ c \in s5 THEN "closing" ELSE "done"]
        /\ s4' = IF c \in s3 THEN s4 - 1 ELSE s4
        /\ UNCHANGED <<s2, s3, s5, s6, s7, s8, s9, s10, s11>>
    BY <1>10 DEF Sv!Finish, Sv!Count, Sv!LateOwed
  <2>2. Places' /\ Alone'
    BY <1>1, <2>1
  <2>3. /\ Undecided \ {c} = Undecided' \ {c} /\ c \notin Undecided'
        /\ c \in Undecided <=> c \in s3
    BY <1>1, <2>1
  <2>4. /\ Cardinality(Undecided) \in Nat /\ Cardinality(Undecided') \in Nat
        /\ Cardinality(Undecided') + (IF c \in Undecided THEN 1 ELSE 0)
             = Cardinality(Undecided) + (IF c \in Undecided' THEN 1 ELSE 0)
    <3> HIDE DEF Undecided
    <3> QED
      BY <1>3, <2>3, CountChanges
  <2>5. Counted'
    <3>1. s4 = Cardinality(Undecided)
      BY <1>1
    <3> HIDE DEF Undecided
    <3> QED
      BY <2>1, <2>3, <2>4, <3>1
  <2>6. \A b \in Calls : Out(b)' <=> Out(b)
    BY <1>1, <2>1
  <2> QED
    BY <1>2, <1>5, <1>6, <2>1, <2>2, <2>5, <2>6
<1>11. ASSUME NEW c \in Calls, Sv!Reply(c) \/ Sv!Expire(c)
       PROVE  Sv!HookServiceInv'
  <2>1. /\ s2[c] = "joining" /\ s2' = [s2 EXCEPT ![c] = s2'[c]]
        /\ \/ /\ s2'[c] = "closing" /\ c \in s5 /\ s1[c] \in {"served", "failed", "done"}
           \/ /\ s2'[c] = "served" /\ c \notin s5 /\ s1[c] \in {"served", "failed", "done"}
           \/ s2'[c] = "late" /\ s1[c] = "deciding"
        /\ UNCHANGED <<s1, s3, s4, s5, s6, s7, s8, s9, s10, s11>>
    BY <1>1, <1>11 DEF Sv!Reply, Sv!Expire
  <2>2. Places' /\ Alone'
    BY <1>1, <2>1
  <2>3. Undecided' = Undecided
    BY <2>1
  <2>4. Counted'
    BY <1>1, <2>1, <2>3
  <2>5. \A b \in Calls : Out(b)' <=> Out(b)
    BY <1>1, <2>1
  <2> QED
    BY <1>2, <1>5, <1>6, <2>1, <2>2, <2>4, <2>5
<1>12. ASSUME NEW c \in Calls, Sv!GiveUp(c)
       PROVE  Sv!HookServiceInv'
  <2>1. /\ s2[c] = "late" /\ c \notin s3 /\ s1[c] \in {"deciding", "served", "failed", "done"}
        /\ UNCHANGED <<s1, s5, s6, s7, s8, s9, s10, s11>>
    BY <1>1, <1>12 DEF Sv!GiveUp
  <2>2. CASE s1[c] = "done"
    <3>1. /\ UNCHANGED <<s3, s4>>
          /\ s2' = [s2 EXCEPT ![c] = IF c \in s5 THEN "closing" ELSE "refused"]
      BY <1>12, <2>2 DEF Sv!GiveUp, Sv!Abandons, Sv!Finished
    <3>2. Places' /\ Alone'
      BY <1>1, <2>1, <2>2, <3>1
    <3>3. Undecided' = Undecided
      BY <2>1, <3>1
    <3>4. Counted'
      BY <1>1, <3>1, <3>3
    <3>5. \A b \in Calls : Out(b)' <=> Out(b)
      BY <1>1, <2>1, <3>1
    <3> QED
      BY <1>2, <1>5, <1>6, <2>1, <3>2, <3>4, <3>5
  <2>3. CASE s1[c] # "done"
    <3>1. /\ s3' = s3 \cup {c} /\ s4' = s4 + 1
          /\ s2' = [s2 EXCEPT ![c] = "refused"]
      BY <1>12, <2>1, <2>3 DEF Sv!GiveUp, Sv!Abandons, Sv!Finished
    <3>2. Places' /\ Alone'
      BY <1>1, <2>1, <2>3, <3>1
    <3>3. /\ Undecided \ {c} = Undecided' \ {c} /\ c \in Undecided' /\ c \notin Undecided
      BY <1>1, <2>1, <2>3, <3>1
    <3>4. /\ Cardinality(Undecided) \in Nat /\ Cardinality(Undecided') \in Nat
          /\ Cardinality(Undecided') + (IF c \in Undecided THEN 1 ELSE 0)
               = Cardinality(Undecided) + (IF c \in Undecided' THEN 1 ELSE 0)
      <4> HIDE DEF Undecided
      <4> QED
        BY <1>3, <3>3, CountChanges
    <3>5. Counted'
      <4>1. s4 = Cardinality(Undecided)
        BY <1>1
      <4> HIDE DEF Undecided
      <4> QED
        BY <3>1, <3>3, <3>4, <4>1
    <3>6. \A b \in Calls : Out(b)' <=> Out(b)
      BY <1>1, <2>1, <2>3, <3>1
    <3> QED
      BY <1>2, <1>5, <1>6, <2>1, <3>2, <3>5, <3>6
  <2> QED
    BY <2>2, <2>3
(* A newer request stands for the one that waits.                          *)
<1>13. ASSUME NEW c \in Calls, c \in s5, Sv!Queue(c), UNCHANGED <<s5, s6, s10>>
       PROVE  Evidence'
  <2> DEFINE new == [call |-> c, evidence |-> 0, stands |-> {c}]
             merged == [call |-> c,
                        evidence |-> IF c \in s6 \/ s8 = none THEN 0
                                     ELSE IF s8.call \in s6 THEN s8.call ELSE s8.evidence,
                        stands |-> {c} \cup s8.stands]
  <2>1. \/ s7 = none /\ s7' = new /\ s8' = s8
        \/ s7 # none /\ s8' = merged /\ s7' = s7
    BY <1>13 DEF Sv!Queue, Sv!None, Sv!Request, Sv!Merge
  <2>2. s9 \in Seq(s6) /\ Len(s9) \in Nat /\ (s9 # <<>> => s9[Len(s9)] \in s6)
    <3>1. s9 \in Seq(s6) /\ Len(s9) \in Nat
      BY <1>1, LenProperties
    <3>2. s9 # <<>> => Len(s9) > 0
      BY <3>1, EmptySeq
    <3> QED
      BY <3>1, <3>2, ElementOfSeq
  <2>3. CASE c \in s6
    <3>1. s9' = Append(s9, c)
      BY <1>13, <2>3 DEF Sv!Queue
    <3>2. s9' \in Seq(s6) /\ Len(s9') = Len(s9) + 1 /\ s9'[Len(s9')] = c
      BY <2>2, <2>3, <3>1, AppendProperties
    <3>3. Newest'
      BY <2>1, <2>3, <3>2
    <3>4. Owing(s7)' /\ Owing(s8)'
      BY <1>1, <1>13, <2>1
    <3>5. s8'.call \in s6' => s8'.evidence = 0
      BY <1>1, <1>13, <2>1, <2>3
    <3> QED
      BY <1>13, <3>2, <3>3, <3>4, <3>5
  <2>4. CASE c \notin s6
    <3>1. s9' = s9
      BY <1>13, <2>4 DEF Sv!Queue
    <3>2. Newest'
      BY <1>1, <1>4, <1>13, <2>1, <2>2, <2>4, <3>1
    <3>3. Owing(s7)' /\ Owing(s8)'
      BY <1>1, <1>13, <2>1
    <3>4. s8'.call \in s6' => s8'.evidence = 0
      BY <1>1, <1>13, <2>1, <2>4
    <3> QED
      BY <1>13, <2>2, <3>1, <3>2, <3>3, <3>4
  <2> QED
    BY <2>3, <2>4
<1>14. ASSUME NEW c \in Calls, Sv!LateRecovery(c)
       PROVE  Sv!HookServiceInv'
  <2>1. /\ s1[c] = "closing" /\ s1' = [s1 EXCEPT ![c] = "done"] /\ c \in s5 /\ c \in s3
        /\ s2[c] = "refused" /\ UNCHANGED <<s2, s3, s4, s5, s6, s10>> /\ Sv!Queue(c)
    BY <1>1, <1>14 DEF Sv!LateRecovery
  <2>2. Places' /\ Alone'
    BY <1>1, <2>1
  <2>3. Undecided' = Undecided
    BY <1>1, <2>1
  <2>4. Counted'
    BY <1>1, <2>1, <2>3
  <2>5. ~Out(c) /\ Out(c)' /\ \A b \in Calls : b # c => (Out(b)' <=> Out(b))
    BY <1>1, <2>1
  <2>6. s11' = [s11 EXCEPT ![c] = @ + 1]
    BY <2>1 DEF Sv!Queue
  <2>7. Once'
    <3>1. s11 = [b \in Calls |-> IF Out(b) THEN 1 ELSE 0]
      BY <1>1
    <3>2. s11' = [b \in Calls |-> IF b = c THEN 1 ELSE IF Out(b) THEN 1 ELSE 0]
      <4>1. s11[c] = 0
        BY <2>5, <3>1
      <4>2. /\ s11' = [b \in Calls |-> s11'[b]] /\ s11'[c] = 1
            /\ \A b \in Calls : b # c => s11'[b] = s11[b]
        <5>1. s11 = [b \in Calls |-> s11[b]]
          BY <3>1
        <5> QED
          BY <2>6, <4>1, <5>1
      <4>3. \A b \in Calls : b # c => s11[b] = IF Out(b) THEN 1 ELSE 0
        BY <3>1
      <4> HIDE DEF Out
      <4> QED
        BY <4>2, <4>3
    <3> QED
      BY <2>5, <3>2
  <2>8. Evidence'
    BY <1>13, <2>1
  <2> QED
    BY <1>2, <2>2, <2>4, <2>7, <2>8
<1>15. ASSUME NEW c \in Calls, Sv!Recover(c)
       PROVE  Sv!HookServiceInv'
  <2>1. /\ s2[c] = "closing" /\ s2' = [s2 EXCEPT ![c] = "served"] /\ c \in s5 /\ c \notin s3
        /\ UNCHANGED <<s1, s3, s4, s5, s6, s10>> /\ Sv!Queue(c)
    BY <1>1, <1>15 DEF Sv!Recover
  <2>2. Places' /\ Alone'
    BY <1>1, <2>1
  <2>3. Undecided' = Undecided
    BY <2>1
  <2>4. Counted'
    BY <1>1, <2>1, <2>3
  <2>5. ~Out(c) /\ Out(c)' /\ \A b \in Calls : b # c => (Out(b)' <=> Out(b))
    BY <1>1, <2>1
  <2>6. s11' = [s11 EXCEPT ![c] = @ + 1]
    BY <2>1 DEF Sv!Queue
  <2>7. Once'
    <3>1. s11 = [b \in Calls |-> IF Out(b) THEN 1 ELSE 0]
      BY <1>1
    <3>2. s11' = [b \in Calls |-> IF b = c THEN 1 ELSE IF Out(b) THEN 1 ELSE 0]
      <4>1. s11[c] = 0
        BY <2>5, <3>1
      <4>2. /\ s11' = [b \in Calls |-> s11'[b]] /\ s11'[c] = 1
            /\ \A b \in Calls : b # c => s11'[b] = s11[b]
        <5>1. s11 = [b \in Calls |-> s11[b]]
          BY <3>1
        <5> QED
          BY <2>6, <4>1, <5>1
      <4>3. \A b \in Calls : b # c => s11[b] = IF Out(b) THEN 1 ELSE 0
        BY <3>1
      <4> HIDE DEF Out
      <4> QED
        BY <4>2, <4>3
    <3> QED
      BY <2>5, <3>2
  <2>8. Evidence'
    BY <1>13, <2>1
  <2> QED
    BY <1>2, <2>2, <2>4, <2>7, <2>8
<1>16. CASE Sv!Recovered
  <2>1. /\ s10' = s10 \cup s7.stands /\ s7' = s8 /\ s8' = none
        /\ UNCHANGED <<s1, s2, s3, s4, s5, s6, s9, s11>>
    BY <1>16 DEF Sv!Recovered, Sv!None
  <2>2. Places' /\ Alone' /\ Counted' /\ Once'
    BY <1>1, <2>1
  <2>3. Newest'
    <3>1. s9 # <<>> => s9[Len(s9)] # 0
      <4>1. s9 \in Seq(s6) /\ Len(s9) \in Nat
        BY <1>1, LenProperties
      <4>2. s9 # <<>> => Len(s9) > 0
        BY <4>1, EmptySeq
      <4> QED
        BY <1>1, <1>4, <4>1, <4>2, ElementOfSeq
    <3> QED
      BY <1>1, <2>1, <3>1
  <2>4. Owing(s7)' /\ Owing(s8)' /\ (s8'.call \in s6' => s8'.evidence = 0)
    BY <1>1, <2>1
  <2>5. Evidence'
    BY <1>1, <2>1, <2>3, <2>4
  <2> QED
    BY <1>2, <2>2, <2>5
<1>17. CASE UNCHANGED Sv!hsVars
  <2>1. UNCHANGED <<s1, s2, s3, s4, s5, s6, s7, s8, s9, s10, s11>>
    BY <1>17 DEF Sv!hsVars
  <2>2. Places' /\ Alone' /\ Counted' /\ Once'
    BY <1>1, <2>1
  <2> QED
    BY <1>2, <1>5, <2>1, <2>2
<1> QED
  BY <1>7, <1>8, <1>9, <1>10, <1>11, <1>12, <1>14, <1>15, <1>16, <1>17
     DEF Sv!HookServiceNext, Sv!Step

(* The count of a call's recoveries is one where it went out, and none else. *)
LEMMA QueuedOnce == Sv!HookServiceInv => Sv!RecoveriesAreQueuedOnce
<1> SUFFICES ASSUME Sv!HookServiceInv PROVE Sv!RecoveriesAreQueuedOnce
  OBVIOUS
<1> QED
  BY DEF Sv!HookServiceInv, Sv!RecoveriesAreQueuedOnce

-----------------------------------------------------------------------------
(* A behaviour of the sum is one component's, and keeps its invariant.     *)

MessagingInv ==
  /\ part \in {"mail", "schedules", "delivery", "hookService", "digests", "inbound",
               "serverSlots", "forgeReadings", "forgeMarks", "gitReadings"}
  /\ part = "mail" => Ma!MailInv
  /\ part = "schedules" => Sc!SchedulesInv
  /\ part = "delivery" => No!DeliveryInv
  /\ part = "hookService" => Sv!HookServiceInv
  /\ part = "digests" => No!DigestsInv
  /\ part = "inbound" => No!InboundInv
  /\ part = "serverSlots" => Sv!SlotsInv
  /\ part = "forgeReadings" => Fg!ForgeReadInv
  /\ part = "forgeMarks" => Fg!MarksInv
  /\ part = "gitReadings" => Gi!ReadingsInv

(* Each component starts within its invariant. *)
LEMMA MessagingInitially == Init => MessagingInv
BY MailInitially, SchedulesInitially, DeliveryInitially, HooksInitially, DigestsInitially,
   InboundInitially, SlotsInitially, ForgeReadInitially, MarksInitially, ReadingsInitially
   DEF Init, MessagingInv

(* A step of the sum is a step, or a stutter, of the component that runs.  *)
LEMMA PartsStep ==
  [Next]_vars =>
    /\ part' = part
    /\ part = "mail" => [Ma!Next]_(Ma!mailVars)
    /\ part = "schedules" => [Sc!Next]_(Sc!scheduleVars)
    /\ part = "delivery" => [No!Next]_(No!deliveryVars)
    /\ part = "hookService" => [Sv!HookServiceNext]_(Sv!hsVars)
    /\ part = "digests" => [No!DigestsNext]_(No!digestVars)
    /\ part = "inbound" => [No!InboundNext]_(No!inboundVars)
    /\ part = "serverSlots" => [Sv!SlotsNext]_(Sv!slotVars)
    /\ part = "forgeReadings" => [Fg!ForgeReadNext]_(Fg!forgeReadVars)
    /\ part = "forgeMarks" => [Fg!MarksNext]_(Fg!markVars)
    /\ part = "gitReadings" => [Gi!ReadingsNext]_(Gi!readingVars)
<1> SUFFICES ASSUME [Next]_vars
             PROVE  /\ part' = part
                    /\ part = "mail" => [Ma!Next]_(Ma!mailVars)
                    /\ part = "schedules" => [Sc!Next]_(Sc!scheduleVars)
                    /\ part = "delivery" => [No!Next]_(No!deliveryVars)
                    /\ part = "hookService" => [Sv!HookServiceNext]_(Sv!hsVars)
                    /\ part = "digests" => [No!DigestsNext]_(No!digestVars)
                    /\ part = "inbound" => [No!InboundNext]_(No!inboundVars)
                    /\ part = "serverSlots" => [Sv!SlotsNext]_(Sv!slotVars)
                    /\ part = "forgeReadings" => [Fg!ForgeReadNext]_(Fg!forgeReadVars)
                    /\ part = "forgeMarks" => [Fg!MarksNext]_(Fg!markVars)
                    /\ part = "gitReadings" => [Gi!ReadingsNext]_(Gi!readingVars)
  OBVIOUS
<1>1. CASE UNCHANGED vars
  BY <1>1 DEF vars, Ma!mailVars, Sc!scheduleVars, No!deliveryVars, Sv!hsVars, No!digestVars,
     No!inboundVars, Sv!slotVars, Fg!forgeReadVars, Fg!markVars, Gi!readingVars
<1>2. CASE Next
  BY <1>2 DEF Next, OfMail, OfSchedules, OfDelivery, OfHookService, OfDigests, OfInbound,
     OfServerSlots, OfForgeReadings, OfForgeMarks, OfGitReadings
<1> QED
  BY <1>1, <1>2

(* Each component keeps its invariant, and the others are not of this
   behaviour. *)
LEMMA MessagingStep == MessagingInv /\ [Next]_vars => MessagingInv'
BY PartsStep, MailStep, SchedulesStep, DeliveryStep, HooksStep, DigestsStep, InboundStep,
   SlotsStep, ForgeReadStep, MarksStep, ReadingsStep
   DEF MessagingInv

(* Every behaviour keeps the invariant of its component.                   *)
THEOREM MessagingIsSound == Spec => []MessagingInv
<1>1. Init => MessagingInv
  BY MessagingInitially
<1>2. MessagingInv /\ [Next]_vars => MessagingInv'
  BY MessagingStep
<1> QED
  BY <1>1, <1>2, PTL DEF Spec

(* Every component that carries messages, calls and readings keeps its     *)
(* types.                                                                  *)
THEOREM MessagingTypeCorrect == Spec => []TypeOK
<1>1. MessagingInv => TypeOK
  BY DEF MessagingInv, TypeOK, Ma!MailInv, Sc!SchedulesInv, No!DeliveryInv, Sv!HookServiceInv,
     No!DigestsInv, No!InboundInv, Sv!SlotsInv, Fg!ForgeReadInv, Fg!MarksInv, Gi!ReadingsInv
<1> QED
  BY <1>1, MessagingIsSound, PTL

(* No occurrence is sent again, no mail announced in two batches, no       *)
(* recovery queued twice, no digest repeated to a transport, no update     *)
(* served twice by one reader and no reading started beside the same one,  *)
(* however calls are repeated, polls overlap and services restart.         *)
THEOREM NothingIsHandledTwice == Spec => []HandledOnce
<1>1. MessagingInv => HandledOnce
  BY QueuedOnce, ReadingsOneFlight
     DEF MessagingInv, HandledOnce, Sc!SchedulesInv, No!DeliveryInv, No!DigestsInv, No!InboundInv
<1> QED
  BY <1>1, MessagingIsSound, PTL

(* Passed mail stays in a batch, gate evidence with a recovery, an         *)
(* undecided call in the count, a slot with its request, and the key of a  *)
(* reading with its flight.                                                *)
THEOREM WhatIsTakenIsKept == Spec => []NothingIsDropped
<1>1. MessagingInv => NothingIsDropped
  BY DEF MessagingInv, NothingIsDropped, No!DeliveryInv, Sv!HookServiceInv, No!DigestsInv,
     No!InboundInv, Sv!SlotsInv, Gi!ReadingsInv
<1> QED
  BY <1>1, MessagingIsSound, PTL

(* Retention prunes no unsettled mail, an acknowledgement is retired only  *)
(* after its sender was told, replaced mail has a successor, a cancelled   *)
(* message is not sent, a signalled service is not replaced, no other      *)
(* claim ends and no person loses an assignment.                           *)
THEOREM SettledMattersStaySettled == Spec => DecisionsAreRespected
<1>1. MessagingInv /\ [Next]_vars =>
        /\ part = "mail" => /\ Ma!UnsettledMailIsKeptStep
                            /\ Ma!RetiredAcksWereReportedStep
                            /\ Ma!ReplacedMailHasASuccessorStep
        /\ part = "schedules" => Sc!CancelledIsNotSentStep
        /\ part = "serverSlots" => Sv!SignalsStopTheServiceStep
        /\ part = "forgeReadings" => Fg!OnlyThisClaimEndsStep
        /\ part = "forgeMarks" => Fg!PeopleKeepTheirAssignmentsStep
  BY PartsStep, MailStep, CancelledStaysUnsent, SignalsStop, OnlyThisClaimIsEnded,
     PeopleKeepAssignments
     DEF MessagingInv
<1> QED
  BY <1>1, MessagingIsSound, PTL DEF Spec, DecisionsAreRespected
=============================================================================
