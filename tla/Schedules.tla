------------------------------- MODULE Schedules -------------------------------
(***************************************************************************)
(* Operator messages and handoff offers recorded for a later time.  A pass *)
(* of the poll reads the waiting items and the issue ledger, and then      *)
(* settles one item at a time: a message in one transaction that reads its *)
(* row again, an offer in the ledger first and in the store afterwards.    *)
(* The operator cancels, lanes answer and the supervisor stops in between. *)
(***************************************************************************)
EXTENDS Integers, FiniteSets

CONSTANTS
    MessageItem,    \* recorded messages
    OfferItem,      \* recorded handoff offers
    Repeats,        \* repeats_left of a recorded message, at most MAX_REPEATS
    MaxHalts        \* model bound: supervisor stops

VARIABLES
    row,            \* the current row of each item
    sent,           \* messages an item has put into the recipient's inbox
    seen,           \* the rows the current pass has read and not settled
    fulfilled,      \* whether the recipient's condition (a release) holds
    reachable,      \* whether the recipient has a credential
    issue,          \* who has the issue of the offers, and their offer
    made,           \* offers the ledger carried at some time
    halts

scheduleVars == <<row, sent, seen, fulfilled, reachable, issue, made, halts>>

Item == MessageItem \cup OfferItem
NotSeen == [seq |-> -1]      \* not of this pass, or settled in it
Offered == [seq |-> -2]      \* offered in this pass, not completed

Row == [seq : 0..Repeats, left : 1..Repeats, due : BOOLEAN, unless : BOOLEAN,
        st : {"waiting", "delivered", "cancelled"}]

TypeOK ==
    /\ row \in [Item -> Row]
    /\ sent \in [Item -> 0..Repeats]
    /\ made \subseteq OfferItem
    /\ issue \in {"held", "offered", "taken"}

Waiting(i) == row[i].st = "waiting"

(* _advance_schedule: the next occurrence of a repeat is a row of its own,
   one interval after the one before, with a key of its own. *)
Advanced(r) ==
    IF r.left > 1
    THEN [r EXCEPT !.seq = r.seq + 1, !.left = r.left - 1, !.due = FALSE]
    ELSE [r EXCEPT !.st = "delivered"]

Advance(i) == row' = [row EXCEPT ![i] = Advanced(row[i])]

(* schedule and its bounds. *)
Init ==
    /\ row = [i \in Item |->
          [seq |-> 0, left |-> IF i \in MessageItem THEN Repeats ELSE 1,
           due |-> FALSE, unless |-> FALSE, st |-> "waiting"]]
    /\ sent = [i \in Item |-> 0]
    /\ seen = [i \in Item |-> NotSeen]
    /\ fulfilled = FALSE /\ reachable = TRUE
    /\ issue = "held" /\ made = {} /\ halts = 0

(* schedules and eligible: the items of this pass whose time has come and
   whose condition holds, as the store and the ledger read when it began. *)
ReadItems ==
    /\ \A i \in Item : seen[i] = NotSeen
    /\ seen' = [i \in Item |->
          IF Waiting(i) /\ row[i].due /\ fulfilled THEN row[i] ELSE NotSeen]
    /\ seen' # seen
    /\ UNCHANGED <<row, sent, fulfilled, reachable, issue, made, halts>>

Settled(i) == seen' = [seen EXCEPT ![i] = NotSeen]

(* An item no longer wanted once its recipient reported is cancelled. *)
CancelReported(i) ==
    /\ seen[i] \notin {NotSeen, Offered} /\ row[i].unless
    /\ row' = [row EXCEPT ![i].st =
          IF @ = "waiting" /\ row[i].seq = seen[i].seq THEN "cancelled" ELSE @]
    /\ Settled(i)
    /\ UNCHANGED <<sent, fulfilled, reachable, issue, made, halts>>

(* deliver_schedule: the row is read again; the message and the next
   occurrence are written together; a message the store refuses, as to a
   lane without a credential, is cancelled with the reason. *)
Deliver(i) ==
    /\ i \in MessageItem /\ seen[i] # NotSeen /\ ~row[i].unless
    /\ IF ~Waiting(i) \/ row[i].seq # seen[i].seq THEN UNCHANGED <<row, sent>>
       ELSE IF reachable
       THEN /\ sent' = [sent EXCEPT ![i] =
                  IF row[i].seq >= @ THEN @ + 1 ELSE @]
            /\ Advance(i)
       ELSE /\ row' = [row EXCEPT ![i].st = "cancelled"]
            /\ UNCHANGED sent
    /\ Settled(i)
    /\ UNCHANGED <<fulfilled, reachable, issue, made, halts>>

(* hand_off, first half: the ledger offers the issue, whatever became of
   the row since it was read. *)
Offer(i) ==
    /\ i \in OfferItem /\ seen[i] \notin {NotSeen, Offered} /\ ~row[i].unless
    /\ issue = "held"
    /\ issue' = "offered" /\ made' = made \cup {i}
    /\ seen' = [seen EXCEPT ![i] = Offered]
    /\ UNCHANGED <<row, sent, fulfilled, reachable, halts>>

(* The ledger refuses: that counts as delivered only when the offer stands,
   as after a stop between the halves; otherwise the item keeps waiting. *)
OfferRefused(i) ==
    /\ i \in OfferItem /\ seen[i] \notin {NotSeen, Offered} /\ ~row[i].unless
    /\ issue # "held"
    /\ seen' = [seen EXCEPT ![i] = IF issue = "offered" THEN Offered
                                  ELSE NotSeen]
    /\ UNCHANGED <<row, sent, fulfilled, reachable, issue, made, halts>>

(* complete_schedule, the second half. *)
Complete(i) ==
    /\ i \in OfferItem /\ seen[i] = Offered
    /\ IF Waiting(i) THEN Advance(i) ELSE UNCHANGED row
    /\ Settled(i)
    /\ UNCHANGED <<sent, fulfilled, reachable, issue, made, halts>>

(* cancel_schedule, by the operator. *)
Cancel(i) ==
    /\ Waiting(i)
    /\ row' = [row EXCEPT ![i].st = "cancelled"]
    /\ UNCHANGED <<sent, seen, fulfilled, reachable, issue, made, halts>>

ComeDue(i) ==
    /\ Waiting(i) /\ ~row[i].due
    /\ row' = [row EXCEPT ![i].due = TRUE]
    /\ UNCHANGED <<sent, seen, fulfilled, reachable, issue, made, halts>>

(* The recipient reports (unless_reported), the condition comes to hold or
   not, its credential goes or comes back, and the offer is answered. *)
Report(i) ==
    /\ ~row[i].unless
    /\ row' = [row EXCEPT ![i].unless = TRUE]
    /\ UNCHANGED <<sent, seen, fulfilled, reachable, issue, made, halts>>

World ==
    /\ \/ fulfilled' = ~fulfilled /\ UNCHANGED <<reachable, issue>>
       \/ reachable' = ~reachable /\ UNCHANGED <<fulfilled, issue>>
       \/ /\ issue' \in {"held", "taken"} /\ issue' # issue
          /\ UNCHANGED <<fulfilled, reachable>>
    /\ UNCHANGED <<row, sent, seen, made, halts>>

Halt ==
    /\ halts < MaxHalts /\ \E i \in Item : seen[i] # NotSeen
    /\ seen' = [i \in Item |-> NotSeen]
    /\ halts' = halts + 1
    /\ UNCHANGED <<row, sent, fulfilled, reachable, issue, made>>

Settle(i) ==
    \/ CancelReported(i) \/ Deliver(i) \/ Offer(i) \/ Complete(i)
    \/ OfferRefused(i)

Next ==
    \/ ReadItems \/ World \/ Halt
    \/ \E i \in Item : Settle(i) \/ Cancel(i) \/ ComeDue(i) \/ Report(i)

Spec == Init /\ [][Next]_scheduleVars
(* supervise polls for ever: it reads the items again and settles each. *)
FairSpec ==
    /\ Spec
    /\ SF_scheduleVars(ReadItems)
    /\ \A i \in Item : WF_scheduleVars(Settle(i))

-----------------------------------------------------------------------------
(* Every occurrence of a repeated message is one message: none is sent twice
   after a stop, and none is lost as a duplicate of the one before. *)
OccurrencesAreSentOnce ==
    \A i \in MessageItem :
        sent[i] = row[i].seq + (IF row[i].st = "delivered" THEN 1 ELSE 0)

CancelledIsNotSentStep ==
    \A i \in MessageItem :
        row[i].st = "cancelled" => sent'[i] = sent[i]

(* A message the operator cancelled while the pass was under way is not sent. *)
CancelledIsNotSent == [][CancelledIsNotSentStep]_scheduleVars

(* An offer counts as delivered only when the ledger carried an offer of the
   issue to that recipient, however the refusal of a repeated one reads. *)
OnlyMadeOffersComplete ==
    \A i \in OfferItem : row[i].st = "delivered" => made # {}

Ready(i) == Waiting(i) /\ row[i].due /\ fulfilled

ConditionHolds == fulfilled

ReadyAreSettled == ConditionHolds => \A i \in MessageItem : ~Ready(i)

(* A message whose time has come is delivered or cancelled, unless its
   condition stops holding again and again: a refusing recipient does not
   block it. *)
ReadyMessagesSettle == []<>ReadyAreSettled

(* An occurrence and the repeats left after it make the recorded repeats, so
   that a message is sent once for each; what counts as offered was offered. *)
SchedulesInv ==
    /\ TypeOK /\ OccurrencesAreSentOnce /\ OnlyMadeOffersComplete
    /\ DOMAIN seen = Item
    /\ \A i \in MessageItem : row[i].seq + row[i].left = Repeats
    /\ \A i \in OfferItem : row[i].left = 1
    /\ \A i \in OfferItem : seen[i] = Offered => made # {}
    /\ issue = "offered" => made # {}
=============================================================================
