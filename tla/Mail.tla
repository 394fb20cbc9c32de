--------------------------------- MODULE Mail ---------------------------------
(***************************************************************************)
(* Messages, their deliveries and the acknowledgements they ask for: the   *)
(* messages and message_recipients tables, the tools that change them, and *)
(* the passes of the poll that return what nobody will answer.  A tool is  *)
(* one transaction.  A pass of the poll reads in one transaction and then  *)
(* tells each sender and settles each message in transactions of their     *)
(* own, between which lanes act and the supervisor may stop.               *)
(***************************************************************************)
EXTENDS Integers, Sequences, FiniteSets

CONSTANTS
    Lane,           \* registered lanes
    Sender,         \* lanes that send in this instance
    Topic,          \* topics a message may carry
    Base,           \* the topic every lane reads from the feed
    Mortal,         \* lanes that die in this instance
    MailKey,        \* idempotency keys of sends
    BroadcastMin,   \* BROADCAST_MIN
    MaxMail,        \* model bound: messages ever sent
    MaxStops        \* model bound: supervisor restarts and revocations

VARIABLES
    mail,       \* messages, in the order of their identifiers
    active,     \* lanes with a credential
    dead,       \* lanes dead for longer than DEAD_MAIL_AFTER
    overdue,    \* breaches the poll has read and not settled
    returned,   \* deliveries withdrawn from dead lanes, to be reported
    stops

mailVars == <<mail, active, dead, overdue, returned, stops>>

Delivery == [state : {"none", "unread", "read", "acked"},
             withdrawn : {"no", "replaced", "returned"}]
(* ask: whether an acknowledgement is required, and of a required one what
   its sender was told; a retired one no longer is. *)
Message == [sender : Lane, key : MailKey, topic : Topic,
            ask : {"no", "asked", "told", "refused", "retired"},
            due : BOOLEAN, old : BOOLEAN, to : [Lane -> Delivery]]
Pruned == [sender |-> "nobody"]

TypeOK ==
    /\ mail \in Seq(Message \cup {Pruned})
    /\ {active, dead} \subseteq SUBSET Lane
    /\ overdue \subseteq DOMAIN mail
    /\ returned \subseteq (DOMAIN mail) \X Lane
    /\ stops \in 0..MaxStops

Fresh(l, delivered) ==
    [state |-> IF l \in delivered THEN "unread" ELSE "none", withdrawn |-> "no"]

Live == {i \in DOMAIN mail : mail[i] # Pruned}
Asks(m) == m.ask \in {"asked", "told", "refused"}

(* The rows every supersession selects: delivered, not superseded, and
   unread or owing an acknowledgement. *)
Outstanding(m, l) ==
    LET d == m.to[l] IN
    /\ d.withdrawn = "no"
    /\ d.state = "unread" \/ (Asks(m) /\ d.state = "read")

Withdrawn(m, l, why) ==
    IF Outstanding(m, l) THEN [m.to[l] EXCEPT !.withdrawn = why] ELSE m.to[l]

(* _routed: whom a status message reaches.  Which lanes a broadcast
   concerns (named in it, owning an issue it cites, reserving a key it
   quotes) is left open. *)
Routed(s, to, topic) ==
    IF topic = Base THEN {{}}
    ELSE IF Cardinality(to) < BroadcastMin \/ ~((active \ {s}) \subseteq to)
    THEN {to} ELSE SUBSET to

(* A message replaces the outstanding ones its sender sent under its topic
   to the lanes it is delivered to. *)
Superseded(s, topic, delivered) ==
    [i \in DOMAIN mail |->
        IF i \in Live /\ mail[i].sender = s /\ mail[i].topic = topic
        THEN [mail[i] EXCEPT !.to = [l \in Lane |->
                IF l \in delivered THEN Withdrawn(mail[i], l, "replaced")
                ELSE mail[i].to[l]]]
        ELSE mail[i]]

(* _send.  A key its sender already used answers with the first message, or
   is refused: neither changes anything. *)
Send(s, to, topic, ack, key) ==
    /\ Len(mail) < MaxMail
    /\ s \in active
    /\ ~\E i \in Live : mail[i].sender = s /\ mail[i].key = key
    /\ to \subseteq active
    /\ \E delivered \in (IF ack THEN {to} ELSE Routed(s, to, topic)) :
          mail' = Append(Superseded(s, topic, delivered),
            [sender |-> s, key |-> key, topic |-> topic,
             ask |-> IF ack THEN "asked" ELSE "no", due |-> FALSE,
             old |-> FALSE, to |-> [l \in Lane |-> Fresh(l, delivered)]])
    /\ UNCHANGED <<active, dead, overdue, returned, stops>>

SetDelivery(i, l, state) ==
    mail' = [mail EXCEPT ![i].to[l].state = state]

(* mark_read at a checkpoint, and mark_message_read: a superseded delivery
   may still be read. *)
Read(i, l) ==
    /\ mail[i].to[l].state = "unread"
    /\ SetDelivery(i, l, "read")
    /\ UNCHANGED <<active, dead, overdue, returned, stops>>

(* acknowledge_message: acknowledging reads. *)
Acknowledge(i, l) ==
    /\ mail[i].to[l].state \in {"unread", "read"}
    /\ SetDelivery(i, l, "acked")
    /\ UNCHANGED <<active, dead, overdue, returned, stops>>

(* The operator acknowledges for every recipient that has not. *)
OperatorAcknowledges(i) ==
    /\ Asks(mail[i])
    /\ \E l \in Lane : mail[i].to[l].state \in {"unread", "read"}
    /\ mail' = [mail EXCEPT ![i].to = [l \in Lane |->
          IF mail[i].to[l].state = "none" THEN mail[i].to[l]
          ELSE [mail[i].to[l] EXCEPT !.state = "acked"]]]
    /\ UNCHANGED <<active, dead, overdue, returned, stops>>

(* supersede_claim when a claim of its sender ends: what it sent under that
   claim, which may be any of its messages, is withdrawn. *)
EndClaim(s, under) ==
    /\ mail' = [i \in DOMAIN mail |->
          IF i \in under
          THEN [mail[i] EXCEPT !.to = [l \in Lane |->
                  Withdrawn(mail[i], l, "returned")]]
          ELSE mail[i]]
    /\ UNCHANGED <<active, dead, overdue, returned, stops>>

(* A lane retires or is revoked: it can be sent nothing more, and what was
   on its way is withdrawn afterwards, by supersede_recipient. *)
Revoke(l) ==
    /\ l \in active /\ stops < MaxStops
    /\ active' = active \ {l}
    /\ stops' = stops + 1
    /\ UNCHANGED <<mail, dead, overdue, returned>>

SupersedeRecipient(l) ==
    /\ l \notin active
    /\ mail' = [i \in DOMAIN mail |->
          IF i \in Live
          THEN [mail[i] EXCEPT !.to[l] = Withdrawn(mail[i], l, "returned")]
          ELSE mail[i]]
    /\ UNCHANGED <<active, dead, overdue, returned, stops>>

(* overdue_acknowledgements: the breaches of one poll. *)
ReadOverdue ==
    /\ overdue = {}
    /\ overdue' = {i \in Live :
          /\ Asks(mail[i]) /\ mail[i].due
          /\ \E l \in Lane : /\ mail[i].to[l].state \in {"unread", "read"}
                             /\ mail[i].to[l].withdrawn = "no"}
    /\ overdue' # {}
    /\ UNCHANGED <<mail, active, dead, returned, stops>>

(* The sender is told under a key of the message's own, so a second poll
   does not tell it again; a sender without a credential refuses it. *)
TellSender(i) ==
    /\ i \in overdue /\ mail[i].ask \in {"asked", "refused"}
    /\ mail' = [mail EXCEPT ![i].ask =
          IF mail[i].sender \in active THEN "told" ELSE "refused"]
    /\ UNCHANGED <<active, dead, overdue, returned, stops>>

(* retire_acknowledgement follows, whatever was answered in between. *)
RetireAck(i) ==
    /\ i \in overdue /\ mail[i].ask # "asked"
    /\ mail' = [mail EXCEPT ![i].ask = IF Asks(mail[i]) THEN "retired" ELSE @]
    /\ overdue' = overdue \ {i}
    /\ UNCHANGED <<active, dead, returned, stops>>

(* return_stale_deliveries for a lane that has been dead for long. *)
ReturnStale(l) ==
    LET stale == {i \in Live : mail[i].old /\ Outstanding(mail[i], l)}
    IN
    /\ l \in dead /\ stale # {}
    /\ mail' = [i \in DOMAIN mail |->
          IF i \in stale
          THEN [mail[i] EXCEPT !.to[l].withdrawn = "returned"] ELSE mail[i]]
    /\ returned' = returned \cup {<<i, l>> : i \in
                       {j \in stale : mail[j].sender # l}}
    /\ UNCHANGED <<active, dead, overdue, stops>>

(* _return_mail then tells the senders: one that has no credential is
   never told. *)
ReportReturned(i, l) ==
    /\ <<i, l>> \in returned
    /\ returned' = {r \in returned : mail[r[1]].sender # mail[i].sender}
    /\ UNCHANGED <<mail, active, dead, overdue, stops>>

(* The supervisor stops between two transactions. *)
Stop ==
    /\ stops < MaxStops /\ (overdue # {} \/ returned # {})
    /\ overdue' = {} /\ returned' = {}
    /\ stops' = stops + 1
    /\ UNCHANGED <<mail, active, dead>>

(* prune: deliveries acknowledged, or read where none is asked for, and the
   message once it has none, except the newest.  Its window is far longer
   than a pass of the poll, which never meets a pruned message. *)
Prune(i) ==
    /\ mail[i].old /\ i < Len(mail)
    /\ i \notin overdue /\ \A l \in Lane : <<i, l>> \notin returned
    /\ \A l \in Lane : mail[i].to[l].state \in
          {"none", "acked"} \cup (IF Asks(mail[i]) THEN {} ELSE {"read"})
    /\ mail' = [mail EXCEPT ![i] = Pruned]
    /\ UNCHANGED <<active, dead, overdue, returned, stops>>

(* The clock passes an acknowledgement's deadline, or the age at which mail
   is stale. *)
Deadline(i) ==
    /\ Asks(mail[i]) /\ ~mail[i].due
    /\ mail' = [mail EXCEPT ![i].due = TRUE]
    /\ UNCHANGED <<active, dead, overdue, returned, stops>>

Age(i) ==
    /\ ~mail[i].old
    /\ mail' = [mail EXCEPT ![i].old = TRUE]
    /\ UNCHANGED <<active, dead, overdue, returned, stops>>

Die(l) ==
    /\ dead' \in {dead \cup {l}, dead \ {l}} /\ dead' # dead
    /\ UNCHANGED <<mail, active, overdue, returned, stops>>

Poll ==
    \/ ReadOverdue
    \/ \E i \in overdue : TellSender(i) \/ RetireAck(i)

Next ==
    \/ \E s \in Sender, to \in (SUBSET Lane) \ {{}}, topic \in Topic,
          ack \in BOOLEAN, key \in MailKey :
          s \notin to /\ Send(s, to, topic, ack, key)
    \/ \E i \in Live :
          \/ \E l \in Lane : Read(i, l) \/ Acknowledge(i, l)
          \/ OperatorAcknowledges(i) \/ Prune(i) \/ Deadline(i) \/ Age(i)
    \/ \E r \in returned : ReportReturned(r[1], r[2])
    \/ \E l \in Lane : Revoke(l) \/ SupersedeRecipient(l) \/ ReturnStale(l)
    \/ \E l \in Mortal : Die(l)
    \/ \E s \in Sender : \E under \in SUBSET {i \in Live : mail[i].sender = s} :
          EndClaim(s, under)
    \/ Poll \/ Stop

Init ==
    /\ mail = <<>> /\ active = Lane /\ dead = {}
    /\ overdue = {} /\ returned = {} /\ stops = 0

Spec == Init /\ [][Next]_mailVars

(* The poll keeps running: supervise's loop calls acknowledgement_deadlines
   in every pass. *)
FairSpec == Spec /\ WF_mailVars(Poll)

-----------------------------------------------------------------------------
ReplacedMailHasASuccessorStep ==
    \A i \in Live, l \in Lane :
        LET new == mail'[Len(mail')] IN
        /\ mail'[i] # Pruned
        /\ mail[i].to[l].withdrawn = "no"
        /\ mail'[i].to[l].withdrawn = "replaced"
        => /\ new.sender = mail[i].sender /\ new.topic = mail[i].topic
           /\ Outstanding(new, l)

(* Mail withdrawn for a newer message of its topic was replaced: in the same
   step the newer one becomes outstanding for that very lane, also when a
   broadcast reached only the lanes it concerned. *)
ReplacedMailHasASuccessor == [][ReplacedMailHasASuccessorStep]_mailVars

UnsettledMailIsKeptStep ==
    \A i \in Live, l \in Lane :
        mail'[i] = Pruned =>
           /\ mail[i].to[l].state # "unread"
           /\ Asks(mail[i]) => mail[i].to[l].state # "read"

(* Retention deletes nothing a lane still has to read, or to acknowledge
   without having been relieved of it, whatever was superseded or retired. *)
UnsettledMailIsKept == [][UnsettledMailIsKeptStep]_mailVars

RetiredAcksWereReportedStep ==
    \A i \in Live : mail[i].ask = "asked" /\ mail'[i] # Pruned
        => mail'[i].ask # "retired"

(* An expectation is retired only after its sender was told, or could not
   be: a stop between the two steps repeats the pass and never skips it. *)
RetiredAcksWereReported == [][RetiredAcksWereReportedStep]_mailVars

Awaited(i) ==
    /\ i \in Live
    /\ mail[i].due /\ Asks(mail[i])
    /\ \E l \in Lane : Outstanding(mail[i], l)

OverdueAcksSettleState ==
    \A i \in 1..MaxMail : ~Awaited(i)

(* Nobody waits for an acknowledgement for ever: past its deadline it is
   given, withdrawn or retired, across stops of the supervisor. *)
OverdueAcksSettle == []<>OverdueAcksSettleState

(* The poll has read nothing that was pruned since. *)
MailInv ==
    /\ TypeOK
    /\ overdue \subseteq Live /\ \A r \in returned : r[1] \in Live
=============================================================================
