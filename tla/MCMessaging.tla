---------------------------- MODULE MCMessaging ---------------------------
(***************************************************************************)
(* What carries messages, calls and readings, on small instances.          *)
(* They share no state, so each behaviour is one component's: "part" names *)
(* it, and s1, s2, ... are its variables, in the order its module gives.   *)
(***************************************************************************)
EXTENDS Naturals, Sequences, FiniteSets

CONSTANTS
    Lane, Sender, Topic, Base, Mortal, MailKey, BroadcastMin, MaxMail,
    MaxStops, MessageItem, OfferItem, Repeats, MaxHalts, Poller,
    MaxArrivals, MaxNotices, MaxBatches, Calls, Transport, DeliveryTries,
    MaxDecisions, MaxLosses, MissLimit, MaxUpdates, MaxRestarts, Requests,
    Workers, Waiters, MaxClaims, MaxForgeNews, MaxRefusals, Commands,
    MaxTurns, MaxForgeRefusals, Askers, MaxWorld, MaxFailures

(* Bounds are numbers, limits leave room for one, identifiers are apart. *)
ASSUME MessagingAssumption ==
    /\ Sender \subseteq Lane /\ Mortal \subseteq Lane
    /\ Repeats \in Nat \ {0} /\ MessageItem \cap OfferItem = {}
    /\ MaxArrivals \in Nat /\ MaxNotices \in Nat /\ MaxBatches \in Nat \ {0}
    /\ Calls \subseteq Nat \ {0} /\ IsFiniteSet(Calls)
    /\ DeliveryTries \in Nat /\ MaxDecisions \in Nat /\ MaxLosses \in Nat
    /\ MissLimit \in Nat \ {0} /\ MaxUpdates \in Nat /\ MaxRestarts \in Nat
    /\ IsFiniteSet(Requests) /\ Workers \in Nat \ {0} /\ Waiters \in Nat
    /\ MaxClaims \in Nat /\ MaxForgeNews \in Nat /\ MaxRefusals \in Nat
    /\ MaxTurns \in Nat /\ MaxForgeRefusals \in Nat /\ MaxStops \in Nat
    /\ "none" \notin Askers /\ MaxWorld \in Nat /\ MaxFailures \in Nat

VARIABLES
    part,      \* the component a behaviour is of
    s1, s2, s3, s4, s5, s6, s7, s8, s9, s10, s11, s12

Ma == INSTANCE Mail WITH
        mail <- s1, active <- s2, dead <- s3, overdue <- s4,
        returned <- s5, stops <- s6

Sc == INSTANCE Schedules WITH
        row <- s1, sent <- s2, seen <- s3, fulfilled <- s4,
        reachable <- s5, issue <- s6, made <- s7, halts <- s8

No == INSTANCE Notices WITH
        arrived <- s1, readMail <- s2, notices <- s3, calls <- s4,
        state <- s5, file <- s6, reading <- s7, dropped <- s8, entry <- s1,
        sender <- s2, shown <- s3, reached <- s4, twice <- s5,
        noticed <- s6, lost <- s7, mixed <- s8, updates <- s1,
        confirmed <- s2, offset <- s3, batch <- s4, passGate <- s5,
        gateFile <- s6, restarts <- s7, served <- s8, misses <- s9,
        faults <- s10

Sv == INSTANCE Server WITH
        worker <- s1, answer <- s2, abandoned <- s3, deciding <- s4,
        owes <- s5, gate <- s6, runner <- s7, waiting <- s8, gates <- s9,
        ended <- s10, queued <- s11, requestAt <- s1, slots <- s2,
        waiterSlots <- s3, acquired <- s4, serviceAt <- s5, stopping <- s6,
        signalled <- s7, drainedLate <- s8

Fg == INSTANCE ForgeClaims WITH
        claimNo <- s1, held <- s2, ready <- s3, issueEnd <- s4,
        landing <- s5, branchEnd <- s6, issueReading <- s7,
        landingReading <- s8, refused <- s9, noticedEnds <- s10,
        news <- s11, refusals <- s12, owned <- s1, assignee <- s2,
        mark <- s3, command <- s4, sweep <- s5, protected <- s6,
        turns <- s7, troubles <- s8

Gi == INSTANCE GitReadings WITH
        world <- s1, kept <- s2, published <- s3, polled <- s4,
        registered <- s5, flying <- s6, asker <- s7, completion <- s8,
        refreshing <- s9, refresher <- s10, failures <- s11

vars == <<part, s1, s2, s3, s4, s5, s6, s7, s8, s9, s10, s11, s12>>

Unused(v) == v = "unused"

Init ==
    \/ part = "mail" /\ Ma!Init
       /\ Unused(s7) /\ Unused(s8) /\ Unused(s9) /\ Unused(s10)
       /\ Unused(s11) /\ Unused(s12)
    \/ part = "schedules" /\ Sc!Init
       /\ Unused(s9) /\ Unused(s10) /\ Unused(s11) /\ Unused(s12)
    \/ part = "delivery" /\ No!Init
       /\ Unused(s9) /\ Unused(s10) /\ Unused(s11) /\ Unused(s12)
    \/ part = "hookService" /\ Sv!HookServiceInit
       /\ Unused(s12)
    \/ part = "digests" /\ No!DigestsInit
       /\ Unused(s9) /\ Unused(s10) /\ Unused(s11) /\ Unused(s12)
    \/ part = "inbound" /\ No!InboundInit
       /\ Unused(s11) /\ Unused(s12)
    \/ part = "serverSlots" /\ Sv!SlotsInit
       /\ Unused(s9) /\ Unused(s10) /\ Unused(s11) /\ Unused(s12)
    \/ part = "forgeReadings" /\ Fg!ForgeReadInit
    \/ part = "forgeMarks" /\ Fg!MarksInit
       /\ Unused(s9) /\ Unused(s10) /\ Unused(s11) /\ Unused(s12)
    \/ part = "gitReadings" /\ Gi!ReadingsInit
       /\ Unused(s12)

OfMail ==
    part = "mail" /\ UNCHANGED <<part, s7, s8, s9, s10, s11, s12>>

OfSchedules ==
    part = "schedules" /\ UNCHANGED <<part, s9, s10, s11, s12>>

OfDelivery ==
    part = "delivery" /\ UNCHANGED <<part, s9, s10, s11, s12>>

OfHookService ==
    part = "hookService" /\ UNCHANGED <<part, s12>>

OfDigests ==
    part = "digests" /\ UNCHANGED <<part, s9, s10, s11, s12>>

OfInbound ==
    part = "inbound" /\ UNCHANGED <<part, s11, s12>>

OfServerSlots ==
    part = "serverSlots" /\ UNCHANGED <<part, s9, s10, s11, s12>>

OfForgeReadings ==
    part = "forgeReadings" /\ UNCHANGED <<part>>

OfForgeMarks ==
    part = "forgeMarks" /\ UNCHANGED <<part, s9, s10, s11, s12>>

OfGitReadings ==
    part = "gitReadings" /\ UNCHANGED <<part, s12>>

Next ==
    \/ OfMail /\ Ma!Next
    \/ OfSchedules /\ Sc!Next
    \/ OfDelivery /\ No!Next
    \/ OfHookService /\ Sv!HookServiceNext
    \/ OfDigests /\ No!DigestsNext
    \/ OfInbound /\ No!InboundNext
    \/ OfServerSlots /\ Sv!SlotsNext
    \/ OfForgeReadings /\ Fg!ForgeReadNext
    \/ OfForgeMarks /\ Fg!MarksNext
    \/ OfGitReadings /\ Gi!ReadingsNext

(* One component runs, so one condition serves a step of each of them. *)
Spec ==
    /\ Init /\ [][Next]_vars
    /\ WF_vars(\/ OfMail /\ Ma!Poll
               \/ OfSchedules /\ Sc!Settle(1)
               \/ OfDelivery /\ No!Deliver(1)
               \/ OfHookService /\ Sv!Recovered
               \/ OfDigests /\ No!PollFlush
               \/ OfInbound /\ No!Poll
               \/ OfForgeReadings /\ Fg!ReadingsExpire
               \/ OfForgeMarks /\ Fg!SweepStep
               \/ OfGitReadings /\ Gi!PollReads)
    /\ WF_vars(\/ OfSchedules /\ Sc!Settle(2)
               \/ OfDelivery /\ No!Deliver(2)
               \/ OfDigests /\ No!RetryComes
               \/ OfInbound /\ No!Serve
               \/ OfGitReadings /\ Gi!PollKeeps)
    /\ \A i \in {1, 2} : WF_vars(\/ OfHookService /\ Sv!Step(i)
                                 \/ OfDigests /\ (LET s == <<"poll", "notify">>[i] IN No!Send(s) \/ No!Record(s)))
    /\ WF_vars(\/ OfHookService /\ Sv!Step(3)
               \/ OfGitReadings /\ (\E l \in Gi!Leaders, ok \in BOOLEAN : Gi!FlightEnds(l, ok)))
    /\ WF_vars(\/ OfGitReadings /\ (\E a \in Askers : Gi!ReadAlone(a)))
    /\ SF_vars(\/ OfSchedules /\ Sc!ReadItems
               \/ OfForgeReadings /\ Fg!Poll(TRUE))

-----------------------------------------------------------------------------
(* Every component keeps its types. *)
TypeOK ==
    /\ part = "mail" => Ma!TypeOK
    /\ part = "schedules" => Sc!TypeOK
    /\ part = "delivery" => No!TypeOK
    /\ part = "hookService" => Sv!HookServiceTypeOK
    /\ part = "digests" => No!DigestsTypeOK
    /\ part = "inbound" => No!InboundTypeOK
    /\ part = "serverSlots" => Sv!SlotsTypeOK
    /\ part = "forgeReadings" => Fg!ForgeReadTypeOK
    /\ part = "forgeMarks" => Fg!MarksTypeOK
    /\ part = "gitReadings" => Gi!ReadingsTypeOK

(* However calls are repeated, polls overlap and services restart,
   nothing is handled twice: no occurrence is sent or announced again,
   no recovery queued again, no digest or update repeated, no reading
   started beside the same one. *)
HandledOnce ==
    /\ part = "schedules" => Sc!OccurrencesAreSentOnce
          /\ Sc!OnlyMadeOffersComplete
    /\ part = "delivery" => No!MailIsAnnouncedOnce
    /\ part = "hookService" => Sv!RecoveriesAreQueuedOnce
    /\ part = "digests" => No!EachDigestOnce
    /\ part = "inbound" => No!ServedOncePerReader
    /\ part = "gitReadings" => Gi!OneFlightAtATime

(* What was taken in hand stays somewhere until it is settled: passed
   mail in a batch, evidence at the gate, an undecided call in the
   count, a slot with its call, the key of a refresh with its thread. *)
NothingIsDropped ==
    /\ part = "delivery" => No!PassedMailIsInABatch
    /\ part = "hookService" => Sv!GateEvidenceIsKept
          /\ Sv!UndecidedAreCounted
    /\ part = "digests" => No!SentWasShown
    /\ part = "inbound" => No!MissesAreBounded
    /\ part = "serverSlots" => Sv!SlotsAreConserved /\ Sv!ReplacedWhenIdle
    /\ part = "gitReadings" => Gi!RefreshesGiveUpTheirKey

(* No step undoes what a lane or a person settled: unsettled mail is not
   pruned, a retired acknowledgement was reported, replaced mail has its
   successor, a cancelled message is not sent, a signalled service is
   not replaced, no other claim is ended, no person loses an assignment. *)
DecisionsAreRespected ==
    [][/\ part = "mail" => Ma!UnsettledMailIsKeptStep
             /\ Ma!RetiredAcksWereReportedStep
             /\ Ma!ReplacedMailHasASuccessorStep
       /\ part = "schedules" => Sc!CancelledIsNotSentStep
       /\ part = "serverSlots" => Sv!SignalsStopTheServiceStep
       /\ part = "forgeReadings" => Fg!OnlyThisClaimEndsStep
       /\ part = "forgeMarks" => Fg!PeopleKeepTheirAssignmentsStep]_vars

(* What is owed comes about, again and again: overdue acknowledgements
   settle, ready messages are sent while their condition holds, arrived
   mail is announced, owed recoveries run, digests go out, updates are
   served, ended claims are noticed, unowned marks released, joined
   readings return and the kept one catches up. *)
EverythingSettles ==
    []<>(/\ part = "mail" => Ma!OverdueAcksSettleState
         /\ part = "schedules" => Sc!ReadyAreSettled
         /\ part = "delivery" => No!ArrivedMailIsAnnouncedState
         /\ part = "hookService" => Sv!OwedRecoveriesRunState
         /\ part = "digests" => No!DigestsGoOutState
         /\ part = "inbound" => No!UpdatesAreServedState
         /\ part = "forgeReadings" => Fg!EndedClaimsAreNoticedState
         /\ part = "forgeMarks" => Fg!UnownedMarksAreReleasedState
         /\ part = "gitReadings" => Gi!JoinedCallsReturnState /\ Gi!KeptIsCurrent)
=============================================================================
