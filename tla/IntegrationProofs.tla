-------------------------- MODULE IntegrationProofs -------------------------
(***************************************************************************)
(* The components of the sum MCIntegration that merge and decide:          *)
(* integrations of lanes, bulk merges, revisions of the plan, decisions of *)
(* the operator and follow-up suggestions; then the theorems about the     *)
(* sum. A behaviour is one component's, so its invariant is the            *)
(* conjunction over the components, each under the component's name.       *)
(***************************************************************************)
EXTENDS WorkProofs

(* Nothing was merged at first, and every decision is about the first report. *)
LEMMA IntegrationsInitially == Ig!IntegrationsInit => Ig!IntegrationsInv
<1> SUFFICES ASSUME Ig!IntegrationsInit PROVE Ig!IntegrationsInv
  OBVIOUS
<1> USE IntegrationAssumption
<1>1. Ig!BaseShape /\ Ig!WorkShape /\ Ig!SourcesAreReported
  BY DEF Ig!IntegrationsInit, Ig!BaseShape, Ig!WorkShape, Ig!Executions, Ig!SourcesAreReported
<1>2. Ig!RecordShape /\ Ig!RunShape
  BY DEF Ig!IntegrationsInit, Ig!RecordShape, Ig!RunShape
<1>3. Ig!OthersShape
  BY DEF Ig!IntegrationsInit, Ig!OthersShape, Ig!NoDecision
<1>4. Ig!DecisionsArePast
  BY DEF Ig!IntegrationsInit, Ig!DecisionsArePast, Ig!Review, Ig!NoDecision
<1>5. Ig!MergesAreRecorded /\ Ig!OwedIsRecorded /\ Ig!RecordsArePast
  BY DEF Ig!IntegrationsInit, Ig!MergesAreRecorded, Ig!OwedIsRecorded, Ig!RecordsArePast
<1>6. s7.step = "idle"
  BY DEF Ig!IntegrationsInit, Ig!NoRun
<1>7. /\ Ig!RunsOwnTheRecord /\ Ig!HeldCovers /\ Ig!AdmittedHolds /\ Ig!MergedIsContained
      /\ Ig!CompletedIsVerified
  BY <1>6 DEF Ig!RunsOwnTheRecord, Ig!HeldCovers, Ig!AdmittedHolds, Ig!MergedIsContained,
     Ig!CompletedIsVerified
<1> QED
  BY <1>1, <1>2, <1>3, <1>4, <1>5, <1>7 DEF Ig!IntegrationsInv

(* Reports, approvals, merges, gates, repairs and their interruptions keep the
   base, the work and the record together, and the three step properties follow
   from the same cases. *)
LEMMA IntegrationsStep ==
  ASSUME Ig!IntegrationsInv, Ig!IntegrationsNext
  PROVE  /\ Ig!IntegrationsInv'
         /\ Ig!NobodyBuildsOnUnverifiedWorkStep
         /\ Ig!CompletedWorkIsVerifiedStep
         /\ Ig!ApprovalsAnswerThisWorkStep
<1> USE IntegrationAssumption
<1>1. /\ Ig!BaseShape
      /\ Ig!WorkShape
      /\ Ig!RecordShape
      /\ Ig!RunShape
      /\ Ig!OthersShape
      /\ Ig!DecisionsArePast
      /\ Ig!SourcesAreReported
      /\ Ig!MergesAreRecorded
      /\ Ig!OwedIsRecorded
      /\ Ig!RecordsArePast
      /\ Ig!RunsOwnTheRecord
      /\ Ig!HeldCovers
      /\ Ig!AdmittedHolds
      /\ Ig!MergedIsContained
      /\ Ig!CompletedIsVerified
  BY DEF Ig!IntegrationsInv
<1>2. ASSUME NEW l \in MergeLanes, Ig!LaneCommits(l)
      PROVE  /\ Ig!IntegrationsInv'
             /\ Ig!NobodyBuildsOnUnverifiedWorkStep
             /\ Ig!CompletedWorkIsVerifiedStep
             /\ Ig!ApprovalsAnswerThisWorkStep
  <2>1. /\ s1' = s1 /\ s3' = s3 /\ s4' = s4 /\ s5' = s5 /\ s6' = s6 /\ s7' = s7
        /\ s8' = s8 /\ s9' = s9
    BY <1>2, Zenon DEF Ig!LaneCommits, Ig!inGhosts
  <2>2. /\ s2' = [s2 EXCEPT ![l] = @ + 1]
        /\ s10' = s10 \ {l}
    BY <1>2, Zenon DEF Ig!LaneCommits, Ig!inGhosts
  <2>3. s2[l] < MaxRev
    BY <1>2, Zenon DEF Ig!LaneCommits
  <2>4. s2 \in [MergeLanes -> 1..MaxRev]
    BY <1>1 DEF Ig!OthersShape
  <2>5. /\ Ig!BaseShape' /\ Ig!WorkShape' /\ Ig!RecordShape'
        /\ Ig!RunShape' /\ Ig!SourcesAreReported' /\ Ig!MergesAreRecorded'
    BY <1>1, <2>1, Zenon DEF Ig!BaseShape, Ig!WorkShape, Ig!Executions, Ig!RecordShape,
       Ig!Records, Ig!NoRecord, Ig!RunShape, Ig!Merging, Ig!Verifying, Ig!NoRun,
       Ig!SourcesAreReported, Ig!MergesAreRecorded
  <2>6. /\ Ig!OwedIsRecorded' /\ Ig!RecordsArePast' /\ Ig!RunsOwnTheRecord'
        /\ Ig!HeldCovers' /\ Ig!AdmittedHolds' /\ Ig!MergedIsContained'
    BY <1>1, <2>1, Zenon DEF Ig!OwedIsRecorded, Ig!Covers, Ig!NoRecord, Ig!RecordsArePast,
       Ig!RunsOwnTheRecord, Ig!NoRun, Ig!HeldCovers, Ig!AdmittedHolds, Ig!MergedIsContained,
       Ig!Contained
  <2>7. Ig!CompletedIsVerified'
    BY <1>1, <2>1, Zenon DEF Ig!CompletedIsVerified, Ig!NoRun
  <2>8. Ig!OthersShape'
    BY <1>1, <2>1, <2>2, <2>3, <2>4 DEF Ig!OthersShape, Ig!NoCandidate
  <2>9. Ig!DecisionsArePast'
    BY <1>1, <2>1, <2>2, <2>3, <2>4 DEF Ig!DecisionsArePast, Ig!Review, Ig!OthersShape
  <2>10. Ig!NobodyBuildsOnUnverifiedWorkStep
    BY <1>1, <2>1, <2>2, <2>3, <2>4 DEF Ig!NobodyBuildsOnUnverifiedWorkStep, Ig!NoRun
  <2>11. Ig!CompletedWorkIsVerifiedStep
    BY <1>1, <2>1, <2>2, <2>3, <2>4 DEF Ig!CompletedWorkIsVerifiedStep, Ig!NoRun
  <2>12. Ig!ApprovalsAnswerThisWorkStep
    BY <1>1, <2>1, <2>2, <2>3, <2>4 DEF Ig!ApprovalsAnswerThisWorkStep, Ig!NoRun
  <2> QED
    BY <2>5, <2>6, <2>7, <2>8, <2>9, <2>10, <2>11, <2>12 DEF Ig!IntegrationsInv
<1>3. ASSUME NEW l \in MergeLanes, Ig!ReportReady(l)
      PROVE  /\ Ig!IntegrationsInv'
             /\ Ig!NobodyBuildsOnUnverifiedWorkStep
             /\ Ig!CompletedWorkIsVerifiedStep
             /\ Ig!ApprovalsAnswerThisWorkStep
  <2>1. /\ s1' = s1 /\ s2' = s2 /\ s5' = s5 /\ s6' = s6 /\ s7' = s7 /\ s8' = s8
        /\ s9' = s9
    BY <1>3, Zenon DEF Ig!ReportReady, Ig!inGhosts
  <2>2. /\ s3' = [s3 EXCEPT ![l] = [@ EXCEPT !.state = "ready", !.src = s2[l]]]
        /\ s4' = [s4 EXCEPT ![l] = @ + 1]
        /\ s10' = s10 \ {l}
    BY <1>3, Zenon DEF Ig!ReportReady, Ig!inGhosts
  <2>3. s4[l] < (IF l = FirstLane THEN MaxRev ELSE 1)
    BY <1>3, Zenon DEF Ig!ReportReady
  <2>4. s2 \in [MergeLanes -> 1..MaxRev] /\ s4 \in [MergeLanes -> 0..MaxRev]
    BY <1>1 DEF Ig!OthersShape
  <2>5. s4[l] < MaxRev
    BY <2>3, <2>4
  <2>6. s3[l] \in Ig!Executions
    BY <1>1 DEF Ig!WorkShape
  <2>7. PICK e : e = [s3[l] EXCEPT !.state = "ready", !.src = s2[l]]
    OBVIOUS
  <2>8. e = [state |-> "ready", gen |-> s3[l].gen, src |-> s2[l], on |-> s3[l].on]
    BY <2>6, <2>7 DEF Ig!Executions
  <2>9. s3' = [s3 EXCEPT ![l] = e]
    BY <2>2, <2>7, Zenon
  <2>10. s3' = [m \in MergeLanes |-> IF m = l THEN [state |-> "ready", gen |-> s3[l].gen, src |-> s2[l], on |-> s3[l].on]
                                     ELSE s3[m]]
    BY <1>1, <2>8, <2>9 DEF Ig!WorkShape
  <2>11. /\ Ig!BaseShape' /\ Ig!RecordShape' /\ Ig!RunShape'
         /\ Ig!MergesAreRecorded' /\ Ig!OwedIsRecorded' /\ Ig!RecordsArePast'
    BY <1>1, <2>1, Zenon DEF Ig!BaseShape, Ig!RecordShape, Ig!Records, Ig!NoRecord,
       Ig!RunShape, Ig!Merging, Ig!Verifying, Ig!NoRun, Ig!MergesAreRecorded,
       Ig!OwedIsRecorded, Ig!Covers, Ig!RecordsArePast
  <2>12. /\ Ig!RunsOwnTheRecord' /\ Ig!HeldCovers' /\ Ig!AdmittedHolds'
         /\ Ig!MergedIsContained' /\ Ig!CompletedIsVerified'
    BY <1>1, <2>1, Zenon DEF Ig!RunsOwnTheRecord, Ig!NoRun, Ig!HeldCovers, Ig!Covers,
       Ig!AdmittedHolds, Ig!MergedIsContained, Ig!Contained, Ig!CompletedIsVerified
  <2>13. Ig!WorkShape'
    BY <1>1, <2>10, <2>4 DEF Ig!WorkShape, Ig!Executions
  <2>14. Ig!OthersShape'
    BY <1>1, <2>1, <2>2, <2>3, <2>4, <2>5, <2>6, <2>7, <2>8, <2>9, <2>10 DEF Ig!OthersShape,
       Ig!NoCandidate
  <2>15. Ig!DecisionsArePast'
    BY <1>1, <2>1, <2>2, <2>4, <2>5 DEF Ig!DecisionsArePast, Ig!Review, Ig!OthersShape
  <2>16. Ig!SourcesAreReported'
    BY <1>1, <2>10, <2>4 DEF Ig!SourcesAreReported
  <2>17. Ig!NobodyBuildsOnUnverifiedWorkStep
    BY <1>1, <2>1, <2>2, <2>3, <2>4, <2>5, <2>6, <2>7, <2>8, <2>9, <2>10 DEF
       Ig!NobodyBuildsOnUnverifiedWorkStep, Ig!NoRun
  <2>18. Ig!CompletedWorkIsVerifiedStep
    BY <1>1, <2>10, <2>4 DEF Ig!CompletedWorkIsVerifiedStep
  <2>19. Ig!ApprovalsAnswerThisWorkStep
    BY <1>1, <2>1, <2>2, <2>3, <2>4, <2>5, <2>6, <2>7, <2>8, <2>9, <2>10 DEF
       Ig!ApprovalsAnswerThisWorkStep, Ig!NoRun
  <2> QED
    BY <2>11, <2>12, <2>13, <2>14, <2>15, <2>16, <2>17, <2>18, <2>19 DEF Ig!IntegrationsInv
<1>4. ASSUME NEW l \in MergeLanes, Ig!ClaimAgain(l)
      PROVE  /\ Ig!IntegrationsInv'
             /\ Ig!NobodyBuildsOnUnverifiedWorkStep
             /\ Ig!CompletedWorkIsVerifiedStep
             /\ Ig!ApprovalsAnswerThisWorkStep
  <2>1. /\ s1' = s1 /\ s2' = s2 /\ s4' = s4 /\ s5' = s5 /\ s6' = s6 /\ s7' = s7
        /\ s8' = s8 /\ s9' = s9 /\ s10' = s10
    BY <1>4, Zenon DEF Ig!ClaimAgain, Ig!inGhosts
  <2>2. s3' = [s3 EXCEPT ![l] = [@ EXCEPT !.gen = 2, !.state = "working", !.src = 0]]
    BY <1>4, Zenon DEF Ig!ClaimAgain, Ig!inGhosts
  <2>3. s3[l] \in Ig!Executions
    BY <1>1 DEF Ig!WorkShape
  <2>4. PICK e : e = [s3[l] EXCEPT !.gen = 2, !.state = "working", !.src = 0]
    OBVIOUS
  <2>5. e = [state |-> "working", gen |-> 2, src |-> 0, on |-> s3[l].on]
    BY <2>3, <2>4 DEF Ig!Executions
  <2>6. s3' = [s3 EXCEPT ![l] = e]
    BY <2>2, <2>4, Zenon
  <2>7. s3' = [m \in MergeLanes |-> IF m = l THEN [state |-> "working", gen |-> 2, src |-> 0, on |-> s3[l].on]
                                    ELSE s3[m]]
    BY <1>1, <2>5, <2>6 DEF Ig!WorkShape
  <2>8. /\ Ig!BaseShape' /\ Ig!RecordShape' /\ Ig!RunShape'
        /\ Ig!OthersShape' /\ Ig!DecisionsArePast' /\ Ig!MergesAreRecorded'
    BY <1>1, <2>1, Zenon DEF Ig!BaseShape, Ig!RecordShape, Ig!Records, Ig!NoRecord,
       Ig!RunShape, Ig!Merging, Ig!Verifying, Ig!NoRun, Ig!OthersShape, Ig!NoCandidate,
       Ig!DecisionsArePast, Ig!Review, Ig!MergesAreRecorded
  <2>9. /\ Ig!OwedIsRecorded' /\ Ig!RecordsArePast' /\ Ig!RunsOwnTheRecord'
        /\ Ig!HeldCovers' /\ Ig!AdmittedHolds' /\ Ig!MergedIsContained'
    BY <1>1, <2>1, Zenon DEF Ig!OwedIsRecorded, Ig!Covers, Ig!NoRecord, Ig!RecordsArePast,
       Ig!RunsOwnTheRecord, Ig!NoRun, Ig!HeldCovers, Ig!AdmittedHolds, Ig!MergedIsContained,
       Ig!Contained
  <2>10. Ig!CompletedIsVerified'
    BY <1>1, <2>1, Zenon DEF Ig!CompletedIsVerified, Ig!NoRun
  <2>11. Ig!WorkShape'
    BY <1>1, <2>7 DEF Ig!WorkShape, Ig!Executions
  <2>12. Ig!SourcesAreReported'
    BY <1>1, <2>7 DEF Ig!SourcesAreReported
  <2>13. Ig!NobodyBuildsOnUnverifiedWorkStep
    BY <1>1, <2>1, <2>2, <2>3, <2>4, <2>5, <2>6, <2>7 DEF
       Ig!NobodyBuildsOnUnverifiedWorkStep, Ig!NoRun
  <2>14. Ig!CompletedWorkIsVerifiedStep
    BY <1>1, <2>7 DEF Ig!CompletedWorkIsVerifiedStep
  <2>15. Ig!ApprovalsAnswerThisWorkStep
    BY <1>1, <2>1, <2>2, <2>3, <2>4, <2>5, <2>6, <2>7 DEF Ig!ApprovalsAnswerThisWorkStep,
       Ig!NoRun
  <2> QED
    BY <2>8, <2>9, <2>10, <2>11, <2>12, <2>13, <2>14, <2>15 DEF Ig!IntegrationsInv
<1>5. ASSUME NEW l \in MergeLanes, NEW m \in MergeLanes, Ig!Block(l, m)
      PROVE  /\ Ig!IntegrationsInv'
             /\ Ig!NobodyBuildsOnUnverifiedWorkStep
             /\ Ig!CompletedWorkIsVerifiedStep
             /\ Ig!ApprovalsAnswerThisWorkStep
  <2>1. /\ s1' = s1 /\ s2' = s2 /\ s4' = s4 /\ s5' = s5 /\ s6' = s6 /\ s7' = s7
        /\ s8' = s8 /\ s9' = s9 /\ s10' = s10
    BY <1>5, Zenon DEF Ig!Block, Ig!inGhosts
  <2>2. s3' = [s3 EXCEPT ![l].on = @ \cup {m}]
    BY <1>5, Zenon DEF Ig!Block, Ig!inGhosts
  <2>3. /\ Ig!BaseShape' /\ Ig!RecordShape' /\ Ig!RunShape'
        /\ Ig!OthersShape' /\ Ig!DecisionsArePast' /\ Ig!MergesAreRecorded'
    BY <1>1, <2>1, Zenon DEF Ig!BaseShape, Ig!RecordShape, Ig!Records, Ig!NoRecord,
       Ig!RunShape, Ig!Merging, Ig!Verifying, Ig!NoRun, Ig!OthersShape, Ig!NoCandidate,
       Ig!DecisionsArePast, Ig!Review, Ig!MergesAreRecorded
  <2>4. /\ Ig!OwedIsRecorded' /\ Ig!RecordsArePast' /\ Ig!RunsOwnTheRecord'
        /\ Ig!HeldCovers' /\ Ig!AdmittedHolds' /\ Ig!MergedIsContained'
    BY <1>1, <2>1, Zenon DEF Ig!OwedIsRecorded, Ig!Covers, Ig!NoRecord, Ig!RecordsArePast,
       Ig!RunsOwnTheRecord, Ig!NoRun, Ig!HeldCovers, Ig!AdmittedHolds, Ig!MergedIsContained,
       Ig!Contained
  <2>5. Ig!CompletedIsVerified'
    BY <1>1, <2>1, Zenon DEF Ig!CompletedIsVerified, Ig!NoRun
  <2>6. Ig!WorkShape'
    BY <1>1, <2>1, <2>2 DEF Ig!WorkShape, Ig!Executions
  <2>7. Ig!SourcesAreReported'
    BY <1>1, <2>1, <2>2 DEF Ig!SourcesAreReported
  <2>8. Ig!NobodyBuildsOnUnverifiedWorkStep
    BY <1>1, <2>1, <2>2 DEF Ig!NobodyBuildsOnUnverifiedWorkStep, Ig!NoRun
  <2>9. Ig!CompletedWorkIsVerifiedStep
    BY <1>1, <2>1, <2>2 DEF Ig!CompletedWorkIsVerifiedStep, Ig!NoRun
  <2>10. Ig!ApprovalsAnswerThisWorkStep
    BY <1>1, <2>1, <2>2 DEF Ig!ApprovalsAnswerThisWorkStep, Ig!NoRun
  <2> QED
    BY <2>3, <2>4, <2>5, <2>6, <2>7, <2>8, <2>9, <2>10 DEF Ig!IntegrationsInv
<1>6. ASSUME NEW l \in MergeLanes, Ig!Approve(l)
      PROVE  /\ Ig!IntegrationsInv'
             /\ Ig!NobodyBuildsOnUnverifiedWorkStep
             /\ Ig!CompletedWorkIsVerifiedStep
             /\ Ig!ApprovalsAnswerThisWorkStep
  <2>1. /\ s1' = s1 /\ s2' = s2 /\ s3' = s3 /\ s4' = s4 /\ s6' = s6 /\ s7' = s7
        /\ s8' = s8 /\ s9' = s9
    BY <1>6, Zenon DEF Ig!Approve, Ig!inGhosts, Ig!Binding
  <2>2. /\ s5' = [s5 EXCEPT ![l] = Ig!Binding(l)]
        /\ s10' = s10 \cup {l}
    BY <1>6, Zenon DEF Ig!Approve, Ig!inGhosts, Ig!Binding
  <2>3. Ig!Binding(l) \in [report : 0..MaxRev, head : 0..MaxRev] /\ Ig!Binding(l).report <= s4[l]
        /\ Ig!Binding(l).head <= s2[l]
    BY <1>1 DEF Ig!Binding, Ig!OthersShape
  <2>4. /\ Ig!BaseShape' /\ Ig!WorkShape' /\ Ig!RecordShape'
        /\ Ig!RunShape' /\ Ig!SourcesAreReported' /\ Ig!MergesAreRecorded'
    BY <1>1, <2>1, Zenon DEF Ig!BaseShape, Ig!WorkShape, Ig!Executions, Ig!RecordShape,
       Ig!Records, Ig!NoRecord, Ig!RunShape, Ig!Merging, Ig!Verifying, Ig!NoRun,
       Ig!SourcesAreReported, Ig!MergesAreRecorded
  <2>5. /\ Ig!OwedIsRecorded' /\ Ig!RecordsArePast' /\ Ig!RunsOwnTheRecord'
        /\ Ig!HeldCovers' /\ Ig!AdmittedHolds' /\ Ig!MergedIsContained'
    BY <1>1, <2>1, Zenon DEF Ig!OwedIsRecorded, Ig!Covers, Ig!NoRecord, Ig!RecordsArePast,
       Ig!RunsOwnTheRecord, Ig!NoRun, Ig!HeldCovers, Ig!AdmittedHolds, Ig!MergedIsContained,
       Ig!Contained
  <2>6. Ig!CompletedIsVerified'
    BY <1>1, <2>1, Zenon DEF Ig!CompletedIsVerified, Ig!NoRun
  <2>7. Ig!OthersShape'
    BY <1>1, <2>1, <2>2, <2>3 DEF Ig!OthersShape, Ig!NoCandidate
  <2>8. Ig!DecisionsArePast'
    BY <1>1, <2>1, <2>2, <2>3 DEF Ig!DecisionsArePast, Ig!Review, Ig!OthersShape
  <2>9. Ig!NobodyBuildsOnUnverifiedWorkStep
    BY <1>1, <2>1, <2>2, <2>3 DEF Ig!NobodyBuildsOnUnverifiedWorkStep, Ig!NoRun
  <2>10. Ig!CompletedWorkIsVerifiedStep
    BY <1>1, <2>1, <2>2, <2>3 DEF Ig!CompletedWorkIsVerifiedStep, Ig!NoRun
  <2>11. Ig!ApprovalsAnswerThisWorkStep
    BY <1>1, <2>1, <2>2, <2>3 DEF Ig!ApprovalsAnswerThisWorkStep, Ig!NoRun
  <2> QED
    BY <2>4, <2>5, <2>6, <2>7, <2>8, <2>9, <2>10, <2>11 DEF Ig!IntegrationsInv
<1>7. ASSUME Ig!RefuseAdmission
      PROVE  /\ Ig!IntegrationsInv'
             /\ Ig!NobodyBuildsOnUnverifiedWorkStep
             /\ Ig!CompletedWorkIsVerifiedStep
             /\ Ig!ApprovalsAnswerThisWorkStep
  <2>1. /\ s1' = s1 /\ s2' = s2 /\ s3' = s3 /\ s4' = s4 /\ s5' = s5 /\ s7' = s7
        /\ s8' = s8 /\ s9' = s9 /\ s10' = s10
    BY <1>7, Zenon DEF Ig!RefuseAdmission, Ig!inGhosts
  <2>2. s6' = Ig!Standing
    BY <1>7, Zenon DEF Ig!RefuseAdmission, Ig!inGhosts
  <2>3. Ig!Standing = Ig!NoRecord \/ Ig!Standing = s6
    BY DEF Ig!Standing
  <2>4. (s1.merging # NoLane \/ s9 # NoLane) => Ig!Standing = s6
    BY <1>1 DEF Ig!Standing, Ig!Holds, Ig!MergesAreRecorded, Ig!OwedIsRecorded, Ig!Covers,
       Ig!BaseShape, Ig!RecordShape, Ig!Records
  <2>5. s7 = Ig!NoRun
    BY <1>7, Zenon DEF Ig!RefuseAdmission
  <2>6. /\ Ig!BaseShape' /\ Ig!WorkShape' /\ Ig!RunShape'
        /\ Ig!OthersShape' /\ Ig!DecisionsArePast' /\ Ig!SourcesAreReported'
    BY <1>1, <2>1, Zenon DEF Ig!BaseShape, Ig!WorkShape, Ig!Executions, Ig!RunShape,
       Ig!Merging, Ig!Verifying, Ig!NoRun, Ig!OthersShape, Ig!NoCandidate,
       Ig!DecisionsArePast, Ig!Review, Ig!SourcesAreReported
  <2>7. Ig!HeldCovers' /\ Ig!MergedIsContained' /\ Ig!CompletedIsVerified'
    BY <1>1, <2>1, Zenon DEF Ig!HeldCovers, Ig!Covers, Ig!NoRun, Ig!MergedIsContained,
       Ig!Contained, Ig!CompletedIsVerified
  <2>8. Ig!RecordShape'
    BY <1>1, <2>1, <2>2, <2>3, <2>4, <2>5 DEF Ig!RecordShape, Ig!Records, Ig!NoRecord
  <2>9. Ig!MergesAreRecorded'
    BY <1>1, <2>1, <2>2, <2>3, <2>4, <2>5 DEF Ig!MergesAreRecorded, Ig!NoRecord
  <2>10. Ig!OwedIsRecorded'
    BY <1>1, <2>1, <2>2, <2>3, <2>4, <2>5 DEF Ig!OwedIsRecorded, Ig!Covers, Ig!NoRecord
  <2>11. Ig!RecordsArePast'
    BY <1>1, <2>1, <2>2, <2>3, <2>4, <2>5 DEF Ig!RecordsArePast, Ig!NoRecord
  <2>12. Ig!RunsOwnTheRecord'
    BY <2>1, <2>2, <2>3, <2>4, <2>5 DEF Ig!RunsOwnTheRecord, Ig!NoRun
  <2>13. Ig!AdmittedHolds'
    BY <2>1, <2>2, <2>3, <2>4, <2>5 DEF Ig!AdmittedHolds, Ig!NoRun
  <2>14. Ig!NobodyBuildsOnUnverifiedWorkStep
    BY <1>1, <2>1, <2>2, <2>3, <2>4, <2>5 DEF Ig!NobodyBuildsOnUnverifiedWorkStep, Ig!NoRun
  <2>15. Ig!CompletedWorkIsVerifiedStep
    BY <1>1, <2>1, <2>2, <2>3, <2>4, <2>5 DEF Ig!CompletedWorkIsVerifiedStep, Ig!NoRun
  <2>16. Ig!ApprovalsAnswerThisWorkStep
    BY <1>1, <2>1, <2>2, <2>3, <2>4, <2>5 DEF Ig!ApprovalsAnswerThisWorkStep, Ig!NoRun
  <2> QED
    BY <2>6, <2>7, <2>8, <2>9, <2>10, <2>11, <2>12, <2>13, <2>14, <2>15, <2>16 DEF
       Ig!IntegrationsInv
<1>8. ASSUME Ig!RefuseMerge
      PROVE  /\ Ig!IntegrationsInv'
             /\ Ig!NobodyBuildsOnUnverifiedWorkStep
             /\ Ig!CompletedWorkIsVerifiedStep
             /\ Ig!ApprovalsAnswerThisWorkStep
  <2>1. /\ s1' = s1 /\ s2' = s2 /\ s3' = s3 /\ s4' = s4 /\ s5' = s5 /\ s6' = s6
        /\ s8' = s8 /\ s9' = s9 /\ s10' = s10
    BY <1>8, Zenon DEF Ig!RefuseMerge, Ig!inGhosts, Ig!Stop
  <2>2. s7' = Ig!NoRun
    BY <1>8, Zenon DEF Ig!RefuseMerge, Ig!inGhosts, Ig!Stop
  <2>3. /\ Ig!BaseShape' /\ Ig!WorkShape' /\ Ig!RecordShape'
        /\ Ig!OthersShape' /\ Ig!DecisionsArePast' /\ Ig!SourcesAreReported'
    BY <1>1, <2>1, Zenon DEF Ig!BaseShape, Ig!WorkShape, Ig!Executions, Ig!RecordShape,
       Ig!Records, Ig!NoRecord, Ig!OthersShape, Ig!NoCandidate, Ig!DecisionsArePast,
       Ig!Review, Ig!SourcesAreReported
  <2>4. Ig!MergesAreRecorded' /\ Ig!OwedIsRecorded' /\ Ig!RecordsArePast'
    BY <1>1, <2>1, Zenon DEF Ig!MergesAreRecorded, Ig!NoRecord, Ig!OwedIsRecorded,
       Ig!Covers, Ig!RecordsArePast
  <2>5. Ig!RunShape'
    BY <1>1, <2>1, <2>2 DEF Ig!RunShape, Ig!Merging, Ig!Verifying, Ig!NoRun
  <2>6. Ig!RunsOwnTheRecord'
    BY <1>1, <2>1, <2>2 DEF Ig!RunsOwnTheRecord, Ig!NoRun
  <2>7. Ig!HeldCovers'
    BY <1>1, <2>1, <2>2 DEF Ig!HeldCovers, Ig!Covers, Ig!NoRun
  <2>8. Ig!AdmittedHolds'
    BY <1>1, <2>1, <2>2 DEF Ig!AdmittedHolds, Ig!NoRun
  <2>9. Ig!MergedIsContained'
    BY <1>1, <2>1, <2>2 DEF Ig!MergedIsContained, Ig!Contained, Ig!NoRun
  <2>10. Ig!CompletedIsVerified'
    BY <1>1, <2>1, <2>2 DEF Ig!CompletedIsVerified, Ig!NoRun
  <2>11. Ig!NobodyBuildsOnUnverifiedWorkStep
    BY <1>1, <2>1, <2>2 DEF Ig!NobodyBuildsOnUnverifiedWorkStep, Ig!NoRun
  <2>12. Ig!CompletedWorkIsVerifiedStep
    BY <1>1, <2>1, <2>2 DEF Ig!CompletedWorkIsVerifiedStep, Ig!NoRun
  <2>13. Ig!ApprovalsAnswerThisWorkStep
    BY <1>1, <2>1, <2>2 DEF Ig!ApprovalsAnswerThisWorkStep, Ig!NoRun
  <2> QED
    BY <2>3, <2>4, <2>5, <2>6, <2>7, <2>8, <2>9, <2>10, <2>11, <2>12, <2>13 DEF
       Ig!IntegrationsInv
<1>9. ASSUME Ig!Begin
      PROVE  /\ Ig!IntegrationsInv'
             /\ Ig!NobodyBuildsOnUnverifiedWorkStep
             /\ Ig!CompletedWorkIsVerifiedStep
             /\ Ig!ApprovalsAnswerThisWorkStep
  <2>1. /\ s1' = s1 /\ s2' = s2 /\ s3' = s3 /\ s4' = s4 /\ s5' = s5 /\ s8' = s8
        /\ s9' = s9 /\ s10' = s10
    BY <1>9, Zenon DEF Ig!Begin
  <2>2. s7' = [s7 EXCEPT !.step = "begun", !.at = s1.at]
    BY <1>9, Zenon DEF Ig!Begin
  <2>3. s7.step = "admitted" /\ s1.merging = NoLane
    BY <1>9, Zenon DEF Ig!Begin
  <2>4. s7 \in Ig!Merging
    BY <1>1, <2>3 DEF Ig!RunShape, Ig!Verifying, Ig!NoRun
  <2>5. s7' = [step |-> "begun", lane |-> s7.lane, held |-> s7.held, at |-> s1.at, gen |-> s7.gen,
                src |-> s7.src, verified |-> s7.verified]
    BY <2>2, <2>4 DEF Ig!Merging
  <2>6. /\ s6 = s7.held
        /\ s6 = Ig!NoRecord => s9 = NoLane
        /\ s6 # Ig!NoRecord => s6 \in Ig!Records /\ s6.lane = s7.lane /\ s6.base <= s1.at
                                 /\ s6.attempt < s6.limit
        /\ s9 # NoLane => s6.lane = s9 /\ s1.at > s6.base
    BY <1>1, <2>3 DEF Ig!AdmittedHolds, Ig!RecordShape, Ig!HeldCovers, Ig!Covers
  <2>7. PICK r : r = [kind |-> "interrupted", lane |-> s7.lane, gen |-> s7.gen, result |-> -1,
           base |-> IF s6 # Ig!NoRecord THEN s6.base ELSE s1.at,
           attempt |-> IF s6 # Ig!NoRecord THEN s6.attempt + 1 ELSE 1,
           limit |-> IF s6 # Ig!NoRecord THEN s6.limit ELSE RepairAttempts]
    OBVIOUS
  <2>8. /\ s1.at \in 0..MaxBase /\ s7.lane \in MergeLanes /\ s7.gen \in 1..2
        /\ s6 # Ig!NoRecord => s6.base \in 0..MaxBase /\ s6.attempt \in Nat /\ s6.limit \in Nat
    BY <1>1, <2>4, <2>6 DEF Ig!Records, Ig!Merging, Ig!BaseShape
  <2>9. r \in Ig!Records
    BY <2>8, <2>7 DEF Ig!Records, Ig!Kinds
  <2>10. /\ r \in Ig!Records /\ r.lane = s7.lane /\ r.base <= s1.at /\ r.attempt <= r.limit
         /\ s6 # Ig!NoRecord => r.attempt > s6.attempt
         /\ s9 # NoLane => r.lane = s9 /\ s1.at > r.base
    BY <2>8, <2>6, <2>7, <2>9
  <2>11. s6' = Ig!Published(r)
    BY <1>9, <2>6, <2>7, Zenon DEF Ig!Begin
  <2>12. s6' = r
    BY <2>11, <2>10, <2>6 DEF Ig!Published, Ig!Records
  <2>13. /\ Ig!BaseShape' /\ Ig!WorkShape' /\ Ig!OthersShape'
         /\ Ig!DecisionsArePast' /\ Ig!SourcesAreReported'
    BY <1>1, <2>1, Zenon DEF Ig!BaseShape, Ig!WorkShape, Ig!Executions, Ig!OthersShape,
       Ig!NoCandidate, Ig!DecisionsArePast, Ig!Review, Ig!SourcesAreReported
  <2>14. Ig!RecordShape'
    BY <2>12, <2>10 DEF Ig!RecordShape
  <2>15. Ig!RunShape'
    BY <1>1, <2>5, <2>4 DEF Ig!RunShape, Ig!Merging, Ig!BaseShape
  <2>16. Ig!MergesAreRecorded'
    BY <2>1, <2>3 DEF Ig!MergesAreRecorded
  <2>17. Ig!OwedIsRecorded'
    BY <2>1, <2>12, <2>10 DEF Ig!OwedIsRecorded, Ig!Covers, Ig!Records, Ig!NoRecord
  <2>18. Ig!RecordsArePast'
    BY <2>1, <2>12, <2>10 DEF Ig!RecordsArePast
  <2>19. Ig!RunsOwnTheRecord'
    BY <2>1, <2>12, <2>10, <2>3, <2>5 DEF Ig!RunsOwnTheRecord, Ig!Records, Ig!NoRecord
  <2>20. Ig!HeldCovers'
    BY <1>1, <2>1, <2>3, <2>5 DEF Ig!HeldCovers, Ig!Covers
  <2>21. Ig!AdmittedHolds'
    BY <2>5 DEF Ig!AdmittedHolds
  <2>22. Ig!MergedIsContained'
    BY <2>5 DEF Ig!MergedIsContained
  <2>23. Ig!CompletedIsVerified'
    BY <2>5 DEF Ig!CompletedIsVerified
  <2>24. Ig!NobodyBuildsOnUnverifiedWorkStep
    BY <1>1, <2>1, <2>2, <2>3, <2>4, <2>5, <2>6, <2>7, <2>8, <2>9, <2>10, <2>11, <2>12 DEF
       Ig!NobodyBuildsOnUnverifiedWorkStep, Ig!NoRun
  <2>25. Ig!CompletedWorkIsVerifiedStep
    BY <1>1, <2>1, <2>2, <2>3, <2>4, <2>5, <2>6, <2>7, <2>8, <2>9, <2>10, <2>11, <2>12 DEF
       Ig!CompletedWorkIsVerifiedStep, Ig!NoRun
  <2>26. Ig!ApprovalsAnswerThisWorkStep
    BY <2>3 DEF Ig!ApprovalsAnswerThisWorkStep, Ig!NoRun
  <2> QED
    BY <2>13, <2>14, <2>15, <2>16, <2>17, <2>18, <2>19, <2>20, <2>21, <2>22, <2>23, <2>24,
       <2>25, <2>26 DEF Ig!IntegrationsInv
<1>10. ASSUME Ig!Merges
       PROVE  /\ Ig!IntegrationsInv'
              /\ Ig!NobodyBuildsOnUnverifiedWorkStep
              /\ Ig!CompletedWorkIsVerifiedStep
              /\ Ig!ApprovalsAnswerThisWorkStep
  <2>1. /\ s2' = s2 /\ s3' = s3 /\ s4' = s4 /\ s5' = s5 /\ s6' = s6 /\ s8' = s8
        /\ s10' = s10
    BY <1>10, Zenon DEF Ig!Merges, Ig!MergeCommit
  <2>2. s7.step = "begun" /\ s1.merging = NoLane
    BY <1>10, Zenon DEF Ig!Merges
  <2>3. s7 \in Ig!Merging
    BY <1>1, <2>2 DEF Ig!RunShape, Ig!Verifying, Ig!NoRun
  <2>4. s6 \in Ig!Records /\ s6 # Ig!NoRecord /\ s6.lane = s7.lane
    BY <1>1, <2>2 DEF Ig!RunsOwnTheRecord, Ig!RecordShape
  <2>5. s7' = [step |-> "merged", lane |-> s7.lane, held |-> s7.held, at |-> s7.at, gen |-> s7.gen,
                src |-> s7.src, verified |-> s7.verified /\ s1.at = s8.target]
    BY <1>10, <2>3 DEF Ig!Merges, Ig!Merging
  <2>6. \/ s1' = s1 /\ s9' = s9 /\ Ig!Contained
        \/ /\ s1.at < MaxBase /\ s9' = s7.lane
           /\ \E good \in BOOLEAN :
                s1' = [s1 EXCEPT !.at = @ + 1, !.work = @ \cup {<<s7.lane, s7.src>>}, !.good = good]
    BY <1>10, Zenon DEF Ig!Merges, Ig!MergeCommit
  <2>7. \/ s1' = s1 /\ s9' = s9 /\ Ig!Contained
        \/ /\ s9' = s7.lane /\ s1'.at = s1.at + 1 /\ s1'.at <= MaxBase
           /\ s1'.work = s1.work \cup {<<s7.lane, s7.src>>} /\ s1'.merging = NoLane
           /\ s1'.src = s1.src /\ s1'.good \in BOOLEAN
           /\ s1' = [at |-> s1'.at, work |-> s1'.work, good |-> s1'.good, merging |-> s1'.merging,
                     src |-> s1'.src]
    <3>1. CASE s1' = s1 /\ s9' = s9 /\ Ig!Contained
      BY <3>1
    <3>2. CASE s1.at < MaxBase /\ s9' = s7.lane /\ \E good \in BOOLEAN :
            s1' = [s1 EXCEPT !.at = @ + 1, !.work = @ \cup {<<s7.lane, s7.src>>}, !.good = good]
      <4>1. PICK good \in BOOLEAN :
            s1' = [s1 EXCEPT !.at = @ + 1, !.work = @ \cup {<<s7.lane, s7.src>>}, !.good = good]
        BY <3>2
      <4>2. s1' = [at |-> s1.at + 1, work |-> s1.work \cup {<<s7.lane, s7.src>>}, good |-> good,
                  merging |-> s1.merging, src |-> s1.src]
        BY <1>1, <4>1 DEF Ig!BaseShape
      <4>3. s1.at \in 0..MaxBase /\ s1.at + 1 <= MaxBase
        BY <1>1, <3>2 DEF Ig!BaseShape
      <4> QED
        BY <3>2, <4>2, <4>3, <2>2
    <3> QED
      BY <2>6, <3>1, <3>2, Zenon
  <2>8. s9 # NoLane => s9 = s7.lane
    BY <1>1, <2>2, <2>4 DEF Ig!OwedIsRecorded, Ig!Covers
  <2>9. /\ Ig!WorkShape' /\ Ig!RecordShape' /\ Ig!DecisionsArePast'
        /\ Ig!SourcesAreReported'
    BY <1>1, <2>1, Zenon DEF Ig!WorkShape, Ig!Executions, Ig!RecordShape, Ig!Records,
       Ig!NoRecord, Ig!DecisionsArePast, Ig!Review, Ig!SourcesAreReported
  <2>10. Ig!BaseShape'
    BY <1>1, <2>7, <2>3 DEF Ig!BaseShape, Ig!Merging
  <2>11. Ig!RunShape'
    BY <2>5, <2>3 DEF Ig!RunShape, Ig!Merging
  <2>12. Ig!OthersShape'
    BY <1>1, <2>1, <2>7, <2>3 DEF Ig!OthersShape, Ig!Merging, Ig!NoCandidate
  <2>13. Ig!MergesAreRecorded'
    BY <2>7, <2>2 DEF Ig!MergesAreRecorded
  <2>14. Ig!OwedIsRecorded'
    BY <1>1, <2>1, <2>7, <2>4 DEF Ig!OwedIsRecorded, Ig!Covers, Ig!RecordsArePast,
       Ig!BaseShape, Ig!Records
  <2>15. Ig!RecordsArePast'
    BY <1>1, <2>1, <2>7, <2>4 DEF Ig!RecordsArePast, Ig!BaseShape, Ig!Records
  <2>16. Ig!RunsOwnTheRecord'
    BY <2>1, <2>7, <2>4, <2>5, <2>2 DEF Ig!RunsOwnTheRecord
  <2>17. Ig!HeldCovers'
    BY <2>5 DEF Ig!HeldCovers
  <2>18. Ig!AdmittedHolds'
    BY <2>5 DEF Ig!AdmittedHolds
  <2>19. Ig!MergedIsContained'
    BY <2>7, <2>5 DEF Ig!MergedIsContained, Ig!Contained
  <2>20. Ig!CompletedIsVerified'
    BY <2>5 DEF Ig!CompletedIsVerified
  <2>21. Ig!NobodyBuildsOnUnverifiedWorkStep
    BY <2>7, <2>8 DEF Ig!NobodyBuildsOnUnverifiedWorkStep
  <2>22. Ig!CompletedWorkIsVerifiedStep
    BY <1>1, <2>1, <2>2, <2>3, <2>4, <2>5, <2>6, <2>7, <2>8 DEF
       Ig!CompletedWorkIsVerifiedStep, Ig!NoRun
  <2>23. Ig!ApprovalsAnswerThisWorkStep
    BY <2>2 DEF Ig!ApprovalsAnswerThisWorkStep, Ig!NoRun
  <2> QED
    BY <2>9, <2>10, <2>11, <2>12, <2>13, <2>14, <2>15, <2>16, <2>17, <2>18, <2>19, <2>20,
       <2>21, <2>22, <2>23 DEF Ig!IntegrationsInv
<1>11. ASSUME Ig!MergeConflicts
      PROVE  /\ Ig!IntegrationsInv'
             /\ Ig!NobodyBuildsOnUnverifiedWorkStep
             /\ Ig!CompletedWorkIsVerifiedStep
             /\ Ig!ApprovalsAnswerThisWorkStep
  <2>1. s2' = s2 /\ s4' = s4 /\ s5' = s5 /\ s8' = s8 /\ s9' = s9 /\ s10' = s10
    BY <1>11, Zenon DEF Ig!MergeConflicts, Ig!inGhosts, Ig!Stop
  <2>2. /\ s1' = [s1 EXCEPT !.merging = s7.lane, !.src = s7.src]
        /\ s7' = Ig!NoRun
    BY <1>11, Zenon DEF Ig!MergeConflicts, Ig!inGhosts, Ig!Stop
  <2>3. s7.step = "begun" /\ s1.merging = NoLane
    BY <1>11, Zenon DEF Ig!MergeConflicts
  <2>4. s7 \in Ig!Merging
    BY <1>1, <2>3 DEF Ig!RunShape, Ig!Verifying, Ig!NoRun
  <2>5. s6 \in Ig!Records /\ s6 # Ig!NoRecord /\ s6.lane = s7.lane
    BY <1>1, <2>3 DEF Ig!RunsOwnTheRecord, Ig!RecordShape
  <2>6. /\ s6' \in Ig!Records /\ s6' # Ig!NoRecord /\ s6'.lane = s6.lane /\ s6'.base = s6.base
        /\ s6'.attempt = s6.attempt /\ s6'.limit = s6.limit
    BY <1>11, <2>5 DEF Ig!MergeConflicts, Ig!Published, Ig!Records, Ig!NoRecord, Ig!Kinds
  <2>7. s3' = s3 \/ s3' = Ig!Returned(s7.lane, s7.gen)
    BY <1>11, Zenon DEF Ig!MergeConflicts
  <2>8. s3' = s3 \/ (s3' = [s3 EXCEPT ![s7.lane].state = "recovery"] /\ s3[s7.lane].state = "ready")
    BY <2>7, Zenon DEF Ig!Returned
  <2>9. s1' = [at |-> s1.at, work |-> s1.work, good |-> s1.good, merging |-> s7.lane, src |-> s7.src]
    BY <1>1, <2>2 DEF Ig!BaseShape
  <2>10. Ig!OthersShape' /\ Ig!DecisionsArePast'
    BY <1>1, <2>1, Zenon DEF Ig!OthersShape, Ig!NoCandidate, Ig!DecisionsArePast, Ig!Review
  <2>11. Ig!BaseShape'
    BY <1>1, <2>9, <2>4 DEF Ig!BaseShape, Ig!Merging
  <2>12. Ig!WorkShape'
    BY <1>1, <2>8, <2>4 DEF Ig!WorkShape, Ig!Executions, Ig!Merging
  <2>13. Ig!RecordShape'
    BY <2>6 DEF Ig!RecordShape
  <2>14. Ig!RunShape'
    BY <1>1, <2>1, <2>2, <2>3, <2>4, <2>5, <2>6, <2>7, <2>8, <2>9 DEF Ig!RunShape,
       Ig!Merging, Ig!Verifying, Ig!NoRun
  <2>15. Ig!SourcesAreReported'
    BY <1>1, <2>8, <2>4 DEF Ig!SourcesAreReported, Ig!WorkShape, Ig!Executions, Ig!Merging
  <2>16. Ig!MergesAreRecorded'
    BY <1>1, <2>2, <2>4, <2>6, <2>5 DEF Ig!MergesAreRecorded, Ig!BaseShape, Ig!Merging
  <2>17. Ig!OwedIsRecorded'
    BY <1>1, <2>1, <2>2, <2>6 DEF Ig!OwedIsRecorded, Ig!Covers, Ig!BaseShape
  <2>18. Ig!RecordsArePast'
    BY <1>1, <2>2, <2>6, <2>5 DEF Ig!RecordsArePast, Ig!BaseShape
  <2>19. Ig!RunsOwnTheRecord'
    BY <1>1, <2>1, <2>2, <2>3, <2>4, <2>5, <2>6, <2>7, <2>8, <2>9 DEF Ig!RunsOwnTheRecord,
       Ig!NoRun
  <2>20. Ig!HeldCovers'
    BY <1>1, <2>1, <2>2, <2>3, <2>4, <2>5, <2>6, <2>7, <2>8, <2>9 DEF Ig!HeldCovers,
       Ig!Covers, Ig!NoRun
  <2>21. Ig!AdmittedHolds'
    BY <1>1, <2>1, <2>2, <2>3, <2>4, <2>5, <2>6, <2>7, <2>8, <2>9 DEF Ig!AdmittedHolds, Ig!NoRun
  <2>22. Ig!MergedIsContained'
    BY <1>1, <2>1, <2>2, <2>3, <2>4, <2>5, <2>6, <2>7, <2>8, <2>9 DEF Ig!MergedIsContained,
       Ig!Contained, Ig!NoRun
  <2>23. Ig!CompletedIsVerified'
    BY <1>1, <2>1, <2>2, <2>3, <2>4, <2>5, <2>6, <2>7, <2>8, <2>9 DEF
       Ig!CompletedIsVerified, Ig!NoRun
  <2>24. Ig!NobodyBuildsOnUnverifiedWorkStep
    BY <1>1, <2>2 DEF Ig!NobodyBuildsOnUnverifiedWorkStep, Ig!BaseShape
  <2>25. Ig!CompletedWorkIsVerifiedStep
    BY <1>1, <2>8, <2>4 DEF Ig!CompletedWorkIsVerifiedStep, Ig!WorkShape, Ig!Executions,
       Ig!Merging
  <2>26. Ig!ApprovalsAnswerThisWorkStep
    BY <1>1, <2>1, <2>2, <2>3, <2>4, <2>5, <2>6, <2>7, <2>8, <2>9 DEF
       Ig!ApprovalsAnswerThisWorkStep, Ig!NoRun
  <2> QED
    BY <2>10, <2>11, <2>12, <2>13, <2>14, <2>15, <2>16, <2>17, <2>18, <2>19, <2>20, <2>21,
       <2>22, <2>23, <2>24, <2>25, <2>26 DEF Ig!IntegrationsInv
<1>12. ASSUME Ig!MergeFails
      PROVE  /\ Ig!IntegrationsInv'
             /\ Ig!NobodyBuildsOnUnverifiedWorkStep
             /\ Ig!CompletedWorkIsVerifiedStep
             /\ Ig!ApprovalsAnswerThisWorkStep
  <2>1. /\ s1' = s1 /\ s2' = s2 /\ s3' = s3 /\ s4' = s4 /\ s5' = s5 /\ s8' = s8
        /\ s9' = s9 /\ s10' = s10
    BY <1>12, Zenon DEF Ig!MergeFails, Ig!inGhosts, Ig!Stop, Ig!Withdrawn
  <2>2. /\ s6' = s7.held
        /\ s7' = Ig!NoRun
    BY <1>12, Zenon DEF Ig!MergeFails, Ig!inGhosts, Ig!Stop, Ig!Withdrawn
  <2>3. s7.step = "begun" /\ s1.merging = NoLane
    BY <1>12, Zenon DEF Ig!MergeFails
  <2>4. s7 \in Ig!Merging
    BY <1>1, <2>3 DEF Ig!RunShape, Ig!Verifying, Ig!NoRun
  <2>5. s6 \in Ig!Records /\ s6 # Ig!NoRecord /\ s6.lane = s7.lane
    BY <1>1, <2>3 DEF Ig!RunsOwnTheRecord, Ig!RecordShape
  <2>6. /\ Ig!BaseShape' /\ Ig!WorkShape' /\ Ig!OthersShape'
        /\ Ig!DecisionsArePast' /\ Ig!SourcesAreReported'
    BY <1>1, <2>1, Zenon DEF Ig!BaseShape, Ig!WorkShape, Ig!Executions, Ig!OthersShape,
       Ig!NoCandidate, Ig!DecisionsArePast, Ig!Review, Ig!SourcesAreReported
  <2>7. Ig!RecordShape'
    BY <2>2, <2>4 DEF Ig!RecordShape, Ig!Merging
  <2>8. Ig!RunShape'
    BY <1>1, <2>1, <2>2, <2>3, <2>4, <2>5 DEF Ig!RunShape, Ig!Merging, Ig!Verifying, Ig!NoRun
  <2>9. Ig!MergesAreRecorded'
    BY <2>1, <2>3 DEF Ig!MergesAreRecorded
  <2>10. Ig!OwedIsRecorded'
    BY <1>1, <2>1, <2>2, <2>3 DEF Ig!OwedIsRecorded, Ig!HeldCovers, Ig!Covers
  <2>11. Ig!RecordsArePast'
    BY <1>1, <2>1, <2>2, <2>3, <2>4 DEF Ig!RecordsArePast, Ig!HeldCovers, Ig!Merging, Ig!Records
  <2>12. Ig!RunsOwnTheRecord'
    BY <1>1, <2>1, <2>2, <2>3, <2>4, <2>5 DEF Ig!RunsOwnTheRecord, Ig!NoRun
  <2>13. Ig!HeldCovers'
    BY <1>1, <2>1, <2>2, <2>3, <2>4, <2>5 DEF Ig!HeldCovers, Ig!Covers, Ig!NoRun
  <2>14. Ig!AdmittedHolds'
    BY <1>1, <2>1, <2>2, <2>3, <2>4, <2>5 DEF Ig!AdmittedHolds, Ig!NoRun
  <2>15. Ig!MergedIsContained'
    BY <1>1, <2>1, <2>2, <2>3, <2>4, <2>5 DEF Ig!MergedIsContained, Ig!Contained, Ig!NoRun
  <2>16. Ig!CompletedIsVerified'
    BY <1>1, <2>1, <2>2, <2>3, <2>4, <2>5 DEF Ig!CompletedIsVerified, Ig!NoRun
  <2>17. Ig!NobodyBuildsOnUnverifiedWorkStep
    BY <1>1, <2>1, <2>2, <2>3, <2>4, <2>5 DEF Ig!NobodyBuildsOnUnverifiedWorkStep, Ig!NoRun
  <2>18. Ig!CompletedWorkIsVerifiedStep
    BY <1>1, <2>1, <2>2, <2>3, <2>4, <2>5 DEF Ig!CompletedWorkIsVerifiedStep, Ig!NoRun
  <2>19. Ig!ApprovalsAnswerThisWorkStep
    BY <1>1, <2>1, <2>2, <2>3, <2>4, <2>5 DEF Ig!ApprovalsAnswerThisWorkStep, Ig!NoRun
  <2> QED
    BY <2>6, <2>7, <2>8, <2>9, <2>10, <2>11, <2>12, <2>13, <2>14, <2>15, <2>16, <2>17,
       <2>18, <2>19 DEF Ig!IntegrationsInv
<1>13. ASSUME Ig!RecordResult
      PROVE  /\ Ig!IntegrationsInv'
             /\ Ig!NobodyBuildsOnUnverifiedWorkStep
             /\ Ig!CompletedWorkIsVerifiedStep
             /\ Ig!ApprovalsAnswerThisWorkStep
  <2>1. /\ s1' = s1 /\ s2' = s2 /\ s3' = s3 /\ s4' = s4 /\ s5' = s5 /\ s8' = s8
        /\ s9' = s9 /\ s10' = s10
    BY <1>13, Zenon DEF Ig!RecordResult, Ig!inGhosts
  <2>2. s7' = [step |-> "gated", lane |-> s7.lane, gen |-> s7.gen, src |-> s7.src, at |-> s1.at,
             verified |-> s7.verified]
    BY <1>13, Zenon DEF Ig!RecordResult, Ig!inGhosts
  <2>3. s7.step = "merged"
    BY <1>13, Zenon DEF Ig!RecordResult
  <2>4. s7 \in Ig!Merging
    BY <1>1, <2>3 DEF Ig!RunShape, Ig!Verifying, Ig!NoRun
  <2>5. s6 \in Ig!Records /\ s6 # Ig!NoRecord /\ s6.lane = s7.lane /\ s1.merging = NoLane
    BY <1>1, <2>3 DEF Ig!RunsOwnTheRecord, Ig!RecordShape
  <2>6. /\ s6' \in Ig!Records /\ s6' # Ig!NoRecord /\ s6'.lane = s6.lane /\ s6'.base = s6.base
        /\ s6'.attempt = s6.attempt /\ s6'.limit = s6.limit
    BY <1>1, <1>13, <2>5 DEF Ig!RecordResult, Ig!Published, Ig!Records, Ig!NoRecord,
       Ig!BaseShape
  <2>7. /\ Ig!BaseShape' /\ Ig!WorkShape' /\ Ig!OthersShape'
        /\ Ig!DecisionsArePast' /\ Ig!SourcesAreReported'
    BY <1>1, <2>1, Zenon DEF Ig!BaseShape, Ig!WorkShape, Ig!Executions, Ig!OthersShape,
       Ig!NoCandidate, Ig!DecisionsArePast, Ig!Review, Ig!SourcesAreReported
  <2>8. Ig!RecordShape'
    BY <2>6 DEF Ig!RecordShape
  <2>9. Ig!RunShape'
    BY <1>1, <2>2, <2>4 DEF Ig!RunShape, Ig!Merging, Ig!Verifying, Ig!BaseShape
  <2>10. Ig!MergesAreRecorded'
    BY <2>1, <2>5 DEF Ig!MergesAreRecorded
  <2>11. Ig!OwedIsRecorded'
    BY <1>1, <2>1, <2>6 DEF Ig!OwedIsRecorded, Ig!Covers
  <2>12. Ig!RecordsArePast'
    BY <1>1, <2>1, <2>6, <2>5 DEF Ig!RecordsArePast
  <2>13. Ig!RunsOwnTheRecord'
    BY <2>1, <2>2, <2>5, <2>6 DEF Ig!RunsOwnTheRecord
  <2>14. Ig!HeldCovers'
    BY <2>2 DEF Ig!HeldCovers
  <2>15. Ig!AdmittedHolds'
    BY <2>2 DEF Ig!AdmittedHolds
  <2>16. Ig!MergedIsContained'
    BY <1>1, <2>1, <2>2, <2>3 DEF Ig!MergedIsContained, Ig!Contained
  <2>17. Ig!CompletedIsVerified'
    BY <2>2 DEF Ig!CompletedIsVerified
  <2>18. Ig!NobodyBuildsOnUnverifiedWorkStep
    BY <1>1, <2>1, <2>2, <2>3, <2>4, <2>5, <2>6 DEF Ig!NobodyBuildsOnUnverifiedWorkStep,
       Ig!NoRun
  <2>19. Ig!CompletedWorkIsVerifiedStep
    BY <1>1, <2>1, <2>2, <2>3, <2>4, <2>5, <2>6 DEF Ig!CompletedWorkIsVerifiedStep, Ig!NoRun
  <2>20. Ig!ApprovalsAnswerThisWorkStep
    BY <2>3 DEF Ig!ApprovalsAnswerThisWorkStep, Ig!NoRun
  <2> QED
    BY <2>7, <2>8, <2>9, <2>10, <2>11, <2>12, <2>13, <2>14, <2>15, <2>16, <2>17, <2>18,
       <2>19, <2>20 DEF Ig!IntegrationsInv
<1>14. ASSUME Ig!GateThenComplete
      PROVE  /\ Ig!IntegrationsInv'
             /\ Ig!NobodyBuildsOnUnverifiedWorkStep
             /\ Ig!CompletedWorkIsVerifiedStep
             /\ Ig!ApprovalsAnswerThisWorkStep
  <2>1. /\ s1' = s1 /\ s2' = s2 /\ s3' = s3 /\ s4' = s4 /\ s5' = s5 /\ s6' = s6
        /\ s8' = s8 /\ s10' = s10
    BY <1>14, Zenon DEF Ig!GateThenComplete
  <2>2. /\ s7' = [s7 EXCEPT !.step = "completed"]
        /\ s9' = NoLane
    BY <1>14, Zenon DEF Ig!GateThenComplete
  <2>3. s7.step = "gated"
    BY <1>14, Zenon DEF Ig!GateThenComplete
  <2>4. s7 \in Ig!Verifying
    BY <1>1, <2>3 DEF Ig!RunShape, Ig!Merging, Ig!NoRun
  <2>5. s6 \in Ig!Records /\ s6 # Ig!NoRecord /\ s6.lane = s7.lane /\ s1.merging = NoLane
    BY <1>1, <2>3 DEF Ig!RunsOwnTheRecord, Ig!RecordShape
  <2>6. s7' = [step |-> "completed", lane |-> s7.lane, gen |-> s7.gen, src |-> s7.src, at |-> s7.at,
                verified |-> s7.verified]
    BY <2>2, <2>4 DEF Ig!Verifying
  <2>7. /\ Ig!BaseShape' /\ Ig!WorkShape' /\ Ig!RecordShape'
        /\ Ig!DecisionsArePast' /\ Ig!SourcesAreReported' /\ Ig!MergesAreRecorded'
    BY <1>1, <2>1, Zenon DEF Ig!BaseShape, Ig!WorkShape, Ig!Executions, Ig!RecordShape,
       Ig!Records, Ig!NoRecord, Ig!DecisionsArePast, Ig!Review, Ig!SourcesAreReported,
       Ig!MergesAreRecorded
  <2>8. Ig!RecordsArePast'
    BY <1>1, <2>1, Zenon DEF Ig!RecordsArePast, Ig!NoRecord
  <2>9. Ig!RunShape'
    BY <2>6, <2>4 DEF Ig!RunShape, Ig!Verifying
  <2>10. Ig!OthersShape'
    BY <1>1, <2>1, <2>2 DEF Ig!OthersShape, Ig!NoCandidate
  <2>11. Ig!OwedIsRecorded'
    BY <2>2 DEF Ig!OwedIsRecorded
  <2>12. Ig!RunsOwnTheRecord'
    BY <2>1, <2>6, <2>5 DEF Ig!RunsOwnTheRecord
  <2>13. Ig!HeldCovers'
    BY <2>6 DEF Ig!HeldCovers
  <2>14. Ig!AdmittedHolds'
    BY <2>6 DEF Ig!AdmittedHolds
  <2>15. Ig!MergedIsContained'
    BY <1>1, <2>1, <2>6, <2>3 DEF Ig!MergedIsContained, Ig!Contained
  <2>16. Ig!CompletedIsVerified'
    BY <2>2 DEF Ig!CompletedIsVerified
  <2>17. Ig!NobodyBuildsOnUnverifiedWorkStep
    BY <1>1, <2>1, <2>2, <2>3, <2>4, <2>5, <2>6 DEF Ig!NobodyBuildsOnUnverifiedWorkStep,
       Ig!NoRun
  <2>18. Ig!CompletedWorkIsVerifiedStep
    BY <1>1, <2>1, <2>2, <2>3, <2>4, <2>5, <2>6 DEF Ig!CompletedWorkIsVerifiedStep, Ig!NoRun
  <2>19. Ig!ApprovalsAnswerThisWorkStep
    BY <2>3 DEF Ig!ApprovalsAnswerThisWorkStep, Ig!NoRun
  <2> QED
    BY <2>7, <2>8, <2>9, <2>10, <2>11, <2>12, <2>13, <2>14, <2>15, <2>16, <2>17, <2>18,
       <2>19 DEF Ig!IntegrationsInv
<1>15. ASSUME Ig!GateFails
      PROVE  /\ Ig!IntegrationsInv'
             /\ Ig!NobodyBuildsOnUnverifiedWorkStep
             /\ Ig!CompletedWorkIsVerifiedStep
             /\ Ig!ApprovalsAnswerThisWorkStep
  <2>1. /\ s1' = s1 /\ s2' = s2 /\ s4' = s4 /\ s5' = s5 /\ s8' = s8 /\ s9' = s9
        /\ s10' = s10
    BY <1>15, Zenon DEF Ig!GateFails, Ig!inGhosts, Ig!Stop
  <2>2. s7' = Ig!NoRun
    BY <1>15, Zenon DEF Ig!GateFails, Ig!inGhosts, Ig!Stop
  <2>3. s7.step = "gated"
    BY <1>15, Zenon DEF Ig!GateFails
  <2>4. s7 \in Ig!Verifying
    BY <1>1, <2>3 DEF Ig!RunShape, Ig!Merging, Ig!NoRun
  <2>5. s6 \in Ig!Records /\ s6 # Ig!NoRecord /\ s6.lane = s7.lane /\ s1.merging = NoLane
    BY <1>1, <2>3 DEF Ig!RunsOwnTheRecord, Ig!RecordShape
  <2>6. /\ s6' \in Ig!Records /\ s6' # Ig!NoRecord /\ s6'.lane = s6.lane /\ s6'.base = s6.base
        /\ s6'.attempt = s6.attempt /\ s6'.limit = s6.limit
    BY <1>15, <2>5 DEF Ig!GateFails, Ig!Published, Ig!Records, Ig!NoRecord, Ig!Kinds
  <2>7. s3' = s3 \/ s3' = Ig!Returned(s7.lane, s7.gen)
    BY <1>15, Zenon DEF Ig!GateFails
  <2>8. s3' = s3 \/ (s3' = [s3 EXCEPT ![s7.lane].state = "recovery"] /\ s3[s7.lane].state = "ready")
    BY <2>7, Zenon DEF Ig!Returned
  <2>9. Ig!BaseShape' /\ Ig!OthersShape' /\ Ig!DecisionsArePast'
    BY <1>1, <2>1, Zenon DEF Ig!BaseShape, Ig!OthersShape, Ig!NoCandidate,
       Ig!DecisionsArePast, Ig!Review
  <2>10. Ig!WorkShape'
    BY <1>1, <2>8, <2>4 DEF Ig!WorkShape, Ig!Executions, Ig!Verifying
  <2>11. Ig!RecordShape'
    BY <2>6 DEF Ig!RecordShape
  <2>12. Ig!RunShape'
    BY <1>1, <2>1, <2>2, <2>3, <2>4, <2>5, <2>6, <2>7, <2>8 DEF Ig!RunShape, Ig!Merging,
       Ig!Verifying, Ig!NoRun
  <2>13. Ig!SourcesAreReported'
    BY <1>1, <2>8, <2>4 DEF Ig!SourcesAreReported, Ig!WorkShape, Ig!Executions, Ig!Verifying
  <2>14. Ig!MergesAreRecorded'
    BY <2>1, <2>5 DEF Ig!MergesAreRecorded
  <2>15. Ig!OwedIsRecorded'
    BY <1>1, <2>1, <2>6 DEF Ig!OwedIsRecorded, Ig!Covers
  <2>16. Ig!RecordsArePast'
    BY <1>1, <2>1, <2>6, <2>5 DEF Ig!RecordsArePast
  <2>17. Ig!RunsOwnTheRecord'
    BY <1>1, <2>1, <2>2, <2>3, <2>4, <2>5, <2>6, <2>7, <2>8 DEF Ig!RunsOwnTheRecord, Ig!NoRun
  <2>18. Ig!HeldCovers'
    BY <1>1, <2>1, <2>2, <2>3, <2>4, <2>5, <2>6, <2>7, <2>8 DEF Ig!HeldCovers, Ig!Covers,
       Ig!NoRun
  <2>19. Ig!AdmittedHolds'
    BY <1>1, <2>1, <2>2, <2>3, <2>4, <2>5, <2>6, <2>7, <2>8 DEF Ig!AdmittedHolds, Ig!NoRun
  <2>20. Ig!MergedIsContained'
    BY <1>1, <2>1, <2>2, <2>3, <2>4, <2>5, <2>6, <2>7, <2>8 DEF Ig!MergedIsContained,
       Ig!Contained, Ig!NoRun
  <2>21. Ig!CompletedIsVerified'
    BY <1>1, <2>1, <2>2, <2>3, <2>4, <2>5, <2>6, <2>7, <2>8 DEF Ig!CompletedIsVerified, Ig!NoRun
  <2>22. Ig!NobodyBuildsOnUnverifiedWorkStep
    BY <1>1, <2>1, <2>2, <2>3, <2>4, <2>5, <2>6, <2>7, <2>8 DEF
       Ig!NobodyBuildsOnUnverifiedWorkStep, Ig!NoRun
  <2>23. Ig!CompletedWorkIsVerifiedStep
    BY <1>1, <2>8, <2>4 DEF Ig!CompletedWorkIsVerifiedStep, Ig!WorkShape, Ig!Executions,
       Ig!Verifying
  <2>24. Ig!ApprovalsAnswerThisWorkStep
    BY <1>1, <2>1, <2>2, <2>3, <2>4, <2>5, <2>6, <2>7, <2>8 DEF
       Ig!ApprovalsAnswerThisWorkStep, Ig!NoRun
  <2> QED
    BY <2>9, <2>10, <2>11, <2>12, <2>13, <2>14, <2>15, <2>16, <2>17, <2>18, <2>19, <2>20,
       <2>21, <2>22, <2>23, <2>24 DEF Ig!IntegrationsInv
<1>16. ASSUME Ig!CompleteWork
      PROVE  /\ Ig!IntegrationsInv'
             /\ Ig!NobodyBuildsOnUnverifiedWorkStep
             /\ Ig!CompletedWorkIsVerifiedStep
             /\ Ig!ApprovalsAnswerThisWorkStep
  <2>1. /\ s1' = s1 /\ s2' = s2 /\ s4' = s4 /\ s5' = s5 /\ s6' = s6 /\ s8' = s8
        /\ s9' = s9 /\ s10' = s10
    BY <1>16, Zenon DEF Ig!CompleteWork, Ig!inGhosts
  <2>2. /\ s3' = [m \in MergeLanes |-> IF m = s7.lane THEN [s3[s7.lane] EXCEPT !.state = "complete"]
                                      ELSE [s3[m] EXCEPT !.on = @ \ {s7.lane}]]
        /\ s7' = [s7 EXCEPT !.step = "completed", !.gen = 0]
    BY <1>16, Zenon DEF Ig!CompleteWork, Ig!inGhosts
  <2>3. s7.step = "completed"
    BY <1>16, Zenon DEF Ig!CompleteWork
  <2>4. s7 \in Ig!Verifying
    BY <1>1, <2>3 DEF Ig!RunShape, Ig!Merging, Ig!NoRun
  <2>5. s6 \in Ig!Records /\ s6 # Ig!NoRecord /\ s6.lane = s7.lane /\ s1.merging = NoLane
    BY <1>1, <2>3 DEF Ig!RunsOwnTheRecord, Ig!RecordShape
  <2>6. s7' = [step |-> "completed", lane |-> s7.lane, gen |-> 0, src |-> s7.src, at |-> s7.at,
                verified |-> s7.verified]
    BY <2>2, <2>4 DEF Ig!Verifying
  <2>7. s3[s7.lane].state \in {"ready", "recovery"} /\ s3[s7.lane].src = s7.src
    BY <1>16, Zenon DEF Ig!CompleteWork, Ig!MayComplete
  <2>8. \A m \in MergeLanes : s3'[m] \in Ig!Executions /\ s3'[m].src = s3[m].src
              /\ s3'[m].state = (IF m = s7.lane THEN "complete" ELSE s3[m].state)
    BY <1>1, <2>2, <2>4 DEF Ig!WorkShape, Ig!Executions
  <2>9. /\ Ig!BaseShape' /\ Ig!RecordShape' /\ Ig!OthersShape'
        /\ Ig!DecisionsArePast' /\ Ig!MergesAreRecorded' /\ Ig!OwedIsRecorded'
    BY <1>1, <2>1, Zenon DEF Ig!BaseShape, Ig!RecordShape, Ig!Records, Ig!NoRecord,
       Ig!OthersShape, Ig!NoCandidate, Ig!DecisionsArePast, Ig!Review, Ig!MergesAreRecorded,
       Ig!OwedIsRecorded, Ig!Covers
  <2>10. Ig!RecordsArePast'
    BY <1>1, <2>1, Zenon DEF Ig!RecordsArePast, Ig!NoRecord
  <2>11. Ig!WorkShape'
    BY <2>2, <2>8 DEF Ig!WorkShape
  <2>12. Ig!RunShape'
    BY <2>6, <2>4 DEF Ig!RunShape, Ig!Verifying
  <2>13. Ig!SourcesAreReported'
    BY <1>1, <2>8, <2>7, <2>4 DEF Ig!SourcesAreReported, Ig!Verifying
  <2>14. Ig!RunsOwnTheRecord'
    BY <2>1, <2>6, <2>5 DEF Ig!RunsOwnTheRecord
  <2>15. Ig!HeldCovers'
    BY <2>6 DEF Ig!HeldCovers
  <2>16. Ig!AdmittedHolds'
    BY <2>6 DEF Ig!AdmittedHolds
  <2>17. Ig!MergedIsContained'
    BY <1>1, <2>1, <2>6, <2>3 DEF Ig!MergedIsContained, Ig!Contained
  <2>18. Ig!CompletedIsVerified'
    BY <1>1, <2>1, <2>6, <2>3 DEF Ig!CompletedIsVerified
  <2>19. Ig!NobodyBuildsOnUnverifiedWorkStep
    BY <1>1, <2>1, <2>2, <2>3, <2>4, <2>5, <2>6, <2>7, <2>8 DEF
       Ig!NobodyBuildsOnUnverifiedWorkStep, Ig!NoRun
  <2>20. Ig!CompletedWorkIsVerifiedStep
    BY <1>1, <2>8, <2>7, <2>3 DEF Ig!CompletedWorkIsVerifiedStep, Ig!MergedIsContained,
       Ig!Contained, Ig!CompletedIsVerified
  <2>21. Ig!ApprovalsAnswerThisWorkStep
    BY <2>3 DEF Ig!ApprovalsAnswerThisWorkStep, Ig!NoRun
  <2> QED
    BY <2>9, <2>10, <2>11, <2>12, <2>13, <2>14, <2>15, <2>16, <2>17, <2>18, <2>19, <2>20,
       <2>21 DEF Ig!IntegrationsInv
<1>17. ASSUME Ig!CompletionRefused
      PROVE  /\ Ig!IntegrationsInv'
             /\ Ig!NobodyBuildsOnUnverifiedWorkStep
             /\ Ig!CompletedWorkIsVerifiedStep
             /\ Ig!ApprovalsAnswerThisWorkStep
  <2>1. /\ s1' = s1 /\ s2' = s2 /\ s3' = s3 /\ s4' = s4 /\ s5' = s5 /\ s6' = s6
        /\ s8' = s8 /\ s9' = s9 /\ s10' = s10
    BY <1>17, Zenon DEF Ig!CompletionRefused, Ig!inGhosts, Ig!Stop
  <2>2. s7' = Ig!NoRun
    BY <1>17, Zenon DEF Ig!CompletionRefused, Ig!inGhosts, Ig!Stop
  <2>3. /\ Ig!BaseShape' /\ Ig!WorkShape' /\ Ig!RecordShape'
        /\ Ig!OthersShape' /\ Ig!DecisionsArePast' /\ Ig!SourcesAreReported'
    BY <1>1, <2>1, Zenon DEF Ig!BaseShape, Ig!WorkShape, Ig!Executions, Ig!RecordShape,
       Ig!Records, Ig!NoRecord, Ig!OthersShape, Ig!NoCandidate, Ig!DecisionsArePast,
       Ig!Review, Ig!SourcesAreReported
  <2>4. Ig!MergesAreRecorded' /\ Ig!OwedIsRecorded' /\ Ig!RecordsArePast'
    BY <1>1, <2>1, Zenon DEF Ig!MergesAreRecorded, Ig!NoRecord, Ig!OwedIsRecorded,
       Ig!Covers, Ig!RecordsArePast
  <2>5. Ig!RunShape'
    BY <1>1, <2>1, <2>2 DEF Ig!RunShape, Ig!Merging, Ig!Verifying, Ig!NoRun
  <2>6. Ig!RunsOwnTheRecord'
    BY <1>1, <2>1, <2>2 DEF Ig!RunsOwnTheRecord, Ig!NoRun
  <2>7. Ig!HeldCovers'
    BY <1>1, <2>1, <2>2 DEF Ig!HeldCovers, Ig!Covers, Ig!NoRun
  <2>8. Ig!AdmittedHolds'
    BY <1>1, <2>1, <2>2 DEF Ig!AdmittedHolds, Ig!NoRun
  <2>9. Ig!MergedIsContained'
    BY <1>1, <2>1, <2>2 DEF Ig!MergedIsContained, Ig!Contained, Ig!NoRun
  <2>10. Ig!CompletedIsVerified'
    BY <1>1, <2>1, <2>2 DEF Ig!CompletedIsVerified, Ig!NoRun
  <2>11. Ig!NobodyBuildsOnUnverifiedWorkStep
    BY <1>1, <2>1, <2>2 DEF Ig!NobodyBuildsOnUnverifiedWorkStep, Ig!NoRun
  <2>12. Ig!CompletedWorkIsVerifiedStep
    BY <1>1, <2>1, <2>2 DEF Ig!CompletedWorkIsVerifiedStep, Ig!NoRun
  <2>13. Ig!ApprovalsAnswerThisWorkStep
    BY <1>1, <2>1, <2>2 DEF Ig!ApprovalsAnswerThisWorkStep, Ig!NoRun
  <2> QED
    BY <2>3, <2>4, <2>5, <2>6, <2>7, <2>8, <2>9, <2>10, <2>11, <2>12, <2>13 DEF
       Ig!IntegrationsInv
<1>18. ASSUME Ig!ClearRecord
      PROVE  /\ Ig!IntegrationsInv'
             /\ Ig!NobodyBuildsOnUnverifiedWorkStep
             /\ Ig!CompletedWorkIsVerifiedStep
             /\ Ig!ApprovalsAnswerThisWorkStep
  <2>1. /\ s1' = s1 /\ s2' = s2 /\ s3' = s3 /\ s4' = s4 /\ s5' = s5 /\ s8' = s8
        /\ s9' = s9 /\ s10' = s10
    BY <1>18, Zenon DEF Ig!ClearRecord, Ig!inGhosts, Ig!Stop
  <2>2. s7' = Ig!NoRun
    BY <1>18, Zenon DEF Ig!ClearRecord, Ig!inGhosts, Ig!Stop
  <2>3. s7.step = "completed"
    BY <1>18, Zenon DEF Ig!ClearRecord
  <2>4. s7 \in Ig!Verifying
    BY <1>1, <2>3 DEF Ig!RunShape, Ig!Merging, Ig!NoRun
  <2>5. s6 \in Ig!Records /\ s6 # Ig!NoRecord /\ s6.lane = s7.lane /\ s1.merging = NoLane
    BY <1>1, <2>3 DEF Ig!RunsOwnTheRecord, Ig!RecordShape
  <2>6. s6' = Ig!NoRecord \/ s6' = s6
    BY <1>18, Zenon DEF Ig!ClearRecord
  <2>7. s9 = NoLane
    BY <1>1, <2>3 DEF Ig!CompletedIsVerified
  <2>8. /\ Ig!BaseShape' /\ Ig!WorkShape' /\ Ig!OthersShape'
        /\ Ig!DecisionsArePast' /\ Ig!SourcesAreReported'
    BY <1>1, <2>1, Zenon DEF Ig!BaseShape, Ig!WorkShape, Ig!Executions, Ig!OthersShape,
       Ig!NoCandidate, Ig!DecisionsArePast, Ig!Review, Ig!SourcesAreReported
  <2>9. Ig!RecordShape'
    BY <1>1, <2>1, <2>2, <2>3, <2>4, <2>5, <2>6, <2>7 DEF Ig!RecordShape, Ig!Records,
       Ig!NoRecord
  <2>10. Ig!RunShape'
    BY <1>1, <2>1, <2>2, <2>3, <2>4, <2>5, <2>6, <2>7 DEF Ig!RunShape, Ig!Merging,
       Ig!Verifying, Ig!NoRun
  <2>11. Ig!MergesAreRecorded'
    BY <2>1, <2>5 DEF Ig!MergesAreRecorded
  <2>12. Ig!OwedIsRecorded'
    BY <2>1, <2>7 DEF Ig!OwedIsRecorded
  <2>13. Ig!RecordsArePast'
    BY <1>1, <2>1, <2>2, <2>3, <2>4, <2>5, <2>6, <2>7 DEF Ig!RecordsArePast, Ig!NoRecord
  <2>14. Ig!RunsOwnTheRecord'
    BY <1>1, <2>1, <2>2, <2>3, <2>4, <2>5, <2>6, <2>7 DEF Ig!RunsOwnTheRecord, Ig!NoRun
  <2>15. Ig!HeldCovers'
    BY <1>1, <2>1, <2>2, <2>3, <2>4, <2>5, <2>6, <2>7 DEF Ig!HeldCovers, Ig!Covers, Ig!NoRun
  <2>16. Ig!AdmittedHolds'
    BY <1>1, <2>1, <2>2, <2>3, <2>4, <2>5, <2>6, <2>7 DEF Ig!AdmittedHolds, Ig!NoRun
  <2>17. Ig!MergedIsContained'
    BY <1>1, <2>1, <2>2, <2>3, <2>4, <2>5, <2>6, <2>7 DEF Ig!MergedIsContained,
       Ig!Contained, Ig!NoRun
  <2>18. Ig!CompletedIsVerified'
    BY <1>1, <2>1, <2>2, <2>3, <2>4, <2>5, <2>6, <2>7 DEF Ig!CompletedIsVerified, Ig!NoRun
  <2>19. Ig!NobodyBuildsOnUnverifiedWorkStep
    BY <1>1, <2>1, <2>2, <2>3, <2>4, <2>5, <2>6, <2>7 DEF
       Ig!NobodyBuildsOnUnverifiedWorkStep, Ig!NoRun
  <2>20. Ig!CompletedWorkIsVerifiedStep
    BY <1>1, <2>1, <2>2, <2>3, <2>4, <2>5, <2>6, <2>7 DEF Ig!CompletedWorkIsVerifiedStep,
       Ig!NoRun
  <2>21. Ig!ApprovalsAnswerThisWorkStep
    BY <1>1, <2>1, <2>2, <2>3, <2>4, <2>5, <2>6, <2>7 DEF Ig!ApprovalsAnswerThisWorkStep,
       Ig!NoRun
  <2> QED
    BY <2>8, <2>9, <2>10, <2>11, <2>12, <2>13, <2>14, <2>15, <2>16, <2>17, <2>18, <2>19,
       <2>20, <2>21 DEF Ig!IntegrationsInv
<1>19. ASSUME Ig!Crash
      PROVE  /\ Ig!IntegrationsInv'
             /\ Ig!NobodyBuildsOnUnverifiedWorkStep
             /\ Ig!CompletedWorkIsVerifiedStep
             /\ Ig!ApprovalsAnswerThisWorkStep
  <2>1. /\ s1' = s1 /\ s2' = s2 /\ s3' = s3 /\ s4' = s4 /\ s5' = s5 /\ s6' = s6
        /\ s8' = s8 /\ s9' = s9 /\ s10' = s10
    BY <1>19, Zenon DEF Ig!Crash, Ig!inGhosts, Ig!Stop
  <2>2. s7' = Ig!NoRun
    BY <1>19, Zenon DEF Ig!Crash, Ig!inGhosts, Ig!Stop
  <2>3. /\ Ig!BaseShape' /\ Ig!WorkShape' /\ Ig!RecordShape'
        /\ Ig!OthersShape' /\ Ig!DecisionsArePast' /\ Ig!SourcesAreReported'
    BY <1>1, <2>1, Zenon DEF Ig!BaseShape, Ig!WorkShape, Ig!Executions, Ig!RecordShape,
       Ig!Records, Ig!NoRecord, Ig!OthersShape, Ig!NoCandidate, Ig!DecisionsArePast,
       Ig!Review, Ig!SourcesAreReported
  <2>4. Ig!MergesAreRecorded' /\ Ig!OwedIsRecorded' /\ Ig!RecordsArePast'
    BY <1>1, <2>1, Zenon DEF Ig!MergesAreRecorded, Ig!NoRecord, Ig!OwedIsRecorded,
       Ig!Covers, Ig!RecordsArePast
  <2>5. Ig!RunShape'
    BY <1>1, <2>1, <2>2 DEF Ig!RunShape, Ig!Merging, Ig!Verifying, Ig!NoRun
  <2>6. Ig!RunsOwnTheRecord'
    BY <1>1, <2>1, <2>2 DEF Ig!RunsOwnTheRecord, Ig!NoRun
  <2>7. Ig!HeldCovers'
    BY <1>1, <2>1, <2>2 DEF Ig!HeldCovers, Ig!Covers, Ig!NoRun
  <2>8. Ig!AdmittedHolds'
    BY <1>1, <2>1, <2>2 DEF Ig!AdmittedHolds, Ig!NoRun
  <2>9. Ig!MergedIsContained'
    BY <1>1, <2>1, <2>2 DEF Ig!MergedIsContained, Ig!Contained, Ig!NoRun
  <2>10. Ig!CompletedIsVerified'
    BY <1>1, <2>1, <2>2 DEF Ig!CompletedIsVerified, Ig!NoRun
  <2>11. Ig!NobodyBuildsOnUnverifiedWorkStep
    BY <1>1, <2>1, <2>2 DEF Ig!NobodyBuildsOnUnverifiedWorkStep, Ig!NoRun
  <2>12. Ig!CompletedWorkIsVerifiedStep
    BY <1>1, <2>1, <2>2 DEF Ig!CompletedWorkIsVerifiedStep, Ig!NoRun
  <2>13. Ig!ApprovalsAnswerThisWorkStep
    BY <1>1, <2>1, <2>2 DEF Ig!ApprovalsAnswerThisWorkStep, Ig!NoRun
  <2> QED
    BY <2>3, <2>4, <2>5, <2>6, <2>7, <2>8, <2>9, <2>10, <2>11, <2>12, <2>13 DEF
       Ig!IntegrationsInv
<1>20. ASSUME Ig!AbortMerge
      PROVE  /\ Ig!IntegrationsInv'
             /\ Ig!NobodyBuildsOnUnverifiedWorkStep
             /\ Ig!CompletedWorkIsVerifiedStep
             /\ Ig!ApprovalsAnswerThisWorkStep
  <2>1. /\ s2' = s2 /\ s3' = s3 /\ s4' = s4 /\ s5' = s5 /\ s6' = s6 /\ s7' = s7
        /\ s8' = s8 /\ s9' = s9 /\ s10' = s10
    BY <1>20, Zenon DEF Ig!AbortMerge, Ig!inGhosts
  <2>2. s1' = [s1 EXCEPT !.merging = NoLane, !.src = 0]
    BY <1>20, Zenon DEF Ig!AbortMerge, Ig!inGhosts
  <2>3. s1' = [at |-> s1.at, work |-> s1.work, good |-> s1.good, merging |-> NoLane, src |-> 0]
    BY <1>1, <2>2 DEF Ig!BaseShape
  <2>4. /\ s1'.at = s1.at /\ s1'.work = s1.work /\ s1'.merging = NoLane /\ s1' \in [at : 0..MaxBase,
                work : SUBSET (MergeLanes \X (1..MaxRev)), good : BOOLEAN, merging : MergeLanes \cup {NoLane},
                src : 0..MaxRev]
    BY <1>1, <2>3 DEF Ig!BaseShape
  <2>5. /\ Ig!WorkShape' /\ Ig!RecordShape' /\ Ig!RunShape'
        /\ Ig!OthersShape' /\ Ig!DecisionsArePast' /\ Ig!SourcesAreReported'
    BY <1>1, <2>1, Zenon DEF Ig!WorkShape, Ig!Executions, Ig!RecordShape, Ig!Records,
       Ig!NoRecord, Ig!RunShape, Ig!Merging, Ig!Verifying, Ig!NoRun, Ig!OthersShape,
       Ig!NoCandidate, Ig!DecisionsArePast, Ig!Review, Ig!SourcesAreReported
  <2>6. Ig!AdmittedHolds' /\ Ig!CompletedIsVerified'
    BY <1>1, <2>1, Zenon DEF Ig!AdmittedHolds, Ig!NoRun, Ig!CompletedIsVerified
  <2>7. Ig!BaseShape'
    BY <1>1, <2>1, <2>2, <2>3, <2>4 DEF Ig!BaseShape
  <2>8. Ig!MergesAreRecorded'
    BY <1>1, <2>1, <2>2, <2>3, <2>4 DEF Ig!MergesAreRecorded, Ig!NoRecord
  <2>9. Ig!OwedIsRecorded'
    BY <1>1, <2>1, <2>2, <2>3, <2>4 DEF Ig!OwedIsRecorded, Ig!Covers, Ig!NoRecord
  <2>10. Ig!RecordsArePast'
    BY <1>1, <2>1, <2>2, <2>3, <2>4 DEF Ig!RecordsArePast, Ig!NoRecord
  <2>11. Ig!RunsOwnTheRecord'
    BY <1>1, <2>1, <2>2, <2>3, <2>4 DEF Ig!RunsOwnTheRecord, Ig!NoRun
  <2>12. Ig!HeldCovers'
    BY <1>1, <2>1, <2>2, <2>3, <2>4 DEF Ig!HeldCovers, Ig!Covers, Ig!NoRun
  <2>13. Ig!MergedIsContained'
    BY <1>1, <2>1, <2>2, <2>3, <2>4 DEF Ig!MergedIsContained, Ig!Contained, Ig!NoRun
  <2>14. Ig!NobodyBuildsOnUnverifiedWorkStep
    BY <1>1, <2>1, <2>2, <2>3, <2>4 DEF Ig!NobodyBuildsOnUnverifiedWorkStep, Ig!NoRun
  <2>15. Ig!CompletedWorkIsVerifiedStep
    BY <1>1, <2>1, <2>2, <2>3, <2>4 DEF Ig!CompletedWorkIsVerifiedStep, Ig!NoRun
  <2>16. Ig!ApprovalsAnswerThisWorkStep
    BY <1>1, <2>1, <2>2, <2>3, <2>4 DEF Ig!ApprovalsAnswerThisWorkStep, Ig!NoRun
  <2> QED
    BY <2>5, <2>6, <2>7, <2>8, <2>9, <2>10, <2>11, <2>12, <2>13, <2>14, <2>15, <2>16 DEF
       Ig!IntegrationsInv
<1>21. ASSUME Ig!VerifyRecovery
      PROVE  /\ Ig!IntegrationsInv'
             /\ Ig!NobodyBuildsOnUnverifiedWorkStep
             /\ Ig!CompletedWorkIsVerifiedStep
             /\ Ig!ApprovalsAnswerThisWorkStep
  <2>1. /\ s1' = s1 /\ s2' = s2 /\ s3' = s3 /\ s4' = s4 /\ s5' = s5 /\ s7' = s7
        /\ s8' = s8 /\ s10' = s10
    BY <1>21, Zenon DEF Ig!VerifyRecovery
  <2>2. /\ s6' = Ig!NoRecord
        /\ s9' = NoLane
    BY <1>21, Zenon DEF Ig!VerifyRecovery
  <2>3. s7 = Ig!NoRun /\ s1.merging = NoLane
    BY <1>21, Zenon DEF Ig!VerifyRecovery
  <2>4. /\ Ig!BaseShape' /\ Ig!WorkShape' /\ Ig!RunShape'
        /\ Ig!DecisionsArePast' /\ Ig!SourcesAreReported' /\ Ig!MergedIsContained'
    BY <1>1, <2>1, Zenon DEF Ig!BaseShape, Ig!WorkShape, Ig!Executions, Ig!RunShape,
       Ig!Merging, Ig!Verifying, Ig!NoRun, Ig!DecisionsArePast, Ig!Review,
       Ig!SourcesAreReported, Ig!MergedIsContained, Ig!Contained
  <2>5. Ig!RecordShape'
    BY <1>1, <2>1, <2>2, <2>3 DEF Ig!RecordShape, Ig!Records, Ig!NoRecord
  <2>6. Ig!OthersShape'
    BY <1>1, <2>1, <2>2 DEF Ig!OthersShape, Ig!NoCandidate
  <2>7. Ig!MergesAreRecorded'
    BY <1>1, <2>1, <2>2, <2>3 DEF Ig!MergesAreRecorded, Ig!NoRecord
  <2>8. Ig!OwedIsRecorded'
    BY <1>1, <2>1, <2>2, <2>3 DEF Ig!OwedIsRecorded, Ig!Covers, Ig!NoRecord
  <2>9. Ig!RecordsArePast'
    BY <1>1, <2>1, <2>2, <2>3 DEF Ig!RecordsArePast, Ig!NoRecord
  <2>10. Ig!RunsOwnTheRecord'
    BY <2>1, <2>3 DEF Ig!RunsOwnTheRecord, Ig!NoRun
  <2>11. Ig!HeldCovers'
    BY <2>1, <2>3 DEF Ig!HeldCovers, Ig!NoRun
  <2>12. Ig!AdmittedHolds'
    BY <2>1, <2>3 DEF Ig!AdmittedHolds, Ig!NoRun
  <2>13. Ig!CompletedIsVerified'
    BY <1>1, <2>1, <2>2, <2>3 DEF Ig!CompletedIsVerified, Ig!NoRun
  <2>14. Ig!NobodyBuildsOnUnverifiedWorkStep
    BY <1>1, <2>1, <2>2, <2>3 DEF Ig!NobodyBuildsOnUnverifiedWorkStep, Ig!NoRun
  <2>15. Ig!CompletedWorkIsVerifiedStep
    BY <1>1, <2>1, <2>2, <2>3 DEF Ig!CompletedWorkIsVerifiedStep, Ig!NoRun
  <2>16. Ig!ApprovalsAnswerThisWorkStep
    BY <1>1, <2>1, <2>2, <2>3 DEF Ig!ApprovalsAnswerThisWorkStep, Ig!NoRun
  <2> QED
    BY <2>4, <2>5, <2>6, <2>7, <2>8, <2>9, <2>10, <2>11, <2>12, <2>13, <2>14, <2>15, <2>16
       DEF Ig!IntegrationsInv
<1>22. ASSUME Ig!DropCandidate
      PROVE  /\ Ig!IntegrationsInv'
             /\ Ig!NobodyBuildsOnUnverifiedWorkStep
             /\ Ig!CompletedWorkIsVerifiedStep
             /\ Ig!ApprovalsAnswerThisWorkStep
  <2>1. /\ s1' = s1 /\ s2' = s2 /\ s3' = s3 /\ s4' = s4 /\ s5' = s5 /\ s6' = s6
        /\ s7' = s7 /\ s9' = s9 /\ s10' = s10
    BY <1>22, Zenon DEF Ig!DropCandidate, Ig!inGhosts
  <2>2. s8' = Ig!NoCandidate
    BY <1>22, Zenon DEF Ig!DropCandidate, Ig!inGhosts
  <2>3. /\ Ig!BaseShape' /\ Ig!WorkShape' /\ Ig!RecordShape'
        /\ Ig!RunShape' /\ Ig!DecisionsArePast' /\ Ig!SourcesAreReported'
    BY <1>1, <2>1, Zenon DEF Ig!BaseShape, Ig!WorkShape, Ig!Executions, Ig!RecordShape,
       Ig!Records, Ig!NoRecord, Ig!RunShape, Ig!Merging, Ig!Verifying, Ig!NoRun,
       Ig!DecisionsArePast, Ig!Review, Ig!SourcesAreReported
  <2>4. /\ Ig!MergesAreRecorded' /\ Ig!OwedIsRecorded' /\ Ig!RecordsArePast'
        /\ Ig!RunsOwnTheRecord' /\ Ig!HeldCovers' /\ Ig!AdmittedHolds'
    BY <1>1, <2>1, Zenon DEF Ig!MergesAreRecorded, Ig!NoRecord, Ig!OwedIsRecorded,
       Ig!Covers, Ig!RecordsArePast, Ig!RunsOwnTheRecord, Ig!NoRun, Ig!HeldCovers,
       Ig!AdmittedHolds
  <2>5. Ig!MergedIsContained' /\ Ig!CompletedIsVerified'
    BY <1>1, <2>1, Zenon DEF Ig!MergedIsContained, Ig!Contained, Ig!NoRun,
       Ig!CompletedIsVerified
  <2>6. Ig!OthersShape'
    BY <1>1, <2>1, <2>2 DEF Ig!OthersShape
  <2>7. Ig!NobodyBuildsOnUnverifiedWorkStep
    BY <1>1, <2>1, <2>2 DEF Ig!NobodyBuildsOnUnverifiedWorkStep, Ig!NoRun
  <2>8. Ig!CompletedWorkIsVerifiedStep
    BY <1>1, <2>1, <2>2 DEF Ig!CompletedWorkIsVerifiedStep, Ig!NoRun
  <2>9. Ig!ApprovalsAnswerThisWorkStep
    BY <1>1, <2>1, <2>2 DEF Ig!ApprovalsAnswerThisWorkStep, Ig!NoRun
  <2> QED
    BY <2>3, <2>4, <2>5, <2>6, <2>7, <2>8, <2>9 DEF Ig!IntegrationsInv
<1>23. ASSUME NEW good \in BOOLEAN, Ig!ContinueMerge(good)
      PROVE  /\ Ig!IntegrationsInv'
             /\ Ig!NobodyBuildsOnUnverifiedWorkStep
             /\ Ig!CompletedWorkIsVerifiedStep
             /\ Ig!ApprovalsAnswerThisWorkStep
  <2>1. /\ s2' = s2 /\ s3' = s3 /\ s4' = s4 /\ s5' = s5 /\ s6' = s6 /\ s7' = s7
        /\ s8' = s8 /\ s10' = s10
    BY <1>23, Zenon DEF Ig!ContinueMerge
  <2>2. /\ s1' = [at |-> s1.at + 1, work |-> s1.work \cup {<<s1.merging, s1.src>>}, good |-> good,
                merging |-> NoLane, src |-> 0]
        /\ s9' = s1.merging
    BY <1>23, Zenon DEF Ig!ContinueMerge
  <2>3. s1.merging # NoLane /\ s1.at < MaxBase
    BY <1>23, Zenon DEF Ig!ContinueMerge
  <2>4. s1.src # 0 /\ s6 # Ig!NoRecord /\ s6 \in Ig!Records /\ s6.lane = s1.merging
    BY <1>1, <2>3 DEF Ig!MergesAreRecorded, Ig!RecordShape
  <2>5. s9 # NoLane => s9 = s1.merging
    BY <1>1, <2>4 DEF Ig!OwedIsRecorded, Ig!Covers
  <2>6. s7.step \in {"idle", "admitted"}
    BY <1>1, <2>3 DEF Ig!RunsOwnTheRecord
  <2>7. s7.step = "admitted" => s6 = s7.held
    BY <1>1 DEF Ig!AdmittedHolds
  <2>8. s1'.at = s1.at + 1 /\ s1'.merging = NoLane /\ s1'.work = s1.work \cup {<<s1.merging, s1.src>>}
    BY <2>2
  <2>9. /\ Ig!WorkShape' /\ Ig!RecordShape' /\ Ig!RunShape'
        /\ Ig!DecisionsArePast' /\ Ig!SourcesAreReported' /\ Ig!AdmittedHolds'
    BY <1>1, <2>1, Zenon DEF Ig!WorkShape, Ig!Executions, Ig!RecordShape, Ig!Records,
       Ig!NoRecord, Ig!RunShape, Ig!Merging, Ig!Verifying, Ig!NoRun, Ig!DecisionsArePast,
       Ig!Review, Ig!SourcesAreReported, Ig!AdmittedHolds
  <2>10. Ig!BaseShape'
    BY <1>1, <2>2, <2>3, <2>4 DEF Ig!BaseShape
  <2>11. Ig!OthersShape'
    BY <1>1, <2>1, <2>2 DEF Ig!OthersShape, Ig!NoCandidate, Ig!BaseShape
  <2>12. Ig!MergesAreRecorded'
    BY <2>8 DEF Ig!MergesAreRecorded
  <2>13. Ig!OwedIsRecorded'
    BY <1>1, <2>1, <2>2, <2>8, <2>4 DEF Ig!OwedIsRecorded, Ig!Covers, Ig!RecordsArePast,
       Ig!BaseShape, Ig!Records
  <2>14. Ig!RecordsArePast'
    BY <1>1, <2>1, <2>8, <2>4 DEF Ig!RecordsArePast, Ig!BaseShape, Ig!Records
  <2>15. Ig!RunsOwnTheRecord'
    BY <2>1, <2>6 DEF Ig!RunsOwnTheRecord
  <2>16. Ig!HeldCovers'
    BY <1>1, <2>1, <2>2, <2>8, <2>4, <2>6, <2>7 DEF Ig!HeldCovers, Ig!Covers,
       Ig!RecordsArePast, Ig!BaseShape, Ig!Records
  <2>17. Ig!MergedIsContained'
    BY <2>1, <2>6 DEF Ig!MergedIsContained
  <2>18. Ig!CompletedIsVerified'
    BY <2>1, <2>6 DEF Ig!CompletedIsVerified
  <2>19. Ig!NobodyBuildsOnUnverifiedWorkStep
    BY <2>8, <2>5 DEF Ig!NobodyBuildsOnUnverifiedWorkStep
  <2>20. Ig!CompletedWorkIsVerifiedStep
    BY <1>1, <2>1, <2>2, <2>3, <2>4, <2>5, <2>6, <2>7, <2>8 DEF
       Ig!CompletedWorkIsVerifiedStep, Ig!NoRun
  <2>21. Ig!ApprovalsAnswerThisWorkStep
    BY <1>1, <2>1, <2>2, <2>3, <2>4, <2>5, <2>6, <2>7, <2>8 DEF
       Ig!ApprovalsAnswerThisWorkStep, Ig!NoRun
  <2> QED
    BY <2>9, <2>10, <2>11, <2>12, <2>13, <2>14, <2>15, <2>16, <2>17, <2>18, <2>19, <2>20,
       <2>21 DEF Ig!IntegrationsInv
<1>24. ASSUME NEW good \in BOOLEAN, Ig!HandCommit(good)
      PROVE  /\ Ig!IntegrationsInv'
             /\ Ig!NobodyBuildsOnUnverifiedWorkStep
             /\ Ig!CompletedWorkIsVerifiedStep
             /\ Ig!ApprovalsAnswerThisWorkStep
  <2>1. /\ s2' = s2 /\ s3' = s3 /\ s4' = s4 /\ s5' = s5 /\ s6' = s6 /\ s7' = s7
        /\ s8' = s8 /\ s9' = s9 /\ s10' = s10
    BY <1>24, Zenon DEF Ig!HandCommit, Ig!inGhosts
  <2>2. s1' = [s1 EXCEPT !.at = @ + 1, !.good = good]
    BY <1>24, Zenon DEF Ig!HandCommit, Ig!inGhosts
  <2>3. s1.merging = NoLane /\ s1.at < MaxBase
    BY <1>24, Zenon DEF Ig!HandCommit
  <2>4. s1' = [at |-> s1.at + 1, work |-> s1.work, good |-> good, merging |-> s1.merging,
                src |-> s1.src]
    BY <1>1, <2>2 DEF Ig!BaseShape
  <2>5. s1'.at = s1.at + 1 /\ s1'.work = s1.work /\ s1'.merging = s1.merging
    BY <2>4
  <2>6. s1.at \in Nat /\ (s6 # Ig!NoRecord => s6 \in Ig!Records)
    BY <1>1 DEF Ig!BaseShape, Ig!RecordShape
  <2>7. /\ Ig!WorkShape' /\ Ig!RecordShape' /\ Ig!RunShape'
        /\ Ig!OthersShape' /\ Ig!DecisionsArePast' /\ Ig!SourcesAreReported'
    BY <1>1, <2>1, Zenon DEF Ig!WorkShape, Ig!Executions, Ig!RecordShape, Ig!Records,
       Ig!NoRecord, Ig!RunShape, Ig!Merging, Ig!Verifying, Ig!NoRun, Ig!OthersShape,
       Ig!NoCandidate, Ig!DecisionsArePast, Ig!Review, Ig!SourcesAreReported
  <2>8. Ig!AdmittedHolds' /\ Ig!CompletedIsVerified'
    BY <1>1, <2>1, Zenon DEF Ig!AdmittedHolds, Ig!NoRun, Ig!CompletedIsVerified
  <2>9. Ig!BaseShape'
    BY <1>1, <2>4, <2>3 DEF Ig!BaseShape
  <2>10. Ig!MergesAreRecorded'
    BY <2>5, <2>3 DEF Ig!MergesAreRecorded
  <2>11. Ig!OwedIsRecorded'
    BY <1>1, <2>1, <2>5, <2>6 DEF Ig!OwedIsRecorded, Ig!Covers, Ig!Records
  <2>12. Ig!RecordsArePast'
    BY <1>1, <2>1, <2>5, <2>6 DEF Ig!RecordsArePast, Ig!Records
  <2>13. Ig!RunsOwnTheRecord'
    BY <1>1, <2>1, <2>2, <2>3, <2>4, <2>5, <2>6 DEF Ig!RunsOwnTheRecord, Ig!NoRun
  <2>14. Ig!HeldCovers'
    BY <1>1, <2>1, <2>5, <2>6 DEF Ig!HeldCovers, Ig!Covers, Ig!RunShape, Ig!Merging,
       Ig!Verifying, Ig!NoRun, Ig!Records
  <2>15. Ig!MergedIsContained'
    BY <1>1, <2>1, <2>2, <2>3, <2>4, <2>5, <2>6 DEF Ig!MergedIsContained, Ig!Contained, Ig!NoRun
  <2>16. Ig!NobodyBuildsOnUnverifiedWorkStep
    BY <1>1, <2>1, <2>2, <2>3, <2>4, <2>5, <2>6 DEF Ig!NobodyBuildsOnUnverifiedWorkStep,
       Ig!NoRun
  <2>17. Ig!CompletedWorkIsVerifiedStep
    BY <1>1, <2>1, <2>2, <2>3, <2>4, <2>5, <2>6 DEF Ig!CompletedWorkIsVerifiedStep, Ig!NoRun
  <2>18. Ig!ApprovalsAnswerThisWorkStep
    BY <1>1, <2>1, <2>2, <2>3, <2>4, <2>5, <2>6 DEF Ig!ApprovalsAnswerThisWorkStep, Ig!NoRun
  <2> QED
    BY <2>7, <2>8, <2>9, <2>10, <2>11, <2>12, <2>13, <2>14, <2>15, <2>16, <2>17, <2>18 DEF
       Ig!IntegrationsInv
<1>25. ASSUME NEW l \in MergeLanes, Ig!VerifyCandidate(l)
      PROVE  /\ Ig!IntegrationsInv'
             /\ Ig!NobodyBuildsOnUnverifiedWorkStep
             /\ Ig!CompletedWorkIsVerifiedStep
             /\ Ig!ApprovalsAnswerThisWorkStep
  <2>1. /\ s1' = s1 /\ s2' = s2 /\ s3' = s3 /\ s4' = s4 /\ s5' = s5 /\ s6' = s6
        /\ s7' = s7 /\ s9' = s9 /\ s10' = s10
    BY <1>25, Zenon DEF Ig!VerifyCandidate, Ig!inGhosts
  <2>2. s8' = [lane |-> l, gen |-> s3[l].gen, src |-> s3[l].src, target |-> s1.at]
    BY <1>25, Zenon DEF Ig!VerifyCandidate, Ig!inGhosts
  <2>3. /\ Ig!BaseShape' /\ Ig!WorkShape' /\ Ig!RecordShape'
        /\ Ig!RunShape' /\ Ig!DecisionsArePast' /\ Ig!SourcesAreReported'
    BY <1>1, <2>1, Zenon DEF Ig!BaseShape, Ig!WorkShape, Ig!Executions, Ig!RecordShape,
       Ig!Records, Ig!NoRecord, Ig!RunShape, Ig!Merging, Ig!Verifying, Ig!NoRun,
       Ig!DecisionsArePast, Ig!Review, Ig!SourcesAreReported
  <2>4. /\ Ig!MergesAreRecorded' /\ Ig!OwedIsRecorded' /\ Ig!RecordsArePast'
        /\ Ig!RunsOwnTheRecord' /\ Ig!HeldCovers' /\ Ig!AdmittedHolds'
    BY <1>1, <2>1, Zenon DEF Ig!MergesAreRecorded, Ig!NoRecord, Ig!OwedIsRecorded,
       Ig!Covers, Ig!RecordsArePast, Ig!RunsOwnTheRecord, Ig!NoRun, Ig!HeldCovers,
       Ig!AdmittedHolds
  <2>5. Ig!MergedIsContained' /\ Ig!CompletedIsVerified'
    BY <1>1, <2>1, Zenon DEF Ig!MergedIsContained, Ig!Contained, Ig!NoRun,
       Ig!CompletedIsVerified
  <2>6. Ig!OthersShape'
    BY <1>1, <2>1, <2>2 DEF Ig!OthersShape
  <2>7. Ig!NobodyBuildsOnUnverifiedWorkStep
    BY <1>1, <2>1, <2>2 DEF Ig!NobodyBuildsOnUnverifiedWorkStep, Ig!NoRun
  <2>8. Ig!CompletedWorkIsVerifiedStep
    BY <1>1, <2>1, <2>2 DEF Ig!CompletedWorkIsVerifiedStep, Ig!NoRun
  <2>9. Ig!ApprovalsAnswerThisWorkStep
    BY <1>1, <2>1, <2>2 DEF Ig!ApprovalsAnswerThisWorkStep, Ig!NoRun
  <2> QED
    BY <2>3, <2>4, <2>5, <2>6, <2>7, <2>8, <2>9 DEF Ig!IntegrationsInv
<1>26. ASSUME NEW l \in MergeLanes, NEW auto \in BOOLEAN, NEW renew \in BOOLEAN, Ig!Admit(l, auto, renew), renew => Ig!Standing # Ig!NoRecord
      PROVE  /\ Ig!IntegrationsInv'
             /\ Ig!NobodyBuildsOnUnverifiedWorkStep
             /\ Ig!CompletedWorkIsVerifiedStep
             /\ Ig!ApprovalsAnswerThisWorkStep
  <2>1. /\ s1' = s1 /\ s2' = s2 /\ s3' = s3 /\ s4' = s4 /\ s5' = s5 /\ s8' = s8
        /\ s9' = s9 /\ s10' = s10
    BY <1>26, Zenon DEF Ig!Admit, Ig!inGhosts
  <2>2. PICK h : h = IF renew THEN Ig!Renewed(Ig!Standing) ELSE Ig!Standing
    OBVIOUS
  <2>3. Ig!Admits(l, h) /\ Ig!Review(l)
    BY <1>26, <2>2, Zenon DEF Ig!Admit
  <2>4. h # Ig!NoRecord => Ig!MayRepair(l, h)
    BY <1>26, <2>2, Zenon DEF Ig!Admit
  <2>5. /\ s6' = h /\ s7 = Ig!NoRun
        /\ s7' = [step |-> "admitted", lane |-> l, held |-> h, at |-> s1.at, gen |-> s3[l].gen,
                  src |-> s3[l].src, verified |-> auto /\ h = Ig!NoRecord]
    BY <1>26, <2>2, Zenon DEF Ig!Admit
  <2>6. Ig!Standing = Ig!NoRecord \/ Ig!Standing = s6
    BY DEF Ig!Standing
  <2>7. Ig!Standing = Ig!NoRecord \/ (Ig!Standing = s6 /\ s6 # Ig!NoRecord)
    BY <2>6
  <2>8. (s1.merging # NoLane \/ s9 # NoLane) => Ig!Standing = s6 /\ s6 # Ig!NoRecord
    BY <1>1 DEF Ig!Standing, Ig!Holds, Ig!MergesAreRecorded, Ig!OwedIsRecorded, Ig!Covers,
       Ig!BaseShape, Ig!RecordShape, Ig!Records
  <2>9. Ig!Standing # Ig!NoRecord => /\ h \in Ig!Records /\ h # Ig!NoRecord
            /\ h.lane = s6.lane /\ h.base = s6.base /\ h.attempt <= h.limit
    BY <1>1, <2>2, <2>7, <1>26 DEF Ig!Renewed, Ig!RecordShape, Ig!Records, Ig!NoRecord,
       Ig!RecordsArePast
  <2>10. Ig!Standing = Ig!NoRecord => h = Ig!NoRecord
    BY <2>2, <1>26
  <2>11. h # Ig!NoRecord => h.lane = l /\ h.attempt < h.limit
    BY <2>4, <2>9, <2>10 DEF Ig!MayRepair, Ig!RecordOwner, Ig!Exhausted, Ig!Records
  <2>12. s3[l].src # 0 /\ s3[l] \in Ig!Executions
    BY <1>1, <2>3 DEF Ig!Admits, Ig!SourcesAreReported, Ig!WorkShape
  <2>13. /\ Ig!BaseShape' /\ Ig!WorkShape' /\ Ig!OthersShape'
         /\ Ig!DecisionsArePast' /\ Ig!SourcesAreReported'
    BY <1>1, <2>1, Zenon DEF Ig!BaseShape, Ig!WorkShape, Ig!Executions, Ig!OthersShape,
       Ig!NoCandidate, Ig!DecisionsArePast, Ig!Review, Ig!SourcesAreReported
  <2>14. Ig!RecordShape'
    BY <2>5, <2>9, <2>10 DEF Ig!RecordShape
  <2>15. Ig!RunShape'
    BY <1>1, <2>5, <2>9, <2>10, <2>12 DEF Ig!RunShape, Ig!Merging, Ig!Executions, Ig!BaseShape
  <2>16. Ig!MergesAreRecorded'
    BY <1>1, <2>1, <2>5, <2>8, <2>9 DEF Ig!MergesAreRecorded
  <2>17. Ig!OwedIsRecorded'
    BY <1>1, <2>1, <2>5, <2>8, <2>9 DEF Ig!OwedIsRecorded, Ig!Covers
  <2>18. Ig!RecordsArePast'
    BY <1>1, <2>1, <2>5, <2>7, <2>9, <2>10 DEF Ig!RecordsArePast
  <2>19. Ig!RunsOwnTheRecord'
    BY <2>5 DEF Ig!RunsOwnTheRecord
  <2>20. Ig!HeldCovers'
    BY <1>1, <2>1, <2>5, <2>7, <2>8, <2>9, <2>10, <2>11 DEF Ig!HeldCovers, Ig!Covers,
       Ig!OwedIsRecorded, Ig!RecordsArePast
  <2>21. Ig!AdmittedHolds'
    BY <2>5 DEF Ig!AdmittedHolds
  <2>22. Ig!MergedIsContained'
    BY <2>5 DEF Ig!MergedIsContained
  <2>23. Ig!CompletedIsVerified'
    BY <2>5 DEF Ig!CompletedIsVerified
  <2>24. Ig!NobodyBuildsOnUnverifiedWorkStep
    BY <1>1, <2>1, <2>2, <2>3, <2>4, <2>5, <2>6, <2>7, <2>8, <2>9, <2>10, <2>11, <2>12 DEF
       Ig!NobodyBuildsOnUnverifiedWorkStep, Ig!NoRun
  <2>25. Ig!CompletedWorkIsVerifiedStep
    BY <1>1, <2>1, <2>2, <2>3, <2>4, <2>5, <2>6, <2>7, <2>8, <2>9, <2>10, <2>11, <2>12 DEF
       Ig!CompletedWorkIsVerifiedStep, Ig!NoRun
  <2>26. Ig!ApprovalsAnswerThisWorkStep
    BY <1>1, <2>3, <2>5 DEF Ig!ApprovalsAnswerThisWorkStep, Ig!DecisionsArePast
  <2> QED
    BY <2>13, <2>14, <2>15, <2>16, <2>17, <2>18, <2>19, <2>20, <2>21, <2>22, <2>23, <2>24,
       <2>25, <2>26 DEF Ig!IntegrationsInv
<1>27. ASSUME NEW l \in MergeLanes, Ig!OperatorMerge(l) \/ Ig!RenewRecovery(l)
      PROVE  /\ Ig!IntegrationsInv'
             /\ Ig!NobodyBuildsOnUnverifiedWorkStep
             /\ Ig!CompletedWorkIsVerifiedStep
             /\ Ig!ApprovalsAnswerThisWorkStep
  BY <1>26, <1>27, Zenon DEF Ig!OperatorMerge, Ig!RenewRecovery
<1>28. ASSUME Ig!UnattendedMerge
      PROVE  /\ Ig!IntegrationsInv'
             /\ Ig!NobodyBuildsOnUnverifiedWorkStep
             /\ Ig!CompletedWorkIsVerifiedStep
             /\ Ig!ApprovalsAnswerThisWorkStep
  <2>1. s8.lane \in MergeLanes
    BY <1>1, <1>28 DEF Ig!OthersShape, Ig!UnattendedMerge
  <2>2. Ig!Admit(s8.lane, TRUE, FALSE)
    BY <1>28, Zenon DEF Ig!UnattendedMerge
  <2> QED
    BY <1>26, <2>1, <2>2, Zenon
<1> QED
  BY <1>2, <1>3, <1>4, <1>5, <1>6, <1>7, <1>8, <1>9, <1>10, <1>11, <1>12, <1>13, <1>14, <1>15,
     <1>16, <1>17, <1>18, <1>19, <1>20, <1>21, <1>22, <1>23, <1>24, <1>25, <1>27, <1>28, Zenon DEF
     Ig!IntegrationsNext, Ig!LaneSteps, Ig!RunSteps, Ig!HandSteps

(* Where nothing happens nothing changes.                                    *)
LEMMA IntegrationsStay ==
  ASSUME Ig!IntegrationsInv, UNCHANGED Ig!inVars
  PROVE  /\ Ig!IntegrationsInv'
         /\ Ig!NobodyBuildsOnUnverifiedWorkStep
         /\ Ig!CompletedWorkIsVerifiedStep
         /\ Ig!ApprovalsAnswerThisWorkStep
<1>1. /\ Ig!BaseShape
      /\ Ig!WorkShape
      /\ Ig!RecordShape
      /\ Ig!RunShape
      /\ Ig!OthersShape
      /\ Ig!DecisionsArePast
      /\ Ig!SourcesAreReported
      /\ Ig!MergesAreRecorded
      /\ Ig!OwedIsRecorded
      /\ Ig!RecordsArePast
      /\ Ig!RunsOwnTheRecord
      /\ Ig!HeldCovers
      /\ Ig!AdmittedHolds
      /\ Ig!MergedIsContained
      /\ Ig!CompletedIsVerified
  BY DEF Ig!IntegrationsInv
<1>2. /\ s1' = s1 /\ s2' = s2 /\ s3' = s3 /\ s4' = s4 /\ s5' = s5 /\ s6' = s6
      /\ s7' = s7 /\ s8' = s8 /\ s9' = s9 /\ s10' = s10
  BY DEF Ig!inVars
<1>3. /\ Ig!BaseShape' /\ Ig!WorkShape' /\ Ig!RecordShape'
      /\ Ig!RunShape' /\ Ig!OthersShape' /\ Ig!DecisionsArePast'
  BY <1>1, <1>2, Zenon DEF Ig!BaseShape, Ig!WorkShape, Ig!Executions, Ig!RecordShape,
     Ig!Records, Ig!NoRecord, Ig!RunShape, Ig!Merging, Ig!Verifying, Ig!NoRun, Ig!OthersShape,
     Ig!NoCandidate, Ig!DecisionsArePast, Ig!Review
<1>4. /\ Ig!SourcesAreReported' /\ Ig!MergesAreRecorded' /\ Ig!OwedIsRecorded'
      /\ Ig!RecordsArePast' /\ Ig!RunsOwnTheRecord' /\ Ig!HeldCovers'
  BY <1>1, <1>2, Zenon DEF Ig!SourcesAreReported, Ig!MergesAreRecorded, Ig!NoRecord,
     Ig!OwedIsRecorded, Ig!Covers, Ig!RecordsArePast, Ig!RunsOwnTheRecord, Ig!NoRun,
     Ig!HeldCovers
<1>5. Ig!AdmittedHolds' /\ Ig!MergedIsContained' /\ Ig!CompletedIsVerified'
  BY <1>1, <1>2, Zenon DEF Ig!AdmittedHolds, Ig!NoRun, Ig!MergedIsContained, Ig!Contained,
     Ig!CompletedIsVerified
<1>6. Ig!NobodyBuildsOnUnverifiedWorkStep
  BY <1>1, <1>2 DEF Ig!NobodyBuildsOnUnverifiedWorkStep, Ig!NoRun
<1>7. Ig!CompletedWorkIsVerifiedStep
  BY <1>1, <1>2 DEF Ig!CompletedWorkIsVerifiedStep, Ig!NoRun
<1>8. Ig!ApprovalsAnswerThisWorkStep
  BY <1>1, <1>2 DEF Ig!ApprovalsAnswerThisWorkStep, Ig!NoRun
<1> QED
  BY <1>3, <1>4, <1>5, <1>6, <1>7, <1>8 DEF Ig!IntegrationsInv

(* The invariant says what the run asks of integrations.                     *)
LEMMA IntegrationsSaySo ==
  Ig!IntegrationsInv =>
    /\ Ig!IntegrationsTypeOK
    /\ Ig!AttemptsAreCounted /\ Ig!UnverifiedBaseIsRecorded
<1> SUFFICES ASSUME Ig!IntegrationsInv
             PROVE  /\ Ig!IntegrationsTypeOK
                    /\ Ig!AttemptsAreCounted /\ Ig!UnverifiedBaseIsRecorded
  OBVIOUS
<1> USE IntegrationAssumption
<1>1. /\ Ig!BaseShape /\ Ig!WorkShape /\ Ig!RecordShape /\ Ig!RunShape /\ Ig!OthersShape
      /\ Ig!SourcesAreReported /\ Ig!OwedIsRecorded /\ Ig!RecordsArePast
  BY Zenon DEF Ig!IntegrationsInv
<1>2. s1.at \in 0..MaxBase /\ s1.work \subseteq (MergeLanes \X (1..MaxRev))
  BY <1>1 DEF Ig!BaseShape
<1>3. ASSUME NEW l \in MergeLanes
      PROVE  /\ s2[l] \in 0..MaxRev /\ s4[l] \in 0..MaxRev
             /\ s3[l].state \in {"working", "ready", "recovery", "complete"}
  <2>1. s2[l] \in 1..MaxRev /\ s4[l] \in 0..MaxRev
    BY <1>1 DEF Ig!OthersShape
  <2>2. s3[l] \in Ig!Executions
    BY <1>1 DEF Ig!WorkShape
  <2>3. s3[l].state \in {"working", "ready", "recovery", "complete"}
    BY <2>2 DEF Ig!Executions
  <2> QED
    BY <2>1, <2>3
<1>4. s6 = Ig!NoRecord \/ s6.kind \in Ig!Kinds
  BY <1>1 DEF Ig!RecordShape, Ig!Records
<1>5. s7.step \in {"idle", "admitted", "begun", "merged", "gated", "completed"}
  BY <1>1 DEF Ig!RunShape, Ig!NoRun, Ig!Merging, Ig!Verifying
<1>6. Ig!IntegrationsTypeOK
  BY <1>2, <1>3, <1>4, <1>5, Zenon DEF Ig!IntegrationsTypeOK
<1>7. Ig!AttemptsAreCounted
  BY <1>1 DEF Ig!AttemptsAreCounted, Ig!RecordsArePast, Ig!SourcesAreReported
<1>8. Ig!UnverifiedBaseIsRecorded
  BY <1>1, Zenon DEF Ig!UnverifiedBaseIsRecorded, Ig!OwedIsRecorded, Ig!Covers
<1> QED
  BY <1>6, <1>7, <1>8

(* An order names each lane once.                                          *)
LEMMA OrderedLanes ==
  ASSUME NEW S \in SUBSET Mergers, NEW s \in Bm!Orders(S)
  PROVE  /\ s \in Seq(S) /\ Len(s) \in Nat /\ DOMAIN s = 1..Len(s)
         /\ \A m \in S : \E i \in 1..Len(s) : s[i] = m
<1> USE IntegrationAssumption
<1>1. IsFiniteSet(S) /\ Cardinality(S) \in Nat
  BY FS_Subset, FS_CardinalityType
<1>2. s \in Bm!SetToSeqs(S)
  BY DEF Bm!Orders
<1>3. Bm!Cardinality(S) = Cardinality(S)
  BY DEF Bm!Cardinality, Cardinality
<1>4. s \in [1..Cardinality(S) -> S] /\ \A i, j \in 1..Cardinality(S) : i # j => s[i] # s[j]
  BY <1>2, <1>3, Zenon DEF Bm!SetToSeqs
<1>5. s \in Seq(S) /\ Len(s) = Cardinality(S)
  BY <1>1, <1>4
<1>6. ASSUME NEW m \in S, \A i \in 1..Len(s) : s[i] # m PROVE FALSE
  <2>1. PICK n, T, D : n \in Nat /\ n = Cardinality(S) /\ T = S \ {m} /\ D = 1..n
    BY <1>1
  <2>2. IsFiniteSet(T) /\ Cardinality(T) = n - 1
    BY <1>1, <2>1, FS_RemoveElement
  <2>3. IsFiniteSet(D) /\ Cardinality(D) = n
    BY <2>1, FS_Interval
  <2>4. s \in [D -> T]
    BY <1>4, <1>5, <1>6, <2>1
  <2>5. Cardinality(T) < Cardinality(D)
    BY <2>1, <2>2, <2>3
  <2>6. \E i, j \in D : i # j /\ s[i] = s[j]
    BY <2>2, <2>3, <2>4, <2>5, FS_PigeonHole
  <2> QED
    BY <1>4, <2>1, <2>6
<1> QED
  BY <1>1, <1>4, <1>5, <1>6

(* Planning, confirming, merging in order and stopping keep the sequence, the
   lanes merged so far and what was predicted of them together. *)
LEMMA BulkStep ==
  ASSUME Bm!BulkInv, Bm!BulkNext
  PROVE  Bm!BulkInv'
<1> USE IntegrationAssumption
<1>1. /\ Bm!BulkShape
      /\ Bm!LanesShape
      /\ Bm!ExecutionShape
      /\ Bm!OthersShape
      /\ Bm!PrerequisitesMergeFirst
      /\ Bm!WaitsEndInCompletion
      /\ Bm!SequenceWasConfirmed
      /\ Bm!MergedArePrefix
      /\ Bm!RecoveryRunsAlone
      /\ Bm!CleanAhead
      /\ Bm!PredictedRunsMergeCleanly
  BY DEF Bm!BulkInv
<1>2. ASSUME NEW l \in Mergers, Bm!LaneCommitsOn(l)
      PROVE  Bm!BulkInv'
  <2>1. /\ s1' = s1 /\ s2' = s2 /\ s3' = s3 /\ s4' = s4 /\ s6' = s6 /\ s7' = s7
        /\ s8' = s8 /\ s9' = s9 /\ s10' = s10 /\ s11' = s11 /\ s13' = s13
    BY <1>2, Zenon DEF Bm!LaneCommitsOn, Bm!Moves
  <2>2. s5' = [s5 EXCEPT ![l] = "later"]
    BY <1>2, Zenon DEF Bm!LaneCommitsOn, Bm!Moves
  <2>3. s14 < MaxMoves /\ s14' = s14 + 1
    BY <1>2, Zenon DEF Bm!LaneCommitsOn, Bm!Moves
  <2>4. s12' \in BOOLEAN /\ (s12 => s12')
    BY <1>1, <1>2 DEF Bm!LaneCommitsOn, Bm!OthersShape
  <2>5. Bm!BulkShape' /\ Bm!ExecutionShape'
    BY <1>1, <2>1, Zenon DEF Bm!BulkShape, Bm!BulkRuns, Bm!ExecutionShape
  <2>6. Bm!PrerequisitesMergeFirst' /\ Bm!WaitsEndInCompletion'
    BY <1>1, <2>1, Zenon DEF Bm!PrerequisitesMergeFirst, Bm!WaitsEndInCompletion
  <2>7. Bm!SequenceWasConfirmed' /\ Bm!MergedArePrefix'
    BY <1>1, <2>1, Zenon DEF Bm!SequenceWasConfirmed, Bm!MergedArePrefix
  <2>8. Bm!RecoveryRunsAlone' /\ Bm!CleanAhead'
    BY <1>1, <2>1, Zenon DEF Bm!RecoveryRunsAlone, Bm!CleanAhead
  <2>9. Bm!LanesShape'
    BY <1>1, <2>1, <2>2, <2>3, <2>4 DEF Bm!LanesShape
  <2>10. Bm!OthersShape'
    BY <1>1, <2>1, <2>3, <2>4 DEF Bm!OthersShape
  <2>11. Bm!PredictedRunsMergeCleanly'
    BY <1>1, <2>1, <2>4 DEF Bm!PredictedRunsMergeCleanly
  <2> QED
    BY <2>5, <2>6, <2>7, <2>8, <2>9, <2>10, <2>11 DEF Bm!BulkInv
<1>3. ASSUME NEW l \in Mergers, Bm!LaneReportsReady(l)
      PROVE  Bm!BulkInv'
  <2>1. /\ s1' = s1 /\ s2' = s2 /\ s4' = s4 /\ s6' = s6 /\ s7' = s7 /\ s8' = s8
        /\ s9' = s9 /\ s10' = s10 /\ s11' = s11 /\ s12' = s12 /\ s13' = s13
    BY <1>3, Zenon DEF Bm!LaneReportsReady, Bm!Moves
  <2>2. /\ s3' = [s3 EXCEPT ![l] = "ready"]
        /\ s5' = [s5 EXCEPT ![l] = "reported"]
    BY <1>3, Zenon DEF Bm!LaneReportsReady, Bm!Moves
  <2>3. s14 < MaxMoves /\ s14' = s14 + 1
    BY <1>3, Zenon DEF Bm!LaneReportsReady, Bm!Moves
  <2>4. s3[l] # "complete"
    BY <1>1, <1>3 DEF Bm!LaneReportsReady
  <2>5. \A n \in Mergers : s3'[n] = IF n = l THEN "ready" ELSE s3[n]
    BY <1>1, <2>2 DEF Bm!ExecutionShape
  <2>6. \A i \in s10.next..Len(s10.sequence) : s10.sequence[i] \in Mergers
    BY <1>1, LenProperties DEF Bm!BulkShape, Bm!BulkRuns
  <2>7. Bm!BulkShape' /\ Bm!SequenceWasConfirmed'
    BY <1>1, <2>1, Zenon DEF Bm!BulkShape, Bm!BulkRuns, Bm!SequenceWasConfirmed
  <2>8. Bm!MergedArePrefix' /\ Bm!CleanAhead'
    BY <1>1, <2>1, ZenonT(40) DEF Bm!MergedArePrefix, Bm!CleanAhead
  <2>9. Bm!PredictedRunsMergeCleanly'
    BY <1>1, <2>1, Zenon DEF Bm!PredictedRunsMergeCleanly
  <2>10. Bm!LanesShape'
    BY <1>1, <2>1, <2>2, <2>3, <2>4, <2>5, <2>6 DEF Bm!LanesShape
  <2>11. Bm!ExecutionShape'
    BY <1>1, <2>1, <2>2, <2>3, <2>4, <2>5, <2>6 DEF Bm!ExecutionShape
  <2>12. Bm!OthersShape'
    BY <1>1, <2>1, <2>3 DEF Bm!OthersShape
  <2>13. Bm!PrerequisitesMergeFirst'
    BY <1>1, <2>1, <2>4, <2>5 DEF Bm!PrerequisitesMergeFirst, Bm!LanesShape
  <2>14. Bm!WaitsEndInCompletion'
    BY <1>1, <2>1, <2>4, <2>5 DEF Bm!WaitsEndInCompletion, Bm!LanesShape
  <2>15. Bm!RecoveryRunsAlone'
    BY <1>1, <2>1, <2>5, <2>6 DEF Bm!RecoveryRunsAlone
  <2> QED
    BY <2>7, <2>8, <2>9, <2>10, <2>11, <2>12, <2>13, <2>14, <2>15 DEF Bm!BulkInv
<1>4. ASSUME NEW l \in Mergers, Bm!LaneResumes(l)
      PROVE  Bm!BulkInv'
  <2>1. /\ s1' = s1 /\ s2' = s2 /\ s4' = s4 /\ s5' = s5 /\ s6' = s6 /\ s7' = s7
        /\ s8' = s8 /\ s9' = s9 /\ s10' = s10 /\ s11' = s11 /\ s12' = s12 /\ s13' = s13
    BY <1>4, Zenon DEF Bm!LaneResumes, Bm!Moves
  <2>2. s3' = [s3 EXCEPT ![l] = "working"]
    BY <1>4, Zenon DEF Bm!LaneResumes, Bm!Moves
  <2>3. s14 < MaxMoves /\ s14' = s14 + 1
    BY <1>4, Zenon DEF Bm!LaneResumes, Bm!Moves
  <2>4. s3[l] # "complete"
    BY <1>1, <1>4 DEF Bm!LaneResumes
  <2>5. \A n \in Mergers : s3'[n] = IF n = l THEN "working" ELSE s3[n]
    BY <1>1, <2>2 DEF Bm!ExecutionShape
  <2>6. \A i \in s10.next..Len(s10.sequence) : s10.sequence[i] \in Mergers
    BY <1>1, LenProperties DEF Bm!BulkShape, Bm!BulkRuns
  <2>7. Bm!BulkShape' /\ Bm!LanesShape'
    BY <1>1, <2>1, Zenon DEF Bm!BulkShape, Bm!BulkRuns, Bm!LanesShape
  <2>8. Bm!SequenceWasConfirmed' /\ Bm!MergedArePrefix'
    BY <1>1, <2>1, Zenon DEF Bm!SequenceWasConfirmed, Bm!MergedArePrefix
  <2>9. Bm!CleanAhead' /\ Bm!PredictedRunsMergeCleanly'
    BY <1>1, <2>1, Zenon DEF Bm!CleanAhead, Bm!PredictedRunsMergeCleanly
  <2>10. Bm!ExecutionShape'
    BY <1>1, <2>1, <2>2, <2>3, <2>4, <2>5, <2>6 DEF Bm!ExecutionShape
  <2>11. Bm!OthersShape'
    BY <1>1, <2>1, <2>3 DEF Bm!OthersShape
  <2>12. Bm!PrerequisitesMergeFirst'
    BY <1>1, <2>1, <2>4, <2>5 DEF Bm!PrerequisitesMergeFirst, Bm!LanesShape
  <2>13. Bm!WaitsEndInCompletion'
    BY <1>1, <2>1, <2>4, <2>5 DEF Bm!WaitsEndInCompletion, Bm!LanesShape
  <2>14. Bm!RecoveryRunsAlone'
    BY <1>1, <2>1, <2>5, <2>6 DEF Bm!RecoveryRunsAlone
  <2> QED
    BY <2>7, <2>8, <2>9, <2>10, <2>11, <2>12, <2>13, <2>14 DEF Bm!BulkInv
<1>5. ASSUME NEW l \in Mergers, Bm!LaneReleases(l)
      PROVE  Bm!BulkInv'
  <2>1. /\ s1' = s1 /\ s2' = s2 /\ s5' = s5 /\ s6' = s6 /\ s7' = s7 /\ s8' = s8
        /\ s9' = s9 /\ s10' = s10 /\ s11' = s11 /\ s12' = s12 /\ s13' = s13
    BY <1>5, Zenon DEF Bm!LaneReleases, Bm!Moves
  <2>2. /\ s3' = [s3 EXCEPT ![l] = "working"]
        /\ s4' = [s4 EXCEPT ![l] = FALSE]
    BY <1>5, Zenon DEF Bm!LaneReleases, Bm!Moves
  <2>3. s14 < MaxMoves /\ s14' = s14 + 1
    BY <1>5, Zenon DEF Bm!LaneReleases, Bm!Moves
  <2>4. s3[l] # "complete"
    BY <1>1, <1>5 DEF Bm!LaneReleases
  <2>5. \A n \in Mergers : s3'[n] = IF n = l THEN "working" ELSE s3[n]
    BY <1>1, <2>2 DEF Bm!ExecutionShape
  <2>6. \A i \in s10.next..Len(s10.sequence) : s10.sequence[i] \in Mergers
    BY <1>1, LenProperties DEF Bm!BulkShape, Bm!BulkRuns
  <2>7. Bm!BulkShape' /\ Bm!SequenceWasConfirmed'
    BY <1>1, <2>1, Zenon DEF Bm!BulkShape, Bm!BulkRuns, Bm!SequenceWasConfirmed
  <2>8. Bm!MergedArePrefix' /\ Bm!CleanAhead'
    BY <1>1, <2>1, ZenonT(40) DEF Bm!MergedArePrefix, Bm!CleanAhead
  <2>9. Bm!PredictedRunsMergeCleanly'
    BY <1>1, <2>1, Zenon DEF Bm!PredictedRunsMergeCleanly
  <2>10. Bm!LanesShape'
    BY <1>1, <2>1, <2>2, <2>3, <2>4, <2>5, <2>6 DEF Bm!LanesShape
  <2>11. Bm!ExecutionShape'
    BY <1>1, <2>1, <2>2, <2>3, <2>4, <2>5, <2>6 DEF Bm!ExecutionShape
  <2>12. Bm!OthersShape'
    BY <1>1, <2>1, <2>3 DEF Bm!OthersShape
  <2>13. Bm!PrerequisitesMergeFirst'
    BY <1>1, <2>1, <2>4, <2>5 DEF Bm!PrerequisitesMergeFirst, Bm!LanesShape
  <2>14. Bm!WaitsEndInCompletion'
    BY <1>1, <2>1, <2>4, <2>5 DEF Bm!WaitsEndInCompletion, Bm!LanesShape
  <2>15. Bm!RecoveryRunsAlone'
    BY <1>1, <2>1, <2>5, <2>6 DEF Bm!RecoveryRunsAlone
  <2> QED
    BY <2>7, <2>8, <2>9, <2>10, <2>11, <2>12, <2>13, <2>14, <2>15 DEF Bm!BulkInv
<1>6. ASSUME NEW l \in Mergers, NEW k \in Mergers, Bm!Block(l, k)
      PROVE  Bm!BulkInv'
  <2>1. /\ s3' = s3 /\ s4' = s4 /\ s5' = s5 /\ s6' = s6 /\ s7' = s7 /\ s8' = s8
        /\ s9' = s9 /\ s10' = s10 /\ s11' = s11 /\ s12' = s12 /\ s13' = s13
    BY <1>6, Zenon DEF Bm!Block, Bm!Moves
  <2>2. /\ s1' = [s1 EXCEPT ![l] = @ \cup {k}]
        /\ s2' = [s2 EXCEPT ![l] = @ \cup {k}]
    BY <1>6, Zenon DEF Bm!Block, Bm!Moves
  <2>3. s14 < MaxMoves /\ s14' = s14 + 1
    BY <1>6, Zenon DEF Bm!Block, Bm!Moves
  <2>4. /\ s1 \in [Mergers -> SUBSET Mergers] /\ s2 \in [Mergers -> SUBSET Mergers] /\ s14 \in 0..MaxMoves
        /\ s3 \in [Mergers -> {"working", "ready", "recovery", "complete"}]
        /\ s4 \in [Mergers -> BOOLEAN] /\ s5 \in [Mergers -> {"reported", "later"}]
    BY <1>1 DEF Bm!LanesShape, Bm!ExecutionShape, Bm!OthersShape
  <2>5. l # k /\ s3[l] # "complete"
    BY <1>6, Zenon DEF Bm!Block
  <2>6. \A n \in Mergers : /\ s2'[n] = (IF n = l THEN s2[n] \cup {k} ELSE s2[n])
                             /\ s1'[n] = (IF n = l THEN s1[n] \cup {k} ELSE s1[n])
    BY <1>1, <2>2 DEF Bm!LanesShape
  <2>7. Bm!BulkShape' /\ Bm!ExecutionShape'
    BY <1>1, <2>1, Zenon DEF Bm!BulkShape, Bm!BulkRuns, Bm!ExecutionShape
  <2>8. Bm!SequenceWasConfirmed' /\ Bm!MergedArePrefix'
    BY <1>1, <2>1, Zenon DEF Bm!SequenceWasConfirmed, Bm!MergedArePrefix
  <2>9. Bm!RecoveryRunsAlone' /\ Bm!CleanAhead'
    BY <1>1, <2>1, Zenon DEF Bm!RecoveryRunsAlone, Bm!CleanAhead
  <2>10. Bm!PredictedRunsMergeCleanly'
    BY <1>1, <2>1, Zenon DEF Bm!PredictedRunsMergeCleanly
  <2>11. Bm!LanesShape'
    BY <1>1, <2>1, <2>2 DEF Bm!LanesShape
  <2>12. Bm!OthersShape'
    BY <1>1, <2>1, <2>3 DEF Bm!OthersShape
  <2>13. Bm!PrerequisitesMergeFirst'
    BY <1>1, <2>1, <2>5, <2>6 DEF Bm!PrerequisitesMergeFirst
  <2>14. Bm!WaitsEndInCompletion'
    <3> SUFFICES ASSUME NEW n \in Mergers, NEW j \in s2'[n]
                 PROVE  j # n /\ (j \in s1'[n] \/ s3'[j] = "complete")
      BY Zenon DEF Bm!WaitsEndInCompletion
    <3>1. CASE j \in s2[n]
      BY <1>1, <3>1, <2>1, <2>6 DEF Bm!WaitsEndInCompletion
    <3>2. CASE n = l /\ j = k
      BY <3>2, <2>5, <2>6
    <3> QED
      BY <3>1, <3>2, <2>6
  <2> QED
    BY <2>7, <2>8, <2>9, <2>10, <2>11, <2>12, <2>13, <2>14 DEF Bm!BulkInv
<1>7. ASSUME NEW g \in BOOLEAN, Bm!ShowPlan(g)
      PROVE  Bm!BulkInv'
  <2>1. /\ s1' = s1 /\ s2' = s2 /\ s3' = s3 /\ s4' = s4 /\ s5' = s5 /\ s6' = s6
        /\ s7' = s7 /\ s8' = s8 /\ s9' = s9 /\ s11' = s11 /\ s12' = s12 /\ s13' = s13
        /\ s14' = s14
    BY <1>7, Zenon DEF Bm!ShowPlan
  <2>2. s10' = [Bm!NoRunNow EXCEPT !.at = "planned", !.group = g, !.confirmed = Bm!Candidates(g)]
    BY <1>7, Zenon DEF Bm!ShowPlan
  <2>3. Bm!Candidates(g) \subseteq Mergers
    BY DEF Bm!Candidates, Bm!ReadyLanes
  <2>4. s10' = [at |-> "planned", group |-> g, confirmed |-> Bm!Candidates(g), sequence |-> <<>>,
                 refused |-> {}, next |-> 1]
    BY <2>2 DEF Bm!NoRunNow
  <2>5. s10' \in Bm!BulkRuns /\ s10'.at = "planned" /\ s10'.next = 1
    BY <2>4, <2>3 DEF Bm!BulkRuns
  <2>6. Bm!LanesShape' /\ Bm!ExecutionShape'
    BY <1>1, <2>1, Zenon DEF Bm!LanesShape, Bm!ExecutionShape
  <2>7. Bm!OthersShape' /\ Bm!PrerequisitesMergeFirst'
    BY <1>1, <2>1, Zenon DEF Bm!OthersShape, Bm!PrerequisitesMergeFirst
  <2>8. Bm!WaitsEndInCompletion' /\ Bm!PredictedRunsMergeCleanly'
    BY <1>1, <2>1, Zenon DEF Bm!WaitsEndInCompletion, Bm!PredictedRunsMergeCleanly
  <2>9. Bm!BulkShape'
    BY <2>5 DEF Bm!BulkShape
  <2>10. Bm!SequenceWasConfirmed'
    BY <2>5 DEF Bm!SequenceWasConfirmed
  <2>11. Bm!MergedArePrefix'
    BY <2>5 DEF Bm!MergedArePrefix
  <2>12. Bm!RecoveryRunsAlone'
    BY <2>5 DEF Bm!RecoveryRunsAlone
  <2>13. Bm!CleanAhead'
    BY <2>5 DEF Bm!CleanAhead
  <2> QED
    BY <2>6, <2>7, <2>8, <2>9, <2>10, <2>11, <2>12, <2>13 DEF Bm!BulkInv
<1>8. ASSUME Bm!NothingMerged
      PROVE  Bm!BulkInv'
  <2>1. /\ s1' = s1 /\ s2' = s2 /\ s3' = s3 /\ s4' = s4 /\ s5' = s5 /\ s6' = s6
        /\ s7' = s7 /\ s8' = s8 /\ s9' = s9 /\ s11' = s11 /\ s12' = s12 /\ s13' = s13
        /\ s14' = s14
    BY <1>8, Zenon DEF Bm!NothingMerged
  <2>2. s10' = Bm!NoRunNow
    BY <1>8, Zenon DEF Bm!NothingMerged
  <2>3. /\ Bm!NoRunNow = [at |-> "none", group |-> FALSE, confirmed |-> {}, sequence |-> <<>>,
                          refused |-> {}, next |-> 1]
        /\ Bm!NoRunNow \in Bm!BulkRuns
    BY DEF Bm!NoRunNow, Bm!BulkRuns
  <2>4. Bm!LanesShape' /\ Bm!ExecutionShape'
    BY <1>1, <2>1, Zenon DEF Bm!LanesShape, Bm!ExecutionShape
  <2>5. Bm!OthersShape' /\ Bm!PrerequisitesMergeFirst'
    BY <1>1, <2>1, Zenon DEF Bm!OthersShape, Bm!PrerequisitesMergeFirst
  <2>6. Bm!WaitsEndInCompletion' /\ Bm!PredictedRunsMergeCleanly'
    BY <1>1, <2>1, Zenon DEF Bm!WaitsEndInCompletion, Bm!PredictedRunsMergeCleanly
  <2>7. Bm!BulkShape'
    BY <2>2, <2>3 DEF Bm!BulkShape
  <2>8. Bm!SequenceWasConfirmed'
    BY <2>2, <2>3 DEF Bm!SequenceWasConfirmed
  <2>9. Bm!MergedArePrefix'
    BY <2>2, <2>3 DEF Bm!MergedArePrefix
  <2>10. Bm!RecoveryRunsAlone'
    BY <2>2, <2>3 DEF Bm!RecoveryRunsAlone
  <2>11. Bm!CleanAhead'
    BY <2>2, <2>3 DEF Bm!CleanAhead
  <2> QED
    BY <2>4, <2>5, <2>6, <2>7, <2>8, <2>9, <2>10, <2>11 DEF Bm!BulkInv
<1>9. ASSUME Bm!Preflight
      PROVE  Bm!BulkInv'
  <2>1. /\ s1' = s1 /\ s2' = s2 /\ s3' = s3 /\ s4' = s4 /\ s5' = s5 /\ s6' = s6
        /\ s7' = s7 /\ s8' = s8 /\ s9' = s9 /\ s14' = s14
    BY <1>9, Zenon DEF Bm!Preflight
  <2>2. /\ s11' = {}
        /\ s12' = FALSE
        /\ s13' = FALSE
    BY <1>9, Zenon DEF Bm!Preflight
  <2>3. PICK s, R :
          /\ s \in Bm!Orders(Bm!ConfirmedCandidates(s10.group))
          /\ R = {s[i] : i \in {k \in DOMAIN s : Bm!Refused(s[k], {s[j] : j \in 1..(k - 1)})}}
          /\ s8 => \A i \in DOMAIN s : ~Bm!Predicted(s, i)
          /\ s10.group => R = {}
          /\ s10' = [s10 EXCEPT !.at = "running", !.sequence = s, !.refused = R]
    BY <1>9, Zenon DEF Bm!Preflight
  <2>4. /\ R = {s[i] : i \in {k \in DOMAIN s : Bm!Refused(s[k], {s[j] : j \in 1..(k - 1)})}}
        /\ s10.group => R = {}
        /\ s10' = [s10 EXCEPT !.at = "running", !.sequence = s, !.refused = R]
    BY <2>3
  <2>5. s10.group => Bm!Candidates(TRUE) \subseteq s10.confirmed
    BY <1>9, Zenon DEF Bm!Preflight
  <2>6. /\ s10.at = "planned" /\ s10.group \in BOOLEAN /\ s10 \in Bm!BulkRuns
        /\ s10.next = 1
    BY <1>1, <1>9 DEF Bm!Preflight, Bm!BulkShape, Bm!BulkRuns, Bm!SequenceWasConfirmed
  <2>7. Bm!ConfirmedCandidates(s10.group) \subseteq Mergers \cap s10.confirmed
    BY DEF Bm!ConfirmedCandidates, Bm!Candidates, Bm!ReadyLanes
  <2>8. /\ s \in Seq(Bm!ConfirmedCandidates(s10.group)) /\ Len(s) \in Nat /\ DOMAIN s = 1..Len(s)
        /\ \A m \in Bm!ConfirmedCandidates(s10.group) : \E i \in 1..Len(s) : s[i] = m
    BY <2>3, <2>7, OrderedLanes
  <2>9. /\ s \in Seq(Mergers) /\ DOMAIN s = 1..Len(s) /\ Len(s) \in Nat
        /\ \A i \in 1..Len(s) : s[i] \in Bm!ConfirmedCandidates(s10.group) /\ s[i] \in Mergers
                                  /\ s[i] \in s10.confirmed
        /\ s10.group => \A m \in Mergers : \E i \in 1..Len(s) : s[i] = m
    BY <2>7, <2>8, <2>5 DEF Bm!ConfirmedCandidates, Bm!Candidates
  <2>10. R \subseteq Mergers
    BY <2>4, <2>9, ZenonT(40)
  <2>11. /\ s10'.next = 1 /\ s10'.at = "running" /\ s10'.sequence = s
         /\ s10'.confirmed = s10.confirmed
    BY <2>4, <2>6 DEF Bm!BulkRuns
  <2>12. Bm!LanesShape' /\ Bm!ExecutionShape'
    BY <1>1, <2>1, Zenon DEF Bm!LanesShape, Bm!ExecutionShape
  <2>13. Bm!PrerequisitesMergeFirst' /\ Bm!WaitsEndInCompletion'
    BY <1>1, <2>1, Zenon DEF Bm!PrerequisitesMergeFirst, Bm!WaitsEndInCompletion
  <2>14. Bm!BulkShape'
    <3>1. s10' = [at |-> "running", group |-> s10.group, confirmed |-> s10.confirmed, sequence |-> s,
                  refused |-> R, next |-> s10.next]
      BY <2>4, <2>6 DEF Bm!BulkRuns
    <3> QED
      BY <3>1, <2>6, <2>9, <2>10 DEF Bm!BulkShape, Bm!BulkRuns
  <2>15. Bm!OthersShape'
    BY <1>1, <2>1, <2>2 DEF Bm!OthersShape
  <2>16. Bm!SequenceWasConfirmed'
    BY <2>11, <2>9 DEF Bm!SequenceWasConfirmed
  <2>17. Bm!MergedArePrefix'
    BY <2>11, <2>2 DEF Bm!MergedArePrefix
  <2>18. Bm!RecoveryRunsAlone'
    <3> SUFFICES ASSUME NEW i \in 1..Len(s), s3[s[i]] = "recovery" PROVE Mergers = {s[i]}
      BY <2>11, <2>1 DEF Bm!RecoveryRunsAlone
    <3>1. s[i] \in Mergers /\ s[i] \in Bm!Candidates(s10.group)
      BY <2>9 DEF Bm!ConfirmedCandidates
    <3>2. s10.group
      BY <3>1, <2>6 DEF Bm!Candidates, Bm!ReadyLanes
    <3>3. \A j \in 1..Len(s) : ~Bm!Refused(s[j], {s[k] : k \in 1..(j - 1)})
      <4> SUFFICES ASSUME NEW j \in 1..Len(s), Bm!Refused(s[j], {s[k] : k \in 1..(j - 1)}) PROVE FALSE
        OBVIOUS
      <4>1. s[j] \in R
        BY <2>4, <2>9
      <4> QED
        BY <3>2, <4>1, <2>4
    <3>4. s9 = s[i]
      BY <3>3 DEF Bm!Refused
    <3>5. \A j \in 1..Len(s) : s[j] = s[i]
      BY <3>1, <3>3, <3>4 DEF Bm!Refused, Bm!HeldBack
    <3> QED
      BY <3>1, <3>2, <3>5, <2>9
  <2>19. Bm!CleanAhead'
    <3> SUFFICES ASSUME s8, NEW i \in 1..Len(s), s[i] \in s7
                 PROVE  /\ s6 \cap s7 \subseteq {s[i]}
                        /\ \A j \in 1..(i - 1) : s[j] \in s7 => s[j] = s[i]
      BY <2>11, <2>1 DEF Bm!CleanAhead
    <3>1. ~Bm!Predicted(s, i)
      BY <2>3, <2>9
    <3>2. ((s6 \cup {s[j] : j \in 1..(i - 1)}) \cap s7) \ {s[i]} = {}
      BY <3>1 DEF Bm!Predicted, Bm!Conflicts
    <3> QED
      BY <3>2
  <2>20. Bm!PredictedRunsMergeCleanly'
    BY <2>2 DEF Bm!PredictedRunsMergeCleanly
  <2> QED
    BY <2>12, <2>13, <2>14, <2>15, <2>16, <2>17, <2>18, <2>19, <2>20 DEF Bm!BulkInv
<1>10. ASSUME Bm!RefuseLane
       PROVE  Bm!BulkInv'
  <2>1. /\ s1' = s1 /\ s2' = s2 /\ s3' = s3 /\ s4' = s4 /\ s5' = s5 /\ s6' = s6
        /\ s7' = s7 /\ s8' = s8 /\ s9' = s9 /\ s11' = s11 /\ s12' = s12 /\ s13' = s13
        /\ s14' = s14
    BY <1>10, Zenon DEF Bm!RefuseLane, Bm!GoOn
  <2>2. s10' = Bm!NoRunNow
    BY <1>10, Zenon DEF Bm!RefuseLane, Bm!GoOn
  <2>3. /\ Bm!NoRunNow = [at |-> "none", group |-> FALSE, confirmed |-> {}, sequence |-> <<>>,
                          refused |-> {}, next |-> 1]
        /\ Bm!NoRunNow \in Bm!BulkRuns
    BY DEF Bm!NoRunNow, Bm!BulkRuns
  <2>4. Bm!LanesShape' /\ Bm!ExecutionShape'
    BY <1>1, <2>1, Zenon DEF Bm!LanesShape, Bm!ExecutionShape
  <2>5. Bm!OthersShape' /\ Bm!PrerequisitesMergeFirst'
    BY <1>1, <2>1, Zenon DEF Bm!OthersShape, Bm!PrerequisitesMergeFirst
  <2>6. Bm!WaitsEndInCompletion' /\ Bm!PredictedRunsMergeCleanly'
    BY <1>1, <2>1, Zenon DEF Bm!WaitsEndInCompletion, Bm!PredictedRunsMergeCleanly
  <2>7. Bm!BulkShape'
    BY <2>2, <2>3 DEF Bm!BulkShape
  <2>8. Bm!SequenceWasConfirmed'
    BY <2>2, <2>3 DEF Bm!SequenceWasConfirmed
  <2>9. Bm!MergedArePrefix'
    BY <2>2, <2>3 DEF Bm!MergedArePrefix
  <2>10. Bm!RecoveryRunsAlone'
    BY <2>2, <2>3 DEF Bm!RecoveryRunsAlone
  <2>11. Bm!CleanAhead'
    BY <2>2, <2>3 DEF Bm!CleanAhead
  <2> QED
    BY <2>4, <2>5, <2>6, <2>7, <2>8, <2>9, <2>10, <2>11 DEF Bm!BulkInv
<1>11. ASSUME Bm!ConflictAtMerge
      PROVE  Bm!BulkInv'
  <2>1. /\ s1' = s1 /\ s2' = s2 /\ s3' = s3 /\ s4' = s4 /\ s5' = s5 /\ s6' = s6
        /\ s7' = s7 /\ s8' = s8 /\ s9' = s9 /\ s11' = s11 /\ s12' = s12 /\ s14' = s14
    BY <1>11, Zenon DEF Bm!ConflictAtMerge, Bm!GoOn
  <2>2. /\ s10' = Bm!NoRunNow
        /\ s13' = TRUE
    BY <1>11, Zenon DEF Bm!ConflictAtMerge, Bm!GoOn
  <2>3. s10.at = "running" /\ s10.next \in 1..Len(s10.sequence) /\ s10 \in Bm!BulkRuns
    BY <1>1, <1>11 DEF Bm!ConflictAtMerge, Bm!Running, Bm!BulkShape, Bm!BulkRuns
  <2>4. PICK l : l = s10.sequence[s10.next]
    OBVIOUS
  <2>5. l \in Mergers /\ l \in s10.confirmed
    BY <1>1, <2>3, <2>4, LenProperties DEF Bm!BulkRuns, Bm!SequenceWasConfirmed
  <2>6. /\ Bm!NoRunNow = [at |-> "none", group |-> FALSE, confirmed |-> {}, sequence |-> <<>>,
                          refused |-> {}, next |-> 1]
        /\ Bm!NoRunNow \in Bm!BulkRuns
    BY DEF Bm!NoRunNow, Bm!BulkRuns
  <2>7. Bm!Conflicts(l, s6)
    BY <1>11, <2>4, Zenon DEF Bm!ConflictAtMerge, Bm!Lane
  <2>8. Bm!LanesShape' /\ Bm!ExecutionShape'
    BY <1>1, <2>1, Zenon DEF Bm!LanesShape, Bm!ExecutionShape
  <2>9. Bm!PrerequisitesMergeFirst' /\ Bm!WaitsEndInCompletion'
    BY <1>1, <2>1, Zenon DEF Bm!PrerequisitesMergeFirst, Bm!WaitsEndInCompletion
  <2>10. Bm!BulkShape'
    BY <2>2, <2>6 DEF Bm!BulkShape
  <2>11. Bm!OthersShape'
    BY <1>1, <2>1, <2>2 DEF Bm!OthersShape
  <2>12. Bm!SequenceWasConfirmed'
    BY <2>2, <2>6 DEF Bm!SequenceWasConfirmed
  <2>13. Bm!MergedArePrefix'
    BY <2>2, <2>6 DEF Bm!MergedArePrefix
  <2>14. Bm!RecoveryRunsAlone'
    BY <2>2, <2>6 DEF Bm!RecoveryRunsAlone
  <2>15. Bm!CleanAhead'
    BY <2>2, <2>6 DEF Bm!CleanAhead
  <2>16. Bm!PredictedRunsMergeCleanly'
    BY <1>1, <2>1, <2>3, <2>4, <2>7 DEF Bm!PredictedRunsMergeCleanly, Bm!CleanAhead,
       Bm!Conflicts
  <2> QED
    BY <2>8, <2>9, <2>10, <2>11, <2>12, <2>13, <2>14, <2>15, <2>16 DEF Bm!BulkInv
<1>12. ASSUME Bm!MergeLane
      PROVE  Bm!BulkInv'
  <2>1. /\ s2' = s2 /\ s5' = s5 /\ s7' = s7 /\ s8' = s8 /\ s12' = s12 /\ s13' = s13
        /\ s14' = s14
    BY <1>12, Zenon DEF Bm!MergeLane, Bm!GoOn
  <2>2. /\ s9' = "none"
        /\ s10' = [s10 EXCEPT !.next = @ + 1]
    BY <1>12, Zenon DEF Bm!MergeLane, Bm!GoOn
  <2>3. s10.at = "running" /\ s10.next \in 1..Len(s10.sequence) /\ s10 \in Bm!BulkRuns
    BY <1>1, <1>12 DEF Bm!MergeLane, Bm!Running, Bm!BulkShape, Bm!BulkRuns
  <2>4. PICK l : l = s10.sequence[s10.next]
    OBVIOUS
  <2>5. l \in Mergers /\ l \in s10.confirmed
    BY <1>1, <2>3, <2>4, LenProperties DEF Bm!BulkRuns, Bm!SequenceWasConfirmed
  <2>6. Bm!Admitted(l) /\ ~Bm!Conflicts(l, s6)
    BY <1>12, <2>4, Zenon DEF Bm!MergeLane, Bm!Lane
  <2>7. /\ s1' = [n \in Mergers |-> s1[n] \ {l}] /\ s3' = [s3 EXCEPT ![l] = "complete"]
        /\ s4' = [s4 EXCEPT ![l] = FALSE] /\ s6' = s6 \cup {l} /\ s11' = s11 \cup {l}
    BY <1>12, <2>4, Zenon DEF Bm!MergeLane, Bm!Lane
  <2>8. s10' = [at |-> "running", group |-> s10.group, confirmed |-> s10.confirmed,
                 sequence |-> s10.sequence, refused |-> s10.refused, next |-> s10.next + 1]
    BY <2>2, <2>3 DEF Bm!BulkRuns
  <2>9. \A k \in s2[l] : s3[k] = "complete"
    BY <1>1, <2>3, <2>4, <2>5, <2>6 DEF Bm!Admitted, Bm!Waits, Bm!RecoveryRunsAlone,
       Bm!WaitsEndInCompletion, Bm!LanesShape
  <2>10. \A n \in Mergers : s3'[n] = (IF n = l THEN "complete" ELSE s3[n]) /\ s1'[n] = s1[n] \ {l}
    BY <1>1, <2>7 DEF Bm!ExecutionShape
  <2>11. /\ s10'.next = s10.next + 1 /\ s10'.sequence = s10.sequence /\ s10'.confirmed = s10.confirmed
         /\ s10'.at = "running" /\ s10.next \in Nat /\ Len(s10.sequence) \in Nat
    BY <2>8, <2>3, LenProperties DEF Bm!BulkRuns
  <2>12. \A i \in s10.next..Len(s10.sequence) : s10.sequence[i] \in Mergers
    BY <2>3, LenProperties DEF Bm!BulkRuns
  <2>13. Bm!PredictedRunsMergeCleanly'
    BY <1>1, <2>1, Zenon DEF Bm!PredictedRunsMergeCleanly
  <2>14. Bm!BulkShape'
    BY <2>8, <2>3 DEF Bm!BulkShape, Bm!BulkRuns
  <2>15. Bm!LanesShape'
    BY <1>1, <2>1, <2>7 DEF Bm!LanesShape
  <2>16. Bm!ExecutionShape'
    BY <1>1, <2>7 DEF Bm!ExecutionShape
  <2>17. Bm!OthersShape'
    BY <1>1, <2>1, <2>2, <2>7, <2>5 DEF Bm!OthersShape
  <2>18. Bm!PrerequisitesMergeFirst'
    BY <1>1, <2>1, <2>9, <2>10 DEF Bm!PrerequisitesMergeFirst, Bm!LanesShape
  <2>19. Bm!WaitsEndInCompletion'
    BY <1>1, <2>1, <2>10 DEF Bm!WaitsEndInCompletion, Bm!LanesShape
  <2>20. Bm!SequenceWasConfirmed'
    BY <1>1, <2>3, <2>11 DEF Bm!SequenceWasConfirmed
  <2>21. Bm!MergedArePrefix'
    <3>1. s11 = {s10.sequence[i] : i \in 1..(s10.next - 1)}
      BY <1>1, <2>3 DEF Bm!MergedArePrefix
    <3>2. s11' = {s10.sequence[i] : i \in 1..s10.next}
      BY <3>1, <2>7, <2>4, <2>11, <2>3
    <3> QED
      BY <3>2, <2>11 DEF Bm!MergedArePrefix
  <2>22. Bm!RecoveryRunsAlone'
    BY <1>1, <2>10, <2>11, <2>3, <2>12 DEF Bm!RecoveryRunsAlone
  <2>23. Bm!CleanAhead'
    <3> SUFFICES ASSUME s8, NEW i \in (s10.next + 1)..Len(s10.sequence), s10.sequence[i] \in s7
                 PROVE  /\ (s6 \cup {l}) \cap s7 \subseteq {s10.sequence[i]}
                        /\ \A j \in (s10.next + 1)..(i - 1) :
                              s10.sequence[j] \in s7 => s10.sequence[j] = s10.sequence[i]
      BY <2>1, <2>7, <2>11 DEF Bm!CleanAhead
    <3>1. i \in s10.next..Len(s10.sequence) /\ s10.next \in s10.next..(i - 1)
      BY <2>11
    <3>2. /\ s6 \cap s7 \subseteq {s10.sequence[i]}
          /\ \A j \in s10.next..(i - 1) : s10.sequence[j] \in s7 => s10.sequence[j] = s10.sequence[i]
      BY <1>1, <3>1, <2>3 DEF Bm!CleanAhead
    <3>3. l \in s7 => l = s10.sequence[i]
      BY <3>1, <3>2, <2>4
    <3> QED
      BY <3>2, <3>3, <2>11
  <2> QED
    BY <2>13, <2>14, <2>15, <2>16, <2>17, <2>18, <2>19, <2>20, <2>21, <2>22, <2>23 DEF
       Bm!BulkInv
<1>13. ASSUME Bm!GateFailsLane
      PROVE  Bm!BulkInv'
  <2>1. /\ s1' = s1 /\ s2' = s2 /\ s4' = s4 /\ s5' = s5 /\ s7' = s7 /\ s8' = s8
        /\ s11' = s11 /\ s12' = s12 /\ s13' = s13 /\ s14' = s14
    BY <1>13, Zenon DEF Bm!GateFailsLane, Bm!GoOn
  <2>2. s10' = Bm!NoRunNow
    BY <1>13, Zenon DEF Bm!GateFailsLane, Bm!GoOn
  <2>3. s10.at = "running" /\ s10.next \in 1..Len(s10.sequence) /\ s10 \in Bm!BulkRuns
    BY <1>1, <1>13 DEF Bm!GateFailsLane, Bm!Running, Bm!BulkShape, Bm!BulkRuns
  <2>4. PICK l : l = s10.sequence[s10.next]
    OBVIOUS
  <2>5. l \in Mergers /\ l \in s10.confirmed
    BY <1>1, <2>3, <2>4, LenProperties DEF Bm!BulkRuns, Bm!SequenceWasConfirmed
  <2>6. Bm!Admitted(l) /\ ~Bm!Conflicts(l, s6)
    BY <1>13, <2>4, Zenon DEF Bm!GateFailsLane, Bm!Lane
  <2>7. /\ Bm!NoRunNow = [at |-> "none", group |-> FALSE, confirmed |-> {}, sequence |-> <<>>,
                          refused |-> {}, next |-> 1]
        /\ Bm!NoRunNow \in Bm!BulkRuns
    BY DEF Bm!NoRunNow, Bm!BulkRuns
  <2>8. s3' = [s3 EXCEPT ![l] = "recovery"] /\ s6' = s6 \cup {l} /\ s9' = l
    BY <1>13, <2>4, Zenon DEF Bm!GateFailsLane, Bm!Lane
  <2>9. s3[l] # "complete"
    BY <2>6 DEF Bm!Admitted
  <2>10. \A n \in Mergers : s3'[n] = IF n = l THEN "recovery" ELSE s3[n]
    BY <1>1, <2>8 DEF Bm!ExecutionShape
  <2>11. Bm!LanesShape' /\ Bm!PredictedRunsMergeCleanly'
    BY <1>1, <2>1, Zenon DEF Bm!LanesShape, Bm!PredictedRunsMergeCleanly
  <2>12. Bm!BulkShape'
    BY <2>2, <2>7 DEF Bm!BulkShape
  <2>13. Bm!ExecutionShape'
    BY <1>1, <2>8 DEF Bm!ExecutionShape
  <2>14. Bm!OthersShape'
    BY <1>1, <2>1, <2>8, <2>5 DEF Bm!OthersShape
  <2>15. Bm!PrerequisitesMergeFirst'
    BY <1>1, <2>1, <2>9, <2>10 DEF Bm!PrerequisitesMergeFirst, Bm!LanesShape
  <2>16. Bm!WaitsEndInCompletion'
    BY <1>1, <2>1, <2>9, <2>10 DEF Bm!WaitsEndInCompletion, Bm!LanesShape
  <2>17. Bm!SequenceWasConfirmed'
    BY <2>2, <2>7 DEF Bm!SequenceWasConfirmed
  <2>18. Bm!MergedArePrefix'
    BY <2>2, <2>7 DEF Bm!MergedArePrefix
  <2>19. Bm!RecoveryRunsAlone'
    BY <2>2, <2>7 DEF Bm!RecoveryRunsAlone
  <2>20. Bm!CleanAhead'
    BY <2>2, <2>7 DEF Bm!CleanAhead
  <2> QED
    BY <2>11, <2>12, <2>13, <2>14, <2>15, <2>16, <2>17, <2>18, <2>19, <2>20 DEF Bm!BulkInv
<1>14. ASSUME Bm!RunEnds
      PROVE  Bm!BulkInv'
  <2>1. /\ s1' = s1 /\ s2' = s2 /\ s3' = s3 /\ s4' = s4 /\ s5' = s5 /\ s6' = s6
        /\ s7' = s7 /\ s8' = s8 /\ s9' = s9 /\ s11' = s11 /\ s12' = s12 /\ s13' = s13
        /\ s14' = s14
    BY <1>14, Zenon DEF Bm!RunEnds
  <2>2. s10' = Bm!NoRunNow
    BY <1>14, Zenon DEF Bm!RunEnds
  <2>3. /\ Bm!NoRunNow = [at |-> "none", group |-> FALSE, confirmed |-> {}, sequence |-> <<>>,
                          refused |-> {}, next |-> 1]
        /\ Bm!NoRunNow \in Bm!BulkRuns
    BY DEF Bm!NoRunNow, Bm!BulkRuns
  <2>4. Bm!LanesShape' /\ Bm!ExecutionShape'
    BY <1>1, <2>1, Zenon DEF Bm!LanesShape, Bm!ExecutionShape
  <2>5. Bm!OthersShape' /\ Bm!PrerequisitesMergeFirst'
    BY <1>1, <2>1, Zenon DEF Bm!OthersShape, Bm!PrerequisitesMergeFirst
  <2>6. Bm!WaitsEndInCompletion' /\ Bm!PredictedRunsMergeCleanly'
    BY <1>1, <2>1, Zenon DEF Bm!WaitsEndInCompletion, Bm!PredictedRunsMergeCleanly
  <2>7. Bm!BulkShape'
    BY <2>2, <2>3 DEF Bm!BulkShape
  <2>8. Bm!SequenceWasConfirmed'
    BY <2>2, <2>3 DEF Bm!SequenceWasConfirmed
  <2>9. Bm!MergedArePrefix'
    BY <2>2, <2>3 DEF Bm!MergedArePrefix
  <2>10. Bm!RecoveryRunsAlone'
    BY <2>2, <2>3 DEF Bm!RecoveryRunsAlone
  <2>11. Bm!CleanAhead'
    BY <2>2, <2>3 DEF Bm!CleanAhead
  <2> QED
    BY <2>4, <2>5, <2>6, <2>7, <2>8, <2>9, <2>10, <2>11 DEF Bm!BulkInv
<1> QED
  BY <1>2, <1>3, <1>4, <1>5, <1>6, <1>7, <1>8, <1>9, <1>10, <1>11, <1>12, <1>13, <1>14, Zenon
     DEF Bm!BulkNext

(* Every lane has reported its work ready, and nothing was merged.         *)
LEMMA BulkInitially == Bm!BulkInit => Bm!BulkInv
<1> SUFFICES ASSUME Bm!BulkInit PROVE Bm!BulkInv
  OBVIOUS
<1> USE IntegrationAssumption
<1>1. /\ s2 = s1 /\ s3 = [l \in Mergers |-> "ready"] /\ s4 = [l \in Mergers |-> TRUE]
      /\ s5 = [l \in Mergers |-> "reported"] /\ s6 = {} /\ s7 \in SUBSET Mergers
      /\ s8 \in BOOLEAN /\ s9 = "none" /\ s11 = {} /\ s12 = FALSE /\ s13 = FALSE /\ s14 = 0
  BY DEF Bm!BulkInit
<1>2. s10 = [at |-> "none", group |-> FALSE, confirmed |-> {}, sequence |-> <<>>,
             refused |-> {}, next |-> 1]
  BY DEF Bm!BulkInit, Bm!NoRunNow
<1>3. s1 \in [Mergers -> SUBSET Mergers] /\ \A l \in Mergers : l \notin s1[l]
  <2>1. PICK l \in Mergers, k \in Mergers : s1 = [n \in Mergers |-> IF n = l /\ l # k THEN {k} ELSE {}]
    BY DEF Bm!BulkInit
  <2> QED
    BY <2>1
<1>4. Bm!BulkShape
  BY <1>2 DEF Bm!BulkShape, Bm!BulkRuns
<1>5. Bm!LanesShape
  BY <1>1, <1>3 DEF Bm!LanesShape
<1>6. Bm!ExecutionShape
  BY <1>1 DEF Bm!ExecutionShape
<1>7. Bm!OthersShape
  <2>1. 0 \in 0..MaxMoves
    OBVIOUS
  <2> QED
    BY <1>1, <2>1, Zenon DEF Bm!OthersShape
<1>8. Bm!PrerequisitesMergeFirst /\ Bm!WaitsEndInCompletion
  BY <1>1, <1>3 DEF Bm!PrerequisitesMergeFirst, Bm!WaitsEndInCompletion
<1>9. Bm!SequenceWasConfirmed /\ Bm!MergedArePrefix /\ Bm!RecoveryRunsAlone /\ Bm!CleanAhead
  BY <1>2 DEF Bm!SequenceWasConfirmed, Bm!MergedArePrefix, Bm!RecoveryRunsAlone, Bm!CleanAhead
<1>10. Bm!PredictedRunsMergeCleanly
  BY <1>1 DEF Bm!PredictedRunsMergeCleanly
<1> QED
  BY <1>4, <1>8, <1>9, <1>10, <1>5, <1>6, <1>7 DEF Bm!BulkInv

(* Where nothing happens nothing changes.                                    *)
LEMMA BulkStays ==
  ASSUME Bm!BulkInv, UNCHANGED Bm!bulkVars
  PROVE  Bm!BulkInv'
<1>1. /\ Bm!BulkShape
      /\ Bm!LanesShape
      /\ Bm!ExecutionShape
      /\ Bm!OthersShape
      /\ Bm!PrerequisitesMergeFirst
      /\ Bm!WaitsEndInCompletion
      /\ Bm!SequenceWasConfirmed
      /\ Bm!MergedArePrefix
      /\ Bm!RecoveryRunsAlone
      /\ Bm!CleanAhead
      /\ Bm!PredictedRunsMergeCleanly
  BY DEF Bm!BulkInv
<1>2. /\ s1' = s1 /\ s2' = s2 /\ s3' = s3 /\ s4' = s4 /\ s5' = s5 /\ s6' = s6
      /\ s7' = s7 /\ s8' = s8 /\ s9' = s9 /\ s10' = s10 /\ s11' = s11 /\ s12' = s12
      /\ s13' = s13 /\ s14' = s14
  BY DEF Bm!bulkVars
<1>3. Bm!BulkShape' /\ Bm!LanesShape'
  BY <1>1, <1>2, Zenon DEF Bm!BulkShape, Bm!BulkRuns, Bm!LanesShape
<1>4. Bm!ExecutionShape' /\ Bm!OthersShape'
  BY <1>1, <1>2, Zenon DEF Bm!ExecutionShape, Bm!OthersShape
<1>5. Bm!PrerequisitesMergeFirst' /\ Bm!WaitsEndInCompletion'
  BY <1>1, <1>2, Zenon DEF Bm!PrerequisitesMergeFirst, Bm!WaitsEndInCompletion
<1>6. Bm!SequenceWasConfirmed' /\ Bm!MergedArePrefix'
  BY <1>1, <1>2, Zenon DEF Bm!SequenceWasConfirmed, Bm!MergedArePrefix
<1>7. Bm!RecoveryRunsAlone' /\ Bm!CleanAhead'
  BY <1>1, <1>2, Zenon DEF Bm!RecoveryRunsAlone, Bm!CleanAhead
<1>8. Bm!PredictedRunsMergeCleanly'
  BY <1>1, <1>2, Zenon DEF Bm!PredictedRunsMergeCleanly
<1> QED
  BY <1>3, <1>4, <1>5, <1>6, <1>7, <1>8 DEF Bm!BulkInv

(* The invariant says what the run asks of bulk merges.                      *)
LEMMA BulkSaysSo ==
  Bm!BulkInv =>
    /\ Bm!BulkTypeOK
    /\ Bm!PrerequisitesMergeFirst /\ Bm!UnconfirmedLanesStayOut
    /\ Bm!MergedArePrefix /\ Bm!PredictedRunsMergeCleanly
<1> SUFFICES ASSUME Bm!BulkInv
             PROVE  /\ Bm!BulkTypeOK
                    /\ Bm!PrerequisitesMergeFirst /\ Bm!UnconfirmedLanesStayOut
                    /\ Bm!MergedArePrefix /\ Bm!PredictedRunsMergeCleanly
  OBVIOUS
<1> USE IntegrationAssumption
<1>1. /\ Bm!BulkShape /\ Bm!LanesShape /\ Bm!ExecutionShape /\ Bm!OthersShape
      /\ Bm!SequenceWasConfirmed /\ Bm!MergedArePrefix
      /\ Bm!PrerequisitesMergeFirst /\ Bm!PredictedRunsMergeCleanly
  BY Zenon DEF Bm!BulkInv
<1>2. /\ s10.at \in {"none", "planned", "running"} /\ s10.confirmed \subseteq Mergers
      /\ s10.next \in Nat \ {0} /\ s10.sequence \in Seq(Mergers)
  BY <1>1 DEF Bm!BulkShape, Bm!BulkRuns
<1>3. Bm!BulkTypeOK
  BY <1>1, <1>2, Zenon DEF Bm!BulkTypeOK, Bm!LanesShape, Bm!ExecutionShape, Bm!OthersShape
<1>4. Bm!UnconfirmedLanesStayOut
  <2>1. SUFFICES ASSUME s10.at = "running" PROVE s11 \subseteq s10.confirmed
    BY Zenon DEF Bm!UnconfirmedLanesStayOut
  <2>2. s11 = {s10.sequence[i] : i \in 1..(s10.next - 1)}
    BY <1>1, <2>1, Zenon DEF Bm!MergedArePrefix
  <2>3. /\ s10.next <= Len(s10.sequence) + 1
        /\ \A i \in 1..Len(s10.sequence) : s10.sequence[i] \in s10.confirmed
    BY <1>1, <2>1, Zenon DEF Bm!SequenceWasConfirmed
  <2>4. Len(s10.sequence) \in Nat
    BY <1>2
  <2>5. \A i \in 1..(s10.next - 1) : i \in 1..Len(s10.sequence)
    BY <1>2, <2>3, <2>4
  <2> QED
    BY <2>2, <2>3, <2>5
<1> QED
  BY <1>1, <1>3, <1>4

(* Counting what is decided: the module's own counting is the usual one.      *)
LEMMA CountedSets ==
  ASSUME NEW S, Pl!IsFiniteSet(S)
  PROVE  /\ Pl!Cardinality(S) \in Nat
         /\ \A e : /\ Pl!Cardinality({q \in S : q.edge = e}) \in Nat
                   /\ Pl!IsFiniteSet({q \in S : q.edge = e})
         /\ \A x : x \notin S => /\ Pl!IsFiniteSet(S \cup {x})
                                 /\ Pl!Cardinality(S \cup {x}) = Pl!Cardinality(S) + 1
<1>1. /\ \A T : Pl!Cardinality(T) = Cardinality(T) 
      /\ \A T : Pl!IsFiniteSet(T) <=> IsFiniteSet(T)
  BY DEF Pl!Cardinality, Cardinality, Pl!IsFiniteSet, IsFiniteSet
<1>2. IsFiniteSet(S) /\ Cardinality(S) \in Nat
  BY <1>1, FS_CardinalityType
<1>3. ASSUME NEW e PROVE  /\ Cardinality({q \in S : q.edge = e}) \in Nat
             /\ IsFiniteSet({q \in S : q.edge = e})
  BY <1>2, FS_Subset, FS_CardinalityType
<1>4. ASSUME NEW x, x \notin S
      PROVE  IsFiniteSet(S \cup {x}) /\ Cardinality(S \cup {x}) = Cardinality(S) + 1
  BY <1>2, <1>4, FS_AddElement
<1> QED
  BY <1>1, <1>2, <1>3, <1>4

(* Nothing is counted as none.                                               *)
LEMMA NoneCounted == Pl!IsFiniteSet({}) /\ Pl!Cardinality({}) = 0
  BY FS_EmptySet DEF Pl!Cardinality, Cardinality, Pl!IsFiniteSet, IsFiniteSet

(* Open proposals move to the new version or are stale; the others are kept.  *)
LEMMA ExpiredItems ==
  ASSUME NEW f \in [Pl!Ids -> Pl!Items], NEW r \in 0..MaxVersion, NEW M
  PROVE  LET E == Pl!Expired(f, r, M) IN
         /\ E \in [Pl!Ids -> Pl!Items]
         /\ \A p \in Pl!Ids :
               /\ E[p].applying = f[p].applying
               /\ E[p].base \in {f[p].base, r}
               /\ \/ E[p].status = f[p].status
                  \/ E[p].status = "stale" /\ f[p].status \in Pl!Open
               /\ p.edge \in M /\ f[p].base # r => E[p].status \notin Pl!Open
<1> DEFINE E == Pl!Expired(f, r, M)
<1>1. ASSUME NEW p \in Pl!Ids
      PROVE  /\ E[p] \in Pl!Items /\ E[p].applying = f[p].applying /\ E[p].base \in {f[p].base, r}
             /\ \/ E[p].status = f[p].status
                \/ E[p].status = "stale" /\ f[p].status \in Pl!Open
             /\ p.edge \in M /\ f[p].base # r => E[p].status \notin Pl!Open
  <2>1. E[p] = IF f[p].status \notin Pl!Open \/ f[p].base = r THEN f[p]
               ELSE IF p.edge \in M THEN [f[p] EXCEPT !.status = "stale"] ELSE [f[p] EXCEPT !.base = r]
    BY Zenon DEF Pl!Expired
  <2>2. f[p] \in Pl!Items
    OBVIOUS
  <2>3. PICK x, y : x = [f[p] EXCEPT !.status = "stale"] /\ y = [f[p] EXCEPT !.base = r]
    OBVIOUS
  <2>4. /\ x \in Pl!Items /\ x.status = "stale" /\ x.base = f[p].base /\ x.applying = f[p].applying
        /\ y \in Pl!Items /\ y.status = f[p].status /\ y.base = r /\ y.applying = f[p].applying
        /\ "stale" \notin Pl!Open
    BY <2>2, <2>3 DEF Pl!Items, Pl!Statuses, Pl!Open
  <2>5. E[p] = IF f[p].status \notin Pl!Open \/ f[p].base = r THEN f[p]
               ELSE IF p.edge \in M THEN x ELSE y
    BY <2>1, <2>3, Zenon
  <2> HIDE DEF E
  <2> QED
    BY <2>2, <2>4, <2>5
<1>2. E = [p \in Pl!Ids |-> E[p]]
  BY DEF Pl!Expired
<1> HIDE DEF E
<1>3. E \in [Pl!Ids -> Pl!Items]
  BY <1>1, <1>2
<1> QED
  BY <1>1, <1>3 DEF E

(* Recording what the ledger holds keeps the invariant.                    *)
LEMMA AcceptKeeps ==
  ASSUME Pl!PlanRevisionsInv,
         NEW p \in Pl!Marked, p \in s2, s3.revision < MaxVersion,
         NEW op \in BOOLEAN, op <=> Pl!ByOperator(p, s4[p]),
         s3' = Pl!Accepted(s3, p, op),
         s4' = Pl!AcceptedProposals(s4, p, s3'.revision),
         s6' = s6 \cup {q \in Pl!Filed \ {p} : q.edge = p.edge},
         s5' = Pl!Idle,
         s1' = s1, s2' = s2, s7' = s7, s8' = s8
  PROVE  /\ Pl!PlanRevisionsInv'
         /\ Pl!RevisionsLandOnTheirGroundStep
         /\ Pl!LanesDoNotFlipEdgesStep
<1> USE IntegrationAssumption
<1>1. /\ Pl!PlanShape
      /\ Pl!ProposalsShape
      /\ Pl!SettlingShape
      /\ Pl!OthersShape
      /\ Pl!BasesArePast
      /\ Pl!OneIsMarked
      /\ Pl!MarkedAreOpen
      /\ Pl!AcceptedStay
      /\ Pl!LandedAreAccepted
      /\ Pl!WrittenHasLanded
      /\ Pl!TouchedAreSettled
      /\ Pl!LanesDecided
      /\ Pl!AutomaticAreCounted
      /\ Pl!FlipsAreCounted
  BY DEF Pl!PlanRevisionsInv
<1>2. p \in Pl!Ids /\ p.edge \in Edges /\ p.op \in {"add", "remove"}
  BY DEF Pl!Marked, Pl!Ids
<1>3. s4 \in [Pl!Ids -> Pl!Items]
  BY <1>1 DEF Pl!ProposalsShape
<1>4. PICK f : f = [s3.flips EXCEPT ![p.edge] = @ + 1]
  OBVIOUS
<1>5. s3' = [revision |-> s3.revision + 1, accepted |-> s3.accepted \cup {p},
         removed |-> IF p.op = "add" THEN s3.removed \ {p.edge} ELSE s3.removed \cup {p.edge},
         flips |-> f, automatic |-> IF op THEN s3.automatic ELSE s3.automatic + 1]
  BY <1>4, Zenon DEF Pl!Accepted
<1>6. /\ s3.revision \in 1..MaxVersion /\ s3.revision + 1 \in 1..MaxVersion /\ s3.automatic \in 0..MaxAutomatic
      /\ s3.flips \in [Edges -> Nat] /\ s3.accepted \subseteq Pl!Ids /\ s3.removed \subseteq Edges
  BY <1>1 DEF Pl!PlanShape, Pl!Plans
<1>7. s3'.revision = s3.revision + 1 /\ s3'.accepted = s3.accepted \cup {p}
  BY <1>5
<1>8. PICK g : g = [s4 EXCEPT ![p] = [@ EXCEPT !.status = "accepted", !.applying = "no"]]
  OBVIOUS
<1>9. PICK v : v = [s4[p] EXCEPT !.status = "accepted", !.applying = "no"]
  OBVIOUS
<1>10. v \in Pl!Items /\ v.status = "accepted" /\ v.applying = "no" /\ v.base = s4[p].base
  BY <1>2, <1>3, <1>9 DEF Pl!Items, Pl!Statuses
<1>11. g = [s4 EXCEPT ![p] = v]
  BY <1>8, <1>9, Zenon
<1>12. g \in [Pl!Ids -> Pl!Items] /\ \A q \in Pl!Ids : g[q] = IF q = p THEN v ELSE s4[q]
  BY <1>2, <1>3, <1>10, <1>11
<1>13. s4' = Pl!Expired(g, s3.revision + 1, {p.edge})
  BY <1>8, <1>7, Zenon DEF Pl!AcceptedProposals
<1>14. /\ s4' \in [Pl!Ids -> Pl!Items]
       /\ \A q \in Pl!Ids :
            /\ s4'[q].applying = g[q].applying /\ s4'[q].base \in {g[q].base, s3.revision + 1}
            /\ \/ s4'[q].status = g[q].status
               \/ s4'[q].status = "stale" /\ g[q].status \in Pl!Open
            /\ q.edge = p.edge /\ g[q].base # s3.revision + 1 => s4'[q].status \notin Pl!Open
  BY <1>13, <1>12, <1>6, ExpiredItems
<1>15. \A q \in Pl!Ids : s4[q].base <= s3.revision
  BY <1>1 DEF Pl!BasesArePast
<1>16. \A q \in Pl!Ids :
         /\ s4'[q].base <= s3.revision + 1
         /\ s4'[q].applying = IF q = p THEN "no" ELSE s4[q].applying
         /\ q = p => s4'[q].status = "accepted"
         /\ q # p => \/ s4'[q].status = s4[q].status
                     \/ s4'[q].status = "stale" /\ s4[q].status \in Pl!Open
         /\ q.edge = p.edge /\ q # p => s4'[q].status \notin Pl!Open
  <2> TAKE q \in Pl!Ids
  <2>1. g[q] \in Pl!Items /\ g[q].base = s4[q].base /\ g[q].base <= s3.revision /\ g[q].base \in 0..MaxVersion
    BY <1>3, <1>10, <1>12, <1>15 DEF Pl!Items
  <2>2. "accepted" \notin Pl!Open
    BY DEF Pl!Open
  <2> QED
    BY <2>1, <2>2, <1>14, <1>10, <1>12, <1>6
<1>17. \A q \in Pl!Ids : s4[q].applying # "no" => q = p
  BY <1>1 DEF Pl!OneIsMarked, Pl!Marked
<1>18. \A q \in Pl!Ids : s4'[q].applying = "no"
  BY <1>17, <1>16
<1>19. s3.accepted \subseteq s2 /\ s2 \subseteq s3.accepted \cup {p}
  BY <1>1, <1>17 DEF Pl!LandedAreAccepted, Pl!Marked
<1>20. /\ op => p \notin s8
       /\ ~op => s3.automatic + 1 \in 0..MaxAutomatic
  <2>1. p \in s2 \ s3.accepted
    BY <1>1 DEF Pl!AcceptedStay, Pl!MarkedAreOpen, Pl!Open
  <2>2. op \/ p \in s8
    BY <1>1, <2>1 DEF Pl!LanesDecided
  <2>3. op => p \notin s8
    BY <1>1, <2>1 DEF Pl!LanesDecided
  <2>4. p \in s8 => s3.automatic # MaxAutomatic
    BY <1>1, <2>1 DEF Pl!AutomaticAreCounted
  <2> QED
    BY <2>2, <2>3, <2>4, <1>6
<1>21. Pl!Cardinality(s8) \in Nat /\ \A e : Pl!Cardinality({q \in s7 : q.edge = e}) \in Nat
  BY <1>1, CountedSets DEF Pl!OthersShape
<1>22. \/ s8 \subseteq s3.accepted /\ op
       \/ ~op
  BY <1>1, <1>19, <1>20 DEF Pl!OthersShape
<1>23. Pl!Idle \notin Pl!Settlings /\ Pl!Idle \notin Pl!Appliances
  BY DEF Pl!Settlings, Pl!Appliances, Pl!Idle
<1>24. Pl!PlanShape'
  BY <1>5, <1>4, <1>6, <1>2, <1>20 DEF Pl!PlanShape, Pl!Plans
<1>25. Pl!ProposalsShape'
  BY <1>14 DEF Pl!ProposalsShape
<1>26. Pl!SettlingShape'
  BY DEF Pl!SettlingShape
<1>27. Pl!OthersShape'
  BY <1>1, <1>2 DEF Pl!OthersShape, Pl!Filed
<1>28. Pl!BasesArePast'
  BY <1>7, <1>16 DEF Pl!BasesArePast
<1>29. Pl!OneIsMarked'
  BY <1>18, <1>23 DEF Pl!OneIsMarked, Pl!Marked
<1>30. Pl!MarkedAreOpen'
  BY <1>18 DEF Pl!MarkedAreOpen, Pl!Marked
<1>31. Pl!AcceptedStay'
  <2> SUFFICES ASSUME NEW q \in s3.accepted \cup {p} PROVE s4'[q].status = "accepted"
    BY <1>7 DEF Pl!AcceptedStay
  <2>1. q \in Pl!Ids /\ (q = p \/ s4[q].status = "accepted") /\ "accepted" \notin Pl!Open
    BY <1>1, <1>6, <1>2 DEF Pl!AcceptedStay, Pl!Open
  <2> QED
    BY <2>1, <1>16
<1>32. Pl!LandedAreAccepted'
  BY <1>19, <1>7 DEF Pl!LandedAreAccepted
<1>33. Pl!WrittenHasLanded'
  BY <1>23 DEF Pl!WrittenHasLanded
<1>34. Pl!TouchedAreSettled'
  <2> SUFFICES ASSUME NEW q \in s6' PROVE s4'[q].status \in {"accepted", "rejected", "stale"}
    BY DEF Pl!TouchedAreSettled
  <2>1. CASE q \in s6
    <3>1. q \in Pl!Ids /\ s4[q].status \in {"accepted", "rejected", "stale"}
      BY <1>1, <2>1 DEF Pl!TouchedAreSettled, Pl!OthersShape
    <3> QED
      BY <3>1, <1>16
  <2>2. CASE q \in Pl!Filed \ {p} /\ q.edge = p.edge
    <3>1. q \in Pl!Ids /\ s4[q].status # "none" /\ s4[q] \in Pl!Items
      BY <2>2, <1>3 DEF Pl!Filed
    <3> QED
      BY <2>2, <3>1, <1>16 DEF Pl!Items, Pl!Statuses, Pl!Open
  <2> QED
    BY <2>1, <2>2
<1>35. Pl!LanesDecided'
  BY <1>19, <1>7 DEF Pl!LanesDecided
<1>36. Pl!AutomaticAreCounted'
  <2>1. PICK n : n = Pl!Cardinality(s8)
    OBVIOUS
  <2>2. n <= s3.automatic + (IF s8 \subseteq s3.accepted THEN 0 ELSE 1)
    BY <1>1, <2>1, Zenon DEF Pl!AutomaticAreCounted
  <2>3. s8 \subseteq s3'.accepted
    BY <1>1, <1>19, <1>7 DEF Pl!OthersShape
  <2>4. s3'.automatic = IF op THEN s3.automatic ELSE s3.automatic + 1
    BY <1>5
  <2>5. CASE op
    <3>1. n <= s3.automatic + 0
      BY <2>2, <2>5, <1>22
    <3> QED
      BY <2>1, <2>3, <2>4, <2>5, <3>1, <1>6 DEF Pl!AutomaticAreCounted
  <2>6. CASE ~op
    <3>1. n <= s3.automatic + 1
      BY <2>1, <2>2, <1>6, <1>21
    <3> QED
      BY <2>1, <2>3, <2>4, <2>6, <3>1, <1>6 DEF Pl!AutomaticAreCounted
  <2> QED
    BY <2>5, <2>6
<1>37. Pl!FlipsAreCounted'
  <2> SUFFICES ASSUME NEW e \in Edges
               PROVE  Pl!Cardinality({q \in s7 : q.edge = e}) <= s3'.flips[e]
    <3>1. \A q \in s7 : q \in s3'.accepted
      BY <1>1, <1>19, <1>7 DEF Pl!OthersShape
    <3>2. \A e \in Edges : s3'.flips[e] \in Nat
      BY <1>5, <1>4, <1>6
    <3> QED
      BY <3>1, <3>2, <1>21 DEF Pl!FlipsAreCounted
  <2>1. PICK n : n = Pl!Cardinality({q \in s7 : q.edge = e})
    OBVIOUS
  <2>2. n \in Nat
    BY <2>1, <1>21
  <2>3. n <= s3.flips[e] + (IF \A q \in s7 : q.edge = e => q \in s3.accepted THEN 0 ELSE 1)
    BY <1>1, <2>1, Zenon DEF Pl!FlipsAreCounted
  <2>4. s3'.flips[e] = (IF e = p.edge THEN s3.flips[e] + 1 ELSE s3.flips[e]) /\ s3.flips[e] \in Nat
    BY <1>5, <1>4, <1>6
  <2>5. e # p.edge => \A q \in s7 : q.edge = e => q \in s3.accepted
    BY <1>1, <1>19 DEF Pl!OthersShape
  <2>6. n <= s3'.flips[e]
    BY <2>2, <2>3, <2>4, <2>5
  <2> QED
    BY <2>1, <2>6
<1>38. Pl!RevisionsLandOnTheirGroundStep
  BY DEF Pl!RevisionsLandOnTheirGroundStep
<1>39. Pl!LanesDoNotFlipEdgesStep
  BY DEF Pl!LanesDoNotFlipEdgesStep
<1> QED
  BY <1>24, <1>25, <1>26, <1>27, <1>28, <1>29, <1>30, <1>31, <1>32, <1>33, <1>34, <1>35,
     <1>36, <1>37, <1>38, <1>39 DEF Pl!PlanRevisionsInv

(* Withdrawing the mark of what has not landed keeps the invariant.           *)
LEMMA UnmarkKeeps ==
  ASSUME Pl!PlanRevisionsInv,
         NEW p \in Pl!Marked, p \notin s2,
         NEW w \in Pl!Items, w.applying = "no", w.status \in {"none", "pending", "escalated", "rejected"},
         w.base \in {0, s4[p].base},
         s4' = [s4 EXCEPT ![p] = w],
         s5' = Pl!Idle,
         s1' = s1, s2' = s2, s3' = s3, s6' = s6, s7' = s7, s8' = s8
  PROVE  /\ Pl!PlanRevisionsInv'
         /\ Pl!RevisionsLandOnTheirGroundStep
         /\ Pl!LanesDoNotFlipEdgesStep
<1> USE IntegrationAssumption
<1>1. /\ Pl!PlanShape
      /\ Pl!ProposalsShape
      /\ Pl!SettlingShape
      /\ Pl!OthersShape
      /\ Pl!BasesArePast
      /\ Pl!OneIsMarked
      /\ Pl!MarkedAreOpen
      /\ Pl!AcceptedStay
      /\ Pl!LandedAreAccepted
      /\ Pl!WrittenHasLanded
      /\ Pl!TouchedAreSettled
      /\ Pl!LanesDecided
      /\ Pl!AutomaticAreCounted
      /\ Pl!FlipsAreCounted
  BY DEF Pl!PlanRevisionsInv
<1>2. p \in Pl!Ids /\ s4 \in [Pl!Ids -> Pl!Items]
  BY <1>1 DEF Pl!ProposalsShape, Pl!Marked
<1>3. \A q \in Pl!Ids : s4'[q] = IF q = p THEN w ELSE s4[q]
  BY <1>2
<1>4. \A q \in Pl!Ids : s4[q].applying # "no" => q = p
  BY <1>1 DEF Pl!OneIsMarked, Pl!Marked
<1>5. \A q \in Pl!Ids : s4'[q].applying = "no"
  BY <1>4, <1>3
<1>6. s3.accepted = s2 /\ p \notin s3.accepted
  BY <1>1, <1>4 DEF Pl!LandedAreAccepted, Pl!Marked
<1>7. p \notin s6
  BY <1>1 DEF Pl!TouchedAreSettled, Pl!MarkedAreOpen, Pl!Open
<1>8. Pl!Idle \notin Pl!Settlings /\ Pl!Idle \notin Pl!Appliances
  BY DEF Pl!Settlings, Pl!Appliances, Pl!Idle
<1>9. Pl!PlanShape' /\ Pl!OthersShape' /\ Pl!AutomaticAreCounted'
  BY <1>1, Zenon DEF Pl!PlanShape, Pl!Plans, Pl!OthersShape, Pl!AutomaticAreCounted
<1>10. Pl!FlipsAreCounted'
  BY <1>1, Zenon DEF Pl!FlipsAreCounted
<1>11. Pl!ProposalsShape'
  BY <1>2 DEF Pl!ProposalsShape
<1>12. Pl!SettlingShape'
  BY DEF Pl!SettlingShape
<1>13. Pl!BasesArePast'
  BY <1>1, <1>3, <1>2 DEF Pl!BasesArePast, Pl!PlanShape, Pl!Plans
<1>14. Pl!OneIsMarked'
  BY <1>5, <1>8 DEF Pl!OneIsMarked, Pl!Marked
<1>15. Pl!MarkedAreOpen'
  BY <1>5 DEF Pl!MarkedAreOpen, Pl!Marked
<1>16. Pl!AcceptedStay'
  BY <1>1, <1>3, <1>6 DEF Pl!AcceptedStay, Pl!OthersShape
<1>17. Pl!LandedAreAccepted'
  BY <1>6 DEF Pl!LandedAreAccepted
<1>18. Pl!WrittenHasLanded'
  BY <1>8 DEF Pl!WrittenHasLanded
<1>19. Pl!TouchedAreSettled'
  BY <1>1, <1>3, <1>7 DEF Pl!TouchedAreSettled, Pl!OthersShape
<1>20. Pl!LanesDecided'
  BY <1>6 DEF Pl!LanesDecided
<1>21. Pl!RevisionsLandOnTheirGroundStep
  BY DEF Pl!RevisionsLandOnTheirGroundStep
<1>22. Pl!LanesDoNotFlipEdgesStep
  BY DEF Pl!LanesDoNotFlipEdgesStep
<1> QED
  BY <1>9, <1>10, <1>11, <1>12, <1>13, <1>14, <1>15, <1>16, <1>17, <1>18, <1>19, <1>20, <1>21,
     <1>22 DEF Pl!PlanRevisionsInv

(* Every step of a revision keeps the invariant, lands on its ground and flips no edge by a lane
   beyond the bound. *)
LEMMA PlanRevisionsStep ==
  ASSUME Pl!PlanRevisionsInv, Pl!PlanRevisionsNext
  PROVE  /\ Pl!PlanRevisionsInv'
         /\ Pl!RevisionsLandOnTheirGroundStep
         /\ Pl!LanesDoNotFlipEdgesStep
<1> USE IntegrationAssumption
<1>1. /\ Pl!PlanShape
      /\ Pl!ProposalsShape
      /\ Pl!SettlingShape
      /\ Pl!OthersShape
      /\ Pl!BasesArePast
      /\ Pl!OneIsMarked
      /\ Pl!MarkedAreOpen
      /\ Pl!AcceptedStay
      /\ Pl!LandedAreAccepted
      /\ Pl!WrittenHasLanded
      /\ Pl!TouchedAreSettled
      /\ Pl!LanesDecided
      /\ Pl!AutomaticAreCounted
      /\ Pl!FlipsAreCounted
  BY DEF Pl!PlanRevisionsInv
<1>2. ASSUME NEW p \in Pl!Ids, Pl!Propose(p)
      PROVE  /\ Pl!PlanRevisionsInv'
             /\ Pl!RevisionsLandOnTheirGroundStep
             /\ Pl!LanesDoNotFlipEdgesStep
  <2>1. s1' = s1 /\ s2' = s2 /\ s3' = s3 /\ s6' = s6 /\ s7' = s7 /\ s8' = s8
    BY <1>2, Zenon DEF Pl!Propose
  <2>2. s5' = [at |-> "marked", p |-> p, operator |-> p.by = "operator"]
    BY <1>2, Zenon DEF Pl!Propose
  <2>3. s4 \in [Pl!Ids -> Pl!Items]
    BY <1>1 DEF Pl!ProposalsShape
  <2>4. s5 = Pl!Idle /\ Pl!Marked = {} /\ s3.revision < MaxVersion
    BY <1>2, Zenon DEF Pl!Propose, Pl!Ready
  <2>5. PICK v : v = [status |-> "pending", base |-> p.base, applying |-> "new"]
    OBVIOUS
  <2>6. s4' = [s4 EXCEPT ![p] = v]
    BY <1>2, <2>5, Zenon DEF Pl!Propose
  <2>7. p.base = s3.revision /\ s4[p].status = "none" /\ p \notin s3.accepted
    BY <1>2, Zenon DEF Pl!Propose
  <2>8. v \in Pl!Items /\ v.base <= s3.revision /\ v.applying = "new" /\ v.status \in Pl!Open
    BY <1>1, <2>5, <2>7 DEF Pl!Items, Pl!Statuses, Pl!Open, Pl!PlanShape, Pl!Plans
  <2>9. \A q \in Pl!Ids : s4'[q] = IF q = p THEN v ELSE s4[q]
    BY <2>6, <2>3
  <2>10. s5' \in Pl!Settlings /\ s5'.p = p /\ s5'.at = "marked" /\ s5' \notin Pl!Appliances /\ s5' # Pl!Idle
         /\ s5'.operator \in BOOLEAN
         /\ (s5'.operator <=> p.by = "operator")
    BY <2>2 DEF Pl!Settlings, Pl!Appliances, Pl!Idle
  <2>11. p \notin s3.accepted /\ s2 = s3.accepted
    BY <1>1, <2>4, <2>7 DEF Pl!LandedAreAccepted
  <2>12. p \notin s6
    BY <1>1, <2>7 DEF Pl!TouchedAreSettled
  <2>13. Pl!PlanShape' /\ Pl!OthersShape' /\ Pl!AutomaticAreCounted'
    BY <1>1, <2>1, Zenon DEF Pl!PlanShape, Pl!Plans, Pl!OthersShape, Pl!AutomaticAreCounted
  <2>14. Pl!FlipsAreCounted'
    BY <1>1, <2>1, Zenon DEF Pl!FlipsAreCounted
  <2>15. Pl!ProposalsShape'
    BY <2>3, <2>6, <2>8 DEF Pl!ProposalsShape
  <2>16. Pl!SettlingShape'
    BY <2>10 DEF Pl!SettlingShape
  <2>17. Pl!BasesArePast'
    BY <1>1, <2>1, <2>9, <2>8, <2>4 DEF Pl!BasesArePast
  <2>18. Pl!OneIsMarked'
    BY <2>4, <2>9, <2>8, <2>10 DEF Pl!OneIsMarked, Pl!Marked, Pl!ByOperator
  <2>19. Pl!MarkedAreOpen'
    BY <2>4, <2>9, <2>8 DEF Pl!MarkedAreOpen, Pl!Marked
  <2>20. Pl!AcceptedStay'
    BY <1>1, <2>1, <2>9, <2>11 DEF Pl!AcceptedStay, Pl!PlanShape, Pl!Plans
  <2>21. Pl!LandedAreAccepted'
    BY <1>1, <2>1, <2>11 DEF Pl!LandedAreAccepted
  <2>22. Pl!WrittenHasLanded'
    BY <1>1, <2>1, <2>10, <2>11 DEF Pl!WrittenHasLanded
  <2>23. Pl!TouchedAreSettled'
    BY <1>1, <2>1, <2>9, <2>12 DEF Pl!TouchedAreSettled, Pl!OthersShape
  <2>24. Pl!LanesDecided'
    BY <1>1, <2>1, <2>11 DEF Pl!LanesDecided
  <2>25. Pl!RevisionsLandOnTheirGroundStep
    BY <2>1 DEF Pl!RevisionsLandOnTheirGroundStep
  <2>26. Pl!LanesDoNotFlipEdgesStep
    BY <2>1 DEF Pl!LanesDoNotFlipEdgesStep
  <2> QED
    BY <2>13, <2>14, <2>15, <2>16, <2>17, <2>18, <2>19, <2>20, <2>21, <2>22, <2>23, <2>24,
       <2>25, <2>26 DEF Pl!PlanRevisionsInv
<1>3. ASSUME NEW p \in Pl!Ids, Pl!Reject(p)
      PROVE  /\ Pl!PlanRevisionsInv'
             /\ Pl!RevisionsLandOnTheirGroundStep
             /\ Pl!LanesDoNotFlipEdgesStep
  <2>1. /\ s1' = s1 /\ s2' = s2 /\ s3' = s3 /\ s5' = s5 /\ s6' = s6 /\ s7' = s7
        /\ s8' = s8
    BY <1>3, Zenon DEF Pl!Reject
  <2>2. s4' = [s4 EXCEPT ![p].status = "rejected"]
    BY <1>3, Zenon DEF Pl!Reject
  <2>3. s4 \in [Pl!Ids -> Pl!Items]
    BY <1>1 DEF Pl!ProposalsShape
  <2>4. s5 = Pl!Idle /\ Pl!Marked = {} /\ s4[p].status \in Pl!Open
    BY <1>3, Zenon DEF Pl!Reject, Pl!Ready
  <2>5. s4' \in [Pl!Ids -> Pl!Items] /\ \A q \in Pl!Ids : s4'[q].applying = s4[q].applying
          /\ s4'[q].base = s4[q].base /\ s4'[q].status = (IF q = p THEN "rejected" ELSE s4[q].status)
    BY <2>2, <2>3 DEF Pl!Items, Pl!Statuses
  <2>6. Pl!Idle \notin Pl!Settlings /\ Pl!Idle \notin Pl!Appliances
    BY DEF Pl!Settlings, Pl!Appliances, Pl!Idle
  <2>7. p \notin s3.accepted /\ s2 = s3.accepted
    BY <1>1, <2>4 DEF Pl!LandedAreAccepted, Pl!AcceptedStay, Pl!Open
  <2>8. Pl!PlanShape' /\ Pl!SettlingShape' /\ Pl!OthersShape'
    BY <1>1, <2>1, Zenon DEF Pl!PlanShape, Pl!Plans, Pl!SettlingShape, Pl!OthersShape
  <2>9. Pl!WrittenHasLanded' /\ Pl!AutomaticAreCounted' /\ Pl!FlipsAreCounted'
    BY <1>1, <2>1, Zenon DEF Pl!WrittenHasLanded, Pl!AutomaticAreCounted, Pl!FlipsAreCounted
  <2>10. Pl!ProposalsShape'
    BY <2>5 DEF Pl!ProposalsShape
  <2>11. Pl!BasesArePast'
    BY <1>1, <2>1, <2>5 DEF Pl!BasesArePast
  <2>12. Pl!OneIsMarked'
    BY <2>1, <2>4, <2>5, <2>6 DEF Pl!OneIsMarked, Pl!Marked
  <2>13. Pl!MarkedAreOpen'
    BY <2>4, <2>5 DEF Pl!MarkedAreOpen, Pl!Marked
  <2>14. Pl!AcceptedStay'
    BY <1>1, <2>1, <2>5, <2>7 DEF Pl!AcceptedStay, Pl!PlanShape, Pl!Plans
  <2>15. Pl!LandedAreAccepted'
    BY <2>1, <2>7 DEF Pl!LandedAreAccepted
  <2>16. Pl!TouchedAreSettled'
    BY <1>1, <2>1, <2>5 DEF Pl!TouchedAreSettled, Pl!OthersShape
  <2>17. Pl!LanesDecided'
    BY <2>1, <2>7 DEF Pl!LanesDecided
  <2>18. Pl!RevisionsLandOnTheirGroundStep
    BY <2>1 DEF Pl!RevisionsLandOnTheirGroundStep
  <2>19. Pl!LanesDoNotFlipEdgesStep
    BY <2>1 DEF Pl!LanesDoNotFlipEdgesStep
  <2> QED
    BY <2>8, <2>9, <2>10, <2>11, <2>12, <2>13, <2>14, <2>15, <2>16, <2>17, <2>18, <2>19 DEF
       Pl!PlanRevisionsInv
<1>4. ASSUME NEW p \in Pl!Ids, Pl!Approve(p)
      PROVE  /\ Pl!PlanRevisionsInv'
             /\ Pl!RevisionsLandOnTheirGroundStep
             /\ Pl!LanesDoNotFlipEdgesStep
  <2>1. s1' = s1 /\ s2' = s2 /\ s3' = s3 /\ s6' = s6 /\ s7' = s7 /\ s8' = s8
    BY <1>4, Zenon DEF Pl!Approve
  <2>2. s4 \in [Pl!Ids -> Pl!Items]
    BY <1>1 DEF Pl!ProposalsShape
  <2>3. Pl!Idle \notin Pl!Settlings /\ Pl!Idle \notin Pl!Appliances
    BY DEF Pl!Settlings, Pl!Appliances, Pl!Idle
  <2>4. s5 = Pl!Idle /\ Pl!Marked = {} /\ s4[p].status \in Pl!Open
    BY <1>4, Zenon DEF Pl!Approve, Pl!Ready
  <2>5. PICK v : /\ s4' = [s4 EXCEPT ![p] = v]
                 /\ \/ /\ v = [s4[p] EXCEPT !.applying = "decided"] /\ s3.revision < MaxVersion
                       /\ s5' = [at |-> "marked", p |-> p, operator |-> TRUE]
                    \/ v = [s4[p] EXCEPT !.status = "stale"] /\ s5' = s5
    BY <1>4, Zenon DEF Pl!Approve
  <2>6. /\ v \in Pl!Items /\ v.base = s4[p].base
        /\ v = [s4[p] EXCEPT !.applying = "decided"] => v.applying = "decided" /\ v.status = s4[p].status
        /\ v = [s4[p] EXCEPT !.status = "stale"] => v.status = "stale" /\ v.applying = s4[p].applying
    BY <2>5, <2>2 DEF Pl!Items, Pl!Statuses
  <2>7. \/ /\ v.applying = "decided" /\ v.status \in Pl!Open /\ s3.revision < MaxVersion /\ s5' \in Pl!Settlings
           /\ s5'.p = p /\ s5'.at = "marked" /\ s5' \notin Pl!Appliances /\ s5'.operator = TRUE
        \/ v.status = "stale" /\ v.applying = "no" /\ s5' = s5
    <3>1. CASE v = [s4[p] EXCEPT !.applying = "decided"] /\ s3.revision < MaxVersion
                /\ s5' = [at |-> "marked", p |-> p, operator |-> TRUE]
      <4>1. s5' \in Pl!Settlings /\ s5' \notin Pl!Appliances
        BY <3>1 DEF Pl!Settlings, Pl!Appliances
      <4> QED
        BY <4>1, <3>1, <2>6, <2>4
    <3>2. CASE v = [s4[p] EXCEPT !.status = "stale"] /\ s5' = s5
      <4>1. s4[p].applying = "no"
        BY <2>4 DEF Pl!Marked
      <4> QED
        BY <4>1, <3>2, <2>6
    <3> QED
      BY <3>1, <3>2, <2>5
  <2>8. \A q \in Pl!Ids : s4'[q] = IF q = p THEN v ELSE s4[q]
    BY <2>5, <2>2
  <2>9. p \notin s3.accepted /\ s2 = s3.accepted
    BY <1>1, <2>4 DEF Pl!LandedAreAccepted, Pl!AcceptedStay, Pl!Open
  <2>10. p \notin s6
    BY <1>1, <2>4 DEF Pl!TouchedAreSettled, Pl!Open
  <2>11. Pl!PlanShape' /\ Pl!OthersShape' /\ Pl!AutomaticAreCounted'
    BY <1>1, <2>1, Zenon DEF Pl!PlanShape, Pl!Plans, Pl!OthersShape, Pl!AutomaticAreCounted
  <2>12. Pl!FlipsAreCounted'
    BY <1>1, <2>1, Zenon DEF Pl!FlipsAreCounted
  <2>13. Pl!ProposalsShape'
    BY <2>2, <2>5, <2>6 DEF Pl!ProposalsShape
  <2>14. Pl!SettlingShape'
    BY <2>4, <2>7 DEF Pl!SettlingShape
  <2>15. Pl!BasesArePast'
    BY <1>1, <2>1, <2>8, <2>6, <2>7, <2>4 DEF Pl!BasesArePast
  <2>16. Pl!OneIsMarked'
    BY <2>4, <2>8, <2>7, <2>3 DEF Pl!OneIsMarked, Pl!Marked, Pl!ByOperator
  <2>17. Pl!MarkedAreOpen'
    BY <2>4, <2>8, <2>7 DEF Pl!MarkedAreOpen, Pl!Marked
  <2>18. Pl!AcceptedStay'
    BY <1>1, <2>1, <2>8, <2>9 DEF Pl!AcceptedStay, Pl!PlanShape, Pl!Plans
  <2>19. Pl!LandedAreAccepted'
    BY <1>1, <2>1, <2>9 DEF Pl!LandedAreAccepted
  <2>20. Pl!WrittenHasLanded'
    BY <2>1, <2>7, <2>9, <2>3, <2>4 DEF Pl!WrittenHasLanded
  <2>21. Pl!TouchedAreSettled'
    BY <1>1, <2>1, <2>8, <2>10 DEF Pl!TouchedAreSettled, Pl!OthersShape
  <2>22. Pl!LanesDecided'
    BY <2>1, <2>9 DEF Pl!LanesDecided
  <2>23. Pl!RevisionsLandOnTheirGroundStep
    BY <2>1 DEF Pl!RevisionsLandOnTheirGroundStep
  <2>24. Pl!LanesDoNotFlipEdgesStep
    BY <2>1 DEF Pl!LanesDoNotFlipEdgesStep
  <2> QED
    BY <2>11, <2>12, <2>13, <2>14, <2>15, <2>16, <2>17, <2>18, <2>19, <2>20, <2>21, <2>22,
       <2>23, <2>24 DEF Pl!PlanRevisionsInv
<1>5. ASSUME Pl!SettleRefused
      PROVE  /\ Pl!PlanRevisionsInv'
             /\ Pl!RevisionsLandOnTheirGroundStep
             /\ Pl!LanesDoNotFlipEdgesStep
  <2>1. s5.at = "marked"
    BY <1>5, Zenon DEF Pl!SettleRefused
  <2>2. s5 \in Pl!Settlings
    BY <1>1, <2>1 DEF Pl!SettlingShape, Pl!Idle, Pl!Appliances
  <2>3. PICK p \in Pl!Ids : p = s5.p
    BY <2>2 DEF Pl!Settlings
  <2>4. p \in Pl!Marked /\ s5.operator \in BOOLEAN /\ s5 # Pl!Idle
       /\ (s5.operator <=> Pl!ByOperator(p, s4[p]))
    BY <1>1, <2>2, <2>3 DEF Pl!OneIsMarked, Pl!Settlings, Pl!Idle
  <2>5. p \in s2 <=> s5.at = "written"
    BY <1>1, <2>2, <2>3 DEF Pl!WrittenHasLanded
  <2>6. s4 \in [Pl!Ids -> Pl!Items]
    BY <1>1 DEF Pl!ProposalsShape
  <2>7. PICK w : w = Pl!Withdrawn(p)
    OBVIOUS
  <2>8. w \in Pl!Items /\ w.applying = "no" /\ w.status \in {"none", "pending", "escalated", "rejected"}
       /\ w.base \in {0, s4[p].base}
    <3>1. s4[p] \in Pl!Items
      BY <2>6
    <3>2. PICK v : v = [s4[p] EXCEPT !.status = "rejected", !.applying = "no"]
      OBVIOUS
    <3>3. v \in Pl!Items /\ v.applying = "no" /\ v.status = "rejected" /\ v.base = s4[p].base
      BY <3>1, <3>2 DEF Pl!Items, Pl!Statuses
    <3>4. Pl!Unfiled \in Pl!Items /\ Pl!Unfiled.applying = "no" /\ Pl!Unfiled.status = "none" /\ Pl!Unfiled.base = 0
      BY DEF Pl!Unfiled, Pl!Items, Pl!Statuses
    <3>5. w = Pl!Unfiled \/ w = v
      BY <2>7, <3>2, Zenon DEF Pl!Withdrawn
    <3> QED
      BY <3>3, <3>4, <3>5
  <2>9. s4' = [s4 EXCEPT ![p] = w] /\ s5' = Pl!Idle /\ s1' = s1 /\ s2' = s2 /\ s3' = s3 /\ s6' = s6
       /\ s7' = s7 /\ s8' = s8
    BY <1>5, <2>3, <2>7, Zenon DEF Pl!SettleRefused
  <2> QED
    BY <2>1, <2>4, <2>5, <2>8, <2>9, UnmarkKeeps
<1>6. ASSUME Pl!SettleHeld
      PROVE  /\ Pl!PlanRevisionsInv'
             /\ Pl!RevisionsLandOnTheirGroundStep
             /\ Pl!LanesDoNotFlipEdgesStep
  <2>1. s5.at = "marked"
    BY <1>6, Zenon DEF Pl!SettleHeld
  <2>2. s5 \in Pl!Settlings
    BY <1>1, <2>1 DEF Pl!SettlingShape, Pl!Idle, Pl!Appliances
  <2>3. PICK p \in Pl!Ids : p = s5.p
    BY <2>2 DEF Pl!Settlings
  <2>4. p \in Pl!Marked /\ s5.operator \in BOOLEAN /\ s5 # Pl!Idle
       /\ (s5.operator <=> Pl!ByOperator(p, s4[p]))
    BY <1>1, <2>2, <2>3 DEF Pl!OneIsMarked, Pl!Settlings, Pl!Idle
  <2>5. p \in s2 <=> s5.at = "written"
    BY <1>1, <2>2, <2>3 DEF Pl!WrittenHasLanded
  <2>6. s4 \in [Pl!Ids -> Pl!Items]
    BY <1>1 DEF Pl!ProposalsShape
  <2>7. /\ s5' = Pl!Idle /\ s1' = s1 /\ s2' = s2 /\ s3' = s3 /\ s6' = s6 /\ s7' = s7 /\ s8' = s8
       /\ \E st \in {"escalated", "pending"} :
             \/ s4' = [s4 EXCEPT ![p] = Pl!Unfiled]
             \/ s4' = [s4 EXCEPT ![p] = [@ EXCEPT !.status = st, !.applying = "no"]]
    BY <1>6, <2>3 DEF Pl!SettleHeld
  <2>8. PICK st \in {"escalated", "pending"} : \/ s4' = [s4 EXCEPT ![p] = Pl!Unfiled]
             \/ s4' = [s4 EXCEPT ![p] = [@ EXCEPT !.status = st, !.applying = "no"]]
    BY <2>7
  <2>9. PICK v : v = [s4[p] EXCEPT !.status = st, !.applying = "no"]
    OBVIOUS
  <2>10. s4[p] \in Pl!Items
    BY <2>6
  <2>11. v \in Pl!Items /\ v.applying = "no" /\ v.status = st /\ v.base = s4[p].base
    <3>1. s4[p] = [status |-> s4[p].status, base |-> s4[p].base, applying |-> s4[p].applying]
      BY <2>10 DEF Pl!Items
    <3>2. v = [status |-> st, base |-> s4[p].base, applying |-> "no"]
      BY <2>9, <3>1
    <3>3. s4[p].base \in 0..MaxVersion /\ st \in Pl!Statuses
      BY <2>10 DEF Pl!Items, Pl!Statuses, Pl!Open
    <3> QED
      BY <3>2, <3>3 DEF Pl!Items
  <2>12. Pl!Unfiled \in Pl!Items /\ Pl!Unfiled.applying = "no" /\ Pl!Unfiled.status = "none" /\ Pl!Unfiled.base = 0
    BY DEF Pl!Unfiled, Pl!Items, Pl!Statuses
  <2>13. PICK w : w \in {v, Pl!Unfiled} /\ s4' = [s4 EXCEPT ![p] = w]
    BY <2>8, <2>9, Zenon
  <2>14. w \in Pl!Items /\ w.applying = "no" /\ w.status \in {"none", "pending", "escalated", "rejected"}
       /\ w.base \in {0, s4[p].base}
    BY <2>11, <2>12, <2>13
  <2> QED
    BY <2>1, <2>4, <2>5, <2>13, <2>14, <2>7, UnmarkKeeps
<1>7. ASSUME Pl!SettleAccept
      PROVE  /\ Pl!PlanRevisionsInv'
             /\ Pl!RevisionsLandOnTheirGroundStep
             /\ Pl!LanesDoNotFlipEdgesStep
  <2>1. s5.at = "written"
    BY <1>7, Zenon DEF Pl!SettleAccept
  <2>2. s5 \in Pl!Settlings
    BY <1>1, <2>1 DEF Pl!SettlingShape, Pl!Idle, Pl!Appliances
  <2>3. PICK p \in Pl!Ids : p = s5.p
    BY <2>2 DEF Pl!Settlings
  <2>4. p \in Pl!Marked /\ s5.operator \in BOOLEAN /\ s5 # Pl!Idle
       /\ (s5.operator <=> Pl!ByOperator(p, s4[p]))
    BY <1>1, <2>2, <2>3 DEF Pl!OneIsMarked, Pl!Settlings, Pl!Idle
  <2>5. p \in s2 <=> s5.at = "written"
    BY <1>1, <2>2, <2>3 DEF Pl!WrittenHasLanded
  <2>6. s3' = Pl!Accepted(s3, p, s5.operator) /\ s4' = Pl!AcceptedProposals(s4, p, s3'.revision)
       /\ s6' = s6 \cup {q \in Pl!Filed \ {p} : q.edge = p.edge} /\ s5' = Pl!Idle
       /\ s1' = s1 /\ s2' = s2 /\ s7' = s7 /\ s8' = s8
    BY <1>7, <2>3, Zenon DEF Pl!SettleAccept
  <2>7. s3.revision < MaxVersion
    BY <1>1, <2>4 DEF Pl!BasesArePast
  <2> QED
    BY <2>1, <2>4, <2>5, <2>7, <2>6, AcceptKeeps
<1>8. ASSUME Pl!Recover
      PROVE  /\ Pl!PlanRevisionsInv'
             /\ Pl!RevisionsLandOnTheirGroundStep
             /\ Pl!LanesDoNotFlipEdgesStep
  <2>1. s4 \in [Pl!Ids -> Pl!Items]
    BY <1>1 DEF Pl!ProposalsShape
  <2>2. s5 = Pl!Idle /\ Pl!Marked # {}
    BY <1>8, Zenon DEF Pl!Recover
  <2>3. PICK p \in Pl!Marked : p = CHOOSE q \in Pl!Marked : TRUE
    BY <2>2
  <2>4. p \in Pl!Ids
    BY DEF Pl!Marked
  <2>5. CASE p \in s2
    <3>1. s3.revision < MaxVersion /\ s3' = Pl!Accepted(s3, p, Pl!ByOperator(p, s4[p]))
         /\ s4' = Pl!AcceptedProposals(s4, p, s3'.revision)
         /\ s6' = s6 \cup {q \in Pl!Filed \ {p} : q.edge = p.edge} /\ s5' = Pl!Idle
         /\ s1' = s1 /\ s2' = s2 /\ s7' = s7 /\ s8' = s8
      BY <1>8, <2>2, <2>3, <2>5, Zenon DEF Pl!Recover, Pl!RecoversAs
    <3>2. PICK op \in BOOLEAN : op = Pl!ByOperator(p, s4[p])
      BY Zenon DEF Pl!ByOperator
    <3> QED
      BY <3>1, <3>2, <2>5, <2>3, AcceptKeeps
  <2>6. CASE p \notin s2
    <3>1. PICK w : w = IF s4[p].applying = "new" THEN Pl!Unfiled ELSE [s4[p] EXCEPT !.applying = "no"]
      OBVIOUS
    <3>2. s4' = [s4 EXCEPT ![p] = w] /\ s5' = Pl!Idle /\ s1' = s1 /\ s2' = s2 /\ s3' = s3 /\ s6' = s6
         /\ s7' = s7 /\ s8' = s8
      BY <1>8, <2>2, <2>3, <2>6, <3>1, Zenon DEF Pl!Recover, Pl!RecoversAs
    <3>3. PICK v : v = [s4[p] EXCEPT !.applying = "no"]
      OBVIOUS
    <3>4. s4[p] \in Pl!Items /\ s4[p].status \in Pl!Open
      BY <1>1, <2>1, <2>4, <2>3 DEF Pl!MarkedAreOpen
    <3>5. v \in Pl!Items /\ v.applying = "no" /\ v.status \in Pl!Open /\ v.base = s4[p].base
      BY <3>3, <3>4 DEF Pl!Items
    <3>6. Pl!Unfiled \in Pl!Items /\ Pl!Unfiled.applying = "no" /\ Pl!Unfiled.status = "none" /\ Pl!Unfiled.base = 0
      BY DEF Pl!Unfiled, Pl!Items, Pl!Statuses
    <3>7. w \in Pl!Items /\ w.applying = "no" /\ w.status \in {"none", "pending", "escalated", "rejected"}
         /\ w.base \in {0, s4[p].base}
      BY <3>1, <3>3, <3>5, <3>6 DEF Pl!Open
    <3> QED
      BY <3>2, <3>7, <2>6, <2>3, UnmarkKeeps
  <2> QED
    BY <2>5, <2>6, Zenon
<1>9. ASSUME Pl!SettleWrite
      PROVE  /\ Pl!PlanRevisionsInv'
             /\ Pl!RevisionsLandOnTheirGroundStep
             /\ Pl!LanesDoNotFlipEdgesStep
  <2>1. s3' = s3 /\ s4' = s4 /\ s6' = s6
    BY <1>9, Zenon DEF Pl!SettleWrite
  <2>2. /\ s2' = s2 \cup {s5.p}
        /\ s7' = s7 \cup {s5.p}
        /\ s8' = IF s5.operator THEN s8 ELSE s8 \cup {s5.p}
    BY <1>9, Zenon DEF Pl!SettleWrite
  <2>3. s5.at = "marked"
    BY <1>9, Zenon DEF Pl!SettleWrite
  <2>4. s5 \in Pl!Settlings
    BY <1>1, <2>3 DEF Pl!SettlingShape, Pl!Idle, Pl!Appliances
  <2>5. PICK p \in Pl!Ids : p = s5.p
    BY <2>4 DEF Pl!Settlings
  <2>6. p \in Pl!Marked /\ s5.operator \in BOOLEAN /\ s5 # Pl!Idle
        /\ (s5.operator <=> Pl!ByOperator(p, s4[p]))
    BY <1>1, <2>4, <2>5 DEF Pl!OneIsMarked, Pl!Settlings, Pl!Idle
  <2>7. p \in s2 <=> s5.at = "written"
    BY <1>1, <2>4, <2>5 DEF Pl!WrittenHasLanded
  <2>8. s4 \in [Pl!Ids -> Pl!Items]
    BY <1>1 DEF Pl!ProposalsShape
  <2>9. s1' = Pl!Revised(p) /\ s5' = [s5 EXCEPT !.at = "written"]
    BY <1>9, <2>5, Zenon DEF Pl!SettleWrite
  <2>10. s2' = s2 \cup {p} /\ s7' = s7 \cup {p} /\ s8' = IF s5.operator THEN s8 ELSE s8 \cup {p}
    BY <2>2, <2>5
  <2>11. s5' \in Pl!Settlings /\ s5'.p = p /\ s5'.at = "written" /\ s5'.operator = s5.operator
         /\ s5' \notin Pl!Appliances /\ s5' # Pl!Idle
    BY <2>9, <2>4, <2>5 DEF Pl!Settlings, Pl!Appliances, Pl!Idle
  <2>12. p \notin s2 /\ p \notin s3.accepted /\ s2 = s3.accepted
    <3>1. \A q \in s2 \ s3.accepted : q = p
      BY <1>1, <2>6 DEF Pl!LandedAreAccepted, Pl!OneIsMarked
    <3> QED
      BY <3>1, <2>3, <2>7, <1>1 DEF Pl!LandedAreAccepted
  <2>13. p \notin s6
    BY <1>1, <2>6 DEF Pl!TouchedAreSettled, Pl!MarkedAreOpen, Pl!Open
  <2>14. s8 \subseteq s3.accepted /\ s7 \subseteq s3.accepted /\ Pl!IsFiniteSet(s7) /\ Pl!IsFiniteSet(s8)
    BY <1>1, <2>12 DEF Pl!OthersShape
  <2>15. Pl!IsFiniteSet(s7') /\ Pl!IsFiniteSet(s8')
    BY <2>10, <2>14, CountedSets
  <2>16. s5.operator \/ (s3.flips[p.edge] < MaxFlips /\ s3.automatic < MaxAutomatic)
    <3>1. s5.operator \/ ~(Pl!Contradicted(p) \/ Pl!Held(p))
      BY <1>9, <2>5, Zenon DEF Pl!SettleWrite
    <3>2. s3.flips[p.edge] \in Nat /\ s3.automatic \in Nat
      BY <1>1 DEF Pl!PlanShape, Pl!Plans, Pl!Ids
    <3> QED
      BY <3>1, <3>2 DEF Pl!Contradicted, Pl!Held
  <2>17. Pl!PlanShape' /\ Pl!ProposalsShape' /\ Pl!MarkedAreOpen'
    BY <1>1, <2>1, Zenon DEF Pl!PlanShape, Pl!Plans, Pl!ProposalsShape, Pl!Items,
       Pl!MarkedAreOpen, Pl!Marked
  <2>18. Pl!AcceptedStay' /\ Pl!TouchedAreSettled'
    BY <1>1, <2>1, Zenon DEF Pl!AcceptedStay, Pl!TouchedAreSettled
  <2>19. Pl!SettlingShape'
    BY <2>11 DEF Pl!SettlingShape
  <2>20. Pl!OthersShape'
    <3>1. s1' \subseteq Edges
      BY <1>1, <2>9 DEF Pl!Revised, Pl!OthersShape, Pl!Ids
    <3> QED
      BY <1>1, <3>1, <2>1, <2>10, <2>15 DEF Pl!OthersShape
  <2>21. Pl!BasesArePast'
    BY <1>1, <2>1, <2>6 DEF Pl!BasesArePast
  <2>22. Pl!OneIsMarked'
    BY <1>1, <2>1, <2>6, <2>11 DEF Pl!OneIsMarked, Pl!Marked, Pl!ByOperator
  <2>23. Pl!LandedAreAccepted'
    BY <1>1, <2>1, <2>10, <2>6, <2>12 DEF Pl!LandedAreAccepted, Pl!Marked
  <2>24. Pl!WrittenHasLanded'
    BY <2>10, <2>11 DEF Pl!WrittenHasLanded
  <2>25. Pl!LanesDecided'
    BY <2>1, <2>10, <2>6, <2>12, <2>14 DEF Pl!LanesDecided, Pl!ByOperator
  <2>26. Pl!AutomaticAreCounted'
    <3>1. PICK n : n = Pl!Cardinality(s8)
      OBVIOUS
    <3>2. n \in Nat /\ n <= s3.automatic /\ s3.automatic \in Nat
      BY <1>1, <3>1, <2>14, CountedSets DEF Pl!AutomaticAreCounted, Pl!PlanShape, Pl!Plans
    <3>3. CASE s5.operator
      BY <1>1, <3>3, <2>1, <2>10 DEF Pl!AutomaticAreCounted
    <3>4. CASE ~s5.operator
      <4>1. s8' = s8 \cup {p} /\ ~(s8' \subseteq s3.accepted)
        BY <3>4, <2>10, <2>12
      <4>2. Pl!Cardinality(s8') = n + 1
        BY <4>1, <3>1, <2>14, <2>12, CountedSets
      <4> QED
        BY <4>1, <4>2, <3>2, <3>4, <2>16, <2>1 DEF Pl!AutomaticAreCounted
    <3> QED
      BY <3>3, <3>4, <2>6
  <2>27. Pl!FlipsAreCounted'
    <3> SUFFICES ASSUME NEW e \in Edges
                 PROVE  Pl!Cardinality({q \in s7' : q.edge = e})
                        <= s3.flips[e] + (IF \A q \in s7' : q.edge = e => q \in s3.accepted THEN 0 ELSE 1)
      BY <2>1 DEF Pl!FlipsAreCounted
    <3> DEFINE A == {q \in s7 : q.edge = e}
    <3>1. Pl!IsFiniteSet(A) /\ Pl!Cardinality(A) \in Nat
      BY <2>14, CountedSets
    <3>2. Pl!Cardinality(A) <= s3.flips[e] /\ s3.flips[e] \in Nat
      <4>1. \A q \in s7 : q.edge = e => q \in s3.accepted
        BY <2>14
      <4>2. s3.flips[e] \in Nat
        BY <1>1 DEF Pl!PlanShape, Pl!Plans
      <4>3. Pl!Cardinality(A) <= s3.flips[e] + 0
        BY <1>1, <4>1 DEF Pl!FlipsAreCounted
      <4> QED
        BY <3>1, <4>2, <4>3
    <3>3. CASE p.edge = e
      <4>1. {q \in s7' : q.edge = e} = A \cup {p} /\ p \notin A
        BY <3>3, <2>10, <2>14, <2>12
      <4>2. Pl!Cardinality(A \cup {p}) = Pl!Cardinality(A) + 1
        BY <3>1, <4>1, CountedSets
      <4>3. ~ \A q \in s7' : q.edge = e => q \in s3.accepted
        BY <3>3, <2>10, <2>12
      <4> HIDE DEF A
      <4>4. PICK n : n = Pl!Cardinality(A)
        OBVIOUS
      <4>5. Pl!Cardinality({q \in s7' : q.edge = e}) = n + 1
        BY <4>1, <4>2, <4>4
      <4>6. n \in Nat /\ n <= s3.flips[e]
        BY <3>1, <3>2, <4>4
      <4>7. (IF \A q \in s7' : q.edge = e => q \in s3.accepted THEN 0 ELSE 1) = 1
        BY <4>3, Zenon
      <4>8. n + 1 <= s3.flips[e] + 1
        BY <4>6, <3>2
      <4> QED
        BY <4>5, <4>7, <4>8, Zenon
    <3>4. CASE p.edge # e
      <4>1. {q \in s7' : q.edge = e} = A /\ \A q \in s7' : q.edge = e => q \in s3.accepted
        BY <3>4, <2>10, <2>14
      <4> HIDE DEF A
      <4>2. (IF \A q \in s7' : q.edge = e => q \in s3.accepted THEN 0 ELSE 1) = 0
        BY <4>1, Zenon
      <4>3. PICK n : n = Pl!Cardinality(A)
        OBVIOUS
      <4>4. n <= s3.flips[e] + 0
        BY <3>1, <3>2, <4>3
      <4> QED
        BY <4>1, <4>2, <4>3, <4>4, Zenon
    <3> QED
      BY <3>3, <3>4
  <2>28. Pl!RevisionsLandOnTheirGroundStep
    BY <2>10, <2>13 DEF Pl!RevisionsLandOnTheirGroundStep
  <2>29. Pl!LanesDoNotFlipEdgesStep
    <3> SUFFICES ASSUME NEW r \in s8' \ s8
                 PROVE  Pl!Cardinality({q \in s7 : q.edge = r.edge}) < MaxFlips
      BY DEF Pl!LanesDoNotFlipEdgesStep
    <3>1. r = p /\ ~s5.operator
      BY <2>10
    <3> DEFINE A == {q \in s7 : q.edge = p.edge}
    <3>2. Pl!Cardinality(A) \in Nat
      BY <2>14, CountedSets
    <3>3. s3.flips[p.edge] \in Nat /\ p.edge \in Edges
      BY <1>1 DEF Pl!PlanShape, Pl!Plans, Pl!Ids
    <3>4. Pl!Cardinality(A) <= s3.flips[p.edge] + 0
      BY <1>1, <3>3, <2>14 DEF Pl!FlipsAreCounted
    <3> HIDE DEF A
    <3>5. Pl!Cardinality(A) < MaxFlips
      BY <3>1, <3>2, <3>3, <3>4, <2>16
    <3> QED
      BY <3>1, <3>5 DEF A
  <2> QED
    BY <2>17, <2>18, <2>19, <2>20, <2>21, <2>22, <2>23, <2>24, <2>25, <2>26, <2>27, <2>28,
       <2>29 DEF Pl!PlanRevisionsInv
<1>10. ASSUME Pl!Crash
       PROVE  /\ Pl!PlanRevisionsInv'
              /\ Pl!RevisionsLandOnTheirGroundStep
              /\ Pl!LanesDoNotFlipEdgesStep
  <2>1. /\ s1' = s1 /\ s2' = s2 /\ s3' = s3 /\ s4' = s4 /\ s6' = s6 /\ s7' = s7
        /\ s8' = s8
    BY <1>10, Zenon DEF Pl!Crash
  <2>2. s5' = Pl!Idle
    BY <1>10, Zenon DEF Pl!Crash
  <2>3. Pl!Idle \notin Pl!Settlings /\ Pl!Idle \notin Pl!Appliances
    BY DEF Pl!Settlings, Pl!Appliances, Pl!Idle
  <2>4. Pl!PlanShape' /\ Pl!ProposalsShape' /\ Pl!OthersShape'
    BY <1>1, <2>1, Zenon DEF Pl!PlanShape, Pl!Plans, Pl!ProposalsShape, Pl!Items, Pl!OthersShape
  <2>5. Pl!MarkedAreOpen' /\ Pl!AcceptedStay' /\ Pl!LandedAreAccepted'
    BY <1>1, <2>1, Zenon DEF Pl!MarkedAreOpen, Pl!Marked, Pl!AcceptedStay, Pl!LandedAreAccepted
  <2>6. Pl!TouchedAreSettled' /\ Pl!LanesDecided' /\ Pl!AutomaticAreCounted'
    BY <1>1, <2>1, Zenon DEF Pl!TouchedAreSettled, Pl!LanesDecided, Pl!ByOperator,
       Pl!AutomaticAreCounted
  <2>7. Pl!FlipsAreCounted'
    BY <1>1, <2>1, Zenon DEF Pl!FlipsAreCounted
  <2>8. Pl!SettlingShape'
    BY <2>2 DEF Pl!SettlingShape
  <2>9. Pl!BasesArePast'
    BY <1>1, <2>1, <2>2 DEF Pl!BasesArePast
  <2>10. Pl!OneIsMarked'
    BY <1>1, <2>1, <2>2, <2>3 DEF Pl!OneIsMarked, Pl!Marked
  <2>11. Pl!WrittenHasLanded'
    BY <2>2, <2>3 DEF Pl!WrittenHasLanded
  <2>12. Pl!RevisionsLandOnTheirGroundStep
    BY <2>1 DEF Pl!RevisionsLandOnTheirGroundStep
  <2>13. Pl!LanesDoNotFlipEdgesStep
    BY <2>1 DEF Pl!LanesDoNotFlipEdgesStep
  <2> QED
    BY <2>4, <2>5, <2>6, <2>7, <2>8, <2>9, <2>10, <2>11, <2>12, <2>13 DEF Pl!PlanRevisionsInv
<1>11. ASSUME NEW S \in SUBSET Edges, NEW force \in BOOLEAN, Pl!ApplyWrite(S, force)
      PROVE  /\ Pl!PlanRevisionsInv'
             /\ Pl!RevisionsLandOnTheirGroundStep
             /\ Pl!LanesDoNotFlipEdgesStep
  <2>1. s2' = s2 /\ s3' = s3 /\ s4' = s4 /\ s6' = s6 /\ s7' = s7 /\ s8' = s8
    BY <1>11, Zenon DEF Pl!ApplyWrite
  <2>2. /\ s1' = s1 \cup S
        /\ s5' = [at |-> "applied", edges |-> S, added |-> S \ s1]
    BY <1>11, Zenon DEF Pl!ApplyWrite
  <2>3. s5 = Pl!Idle /\ Pl!Marked = {} /\ s3.revision < MaxVersion
    BY <1>11, Zenon DEF Pl!ApplyWrite, Pl!Ready
  <2>4. s5' \in Pl!Appliances /\ s5' \notin Pl!Settlings /\ s5' # Pl!Idle
    BY <2>2 DEF Pl!Appliances, Pl!Settlings, Pl!Idle
  <2>5. Pl!PlanShape' /\ Pl!ProposalsShape' /\ Pl!MarkedAreOpen'
    BY <1>1, <2>1, Zenon DEF Pl!PlanShape, Pl!Plans, Pl!ProposalsShape, Pl!Items,
       Pl!MarkedAreOpen, Pl!Marked
  <2>6. Pl!AcceptedStay' /\ Pl!LandedAreAccepted' /\ Pl!TouchedAreSettled'
    BY <1>1, <2>1, Zenon DEF Pl!AcceptedStay, Pl!LandedAreAccepted, Pl!Marked,
       Pl!TouchedAreSettled
  <2>7. Pl!LanesDecided' /\ Pl!AutomaticAreCounted' /\ Pl!FlipsAreCounted'
    BY <1>1, <2>1, Zenon DEF Pl!LanesDecided, Pl!ByOperator, Pl!AutomaticAreCounted,
       Pl!FlipsAreCounted
  <2>8. Pl!SettlingShape'
    BY <2>4 DEF Pl!SettlingShape
  <2>9. Pl!OthersShape'
    BY <1>1, <2>1, <2>2 DEF Pl!OthersShape
  <2>10. Pl!BasesArePast'
    BY <1>1, <2>1, <2>3 DEF Pl!BasesArePast
  <2>11. Pl!OneIsMarked'
    BY <2>1, <2>3, <2>4 DEF Pl!OneIsMarked, Pl!Marked
  <2>12. Pl!WrittenHasLanded'
    BY <2>4 DEF Pl!WrittenHasLanded
  <2>13. Pl!RevisionsLandOnTheirGroundStep
    BY <2>1 DEF Pl!RevisionsLandOnTheirGroundStep
  <2>14. Pl!LanesDoNotFlipEdgesStep
    BY <2>1 DEF Pl!LanesDoNotFlipEdgesStep
  <2> QED
    BY <2>5, <2>6, <2>7, <2>8, <2>9, <2>10, <2>11, <2>12, <2>13, <2>14 DEF Pl!PlanRevisionsInv
<1>12. ASSUME Pl!ApplyRecord
      PROVE  /\ Pl!PlanRevisionsInv'
             /\ Pl!RevisionsLandOnTheirGroundStep
             /\ Pl!LanesDoNotFlipEdgesStep
  <2>1. s1' = s1 /\ s2' = s2
    BY <1>12, Zenon DEF Pl!ApplyRecord
  <2>2. /\ s5' = Pl!Idle
        /\ s6' = Pl!Filed
        /\ s7' = {}
        /\ s8' = {}
    BY <1>12, Zenon DEF Pl!ApplyRecord
  <2>3. s4 \in [Pl!Ids -> Pl!Items]
    BY <1>1 DEF Pl!ProposalsShape
  <2>4. Pl!Idle \notin Pl!Settlings /\ Pl!Idle \notin Pl!Appliances
    BY DEF Pl!Settlings, Pl!Appliances, Pl!Idle
  <2>5. s5.at = "applied"
    BY <1>12, Zenon DEF Pl!ApplyRecord
  <2>6. s5 \in Pl!Appliances /\ s5 # Pl!Idle
    BY <1>1, <2>5 DEF Pl!SettlingShape, Pl!Idle, Pl!Settlings
  <2>7. Pl!Marked = {} /\ s3.revision < MaxVersion
    BY <1>1, <2>6 DEF Pl!OneIsMarked, Pl!BasesArePast
  <2>8. s4' = Pl!Expired(s4, s3'.revision, Edges) /\ s3' = [s3 EXCEPT !.revision = @ + 1, !.automatic = 0,
             !.removed = @ \ s5.added, !.flips = [e \in Edges |-> 0]]
    BY <1>12, Zenon DEF Pl!ApplyRecord
  <2>9. s3 \in Pl!Plans
    BY <1>1 DEF Pl!PlanShape
  <2>10. /\ s3' \in Pl!Plans /\ s3'.revision = s3.revision + 1 /\ s3'.accepted = s3.accepted
         /\ s3'.automatic = 0 /\ s3'.flips = [e \in Edges |-> 0]
    <3>1. PICK z, w : z = [e \in Edges |-> 0] /\ w = s3.removed \ s5.added
      OBVIOUS
    <3>2. s3' = [s3 EXCEPT !.revision = s3.revision + 1, !.automatic = 0, !.removed = w, !.flips = z]
      BY <2>8, <3>1, Zenon
    <3>3. s3 = [revision |-> s3.revision, accepted |-> s3.accepted, automatic |-> s3.automatic,
                removed |-> s3.removed, flips |-> s3.flips]
      BY <2>9 DEF Pl!Plans
    <3>4. s3' = [revision |-> s3.revision + 1, accepted |-> s3.accepted, automatic |-> 0, removed |-> w, flips |-> z]
      BY <3>2, <3>3
    <3>5. /\ s3.revision + 1 \in 1..MaxVersion /\ s3.accepted \subseteq Pl!Ids /\ w \subseteq Edges
          /\ z \in [Edges -> Nat] /\ 0 \in 0..MaxAutomatic
      BY <2>9, <2>7, <3>1 DEF Pl!Plans
    <3> QED
      BY <3>1, <3>4, <3>5 DEF Pl!Plans
  <2>11. s3'.revision \in 0..MaxVersion /\ s3.revision \in Nat
    BY <2>10, <2>9 DEF Pl!Plans
  <2>12. /\ s4' \in [Pl!Ids -> Pl!Items]
         /\ \A q \in Pl!Ids :
               /\ s4'[q].applying = s4[q].applying /\ s4'[q].base \in {s4[q].base, s3'.revision}
               /\ \/ s4'[q].status = s4[q].status
                  \/ s4'[q].status = "stale" /\ s4[q].status \in Pl!Open
               /\ q.edge \in Edges /\ s4[q].base # s3'.revision => s4'[q].status \notin Pl!Open
    BY <2>8, <2>11, <2>3, ExpiredItems
  <2>13. \A q \in Pl!Ids : s4[q].base # s3'.revision
    BY <1>1, <2>10, <2>11, <2>3 DEF Pl!BasesArePast, Pl!Items
  <2>14. s2 = s3.accepted
    BY <1>1, <2>7 DEF Pl!LandedAreAccepted
  <2>15. Pl!PlanShape'
    BY <2>10 DEF Pl!PlanShape
  <2>16. Pl!ProposalsShape'
    BY <2>12 DEF Pl!ProposalsShape
  <2>17. Pl!SettlingShape'
    BY <2>2 DEF Pl!SettlingShape
  <2>18. Pl!OthersShape'
    <3>1. s6' \subseteq Pl!Ids
      BY <2>2 DEF Pl!Filed
    <3> QED
      BY <1>1, <3>1, <2>1, <2>2, NoneCounted DEF Pl!OthersShape
  <2>19. Pl!BasesArePast'
    BY <1>1, <2>2, <2>10, <2>11, <2>12, <2>3 DEF Pl!BasesArePast, Pl!Items
  <2>20. Pl!OneIsMarked'
    BY <2>7, <2>2, <2>12, <2>4 DEF Pl!OneIsMarked, Pl!Marked
  <2>21. Pl!MarkedAreOpen'
    BY <2>7, <2>12 DEF Pl!MarkedAreOpen, Pl!Marked
  <2>22. Pl!AcceptedStay'
    BY <1>1, <2>10, <2>12, <2>14 DEF Pl!AcceptedStay, Pl!Open, Pl!OthersShape
  <2>23. Pl!LandedAreAccepted'
    BY <2>1, <2>10, <2>14 DEF Pl!LandedAreAccepted
  <2>24. Pl!WrittenHasLanded'
    BY <2>2, <2>4 DEF Pl!WrittenHasLanded
  <2>25. Pl!TouchedAreSettled'
    BY <2>2, <2>12, <2>13, <2>3 DEF Pl!TouchedAreSettled, Pl!Filed, Pl!Items, Pl!Statuses,
       Pl!Open, Pl!Ids
  <2>26. Pl!LanesDecided'
    BY <2>1, <2>10, <2>14 DEF Pl!LanesDecided
  <2>27. Pl!AutomaticAreCounted'
    BY <2>2, <2>10, NoneCounted DEF Pl!AutomaticAreCounted
  <2>28. Pl!FlipsAreCounted'
    <3>1. \A e \in Edges : {q \in s7' : q.edge = e} = {} /\ s3'.flips[e] = 0
      BY <2>2, <2>10
    <3>2. Pl!Cardinality({}) = 0
      BY NoneCounted
    <3> QED
      BY <3>1, <3>2, <2>2 DEF Pl!FlipsAreCounted
  <2>29. Pl!RevisionsLandOnTheirGroundStep
    BY <2>1 DEF Pl!RevisionsLandOnTheirGroundStep
  <2>30. Pl!LanesDoNotFlipEdgesStep
    BY <2>2 DEF Pl!LanesDoNotFlipEdgesStep
  <2> QED
    BY <2>15, <2>16, <2>17, <2>18, <2>19, <2>20, <2>21, <2>22, <2>23, <2>24, <2>25, <2>26,
       <2>27, <2>28, <2>29, <2>30 DEF Pl!PlanRevisionsInv
<1>13. ASSUME NEW e \in Edges, Pl!HandBlock(e)
      PROVE  /\ Pl!PlanRevisionsInv'
             /\ Pl!RevisionsLandOnTheirGroundStep
             /\ Pl!LanesDoNotFlipEdgesStep
  <2>1. /\ s2' = s2 /\ s3' = s3 /\ s4' = s4 /\ s5' = s5 /\ s6' = s6 /\ s7' = s7
        /\ s8' = s8
    BY <1>13, Zenon DEF Pl!HandBlock
  <2>2. s1' = s1 \cup {e}
    BY <1>13, Zenon DEF Pl!HandBlock
  <2>3. Pl!PlanShape' /\ Pl!ProposalsShape' /\ Pl!SettlingShape'
    BY <1>1, <2>1, Zenon DEF Pl!PlanShape, Pl!Plans, Pl!ProposalsShape, Pl!Items,
       Pl!SettlingShape
  <2>4. Pl!BasesArePast' /\ Pl!OneIsMarked' /\ Pl!MarkedAreOpen'
    BY <1>1, <2>1, Zenon DEF Pl!BasesArePast, Pl!OneIsMarked, Pl!Marked, Pl!ByOperator,
       Pl!MarkedAreOpen
  <2>5. Pl!AcceptedStay' /\ Pl!LandedAreAccepted' /\ Pl!WrittenHasLanded'
    BY <1>1, <2>1, Zenon DEF Pl!AcceptedStay, Pl!LandedAreAccepted, Pl!Marked,
       Pl!WrittenHasLanded
  <2>6. Pl!TouchedAreSettled' /\ Pl!LanesDecided' /\ Pl!AutomaticAreCounted'
    BY <1>1, <2>1, Zenon DEF Pl!TouchedAreSettled, Pl!LanesDecided, Pl!ByOperator,
       Pl!AutomaticAreCounted
  <2>7. Pl!FlipsAreCounted'
    BY <1>1, <2>1, Zenon DEF Pl!FlipsAreCounted
  <2>8. Pl!OthersShape'
    BY <1>1, <2>1, <2>2 DEF Pl!OthersShape
  <2>9. Pl!RevisionsLandOnTheirGroundStep
    BY <2>1 DEF Pl!RevisionsLandOnTheirGroundStep
  <2>10. Pl!LanesDoNotFlipEdgesStep
    BY <2>1 DEF Pl!LanesDoNotFlipEdgesStep
  <2> QED
    BY <2>3, <2>4, <2>5, <2>6, <2>7, <2>8, <2>9, <2>10 DEF Pl!PlanRevisionsInv
<1>14. ASSUME NEW e \in Edges, Pl!HandUnblock(e)
      PROVE  /\ Pl!PlanRevisionsInv'
             /\ Pl!RevisionsLandOnTheirGroundStep
             /\ Pl!LanesDoNotFlipEdgesStep
  <2>1. /\ s2' = s2 /\ s3' = s3 /\ s4' = s4 /\ s5' = s5 /\ s6' = s6 /\ s7' = s7
        /\ s8' = s8
    BY <1>14, Zenon DEF Pl!HandUnblock
  <2>2. s1' = s1 \ {e}
    BY <1>14, Zenon DEF Pl!HandUnblock
  <2>3. Pl!PlanShape' /\ Pl!ProposalsShape' /\ Pl!SettlingShape'
    BY <1>1, <2>1, Zenon DEF Pl!PlanShape, Pl!Plans, Pl!ProposalsShape, Pl!Items,
       Pl!SettlingShape
  <2>4. Pl!BasesArePast' /\ Pl!OneIsMarked' /\ Pl!MarkedAreOpen'
    BY <1>1, <2>1, Zenon DEF Pl!BasesArePast, Pl!OneIsMarked, Pl!Marked, Pl!ByOperator,
       Pl!MarkedAreOpen
  <2>5. Pl!AcceptedStay' /\ Pl!LandedAreAccepted' /\ Pl!WrittenHasLanded'
    BY <1>1, <2>1, Zenon DEF Pl!AcceptedStay, Pl!LandedAreAccepted, Pl!Marked,
       Pl!WrittenHasLanded
  <2>6. Pl!TouchedAreSettled' /\ Pl!LanesDecided' /\ Pl!AutomaticAreCounted'
    BY <1>1, <2>1, Zenon DEF Pl!TouchedAreSettled, Pl!LanesDecided, Pl!ByOperator,
       Pl!AutomaticAreCounted
  <2>7. Pl!FlipsAreCounted'
    BY <1>1, <2>1, Zenon DEF Pl!FlipsAreCounted
  <2>8. Pl!OthersShape'
    BY <1>1, <2>1, <2>2 DEF Pl!OthersShape
  <2>9. Pl!RevisionsLandOnTheirGroundStep
    BY <2>1 DEF Pl!RevisionsLandOnTheirGroundStep
  <2>10. Pl!LanesDoNotFlipEdgesStep
    BY <2>1 DEF Pl!LanesDoNotFlipEdgesStep
  <2> QED
    BY <2>3, <2>4, <2>5, <2>6, <2>7, <2>8, <2>9, <2>10 DEF Pl!PlanRevisionsInv
<1> QED
  BY <1>2, <1>3, <1>4, <1>5, <1>6, <1>7, <1>8, <1>9, <1>10, <1>11, <1>12, <1>13, <1>14, Zenon
     DEF Pl!PlanRevisionsNext

(* A plan was just applied: nothing was proposed, and no edge was revised.  *)
LEMMA PlanRevisionsInitially == Pl!PlanRevisionsInit => Pl!PlanRevisionsInv
<1> SUFFICES ASSUME Pl!PlanRevisionsInit PROVE Pl!PlanRevisionsInv
  OBVIOUS
<1> USE IntegrationAssumption
<1>1. /\ s1 = {} /\ s2 = {} /\ s5 = Pl!Idle /\ s6 = {} /\ s7 = {} /\ s8 = {}
      /\ s3 = [revision |-> 1, accepted |-> {}, automatic |-> 0, removed |-> {},
               flips |-> [e \in Edges |-> 0]]
      /\ s4 = [p \in Pl!Ids |-> Pl!Unfiled]
  BY DEF Pl!PlanRevisionsInit
<1>2. Pl!PlanShape
  BY <1>1 DEF Pl!PlanShape, Pl!Plans
<1>3. \A p \in Pl!Ids : s4[p].status = "none" /\ s4[p].applying = "no" /\ s4[p].base = 0
  BY <1>1 DEF Pl!Unfiled
<1>4. Pl!ProposalsShape
  <2>1. Pl!Unfiled \in Pl!Items
    BY DEF Pl!Unfiled, Pl!Items, Pl!Statuses
  <2> QED
    BY <1>1, <2>1 DEF Pl!ProposalsShape
<1>5. Pl!SettlingShape /\ Pl!OthersShape
  BY <1>1, NoneCounted DEF Pl!SettlingShape, Pl!OthersShape
<1>6. s5 \notin Pl!Settlings /\ s5 \notin Pl!Appliances
  BY <1>1 DEF Pl!Settlings, Pl!Appliances, Pl!Idle
<1>7. Pl!BasesArePast
  BY <1>1, <1>3 DEF Pl!BasesArePast
<1>8. Pl!OneIsMarked /\ Pl!MarkedAreOpen /\ Pl!LandedAreAccepted
  BY <1>1, <1>3, <1>6 DEF Pl!OneIsMarked, Pl!MarkedAreOpen, Pl!LandedAreAccepted, Pl!Marked
<1>9. Pl!AcceptedStay /\ Pl!WrittenHasLanded /\ Pl!TouchedAreSettled /\ Pl!LanesDecided
  BY <1>1, <1>6 DEF Pl!AcceptedStay, Pl!WrittenHasLanded, Pl!TouchedAreSettled, Pl!LanesDecided
<1>10. Pl!AutomaticAreCounted /\ Pl!FlipsAreCounted
  <2>1. Pl!Cardinality(s8) = 0 /\ \A e : Pl!Cardinality({q \in s7 : q.edge = e}) = 0
    <3>1. s8 = {} /\ \A e : {q \in s7 : q.edge = e} = {}
      BY <1>1
    <3> QED
      BY <3>1, NoneCounted
  <2> QED
    BY <1>1, <2>1 DEF Pl!AutomaticAreCounted, Pl!FlipsAreCounted
<1> QED
  BY <1>2, <1>4, <1>5, <1>7, <1>8, <1>9, <1>10 DEF Pl!PlanRevisionsInv

(* Where nothing happens nothing changes.                                    *)
LEMMA PlanRevisionsStay ==
  ASSUME Pl!PlanRevisionsInv, UNCHANGED Pl!plVars
  PROVE  /\ Pl!PlanRevisionsInv'
         /\ Pl!RevisionsLandOnTheirGroundStep
         /\ Pl!LanesDoNotFlipEdgesStep
<1>1. /\ Pl!PlanShape
      /\ Pl!ProposalsShape
      /\ Pl!SettlingShape
      /\ Pl!OthersShape
      /\ Pl!BasesArePast
      /\ Pl!OneIsMarked
      /\ Pl!MarkedAreOpen
      /\ Pl!AcceptedStay
      /\ Pl!LandedAreAccepted
      /\ Pl!WrittenHasLanded
      /\ Pl!TouchedAreSettled
      /\ Pl!LanesDecided
      /\ Pl!AutomaticAreCounted
      /\ Pl!FlipsAreCounted
  BY DEF Pl!PlanRevisionsInv
<1>2. /\ s1' = s1 /\ s2' = s2 /\ s3' = s3 /\ s4' = s4 /\ s5' = s5 /\ s6' = s6
      /\ s7' = s7 /\ s8' = s8
  BY DEF Pl!plVars
<1>3. Pl!PlanShape' /\ Pl!ProposalsShape' /\ Pl!SettlingShape'
  BY <1>1, <1>2, Zenon DEF Pl!PlanShape, Pl!Plans, Pl!ProposalsShape, Pl!Items, Pl!SettlingShape
<1>4. Pl!OthersShape' /\ Pl!BasesArePast' /\ Pl!OneIsMarked'
  BY <1>1, <1>2, Zenon DEF Pl!OthersShape, Pl!BasesArePast, Pl!OneIsMarked, Pl!Marked,
     Pl!ByOperator
<1>5. Pl!MarkedAreOpen' /\ Pl!AcceptedStay' /\ Pl!LandedAreAccepted'
  BY <1>1, <1>2, Zenon DEF Pl!MarkedAreOpen, Pl!Marked, Pl!AcceptedStay, Pl!LandedAreAccepted
<1>6. Pl!WrittenHasLanded' /\ Pl!TouchedAreSettled' /\ Pl!LanesDecided'
  BY <1>1, <1>2, Zenon DEF Pl!WrittenHasLanded, Pl!TouchedAreSettled, Pl!LanesDecided,
     Pl!ByOperator
<1>7. Pl!AutomaticAreCounted' /\ Pl!FlipsAreCounted'
  BY <1>1, <1>2, Zenon DEF Pl!AutomaticAreCounted, Pl!FlipsAreCounted
<1>8. Pl!RevisionsLandOnTheirGroundStep
  BY <1>1, <1>2 DEF Pl!RevisionsLandOnTheirGroundStep
<1>9. Pl!LanesDoNotFlipEdgesStep
  BY <1>1, <1>2 DEF Pl!LanesDoNotFlipEdgesStep
<1> QED
  BY <1>3, <1>4, <1>5, <1>6, <1>7, <1>8, <1>9 DEF Pl!PlanRevisionsInv

(* The invariant says what the run asks of plan revisions.                   *)
LEMMA PlanRevisionsSaySo ==
  Pl!PlanRevisionsInv =>
    /\ Pl!PlanRevisionsTypeOK
    /\ Pl!EnvelopeBoundsLanes /\ Pl!FilesAgreeOnRevisions
<1> SUFFICES ASSUME Pl!PlanRevisionsInv
             PROVE  /\ Pl!PlanRevisionsTypeOK
                    /\ Pl!EnvelopeBoundsLanes /\ Pl!FilesAgreeOnRevisions
  OBVIOUS
<1> USE IntegrationAssumption
<1>1. /\ Pl!PlanShape /\ Pl!ProposalsShape /\ Pl!SettlingShape /\ Pl!OthersShape
      /\ Pl!LandedAreAccepted /\ Pl!AutomaticAreCounted
  BY Zenon DEF Pl!PlanRevisionsInv
<1>2. s3.accepted \subseteq Pl!Ids /\ s3.revision \in 1..MaxVersion /\ s3.removed \subseteq Edges
      /\ s3.automatic \in 0..MaxAutomatic
  BY <1>1 DEF Pl!PlanShape, Pl!Plans
<1>3. ASSUME NEW p \in Pl!Ids
      PROVE  s4[p].status \in Pl!Statuses /\ s4[p].applying \in {"no", "new", "decided"}
  <2>1. s4[p] \in Pl!Items
    BY <1>1 DEF Pl!ProposalsShape
  <2> QED
    BY <2>1 DEF Pl!Items
<1>4. s5.at \in {"idle", "marked", "written", "applied"}
  BY <1>1 DEF Pl!SettlingShape, Pl!Idle, Pl!Settlings, Pl!Appliances
<1>5. Pl!PlanRevisionsTypeOK
  BY <1>1, <1>2, <1>3, <1>4, Zenon DEF Pl!PlanRevisionsTypeOK, Pl!OthersShape
<1>6. Pl!EnvelopeBoundsLanes
  <2>1. Pl!Cardinality(s8) \in Nat
    BY <1>1, CountedSets DEF Pl!OthersShape
  <2>2. s3.automatic = MaxAutomatic => s8 \subseteq s3.accepted
    BY <1>1, Zenon DEF Pl!AutomaticAreCounted
  <2>3. Pl!Cardinality(s8) <= s3.automatic + (IF s8 \subseteq s3.accepted THEN 0 ELSE 1)
    BY <1>1, Zenon DEF Pl!AutomaticAreCounted
  <2>4. CASE s8 \subseteq s3.accepted
    <3>1. Pl!Cardinality(s8) <= s3.automatic + 0
      BY <2>3, <2>4, Zenon
    <3> QED
      BY <1>2, <2>1, <3>1 DEF Pl!EnvelopeBoundsLanes
  <2>5. CASE ~(s8 \subseteq s3.accepted)
    <3>1. Pl!Cardinality(s8) <= s3.automatic + 1 /\ s3.automatic # MaxAutomatic
      BY <2>2, <2>3, <2>5, Zenon
    <3> QED
      BY <1>2, <2>1, <3>1 DEF Pl!EnvelopeBoundsLanes
  <2> QED
    BY <2>4, <2>5, Zenon
<1>7. Pl!FilesAgreeOnRevisions
  BY <1>1, Zenon DEF Pl!LandedAreAccepted, Pl!FilesAgreeOnRevisions
<1> QED
  BY <1>5, <1>6, <1>7

(* What decide records, or asks to be confirmed, keeps the invariant.        *)
LEMMA DecideKeeps ==
  ASSUME Si!DecisionsInv,
         NEW a \in Si!Answerers,
         NEW n \in Nat,
         NEW option \in Si!Option,
         NEW sure \in BOOLEAN,
         sure => <<n, option>> \in s4,
         Si!Decide(a, n, option, sure)
  PROVE  Si!DecisionsInv' /\ Si!AnswersStandStep
<1> USE IntegrationAssumption
<1>1. /\ Si!DecidedShape
      /\ Si!AnswererShape
      /\ Si!AskedShape
      /\ Si!AskedIsNumbered
      /\ Si!AnswersArePast
      /\ Si!GraveWereAsked
      /\ Si!GraveAnswersWereConfirmed
      /\ Si!CarriedOutOnce
  BY DEF Si!DecisionsInv
<1>2. s1 \in [n : 0..MaxOccurrence, state : {"none", "open", "answered", "closed", "stale", "expired"},
            late : BOOLEAN, answer : Si!Option \cup {Si!NoAnswer}, applied : BOOLEAN]
  BY <1>1 DEF Si!DecidedShape
<1>3. s1.n \in Nat /\ s1.n <= MaxOccurrence
  BY <1>2
<1>4. s1' = s1 /\ s3' = s3 /\ s5' = s5
  BY Zenon DEF Si!Decide
<1>5. n = s1.n /\ n \in Si!Occurrence
  <2>1. s1.n = n /\ s1.state = "open"
    BY Zenon DEF Si!Decide, Si!Admits
  <2> QED
    BY <1>1, <2>1, <1>3 DEF Si!AskedIsNumbered, Si!Occurrence
<1>6. PICK v : v = [of |-> n, option |-> option]
  OBVIOUS
<1>7. \/ s4' = s4 \cup {<<n, option>>} /\ s2' = s2
      \/ s2' = [s2 EXCEPT ![a] = v] /\ s4' = s4 /\ (option = "grave" => sure)
  <2>1. CASE Si!Confirming(option, sure)
    BY <2>1, <1>5, Zenon DEF Si!Decide
  <2>2. CASE ~Si!Confirming(option, sure)
    <3>1. option = "grave" => sure
      BY <2>2, Zenon DEF Si!Confirming
    <3>2. s2' = [s2 EXCEPT ![a] = v] /\ s4' = s4
      BY <2>2, <1>6, Zenon DEF Si!Decide
    <3> QED
      BY <3>1, <3>2
  <2> QED
    BY <2>1, <2>2
<1>8. s2 \in [Si!Answerers -> [of : 0..MaxOccurrence, option : Si!Option \cup {Si!NoAnswer}]]
  BY <1>1 DEF Si!AnswererShape
<1>9. v \in [of : 0..MaxOccurrence, option : Si!Option \cup {Si!NoAnswer}] /\ v.of = n /\ v.option = option
  BY <1>6, <1>5, <1>3
<1>10. s2' \in [Si!Answerers -> [of : 0..MaxOccurrence, option : Si!Option \cup {Si!NoAnswer}]]
       /\ \A b \in Si!Answerers : s2'[b] = s2[b] \/ (b = a /\ s2'[b] = v /\ (option = "grave" => sure))
  BY <1>8, <1>9, <1>7
<1>11. s4 \subseteq s4' /\ s4' \subseteq s4 \cup {<<n, option>>}
  BY <1>7
<1>12. Si!DecidedShape' /\ Si!AskedIsNumbered' /\ Si!CarriedOutOnce'
  BY <1>1, <1>4, Zenon DEF Si!DecidedShape, Si!AskedIsNumbered, Si!CarriedOutOnce
<1>13. Si!AnswererShape'
  BY <1>10 DEF Si!AnswererShape
<1>14. Si!AskedShape'
  BY <1>1, <1>4, <1>11, <1>5 DEF Si!AskedShape
<1>15. Si!AnswersArePast'
  BY <1>1, <1>4, <1>10, <1>9, <1>5 DEF Si!AnswersArePast
<1>16. Si!GraveWereAsked'
  <2> SUFFICES ASSUME NEW b \in Si!Answerers, s2'[b].option = "grave"
               PROVE  \E k \in 1..s2'[b].of : <<k, "grave">> \in s4'
    BY DEF Si!GraveWereAsked
  <2>1. CASE s2'[b] = s2[b]
    BY <1>1, <2>1, <1>11 DEF Si!GraveWereAsked
  <2>2. CASE s2'[b] = v /\ (option = "grave" => sure)
    <3>1. <<n, "grave">> \in s4' /\ n \in 1..s2'[b].of
      BY <2>2, <1>9, <1>11, <1>5 DEF Si!Occurrence
    <3> QED
      BY <3>1
  <2> QED
    BY <2>1, <2>2, <1>10
<1>17. Si!GraveAnswersWereConfirmed'
  BY <1>1, <1>4, <1>11 DEF Si!GraveAnswersWereConfirmed
<1>18. Si!AnswersStandStep
  BY <1>4 DEF Si!AnswersStandStep
<1> QED
  BY <1>12, <1>13, <1>14, <1>15, <1>16, <1>17, <1>18 DEF Si!DecisionsInv

(* Every step of a decision keeps the invariant, and the first answer.       *)
LEMMA DecisionsStep ==
  ASSUME Si!DecisionsInv, Si!DecisionsNext
  PROVE  Si!DecisionsInv' /\ Si!AnswersStandStep
<1> USE IntegrationAssumption
<1>1. /\ Si!DecidedShape
      /\ Si!AnswererShape
      /\ Si!AskedShape
      /\ Si!AskedIsNumbered
      /\ Si!AnswersArePast
      /\ Si!GraveWereAsked
      /\ Si!GraveAnswersWereConfirmed
      /\ Si!CarriedOutOnce
  BY DEF Si!DecisionsInv
<1>2. ASSUME Si!OpenOrRefresh
      PROVE  Si!DecisionsInv' /\ Si!AnswersStandStep
  <2>1. s2' = s2 /\ s3' = s3 /\ s4' = s4 /\ s5' = s5
    BY <1>2, Zenon DEF Si!OpenOrRefresh
  <2>2. s1 \in [n : 0..MaxOccurrence, state : {"none", "open", "answered", "closed", "stale", "expired"},
              late : BOOLEAN, answer : Si!Option \cup {Si!NoAnswer}, applied : BOOLEAN]
    BY <1>1 DEF Si!DecidedShape
  <2>3. s1.n \in Nat /\ s1.n <= MaxOccurrence
    BY <2>2
  <2>4. \/ s1.state = "open" /\ s1' = [s1 EXCEPT !.late = FALSE]
        \/ s1' = Si!Fresh(s1.n + 1) /\ s1.n < MaxOccurrence
    <3>1. PICK r : r = [s1 EXCEPT !.state = "expired"]
      OBVIOUS
    <3>2. r.state = "expired" /\ r.n = s1.n
      BY <3>1, <2>2
    <3>3. Si!Expired(s1) = IF s1.state = "open" /\ s1.late THEN r ELSE s1
      BY <3>1, Zenon DEF Si!Expired
    <3>4. s1' = Si!Opened(s1) /\ (Si!Expired(s1).state = "open" \/ s1.n < MaxOccurrence)
      BY <1>2, Zenon DEF Si!OpenOrRefresh
    <3>5. CASE s1.state = "open" /\ s1.late
      <4>1. s1' = Si!Fresh(s1.n + 1)
        BY <3>2, <3>3, <3>4, <3>5 DEF Si!Opened
      <4> QED
        BY <3>2, <3>3, <3>4, <3>5, <4>1
    <3>6. CASE s1.state = "open" /\ ~s1.late
      <4>1. Si!Expired(s1) = s1
        BY <3>3, <3>6
      <4> QED
        BY <4>1, <3>4, <3>6, Zenon DEF Si!Opened
    <3>7. CASE s1.state # "open"
      <4>1. Si!Expired(s1) = s1
        BY <3>3, <3>7
      <4> QED
        BY <4>1, <3>4, <3>7, Zenon DEF Si!Opened
    <3> QED
      BY <3>5, <3>6, <3>7
  <2>5. s1' \in [n : 0..MaxOccurrence, state : {"none", "open", "answered", "closed", "stale", "expired"},
              late : BOOLEAN, answer : Si!Option \cup {Si!NoAnswer}, applied : BOOLEAN]
        /\ \/ s1'.n = s1.n /\ s1'.state = s1.state /\ s1'.answer = s1.answer /\ s1'.applied = s1.applied
              /\ s1.state = "open"
           \/ s1'.n = s1.n + 1 /\ s1'.state = "open" /\ s1'.answer = Si!NoAnswer /\ s1'.applied = FALSE
    <3>1. CASE s1.state = "open" /\ s1' = [s1 EXCEPT !.late = FALSE]
      BY <3>1, <2>2
    <3>2. CASE s1' = Si!Fresh(s1.n + 1) /\ s1.n < MaxOccurrence
      <4>1. s1' = [n |-> s1.n + 1, state |-> "open", late |-> FALSE, answer |-> Si!NoAnswer, applied |-> FALSE]
        BY <3>2 DEF Si!Fresh
      <4>2. s1.n + 1 \in 0..MaxOccurrence
        BY <3>2, <2>3
      <4> QED
        BY <4>1, <4>2
    <3> QED
      BY <2>4, <3>1, <3>2
  <2>6. Si!AnswererShape' /\ Si!AskedShape' /\ Si!GraveWereAsked'
    BY <1>1, <2>1, Zenon DEF Si!AnswererShape, Si!AskedShape, Si!GraveWereAsked
  <2>7. Si!DecidedShape'
    BY <2>5 DEF Si!DecidedShape
  <2>8. Si!AskedIsNumbered'
    BY <1>1, <2>5, <2>3, <2>4 DEF Si!AskedIsNumbered
  <2>9. Si!AnswersArePast'
    BY <1>1, <2>1, <2>5, <2>3 DEF Si!AnswersArePast, Si!AnswererShape
  <2>10. Si!GraveAnswersWereConfirmed'
    BY <1>1, <2>1, <2>5 DEF Si!GraveAnswersWereConfirmed
  <2>11. Si!CarriedOutOnce'
    BY <1>1, <2>1, <2>5, <2>4 DEF Si!CarriedOutOnce
  <2>12. Si!AnswersStandStep
    BY <2>5, <2>3 DEF Si!AnswersStandStep
  <2> QED
    BY <2>6, <2>7, <2>8, <2>9, <2>10, <2>11, <2>12 DEF Si!DecisionsInv
<1>3. ASSUME Si!Posted
      PROVE  Si!DecisionsInv' /\ Si!AnswersStandStep
  <2>1. s1' = s1 /\ s2' = s2 /\ s4' = s4 /\ s5' = s5
    BY <1>3, Zenon DEF Si!Posted
  <2>2. s3' = s3 \cup {s1.n}
    BY <1>3, Zenon DEF Si!Posted
  <2>3. s1 \in [n : 0..MaxOccurrence, state : {"none", "open", "answered", "closed", "stale", "expired"},
              late : BOOLEAN, answer : Si!Option \cup {Si!NoAnswer}, applied : BOOLEAN]
    BY <1>1 DEF Si!DecidedShape
  <2>4. s1.n \in Nat /\ s1.n <= MaxOccurrence
    BY <2>3
  <2>5. s1.state = "open"
    BY <1>3, Zenon DEF Si!Posted
  <2>6. s1.n \in 1..MaxOccurrence
    BY <1>1, <2>5, <2>4 DEF Si!AskedIsNumbered
  <2>7. Si!DecidedShape' /\ Si!AnswererShape' /\ Si!AskedIsNumbered'
    BY <1>1, <2>1, Zenon DEF Si!DecidedShape, Si!AnswererShape, Si!AskedIsNumbered
  <2>8. Si!AnswersArePast' /\ Si!GraveWereAsked' /\ Si!GraveAnswersWereConfirmed'
    BY <1>1, <2>1, Zenon DEF Si!AnswersArePast, Si!GraveWereAsked, Si!GraveAnswersWereConfirmed
  <2>9. Si!CarriedOutOnce'
    BY <1>1, <2>1, Zenon DEF Si!CarriedOutOnce
  <2>10. Si!AskedShape'
    BY <1>1, <2>1, <2>2, <2>6 DEF Si!AskedShape, Si!Occurrence
  <2>11. Si!AnswersStandStep
    BY <2>1 DEF Si!AnswersStandStep
  <2> QED
    BY <2>7, <2>8, <2>9, <2>10, <2>11 DEF Si!DecisionsInv
<1>4. ASSUME Si!Close
      PROVE  Si!DecisionsInv' /\ Si!AnswersStandStep
  <2>1. s2' = s2 /\ s3' = s3 /\ s4' = s4 /\ s5' = s5
    BY <1>4, Zenon DEF Si!Close
  <2>2. s1 \in [n : 0..MaxOccurrence, state : {"none", "open", "answered", "closed", "stale", "expired"},
              late : BOOLEAN, answer : Si!Option \cup {Si!NoAnswer}, applied : BOOLEAN]
    BY <1>1 DEF Si!DecidedShape
  <2>3. s1.n \in Nat /\ s1.n <= MaxOccurrence
    BY <2>2
  <2>4. PICK r : r = [s1 EXCEPT !.state = "closed"] /\ s1' = r
    BY <1>4, Zenon DEF Si!Close
  <2>5. s1.state = "open"
    BY <1>4, Zenon DEF Si!Close
  <2>6. s1' \in [n : 0..MaxOccurrence, state : {"none", "open", "answered", "closed", "stale", "expired"},
              late : BOOLEAN, answer : Si!Option \cup {Si!NoAnswer}, applied : BOOLEAN]
        /\ s1'.n = s1.n /\ s1'.state = "closed" /\ s1'.answer = s1.answer /\ s1'.applied = s1.applied
    BY <2>2, <2>4, <2>5
  <2>7. Si!AnswererShape' /\ Si!AskedShape' /\ Si!GraveWereAsked'
    BY <1>1, <2>1, Zenon DEF Si!AnswererShape, Si!AskedShape, Si!GraveWereAsked
  <2>8. Si!DecidedShape'
    BY <2>6 DEF Si!DecidedShape
  <2>9. Si!AskedIsNumbered'
    BY <1>1, <2>6, <2>3, <2>5 DEF Si!AskedIsNumbered
  <2>10. Si!AnswersArePast'
    BY <1>1, <2>1, <2>6, <2>3 DEF Si!AnswersArePast, Si!AnswererShape
  <2>11. Si!GraveAnswersWereConfirmed'
    BY <1>1, <2>1, <2>6 DEF Si!GraveAnswersWereConfirmed
  <2>12. Si!CarriedOutOnce'
    BY <1>1, <2>1, <2>6, <2>5 DEF Si!CarriedOutOnce
  <2>13. Si!AnswersStandStep
    BY <2>5 DEF Si!AnswersStandStep
  <2> QED
    BY <2>7, <2>8, <2>9, <2>10, <2>11, <2>12, <2>13 DEF Si!DecisionsInv
<1>5. ASSUME Si!Stale
      PROVE  Si!DecisionsInv' /\ Si!AnswersStandStep
  <2>1. s2' = s2 /\ s3' = s3 /\ s4' = s4 /\ s5' = s5
    BY <1>5, Zenon DEF Si!Stale
  <2>2. s1 \in [n : 0..MaxOccurrence, state : {"none", "open", "answered", "closed", "stale", "expired"},
              late : BOOLEAN, answer : Si!Option \cup {Si!NoAnswer}, applied : BOOLEAN]
    BY <1>1 DEF Si!DecidedShape
  <2>3. s1.n \in Nat /\ s1.n <= MaxOccurrence
    BY <2>2
  <2>4. PICK r : r = [s1 EXCEPT !.state = "stale"] /\ s1' = r
    BY <1>5, Zenon DEF Si!Stale
  <2>5. ~s1.applied /\ s1.state \in {"open", "answered"}
    BY <1>5, Zenon DEF Si!Stale, Si!MayStale
  <2>6. s1' \in [n : 0..MaxOccurrence, state : {"none", "open", "answered", "closed", "stale", "expired"},
              late : BOOLEAN, answer : Si!Option \cup {Si!NoAnswer}, applied : BOOLEAN]
        /\ s1'.n = s1.n /\ s1'.state = "stale" /\ s1'.answer = s1.answer /\ s1'.applied = s1.applied
    BY <2>2, <2>4, <2>5
  <2>7. Si!AnswererShape' /\ Si!AskedShape' /\ Si!GraveWereAsked'
    BY <1>1, <2>1, Zenon DEF Si!AnswererShape, Si!AskedShape, Si!GraveWereAsked
  <2>8. Si!DecidedShape'
    BY <2>6 DEF Si!DecidedShape
  <2>9. Si!AskedIsNumbered'
    BY <1>1, <2>6, <2>3, <2>5 DEF Si!AskedIsNumbered
  <2>10. Si!AnswersArePast'
    BY <1>1, <2>1, <2>6, <2>3 DEF Si!AnswersArePast, Si!AnswererShape
  <2>11. Si!GraveAnswersWereConfirmed'
    BY <1>1, <2>1, <2>6 DEF Si!GraveAnswersWereConfirmed
  <2>12. Si!CarriedOutOnce'
    BY <1>1, <2>1, <2>6, <2>5 DEF Si!CarriedOutOnce
  <2>13. Si!AnswersStandStep
    BY <2>5, <2>6 DEF Si!AnswersStandStep
  <2> QED
    BY <2>7, <2>8, <2>9, <2>10, <2>11, <2>12, <2>13 DEF Si!DecisionsInv
<1>6. ASSUME Si!Applied
      PROVE  Si!DecisionsInv' /\ Si!AnswersStandStep
  <2>1. s2' = s2 /\ s3' = s3 /\ s4' = s4
    BY <1>6, Zenon DEF Si!Applied
  <2>2. s1 \in [n : 0..MaxOccurrence, state : {"none", "open", "answered", "closed", "stale", "expired"},
              late : BOOLEAN, answer : Si!Option \cup {Si!NoAnswer}, applied : BOOLEAN]
    BY <1>1 DEF Si!DecidedShape
  <2>3. s1.n \in Nat /\ s1.n <= MaxOccurrence
    BY <2>2
  <2>4. PICK r : r = [s1 EXCEPT !.applied = TRUE] /\ s1' = r
    BY <1>6, Zenon DEF Si!Applied
  <2>5. ~s1.applied /\ s1.state = "answered" /\ s5' = (s5 \/ s1.applied)
    BY <1>6, Zenon DEF Si!Applied, Si!MayApply
  <2>6. s1' \in [n : 0..MaxOccurrence, state : {"none", "open", "answered", "closed", "stale", "expired"},
              late : BOOLEAN, answer : Si!Option \cup {Si!NoAnswer}, applied : BOOLEAN]
        /\ s1'.n = s1.n /\ s1'.state = s1.state /\ s1'.answer = s1.answer
    BY <2>2, <2>4, <2>5
  <2>7. s5' \in BOOLEAN
    BY <2>5, Zenon
  <2>8. Si!AnswererShape' /\ Si!AskedShape' /\ Si!GraveWereAsked'
    BY <1>1, <2>1, <2>7, Zenon DEF Si!AnswererShape, Si!AskedShape, Si!GraveWereAsked
  <2>9. Si!DecidedShape'
    BY <2>6 DEF Si!DecidedShape
  <2>10. Si!AskedIsNumbered'
    BY <1>1, <2>6, <2>3, <2>5 DEF Si!AskedIsNumbered
  <2>11. Si!AnswersArePast'
    BY <1>1, <2>1, <2>6, <2>3 DEF Si!AnswersArePast, Si!AnswererShape
  <2>12. Si!GraveAnswersWereConfirmed'
    BY <1>1, <2>1, <2>6 DEF Si!GraveAnswersWereConfirmed
  <2>13. Si!CarriedOutOnce'
    <3>1. ~s5'
      BY <1>1, <2>5, Zenon DEF Si!CarriedOutOnce
    <3> QED
      BY <3>1, <2>6, <2>5 DEF Si!CarriedOutOnce
  <2>14. Si!AnswersStandStep
    BY <2>6 DEF Si!AnswersStandStep
  <2> QED
    BY <2>8, <2>9, <2>10, <2>11, <2>12, <2>13, <2>14 DEF Si!DecisionsInv
<1>7. ASSUME Si!ExpiryComes
      PROVE  Si!DecisionsInv' /\ Si!AnswersStandStep
  <2>1. s2' = s2 /\ s3' = s3 /\ s4' = s4 /\ s5' = s5
    BY <1>7, Zenon DEF Si!ExpiryComes
  <2>2. s1 \in [n : 0..MaxOccurrence, state : {"none", "open", "answered", "closed", "stale", "expired"},
              late : BOOLEAN, answer : Si!Option \cup {Si!NoAnswer}, applied : BOOLEAN]
    BY <1>1 DEF Si!DecidedShape
  <2>3. s1.n \in Nat /\ s1.n <= MaxOccurrence
    BY <2>2
  <2>4. PICK r : r = [s1 EXCEPT !.late = TRUE] /\ s1' = r
    BY <1>7, Zenon DEF Si!ExpiryComes
  <2>5. s1.state = "open"
    BY <1>7, Zenon DEF Si!ExpiryComes
  <2>6. s1' \in [n : 0..MaxOccurrence, state : {"none", "open", "answered", "closed", "stale", "expired"},
              late : BOOLEAN, answer : Si!Option \cup {Si!NoAnswer}, applied : BOOLEAN]
        /\ s1'.n = s1.n /\ s1'.state = s1.state /\ s1'.answer = s1.answer /\ s1'.applied = s1.applied
    BY <2>2, <2>4, <2>5
  <2>7. Si!AnswererShape' /\ Si!AskedShape' /\ Si!GraveWereAsked'
    BY <1>1, <2>1, Zenon DEF Si!AnswererShape, Si!AskedShape, Si!GraveWereAsked
  <2>8. Si!DecidedShape'
    BY <2>6 DEF Si!DecidedShape
  <2>9. Si!AskedIsNumbered'
    BY <1>1, <2>6, <2>3, <2>5 DEF Si!AskedIsNumbered
  <2>10. Si!AnswersArePast'
    BY <1>1, <2>1, <2>6, <2>3 DEF Si!AnswersArePast, Si!AnswererShape
  <2>11. Si!GraveAnswersWereConfirmed'
    BY <1>1, <2>1, <2>6 DEF Si!GraveAnswersWereConfirmed
  <2>12. Si!CarriedOutOnce'
    BY <1>1, <2>1, <2>6, <2>5 DEF Si!CarriedOutOnce
  <2>13. Si!AnswersStandStep
    BY <2>6 DEF Si!AnswersStandStep
  <2> QED
    BY <2>7, <2>8, <2>9, <2>10, <2>11, <2>12, <2>13 DEF Si!DecisionsInv
<1>8. ASSUME NEW a \in Si!Answerers, Si!Answer(a)
      PROVE  Si!DecisionsInv' /\ Si!AnswersStandStep
  <2>1. s3' = s3 /\ s4' = s4 /\ s5' = s5
    BY <1>8, Zenon DEF Si!Answer
  <2>2. s2' = [s2 EXCEPT ![a] = Si!NotAsked]
    BY <1>8, Zenon DEF Si!Answer
  <2>3. s1 \in [n : 0..MaxOccurrence, state : {"none", "open", "answered", "closed", "stale", "expired"},
              late : BOOLEAN, answer : Si!Option \cup {Si!NoAnswer}, applied : BOOLEAN]
    BY <1>1 DEF Si!DecidedShape
  <2>4. s1.n \in Nat /\ s1.n <= MaxOccurrence
    BY <2>3
  <2>5. s2 \in [Si!Answerers -> [of : 0..MaxOccurrence, option : Si!Option \cup {Si!NoAnswer}]]
    BY <1>1 DEF Si!AnswererShape
  <2>6. Si!NotAsked \in [of : 0..MaxOccurrence, option : Si!Option \cup {Si!NoAnswer}]
        /\ Si!NotAsked.of = 0 /\ Si!NotAsked.option = Si!NoAnswer /\ Si!NoAnswer # "grave"
    BY DEF Si!NotAsked, Si!NoAnswer
  <2>7. s2' \in [Si!Answerers -> [of : 0..MaxOccurrence, option : Si!Option \cup {Si!NoAnswer}]]
        /\ \A b \in Si!Answerers : s2'[b] = IF b = a THEN Si!NotAsked ELSE s2[b]
    BY <2>5, <2>6, <2>2
  <2>8. PICK r : r = Si!Expired(s1)
                 /\ IF Si!Refused(r) THEN s1' = s1 ELSE s1' = [r EXCEPT !.state = "answered", !.answer = s2[a].option]
    BY <1>8, Zenon DEF Si!Answer
  <2>9. \/ s1' = s1
        \/ /\ s1' \in [n : 0..MaxOccurrence, state : {"none", "open", "answered", "closed", "stale", "expired"},
                          late : BOOLEAN, answer : Si!Option \cup {Si!NoAnswer}, applied : BOOLEAN]
           /\ s1'.n = s1.n /\ s1'.state = "answered" /\ s1'.answer = s2[a].option /\ s1.state = "open"
           /\ s1'.applied = s1.applied
    <3>1. CASE Si!Refused(r)
      BY <3>1, <2>8
    <3>2. CASE ~Si!Refused(r)
      <4>1. r.state = "open"
        BY <3>2 DEF Si!Refused
      <4>2. PICK q : q = [s1 EXCEPT !.state = "expired"]
        OBVIOUS
      <4>3. q.state = "expired" /\ (r = s1 \/ r = q)
        <5>1. r = s1 \/ r = q
          BY <2>8, <4>2, Zenon DEF Si!Expired
        <5> QED
          BY <5>1, <4>2, <2>3
      <4>4. r = s1
        BY <4>1, <4>3
      <4>5. PICK o : o = s2[a].option
        OBVIOUS
      <4>6. o \in Si!Option \cup {Si!NoAnswer}
        BY <2>5, <4>5
      <4>7. s1' = [s1 EXCEPT !.state = "answered", !.answer = o]
        BY <2>8, <3>2, <4>4, <4>5
      <4>8. s1 = [n |-> s1.n, state |-> s1.state, late |-> s1.late, answer |-> s1.answer, applied |-> s1.applied]
        BY <2>3
      <4>9. s1' = [n |-> s1.n, state |-> "answered", late |-> s1.late, answer |-> o, applied |-> s1.applied]
        BY <4>7, <4>8
      <4> QED
        BY <4>1, <4>4, <4>5, <4>6, <4>9, <2>3
    <3> QED
      BY <3>1, <3>2
  <2>10. Si!AskedShape'
    BY <1>1, <2>1, Zenon DEF Si!AskedShape
  <2>11. Si!DecidedShape'
    BY <2>3, <2>9 DEF Si!DecidedShape
  <2>12. Si!AnswererShape'
    BY <2>7 DEF Si!AnswererShape
  <2>13. Si!AskedIsNumbered'
    BY <1>1, <2>9 DEF Si!AskedIsNumbered
  <2>14. Si!AnswersArePast'
    BY <1>1, <2>9, <2>7, <2>4, <2>6 DEF Si!AnswersArePast
  <2>15. Si!GraveWereAsked'
    BY <1>1, <2>1, <2>7, <2>6 DEF Si!GraveWereAsked
  <2>16. Si!GraveAnswersWereConfirmed'
    <3>1. CASE s1' = s1
      BY <1>1, <3>1, <2>1, Zenon DEF Si!GraveAnswersWereConfirmed
    <3>2. CASE s1'.n = s1.n /\ s1'.answer = s2[a].option
      <4>1. s2[a].of <= s1.n /\ s2[a].of \in Nat
        BY <1>1, <2>5 DEF Si!AnswersArePast
      <4>2. s2[a].option = "grave" => \E n \in 1..s2[a].of : <<n, "grave">> \in s4
        BY <1>1, Zenon DEF Si!GraveWereAsked
      <4>3. 1..s2[a].of \subseteq 1..s1.n
        BY <4>1, <2>4
      <4> QED
        BY <3>2, <4>2, <4>3, <2>1, Zenon DEF Si!GraveAnswersWereConfirmed
    <3> QED
      BY <3>1, <3>2, <2>9
  <2>17. Si!CarriedOutOnce'
    BY <1>1, <2>1, <2>9 DEF Si!CarriedOutOnce
  <2>18. Si!AnswersStandStep
    BY <2>9 DEF Si!AnswersStandStep
  <2> QED
    BY <2>10, <2>11, <2>12, <2>13, <2>14, <2>15, <2>16, <2>17, <2>18 DEF Si!DecisionsInv
<1>9. ASSUME Si!Tap
      PROVE  Si!DecisionsInv' /\ Si!AnswersStandStep
  <2>1. PICK n \in s3, option \in Si!Option : \E sure \in BOOLEAN : (sure => <<n, option>> \in s4) /\ Si!Decide("chat", n, option, sure)
    BY <1>9, Zenon DEF Si!Tap
  <2>2. PICK sure \in BOOLEAN : (sure => <<n, option>> \in s4) /\ Si!Decide("chat", n, option, sure)
    BY <2>1, Zenon
  <2>3. n \in Nat /\ "chat" \in Si!Answerers
    BY <1>1 DEF Si!AskedShape, Si!Occurrence, Si!Answerers
  <2> QED
    BY <2>2, <2>3, DecideKeeps
<1>10. ASSUME Si!Typed
       PROVE  Si!DecisionsInv' /\ Si!AnswersStandStep
  <2>1. PICK option \in Si!Option : Si!Decide("cli", s1.n, option, FALSE)
    BY <1>10, Zenon DEF Si!Typed
  <2>2. s1.n \in Nat /\ "cli" \in Si!Answerers
    BY <1>1 DEF Si!DecidedShape, Si!Answerers
  <2>3. PICK n \in Nat, sure \in BOOLEAN : n = s1.n /\ sure = FALSE
    BY <2>2
  <2> QED
    BY <2>1, <2>2, <2>3, DecideKeeps
<1> QED
  BY <1>2, <1>3, <1>4, <1>5, <1>6, <1>7, <1>8, <1>9, <1>10, Zenon DEF Si!DecisionsNext

(* Nothing was asked, and nobody answers.                                    *)
LEMMA DecisionsInitially == Si!DecisionsInit => Si!DecisionsInv
<1> SUFFICES ASSUME Si!DecisionsInit PROVE Si!DecisionsInv
  OBVIOUS
<1> USE IntegrationAssumption
<1>1. /\ s1 = [n |-> 0, state |-> "none", late |-> FALSE, answer |-> Si!NoAnswer, applied |-> FALSE]
      /\ s2 = [a \in Si!Answerers |-> Si!NotAsked] /\ s3 = {} /\ s4 = {} /\ s5 = FALSE
  BY DEF Si!DecisionsInit, Si!Fresh
<1>2. Si!NotAsked = [of |-> 0, option |-> Si!NoAnswer] /\ Si!NoAnswer # "grave"
  BY DEF Si!NotAsked, Si!NoAnswer
<1>3. Si!DecidedShape /\ Si!AskedIsNumbered /\ Si!GraveAnswersWereConfirmed /\ Si!CarriedOutOnce
  BY <1>1 DEF Si!DecidedShape, Si!AskedIsNumbered, Si!GraveAnswersWereConfirmed, Si!CarriedOutOnce
<1>4. Si!AnswererShape /\ Si!AnswersArePast /\ Si!GraveWereAsked
  BY <1>1, <1>2 DEF Si!AnswererShape, Si!AnswersArePast, Si!GraveWereAsked
<1>5. Si!AskedShape
  BY <1>1 DEF Si!AskedShape
<1> QED
  BY <1>3, <1>4, <1>5 DEF Si!DecisionsInv

(* Where nothing happens nothing changes.                                    *)
LEMMA DecisionsStay ==
  ASSUME Si!DecisionsInv, UNCHANGED Si!decVars
  PROVE  Si!DecisionsInv' /\ Si!AnswersStandStep
<1>1. /\ Si!DecidedShape
      /\ Si!AnswererShape
      /\ Si!AskedShape
      /\ Si!AskedIsNumbered
      /\ Si!AnswersArePast
      /\ Si!GraveWereAsked
      /\ Si!GraveAnswersWereConfirmed
      /\ Si!CarriedOutOnce
  BY DEF Si!DecisionsInv
<1>2. s1' = s1 /\ s2' = s2 /\ s3' = s3 /\ s4' = s4 /\ s5' = s5
  BY DEF Si!decVars
<1>3. Si!DecidedShape' /\ Si!AnswererShape' /\ Si!AskedShape'
  BY <1>1, <1>2, Zenon DEF Si!DecidedShape, Si!AnswererShape, Si!AskedShape
<1>4. Si!AskedIsNumbered' /\ Si!AnswersArePast' /\ Si!GraveWereAsked'
  BY <1>1, <1>2, Zenon DEF Si!AskedIsNumbered, Si!AnswersArePast, Si!GraveWereAsked
<1>5. Si!GraveAnswersWereConfirmed' /\ Si!CarriedOutOnce'
  BY <1>1, <1>2, Zenon DEF Si!GraveAnswersWereConfirmed, Si!CarriedOutOnce
<1>6. Si!AnswersStandStep
  BY <1>1, <1>2 DEF Si!AnswersStandStep
<1> QED
  BY <1>3, <1>4, <1>5, <1>6 DEF Si!DecisionsInv

(* The invariant says what the run asks of decisions.                        *)
LEMMA DecisionsSaySo ==
  Si!DecisionsInv =>
    /\ Si!DecisionsTypeOK
    /\ Si!GraveAnswersWereConfirmed /\ Si!CarriedOutOnce
<1> SUFFICES ASSUME Si!DecisionsInv
             PROVE  /\ Si!DecisionsTypeOK
                    /\ Si!GraveAnswersWereConfirmed /\ Si!CarriedOutOnce
  OBVIOUS
<1>1. Si!DecisionsTypeOK
  BY Zenon DEF Si!DecisionsInv, Si!DecisionsTypeOK, Si!DecidedShape, Si!AnswererShape, Si!AskedShape
<1> QED
  BY <1>1, Zenon DEF Si!DecisionsInv

(* Every step of a follow-up keeps the invariant, and the pending offer.      *)
LEMMA FollowupsStep ==
  ASSUME Si!FollowupsInv, Si!FollowupsNext
  PROVE  Si!FollowupsInv' /\ Si!OffersAreNotReplacedStep
<1> USE IntegrationAssumption
<1>1. /\ Si!SuggestionShape
      /\ Si!AcceptingShape
      /\ Si!AskShape
      /\ Si!ForgedShape
      /\ Si!AcceptedWasFiled
      /\ Si!PastFilingWasFiled
      /\ Si!UnsureDoubts
      /\ Si!OneFiles
      /\ Si!FilingIsMarked
      /\ Si!NotFiledYet
      /\ Si!FiledOnce
      /\ Si!FiledIsRemembered
      /\ Si!AnsweredMeansFiled
  BY DEF Si!FollowupsInv
<1>2. ASSUME Si!Suggest
      PROVE  Si!FollowupsInv' /\ Si!OffersAreNotReplacedStep
  <2>1. s2' = s2 /\ s3' = s3 /\ s4' = s4 /\ s5' = s5 /\ s6' = s6
    BY <1>2, Zenon DEF Si!Suggest
  <2>2. s1 \in Si!Suggestions
    BY <1>1 DEF Si!SuggestionShape
  <2>3. s4 \in Nat /\ s6 \in BOOLEAN
    BY <1>1 DEF Si!ForgedShape
  <2>4. s1 = Si!NoSuggestion /\ s1' = [Si!NoSuggestion EXCEPT !.state = "pending"]
    BY <1>2, Zenon DEF Si!Suggest
  <2>5. s1' = [state |-> "pending", filing |-> "no", expired |-> FALSE, taker |-> NoTaker, linked |-> FALSE]
    BY <2>4 DEF Si!NoSuggestion
  <2>6. s1.state = "none"
    BY <2>4 DEF Si!NoSuggestion
  <2>7. s1' \in Si!Suggestions
        /\ s1.state = "none" /\ s1'.state = "pending"
    BY <2>2, <2>5, <2>6 DEF Si!Suggestions
  <2>8. Si!AcceptingShape' /\ Si!AskShape' /\ Si!ForgedShape'
    BY <1>1, <2>1, Zenon DEF Si!AcceptingShape, Si!Acceptances, Si!AskShape, Si!ForgedShape
  <2>9. Si!PastFilingWasFiled' /\ Si!UnsureDoubts' /\ Si!OneFiles'
    BY <1>1, <2>1, Zenon DEF Si!PastFilingWasFiled, Si!UnsureDoubts, Si!At, Si!OneFiles,
       Si!Filing
  <2>10. Si!NotFiledYet' /\ Si!FiledOnce' /\ Si!AnsweredMeansFiled'
    BY <1>1, <2>1, Zenon DEF Si!NotFiledYet, Si!At, Si!FiledOnce, Si!AnsweredMeansFiled
  <2>11. Si!SuggestionShape'
    BY <2>7 DEF Si!SuggestionShape
  <2>12. Si!AcceptedWasFiled'
    BY <1>1, <2>1, <2>7 DEF Si!AcceptedWasFiled
  <2>13. Si!FilingIsMarked'
    BY <1>1, <2>1, <2>7 DEF Si!FilingIsMarked, Si!Filing
  <2>14. Si!FiledIsRemembered'
    BY <1>1, <2>1, <2>7 DEF Si!FiledIsRemembered, Si!At
  <2>15. Si!OffersAreNotReplacedStep
    BY <2>1 DEF Si!OffersAreNotReplacedStep
  <2> QED
    BY <2>8, <2>9, <2>10, <2>11, <2>12, <2>13, <2>14, <2>15 DEF Si!FollowupsInv
<1>3. ASSUME Si!OpenAsk
      PROVE  Si!FollowupsInv' /\ Si!OffersAreNotReplacedStep
  <2>1. s1' = s1 /\ s3' = s3 /\ s4' = s4 /\ s5' = s5 /\ s6' = s6
    BY <1>3, Zenon DEF Si!OpenAsk
  <2>2. s2' = "open"
    BY <1>3, Zenon DEF Si!OpenAsk
  <2>3. Si!SuggestionShape' /\ Si!AcceptingShape' /\ Si!ForgedShape'
    BY <1>1, <2>1, Zenon DEF Si!SuggestionShape, Si!Suggestions, Si!AcceptingShape,
       Si!Acceptances, Si!ForgedShape
  <2>4. Si!AcceptedWasFiled' /\ Si!PastFilingWasFiled' /\ Si!UnsureDoubts'
    BY <1>1, <2>1, Zenon DEF Si!AcceptedWasFiled, Si!PastFilingWasFiled, Si!UnsureDoubts, Si!At
  <2>5. Si!OneFiles' /\ Si!FilingIsMarked' /\ Si!NotFiledYet'
    BY <1>1, <2>1, Zenon DEF Si!OneFiles, Si!Filing, Si!FilingIsMarked, Si!NotFiledYet, Si!At
  <2>6. Si!FiledOnce' /\ Si!FiledIsRemembered'
    BY <1>1, <2>1, Zenon DEF Si!FiledOnce, Si!FiledIsRemembered, Si!At
  <2>7. Si!AskShape'
    BY <2>2 DEF Si!AskShape
  <2>8. Si!AnsweredMeansFiled'
    BY <2>2 DEF Si!AnsweredMeansFiled
  <2>9. Si!OffersAreNotReplacedStep
    BY <2>1 DEF Si!OffersAreNotReplacedStep
  <2> QED
    BY <2>3, <2>4, <2>5, <2>6, <2>7, <2>8, <2>9 DEF Si!FollowupsInv
<1>4. ASSUME Si!Link
      PROVE  Si!FollowupsInv' /\ Si!OffersAreNotReplacedStep
  <2>1. s2' = s2 /\ s3' = s3 /\ s4' = s4 /\ s5' = s5 /\ s6' = s6
    BY <1>4, Zenon DEF Si!Link
  <2>2. s1 \in Si!Suggestions
    BY <1>1 DEF Si!SuggestionShape
  <2>3. s4 \in Nat /\ s6 \in BOOLEAN
    BY <1>1 DEF Si!ForgedShape
  <2>4. s1' = [s1 EXCEPT !.linked = TRUE]
    BY <1>4, Zenon DEF Si!Link
  <2>5. s1.state # "gone"
    BY <1>4, Zenon DEF Si!Link
  <2>6. s1' \in Si!Suggestions
        /\ s1'.state = s1.state /\ s1'.filing = s1.filing
    BY <2>2, <2>4, <2>5 DEF Si!Suggestions
  <2>7. Si!AcceptingShape' /\ Si!AskShape' /\ Si!ForgedShape'
    BY <1>1, <2>1, Zenon DEF Si!AcceptingShape, Si!Acceptances, Si!AskShape, Si!ForgedShape
  <2>8. Si!PastFilingWasFiled' /\ Si!UnsureDoubts' /\ Si!OneFiles'
    BY <1>1, <2>1, Zenon DEF Si!PastFilingWasFiled, Si!UnsureDoubts, Si!At, Si!OneFiles,
       Si!Filing
  <2>9. Si!NotFiledYet' /\ Si!FiledOnce' /\ Si!AnsweredMeansFiled'
    BY <1>1, <2>1, Zenon DEF Si!NotFiledYet, Si!At, Si!FiledOnce, Si!AnsweredMeansFiled
  <2>10. Si!SuggestionShape'
    BY <2>6 DEF Si!SuggestionShape
  <2>11. Si!AcceptedWasFiled'
    BY <1>1, <2>1, <2>6 DEF Si!AcceptedWasFiled
  <2>12. Si!FilingIsMarked'
    BY <1>1, <2>1, <2>6 DEF Si!FilingIsMarked, Si!Filing
  <2>13. Si!FiledIsRemembered'
    BY <1>1, <2>1, <2>6 DEF Si!FiledIsRemembered, Si!At
  <2>14. Si!OffersAreNotReplacedStep
    BY <2>1 DEF Si!OffersAreNotReplacedStep
  <2> QED
    BY <2>7, <2>8, <2>9, <2>10, <2>11, <2>12, <2>13, <2>14 DEF Si!FollowupsInv
<1>5. ASSUME Si!Expire
      PROVE  Si!FollowupsInv' /\ Si!OffersAreNotReplacedStep
  <2>1. s2' = s2 /\ s3' = s3 /\ s4' = s4 /\ s5' = s5 /\ s6' = s6
    BY <1>5, Zenon DEF Si!Expire
  <2>2. s1 \in Si!Suggestions
    BY <1>1 DEF Si!SuggestionShape
  <2>3. s4 \in Nat /\ s6 \in BOOLEAN
    BY <1>1 DEF Si!ForgedShape
  <2>4. s1' = [s1 EXCEPT !.expired = TRUE]
    BY <1>5, Zenon DEF Si!Expire
  <2>5. s1.state = "pending"
    BY <1>5, Zenon DEF Si!Expire
  <2>6. s1' \in Si!Suggestions
        /\ s1'.state = s1.state /\ s1'.filing = s1.filing
    BY <2>2, <2>4, <2>5 DEF Si!Suggestions
  <2>7. Si!AcceptingShape' /\ Si!AskShape' /\ Si!ForgedShape'
    BY <1>1, <2>1, Zenon DEF Si!AcceptingShape, Si!Acceptances, Si!AskShape, Si!ForgedShape
  <2>8. Si!PastFilingWasFiled' /\ Si!UnsureDoubts' /\ Si!OneFiles'
    BY <1>1, <2>1, Zenon DEF Si!PastFilingWasFiled, Si!UnsureDoubts, Si!At, Si!OneFiles,
       Si!Filing
  <2>9. Si!NotFiledYet' /\ Si!FiledOnce' /\ Si!AnsweredMeansFiled'
    BY <1>1, <2>1, Zenon DEF Si!NotFiledYet, Si!At, Si!FiledOnce, Si!AnsweredMeansFiled
  <2>10. Si!SuggestionShape'
    BY <2>6 DEF Si!SuggestionShape
  <2>11. Si!AcceptedWasFiled'
    BY <1>1, <2>1, <2>6 DEF Si!AcceptedWasFiled
  <2>12. Si!FilingIsMarked'
    BY <1>1, <2>1, <2>6 DEF Si!FilingIsMarked, Si!Filing
  <2>13. Si!FiledIsRemembered'
    BY <1>1, <2>1, <2>6 DEF Si!FiledIsRemembered, Si!At
  <2>14. Si!OffersAreNotReplacedStep
    BY <2>1 DEF Si!OffersAreNotReplacedStep
  <2> QED
    BY <2>7, <2>8, <2>9, <2>10, <2>11, <2>12, <2>13, <2>14 DEF Si!FollowupsInv
<1>6. ASSUME Si!FilingAges
      PROVE  Si!FollowupsInv' /\ Si!OffersAreNotReplacedStep
  <2>1. s2' = s2 /\ s3' = s3 /\ s4' = s4 /\ s5' = s5
    BY <1>6, Zenon DEF Si!FilingAges
  <2>2. s1 \in Si!Suggestions
    BY <1>1 DEF Si!SuggestionShape
  <2>3. s4 \in Nat /\ s6 \in BOOLEAN
    BY <1>1 DEF Si!ForgedShape
  <2>4. s1' = [s1 EXCEPT !.filing = "old"]
    BY <1>6, Zenon DEF Si!FilingAges
  <2>5. s6' = (s6 \/ \E w \in Si!Ways : Si!Filing(w))
    BY <1>6, Zenon DEF Si!FilingAges
  <2>6. s1' \in Si!Suggestions
        /\ s1'.state = s1.state
    BY <2>2, <2>4, <2>5 DEF Si!Suggestions
  <2>7. Si!AcceptingShape' /\ Si!AskShape' /\ Si!PastFilingWasFiled'
    BY <1>1, <2>1, Zenon DEF Si!AcceptingShape, Si!Acceptances, Si!AskShape,
       Si!PastFilingWasFiled
  <2>8. Si!AnsweredMeansFiled'
    BY <1>1, <2>1, Zenon DEF Si!AnsweredMeansFiled
  <2>9. Si!SuggestionShape'
    BY <2>6 DEF Si!SuggestionShape
  <2>10. Si!ForgedShape'
    BY <1>1, <2>1, <2>5 DEF Si!ForgedShape
  <2>11. Si!AcceptedWasFiled'
    BY <1>1, <2>1, <2>6 DEF Si!AcceptedWasFiled
  <2>12. Si!UnsureDoubts'
    BY <1>1, <2>1, <2>5 DEF Si!UnsureDoubts, Si!At
  <2>13. Si!OneFiles'
    BY <1>1, <2>1, <2>5 DEF Si!OneFiles, Si!Filing
  <2>14. Si!FilingIsMarked'
    BY <2>1, <2>5 DEF Si!FilingIsMarked, Si!Filing
  <2>15. Si!NotFiledYet'
    BY <1>1, <2>1, <2>5 DEF Si!NotFiledYet, Si!At
  <2>16. Si!FiledOnce'
    BY <1>1, <2>1, <2>5 DEF Si!FiledOnce
  <2>17. Si!FiledIsRemembered'
    BY <1>1, <2>1, <2>6, <2>5 DEF Si!FiledIsRemembered, Si!At
  <2>18. Si!OffersAreNotReplacedStep
    BY <2>1 DEF Si!OffersAreNotReplacedStep
  <2> QED
    BY <2>7, <2>8, <2>9, <2>10, <2>11, <2>12, <2>13, <2>14, <2>15, <2>16, <2>17, <2>18 DEF
       Si!FollowupsInv
<1>7. ASSUME Si!Prune
      PROVE  Si!FollowupsInv' /\ Si!OffersAreNotReplacedStep
  <2>1. s2' = s2 /\ s3' = s3 /\ s4' = s4 /\ s5' = s5 /\ s6' = s6
    BY <1>7, Zenon DEF Si!Prune
  <2>2. s1 \in Si!Suggestions
    BY <1>1 DEF Si!SuggestionShape
  <2>3. s4 \in Nat /\ s6 \in BOOLEAN
    BY <1>1 DEF Si!ForgedShape
  <2>4. Si!Gone \in Si!Suggestions /\ Si!Gone.state = "gone" /\ Si!Gone.filing = "no"
    <3>1. Si!Gone = [state |-> "gone", filing |-> "no", expired |-> FALSE, taker |-> NoTaker, linked |-> FALSE]
      <4>1. PICK n : n = [state |-> "none", filing |-> "no", expired |-> FALSE, taker |-> NoTaker, linked |-> FALSE]
        OBVIOUS
      <4>2. Si!Gone = [n EXCEPT !.state = "gone"]
        BY <4>1 DEF Si!Gone, Si!NoSuggestion
      <4> QED
        BY <4>1, <4>2
    <3> QED
      BY <3>1 DEF Si!Suggestions
  <2>5. s1' = Si!Gone /\ s1.state = "pending"
    BY <1>7, Zenon DEF Si!Prune, Si!Pruned
  <2>6. s1' \in Si!Suggestions
        /\ s1'.state = "gone" /\ s1.state = "pending"
    BY <2>2, <2>4, <2>5 DEF Si!Suggestions
  <2>7. Si!AcceptingShape' /\ Si!AskShape' /\ Si!ForgedShape'
    BY <1>1, <2>1, Zenon DEF Si!AcceptingShape, Si!Acceptances, Si!AskShape, Si!ForgedShape
  <2>8. Si!PastFilingWasFiled' /\ Si!UnsureDoubts' /\ Si!OneFiles'
    BY <1>1, <2>1, Zenon DEF Si!PastFilingWasFiled, Si!UnsureDoubts, Si!At, Si!OneFiles,
       Si!Filing
  <2>9. Si!NotFiledYet' /\ Si!FiledOnce' /\ Si!AnsweredMeansFiled'
    BY <1>1, <2>1, Zenon DEF Si!NotFiledYet, Si!At, Si!FiledOnce, Si!AnsweredMeansFiled
  <2>10. Si!SuggestionShape'
    BY <2>6 DEF Si!SuggestionShape
  <2>11. Si!AcceptedWasFiled'
    BY <1>1, <2>1, <2>6 DEF Si!AcceptedWasFiled
  <2>12. Si!FilingIsMarked'
    BY <1>1, <2>1, <2>6 DEF Si!FilingIsMarked, Si!Filing
  <2>13. Si!FiledIsRemembered'
    BY <1>1, <2>1, <2>6 DEF Si!FiledIsRemembered, Si!At
  <2>14. Si!OffersAreNotReplacedStep
    BY <2>1 DEF Si!OffersAreNotReplacedStep
  <2> QED
    BY <2>7, <2>8, <2>9, <2>10, <2>11, <2>12, <2>13, <2>14 DEF Si!FollowupsInv
<1>8. ASSUME Si!Decline
      PROVE  Si!FollowupsInv' /\ Si!OffersAreNotReplacedStep
  <2>1. s1' = s1 /\ s2' = s2 /\ s3' = s3 /\ s4' = s4 /\ s6' = s6
    BY <1>8, Zenon DEF Si!Decline
  <2>2. s5' = NoTaker
    BY <1>8, Zenon DEF Si!Decline
  <2>3. Si!SuggestionShape' /\ Si!AcceptingShape' /\ Si!AskShape'
    BY <1>1, <2>1, Zenon DEF Si!SuggestionShape, Si!Suggestions, Si!AcceptingShape,
       Si!Acceptances, Si!AskShape
  <2>4. Si!AcceptedWasFiled' /\ Si!PastFilingWasFiled' /\ Si!UnsureDoubts'
    BY <1>1, <2>1, Zenon DEF Si!AcceptedWasFiled, Si!PastFilingWasFiled, Si!UnsureDoubts, Si!At
  <2>5. Si!OneFiles' /\ Si!FilingIsMarked' /\ Si!NotFiledYet'
    BY <1>1, <2>1, Zenon DEF Si!OneFiles, Si!Filing, Si!FilingIsMarked, Si!NotFiledYet, Si!At
  <2>6. Si!FiledOnce' /\ Si!FiledIsRemembered' /\ Si!AnsweredMeansFiled'
    BY <1>1, <2>1, Zenon DEF Si!FiledOnce, Si!FiledIsRemembered, Si!At, Si!AnsweredMeansFiled
  <2>7. Si!ForgedShape'
    BY <1>1, <2>1, <2>2 DEF Si!ForgedShape
  <2>8. Si!OffersAreNotReplacedStep
    BY <2>2 DEF Si!OffersAreNotReplacedStep
  <2> QED
    BY <2>3, <2>4, <2>5, <2>6, <2>7, <2>8 DEF Si!FollowupsInv
<1>9. ASSUME NEW w \in Si!Ways, Si!Accept(w)
      PROVE  Si!FollowupsInv' /\ Si!OffersAreNotReplacedStep
  <2>1. s2' = s2 /\ s4' = s4 /\ s5' = s5 /\ s6' = s6
    BY <1>9, Zenon DEF Si!Accept
  <2>2. s1 \in Si!Suggestions
    BY <1>1 DEF Si!SuggestionShape
  <2>3. s3 \in [Si!Ways -> Si!Acceptances]
    BY <1>1 DEF Si!AcceptingShape
  <2>4. s4 \in Nat /\ s6 \in BOOLEAN
    BY <1>1 DEF Si!ForgedShape
  <2>5. Si!NotAccepting \in Si!Acceptances /\ Si!NotAccepting.step = "idle"
    BY DEF Si!NotAccepting, Si!Acceptances
  <2>6. s3[w].step = "idle"
    BY <1>9, Zenon DEF Si!Accept, Si!At
  <2>7. Si!Gone \in Si!Suggestions /\ Si!Gone.state = "gone" /\ Si!Gone.filing = "no"
    <3>1. Si!Gone = [state |-> "gone", filing |-> "no", expired |-> FALSE, taker |-> NoTaker, linked |-> FALSE]
      <4>1. PICK n : n = [state |-> "none", filing |-> "no", expired |-> FALSE, taker |-> NoTaker, linked |-> FALSE]
        OBVIOUS
      <4>2. Si!Gone = [n EXCEPT !.state = "gone"]
        BY <4>1 DEF Si!Gone, Si!NoSuggestion
      <4> QED
        BY <4>1, <4>2
    <3> QED
      BY <3>1 DEF Si!Suggestions
  <2>8. PICK s, at : /\ s = Si!Pruned(s1)
                     /\ \/ /\ Si!MayFile(s) /\ s1' = [s EXCEPT !.filing = "fresh"] /\ at = "file"
                        \/ s.state = "accepted" /\ s1' = s1 /\ at \in {"assign", "settle"}
                        \/ s.state = "gone" /\ s1.state = "pending" /\ s1' = s /\ at = "idle"
                     /\ \/ s3' = [s3 EXCEPT ![w].step = at]
                        \/ s3' = s3 /\ at = "idle"
    <3>1. PICK s : s = Si!Pruned(s1)
      OBVIOUS
    <3>2. CASE Si!MayFile(s) /\ s1' = [s EXCEPT !.filing = "fresh"] /\ s3' = [s3 EXCEPT ![w].step = "file"]
      BY <3>1, <3>2, Zenon
    <3>3. CASE /\ s.state = "accepted" /\ s1' = s1
               /\ s3' = [s3 EXCEPT ![w].step = IF s.taker = NoTaker THEN "assign" ELSE "settle"]
      <4>1. PICK at : at = IF s.taker = NoTaker THEN "assign" ELSE "settle"
        OBVIOUS
      <4>2. at \in {"assign", "settle"}
        BY <4>1
      <4> QED
        BY <3>1, <3>3, <4>1, <4>2, Zenon
    <3>4. CASE s.state = "gone" /\ s1.state = "pending" /\ s1' = s /\ s3' = s3
      BY <3>1, <3>4, Zenon
    <3> QED
      BY <1>9, <3>1, <3>2, <3>3, <3>4, Zenon DEF Si!Accept, Si!Go
  <2>9. s = s1 \/ (s = Si!Gone /\ s1.state = "pending")
    BY <2>8, Zenon DEF Si!Pruned
  <2>10. s1' \in Si!Suggestions
         /\ \/ /\ s1.state = "pending" /\ s1.filing # "fresh" /\ s1'.state = "pending" /\ s1'.filing = "fresh" /\ at = "file"
            \/ s1.state = "accepted" /\ s1' = s1 /\ at \in {"assign", "settle"}
            \/ s1.state = "pending" /\ s1'.state = "gone" /\ at = "idle"
    <3>1. CASE Si!MayFile(s) /\ s1' = [s EXCEPT !.filing = "fresh"] /\ at = "file"
      <4>1. s = s1 /\ s1.state = "pending" /\ s1.filing # "fresh"
        BY <3>1, <2>9, <2>7 DEF Si!MayFile
      <4> QED
        BY <3>1, <4>1, <2>2 DEF Si!Suggestions
    <3>2. CASE s.state = "accepted" /\ s1' = s1 /\ at \in {"assign", "settle"}
      BY <3>2, <2>9, <2>7, <2>2
    <3>3. CASE s.state = "gone" /\ s1.state = "pending" /\ s1' = s /\ at = "idle"
      <4>1. s = Si!Gone
        BY <3>3, <2>9
      <4> QED
        BY <3>3, <4>1, <2>7
    <3> QED
      BY <3>1, <3>2, <3>3, <2>8
  <2>11. s3' \in [Si!Ways -> Si!Acceptances]
         /\ \A v \in Si!Ways : s3'[v].step = IF v = w THEN at ELSE s3[v].step
    <3>1. at \in {"file", "assign", "settle", "idle"}
      BY <2>10
    <3>2. CASE s3' = [s3 EXCEPT ![w].step = at]
      BY <3>1, <3>2, <2>3 DEF Si!Acceptances
    <3>3. CASE s3' = s3 /\ at = "idle"
      BY <3>3, <2>3, <2>6
    <3> QED
      BY <3>2, <3>3, <2>8
  <2>12. /\ at = "file" /\ ~s6 => s4 = 0 /\ \A v \in Si!Ways : ~Si!Filing(v) /\ ~Si!At(v, "mark")
         /\ s1.state = "accepted" => s4 > 0
    <3>1. at = "file" /\ ~s6 => \A v \in Si!Ways : ~Si!Filing(v) /\ ~Si!At(v, "mark")
      BY <1>1, <2>10 DEF Si!FilingIsMarked, Si!Filing, Si!At
    <3>2. at = "file" => s1.state # "accepted"
      BY <2>10
    <3> QED
      BY <1>1, <3>1, <3>2, <2>4 DEF Si!FiledIsRemembered, Si!AcceptedWasFiled
  <2>13. Si!AskShape' /\ Si!ForgedShape' /\ Si!FiledOnce'
    BY <1>1, <2>1, Zenon DEF Si!AskShape, Si!ForgedShape, Si!FiledOnce
  <2>14. Si!AnsweredMeansFiled'
    BY <1>1, <2>1, Zenon DEF Si!AnsweredMeansFiled
  <2>15. Si!SuggestionShape'
    BY <2>10 DEF Si!SuggestionShape
  <2>16. Si!AcceptingShape'
    BY <2>11 DEF Si!AcceptingShape
  <2>17. Si!AcceptedWasFiled'
    BY <1>1, <2>1, <2>11, <2>10, <2>12, <2>6, <2>4 DEF Si!AcceptedWasFiled
  <2>18. Si!PastFilingWasFiled'
    BY <1>1, <2>1, <2>11, <2>10, <2>12, <2>6, <2>4 DEF Si!PastFilingWasFiled
  <2>19. Si!UnsureDoubts'
    BY <1>1, <2>1, <2>11, <2>10, <2>12, <2>6, <2>4 DEF Si!UnsureDoubts, Si!At
  <2>20. Si!OneFiles'
    BY <1>1, <2>1, <2>11, <2>10, <2>12, <2>6, <2>4 DEF Si!OneFiles, Si!Filing
  <2>21. Si!FilingIsMarked'
    BY <1>1, <2>1, <2>11, <2>10, <2>12, <2>6, <2>4 DEF Si!FilingIsMarked, Si!Filing
  <2>22. Si!NotFiledYet'
    BY <1>1, <2>1, <2>11, <2>10, <2>12, <2>6, <2>4 DEF Si!NotFiledYet, Si!At
  <2>23. Si!FiledIsRemembered'
    BY <1>1, <2>1, <2>11, <2>10, <2>12, <2>6, <2>4 DEF Si!FiledIsRemembered, Si!At
  <2>24. Si!OffersAreNotReplacedStep
    BY <2>1 DEF Si!OffersAreNotReplacedStep
  <2> QED
    BY <2>13, <2>14, <2>15, <2>16, <2>17, <2>18, <2>19, <2>20, <2>21, <2>22, <2>23, <2>24
       DEF Si!FollowupsInv
<1>10. ASSUME NEW w \in Si!Ways, Si!File(w)
       PROVE  Si!FollowupsInv' /\ Si!OffersAreNotReplacedStep
  <2>1. s1' = s1 /\ s2' = s2 /\ s5' = s5
    BY <1>10, Zenon DEF Si!File
  <2>2. s1 \in Si!Suggestions
    BY <1>1 DEF Si!SuggestionShape
  <2>3. s3 \in [Si!Ways -> Si!Acceptances]
    BY <1>1 DEF Si!AcceptingShape
  <2>4. s4 \in Nat /\ s6 \in BOOLEAN
    BY <1>1 DEF Si!ForgedShape
  <2>5. s3[w].step = "file"
    BY <1>10, Zenon DEF Si!File, Si!At
  <2>6. PICK at : /\ s3' = [s3 EXCEPT ![w].step = at]
                  /\ \/ at = "refused" /\ s4' = s4 /\ s6' = s6
                     \/ /\ s4 < MaxForged /\ s4' = s4 + 1
                        /\ \/ at = "mark" /\ s6' = s6
                           \/ at = "unsure" /\ s6' = TRUE
    BY <1>10, Zenon DEF Si!File, Si!Go
  <2>7. s3' \in [Si!Ways -> Si!Acceptances]
        /\ \A v \in Si!Ways : s3'[v].step = IF v = w THEN at ELSE s3[v].step
    BY <2>3, <2>6 DEF Si!Acceptances
  <2>8. s6 => s6'
    BY <2>6, <2>4
  <2>9. /\ s4' = s4 \/ s4' = s4 + 1
        /\ s4' \in Nat /\ s4' >= s4 /\ at \in {"refused", "mark", "unsure"} /\ (~s6' => at # "unsure" /\ s4 = 0 /\ ~s6)
        /\ at = "refused" => s4' = s4
        /\ at # "refused" => s4' = s4 + 1
        /\ at = "unsure" => s6'
    <3>1. s4 = 0 \/ s6
      BY <1>1, <2>5 DEF Si!NotFiledYet, Si!At
    <3> QED
      BY <2>6, <2>4, <3>1
  <2>10. Si!SuggestionShape' /\ Si!AskShape'
    BY <1>1, <2>1, Zenon DEF Si!SuggestionShape, Si!Suggestions, Si!AskShape
  <2>11. Si!AcceptingShape'
    BY <2>7 DEF Si!AcceptingShape
  <2>12. Si!ForgedShape'
    <3>1. s4' \in 0..MaxForged
      BY <1>1, <2>6 DEF Si!ForgedShape
    <3>2. s6' \in BOOLEAN
      BY <2>6, <2>4
    <3> QED
      BY <1>1, <3>1, <3>2, <2>1, Zenon DEF Si!ForgedShape
  <2>13. Si!AcceptedWasFiled'
    BY <1>1, <2>1, <2>9, <2>4 DEF Si!AcceptedWasFiled
  <2>14. Si!PastFilingWasFiled'
    BY <1>1, <2>7, <2>9, <2>4 DEF Si!PastFilingWasFiled
  <2>15. Si!UnsureDoubts'
    BY <1>1, <2>7, <2>8, <2>9 DEF Si!UnsureDoubts, Si!At
  <2>16. Si!OneFiles'
    BY <1>1, <2>7, <2>9, <2>5 DEF Si!OneFiles, Si!Filing
  <2>17. Si!FilingIsMarked'
    BY <1>1, <2>1, <2>7, <2>9, <2>5 DEF Si!FilingIsMarked, Si!Filing
  <2>18. Si!NotFiledYet'
    BY <1>1, <2>7, <2>9, <2>5 DEF Si!NotFiledYet, Si!OneFiles, Si!Filing, Si!At
  <2>19. Si!FiledOnce'
    BY <2>9 DEF Si!FiledOnce
  <2>20. Si!FiledIsRemembered'
    BY <1>1, <2>1, <2>7, <2>9, <2>5, <2>4 DEF Si!FiledIsRemembered, Si!At
  <2>21. Si!AnsweredMeansFiled'
    BY <1>1, <2>1, <2>9, <2>4 DEF Si!AnsweredMeansFiled
  <2>22. Si!OffersAreNotReplacedStep
    BY <2>1 DEF Si!OffersAreNotReplacedStep
  <2> QED
    BY <2>10, <2>11, <2>12, <2>13, <2>14, <2>15, <2>16, <2>17, <2>18, <2>19, <2>20, <2>21,
       <2>22 DEF Si!FollowupsInv
<1>11. ASSUME NEW w \in Si!Ways, Si!Mark(w)
      PROVE  Si!FollowupsInv' /\ Si!OffersAreNotReplacedStep
  <2>1. s2' = s2 /\ s4' = s4 /\ s5' = s5 /\ s6' = s6
    BY <1>11, Zenon DEF Si!Mark
  <2>2. s1 \in Si!Suggestions
    BY <1>1 DEF Si!SuggestionShape
  <2>3. s3 \in [Si!Ways -> Si!Acceptances]
    BY <1>1 DEF Si!AcceptingShape
  <2>4. s4 \in Nat /\ s6 \in BOOLEAN
    BY <1>1 DEF Si!ForgedShape
  <2>5. Si!NotAccepting \in Si!Acceptances /\ Si!NotAccepting.step = "idle"
    BY DEF Si!NotAccepting, Si!Acceptances
  <2>6. \/ /\ s3[w].step = "mark" /\ s1' = Si!Marked(s1) /\ s3' = [s3 EXCEPT ![w].step = "assign"]
        \/ /\ s3[w].step = "refused" \/ s3[w].step = "unsure"
           /\ s1' = [s1 EXCEPT !.filing = "no"] /\ s3' = [s3 EXCEPT ![w] = Si!NotAccepting]
    BY <1>11, Zenon DEF Si!Mark, Si!At, Si!Go, Si!Leave, Si!Unfiled
  <2>7. PICK at : \/ at = "assign" /\ s3' = [s3 EXCEPT ![w].step = "assign"] /\ s3[w].step = "mark"
                  \/ at = "idle" /\ s3' = [s3 EXCEPT ![w] = Si!NotAccepting] /\ s3[w].step \in {"refused", "unsure"}
    BY <2>6
  <2>8. s3' \in [Si!Ways -> Si!Acceptances]
        /\ \A v \in Si!Ways : s3'[v].step = IF v = w THEN at ELSE s3[v].step
    BY <2>3, <2>7, <2>5 DEF Si!Acceptances
  <2>9. ~s6 => \A v \in Si!Ways : s3[v].step \in {"file", "mark", "refused", "unsure"} => v = w
    <3>1. Si!Filing(w)
      BY <2>7 DEF Si!Filing
    <3> QED
      BY <1>1, <3>1 DEF Si!OneFiles, Si!Filing
  <2>10. s1' \in Si!Suggestions
         /\ \/ at = "assign" /\ s1'.state = "accepted" /\ s3[w].step = "mark" /\ s4 > 0
            \/ at = "idle" /\ s1'.state = s1.state /\ s3[w].step \in {"refused", "unsure"}
    <3>1. CASE s3[w].step = "mark" /\ s1' = Si!Marked(s1) /\ at = "assign"
      <4>1. s1 = [state |-> s1.state, filing |-> s1.filing, expired |-> s1.expired, taker |-> s1.taker, linked |-> s1.linked]
        BY <2>2 DEF Si!Suggestions
      <4>2. s1' = [state |-> "accepted", filing |-> "no", expired |-> s1.expired, taker |-> s1.taker, linked |-> TRUE]
        BY <3>1, <4>1 DEF Si!Marked
      <4>3. s4 > 0
        BY <1>1, <3>1 DEF Si!PastFilingWasFiled
      <4> QED
        BY <3>1, <4>2, <4>3, <2>2 DEF Si!Suggestions
    <3>2. CASE s3[w].step \in {"refused", "unsure"} /\ s1' = [s1 EXCEPT !.filing = "no"] /\ at = "idle"
      BY <3>2, <2>2 DEF Si!Suggestions
    <3> QED
      BY <3>1, <3>2, <2>6, <2>7
  <2>11. Si!AskShape' /\ Si!ForgedShape' /\ Si!FiledOnce'
    BY <1>1, <2>1, Zenon DEF Si!AskShape, Si!ForgedShape, Si!FiledOnce
  <2>12. Si!AnsweredMeansFiled'
    BY <1>1, <2>1, Zenon DEF Si!AnsweredMeansFiled
  <2>13. Si!SuggestionShape'
    BY <2>10 DEF Si!SuggestionShape
  <2>14. Si!AcceptingShape'
    BY <2>8 DEF Si!AcceptingShape
  <2>15. Si!AcceptedWasFiled'
    BY <1>1, <2>1, <2>8, <2>10, <2>4 DEF Si!AcceptedWasFiled
  <2>16. Si!PastFilingWasFiled'
    BY <1>1, <2>1, <2>8, <2>10, <2>4 DEF Si!PastFilingWasFiled
  <2>17. Si!UnsureDoubts'
    BY <1>1, <2>1, <2>8, <2>10, <2>4 DEF Si!UnsureDoubts, Si!At
  <2>18. Si!OneFiles'
    BY <1>1, <2>1, <2>8, <2>10, <2>4 DEF Si!OneFiles, Si!Filing
  <2>19. Si!FilingIsMarked'
    BY <1>1, <2>1, <2>8, <2>10, <2>9 DEF Si!FilingIsMarked, Si!Filing
  <2>20. Si!NotFiledYet'
    BY <1>1, <2>1, <2>8, <2>10, <2>4 DEF Si!NotFiledYet, Si!At
  <2>21. Si!FiledIsRemembered'
    BY <1>1, <2>1, <2>8, <2>10, <2>4 DEF Si!FiledIsRemembered, Si!At
  <2>22. Si!OffersAreNotReplacedStep
    BY <2>1 DEF Si!OffersAreNotReplacedStep
  <2> QED
    BY <2>11, <2>12, <2>13, <2>14, <2>15, <2>16, <2>17, <2>18, <2>19, <2>20, <2>21, <2>22
       DEF Si!FollowupsInv
<1>12. ASSUME NEW w \in Si!Ways, Si!Assign(w)
      PROVE  Si!FollowupsInv' /\ Si!OffersAreNotReplacedStep
  <2>1. s1' = s1 /\ s2' = s2 /\ s4' = s4 /\ s6' = s6
    BY <1>12, Zenon DEF Si!Assign
  <2>2. s1 \in Si!Suggestions
    BY <1>1 DEF Si!SuggestionShape
  <2>3. s3 \in [Si!Ways -> Si!Acceptances]
    BY <1>1 DEF Si!AcceptingShape
  <2>4. s4 \in Nat /\ s6 \in BOOLEAN
    BY <1>1 DEF Si!ForgedShape
  <2>5. Si!NotAccepting \in Si!Acceptances /\ Si!NotAccepting.step = "idle"
    BY DEF Si!NotAccepting, Si!Acceptances
  <2>6. s3[w].step = "assign"
    BY <1>12, Zenon DEF Si!Assign, Si!At
  <2>7. \/ \E l \in IdleLanes :
              /\ s5' = Si!Assigned(l)
              /\ IF s5' = l THEN s3' = [s3 EXCEPT ![w] = [step |-> "note", taker |-> l]]
                 ELSE s3' = [s3 EXCEPT ![w] = Si!NotAccepting]
        \/ s3' = [s3 EXCEPT ![w].step = "settle"] /\ s5' = s5
    BY <1>12, Zenon DEF Si!Assign, Si!Go, Si!Leave
  <2>8. PICK at : /\ s3' \in [Si!Ways -> Si!Acceptances] /\ at \in {"note", "settle", "idle"}
                  /\ \A v \in Si!Ways : s3'[v].step = IF v = w THEN at ELSE s3[v].step
    <3>1. CASE s3' = [s3 EXCEPT ![w].step = "settle"]
      BY <3>1, <2>3 DEF Si!Acceptances
    <3>2. CASE s3' = [s3 EXCEPT ![w] = Si!NotAccepting]
      BY <3>2, <2>3, <2>5
    <3>3. ASSUME NEW l \in IdleLanes, s3' = [s3 EXCEPT ![w] = [step |-> "note", taker |-> l]]
          PROVE  /\ s3' \in [Si!Ways -> Si!Acceptances]
                 /\ \A v \in Si!Ways : s3'[v].step = IF v = w THEN "note" ELSE s3[v].step
      <4>1. PICK u : u = [step |-> "note", taker |-> l]
        OBVIOUS
      <4>2. u \in Si!Acceptances /\ u.step = "note"
        BY <4>1 DEF Si!Acceptances
      <4> QED
        BY <3>3, <4>1, <4>2, <2>3
    <3>4. PICK l \in IdleLanes \cup {NoTaker} :
             \/ s3' = [s3 EXCEPT ![w] = Si!NotAccepting]
             \/ s3' = [s3 EXCEPT ![w].step = "settle"]
             \/ l \in IdleLanes /\ s3' = [s3 EXCEPT ![w] = [step |-> "note", taker |-> l]]
      BY <2>7
    <3> QED
      BY <3>1, <3>2, <3>3, <3>4
  <2>9. s3' \in [Si!Ways -> Si!Acceptances]
        /\ \A v \in Si!Ways : s3'[v].step = IF v = w THEN at ELSE s3[v].step
    BY <2>8
  <2>10. at \in {"note", "settle", "idle"} /\ s4 > 0
    BY <1>1, <2>6, <2>8 DEF Si!PastFilingWasFiled
  <2>11. s5' \in IdleLanes \cup {NoTaker} /\ (s5 # NoTaker => s5' = s5)
    BY <1>1, <2>7 DEF Si!ForgedShape, Si!Assigned
  <2>12. Si!SuggestionShape' /\ Si!AskShape' /\ Si!AcceptedWasFiled'
    BY <1>1, <2>1, Zenon DEF Si!SuggestionShape, Si!Suggestions, Si!AskShape,
       Si!AcceptedWasFiled
  <2>13. Si!FiledOnce' /\ Si!AnsweredMeansFiled'
    BY <1>1, <2>1, Zenon DEF Si!FiledOnce, Si!AnsweredMeansFiled
  <2>14. Si!AcceptingShape'
    BY <2>9 DEF Si!AcceptingShape
  <2>15. Si!ForgedShape'
    BY <1>1, <2>1, <2>11 DEF Si!ForgedShape
  <2>16. Si!PastFilingWasFiled'
    BY <1>1, <2>1, <2>9, <2>10, <2>6, <2>4 DEF Si!PastFilingWasFiled
  <2>17. Si!UnsureDoubts'
    BY <1>1, <2>1, <2>9, <2>10, <2>6, <2>4 DEF Si!UnsureDoubts, Si!At
  <2>18. Si!OneFiles'
    BY <1>1, <2>1, <2>9, <2>10, <2>6, <2>4 DEF Si!OneFiles, Si!Filing
  <2>19. Si!FilingIsMarked'
    BY <1>1, <2>1, <2>9, <2>10, <2>6, <2>4 DEF Si!FilingIsMarked, Si!Filing
  <2>20. Si!NotFiledYet'
    BY <1>1, <2>1, <2>9, <2>10, <2>6, <2>4 DEF Si!NotFiledYet, Si!At
  <2>21. Si!FiledIsRemembered'
    BY <1>1, <2>1, <2>9, <2>10, <2>6, <2>4 DEF Si!FiledIsRemembered, Si!At
  <2>22. Si!OffersAreNotReplacedStep
    BY <2>11 DEF Si!OffersAreNotReplacedStep
  <2> QED
    BY <2>12, <2>13, <2>14, <2>15, <2>16, <2>17, <2>18, <2>19, <2>20, <2>21, <2>22 DEF
       Si!FollowupsInv
<1>13. ASSUME NEW w \in Si!Ways, Si!Note(w)
      PROVE  Si!FollowupsInv' /\ Si!OffersAreNotReplacedStep
  <2>1. s2' = s2 /\ s4' = s4 /\ s5' = s5 /\ s6' = s6
    BY <1>13, Zenon DEF Si!Note
  <2>2. s1 \in Si!Suggestions
    BY <1>1 DEF Si!SuggestionShape
  <2>3. s3 \in [Si!Ways -> Si!Acceptances]
    BY <1>1 DEF Si!AcceptingShape
  <2>4. s4 \in Nat /\ s6 \in BOOLEAN
    BY <1>1 DEF Si!ForgedShape
  <2>5. s3[w].step = "note"
    BY <1>13, Zenon DEF Si!Note, Si!At
  <2>6. s3' = [s3 EXCEPT ![w].step = "settle"]
        /\ s1' = IF s1.state = "gone" THEN s1 ELSE [s1 EXCEPT !.taker = s3[w].taker]
    BY <1>13, Zenon DEF Si!Note, Si!Go
  <2>7. s3' \in [Si!Ways -> Si!Acceptances]
        /\ \A v \in Si!Ways : s3'[v].step = IF v = w THEN "settle" ELSE s3[v].step
    BY <2>3, <2>6 DEF Si!Acceptances
  <2>8. s1' \in Si!Suggestions /\ s1'.state = s1.state /\ s1'.filing = s1.filing /\ s4 > 0 /\ s3[w].step = "note"
    <3>1. s4 > 0
      BY <1>1, <2>5 DEF Si!PastFilingWasFiled
    <3>2. s3[w].taker \in IdleLanes \cup {NoTaker}
      BY <2>3 DEF Si!Acceptances
    <3> QED
      BY <2>2, <2>6, <2>5, <3>1, <3>2 DEF Si!Suggestions
  <2>9. Si!AskShape' /\ Si!ForgedShape' /\ Si!FiledOnce'
    BY <1>1, <2>1, Zenon DEF Si!AskShape, Si!ForgedShape, Si!FiledOnce
  <2>10. Si!AnsweredMeansFiled'
    BY <1>1, <2>1, Zenon DEF Si!AnsweredMeansFiled
  <2>11. Si!SuggestionShape'
    BY <2>8 DEF Si!SuggestionShape
  <2>12. Si!AcceptingShape'
    BY <2>7 DEF Si!AcceptingShape
  <2>13. Si!AcceptedWasFiled'
    BY <1>1, <2>1, <2>7, <2>8, <2>4 DEF Si!AcceptedWasFiled
  <2>14. Si!PastFilingWasFiled'
    BY <1>1, <2>1, <2>7, <2>8, <2>4 DEF Si!PastFilingWasFiled
  <2>15. Si!UnsureDoubts'
    BY <1>1, <2>1, <2>7, <2>8, <2>4 DEF Si!UnsureDoubts, Si!At
  <2>16. Si!OneFiles'
    BY <1>1, <2>1, <2>7, <2>8, <2>4 DEF Si!OneFiles, Si!Filing
  <2>17. Si!FilingIsMarked'
    BY <1>1, <2>1, <2>7, <2>8, <2>4 DEF Si!FilingIsMarked, Si!Filing
  <2>18. Si!NotFiledYet'
    BY <1>1, <2>1, <2>7, <2>8, <2>4 DEF Si!NotFiledYet, Si!At
  <2>19. Si!FiledIsRemembered'
    BY <1>1, <2>1, <2>7, <2>8, <2>4 DEF Si!FiledIsRemembered, Si!At
  <2>20. Si!OffersAreNotReplacedStep
    BY <2>1 DEF Si!OffersAreNotReplacedStep
  <2> QED
    BY <2>9, <2>10, <2>11, <2>12, <2>13, <2>14, <2>15, <2>16, <2>17, <2>18, <2>19, <2>20 DEF
       Si!FollowupsInv
<1>14. ASSUME NEW w \in Si!Ways, Si!SettleAsk(w)
      PROVE  Si!FollowupsInv' /\ Si!OffersAreNotReplacedStep
  <2>1. s1' = s1 /\ s4' = s4 /\ s5' = s5 /\ s6' = s6
    BY <1>14, Zenon DEF Si!SettleAsk
  <2>2. s1 \in Si!Suggestions
    BY <1>1 DEF Si!SuggestionShape
  <2>3. s3 \in [Si!Ways -> Si!Acceptances]
    BY <1>1 DEF Si!AcceptingShape
  <2>4. s4 \in Nat /\ s6 \in BOOLEAN
    BY <1>1 DEF Si!ForgedShape
  <2>5. Si!NotAccepting \in Si!Acceptances /\ Si!NotAccepting.step = "idle"
    BY DEF Si!NotAccepting, Si!Acceptances
  <2>6. s3[w].step = "settle" /\ s3' = [s3 EXCEPT ![w] = Si!NotAccepting]
        /\ s2' = IF s2 # "open" THEN s2 ELSE IF w = "chat" THEN "answered" ELSE "closed"
    BY <1>14, Zenon DEF Si!SettleAsk, Si!At, Si!Leave
  <2>7. s3' \in [Si!Ways -> Si!Acceptances]
        /\ \A v \in Si!Ways : s3'[v].step = IF v = w THEN "idle" ELSE s3[v].step
    BY <2>3, <2>6, <2>5
  <2>8. s4 > 0 /\ s3[w].step = "settle"
    BY <1>1, <2>6 DEF Si!PastFilingWasFiled
  <2>9. Si!SuggestionShape' /\ Si!ForgedShape' /\ Si!AcceptedWasFiled'
    BY <1>1, <2>1, Zenon DEF Si!SuggestionShape, Si!Suggestions, Si!ForgedShape,
       Si!AcceptedWasFiled
  <2>10. Si!FiledOnce'
    BY <1>1, <2>1, Zenon DEF Si!FiledOnce
  <2>11. Si!AcceptingShape'
    BY <2>7 DEF Si!AcceptingShape
  <2>12. Si!AskShape'
    BY <1>1, <2>6 DEF Si!AskShape
  <2>13. Si!PastFilingWasFiled'
    BY <1>1, <2>1, <2>7, <2>8, <2>4 DEF Si!PastFilingWasFiled
  <2>14. Si!UnsureDoubts'
    BY <1>1, <2>1, <2>7, <2>8, <2>4 DEF Si!UnsureDoubts, Si!At
  <2>15. Si!OneFiles'
    BY <1>1, <2>1, <2>7, <2>8, <2>4 DEF Si!OneFiles, Si!Filing
  <2>16. Si!FilingIsMarked'
    BY <1>1, <2>1, <2>7, <2>8, <2>4 DEF Si!FilingIsMarked, Si!Filing
  <2>17. Si!NotFiledYet'
    BY <1>1, <2>1, <2>7, <2>8, <2>4 DEF Si!NotFiledYet, Si!At
  <2>18. Si!FiledIsRemembered'
    BY <1>1, <2>1, <2>7, <2>8, <2>4 DEF Si!FiledIsRemembered, Si!At
  <2>19. Si!AnsweredMeansFiled'
    BY <2>1, <2>8 DEF Si!AnsweredMeansFiled
  <2>20. Si!OffersAreNotReplacedStep
    BY <2>1 DEF Si!OffersAreNotReplacedStep
  <2> QED
    BY <2>9, <2>10, <2>11, <2>12, <2>13, <2>14, <2>15, <2>16, <2>17, <2>18, <2>19, <2>20 DEF
       Si!FollowupsInv
<1>15. ASSUME NEW w \in Si!Ways, Si!Stops(w)
      PROVE  Si!FollowupsInv' /\ Si!OffersAreNotReplacedStep
  <2>1. s1' = s1 /\ s2' = s2 /\ s4' = s4 /\ s5' = s5
    BY <1>15, Zenon DEF Si!Stops
  <2>2. s1 \in Si!Suggestions
    BY <1>1 DEF Si!SuggestionShape
  <2>3. s3 \in [Si!Ways -> Si!Acceptances]
    BY <1>1 DEF Si!AcceptingShape
  <2>4. s4 \in Nat /\ s6 \in BOOLEAN
    BY <1>1 DEF Si!ForgedShape
  <2>5. Si!NotAccepting \in Si!Acceptances /\ Si!NotAccepting.step = "idle"
    BY DEF Si!NotAccepting, Si!Acceptances
  <2>6. s3' = [s3 EXCEPT ![w] = Si!NotAccepting] /\ s6' = (s6 \/ s3[w].step = "file" \/ s3[w].step = "mark")
    BY <1>15, Zenon DEF Si!Stops, Si!At, Si!Leave
  <2>7. s3' \in [Si!Ways -> Si!Acceptances]
        /\ \A v \in Si!Ways : s3'[v].step = IF v = w THEN "idle" ELSE s3[v].step
    BY <2>3, <2>6, <2>5
  <2>8. s6' \in BOOLEAN /\ (s6 => s6') /\ (~s6' => s3[w].step \notin {"file", "mark"})
    BY <2>6, <2>4
  <2>9. Si!SuggestionShape' /\ Si!AskShape' /\ Si!AcceptedWasFiled'
    BY <1>1, <2>1, Zenon DEF Si!SuggestionShape, Si!Suggestions, Si!AskShape,
       Si!AcceptedWasFiled
  <2>10. Si!AnsweredMeansFiled'
    BY <1>1, <2>1, Zenon DEF Si!AnsweredMeansFiled
  <2>11. Si!AcceptingShape'
    BY <2>7 DEF Si!AcceptingShape
  <2>12. Si!ForgedShape'
    BY <1>1, <2>1, <2>8 DEF Si!ForgedShape
  <2>13. Si!PastFilingWasFiled'
    BY <1>1, <2>1, <2>7, <2>8, <2>4 DEF Si!PastFilingWasFiled
  <2>14. Si!UnsureDoubts'
    BY <1>1, <2>1, <2>7, <2>8, <2>4 DEF Si!UnsureDoubts, Si!At
  <2>15. Si!OneFiles'
    BY <1>1, <2>1, <2>7, <2>8, <2>4 DEF Si!OneFiles, Si!Filing
  <2>16. Si!FilingIsMarked'
    BY <1>1, <2>1, <2>7, <2>8, <2>4 DEF Si!FilingIsMarked, Si!Filing
  <2>17. Si!NotFiledYet'
    BY <1>1, <2>1, <2>7, <2>8, <2>4 DEF Si!NotFiledYet, Si!At
  <2>18. Si!FiledOnce'
    BY <1>1, <2>1, <2>8 DEF Si!FiledOnce
  <2>19. Si!FiledIsRemembered'
    BY <1>1, <2>1, <2>7, <2>8, <2>4 DEF Si!FiledIsRemembered, Si!At
  <2>20. Si!OffersAreNotReplacedStep
    BY <2>1 DEF Si!OffersAreNotReplacedStep
  <2> QED
    BY <2>9, <2>10, <2>11, <2>12, <2>13, <2>14, <2>15, <2>16, <2>17, <2>18, <2>19, <2>20 DEF
       Si!FollowupsInv
<1> QED
  BY <1>2, <1>3, <1>4, <1>5, <1>6, <1>7, <1>8, <1>9, <1>10, <1>11, <1>12, <1>13, <1>14, <1>15,
     Zenon DEF Si!FollowupsNext

(* Nothing was suggested, and nobody accepts.                                *)
LEMMA FollowupsInitially == Si!FollowupsInit => Si!FollowupsInv
<1> SUFFICES ASSUME Si!FollowupsInit PROVE Si!FollowupsInv
  OBVIOUS
<1> USE IntegrationAssumption
<1>1. /\ s1 = [state |-> "none", filing |-> "no", expired |-> FALSE, taker |-> NoTaker, linked |-> FALSE]
      /\ s2 = "none" /\ s3 = [w \in Si!Ways |-> Si!NotAccepting] /\ s4 = 0 /\ s5 = NoTaker
      /\ s6 = FALSE
  BY DEF Si!FollowupsInit, Si!NoSuggestion
<1>2. Si!NotAccepting \in Si!Acceptances /\ \A w \in Si!Ways : s3[w].step = "idle"
  BY <1>1 DEF Si!NotAccepting, Si!Acceptances
<1>3. Si!SuggestionShape /\ Si!AskShape /\ Si!ForgedShape /\ Si!AcceptingShape
  <2>1. Si!SuggestionShape
    BY <1>1 DEF Si!SuggestionShape, Si!Suggestions
  <2>2. Si!AskShape /\ Si!ForgedShape
    <3>1. 0 \in 0..MaxForged
      OBVIOUS
    <3> QED
      BY <1>1, <3>1, Zenon DEF Si!AskShape, Si!ForgedShape
  <2>3. Si!AcceptingShape
    BY <1>1, <1>2 DEF Si!AcceptingShape
  <2> QED
    BY <2>1, <2>2, <2>3
<1>4. Si!AcceptedWasFiled /\ Si!FiledOnce /\ Si!FiledIsRemembered /\ Si!AnsweredMeansFiled
  BY <1>1 DEF Si!AcceptedWasFiled, Si!FiledOnce, Si!FiledIsRemembered, Si!AnsweredMeansFiled
<1>5. /\ Si!PastFilingWasFiled /\ Si!UnsureDoubts /\ Si!OneFiles /\ Si!FilingIsMarked
      /\ Si!NotFiledYet
  BY <1>2 DEF Si!PastFilingWasFiled, Si!UnsureDoubts, Si!OneFiles, Si!FilingIsMarked,
     Si!NotFiledYet, Si!At, Si!Filing
<1> QED
  BY <1>3, <1>4, <1>5 DEF Si!FollowupsInv

(* Where nothing happens nothing changes.                                    *)
LEMMA FollowupsStay ==
  ASSUME Si!FollowupsInv, UNCHANGED Si!followVars
  PROVE  Si!FollowupsInv' /\ Si!OffersAreNotReplacedStep
<1>1. /\ Si!SuggestionShape
      /\ Si!AcceptingShape
      /\ Si!AskShape
      /\ Si!ForgedShape
      /\ Si!AcceptedWasFiled
      /\ Si!PastFilingWasFiled
      /\ Si!UnsureDoubts
      /\ Si!OneFiles
      /\ Si!FilingIsMarked
      /\ Si!NotFiledYet
      /\ Si!FiledOnce
      /\ Si!FiledIsRemembered
      /\ Si!AnsweredMeansFiled
  BY DEF Si!FollowupsInv
<1>2. s1' = s1 /\ s2' = s2 /\ s3' = s3 /\ s4' = s4 /\ s5' = s5 /\ s6' = s6
  BY DEF Si!followVars
<1>3. Si!SuggestionShape' /\ Si!AcceptingShape' /\ Si!AskShape'
  BY <1>1, <1>2, Zenon DEF Si!SuggestionShape, Si!Suggestions, Si!AcceptingShape,
     Si!Acceptances, Si!AskShape
<1>4. Si!ForgedShape' /\ Si!AcceptedWasFiled' /\ Si!PastFilingWasFiled'
  BY <1>1, <1>2, Zenon DEF Si!ForgedShape, Si!AcceptedWasFiled, Si!PastFilingWasFiled
<1>5. Si!UnsureDoubts' /\ Si!OneFiles' /\ Si!FilingIsMarked'
  BY <1>1, <1>2, Zenon DEF Si!UnsureDoubts, Si!At, Si!OneFiles, Si!Filing, Si!FilingIsMarked
<1>6. Si!NotFiledYet' /\ Si!FiledOnce' /\ Si!FiledIsRemembered'
  BY <1>1, <1>2, Zenon DEF Si!NotFiledYet, Si!At, Si!FiledOnce, Si!FiledIsRemembered
<1>7. Si!AnsweredMeansFiled'
  BY <1>1, <1>2, Zenon DEF Si!AnsweredMeansFiled
<1>8. Si!OffersAreNotReplacedStep
  BY <1>1, <1>2 DEF Si!OffersAreNotReplacedStep
<1> QED
  BY <1>3, <1>4, <1>5, <1>6, <1>7, <1>8 DEF Si!FollowupsInv

(* The invariant says what the run asks of follow-up suggestions.            *)
LEMMA FollowupsSaySo ==
  Si!FollowupsInv =>
    /\ Si!FollowupsTypeOK
    /\ Si!FiledOnce /\ Si!FiledIsRemembered /\ Si!AnsweredMeansFiled
<1> SUFFICES ASSUME Si!FollowupsInv
             PROVE  /\ Si!FollowupsTypeOK
                    /\ Si!FiledOnce /\ Si!FiledIsRemembered /\ Si!AnsweredMeansFiled
  OBVIOUS
<1>1. Si!FollowupsTypeOK
  BY Zenon DEF Si!FollowupsInv, Si!FollowupsTypeOK, Si!SuggestionShape, Si!AcceptingShape,
     Si!AskShape, Si!ForgedShape, Si!Suggestions, Si!Acceptances
<1> QED
  BY <1>1, Zenon DEF Si!FollowupsInv

(* The queue of prompts keeps its counts, stutters or not, and prompts back off. *)
LEMMA WakesKeep ==
  Wa!WakesInv /\ [Wa!WakesNext]_(Wa!wakeVars)
    => Wa!WakesInv' /\ Wa!PromptsBackOffStep
BY WakesStep, WakesStay

(* Offers keep to the work that is free, and leads are spread. *)
LEMMA WorkOffersKeep ==
  Wo!WorkOffersInv /\ [Wo!WorkOffersNext]_(Wo!workVars)
    => Wo!WorkOffersInv' /\ Wo!LeadsAreSpreadStep
BY WorkOffersStep, WorkOffersStay

(* A pull request's readings, verdicts and rounds stay together. *)
LEMMA PullRequestsKeep ==
  Pr!PullRequestsInv /\ [Pr!PullRequestsNext]_(Pr!prVars)
    => Pr!PullRequestsInv'
BY PullRequestsStep, PullRequestsStay

(* Base, work and record stay together, and no step builds on unverified work. *)
LEMMA IntegrationsKeep ==
  Ig!IntegrationsInv /\ [Ig!IntegrationsNext]_(Ig!inVars)
    => /\ Ig!IntegrationsInv'
       /\ Ig!NobodyBuildsOnUnverifiedWorkStep
       /\ Ig!CompletedWorkIsVerifiedStep
       /\ Ig!ApprovalsAnswerThisWorkStep
BY IntegrationsStep, IntegrationsStay

(* A bulk merge keeps its sequence and what it merged together. *)
LEMMA BulkKeeps ==
  Bm!BulkInv /\ [Bm!BulkNext]_(Bm!bulkVars)
    => Bm!BulkInv'
BY BulkStep, BulkStays

(* The plan and the ledger stay together, and a revision lands on its ground. *)
LEMMA PlanRevisionsKeep ==
  Pl!PlanRevisionsInv /\ [Pl!PlanRevisionsNext]_(Pl!plVars)
    => /\ Pl!PlanRevisionsInv'
       /\ Pl!RevisionsLandOnTheirGroundStep
       /\ Pl!LanesDoNotFlipEdgesStep
BY PlanRevisionsStep, PlanRevisionsStay

(* A decision and its answer stay together, and the answer stands. *)
LEMMA DecisionsKeep ==
  Si!DecisionsInv /\ [Si!DecisionsNext]_(Si!decVars)
    => Si!DecisionsInv' /\ Si!AnswersStandStep
BY DecisionsStep, DecisionsStay

(* A suggestion and its filing stay together, and its offer is not replaced. *)
LEMMA FollowupsKeep ==
  Si!FollowupsInv /\ [Si!FollowupsNext]_(Si!followVars)
    => Si!FollowupsInv' /\ Si!OffersAreNotReplacedStep
BY FollowupsStep, FollowupsStay

(* The rows of a lane agree with what is wrong with it. *)
LEMMA ProblemsKeep ==
  Pb!ProblemsInv /\ [Pb!ProblemsNext]_(Pb!problemsVars)
    => Pb!ProblemsInv'
BY ProblemsStep, ProblemsStay

(* The catalog follows the forge, and only closed work is ended. *)
LEMMA CatalogKeeps ==
  Fc!CatalogInv /\ [Fc!CatalogNext]_(Fc!catalogVars)
    => Fc!CatalogInv' /\ Fc!OnlyClosedWorkIsEndedStep
BY CatalogStep, CatalogStays

(* The record of a run and the walk over it stay together. *)
LEMMA BlueprintsKeep ==
  Bl!BlueprintsInv /\ [Bl!BlueprintsNext]_(Bl!blueprintVars)
    => Bl!BlueprintsInv'
BY BlueprintsStep, BlueprintsStay

(* A behaviour of the sum is one component's, and keeps its invariant. *)
IntegrationInv ==
  /\ part \in {"wakes", "workOffers", "pullRequests", "integrations",
               "bulkMerges", "planRevisions", "decisions", "followups",
               "problems", "forgeCatalog", "blueprints"}
  /\ part = "wakes" => Wa!WakesInv
  /\ part = "workOffers" => Wo!WorkOffersInv
  /\ part = "pullRequests" => Pr!PullRequestsInv
  /\ part = "integrations" => Ig!IntegrationsInv
  /\ part = "bulkMerges" => Bm!BulkInv
  /\ part = "planRevisions" => Pl!PlanRevisionsInv
  /\ part = "decisions" => Si!DecisionsInv
  /\ part = "followups" => Si!FollowupsInv
  /\ part = "problems" => Pb!ProblemsInv
  /\ part = "forgeCatalog" => Fc!CatalogInv
  /\ part = "blueprints" => Bl!BlueprintsInv

(* Each component starts within its invariant. *)
LEMMA IntegrationInitially == Init => IntegrationInv
BY WakesInitially, WorkOffersInitially, PullRequestsInitially, IntegrationsInitially,
   BulkInitially, PlanRevisionsInitially, DecisionsInitially, FollowupsInitially,
   ProblemsInitially, CatalogInitially, BlueprintsInitially
   DEF Init, IntegrationInv

(* A step of the sum is a step, or a stutter, of the component that runs. *)
LEMMA PartsStep ==
  [Next]_vars =>
    /\ part' = part
    /\ part = "wakes" => [Wa!WakesNext]_(Wa!wakeVars)
    /\ part = "workOffers" => [Wo!WorkOffersNext]_(Wo!workVars)
    /\ part = "pullRequests" => [Pr!PullRequestsNext]_(Pr!prVars)
    /\ part = "integrations" => [Ig!IntegrationsNext]_(Ig!inVars)
    /\ part = "bulkMerges" => [Bm!BulkNext]_(Bm!bulkVars)
    /\ part = "planRevisions" => [Pl!PlanRevisionsNext]_(Pl!plVars)
    /\ part = "decisions" => [Si!DecisionsNext]_(Si!decVars)
    /\ part = "followups" => [Si!FollowupsNext]_(Si!followVars)
    /\ part = "problems" => [Pb!ProblemsNext]_(Pb!problemsVars)
    /\ part = "forgeCatalog" => [Fc!CatalogNext]_(Fc!catalogVars)
    /\ part = "blueprints" => [Bl!BlueprintsNext]_(Bl!blueprintVars)
<1> SUFFICES ASSUME [Next]_vars
             PROVE  /\ part' = part
                    /\ part = "wakes" => [Wa!WakesNext]_(Wa!wakeVars)
                    /\ part = "workOffers" => [Wo!WorkOffersNext]_(Wo!workVars)
                    /\ part = "pullRequests" => [Pr!PullRequestsNext]_(Pr!prVars)
                    /\ part = "integrations" => [Ig!IntegrationsNext]_(Ig!inVars)
                    /\ part = "bulkMerges" => [Bm!BulkNext]_(Bm!bulkVars)
                    /\ part = "planRevisions" => [Pl!PlanRevisionsNext]_(Pl!plVars)
                    /\ part = "decisions" => [Si!DecisionsNext]_(Si!decVars)
                    /\ part = "followups" => [Si!FollowupsNext]_(Si!followVars)
                    /\ part = "problems" => [Pb!ProblemsNext]_(Pb!problemsVars)
                    /\ part = "forgeCatalog" => [Fc!CatalogNext]_(Fc!catalogVars)
                    /\ part = "blueprints" => [Bl!BlueprintsNext]_(Bl!blueprintVars)
  OBVIOUS
<1>1. CASE UNCHANGED vars
  BY <1>1 DEF vars, Wa!wakeVars, Wo!workVars, Pr!prVars, Ig!inVars,
     Bm!bulkVars, Pl!plVars, Si!decVars, Si!followVars,
     Pb!problemsVars, Fc!catalogVars, Bl!blueprintVars
<1>2. CASE Next
  BY <1>2 DEF Next, OfWakes, OfWorkOffers, OfPullRequests, OfIntegrations,
     OfBulkMerges, OfPlanRevisions, OfDecisions, OfFollowups,
     OfProblems, OfForgeCatalog, OfBlueprints
<1> QED
  BY <1>1, <1>2

(* Each component keeps its invariant, and the others are not of this
   behaviour. *)
LEMMA IntegrationStep == IntegrationInv /\ [Next]_vars => IntegrationInv'
BY PartsStep, WakesKeep, WorkOffersKeep, PullRequestsKeep, IntegrationsKeep,
   BulkKeeps, PlanRevisionsKeep, DecisionsKeep, FollowupsKeep,
   ProblemsKeep, CatalogKeeps, BlueprintsKeep
   DEF IntegrationInv

(* Every behaviour keeps the invariant of its component. *)
THEOREM IntegrationIsSound == Spec => []IntegrationInv
<1>1. Init => IntegrationInv
  BY IntegrationInitially
<1>2. IntegrationInv /\ [Next]_vars => IntegrationInv'
  BY IntegrationStep
<1> QED
  BY <1>1, <1>2, PTL DEF Spec

(* Every component of integration keeps its types. *)
THEOREM IntegrationTypeCorrect == Spec => []TypeOK
<1>1. IntegrationInv => TypeOK
  BY WakesSaySo, WorkOffersSaySo, PullRequestsSaySo, IntegrationsSaySo,
     BulkSaysSo, PlanRevisionsSaySo, DecisionsSaySo, FollowupsSaySo,
     ProblemsSaySo, CatalogSaysSo, BlueprintsSaySo
     DEF IntegrationInv, TypeOK
<1> QED
  BY <1>1, IntegrationIsSound, PTL

(* Offers are asked about as often as their bound allows and attempts are the
   offers made; a verdict is told once and one rerun is made of a head; an
   attempt is charged to the work it tried, the envelope bounds what lanes
   decide, an answer is carried out once, a suggestion filed once, and each
   failure of a blueprint answers a verdict. *)
THEOREM NothingIsDoneTwice == Spec => []AskedAndToldOnce
<1>1. IntegrationInv => AskedAndToldOnce
  BY WakesSaySo, WorkOffersSaySo, PullRequestsSaySo, IntegrationsSaySo,
     PlanRevisionsSaySo, DecisionsSaySo, FollowupsSaySo, BlueprintsSaySo
     DEF IntegrationInv, AskedAndToldOnce
<1> QED
  BY <1>1, IntegrationIsSound, PTL

(* An unverified base is on record until it is verified; prerequisites merge
   first, confirmed and as predicted; the plan and the ledger agree on what
   landed; grave answers were confirmed; what was filed is remembered; every
   lane that waits has a row, and the service serves its rows; the catalog is
   current; a blueprint passes on what it recorded. *)
THEOREM WhatCountsWasRead == Spec => []NothingIsMergedUnseen
<1>1. IntegrationInv => NothingIsMergedUnseen
  BY IntegrationsSaySo, BulkSaysSo, PlanRevisionsSaySo, DecisionsSaySo,
     FollowupsSaySo, ProblemsSaySo, CatalogSaysSo, BlueprintsSaySo
     DEF IntegrationInv, NothingIsMergedUnseen
<1> QED
  BY <1>1, IntegrationIsSound, PTL

(* Prompts back off and leads are spread; nobody builds on an unverified
   merge, completed work is verified and an approval answers the work it was
   given for; a revision lands on the ground it was written for and lanes do
   not flip an edge over and over; answers stand, an offer under way is not
   replaced, and only closed work is ended. *)
THEOREM EachStepHasItsGround == Spec => StepsStandOnVerifiedGround
<1>1. IntegrationInv /\ [Next]_vars =>
        /\ part = "wakes" => Wa!PromptsBackOffStep
        /\ part = "workOffers" => Wo!LeadsAreSpreadStep
        /\ part = "integrations" => /\ Ig!NobodyBuildsOnUnverifiedWorkStep
                                     /\ Ig!CompletedWorkIsVerifiedStep
                                     /\ Ig!ApprovalsAnswerThisWorkStep
        /\ part = "planRevisions" => /\ Pl!RevisionsLandOnTheirGroundStep
                                      /\ Pl!LanesDoNotFlipEdgesStep
        /\ part = "decisions" => Si!AnswersStandStep
        /\ part = "followups" => Si!OffersAreNotReplacedStep
        /\ part = "forgeCatalog" => Fc!OnlyClosedWorkIsEndedStep
  BY PartsStep, WakesKeep, WorkOffersKeep, IntegrationsKeep, PlanRevisionsKeep,
     DecisionsKeep, FollowupsKeep, CatalogKeeps
     DEF IntegrationInv
<1> QED
  BY <1>1, IntegrationIsSound, PTL DEF Spec, StepsStandOnVerifiedGround
=============================================================================
