---------------------------- MODULE MCIssueLedger ----------------------------
(***************************************************************************)
(* Instances of IssueLedger for TLC.  Two issues and two lanes under every *)
(* reading of the forge are more than TLC can visit, so one run visits two *)
(* parts of that instance, each of them whole.                             *)
(***************************************************************************)
EXTENDS IssueLedger, TLC

CONSTANTS laneA, laneB, issue1, issue2, issue3

OneLane == {laneA}
TwoLanes == {laneA, laneB}
OneIssue == {issue1}
TwoIssues == {issue1, issue2}
ThreeIssues == {issue1, issue2, issue3}
NoLanes == {}
NoIssues == {}
JustB == {laneB}
NoCommits == {}
OneCommit == {1}
Untimed == {"none"}
Timed == {"none", "running"}
NeverEnds == {}
AnyEnding == Ending
IssueSymmetry == Permutations(ThreeIssues)

-----------------------------------------------------------------------------
(* The parts of an instance that one run visits.                           *)

(* One issue, on its own, that ends on the forge in any way. *)
OneIssueEnds == record[issue2] = Unseen /\ record[issue1].waits = {}

(* Two issues of one lane, one of which ends by hand. *)
OneLaneWaits ==
    /\ forge[issue1].how \in {"open", "by hand"}
    /\ base = {} /\ merge = NoMerge
    /\ \A i \in TwoIssues :
          LET r == record[i]
          IN  /\ r.owner # laneB /\ r.offer = NoOffer
              /\ r.claim <= 1 /\ r.commit = 0

EndsOrWaits == OneIssueEnds \/ OneLaneWaits

=============================================================================
