-------------------------- MODULE SupervisionProofs -------------------------
(***************************************************************************)
(* The components of the sum MCSupervision: attempts to integrate          *)
(* unattended work, readings of capacity, lanes that leave, overdue        *)
(* claims, claims of dead lanes, processes stopped under an approval and   *)
(* claims taken from dead sessions; then the theorems about the sum. Each  *)
(* lemma about a step is stated for the component alone, by its instance   *)
(* in the sum: its invariant, stated in the component's module, holds at   *)
(* first, every step of the component keeps it, and the action properties  *)
(* follow from it.                                                         *)
(***************************************************************************)
EXTENDS MCSupervision, Integers, TLAPS

(* The attempts of the service to integrate on its own.                    *)

(* At first nothing was decided and no attempt is under way.               *)
LEMMA AttemptsInitially == Ua!AttemptsInit => Ua!AttemptsInv
<1> SUFFICES ASSUME Ua!AttemptsInit PROVE Ua!AttemptsInv
  OBVIOUS
<1> USE SupervisionAssumption
<1>1. s1 \in BOOLEAN /\ s3 \in BOOLEAN /\ s5 \in BOOLEAN /\ s6 \in BOOLEAN /\ s11 \in BOOLEAN
      /\ ~s11
  BY Zenon DEF Ua!AttemptsInit
<1>2. /\ s2 = 1 /\ s4 = 1 /\ s7 = [source |-> 0, target |-> 0, outcome |-> "none"]
      /\ s8 = Ua!NoAttempt /\ s9 = "nothing" /\ s10 = {} /\ s12 = 0
  BY DEF Ua!AttemptsInit
<1>3. Ua!AttemptsTypeOK
  BY <1>1, <1>2 DEF Ua!AttemptsTypeOK, Ua!Decisions, Ua!NoAttempt
<1> QED
  BY <1>1, <1>2, <1>3 DEF Ua!AttemptsInv, Ua!NothingIsDecidedTwice, Ua!NoAttempt

(* Work and target only advance, an attempt starts on a pair that is news, and
   it records the pair it looked at. *)
LEMMA AttemptsStep ==
  Ua!AttemptsInv /\ [Ua!AttemptsNext]_(Ua!attemptVars)
    => Ua!AttemptsInv' /\ (Ua!MergesWhatWasGatedStep \/ UNCHANGED Ua!attemptVars)
<1> SUFFICES ASSUME Ua!AttemptsInv, [Ua!AttemptsNext]_(Ua!attemptVars)
             PROVE  Ua!AttemptsInv' /\ (Ua!MergesWhatWasGatedStep \/ UNCHANGED Ua!attemptVars)
  OBVIOUS
<1> USE SupervisionAssumption
<1> DEFINE
      Flags == /\ s1 \in BOOLEAN /\ s3 \in BOOLEAN /\ s5 \in BOOLEAN /\ s6 \in BOOLEAN
               /\ s11 \in BOOLEAN /\ ~s11
      Types == /\ s2 \in 1..MaxCommits /\ s4 \in 1..MaxTargets /\ s7 \in Ua!Decisions
               /\ s8 \in [at : {"none", "started", "gating", "gated"}, source : 0..MaxCommits,
                          target : 0..MaxTargets, round : 0..Rounds]
               /\ s9 \in {"nothing", "running", "free"} /\ s12 \in 0..MaxToggles
               /\ s10 \subseteq (0..MaxCommits) \X (0..MaxTargets)
      Newest == /\ s7.outcome = "none" => s10 = {} /\ s7.source = 0 /\ s7.target = 0
                /\ s7.source <= s2 /\ s7.target <= s4
                /\ \A p \in s10 : p[1] <= s7.source /\ p[2] <= s7.target
                /\ s7.outcome = "busy" => <<s7.source, s7.target>> \notin s10
      Fresh == /\ s9 = "free" => s8.at = "none"
               /\ s8.at = "started" => s8.round < Rounds
               /\ s8.at # "none" => <<s2, s4>> \notin s10
               /\ s8.at \in {"gating", "gated"} =>
                     /\ s7.source <= s8.source /\ s8.source <= s2
                     /\ s7.target <= s8.target /\ s8.target <= s4
                     /\ <<s8.source, s8.target>> \notin s10
      Goal == Ua!AttemptsInv' /\ (Ua!MergesWhatWasGatedStep \/ UNCHANGED Ua!attemptVars)
<1>1. Flags /\ Types /\ Newest /\ Fresh
  BY DEF Ua!AttemptsInv, Ua!AttemptsTypeOK, Ua!NothingIsDecidedTwice
<1>2. ASSUME Flags', Types', Newest', Fresh'
      PROVE  Ua!AttemptsInv'
  BY <1>2 DEF Ua!AttemptsInv, Ua!AttemptsTypeOK, Ua!NothingIsDecidedTwice
<1>3. ASSUME UNCHANGED s3 \/ UNCHANGED s7
      PROVE  Ua!MergesWhatWasGatedStep
  BY <1>1, <1>3, Zenon DEF Ua!MergesWhatWasGatedStep
<1>4. ASSUME Ua!Around PROVE Goal
  <2>1. Flags' /\ UNCHANGED <<s3, s7, s8, s9, s10>>
    BY <1>1, <1>4, Zenon DEF Ua!Around
  <2>2. s2' \in s2..MaxCommits /\ s4' \in s4..MaxTargets /\ s12' \in 0..MaxToggles
        /\ (<<s2', s4'>> = <<s2, s4>> \/ s2' > s2 \/ s4' > s4)
    <3>1. s2 \in 1..MaxCommits /\ s4 \in 1..MaxTargets /\ s12 \in 0..MaxToggles
      BY <1>1
    <3>2. \/ s2 < MaxCommits /\ s2' = s2 + 1 /\ s4' = s4 /\ s12' = s12
          \/ s4 < MaxTargets /\ s4' = s4 + 1 /\ s2' = s2 /\ s12' = s12
          \/ s12 < MaxToggles /\ s12' = s12 + 1 /\ s2' = s2 /\ s4' = s4
      BY <1>4 DEF Ua!Around
    <3> QED
      BY <3>1, <3>2
  <2>3. Types'
    BY <1>1, <2>1, <2>2
  <2>4. Newest'
    BY <1>1, <2>1, <2>2 DEF Ua!Decisions
  <2>5. Fresh'
    BY <1>1, <2>1, <2>2 DEF Ua!Decisions
  <2> QED
    BY <1>2, <1>3, <2>1, <2>3, <2>4, <2>5
<1>5. ASSUME Ua!ThreadsFirst PROVE Goal
  <2>1. Flags' /\ UNCHANGED <<s2, s3, s4, s7, s8, s10, s12>>
    BY <1>1, <1>5, Zenon DEF Ua!ThreadsFirst
  <2>2. s9' = IF s8.at = "none" THEN "free" ELSE "running"
    BY <1>5 DEF Ua!ThreadsFirst
  <2>3. Types' /\ Newest' /\ Fresh'
    BY <1>1, <2>1, <2>2
  <2> QED
    BY <1>2, <1>3, <2>1, <2>3
<1>6. ASSUME Ua!StartAttempt PROVE Goal
  <2>1. Flags' /\ UNCHANGED <<s2, s3, s4, s7, s10, s12>>
    BY <1>1, <1>6, Zenon DEF Ua!StartAttempt
  <2>2. s9' = "nothing" /\ (s8' = s8 \/ (~Ua!Settled /\
                s8' = [at |-> "started", source |-> 0, target |-> 0, round |-> 0]))
    BY <1>6, Zenon DEF Ua!StartAttempt
  <2>3. Types' /\ Newest'
    BY <1>1, <2>1, <2>2
  <2>4. ~Ua!Settled => <<s2, s4>> \notin s10
    BY <1>1 DEF Ua!Settled, Ua!Decisions
  <2>5. Fresh'
    BY <1>1, <2>1, <2>2, <2>4
  <2> QED
    BY <1>2, <1>3, <2>1, <2>3, <2>5
(* What an attempt records, of what it looked at.                          *)
<1>7. ASSUME NEW o \in {"refused", "busy", "failed", "integrated"}, NEW c \in 0..MaxCommits,
             NEW t \in 0..MaxTargets,
             s7.source <= c, c <= s2, s7.target <= t, t <= s4, <<c, t>> \notin s10,
             Ua!Record(o, c, t), UNCHANGED <<s2, s4, s9, s12>>
      PROVE  Types' /\ Newest' /\ Fresh' /\ (s11' <=> s11) /\ s7' = [source |-> c, target |-> t, outcome |-> o]
  <2>1. /\ s7' = [source |-> c, target |-> t, outcome |-> o] /\ s8' = Ua!NoAttempt
        /\ s10' = IF o = "busy" THEN s10 ELSE s10 \cup {<<c, t>>}
        /\ (s11' <=> (s11 \/ (o # "busy" /\ <<c, t>> \in s10)))
    BY <1>7, Zenon DEF Ua!Record
  <2>2. s7'.source = c /\ s7'.target = t /\ s7'.outcome = o /\ s7' \in Ua!Decisions
    BY <2>1 DEF Ua!Decisions
  <2>3. s8'.at = "none" /\ s8' \in [at : {"none", "started", "gating", "gated"}, source : 0..MaxCommits,
                          target : 0..MaxTargets, round : 0..Rounds]
    BY <2>1 DEF Ua!NoAttempt
  <2>4. Types'
    BY <1>1, <1>7, <2>1, <2>2, <2>3
  <2>5. \A p \in s10' : p[1] <= c /\ p[2] <= t
    BY <1>1, <1>7, <2>1 DEF Ua!Decisions
  <2>6. Newest'
    BY <1>1, <1>7, <2>1, <2>2, <2>5
  <2>7. Fresh'
    BY <1>1, <1>7, <2>3
  <2> QED
    BY <1>1, <1>7, <2>1, <2>4, <2>6, <2>7
<1>8. ASSUME Ua!Evaluate PROVE Goal
  <2>1. s8.at = "started" /\ UNCHANGED <<s2, s3, s4, s9, s12>> /\ UNCHANGED <<s1, s5, s6>>
    BY <1>8, Zenon DEF Ua!Evaluate
  <2>2. CASE s8' = Ua!NoAttempt /\ UNCHANGED <<s7, s10, s11>>
    <3>1. s8'.at = "none" /\ s8' \in [at : {"none", "started", "gating", "gated"}, source : 0..MaxCommits,
                          target : 0..MaxTargets, round : 0..Rounds]
      BY <2>2 DEF Ua!NoAttempt
    <3>2. Types' /\ Newest' /\ Fresh'
      BY <1>1, <2>1, <2>2, <3>1
    <3>3. Flags'
      BY <1>1, <2>1, <2>2, Zenon
    <3> QED
      BY <1>2, <1>3, <2>1, <3>2, <3>3
  <2>3. CASE Ua!Record("refused", s2, s4)
    <3>1. Types' /\ Newest' /\ Fresh' /\ (s11' <=> s11)
      BY <1>1, <1>7, <2>1, <2>3
    <3>2. s11' \in BOOLEAN
      BY <2>3, Zenon DEF Ua!Record
    <3>3. Flags'
      BY <1>1, <2>1, <3>1, <3>2, Zenon
    <3> QED
      BY <1>2, <1>3, <2>1, <3>1, <3>3
  <2>4. CASE /\ s8' = [s8 EXCEPT !.at = "gating", !.source = s2, !.target = s4, !.round = @ + 1]
             /\ UNCHANGED <<s7, s10, s11>>
    <3>1. s8.round + 1 \in 0..Rounds
      BY <1>1, <2>1
    <3>2. /\ s8'.at = "gating" /\ s8'.source = s2 /\ s8'.target = s4 /\ s8'.round = s8.round + 1
          /\ s8' = [at |-> s8'.at, source |-> s8'.source, target |-> s8'.target,
                    round |-> s8'.round]
      BY <1>1, <2>4
    <3>3. Types'
      BY <1>1, <2>1, <2>4, <3>1, <3>2
    <3>4. Newest' /\ Fresh'
      BY <1>1, <2>1, <2>4
    <3>5. Flags'
      BY <1>1, <2>1, <2>4, Zenon
    <3> QED
      BY <1>2, <1>3, <2>1, <3>3, <3>4, <3>5
  <2> QED
    BY <1>8, <2>2, <2>3, <2>4, Zenon DEF Ua!Evaluate
<1>9. ASSUME Ua!Gate PROVE Goal
  <2>1. s8.at = "gating" /\ UNCHANGED <<s2, s3, s4, s9, s12>> /\ UNCHANGED <<s1, s5, s6>>
    BY <1>9, Zenon DEF Ua!Gate
  <2>2. CASE s8' = [s8 EXCEPT !.at = "gated"] /\ UNCHANGED <<s7, s10, s11>>
    <3>1. Types' /\ Newest' /\ Fresh'
      BY <1>1, <2>1, <2>2
    <3>2. Flags'
      BY <1>1, <2>1, <2>2, Zenon
    <3> QED
      BY <1>2, <1>3, <2>1, <3>1, <3>2
  <2>3. CASE Ua!Record("failed", s8.source, s8.target)
    <3>1. Types' /\ Newest' /\ Fresh' /\ (s11' <=> s11)
      BY <1>1, <1>7, <2>1, <2>3
    <3>2. s11' \in BOOLEAN
      BY <2>3, Zenon DEF Ua!Record
    <3>3. Flags'
      BY <1>1, <2>1, <3>1, <3>2, Zenon
    <3> QED
      BY <1>2, <1>3, <2>1, <3>1, <3>3
  <2> QED
    BY <1>9, <2>2, <2>3, Zenon DEF Ua!Gate
<1>10. ASSUME Ua!MergeOrAgain PROVE Goal
  <2>1. s8.at = "gated" /\ UNCHANGED <<s2, s4, s9, s12>> /\ UNCHANGED <<s1, s5, s6>>
    BY <1>10, Zenon DEF Ua!MergeOrAgain
  <2>2. \/ /\ Ua!RoundsLeft /\ s8' = [s8 EXCEPT !.at = "started"]
           /\ UNCHANGED <<s3, s7, s10, s11>>
        \/ /\ \E o \in {"refused", "busy", "failed"} : Ua!Record(o, s8.source, s8.target)
           /\ UNCHANGED s3
        \/ /\ ~Ua!TargetMoved /\ s2 = s8.source /\ s3' = TRUE
           /\ Ua!Record("integrated", s8.source, s8.target)
    <3>1. CASE Ua!TargetMoved /\ Ua!RoundsLeft
      BY <1>10, <3>1, Zenon DEF Ua!MergeOrAgain
    <3>2. CASE Ua!TargetMoved /\ ~Ua!RoundsLeft
      BY <1>10, <3>2, Zenon DEF Ua!MergeOrAgain
    <3>3. CASE ~Ua!TargetMoved /\ s6
      BY <1>10, <3>3, Zenon DEF Ua!MergeOrAgain
    <3>4. CASE ~Ua!TargetMoved /\ ~s6 /\ (s3 \/ s2 # s8.source)
      BY <1>10, <3>4, Zenon DEF Ua!MergeOrAgain
    <3>5. CASE ~Ua!TargetMoved /\ ~s6 /\ ~(s3 \/ s2 # s8.source)
      BY <1>10, <3>5, Zenon DEF Ua!MergeOrAgain
    <3> QED
      BY <3>1, <3>2, <3>3, <3>4, <3>5
  <2>3. CASE /\ Ua!RoundsLeft /\ s8' = [s8 EXCEPT !.at = "started"]
             /\ UNCHANGED <<s3, s7, s10, s11>>
    <3>1. Types' /\ Newest' /\ Fresh'
      BY <1>1, <2>1, <2>3 DEF Ua!RoundsLeft
    <3>2. Flags'
      BY <1>1, <2>1, <2>3, Zenon
    <3> QED
      BY <1>2, <1>3, <2>3, <3>1, <3>2
  <2>4. ASSUME NEW o \in {"refused", "busy", "failed", "integrated"},
               Ua!Record(o, s8.source, s8.target), s3' \in BOOLEAN
        PROVE  /\ Ua!AttemptsInv'
               /\ s7' = [source |-> s8.source, target |-> s8.target, outcome |-> o]
    <3>1. /\ Types' /\ Newest' /\ Fresh' /\ (s11' <=> s11)
          /\ s7' = [source |-> s8.source, target |-> s8.target, outcome |-> o]
      BY <1>1, <1>7, <2>1, <2>4
    <3>2. s11' \in BOOLEAN
      BY <2>4, Zenon DEF Ua!Record
    <3>3. Flags'
      BY <1>1, <2>1, <2>4, <3>1, <3>2, Zenon
    <3> QED
      BY <1>2, <3>1, <3>3
  <2>5. ASSUME NEW o \in {"refused", "busy", "failed"}, Ua!Record(o, s8.source, s8.target),
               UNCHANGED s3
        PROVE  Goal
    <3>1. s3' \in BOOLEAN
      BY <1>1, <2>5, Zenon
    <3> QED
      BY <1>3, <2>4, <2>5, <3>1
  <2>6. ASSUME ~Ua!TargetMoved, s2 = s8.source, s3' = TRUE,
               Ua!Record("integrated", s8.source, s8.target)
        PROVE  Goal
    <3>1. /\ Ua!AttemptsInv'
          /\ s7' = [source |-> s8.source, target |-> s8.target, outcome |-> "integrated"]
      BY <2>4, <2>6
    <3>2. s7'.target = s4 /\ s7'.source = s2
      BY <2>6, <3>1 DEF Ua!TargetMoved
    <3> QED
      BY <3>1, <3>2 DEF Ua!MergesWhatWasGatedStep
  <2> QED
    BY <2>2, <2>3, <2>5, <2>6
<1>11. ASSUME Ua!ServiceStops PROVE Goal
  <2>1. Flags' /\ UNCHANGED <<s2, s3, s4, s7, s10>> /\ s8' = Ua!NoAttempt /\ s9' = "nothing"
    BY <1>1, <1>11, Zenon DEF Ua!ServiceStops
  <2>2. s12' \in 0..MaxToggles
    BY <1>1, <1>11 DEF Ua!ServiceStops
  <2>3. Types' /\ Newest' /\ Fresh'
    BY <1>1, <2>1, <2>2 DEF Ua!NoAttempt
  <2> QED
    BY <1>2, <1>3, <2>1, <2>3
<1>12. ASSUME Ua!OperatorMerges PROVE Goal
  <2>1. Flags' /\ UNCHANGED <<s2, s7, s8, s9, s10, s12>>
    BY <1>1, <1>12, Zenon DEF Ua!OperatorMerges
  <2>2. s4' = s4 + 1 /\ s4 < MaxTargets
    BY <1>12 DEF Ua!OperatorMerges
  <2>3. Types' /\ Newest' /\ Fresh'
    BY <1>1, <2>1, <2>2 DEF Ua!Decisions
  <2> QED
    BY <1>2, <1>3, <2>1, <2>3
<1>13. ASSUME UNCHANGED Ua!attemptVars PROVE Goal
  <2>1. UNCHANGED <<s1, s2, s3, s4, s5, s6, s7, s8, s9, s10, s11, s12>>
    BY <1>13 DEF Ua!attemptVars
  <2>2. Types' /\ Newest' /\ Fresh'
    BY <1>1, <2>1
  <2>3. Flags'
    BY <1>1, <2>1, Zenon
  <2> QED
    BY <1>2, <1>13, <2>2, <2>3
<1> HIDE DEF Goal
<1>14. Goal
  BY <1>4, <1>5, <1>6, <1>8, <1>9, <1>10, <1>11, <1>12, <1>13 DEF Ua!AttemptsNext, Ua!Attempt
<1> QED
  BY <1>14 DEF Goal

(* The capacity of a lane's provider.                                      *)

(* A cleared record is available and not older.                            *)
LEMMA ClearedReading ==
  ASSUME NEW r \in Ca!Readings, NEW t \in -1..MaxNow, NEW q, q = Ca!ClearExhaustion(r, t)
  PROVE  /\ q \in Ca!Readings /\ q.state = "available" /\ q.progress = r.progress
         /\ q.at = (IF t > r.at THEN t ELSE r.at)
<1> USE SupervisionAssumption
<1>1. PICK m : m = (IF t > r.at THEN t ELSE r.at)
  OBVIOUS
<1>2. PICK c : c = [r EXCEPT !.state = "available", !.reset = 0, !.probes = 0, !.at = m]
  OBVIOUS
<1>3. m \in -1..MaxNow /\ m >= r.at /\ "available" \in Ca!CapacityStates
  BY <1>1 DEF Ca!Readings, Ca!CapacityStates
<1>4. c = [state |-> "available", at |-> m, reset |-> 0, progress |-> r.progress, probes |-> 0]
  BY <1>2 DEF Ca!Readings
<1>5. c \in Ca!Readings /\ c.state = "available" /\ c.at = m /\ c.progress = r.progress
  BY <1>3, <1>4 DEF Ca!Readings
<1>6. q = Ca!RecordCapacity(r, c)
  BY <1>1, <1>2, Zenon DEF Ca!ClearExhaustion
<1>7. q = c
  BY <1>3, <1>5, <1>6 DEF Ca!RecordCapacity, Ca!Newer
<1> QED
  BY <1>1, <1>5, <1>7

Published(b, p, v, e) == Ca!AfterReset(Ca!AfterTool(Ca!AfterNative(b, p, v), e))

(* Why an exhausted record may become available.                           *)
Recovers(b, p, v, e) == \/ (p.reset # 0 /\ p.reset <= s1)
                        \/ (v.reset # 0 /\ v.reset <= s1)
                        \/ e > p.at
                        \/ (v.state = "available" /\ Ca!NativeRecovery(b, v))

(* What a reading publishes is the record or the entry, or one of them made
   available for a reason; it is never older than the record. *)
LEMMA ObservedReading ==
  ASSUME NEW b \in Ca!Readings, NEW v \in Ca!Readings, NEW p \in Ca!Readings,
         NEW e \in -1..MaxNow, s1 \in 0..MaxNow, e <= s1, v.at <= s1, p.at <= s1
  PROVE  /\ Published(b, p, v, e) \in Ca!Readings
         /\ Published(b, p, v, e).at >= p.at /\ Published(b, p, v, e).at <= s1
         /\ Published(b, p, v, e).progress \in {p.progress, v.progress}
         /\ (Published(b, p, v, e).state = "exhausted") => (Published(b, p, v, e) \in {p, v})
         /\ (p.state = "exhausted" /\ Published(b, p, v, e).state = "available")
               => Recovers(b, p, v, e)
<1> USE SupervisionAssumption
<1> DEFINE q == Published(b, p, v, e)
           n == Ca!AfterNative(b, p, v)
           t == Ca!AfterTool(n, e)
<1>1. q = Ca!AfterReset(t)
  BY DEF Published
<1> HIDE DEF q
<1>2. /\ n \in {p, v} /\ n.at >= p.at
      /\ n = v => n = p \/ v.state # "available" \/ Ca!NativeRecovery(b, v)
  BY DEF Ca!AfterNative, Ca!RecordCapacity, Ca!Newer, Ca!Readings
<1>3. n \in Ca!Readings /\ n.at <= s1
  BY <1>2
<1> HIDE DEF n
<1>4. \/ t = n
      \/ /\ t = Ca!ClearExhaustion(n, e) /\ e > n.at /\ n.state = "exhausted"
         /\ t \in Ca!Readings /\ t.state = "available" /\ t.progress = n.progress /\ t.at = e
  BY <1>3, ClearedReading DEF Ca!AfterTool
<1>5. t \in Ca!Readings /\ t.at <= s1 /\ t.at >= n.at
  BY <1>3, <1>4 DEF Ca!Readings
<1> HIDE DEF t
<1>6. t.reset \in -1..MaxNow /\ "available" \in Ca!CapacityStates
  BY <1>5 DEF Ca!Readings, Ca!CapacityStates
<1>7. PICK d : d = [t EXCEPT !.state = "available", !.at = t.reset, !.reset = 0]
  OBVIOUS
<1>8. d \in Ca!Readings /\ d.state = "available" /\ d.at = t.reset /\ d.progress = t.progress
  <2>1. d = [state |-> "available", at |-> t.reset, reset |-> 0, progress |-> t.progress,
             probes |-> t.probes]
    BY <1>5, <1>7 DEF Ca!Readings
  <2> QED
    BY <1>5, <1>6, <2>1 DEF Ca!Readings
<1>9. q = IF t.state = "exhausted" /\ t.reset # 0 /\ t.reset <= s1
          THEN Ca!RecordCapacity(t, d) ELSE t
  BY <1>1, <1>7, Zenon DEF Ca!AfterReset
<1>10. \/ q = t
      \/ /\ q = d /\ t.state = "exhausted" /\ t.reset # 0 /\ t.reset <= s1 /\ d.at >= t.at
  BY <1>5, <1>8, <1>9 DEF Ca!RecordCapacity, Ca!Newer
<1>11. q \in Ca!Readings /\ q.at >= p.at /\ q.at <= s1
  BY <1>2, <1>3, <1>5, <1>8, <1>10 DEF Ca!Readings
<1>12. q.progress = p.progress \/ q.progress = v.progress
  BY <1>2, <1>4, <1>8, <1>10
<1>13. q.state = "exhausted" => q = p \/ q = v
  BY <1>2, <1>4, <1>8, <1>10
<1>14. ASSUME p.state = "exhausted", q.state = "available"
       PROVE  Recovers(b, p, v, e)
  <2>1. CASE q = d /\ t.state = "exhausted" /\ t.reset # 0 /\ t.reset <= s1
    BY <1>2, <1>4, <2>1 DEF Recovers
  <2>2. CASE q = t /\ t # n
    BY <1>2, <1>3, <1>4, <2>2 DEF Ca!Readings, Recovers
  <2>3. CASE q = t /\ t = n
    BY <1>2, <1>14, <2>3 DEF Recovers
  <2> QED
    BY <1>10, <2>1, <2>2, <2>3
<1> QED
  BY <1>11, <1>12, <1>13, <1>14 DEF q

(* Nothing is known of any lane at first.                                  *)
LEMMA CapacityInitially == Ca!CapacityInit => Ca!CapacityInv
<1> SUFFICES ASSUME Ca!CapacityInit PROVE Ca!CapacityInv
  OBVIOUS
<1> USE SupervisionAssumption
<1>1. /\ s1 = 0 /\ s2 = [limited |-> FALSE, reset |-> 0] /\ s8 = 0
      /\ s3 = [l \in CapLanes |-> Ca!NoReading] /\ s4 = [l \in CapLanes |-> -1]
      /\ s5 = [l \in CapLanes |-> Ca!NoReading]
      /\ s6 = [l \in CapLanes |-> Ca!NotLooked] /\ s7 = [l \in CapLanes |-> -1]
  BY DEF Ca!CapacityInit
<1>2. Ca!NoReading \in Ca!Readings /\ Ca!NoReading.state = "unknown"
      /\ Ca!NoReading.at = -1 /\ Ca!NoReading.progress = 0
  BY DEF Ca!NoReading, Ca!Readings, Ca!CapacityStates
<1>3. Ca!CapacityTypeOK
  BY <1>1, <1>2 DEF Ca!CapacityTypeOK, Ca!Readings
<1>4. \A l \in CapLanes : Ca!Known(l) = {Ca!NoReading}
  BY <1>1 DEF Ca!Known
<1> QED
  BY <1>1, <1>2, <1>3, <1>4 DEF Ca!CapacityInv

(* Requests make progress where the provider serves, and readings publish what
   they looked at: exhaustion ends for a reason and the record moves forward. *)
LEMMA CapacityStep ==
  Ca!CapacityInv /\ [Ca!CapacityNext]_(Ca!caVars)
    => /\ Ca!CapacityInv'
       /\ Ca!ExhaustionEndsForAReasonStep /\ Ca!CapacityMovesForwardStep
<1> SUFFICES ASSUME Ca!CapacityInv, [Ca!CapacityNext]_(Ca!caVars)
             PROVE  /\ Ca!CapacityInv'
                    /\ Ca!ExhaustionEndsForAReasonStep /\ Ca!CapacityMovesForwardStep
  OBVIOUS
<1> USE SupervisionAssumption
<1> DEFINE
      Known(e, p, k) == {e, p} \cup (IF k = Ca!NotLooked THEN {} ELSE {k.base, k.entry})
      Typed(e, p, k, u, t) == /\ e \in Ca!Readings /\ p \in Ca!Readings
                              /\ k \in Ca!Looks \cup {Ca!NotLooked}
                              /\ u \in -1..MaxNow /\ t \in -1..MaxNow
      Later(r, v) == r.state = "exhausted" /\ v.progress > r.progress => v.progress > r.at
      Follows(n, e, p, k, u, t) ==
        /\ e.progress <= u + 1 /\ t <= n /\ u <= n
        /\ \A r \in Known(e, p, k) : /\ r.at <= n /\ r.progress <= e.progress
                                     /\ \A v \in Known(e, p, k) : Later(r, v)
        /\ (k # Ca!NotLooked /\ p.state = "exhausted") =>
              k.base.state = "exhausted" /\ k.base.progress = p.progress
      Lane(n, e, p, k, u, t) == Typed(e, p, k, u, t) /\ Follows(n, e, p, k, u, t)
      Account(n, a, m) == /\ n \in 0..MaxNow /\ a \in [limited : BOOLEAN, reset : 0..MaxNow]
                          /\ m \in Nat
      Functions == /\ s3 \in [CapLanes -> Ca!Readings] /\ s5 \in [CapLanes -> Ca!Readings]
                   /\ s6 \in [CapLanes -> Ca!Looks \cup {Ca!NotLooked}]
                   /\ s4 \in [CapLanes -> -1..MaxNow] /\ s7 \in [CapLanes -> -1..MaxNow]
      Reason(l) == (s5[l].state = "exhausted" /\ s5'[l].state = "available")
                   => \/ s7'[l] >= s5[l].at
                      \/ \E r \in Ca!ReadResets(l) : r # 0 /\ r <= s1
                      \/ s4[l] > s5[l].at
      Goal == /\ Ca!CapacityInv'
              /\ Ca!ExhaustionEndsForAReasonStep /\ Ca!CapacityMovesForwardStep
<1>1. /\ Account(s1, s2, s8) /\ Functions
      /\ \A l \in CapLanes : Lane(s1, s3[l], s5[l], s6[l], s7[l], s4[l])
  BY DEF Ca!CapacityInv, Ca!CapacityTypeOK, Ca!Known
<1>2. ASSUME Account(s1, s2, s8)', Functions',
             \A l \in CapLanes : Follows(s1, s3[l], s5[l], s6[l], s7[l], s4[l])'
      PROVE  Ca!CapacityInv'
  <2>1. Ca!CapacityTypeOK'
    BY <1>2 DEF Ca!CapacityTypeOK, Ca!Readings
  <2> QED
    BY <1>2, <2>1 DEF Ca!CapacityInv, Ca!Known
(* What changes one lane only.                                             *)
<1>3. ASSUME NEW l \in CapLanes, Functions', UNCHANGED <<s1, s2, s8>>,
             \A m \in CapLanes \ {l} : /\ s3'[m] = s3[m] /\ s5'[m] = s5[m] /\ s6'[m] = s6[m]
                                       /\ s7'[m] = s7[m] /\ s4'[m] = s4[m],
             Follows(s1, s3'[l], s5'[l], s6'[l], s7'[l], s4'[l]),
             Reason(l), s5'[l].at >= s5[l].at
      PROVE  Goal
  <2> HIDE DEF Follows
  <2>1. \A m \in CapLanes : Follows(s1, s3[m], s5[m], s6[m], s7[m], s4[m])'
    BY <1>1, <1>3
  <2>2. Account(s1, s2, s8)'
    BY <1>1, <1>3
  <2>3. \A m \in CapLanes : Reason(m)
    BY <1>1, <1>3 
  <2>4. \A m \in CapLanes : s5'[m].at >= s5[m].at
    BY <1>1, <1>3 DEF Ca!Readings
  <2> QED
    BY <1>2, <1>3, <2>1, <2>2, <2>3, <2>4
       DEF Ca!ExhaustionEndsForAReasonStep, Ca!CapacityMovesForwardStep
(* What changes no record and no entry.                                    *)
<1>4. ASSUME s1' \in s1..MaxNow, s2' \in [limited : BOOLEAN, reset : 0..MaxNow], s8' \in Nat,
             UNCHANGED <<s3, s4, s5, s6, s7>>
      PROVE  Goal
  <2>1. Account(s1, s2, s8)'
    BY <1>1, <1>4
  <2>2. ASSUME NEW l \in CapLanes
        PROVE  Follows(s1, s3[l], s5[l], s6[l], s7[l], s4[l])'
    BY <1>1, <1>4 DEF Ca!Readings, Ca!Looks
  <2> HIDE DEF Follows
  <2>3. Ca!CapacityInv'
    BY <1>1, <1>2, <1>4, <2>1, <2>2
  <2> QED
    BY <1>1, <1>4, <2>3
       DEF Ca!ExhaustionEndsForAReasonStep, Ca!CapacityMovesForwardStep, Ca!Readings
<1>5. ASSUME Ca!Tick PROVE Goal
  <2>1. s1 < MaxNow /\ s1' = s1 + 1 /\ UNCHANGED <<s3, s4, s5, s6, s7, s8>>
        /\ s2' = IF s2.reset = s1 + 1 THEN [limited |-> FALSE, reset |-> 0] ELSE s2
    BY <1>5 DEF Ca!Tick
  <2>2. s1' \in s1..MaxNow /\ s2' \in [limited : BOOLEAN, reset : 0..MaxNow]
    BY <1>1, <2>1
  <2> QED
    BY <1>1, <1>4, <2>1, <2>2
<1>6. ASSUME NEW r \in 0..MaxNow, Ca!Limit(r) PROVE Goal
  <2>1. s2' = [limited |-> TRUE, reset |-> r] /\ s8' = s8 + 1
        /\ UNCHANGED <<s1, s3, s4, s5, s6, s7>>
    BY <1>6 DEF Ca!Limit
  <2> QED
    BY <1>1, <1>4, <2>1
<1>7. ASSUME Ca!Lift PROVE Goal
  <2>1. s2' = [limited |-> FALSE, reset |-> 0] /\ UNCHANGED <<s1, s3, s4, s5, s6, s7, s8>>
    BY <1>7 DEF Ca!Lift
  <2> QED
    BY <1>1, <1>4, <2>1
<1>8. Ca!NotLooked \notin Ca!Looks
  BY DEF Ca!NotLooked, Ca!Looks
(* What is known of a lane.                                                *)
<1>9. ASSUME NEW l \in CapLanes, NEW r \in Known(s3[l], s5[l], s6[l])
       PROVE  /\ r \in Ca!Readings /\ r.at <= s1 /\ r.progress <= s3[l].progress
              /\ r.progress \in Int /\ r.at \in Int
              /\ \A v \in Known(s3[l], s5[l], s6[l]) : Later(r, v)
  <2>1. r \in Ca!Readings
    BY <1>1, <1>9 DEF Ca!Looks
  <2> HIDE DEF Known, Later
  <2> QED
    BY <1>1, <1>9, <2>1 DEF Ca!Readings
(* Where the record stays.                                                 *)
<1>10. ASSUME NEW l \in CapLanes, s5'[l] = s5[l]
      PROVE  Reason(l) /\ s5'[l].at >= s5[l].at
  BY <1>1, <1>10 DEF Ca!Readings
<1>11. ASSUME NEW l \in CapLanes, Ca!Request(l) PROVE Goal
  <2>1. UNCHANGED <<s1, s2, s4, s5, s6, s8>>
    BY <1>11 DEF Ca!Request
  <2>2. PICK e : /\ s3' = [s3 EXCEPT ![l] = e]
                 /\ \/ /\ e = [state |-> "exhausted", at |-> s1, reset |-> s2.reset,
                               progress |-> s3[l].progress, probes |-> 0]
                       /\ s7' = s7
                    \/ /\ e = [state |-> "available", at |-> s1, reset |-> 0,
                               progress |-> s1 + 1, probes |-> 0]
                       /\ s7' = [s7 EXCEPT ![l] = s1]
    BY <1>11, Zenon DEF Ca!Request
  <2>3. e \in Ca!Readings /\ e.at = s1
        /\ (e.state = "exhausted" => e.progress = s3[l].progress /\ s7'[l] = s7[l])
        /\ (e.state # "exhausted" => e.progress = s1 + 1 /\ s7'[l] = s1)
    BY <1>1, <2>2 DEF Ca!Readings, Ca!CapacityStates
  <2>4. /\ Functions' /\ s3'[l] = e
        /\ \A m \in CapLanes \ {l} : s3'[m] = s3[m] /\ s7'[m] = s7[m]
    <3>1. s7' \in [CapLanes -> -1..MaxNow] /\ \A m \in CapLanes \ {l} : s7'[m] = s7[m]
      BY <1>1, <2>2
    <3> QED
      BY <1>1, <2>1, <2>2, <2>3, <3>1
  <2>5. Known(e, s5[l], s6[l]) \subseteq {e} \cup Known(s3[l], s5[l], s6[l])
    OBVIOUS
  <2>6. \A r \in {e} \cup Known(s3[l], s5[l], s6[l]) :
           r \in Ca!Readings /\ r.at <= s1 /\ r.progress <= e.progress
    <3> HIDE DEF Known, Later
    <3>1. s3[l].progress <= s1 + 1 /\ s3[l].progress <= e.progress /\ e.progress \in Int
          /\ e.at \in Int /\ s3[l].progress \in Int /\ s1 \in Int /\ e.at = s1
      BY <1>1, <2>3 DEF Ca!Readings
    <3> QED
      BY <1>9, <2>3, <3>1
  <2>7. s3[l] \in Known(s3[l], s5[l], s6[l])
    OBVIOUS
  <2>8. Follows(s1, s3'[l], s5'[l], s6'[l], s7'[l], s4'[l])
    <3>1. e.progress <= s7'[l] + 1 /\ s4[l] <= s1 /\ s7'[l] <= s1
      BY <1>1, <2>3 DEF Ca!Readings
    <3>2. ASSUME NEW r \in Known(e, s5[l], s6[l])
          PROVE  /\ r.at <= s1 /\ r.progress <= e.progress /\ r \in Ca!Readings
                 /\ \A v \in Known(e, s5[l], s6[l]) : Later(r, v)
      <4>1. r.at <= s1 /\ r.progress <= e.progress /\ r \in Ca!Readings
        <5> HIDE DEF Known, Later
        <5> QED
          BY <2>6, <3>2, <2>5
      <4>2. ASSUME NEW v \in Known(e, s5[l], s6[l]), r.state = "exhausted",
                   v.progress > r.progress
            PROVE  v.progress > r.at
        <5> HIDE DEF Known
        <5>1. v.progress <= e.progress /\ v \in Ca!Readings
          BY <2>6, <4>2, <2>5
        <5>2. CASE e.state # "exhausted" /\ v = e
          <6>1. s1 \in Int /\ r.at \in Int
            BY <1>1, <4>1 DEF Ca!Readings
          <6> HIDE DEF Account, Functions
          <6> QED
            BY <2>3, <4>1, <5>2, <6>1
        <5>3. CASE e.state = "exhausted" /\ r = e
          <6>1. v.progress \in Int /\ e.progress \in Int
            BY <2>3, <5>1 DEF Ca!Readings
          <6> QED
            BY <4>2, <5>1, <5>3, <6>1
        <5>4. CASE e.state = "exhausted" /\ r # e /\ v = e
          <6>1. Later(r, s3[l])
            BY <1>9, <2>5, <3>2, <5>4, <2>7
          <6> QED
            BY <2>3, <4>2, <5>4, <6>1
        <5>5. CASE r # e /\ v # e
          <6>1. Later(r, v)
            BY <1>9, <2>5, <3>2, <4>2, <5>5
          <6> QED
            BY <4>2, <6>1
        <5>6. CASE e.state # "exhausted" /\ r = e
          BY <4>2, <5>6
        <5> QED
          BY <5>2, <5>3, <5>4, <5>5, <5>6
      <4> QED
        BY <4>1, <4>2
    <3>3. (s6[l] # Ca!NotLooked /\ s5[l].state = "exhausted") =>
              s6[l].base.state = "exhausted" /\ s6[l].base.progress = s5[l].progress
      BY <1>1
    <3> QED
      BY <2>1, <2>4, <3>1, <3>2, <3>3
  <2> HIDE DEF Follows, Reason
  <2> QED
    BY <1>3, <1>10, <2>1, <2>4, <2>8
(* A changed entry that keeps its progress and is not exhausted.           *)
<1>12. ASSUME NEW l \in CapLanes, Ca!Repeat(l) PROVE Goal
  <2>1. UNCHANGED <<s1, s2, s4, s5, s6, s7, s8>>
    BY <1>12 DEF Ca!Repeat
  <2>2. PICK e : e = [s3[l] EXCEPT !.at = s1, !.state = "available", !.reset = 0]
    OBVIOUS
  <2>3. s3' = [s3 EXCEPT ![l] = e]
    BY <1>1, <1>12, <2>2 DEF Ca!Repeat
  <2>4. e = [state |-> "available", at |-> s1, reset |-> 0, progress |-> s3[l].progress,
             probes |-> s3[l].probes]
    BY <1>1, <2>2 DEF Ca!Readings
  <2>5. e \in Ca!Readings /\ e.at = s1 /\ e.state = "available" /\ e.progress = s3[l].progress
    BY <1>1, <2>4 DEF Ca!Readings, Ca!CapacityStates
  <2>6. Functions' /\ s3'[l] = e /\ \A m \in CapLanes \ {l} : s3'[m] = s3[m]
    BY <1>1, <2>1, <2>3, <2>5
  <2>7. Follows(s1, s3'[l], s5'[l], s6'[l], s7'[l], s4'[l])
    <3>1. /\ e.progress <= s7[l] + 1 /\ s4[l] <= s1 /\ s7[l] <= s1
          /\ ((s6[l] # Ca!NotLooked /\ s5[l].state = "exhausted") =>
              s6[l].base.state = "exhausted" /\ s6[l].base.progress = s5[l].progress)
      BY <1>1, <2>5
    <3>2. ASSUME NEW r \in Known(e, s5[l], s6[l])
          PROVE  /\ r.at <= s1 /\ r.progress <= e.progress
                 /\ \A v \in Known(e, s5[l], s6[l]) : Later(r, v)
      <4>1. r = e \/ r \in Known(s3[l], s5[l], s6[l])
        OBVIOUS
      <4>2. s3[l] \in Known(s3[l], s5[l], s6[l])
        OBVIOUS
      <4>3. r.at <= s1 /\ r.progress <= e.progress
        <5>1. s1 \in Int /\ e.progress \in Int
          BY <1>1, <2>5 DEF Ca!Readings
        <5> HIDE DEF Known, Later, Account, Functions
        <5> QED
          BY <1>9, <2>5, <4>1, <5>1
      <4>4. ASSUME NEW v \in Known(e, s5[l], s6[l]) PROVE Later(r, v)
        <5>1. v = e \/ v \in Known(s3[l], s5[l], s6[l])
          OBVIOUS
        <5>2. CASE r = e
          BY <2>5, <5>2
        <5>3. CASE r # e
          <6>1. Later(r, v) \/ (v = e /\ Later(r, s3[l]))
            <7> HIDE DEF Known, Later
            <7> QED
              BY <1>9, <4>1, <4>2, <5>1, <5>3
          <6> QED
            BY <2>5, <6>1
        <5> QED
          BY <5>2, <5>3
      <4> QED
        BY <4>3, <4>4
    <3> QED
      BY <2>1, <2>6, <3>1, <3>2
  <2> HIDE DEF Follows, Reason
  <2> QED
    BY <1>3, <1>10, <2>1, <2>6, <2>7
<1>13. ASSUME NEW l \in CapLanes, Ca!ToolEvent(l) PROVE Goal
  <2>1. s4' = [s4 EXCEPT ![l] = s1] /\ UNCHANGED <<s1, s2, s3, s5, s6, s7, s8>>
    BY <1>13 DEF Ca!ToolEvent
  <2>2. Functions' /\ s4'[l] = s1 /\ \A m \in CapLanes \ {l} : s4'[m] = s4[m]
    BY <1>1, <2>1
  <2>3. Follows(s1, s3[l], s5[l], s6[l], s7[l], s1)
    BY <1>1
  <2> HIDE DEF Follows, Reason
  <2> QED
    BY <1>3, <1>10, <2>1, <2>2, <2>3
(* A reading that publishes: the record is the one that was or the entry   *)
(* looked at, or one of them made available.                               *)
<1>14. ASSUME NEW l \in CapLanes, NEW b, NEW v, NEW k \in {s6[l], Ca!NotLooked},
              {b, v} \subseteq Known(s3[l], s5[l], s6[l]),
              s5[l].state = "exhausted"
                 => b.state = "exhausted" /\ b.progress = s5[l].progress,
              v.reset \in Ca!ReadResets(l),
              s5' = [s5 EXCEPT ![l] = Ca!Observed(l, b, v)], s6' = [s6 EXCEPT ![l] = k],
              k = Ca!NotLooked, UNCHANGED <<s1, s2, s3, s4, s7, s8>>
       PROVE  Goal
  <2> DEFINE K == Known(s3[l], s5[l], s6[l])
  <2>1. PICK q : q = Ca!Observed(l, b, v)
    OBVIOUS
  <2>2. /\ b \in Ca!Readings /\ v \in Ca!Readings /\ v.at <= s1 /\ s5[l].at <= s1
        /\ s5[l] \in K /\ v \in K
    <3>1. b \in K /\ v \in K /\ s5[l] \in K
      BY <1>14
    <3> HIDE DEF Known, Later
    <3> QED
      BY <1>9, <3>1
  <2>3. /\ s5[l] \in Ca!Readings /\ s4[l] \in -1..MaxNow /\ s1 \in 0..MaxNow /\ s4[l] <= s1
    BY <1>1
  <2>4. /\ q \in Ca!Readings /\ q.at >= s5[l].at /\ q.at <= s1
        /\ q.progress \in {s5[l].progress, v.progress}
        /\ (q.state = "exhausted") => (q \in {s5[l], v})
        /\ (s5[l].state = "exhausted" /\ q.state = "available")
              => Recovers(b, s5[l], v, s4[l])
    <3>1. q = Published(b, s5[l], v, s4[l])
      BY <2>1 DEF Ca!Observed, Published
    <3> HIDE DEF Known, Later, Functions, Account, K
    <3>2. /\ Published(b, s5[l], v, s4[l]).at >= s5[l].at
          /\ Published(b, s5[l], v, s4[l]).at <= s1
          /\ Published(b, s5[l], v, s4[l]) \in Ca!Readings
          /\ Published(b, s5[l], v, s4[l]).progress \in {s5[l].progress, v.progress}
      BY <2>2, <2>3, ObservedReading
    <3>3. (Published(b, s5[l], v, s4[l]).state = "exhausted")
             => (Published(b, s5[l], v, s4[l]) \in {s5[l], v})
      BY <2>2, <2>3, ObservedReading
    <3>4. (s5[l].state = "exhausted" /\ Published(b, s5[l], v, s4[l]).state = "available")
             => Recovers(b, s5[l], v, s4[l])
      BY <2>2, <2>3, ObservedReading
    <3> QED
      BY <3>1, <3>2, <3>3, <3>4
  <2>5. /\ Functions' /\ s5'[l] = q /\ s6'[l] = Ca!NotLooked
        /\ \A m \in CapLanes \ {l} : s5'[m] = s5[m] /\ s6'[m] = s6[m]
    BY <1>1, <1>14, <2>1, <2>4
  <2>6. Reason(l)
    <3>1. ASSUME s5[l].state = "exhausted", v.state = "available", Ca!NativeRecovery(b, v)
          PROVE  s7[l] >= s5[l].at
      <4>1. v.progress > s5[l].progress
        BY <1>14, <3>1 DEF Ca!NativeRecovery
      <4>2. Later(s5[l], v) /\ v.progress <= s3[l].progress
        <5> HIDE DEF Later, Known
        <5> QED
          BY <1>9, <2>2
      <4>3. v.progress > s5[l].at
        BY <3>1, <4>1, <4>2
      <4>4. s3[l].progress <= s7[l] + 1 /\ s7[l] \in Int /\ s3[l].progress \in Int
            /\ v.progress \in Int /\ s5[l].at \in Int
        BY <1>1, <2>2 DEF Ca!Readings
      <4> QED
        BY <4>2, <4>3, <4>4
    <3>2. s5[l].reset \in Ca!ReadResets(l)
      BY DEF Ca!ReadResets
    <3> QED
      BY <1>14, <2>4, <2>5, <3>1, <3>2 DEF Recovers
  <2>7. Follows(s1, s3[l], q, Ca!NotLooked, s7[l], s4[l])
    <3>1. \A r \in K : /\ r.at <= s1 /\ r.progress <= s3[l].progress
                       /\ \A w \in K : Later(r, w)
      BY <1>9
    <3>2. s3[l] \in K
      OBVIOUS
    <3> HIDE DEF K
    <3>3. ASSUME NEW r \in {s3[l], q}, NEW w \in {s3[l], q} PROVE Later(r, w)
      <4>1. \E x \in K : w.progress = x.progress
        BY <2>2, <2>4, <3>2
      <4>2. r.state = "exhausted" => r \in K
        BY <2>2, <2>4, <3>2
      <4> QED
        BY <3>1, <4>1, <4>2
    <3>4. \A r \in {s3[l], q} : r.at <= s1 /\ r.progress <= s3[l].progress
      BY <2>2, <2>4, <3>1, <3>2
    <3>5. s3[l].progress <= s7[l] + 1 /\ s4[l] <= s1 /\ s7[l] <= s1
      BY <1>1
    <3> QED
      BY <3>3, <3>4, <3>5
  <2> HIDE DEF Follows, Reason
  <2> QED
    BY <1>3, <1>14, <2>4, <2>5, <2>6, <2>7
<1>15. ASSUME NEW l \in CapLanes, Ca!ObserveCapacity(l) PROVE Goal
  <2>1. /\ s6[l] = Ca!NotLooked /\ s5' = [s5 EXCEPT ![l] = Ca!Observed(l, s5[l], s3[l])]
        /\ UNCHANGED <<s1, s2, s3, s4, s6, s7, s8>>
    BY <1>15 DEF Ca!ObserveCapacity
  <2>2. s6' = [s6 EXCEPT ![l] = Ca!NotLooked] /\ s3[l].reset \in Ca!ReadResets(l)
    BY <1>1, <2>1 DEF Ca!ReadResets
  <2>3. {s5[l], s3[l]} \subseteq Known(s3[l], s5[l], s6[l])
    OBVIOUS
  <2> HIDE DEF Known, Functions, Account
  <2> QED
    BY <1>14, <2>1, <2>2, <2>3
<1>16. ASSUME NEW l \in CapLanes, Ca!Settle(l) PROVE Goal
  <2>1. /\ s6[l] # Ca!NotLooked
        /\ s5' = [s5 EXCEPT ![l] = Ca!Observed(l, s6[l].base, s6[l].entry)]
        /\ s6' = [s6 EXCEPT ![l] = Ca!NotLooked] /\ UNCHANGED <<s1, s2, s3, s4, s7, s8>>
    BY <1>16 DEF Ca!Settle
  <2>2. s6[l].entry.reset \in Ca!ReadResets(l)
    BY <2>1 DEF Ca!ReadResets
  <2>3. {s6[l].base, s6[l].entry} \subseteq Known(s3[l], s5[l], s6[l])
    BY <2>1
  <2>4. s5[l].state = "exhausted" =>
          s6[l].base.state = "exhausted" /\ s6[l].base.progress = s5[l].progress
    BY <1>1, <2>1
  <2> HIDE DEF Known, Functions, Account
  <2> QED
    BY <1>14, <2>1, <2>2, <2>3, <2>4
<1>17. ASSUME NEW l \in CapLanes, Ca!Look(l) PROVE Goal
  <2>1. /\ s6[l] = Ca!NotLooked /\ UNCHANGED <<s1, s2, s3, s4, s5, s7, s8>>
        /\ s6' = [s6 EXCEPT ![l] = [at |-> s1, base |-> s5[l], entry |-> s3[l]]]
    BY <1>17 DEF Ca!Look
  <2>2. [at |-> s1, base |-> s5[l], entry |-> s3[l]] \in Ca!Looks
    BY <1>1 DEF Ca!Looks
  <2>3. /\ Functions' /\ s6'[l] = [at |-> s1, base |-> s5[l], entry |-> s3[l]]
        /\ \A m \in CapLanes \ {l} : s6'[m] = s6[m]
    BY <1>1, <2>1, <2>2
  <2>4. Known(s3[l], s5[l], s6'[l]) \subseteq Known(s3[l], s5[l], s6[l])
        /\ s6'[l].base = s5[l]
    BY <2>3
  <2>5. Follows(s1, s3[l], s5[l], s6'[l], s7[l], s4[l])
    <3>1. \A r \in Known(s3[l], s5[l], s6[l]) :
            /\ r.at <= s1 /\ r.progress <= s3[l].progress
            /\ \A w \in Known(s3[l], s5[l], s6[l]) : Later(r, w)
      BY <1>9
    <3>2. s3[l].progress <= s7[l] + 1 /\ s4[l] <= s1 /\ s7[l] <= s1
      BY <1>1
    <3> HIDE DEF Known, Later
    <3> QED
      BY <2>4, <3>1, <3>2
  <2> HIDE DEF Follows, Reason
  <2> QED
    BY <1>3, <1>10, <2>1, <2>3, <2>5
<1>18. ASSUME NEW l \in CapLanes, Ca!ProbeExhaustion(l) PROVE Goal
  <2>1. /\ s5[l].state = "exhausted" /\ UNCHANGED <<s1, s2, s3, s4, s6, s8>>
        /\ s5[l] \in Ca!Readings /\ s1 \in 0..MaxNow /\ s5[l].at <= s1
    BY <1>1, <1>18 DEF Ca!ProbeExhaustion
  <2>2. PICK q : q = IF ~s2.limited THEN Ca!ClearExhaustion(s5[l], s1)
                     ELSE [s5[l] EXCEPT !.probes = 1]
    OBVIOUS
  <2>3. s5' = [s5 EXCEPT ![l] = q] /\ s7' = [s7 EXCEPT ![l] = IF s2.limited THEN s7[l] ELSE s1]
    BY <1>1, <1>18, <2>2 DEF Ca!ProbeExhaustion
  <2>4. /\ q \in Ca!Readings /\ q.at >= s5[l].at /\ q.at <= s1
        /\ q.progress = s5[l].progress
        /\ q.state = IF s2.limited THEN "exhausted" ELSE "available"
        /\ s2.limited => q.at = s5[l].at
    <3>1. CASE s2.limited
      <4>1. q = [s5[l] EXCEPT !.probes = 1]
        BY <2>2, <3>1
      <4> QED
        BY <2>1, <3>1, <4>1 DEF Ca!Readings
    <3>2. CASE ~s2.limited
      <4>1. q = Ca!ClearExhaustion(s5[l], s1) /\ s1 \in -1..MaxNow
        BY <2>1, <2>2, <3>2
      <4>2. /\ q \in Ca!Readings /\ q.state = "available" /\ q.progress = s5[l].progress
            /\ q.at = (IF s1 > s5[l].at THEN s1 ELSE s5[l].at)
        BY <2>1, <4>1, ClearedReading
      <4> QED
        BY <2>1, <3>2, <4>2 DEF Ca!Readings
    <3> QED
      BY <3>1, <3>2
  <2>5. s7'[l] = (IF s2.limited THEN s7[l] ELSE s1) /\ s7' \in [CapLanes -> -1..MaxNow]
        /\ \A m \in CapLanes \ {l} : s7'[m] = s7[m]
    <3>1. (IF s2.limited THEN s7[l] ELSE s1) \in -1..MaxNow
      BY <1>1
    <3> QED
      BY <1>1, <2>3, <3>1
  <2>6. Functions' /\ s5'[l] = q /\ \A m \in CapLanes \ {l} : s5'[m] = s5[m]
    BY <1>1, <2>1, <2>3, <2>4, <2>5
  <2>7. Reason(l)
    BY <2>1, <2>4, <2>5, <2>6
  <2>8. Follows(s1, s3[l], q, s6[l], s7'[l], s4[l])
    <3>1. s5[l] \in Known(s3[l], s5[l], s6[l])
      OBVIOUS
    <3>2. ASSUME NEW r \in Known(s3[l], q, s6[l])
          PROVE  /\ r.at <= s1 /\ r.progress <= s3[l].progress
                 /\ \A w \in Known(s3[l], q, s6[l]) : Later(r, w)
      <4>1. \A x \in Known(s3[l], q, s6[l]) : x = q \/ x \in Known(s3[l], s5[l], s6[l])
        OBVIOUS
      <4>2. \A x, y \in Known(s3[l], s5[l], s6[l]) :
              x.at <= s1 /\ x.progress <= s3[l].progress /\ Later(x, y)
        BY <1>9
      <4>3. ASSUME NEW w \in Known(s3[l], q, s6[l]) PROVE Later(r, w)
        <5>1. PICK x \in Known(s3[l], s5[l], s6[l]) : w.progress = x.progress
          BY <2>4, <3>1, <4>1
        <5>2. r.state = "exhausted" =>
                \E y \in Known(s3[l], s5[l], s6[l]) :
                   y.state = "exhausted" /\ y.progress = r.progress /\ y.at = r.at
          BY <2>1, <2>4, <3>1, <3>2, <4>1
        <5> HIDE DEF Known
        <5> QED
          BY <4>2, <5>1, <5>2
      <4> HIDE DEF Known, Later
      <4> QED
        BY <2>4, <3>1, <3>2, <4>1, <4>2, <4>3
    <3>3. s3[l].progress <= s7'[l] + 1 /\ s4[l] <= s1 /\ s7'[l] <= s1
      BY <1>1, <2>1, <2>5 DEF Ca!Readings
    <3>4. (s6[l] # Ca!NotLooked /\ q.state = "exhausted") =>
              s6[l].base.state = "exhausted" /\ s6[l].base.progress = q.progress
      BY <1>1, <2>1, <2>4
    <3> QED
      BY <3>2, <3>3, <3>4
  <2> HIDE DEF Follows, Reason
  <2> QED
    BY <1>3, <2>1, <2>4, <2>5, <2>6, <2>7, <2>8
<1>19. ASSUME UNCHANGED Ca!caVars PROVE Goal
  <2>1. UNCHANGED <<s1, s2, s3, s4, s5, s6, s7, s8>>
    BY <1>19 DEF Ca!caVars
  <2> QED
    BY <1>1, <1>4, <2>1
<1> HIDE DEF Goal
<1>20. Goal
  BY <1>5, <1>6, <1>7, <1>11, <1>12, <1>13, <1>15, <1>16, <1>17, <1>18, <1>19
     DEF Ca!CapacityNext, Ca!CapacityPoll
<1> QED
  BY <1>20 DEF Goal

(* How a lane leaves and what becomes of its work.                         *)

(* No pass is under way at first and nothing is held.                      *)
LEMMA DeparturesInitially == Dp!DeparturesInit => Dp!DeparturesInv
<1> SUFFICES ASSUME Dp!DeparturesInit PROVE Dp!DeparturesInv
  OBVIOUS
<1> USE SupervisionAssumption
<1>1. /\ s1 = [l \in DepLane |-> "listed"] /\ s2 = [l \in DepLane |-> "running"]
      /\ s4 = 0 /\ s5 = [r \in Dp!Runner |-> Dp!NoJob] /\ s6 = {}
      /\ s3 = [w \in Work |-> [owner |-> Nobody, ready |-> FALSE, closed |-> FALSE,
                               blocked |-> FALSE, offer |-> Dp!NoOffer, asks |-> Nobody]]
  BY DEF Dp!DeparturesInit
<1>2. Dp!NoOffer \in [to : DepLane \cup {Nobody}, id : 0..MaxDepOffers]
  BY DEF Dp!NoOffer
<1>3. \A w \in Work : s3[w] \in Dp!Rows /\ s3[w].owner = Nobody /\ s3[w].asks = Nobody
  BY <1>1, <1>2 DEF Dp!Rows
<1>4. s3 \in [Work -> Dp!Rows]
  BY <1>1, <1>3
<1>5. Dp!IsJob(Dp!NoJob) /\ Dp!NoJob.kind = "none" /\ Dp!NoJob.step = ""
  BY DEF Dp!IsJob, Dp!NoJob
<1>6. DOMAIN s5 = Dp!Runner /\ \A r \in Dp!Runner : s5[r] = Dp!NoJob
  BY <1>1
<1>7. Dp!DeparturesTypeOK
  BY <1>1, <1>3, <1>5, <1>6 DEF Dp!DeparturesTypeOK, Dp!Rows
<1>8. Dp!LeftLanesOwnOnlyStrays /\ Dp!LeftLanesAskForNothing
  BY <1>3 DEF Dp!LeftLanesOwnOnlyStrays, Dp!LeftLanesAskForNothing
<1>9. "supervisor" \in Dp!Runner /\ "operator" \in Dp!Runner
  BY DEF Dp!Runner
<1>10. s4 \in 0..MaxDepOffers
  BY <1>1
<1>11. \A r \in Dp!Runner : s5[r].kind = "none" /\ s5[r].step = "" /\ Dp!IsJob(s5[r])
  BY <1>5, <1>6
<1> QED
  BY <1>4, <1>6, <1>7, <1>8, <1>9, <1>10, <1>11 DEF Dp!DeparturesInv

(* The lanes act, the passes return the work of the lanes that leave.      *)
LEMMA DeparturesStep ==
  Dp!DeparturesInv /\ [Dp!DeparturesNext]_(Dp!depVars)
    => Dp!DeparturesInv' /\ Dp!BlockedWorkIsNotRetiredAwayStep /\ Dp!GiftsWereAskedForStep
<1> SUFFICES ASSUME Dp!DeparturesInv, [Dp!DeparturesNext]_(Dp!depVars)
             PROVE  /\ Dp!DeparturesInv'
                    /\ Dp!BlockedWorkIsNotRetiredAwayStep /\ Dp!GiftsWereAskedForStep
  OBVIOUS
<1> USE SupervisionAssumption
<1> DEFINE
      Marks == {"listed", "retired", "removed"}
      Procs == {"running", "prompt", "stopped", "dead"}
      Typed(m, p, w, o, jb, st) ==
        /\ m \in [DepLane -> Marks] /\ p \in [DepLane -> Procs] /\ w \in [Work -> Dp!Rows]
        /\ o \in 0..MaxDepOffers /\ DOMAIN jb = Dp!Runner /\ st \subseteq Work
      Placed(m, w, st) ==
        \A x \in Work : /\ (w[x].owner # Nobody /\ m[w[x].owner] # "listed") => x \in st
                        /\ (w[x].asks = Nobody \/ m[w[x].asks] = "listed" \/ x \in st)
      Leaves(j) == j.kind \in {"withdraw", "retire"}
      Leaving(m, p, w, st, j) ==
        Leaves(j) =>
          /\ j.lane \in DepLane /\ m[j.lane] = "listed" /\ p[j.lane] \in {"stopped", "dead"}
          /\ j.step \in {"release", "offers"}
          /\ \A x \in Work : w[x].owner = j.lane
                => (x \in st \/ (j.step = "release" /\ x \in j.todo))
      Formed(r, j) ==
        /\ Dp!IsJob(j)
        /\ (j.step \in {"decline", "holding", "give", "announce"}) => (j.kind = "abandon")
        /\ (r = "operator") => (j.kind # "abandon")
        /\ (r = "supervisor" /\ j.step = "give")
              => (\A x \in j.returned : Dp!Given(j, j.seen[x]) # {})
      Apart(jb) == \A r, q \in Dp!Runner :
                      (jb[r].kind # "none" /\ jb[q].kind # "none" /\ jb[r].lane = jb[q].lane)
                         => r = q
      Blocked == Dp!BlockedWorkIsNotRetiredAwayStep
      Gifts == Dp!GiftsWereAskedForStep
      Goal == Dp!DeparturesInv' /\ Blocked /\ Gifts
<1>1. "supervisor" \in Dp!Runner /\ "operator" \in Dp!Runner /\ "supervisor" # "operator"
      /\ \A r \in Dp!Runner : r = "supervisor" \/ r = "operator"
  BY DEF Dp!Runner
<1>2. /\ Typed(s1, s2, s3, s4, s5, s6) /\ Placed(s1, s3, s6) /\ Apart(s5)
      /\ \A r \in Dp!Runner : Leaving(s1, s2, s3, s6, s5[r]) /\ Formed(r, s5[r])
  <2>1. Typed(s1, s2, s3, s4, s5, s6)
    BY DEF Dp!DeparturesInv, Dp!DeparturesTypeOK
  <2>2. Placed(s1, s3, s6)
    BY DEF Dp!DeparturesInv, Dp!LeftLanesOwnOnlyStrays, Dp!LeftLanesAskForNothing, Dp!Listed
  <2>3. Apart(s5)
    BY DEF Dp!DeparturesInv
  <2>4. \A r \in Dp!Runner : Leaving(s1, s2, s3, s6, s5[r])
    BY DEF Dp!DeparturesInv, Dp!Listed, Dp!Held
  <2>5. \A r \in Dp!Runner : Formed(r, s5[r])
    BY DEF Dp!DeparturesInv
  <2> QED
    BY <2>1, <2>2, <2>3, <2>4, <2>5
<1>3. ASSUME Typed(s1, s2, s3, s4, s5, s6)', Placed(s1, s3, s6)', Apart(s5)',
             \A r \in Dp!Runner : Leaving(s1, s2, s3, s6, s5[r])' /\ Formed(r, s5[r])'
      PROVE  Dp!DeparturesInv'
  <2>1. Dp!LeftLanesOwnOnlyStrays' /\ Dp!LeftLanesAskForNothing'
    BY <1>3 DEF Dp!LeftLanesOwnOnlyStrays, Dp!LeftLanesAskForNothing, Dp!Listed
  <2>2. \A r \in Dp!Runner : Dp!IsJob(s5[r])'
    BY <1>3
  <2>3. Dp!DeparturesTypeOK'
    <3>1. \A r \in Dp!Runner : s5'[r].kind \in {"none", "abandon", "withdraw", "retire"}
      BY <2>2 DEF Dp!IsJob
    <3> QED
      BY <1>3, <3>1 DEF Dp!DeparturesTypeOK, Dp!Rows
  <2>4. \A r \in Dp!Runner : s5'[r].kind \in {"withdraw", "retire"} =>
          /\ s5'[r].lane \in DepLane /\ Dp!Listed(s5[r].lane)'
          /\ s2'[s5'[r].lane] \in {"stopped", "dead"}
          /\ s5'[r].step \in {"release", "offers"}
          /\ Dp!Held(s5[r].lane)' \subseteq
                s6' \cup (IF s5'[r].step = "release" THEN s5'[r].todo ELSE {})
    BY <1>3 DEF Dp!Listed, Dp!Held
  <2>5. \A r \in Dp!Runner : s5'[r].step \in {"decline", "holding", "give", "announce"}
          => s5'[r].kind = "abandon"
    BY <1>3
  <2>6. s5'["operator"].kind # "abandon"
        /\ (s5'["supervisor"].step = "give" =>
              \A w \in s5'["supervisor"].returned :
                 Dp!Given(s5'["supervisor"], s5'["supervisor"].seen[w]) # {})
    BY <1>1, <1>3
  <2>7. s3' \in [Work -> Dp!Rows] /\ s4' \in 0..MaxDepOffers /\ DOMAIN s5' = Dp!Runner
        /\ Apart(s5)'
    BY <1>3
  <2> QED
    BY <2>1, <2>2, <2>3, <2>4, <2>5, <2>6, <2>7 DEF Dp!DeparturesInv
<1>4. Dp!NoJob.kind = "none" /\ Dp!NoJob.step = ""
  BY DEF Dp!NoJob
(* What starts and ends no pass.                                           *)
<1>5. ASSUME s5' = s5 PROVE Blocked /\ Gifts
  <2>1. Blocked
    BY <1>5, <1>4 DEF Dp!BlockedWorkIsNotRetiredAwayStep
  <2>2. Gifts
    BY <1>5 DEF Dp!GiftsWereAskedForStep
  <2> QED
    BY <2>1, <2>2
(* A lane's call changes one row.                                          *)
<1>6. ASSUME NEW w \in Work, NEW r \in Dp!Rows, s3' = [s3 EXCEPT ![w] = r],
             r.owner \in {s3[w].owner, Nobody} \/ Dp!Acts(r.owner),
             r.asks \in {s3[w].asks, Nobody} \/ Dp!Acts(r.asks),
             s4' \in 0..MaxDepOffers, UNCHANGED <<s1, s2, s5, s6>>
      PROVE  Goal
  <2>1. s3' \in [Work -> Dp!Rows] /\ s3'[w] = r /\ \A x \in Work \ {w} : s3'[x] = s3[x]
    BY <1>2, <1>6
  <2>2. Typed(s1, s2, s3, s4, s5, s6)'
    BY <1>2, <1>6, <2>1
  <2>3. Placed(s1, s3, s6)'
    BY <1>2, <1>6, <2>1 DEF Dp!Acts, Dp!Listed
  <2>4. ASSUME NEW q \in Dp!Runner PROVE Leaving(s1, s2, s3, s6, s5[q])'
    <3>1. ASSUME Leaves(s5[q]), NEW x \in Work, s3'[x].owner = s5[q].lane
          PROVE  s3[x].owner = s5[q].lane \/ x \in s6
      <4>1. Leaving(s1, s2, s3, s6, s5[q])
        BY <1>2
      <4>2. s2[s5[q].lane] # "running" /\ s5[q].lane \in DepLane
        BY <3>1, <4>1
      <4> QED
        BY <1>6, <2>1, <3>1, <4>2 DEF Dp!Acts
    <3> QED
      BY <1>2, <1>6, <3>1
  <2>5. \A q \in Dp!Runner : Formed(q, s5[q])'
    BY <1>2, <1>6
  <2>6. Apart(s5)'
    BY <1>2, <1>6
  <2> HIDE DEF Typed, Placed, Leaving, Formed, Apart
  <2> QED
    BY <1>3, <1>5, <1>6, <2>2, <2>3, <2>4, <2>5, <2>6
(* What happens to a lane's process.                                       *)
<1>7. ASSUME NEW l \in DepLane, NEW from, NEW to \in Procs, Dp!Change(l, from, to),
             \/ to = "dead"
             \/ \A q \in Dp!Runner : s5[q].lane # l \/ ~Leaves(s5[q])
      PROVE  Goal
  <2>1. s2' = [s2 EXCEPT ![l] = to] /\ UNCHANGED <<s1, s3, s4, s5, s6>>
    BY <1>7 DEF Dp!Change
  <2>2. s2' \in [DepLane -> Procs] /\ s2'[l] = to /\ \A m \in DepLane \ {l} : s2'[m] = s2[m]
    BY <1>2, <1>7, <2>1
  <2>3. Typed(s1, s2, s3, s4, s5, s6)' /\ Placed(s1, s3, s6)' /\ Apart(s5)'
    BY <1>2, <2>1, <2>2
  <2>4. \A q \in Dp!Runner : Formed(q, s5[q])'
    BY <1>2, <2>1
  <2>5. \A q \in Dp!Runner : Leaving(s1, s2, s3, s6, s5[q])'
    BY <1>2, <1>7, <2>1, <2>2
  <2> HIDE DEF Typed, Placed, Leaving, Formed, Apart
  <2> QED
    BY <1>3, <1>5, <2>1, <2>3, <2>4, <2>5
(* A step of one pass.                                                     *)
<1>8. ASSUME NEW r \in Dp!Runner, NEW j, s5' = [s5 EXCEPT ![r] = j], Formed(r, j),
             j.kind = "none" \/ (s5[r].kind # "none" /\ j.lane = s5[r].lane)
                \/ (~Dp!Locked(j.lane)),
             Typed(s1, s2, s3, s4, s5, s6)', Placed(s1, s3, s6)',
             Leaving(s1, s2, s3, s6, j)',
             \A q \in Dp!Runner \ {r} : Leaving(s1, s2, s3, s6, s5[q])',
             (s5[r] = Dp!NoJob /\ Leaves(j)) => \A x \in Dp!Held(j.lane) : ~s3[x].blocked,
             r = "supervisor" => Gifts
      PROVE  Goal
  <2>1. s5'[r] = j /\ \A q \in Dp!Runner \ {r} : s5'[q] = s5[q]
    BY <1>2, <1>8
  <2>2. Apart(s5)'
    <3>1. ASSUME NEW q \in Dp!Runner \ {r}, j.kind # "none", s5[q].kind # "none"
          PROVE  j.lane # s5[q].lane
      BY <1>2, <1>8, <3>1 DEF Dp!Locked
    <3> QED
      BY <1>2, <2>1, <3>1
  <2>3. ASSUME NEW q \in Dp!Runner PROVE Formed(q, s5[q])'
    <3>1. (q = r /\ s5'[q] = j) \/ s5'[q] = s5[q]
      BY <2>1
    <3>2. Formed(q, s5'[q])
      <4> HIDE DEF Formed
      <4> QED
        BY <1>2, <1>8, <3>1
    <3> QED
      BY <3>2
  <2>4. \A q \in Dp!Runner : Leaving(s1, s2, s3, s6, s5[q])'
    BY <1>8, <2>1
  <2>5. Blocked
    <3>1. ASSUME NEW q \in Dp!Runner, NEW l \in DepLane, s5[q] = Dp!NoJob,
                 s5'[q].kind \in {"withdraw", "retire"}, s5'[q].lane = l
          PROVE  \A x \in Dp!Held(l) : ~s3[x].blocked
      <4>1. q = r
        BY <1>4, <2>1, <3>1
      <4> QED
        BY <1>8, <2>1, <3>1, <4>1
    <3> QED
      BY <3>1 DEF Dp!BlockedWorkIsNotRetiredAwayStep
  <2>6. Gifts
    <3>1. CASE r = "operator"
      BY <1>1, <2>1, <3>1 DEF Dp!GiftsWereAskedForStep
    <3> QED
      BY <1>1, <1>8, <3>1
  <2> HIDE DEF Typed, Placed, Leaving, Formed, Apart, Gifts, Blocked
  <2> QED
    BY <1>3, <1>8, <2>2, <2>3, <2>4, <2>5, <2>6
<1>9. ASSUME NEW l \in DepLane, NEW w \in Work, Dp!Take(l, w) PROVE Goal
  <2>1. PICK r : r = [s3[w] EXCEPT !.owner = l]
    OBVIOUS
  <2>2. r \in Dp!Rows /\ r.owner = l /\ r.asks = s3[w].asks
    BY <1>2, <2>1 DEF Dp!Rows
  <2> HIDE DEF Goal
  <2> QED
    BY <1>2, <1>6, <1>9, <2>1, <2>2 DEF Dp!Take, Dp!OnLedger, Dp!LaneOnly
<1>10. ASSUME NEW l \in DepLane, NEW w \in Work, Dp!Hand(w, l) PROVE Goal
  <2>1. PICK r : r = [s3[w] EXCEPT !.offer = [to |-> l, id |-> s4 + 1]]
    OBVIOUS
  <2>2. s3' = [s3 EXCEPT ![w] = r] /\ s4 < MaxDepOffers /\ s4' = s4 + 1
        /\ UNCHANGED <<s1, s2, s5, s6>>
    BY <1>10, <2>1 DEF Dp!Hand, Dp!OnLedger, Dp!LaneOnly
  <2>3. s4' \in 0..MaxDepOffers
    BY <1>2, <2>2
  <2>4. r \in Dp!Rows /\ r.owner = s3[w].owner /\ r.asks = s3[w].asks
    <3>1. [to |-> l, id |-> s4 + 1] \in [to : DepLane \cup {Nobody}, id : 0..MaxDepOffers]
      BY <2>2, <2>3
    <3> QED
      BY <1>2, <2>1, <3>1 DEF Dp!Rows
  <2> HIDE DEF Goal
  <2> QED
    BY <1>6, <2>2, <2>3, <2>4
<1>11. Dp!NoOffer \in [to : DepLane \cup {Nobody}, id : 0..MaxDepOffers]
  BY DEF Dp!NoOffer
<1>12. ASSUME NEW w \in Work
       PROVE  /\ Dp!Unheld(s3[w]) \in Dp!Rows /\ Dp!Unheld(s3[w]).owner = Nobody
              /\ Dp!Unheld(s3[w]).asks = Nobody
  <2>1. PICK u : u = Dp!Unheld(s3[w])
    OBVIOUS
  <2>2. u = [owner |-> Nobody, ready |-> FALSE, closed |-> s3[w].closed,
             blocked |-> s3[w].blocked, asks |-> Nobody, offer |-> Dp!NoOffer]
    <3>1. s3[w] \in Dp!Rows
      BY <1>2
    <3> QED
      BY <2>1, <3>1 DEF Dp!Unheld, Dp!Rows
  <2>3. u \in Dp!Rows /\ u.owner = Nobody /\ u.asks = Nobody
    BY <1>2, <1>11, <2>2 DEF Dp!Rows
  <2> QED
    BY <2>1, <2>3
<1>13. ASSUME NEW w \in Work, Dp!Accept(w) PROVE Goal
  <2>1. PICK u : u = Dp!Unheld(s3[w])
    OBVIOUS
  <2>2. PICK r : r = [u EXCEPT !.owner = s3[w].offer.to]
    OBVIOUS
  <2>3. s3' = [s3 EXCEPT ![w] = r] /\ Dp!Acts(s3[w].offer.to) /\ s4' = s4
        /\ UNCHANGED <<s1, s2, s5, s6>>
    BY <1>13, <2>1, <2>2 DEF Dp!Accept, Dp!OnLedger, Dp!LaneOnly
  <2>4. r \in Dp!Rows /\ r.owner = s3[w].offer.to /\ r.asks = Nobody
    BY <1>2, <1>12, <2>1, <2>2 DEF Dp!Rows
  <2> HIDE DEF Goal
  <2> QED
    BY <1>2, <1>6, <2>3, <2>4
<1>14. ASSUME NEW l \in DepLane, NEW w \in Work, Dp!Ask(l, w) PROVE Goal
  <2>1. PICK r : r = [s3[w] EXCEPT !.asks = l]
    OBVIOUS
  <2>2. r \in Dp!Rows /\ r.owner = s3[w].owner /\ r.asks = l
    BY <1>2, <2>1 DEF Dp!Rows
  <2> HIDE DEF Goal
  <2> QED
    BY <1>2, <1>6, <1>14, <2>1, <2>2 DEF Dp!Ask, Dp!OnLedger, Dp!LaneOnly
<1>15. ASSUME NEW w \in Work, Dp!Finish(w) \/ Dp!OperatorBlock(w) \/ Dp!Close(w) PROVE Goal
  <2>1. PICK r : /\ s3' = [s3 EXCEPT ![w] = r]
                 /\ \/ r = [s3[w] EXCEPT !.ready = TRUE]
                    \/ r = [s3[w] EXCEPT !.blocked = ~s3[w].blocked]
                    \/ r = [s3[w] EXCEPT !.closed = TRUE]
    BY <1>15, Zenon DEF Dp!Finish, Dp!OperatorBlock, Dp!Close, Dp!OnLedger
  <2>2. r \in Dp!Rows /\ r.owner = s3[w].owner /\ r.asks = s3[w].asks
    <3>1. s3[w] \in Dp!Rows /\ (~s3[w].blocked) \in BOOLEAN
      BY <1>2
    <3> QED
      BY <2>1, <3>1 DEF Dp!Rows
  <2>3. s4' = s4 /\ UNCHANGED <<s1, s2, s5, s6>>
    BY <1>15 DEF Dp!Finish, Dp!OperatorBlock, Dp!Close, Dp!LaneOnly
  <2> HIDE DEF Goal
  <2> QED
    BY <1>2, <1>6, <2>1, <2>2, <2>3
<1>16. ASSUME NEW l \in DepLane, Dp!Die(l) \/ Dp!Park(l) \/ Dp!Restart(l) PROVE Goal
  <2>1. CASE Dp!Die(l)
    BY <1>7, <2>1 DEF Dp!Die
  <2>2. CASE Dp!Park(l)
    <3>1. s2[l] = "running"
      BY <2>2 DEF Dp!Park, Dp!Change
    <3>2. \A q \in Dp!Runner : s5[q].lane # l \/ ~Leaves(s5[q])
      BY <1>2, <3>1
    <3> HIDE DEF Goal, Leaves
    <3> QED
      BY <1>7, <2>2, <3>2 DEF Dp!Park
  <2>3. CASE Dp!Restart(l)
    <3>1. \A q \in Dp!Runner : s5[q].lane # l \/ ~Leaves(s5[q])
      BY <2>3 DEF Dp!Restart
    <3> HIDE DEF Goal, Leaves
    <3> QED
      BY <1>7, <2>3, <3>1 DEF Dp!Restart
  <2> QED
    BY <1>16, <2>1, <2>2, <2>3
(* A pass begins.                                                          *)
<1>17. ASSUME NEW r \in Dp!Runner, NEW k \in {"abandon", "withdraw", "retire"},
              NEW l \in DepLane, NEW step \in {"decline", "release"},
              NEW todo \in SUBSET Work, Dp!Begin(r, k, l, step, todo),
              s5[r] = Dp!NoJob, ~Dp!Locked(l), (k = "abandon") <=> (step = "decline"),
              (k = "abandon") => (r = "supervisor"),
              (k # "abandon") => (/\ s1[l] = "listed" /\ s2[l] \in {"stopped", "dead"}
                                  /\ Dp!MustStay(l) = {} /\ todo = Dp!Held(l)),
              \/ s2' = s2
              \/ s2' = [s2 EXCEPT ![l] = "stopped"],
              UNCHANGED <<s1, s3, s4, s6>>
       PROVE  Goal
  <2>1. PICK live \in SUBSET DepLane :
           live = {p \in DepLane : k = "abandon" /\ Dp!Listed(p)}
    OBVIOUS
  <2>2. PICK j : j = [Dp!NoJob EXCEPT !.kind = k, !.lane = l, !.step = step, !.todo = todo,
                                      !.live = live]
    OBVIOUS
  <2>3. s5' = [s5 EXCEPT ![r] = j]
    BY <1>17, <2>1, <2>2, Zenon DEF Dp!Begin
  <2>4. j = [kind |-> k, lane |-> l, step |-> step, todo |-> todo, seen |-> <<>>,
             live |-> live, returned |-> {}]
    BY <2>2 DEF Dp!NoJob
  <2>5. j.kind = k /\ j.lane = l /\ j.step = step /\ j.todo = todo
    BY <2>4
  <2>6. Formed(r, j)
    <3>1. Dp!IsJob(j)
      BY <2>4, <2>1 DEF Dp!IsJob
    <3> QED
      BY <1>1, <1>17, <2>5, <3>1
  <2>7. /\ s2' \in [DepLane -> Procs]
        /\ \A m \in DepLane : s2'[m] = s2[m] \/ (m = l /\ s2'[m] = "stopped")
    BY <1>2, <1>17
  <2>8. Typed(s1, s2, s3, s4, s5, s6)' /\ Placed(s1, s3, s6)'
    <3>1. DOMAIN s5' = Dp!Runner
      BY <1>2, <2>3
    <3> QED
      BY <1>2, <1>17, <2>7, <3>1
  <2>9. Leaving(s1, s2, s3, s6, j)'
    <3>1. ASSUME k # "abandon"
          PROVE  /\ s2'[l] \in {"stopped", "dead"} /\ step = "release"
                 /\ \A x \in Work : s3[x].owner = l => x \in todo
      BY <1>17, <2>7, <3>1 DEF Dp!Held
    <3> QED
      BY <1>17, <2>5, <3>1
  <2>10. \A q \in Dp!Runner \ {r} : Leaving(s1, s2, s3, s6, s5[q])'
    <3>1. ASSUME NEW q \in Dp!Runner \ {r} PROVE Leaving(s1, s2, s3, s6, s5[q])'
      <4>1. s5'[q] = s5[q]
        BY <1>2, <2>3
      <4> QED
        BY <1>2, <1>17, <2>7, <4>1
    <3> QED
      BY <3>1
  <2>11. \A x \in Dp!Held(j.lane) : k # "abandon" => ~s3[x].blocked
    BY <1>17, <2>5 DEF Dp!MustStay
  <2>12. Gifts
    <3>1. CASE r = "supervisor"
      BY <1>2, <1>17, <3>1 DEF Dp!GiftsWereAskedForStep, Dp!NoJob
    <3>2. CASE r # "supervisor"
      BY <1>1, <1>2, <1>17, <2>3, <3>2 DEF Dp!GiftsWereAskedForStep
    <3> QED
      BY <3>1, <3>2
  <2> HIDE DEF Goal, Typed, Placed, Leaving, Formed, Gifts
  <2> QED
    BY <1>8, <1>17, <2>3, <2>5, <2>6, <2>8, <2>9, <2>10, <2>11, <2>12
<1>18. ASSUME NEW l \in DepLane, Dp!DeadLane(l) \/ Dp!EndHeadless(l) PROVE Goal
  <2>1. /\ s5["supervisor"] = Dp!NoJob /\ ~Dp!Locked(l) /\ UNCHANGED <<s1, s3, s4, s6>>
        /\ Dp!Begin("supervisor", "abandon", l, "decline", Dp!OffersTo(l))
    BY <1>18 DEF Dp!DeadLane, Dp!EndHeadless, Dp!ReturnWork
  <2>2. s2' = s2 \/ s2' = [s2 EXCEPT ![l] = "stopped"]
    BY <1>18 DEF Dp!DeadLane, Dp!EndHeadless
  <2>3. Dp!OffersTo(l) \in SUBSET Work
    BY DEF Dp!OffersTo
  <2> HIDE DEF Goal
  <2> QED
    BY <1>1, <1>17, <2>1, <2>2, <2>3
<1>19. ASSUME NEW r \in Dp!Runner, NEW l \in DepLane, NEW k \in {"withdraw", "retire"},
              Dp!StartReturn(r, k, l)
       PROVE  Goal
  <2>1. /\ s5[r] = Dp!NoJob /\ ~Dp!Locked(l) /\ UNCHANGED <<s1, s2, s3, s4, s6>>
        /\ s1[l] = "listed" /\ s2[l] \in {"stopped", "dead"} /\ Dp!MustStay(l) = {}
        /\ Dp!Begin(r, k, l, "release", Dp!Held(l))
    BY <1>19 DEF Dp!StartReturn, Dp!ToReturn, Dp!Listed
  <2>2. Dp!Held(l) \in SUBSET Work
    BY DEF Dp!Held
  <2> HIDE DEF Goal
  <2> QED
    BY <1>17, <2>1, <2>2
(* A pass goes on: its lane stays, rows are given up or silent.            *)
<1>20. ASSUME NEW r \in Dp!Runner, NEW j, s5' = [s5 EXCEPT ![r] = j], Formed(r, j),
              s5[r].kind # "none", j.kind = "none" \/ j.lane = s5[r].lane,
              s3' \in [Work -> Dp!Rows],
              \A x \in Work : /\ s3'[x].owner \in {s3[x].owner, Nobody}
                              /\ s3'[x].asks \in {s3[x].asks, Nobody},
              UNCHANGED <<s1, s2, s4, s6>>, Leaving(s1, s2, s3, s6, j)',
              r = "supervisor" => Gifts
       PROVE  Goal
  <2>1. DOMAIN s5' = Dp!Runner
    BY <1>2, <1>20
  <2>2. Typed(s1, s2, s3, s4, s5, s6)' /\ Placed(s1, s3, s6)'
    BY <1>2, <1>20, <2>1
  <2>3. ASSUME NEW q \in Dp!Runner \ {r} PROVE Leaving(s1, s2, s3, s6, s5[q])'
    <3>1. s5'[q] = s5[q] /\ Leaving(s1, s2, s3, s6, s5[q])
      BY <1>2, <1>20
    <3> QED
      BY <1>20, <3>1
  <2>4. s5[r] # Dp!NoJob
    BY <1>20, <1>4
  <2> HIDE DEF Goal, Typed, Placed, Leaving, Formed, Gifts
  <2> QED
    BY <1>8, <1>20, <2>2, <2>3, <2>4
<1>21. ASSUME NEW r \in Dp!Runner
       PROVE  /\ Dp!IsJob(s5[r]) /\ s5[r].todo \subseteq Work
              /\ \A w \in Work : s5[r].todo \ {w} \subseteq Work
  <2>1. Dp!IsJob(s5[r])
    BY <1>2
  <2> QED
    BY <2>1 DEF Dp!IsJob
<1>22. ASSUME NEW j, Dp!IsJob(j), NEW w \in Work, NEW c, c = [j EXCEPT !.todo = j.todo \ {w}]
       PROVE  /\ Dp!IsJob(c) /\ c.kind = j.kind /\ c.lane = j.lane /\ c.step = j.step
              /\ c.todo = j.todo \ {w} /\ c.seen = j.seen /\ c.live = j.live
              /\ c.returned = j.returned
  <2>1. c = [kind |-> j.kind, lane |-> j.lane, step |-> j.step, todo |-> j.todo \ {w},
             seen |-> j.seen, live |-> j.live, returned |-> j.returned]
    BY <1>22 DEF Dp!IsJob
  <2> QED
    BY <1>22, <2>1 DEF Dp!IsJob
<1>23. Formed("supervisor", Dp!NoJob) /\ Formed("operator", Dp!NoJob) /\ ~Leaves(Dp!NoJob)
  <2>1. Dp!IsJob(Dp!NoJob)
    BY DEF Dp!IsJob, Dp!NoJob
  <2> QED
    BY <1>4, <2>1
(* No other step of a pass gives.                                          *)
<1>24. ASSUME s5["supervisor"].step # "give" PROVE Gifts
  BY <1>24 DEF Dp!GiftsWereAskedForStep
<1>25. ASSUME NEW w \in Work, Dp!DeclineAbandoned(w) PROVE Goal
  <2>1. PICK j : j = [s5["supervisor"] EXCEPT !.todo = s5["supervisor"].todo \ {w}]
    OBVIOUS
  <2>2. s5' = [s5 EXCEPT !["supervisor"] = j] /\ s5["supervisor"].kind = "abandon"
        /\ s5["supervisor"].step = "decline" /\ UNCHANGED <<s1, s2, s4, s6>>
    BY <1>25, <2>1, Zenon DEF Dp!DeclineAbandoned, Dp!Step
  <2>3. Dp!IsJob(j) /\ j.kind = "abandon" /\ j.step = "decline"
        /\ j.lane = s5["supervisor"].lane
    BY <1>1, <1>21, <1>22, <2>1, <2>2
  <2>4. PICK x : x = [s3[w] EXCEPT !.offer = Dp!NoOffer]
    OBVIOUS
  <2>5. x \in Dp!Rows /\ x.owner = s3[w].owner /\ x.asks = s3[w].asks
    BY <1>2, <1>11, <2>4 DEF Dp!Rows
  <2>6. s3' = [s3 EXCEPT ![w] = x] \/ s3' = s3
    BY <1>25, <2>4 DEF Dp!DeclineAbandoned, Dp!OnLedger
  <2>7. s3' \in [Work -> Dp!Rows] /\ \A y \in Work : s3'[y].owner = s3[y].owner
        /\ s3'[y].asks = s3[y].asks
    BY <1>2, <2>5, <2>6
  <2>8. Formed("supervisor", j) /\ Leaving(s1, s2, s3, s6, j)'
    BY <2>3
  <2> HIDE DEF Goal, Formed, Leaving, Gifts
  <2> QED
    BY <1>1, <1>20, <1>24, <2>2, <2>3, <2>7, <2>8
<1>26. ASSUME Dp!Look PROVE Goal
  <2>1. PICK t \in SUBSET Work : t = Dp!Held(s5["supervisor"].lane)
    BY DEF Dp!Held
  <2>2. PICK j : \E n : n = [w \in t |-> s3[w]]
                 /\ j = [s5["supervisor"] EXCEPT !.step = "holding", !.todo = t, !.seen = n]
    OBVIOUS
  <2>3. s5' = [s5 EXCEPT !["supervisor"] = j] /\ s5["supervisor"].kind = "abandon"
        /\ s5["supervisor"].step = "decline" /\ UNCHANGED <<s1, s2, s3, s4, s6>>
    BY <1>26, <2>1, <2>2, Zenon DEF Dp!Look, Dp!Step
  <2>4. Dp!IsJob(j) /\ j.kind = "abandon" /\ j.step = "holding"
        /\ j.lane = s5["supervisor"].lane
    <3>1. PICK n : j = [s5["supervisor"] EXCEPT !.step = "holding", !.todo = t, !.seen = n]
      BY <2>2
    <3>2. PICK k : k = s5["supervisor"]
      OBVIOUS
    <3>3. Dp!IsJob(k) /\ k.kind = "abandon"
      BY <1>1, <1>21, <2>3, <3>2
    <3>4. j = [kind |-> k.kind, lane |-> k.lane, step |-> "holding", todo |-> t,
               seen |-> n, live |-> k.live, returned |-> k.returned]
      BY <3>1, <3>2, <3>3 DEF Dp!IsJob
    <3> QED
      BY <3>2, <3>3, <3>4 DEF Dp!IsJob
  <2>5. Formed("supervisor", j) /\ Leaving(s1, s2, s3, s6, j)'
    BY <2>4
  <2> HIDE DEF Goal, Formed, Leaving, Gifts
  <2> QED
    BY <1>1, <1>2, <1>20, <1>24, <2>3, <2>4, <2>5
<1>27. ASSUME NEW w \in Work, Dp!ReleaseAbandoned(w) PROVE Goal
  <2>1. PICK k : k = s5["supervisor"]
    OBVIOUS
  <2>2. PICK n : n = [k EXCEPT !.todo = k.todo \ {w}]
    OBVIOUS
  <2>3. PICK g : g = [k EXCEPT !.step = "give", !.returned = {w}]
    OBVIOUS
  <2>4. /\ k.kind = "abandon" /\ k.step = "holding" /\ UNCHANGED <<s1, s2, s4, s6>>
        /\ \/ (s5' = [s5 EXCEPT !["supervisor"] = n])
           \/ (s5' = [s5 EXCEPT !["supervisor"] = g] /\ Dp!Given(k, k.seen[w]) # {})
        /\ (s3' = [s3 EXCEPT ![w] = Dp!Unheld(s3[w])] \/ s3' = s3)
    <3>1. k.kind = "abandon" /\ k.step = "holding" /\ UNCHANGED <<s1, s2, s4, s6>>
          /\ (s3' = [s3 EXCEPT ![w] = Dp!Unheld(s3[w])] \/ s3' = s3)
      BY <1>27, <2>1, Zenon DEF Dp!ReleaseAbandoned, Dp!OnLedger
    <3>2. CASE ~Dp!Keeps(k.seen[w]) /\ Dp!Releasable(k.lane, s3[w])
      <4>1. s5' = [s5 EXCEPT !["supervisor"] = IF Dp!Given(k, k.seen[w]) = {} THEN n ELSE g]
        BY <1>27, <2>1, <2>2, <2>3, <3>2, Zenon DEF Dp!ReleaseAbandoned, Dp!Step
      <4> QED
        BY <3>1, <4>1
    <3>3. CASE ~(~Dp!Keeps(k.seen[w]) /\ Dp!Releasable(k.lane, s3[w]))
      <4>1. s5' = [s5 EXCEPT !["supervisor"] = n]
        BY <1>27, <2>1, <2>2, <3>3, Zenon DEF Dp!ReleaseAbandoned, Dp!Step
      <4> QED
        BY <3>1, <4>1
    <3> QED
      BY <3>2, <3>3
  <2>5. s3' \in [Work -> Dp!Rows] /\ \A x \in Work : s3'[x].owner \in {s3[x].owner, Nobody}
        /\ s3'[x].asks \in {s3[x].asks, Nobody}
    BY <1>2, <1>12, <2>4
  <2>6. Dp!IsJob(k)
    BY <1>1, <1>21, <2>1
  <2>7. Dp!IsJob(n) /\ n.kind = "abandon" /\ n.step = "holding" /\ n.lane = k.lane
    BY <1>22, <2>2, <2>4, <2>6
  <2>8. Dp!IsJob(g) /\ g.kind = "abandon" /\ g.step = "give" /\ g.lane = k.lane
        /\ g.returned = {w} /\ g.live = k.live /\ g.seen = k.seen
    <3>1. g = [kind |-> k.kind, lane |-> k.lane, step |-> "give", todo |-> k.todo,
               seen |-> k.seen, live |-> k.live, returned |-> {w}]
      BY <2>3, <2>6 DEF Dp!IsJob
    <3> QED
      BY <2>4, <2>6, <3>1 DEF Dp!IsJob
  <2>9. Dp!Given(g, g.seen[w]) = Dp!Given(k, k.seen[w])
    BY <2>8 DEF Dp!Given
  <2>10. PICK j \in {n, g} : s5' = [s5 EXCEPT !["supervisor"] = j]
                             /\ (j = g => Dp!Given(k, k.seen[w]) # {})
    <3>1. n # g
      BY <2>7, <2>8
    <3> QED
      BY <2>4, <3>1
  <2>11. j.kind = "abandon" /\ j.lane = k.lane /\ Leaving(s1, s2, s3, s6, j)'
    BY <2>7, <2>8, <2>10
  <2>12. Formed("supervisor", j)
    <3>1. CASE j = n
      BY <2>7, <3>1
    <3>2. CASE j = g
      BY <2>8, <2>9, <2>10, <3>2
    <3> QED
      BY <2>10, <3>1, <3>2
  <2>13. Gifts
    BY <1>24, <2>1, <2>4
  <2> HIDE DEF Goal, Formed, Leaving, Gifts
  <2> QED
    BY <1>1, <1>20, <2>1, <2>4, <2>5, <2>10, <2>11, <2>12, <2>13
<1>28. ASSUME NEW w \in Work, Dp!Give(w) PROVE Goal
  <2>1. PICK k : k = s5["supervisor"]
    OBVIOUS
  <2>2. PICK p : p = CHOOSE q \in Dp!Given(k, k.seen[w]) : TRUE
    OBVIOUS
  <2>3. PICK j : j = [k EXCEPT !.step = "holding", !.todo = k.todo \ {w}, !.returned = {}]
    OBVIOUS
  <2>4. PICK x : x = [s3[w] EXCEPT !.owner = p]
    OBVIOUS
  <2>5. /\ k.step = "give" /\ w \in k.returned /\ s5' = [s5 EXCEPT !["supervisor"] = j]
        /\ UNCHANGED <<s1, s2, s4>>
    BY <1>28, <2>1, <2>3, Zenon DEF Dp!Give, Dp!Step
  <2>6. \/ /\ s3' = [s3 EXCEPT ![w] = x]
           /\ s6' = IF Dp!Listed(p) /\ ~Dp!Locked(p) THEN s6 ELSE s6 \cup {w}
        \/ s3' = s3 /\ s6' = s6
    BY <1>28, <2>1, <2>2, <2>4, Zenon DEF Dp!Give, Dp!OnLedger
  <2>7. Dp!IsJob(k) /\ k.kind = "abandon" /\ Dp!Given(k, k.seen[w]) # {}
    <3>1. Formed("supervisor", k)
      BY <1>1, <1>2, <2>1
    <3> QED
      BY <2>5, <3>1
  <2>8. p \in k.live /\ p \in DepLane /\ k.seen[w].asks = p /\ ~k.seen[w].closed
    <3>1. p \in Dp!Given(k, k.seen[w])
      BY <2>2, <2>7
    <3> QED
      BY <2>7, <3>1 DEF Dp!Given, Dp!IsJob
  <2>9. x \in Dp!Rows /\ x.owner = p /\ x.asks = s3[w].asks
    BY <1>2, <2>4, <2>8 DEF Dp!Rows
  <2>10. /\ s3' \in [Work -> Dp!Rows] /\ s6 \subseteq s6' /\ s6' \subseteq Work
         /\ \A y \in Work \ {w} : s3'[y] = s3[y]
         /\ s3'[w].asks = s3[w].asks /\ s3'[w].owner \in {s3[w].owner, p}
         /\ s3'[w].owner = s3[w].owner \/ w \in s6' \/ (Dp!Listed(p) /\ ~Dp!Locked(p))
    BY <1>2, <2>6, <2>9
  <2>11. Dp!IsJob(j) /\ j.kind = "abandon" /\ j.step = "holding" /\ j.lane = k.lane
    <3>1. j = [kind |-> k.kind, lane |-> k.lane, step |-> "holding", todo |-> k.todo \ {w},
               seen |-> k.seen, live |-> k.live, returned |-> {}]
      BY <2>3, <2>7 DEF Dp!IsJob
    <3> QED
      BY <2>7, <3>1 DEF Dp!IsJob
  <2>12. DOMAIN s5' = Dp!Runner
    BY <1>2, <2>5
  <2>13. Typed(s1, s2, s3, s4, s5, s6)' /\ Placed(s1, s3, s6)'
    BY <1>2, <2>5, <2>10, <2>12 DEF Dp!Listed
  <2>14. Formed("supervisor", j) /\ Leaving(s1, s2, s3, s6, j)'
    BY <2>11
  <2>15. ASSUME NEW q \in Dp!Runner \ {"supervisor"}
         PROVE  Leaving(s1, s2, s3, s6, s5[q])'
    <3>1. s5'[q] = s5[q] /\ Leaving(s1, s2, s3, s6, s5[q])
      BY <1>2, <2>5
    <3>2. ASSUME Leaves(s5[q]), s5[q].lane = p PROVE Dp!Locked(p)
      BY <3>2 DEF Dp!Locked
    <3> QED
      BY <2>5, <2>10, <3>1, <3>2
  <2>16. Gifts
    <3>1. ASSUME NEW y \in Work, s3[y].owner = Nobody, s3'[y].owner # Nobody
          PROVE  k.seen[y].asks = s3'[y].owner /\ ~k.seen[y].closed
      BY <2>8, <2>10, <3>1
    <3> QED
      BY <2>1, <3>1 DEF Dp!GiftsWereAskedForStep
  <2>17. k # Dp!NoJob
    BY <1>4, <2>7
  <2> HIDE DEF Goal, Formed, Leaving, Gifts, Typed, Placed
  <2> QED
    BY <1>1, <1>8, <2>1, <2>5, <2>7, <2>11, <2>13, <2>14, <2>15, <2>16, <2>17
<1>29. ASSUME NEW l, Dp!Silent(l)
       PROVE  /\ s3' \in [Work -> Dp!Rows]
              /\ \A x \in Work : /\ s3'[x].owner = s3[x].owner
                                 /\ s3'[x].asks = (IF s3[x].asks = l THEN Nobody ELSE s3[x].asks)
  <2>1. ASSUME NEW x \in Work
        PROVE  /\ s3'[x] \in Dp!Rows /\ s3'[x].owner = s3[x].owner
               /\ s3'[x].asks = (IF s3[x].asks = l THEN Nobody ELSE s3[x].asks)
    <3>1. PICK y : y = [s3[x] EXCEPT !.asks = Nobody]
      OBVIOUS
    <3>2. s3'[x] = IF s3[x].asks = l THEN y ELSE s3[x]
      BY <1>29, <3>1 DEF Dp!Silent
    <3>3. y \in Dp!Rows /\ y.owner = s3[x].owner /\ y.asks = Nobody
      BY <1>2, <3>1 DEF Dp!Rows
    <3> QED
      BY <1>2, <3>2, <3>3
  <2> QED
    BY <1>29, <2>1 DEF Dp!Silent
<1>30. ASSUME Dp!SilenceAbandoned PROVE Goal
  <2>1. PICK k : k = s5["supervisor"]
    OBVIOUS
  <2>2. PICK j : j = [k EXCEPT !.step = "announce", !.seen = <<>>, !.live = {}]
    OBVIOUS
  <2>3. k.kind = "abandon" /\ k.step = "holding" /\ Dp!Silent(k.lane)
        /\ s5' = [s5 EXCEPT !["supervisor"] = j] /\ UNCHANGED <<s1, s2, s4, s6>>
    BY <1>30, <2>1, <2>2, Zenon DEF Dp!SilenceAbandoned, Dp!Step
  <2>4. Dp!IsJob(j) /\ j.kind = "abandon" /\ j.step = "announce" /\ j.lane = k.lane
    <3>1. Dp!IsJob(k)
      BY <1>1, <1>21, <2>1
    <3>2. j = [kind |-> k.kind, lane |-> k.lane, step |-> "announce", todo |-> k.todo,
               seen |-> <<>>, live |-> {}, returned |-> k.returned]
      BY <2>2, <3>1 DEF Dp!IsJob
    <3> QED
      BY <2>3, <3>1, <3>2 DEF Dp!IsJob
  <2>5. Formed("supervisor", j) /\ Leaving(s1, s2, s3, s6, j)'
    BY <2>4
  <2>6. s3' \in [Work -> Dp!Rows] /\ \A x \in Work : s3'[x].owner = s3[x].owner
        /\ s3'[x].asks \in {s3[x].asks, Nobody}
    BY <1>29, <2>3
  <2>7. Gifts
    BY <1>24, <2>1, <2>3
  <2> HIDE DEF Goal, Formed, Leaving, Gifts
  <2> QED
    BY <1>1, <1>20, <2>1, <2>3, <2>4, <2>5, <2>6, <2>7
<1>31. ASSUME Dp!Announce PROVE Goal
  <2>1. s5' = [s5 EXCEPT !["supervisor"] = Dp!NoJob] /\ s5["supervisor"].step = "announce"
        /\ UNCHANGED <<s1, s2, s3, s4, s6>>
    BY <1>31 DEF Dp!Announce
  <2>2. s5["supervisor"].kind = "abandon"
    BY <1>1, <1>2, <2>1
  <2>3. Leaving(s1, s2, s3, s6, Dp!NoJob)'
    BY <1>23
  <2> HIDE DEF Goal, Formed, Leaving, Gifts
  <2> QED
    BY <1>1, <1>2, <1>20, <1>23, <1>24, <1>4, <2>1, <2>2, <2>3
(* The pass of a lane that leaves on purpose.                              *)
<1>32. ASSUME NEW r \in Dp!Runner, Leaves(s5[r])
       PROVE  /\ s5[r].step # "give" /\ Leaving(s1, s2, s3, s6, s5[r]) /\ Dp!IsJob(s5[r])
              /\ s5[r].kind # "none"
              /\ r = "supervisor" => Gifts
  <2>1. s5[r].step # "give" /\ Leaving(s1, s2, s3, s6, s5[r]) /\ Dp!IsJob(s5[r])
    BY <1>2, <1>32
  <2> HIDE DEF Gifts
  <2> QED
    BY <1>24, <1>32, <2>1
<1>33. ASSUME NEW r \in Dp!Runner, NEW w \in Work, Dp!ReturnOne(r, w) PROVE Goal
  <2>1. PICK k : k = s5[r]
    OBVIOUS
  <2>2. PICK n : n = [k EXCEPT !.todo = k.todo \ {w}]
    OBVIOUS
  <2>3. PICK x : x = [s3[w] EXCEPT !.offer = Dp!NoOffer]
    OBVIOUS
  <2>4. /\ Leaves(k) /\ w \in k.todo /\ UNCHANGED <<s1, s2, s4, s6>>
        /\ \/ /\ s5' = [s5 EXCEPT ![r] = n]
              /\ s3' = [s3 EXCEPT ![w] = IF k.step = "release" THEN Dp!Unheld(s3[w]) ELSE x]
           \/ s5' = [s5 EXCEPT ![r] = Dp!NoJob] /\ s3' = s3
    BY <1>33, <2>1, <2>2, <2>3, Zenon DEF Dp!ReturnOne, Dp!Step, Dp!OnLedger
  <2>5. x \in Dp!Rows /\ x.owner = s3[w].owner /\ x.asks = s3[w].asks
    BY <1>2, <1>11, <2>3 DEF Dp!Rows
  <2>6. /\ s3' \in [Work -> Dp!Rows]
        /\ \A y \in Work : /\ s3'[y].owner \in {s3[y].owner, Nobody}
                           /\ s3'[y].asks \in {s3[y].asks, Nobody}
    BY <1>2, <1>12, <2>4, <2>5
  <2>7. /\ Dp!IsJob(k) /\ k.step # "give" /\ k.kind # "none" /\ k.step \in {"release", "offers"}
        /\ Leaving(s1, s2, s3, s6, k) /\ k.lane \in DepLane
        /\ r = "supervisor" => Gifts
    BY <1>32, <2>1, <2>4
  <2>8. CASE s5' = [s5 EXCEPT ![r] = Dp!NoJob]
    <3>1. Leaving(s1, s2, s3, s6, Dp!NoJob)'
      BY <1>23
    <3> HIDE DEF Goal, Formed, Leaving, Gifts
    <3> QED
      BY <1>1, <1>20, <1>23, <1>4, <2>1, <2>4, <2>6, <2>7, <2>8, <3>1
  <2>9. CASE /\ s5' = [s5 EXCEPT ![r] = n]
             /\ s3' = [s3 EXCEPT ![w] = IF k.step = "release" THEN Dp!Unheld(s3[w]) ELSE x]
    <3>1. Dp!IsJob(n) /\ n.kind = k.kind /\ n.lane = k.lane /\ n.step = k.step
          /\ n.todo = k.todo \ {w}
      BY <1>22, <2>2, <2>7
    <3>2. Formed(r, n)
      BY <2>4, <2>7, <3>1
    <3>3. \A y \in Work \ {w} : s3'[y] = s3[y]
      BY <1>2, <2>9
    <3>4. s3'[w].owner = IF k.step = "release" THEN Nobody ELSE s3[w].owner
      BY <1>2, <1>12, <2>5, <2>9
    <3>5. Leaving(s1, s2, s3, s6, n)'
      BY <2>4, <2>7, <3>1, <3>3, <3>4
    <3> HIDE DEF Goal, Formed, Leaving, Gifts
    <3> QED
      BY <1>20, <2>1, <2>4, <2>6, <2>7, <2>9, <3>1, <3>2, <3>5
  <2> QED
    BY <2>4, <2>8, <2>9
<1>34. ASSUME NEW r \in Dp!Runner, Dp!DeclineNext(r) PROVE Goal
  <2>1. PICK k : k = s5[r]
    OBVIOUS
  <2>2. PICK t \in SUBSET Work : t = Dp!OffersTo(k.lane)
    BY DEF Dp!OffersTo
  <2>3. PICK n : n = [k EXCEPT !.step = "offers", !.todo = t]
    OBVIOUS
  <2>4. /\ Leaves(k) /\ k.step = "release" /\ k.todo = {} /\ s5' = [s5 EXCEPT ![r] = n]
        /\ UNCHANGED <<s1, s2, s3, s4, s6>>
    BY <1>34, <2>1, <2>2, <2>3, Zenon DEF Dp!DeclineNext, Dp!Step
  <2>5. /\ Dp!IsJob(k) /\ k.kind # "none" /\ Leaving(s1, s2, s3, s6, k)
        /\ r = "supervisor" => Gifts
    BY <1>32, <2>1, <2>4
  <2>6. Dp!IsJob(n) /\ n.kind = k.kind /\ n.lane = k.lane /\ n.step = "offers"
    <3>1. n = [kind |-> k.kind, lane |-> k.lane, step |-> "offers", todo |-> t,
               seen |-> k.seen, live |-> k.live, returned |-> k.returned]
      BY <2>3, <2>5 DEF Dp!IsJob
    <3> QED
      BY <2>5, <3>1 DEF Dp!IsJob
  <2>7. Formed(r, n) /\ Leaving(s1, s2, s3, s6, n)'
    BY <2>4, <2>5, <2>6
  <2> HIDE DEF Goal, Formed, Leaving, Gifts
  <2> QED
    BY <1>2, <1>20, <2>1, <2>4, <2>5, <2>6, <2>7
<1>35. ASSUME NEW r \in Dp!Runner, Dp!Retire(r) PROVE Goal
  <2>1. PICK k : k = s5[r]
    OBVIOUS
  <2>2. PICK m \in {"removed", "retired"} :
          m = IF k.kind = "retire" THEN "removed" ELSE "retired"
    OBVIOUS
  <2>3. /\ Leaves(k) /\ k.step = "offers" /\ Dp!Silent(k.lane)
        /\ s1' = [s1 EXCEPT ![k.lane] = m] /\ s5' = [s5 EXCEPT ![r] = Dp!NoJob]
        /\ UNCHANGED <<s2, s4, s6>>
    BY <1>35, <2>1, <2>2, Zenon DEF Dp!Retire, Dp!Leave, Dp!LeaveRoster
  <2>4. /\ k.kind # "none" /\ Leaving(s1, s2, s3, s6, k) /\ k.lane \in DepLane
        /\ r = "supervisor" => Gifts
    BY <1>32, <2>1, <2>3
  <2>5. /\ s3' \in [Work -> Dp!Rows]
        /\ \A x \in Work : /\ s3'[x].owner = s3[x].owner
              /\ s3'[x].asks = (IF s3[x].asks = k.lane THEN Nobody ELSE s3[x].asks)
    BY <1>29, <2>3
  <2>6. s1' \in [DepLane -> Marks] /\ \A l \in DepLane \ {k.lane} : s1'[l] = s1[l]
    BY <1>2, <2>3
  <2>7. DOMAIN s5' = Dp!Runner /\ \A q \in Dp!Runner \ {r} : s5'[q] = s5[q]
    BY <1>2, <2>3
  <2>8. Typed(s1, s2, s3, s4, s5, s6)'
    BY <1>2, <2>3, <2>5, <2>6, <2>7
  <2>9. \A x \in Work : s3[x].owner = k.lane => x \in s6
    BY <2>3, <2>4
  <2>10. Placed(s1, s3, s6)'
    <3>1. ASSUME NEW x \in Work
          PROVE  /\ (s3'[x].owner # Nobody /\ s1'[s3'[x].owner] # "listed") => x \in s6'
                 /\ (s3'[x].asks = Nobody \/ s1'[s3'[x].asks] = "listed" \/ x \in s6')
      <4>1. s3[x].owner \in DepLane \cup {Nobody} /\ s3[x].asks \in DepLane \cup {Nobody}
        BY <1>2 DEF Dp!Rows
      <4> QED
        BY <1>2, <2>3, <2>5, <2>6, <2>9, <4>1
    <3> QED
      BY <3>1
  <2>11. ASSUME NEW q \in Dp!Runner \ {r} PROVE Leaving(s1, s2, s3, s6, s5[q])'
    <3>1. s5'[q] = s5[q] /\ Leaving(s1, s2, s3, s6, s5[q])
      BY <1>2, <2>7
    <3>2. Leaves(s5[q]) => s5[q].lane # k.lane
      BY <1>2, <2>1, <2>4
    <3> QED
      BY <2>3, <2>5, <2>6, <3>1, <3>2
  <2>12. Leaving(s1, s2, s3, s6, Dp!NoJob)' /\ ~Leaves(Dp!NoJob) /\ k # Dp!NoJob
    BY <1>23, <1>4, <2>4
  <2>13. Formed(r, Dp!NoJob)
    <3> HIDE DEF Formed
    <3> QED
      BY <1>1, <1>23
  <2> HIDE DEF Goal, Formed, Leaving, Gifts, Typed, Placed
  <2> QED
    BY <1>8, <1>4, <2>1, <2>3, <2>4, <2>8, <2>10, <2>11, <2>12, <2>13
<1>36. ASSUME UNCHANGED Dp!depVars PROVE Goal
  <2>1. UNCHANGED <<s1, s2, s3, s4, s5, s6>>
    BY <1>36 DEF Dp!depVars
  <2>2. Typed(s1, s2, s3, s4, s5, s6)' /\ Placed(s1, s3, s6)' /\ Apart(s5)'
    BY <1>2, <2>1
  <2>3. \A r \in Dp!Runner : Leaving(s1, s2, s3, s6, s5[r])' /\ Formed(r, s5[r])'
    BY <1>2, <2>1
  <2> HIDE DEF Typed, Placed, Leaving, Formed, Apart, Blocked, Gifts
  <2> QED
    BY <1>3, <1>5, <2>1, <2>2, <2>3
<1> HIDE DEF Goal
<1>37. Goal
  <2>1. CASE Dp!SupervisorStep
    BY <1>18, <1>25, <1>26, <1>27, <1>28, <1>30, <1>31, <2>1 DEF Dp!SupervisorStep
  <2>2. CASE \E r \in Dp!Runner : Dp!ReturnStep(r)
    BY <1>33, <1>34, <1>35, <2>2 DEF Dp!ReturnStep
  <2>3. CASE \E l \in DepLane, w \in Work : Dp!Take(l, w) \/ Dp!Hand(w, l) \/ Dp!Ask(l, w)
    BY <1>9, <1>10, <1>14, <2>3
  <2>4. CASE \E w \in Work : Dp!Accept(w) \/ Dp!Finish(w) \/ Dp!OperatorBlock(w) \/ Dp!Close(w)
    BY <1>13, <1>15, <2>4
  <2> QED
    BY <1>16, <1>19, <1>36, <2>1, <2>2, <2>3, <2>4 DEF Dp!DeparturesNext
<1> QED
  BY <1>37 DEF Goal

(* The ladder of an overdue claim.                                         *)

(* The calls of a poll: what comes first and what is left.                 *)
LEMMA PlannedCalls ==
  ASSUME NEW c \in Lc!Plans, c # <<>>
  PROVE  /\ c = <<"drop">> <=> Head(c) = "drop"
         /\ c = <<"wake">> <=> Head(c) = "wake"
         /\ Head(c) \in {"drop", "wake", "toOffer"} => Len(c) = 1
         /\ Len(c) = 1 \/ (Tail(c) \in Lc!Plans /\ Tail(c) # <<>>)
         /\ Head(c) \in Lc!Steps
<1>1. CASE c = <<"drop">>
  BY <1>1 DEF Lc!Steps
<1>2. CASE c = <<"wake">>
  BY <1>2 DEF Lc!Steps
<1>3. CASE c = <<"toOffer">>
  BY <1>3 DEF Lc!Steps
<1>4. CASE c = <<"release">>
  BY <1>4 DEF Lc!Steps
<1>5. CASE c = <<"offer", "toOffer">>
  <2>1. Tail(c) = <<"toOffer">> /\ Head(c) = "offer"
    BY <1>5
  <2> QED
    BY <1>5, <2>1 DEF Lc!Steps, Lc!Plans
<1>6. CASE c = <<"toRelease", "release">>
  <2>1. Tail(c) = <<"release">> /\ Head(c) = "toRelease"
    BY <1>6
  <2> QED
    BY <1>6, <2>1 DEF Lc!Steps, Lc!Plans
<1>7. CASE c = <<"cancel", "release">>
  <2>1. Tail(c) = <<"release">> /\ Head(c) = "cancel"
    BY <1>7
  <2> QED
    BY <1>7, <2>1 DEF Lc!Steps, Lc!Plans
<1>8. CASE c = <<"toRelease", "cancel", "release">>
  <2>1. Tail(c) = <<"cancel", "release">> /\ Head(c) = "toRelease"
    BY <1>8
  <2> QED
    BY <1>8, <2>1 DEF Lc!Steps, Lc!Plans
<1> QED
  BY <1>1, <1>2, <1>3, <1>4, <1>5, <1>6, <1>7, <1>8 DEF Lc!Plans

(* Nobody holds the issue at first.                                        *)
LEMMA OverdueInitially == Lc!OverdueInit => Lc!OverdueInv
<1> SUFFICES ASSUME Lc!OverdueInit PROVE Lc!OverdueInv
  OBVIOUS
<1> USE SupervisionAssumption
<1>1. /\ s1 = Free /\ s2 = 0 /\ s3 = Free /\ s4 = FALSE /\ s5 = [k \in Lc!Kinds |-> 0]
      /\ s6 = FALSE /\ s7 = Lc!NoLadder /\ s8 = 0 /\ s9 = 0 /\ s10 = {} /\ s11 = FALSE
      /\ s12 = Lc!NoPlan /\ s13 = [of |-> 0, age |-> 0]
  BY DEF Lc!OverdueInit
<1>2. \A k \in Lc!Kinds : Lc!Counted(k) \in Nat
  BY DEF Lc!Counted
<1>3. /\ s7 \in [of : 0..MaxHolds, step : {"none", "wake", "offer", "release"}] /\ s7.of = 0
      /\ s7.step = "none"
  BY <1>1 DEF Lc!NoLadder
<1>4. <<>> \in Lc!Plans
  BY DEF Lc!Plans
<1>5. /\ s12 \in [of : 0..MaxHolds, by : Owner \cup {Free}, to : Owner \cup {Free},
                  calls : Lc!Plans]
      /\ s12.of = 0 /\ s12.calls = <<>>
  <2>1. s12 = [of |-> 0, by |-> Free, to |-> Free, calls |-> <<>>]
    BY <1>1 DEF Lc!NoPlan
  <2> HIDE DEF Lc!Plans
  <2> QED
    BY <1>4, <2>1
<1>6. s5 \in [Lc!Kinds -> Nat] /\ DOMAIN s5 = Lc!Kinds /\ \A k \in Lc!Kinds : s5[k] = 0
  BY <1>1
<1>7. s13 \in [of : 0..MaxHolds, age : 0..1] /\ s13.age = 0
  BY <1>1
<1>8. Lc!OverdueTypeOK
  <2>1. s2 \in 0..MaxHolds /\ s8 \in 0..MaxHolds /\ s9 \in 0..MaxHolds
        /\ s1 \in Owner \cup {Free} /\ s3 \in Owner \cup {Free}
    BY <1>1
  <2>2. s4 \in BOOLEAN /\ s6 \in BOOLEAN /\ s11 \in BOOLEAN
    BY <1>1, Zenon
  <2>3. \A k \in Lc!Kinds : s5[k] \in 0..Lc!Counted(k)
    BY <1>2, <1>6
  <2> QED
    BY <1>3, <1>6, <1>7, <2>1, <2>2, <2>3 DEF Lc!OverdueTypeOK
<1>9. Lc!ToldOncePerClaim
  BY <1>1 DEF Lc!ToldOncePerClaim
<1> QED
  BY <1>1, <1>3, <1>5, <1>6, <1>7, <1>8, <1>9 DEF Lc!OverdueInv, Lc!ClaimNumbers

(* The poll asks, offers and releases, the lanes act between its calls.    *)
LEMMA OverdueStep ==
  Lc!OverdueInv /\ [Lc!OverdueNext]_(Lc!overdueVars)
    => Lc!OverdueInv' /\ Lc!ReleasedClaimsWereWarnedStep /\ Lc!OwnOffersAreLeftAloneStep
<1> SUFFICES ASSUME Lc!OverdueInv, [Lc!OverdueNext]_(Lc!overdueVars)
             PROVE  /\ Lc!OverdueInv'
                    /\ Lc!ReleasedClaimsWereWarnedStep /\ Lc!OwnOffersAreLeftAloneStep
  OBVIOUS
<1> USE SupervisionAssumption
<1> DEFINE
      Age(a) == a \in [Lc!Kinds -> Nat] /\ \A k \in Lc!Kinds : a[k] \in 0..Lc!Counted(k)
      Row(h, n, p, f, e, w) ==
        /\ h \in Owner \cup {Free} /\ n \in 0..MaxHolds /\ p \in Owner \cup {Free}
        /\ f \in BOOLEAN /\ e \in BOOLEAN /\ w \in 0..MaxHolds /\ (n = 0 => h = Free)
      Warned(n, l, a, v) ==
        /\ l \in [of : 0..MaxHolds, step : {"none", "wake", "offer", "release"}]
        /\ v \in [of : 0..MaxHolds, age : 0..1] /\ l.of <= n
        /\ (l.of = n /\ n > 0) =>
              (/\ v.of = n
               /\ (l.step = "wake" /\ a["step"] >= 1) => v.age = 1
               /\ l.step \in {"offer", "release"} => v.age = 1)
      Planned(n, q, v) ==
        /\ q \in [of : 0..MaxHolds, by : Owner \cup {Free}, to : Owner \cup {Free},
                  calls : Lc!Plans]
        /\ q.of <= n
        /\ q.calls \notin {<<>>, <<"drop">>, <<"wake">>} => (v.of = q.of /\ v.age = 1)
        /\ q.calls # <<>> => (q.of > 0 \/ q.calls = <<"drop">>)
      Told(n, m, t, r) ==
        m \in 0..MaxHolds /\ m <= n /\ t \subseteq 1..n /\ (n \in t => m = n) /\ r = FALSE
      Own == Lc!OwnOffersAreLeftAloneStep
      Goal == Lc!OverdueInv' /\ Own
<1>1. /\ Row(s1, s2, s3, s4, s6, s8) /\ Age(s5) /\ Warned(s2, s7, s5, s13)
      /\ Planned(s2, s12, s13) /\ Told(s2, s9, s10, s11)
  <2>1. Row(s1, s2, s3, s4, s6, s8)
    BY DEF Lc!OverdueInv, Lc!OverdueTypeOK
  <2>2. Age(s5)
    BY DEF Lc!OverdueInv, Lc!OverdueTypeOK
  <2>3. Warned(s2, s7, s5, s13)
    BY DEF Lc!OverdueInv, Lc!ClaimNumbers
  <2>4. Planned(s2, s12, s13)
    BY DEF Lc!OverdueInv, Lc!ClaimNumbers
  <2>5. s11 = FALSE
    BY Zenon DEF Lc!OverdueInv, Lc!OverdueTypeOK, Lc!ToldOncePerClaim
  <2>6. Told(s2, s9, s10, s11)
    BY <2>5 DEF Lc!OverdueInv, Lc!OverdueTypeOK
  <2> QED
    BY <2>1, <2>2, <2>3, <2>4, <2>6
<1>2. ASSUME Row(s1, s2, s3, s4, s6, s8)', Age(s5)', Warned(s2, s7, s5, s13)',
             Planned(s2, s12, s13)', Told(s2, s9, s10, s11)'
      PROVE  Lc!OverdueInv'
  <2>1. Lc!OverdueTypeOK'
    BY <1>2 DEF Lc!OverdueTypeOK
  <2>2. Lc!ToldOncePerClaim'
    BY <1>2 DEF Lc!ToldOncePerClaim
  <2> QED
    BY <1>2, <2>1, <2>2 DEF Lc!OverdueInv, Lc!ClaimNumbers
(* A release follows the warning.                                          *)
<1>3. Lc!ReleasedClaimsWereWarnedStep
  <2>1. ASSUME s12.calls # <<>>, Head(s12.calls) = "release", s12.of = s2
        PROVE  s13.of = s2 /\ s13.age >= 1
    <3>1. s12.calls # <<"drop">> /\ s12.calls # <<"wake">>
      BY <2>1
    <3> QED
      BY <1>1, <2>1, <3>1
  <2> QED
    BY <2>1 DEF Lc!ReleasedClaimsWereWarnedStep
<1>4. ASSUME s12' = s12 \/ s12.calls # <<>> PROVE Own
  BY <1>4 DEF Lc!OwnOffersAreLeftAloneStep
<1>5. \A k \in Lc!Kinds : Lc!Counted(k) \in Nat
  BY DEF Lc!Counted
<1>6. ASSUME NEW S \in SUBSET Lc!Kinds, Lc!Runs(S)
      PROVE  Age(s5)' /\ s5'["step"] <= s5["step"]
  <2>1. DOMAIN s5 = Lc!Kinds /\ "step" \in Lc!Kinds /\ s5["step"] \in Nat
    BY <1>1 DEF Lc!Kinds
  <2>2. s5' = [k \in Lc!Kinds |-> IF k \in S \cup {"tool"} THEN 0 ELSE s5[k]]
    BY <1>6, <2>1 DEF Lc!Runs
  <2> QED
    BY <1>1, <1>5, <2>1, <2>2
(* A call of a lane: the row and the ages.                                 *)
<1>7. ASSUME Row(s1, s2, s3, s4, s6, s8)', Age(s5)', s5'["step"] <= s5["step"],
             s2' \in {s2, s2 + 1}, UNCHANGED <<s6, s7, s9, s10, s11, s12, s13>>
      PROVE  Goal
  <2>1. "step" \in Lc!Kinds
    BY DEF Lc!Kinds
  <2>2. Warned(s2, s7, s5, s13)'
    BY <1>1, <1>7, <2>1
  <2>3. Planned(s2, s12, s13)'
    <3> HIDE DEF Lc!Plans
    <3> QED
      BY <1>1, <1>7
  <2>4. Told(s2, s9, s10, s11)'
    BY <1>1, <1>7
  <2> HIDE DEF Row, Age, Warned, Planned, Told, Own
  <2> QED
    BY <1>2, <1>4, <1>7, <2>2, <2>3, <2>4
<1>8. "step" \in Lc!Kinds /\ s5["step"] \in Nat /\ DOMAIN s5 = Lc!Kinds
  BY <1>1 DEF Lc!Kinds
<1>9. ASSUME Lc!GiveBack \/ Lc!HolderWorks PROVE Goal
  <2>1. /\ s2' = s2 /\ UNCHANGED <<s6, s7, s8, s9, s10, s11, s12, s13>>
        /\ s1' \in {Free, s1} /\ s3' \in {Free, s3} /\ s4' \in {FALSE, s4}
        /\ Lc!Runs({})
    BY <1>9 DEF Lc!GiveBack, Lc!HolderWorks, Lc!Apart, Lc!Unheld
  <2>2. {} \in SUBSET Lc!Kinds
    BY DEF Lc!Kinds
  <2>3. Age(s5)' /\ s5'["step"] <= s5["step"]
    <3> HIDE DEF Age
    <3> QED
      BY <1>6, <2>1, <2>2
  <2>4. Row(s1, s2, s3, s4, s6, s8)'
    BY <1>1, <2>1
  <2> HIDE DEF Goal, Row, Age
  <2> QED
    BY <1>7, <2>1, <2>3, <2>4
<1>10. ASSUME NEW l \in Owner, Lc!Hand(l) PROVE Goal
  <2>1. /\ UNCHANGED <<s1, s2, s4, s6, s7, s8, s9, s10, s11, s12, s13>> /\ s3' = l
        /\ Lc!Runs({"offer"})
    BY <1>10 DEF Lc!Hand, Lc!Apart
  <2>2. {"offer"} \in SUBSET Lc!Kinds
    BY DEF Lc!Kinds
  <2>3. Age(s5)' /\ s5'["step"] <= s5["step"]
    <3> HIDE DEF Age
    <3> QED
      BY <1>6, <2>1, <2>2
  <2>4. Row(s1, s2, s3, s4, s6, s8)'
    BY <1>1, <2>1
  <2> HIDE DEF Goal, Row, Age
  <2> QED
    BY <1>7, <2>1, <2>3, <2>4
<1>11. ASSUME NEW b \in BOOLEAN, Lc!Report(b) PROVE Goal
  <2>1. /\ UNCHANGED <<s1, s2, s3, s6, s7, s8, s9, s10, s11, s12, s13>> /\ s4' = b
        /\ Lc!Runs({"progress"})
    BY <1>11 DEF Lc!Report, Lc!Apart
  <2>2. {"progress"} \in SUBSET Lc!Kinds
    BY DEF Lc!Kinds
  <2>3. Age(s5)' /\ s5'["step"] <= s5["step"]
    <3> HIDE DEF Age
    <3> QED
      BY <1>6, <2>1, <2>2
  <2>4. Row(s1, s2, s3, s4, s6, s8)'
    BY <1>1, <2>1
  <2> HIDE DEF Goal, Row, Age
  <2> QED
    BY <1>7, <2>1, <2>3, <2>4
<1>12. ASSUME NEW l \in Owner, Lc!HeldBy(l), Lc!Apart PROVE Goal
  <2>1. /\ s2 < MaxHolds /\ s1' = l /\ s2' = s2 + 1 /\ s3' = Free /\ s4' = FALSE
        /\ UNCHANGED <<s6, s7, s8, s9, s10, s11, s12, s13>>
        /\ s5' = [s5 EXCEPT !["claim"] = 0, !["progress"] = 0, !["tool"] = 0]
    BY <1>12 DEF Lc!HeldBy, Lc!Apart
  <2>2. Age(s5)' /\ s5'["step"] <= s5["step"]
    <3>1. \A k \in Lc!Kinds : s5'[k] = IF k \in {"claim", "progress", "tool"} THEN 0 ELSE s5[k]
      BY <1>8, <2>1
    <3>2. s5' \in [Lc!Kinds -> Nat]
      BY <1>1, <2>1
    <3>3. s5'["step"] = s5["step"]
      BY <1>8, <3>1
    <3>4. \A k \in Lc!Kinds : s5'[k] \in 0..Lc!Counted(k)
      <4>1. \A k \in Lc!Kinds : s5[k] \in 0..Lc!Counted(k) /\ 0 \in 0..Lc!Counted(k)
        BY <1>1, <1>5
      <4> QED
        BY <3>1, <4>1
    <3> QED
      BY <1>8, <3>2, <3>3, <3>4
  <2>3. Row(s1, s2, s3, s4, s6, s8)'
    <3>1. s4' \in BOOLEAN /\ s6' \in BOOLEAN
      BY <1>1, <2>1, Zenon
    <3>2. s2' \in 0..MaxHolds /\ s2' # 0 /\ s8' \in 0..MaxHolds
      BY <1>1, <2>1
    <3> QED
      BY <2>1, <3>1, <3>2
  <2> HIDE DEF Goal, Row, Age
  <2> QED
    BY <1>7, <2>1, <2>2, <2>3
<1>13. ASSUME NEW l \in Owner, Lc!Take(l) PROVE Goal
  <2> HIDE DEF Goal
  <2> QED
    BY <1>12, <1>13 DEF Lc!Take
<1>14. ASSUME NEW b \in BOOLEAN, Lc!Answer(b) PROVE Goal
  <2>1. CASE Lc!HeldBy(s3)
    <3>1. s3 \in Owner /\ Lc!Apart
      BY <1>1, <1>14 DEF Lc!Answer
    <3> HIDE DEF Goal
    <3> QED
      BY <1>12, <2>1, <3>1
  <2>2. CASE ~Lc!HeldBy(s3)
    <3>1. s3' = Free /\ UNCHANGED <<s1, s2, s4, s5, s6, s7, s8, s9, s10, s11, s12, s13>>
      BY <1>14, <2>2 DEF Lc!Answer, Lc!Apart
    <3>2. Row(s1, s2, s3, s4, s6, s8)' /\ Age(s5)' /\ s5'["step"] <= s5["step"]
      BY <1>1, <1>8, <3>1
    <3> HIDE DEF Goal, Row, Age
    <3> QED
      BY <1>7, <3>1, <3>2
  <2> QED
    BY <2>1, <2>2
<1>15. ASSUME Lc!Excuse PROVE Goal
  <2>1. s6' = ~s6 /\ UNCHANGED <<s1, s2, s3, s4, s5, s7, s8, s9, s10, s11, s12, s13>>
    BY <1>15 DEF Lc!Excuse
  <2>2. Row(s1, s2, s3, s4, s6, s8)'
    BY <1>1, <2>1
  <2>3. Age(s5)' /\ Warned(s2, s7, s5, s13)' /\ Told(s2, s9, s10, s11)'
    BY <1>1, <2>1
  <2>4. Planned(s2, s12, s13)'
    BY <1>1, <2>1
  <2> HIDE DEF Row, Age, Warned, Planned, Told, Own
  <2> QED
    BY <1>2, <1>4, <2>1, <2>2, <2>3, <2>4
<1>16. ASSUME Lc!WakeHolder PROVE Goal
  <2>1. /\ s8' = s7.of /\ s5' = [s5 EXCEPT !["wake"] = 0]
        /\ UNCHANGED <<s1, s2, s3, s4, s6, s7, s9, s10, s11, s12, s13>>
    BY <1>16 DEF Lc!WakeHolder
  <2>2. Age(s5)' /\ s5'["step"] <= s5["step"]
    <3>1. \A k \in Lc!Kinds : s5'[k] = IF k = "wake" THEN 0 ELSE s5[k]
      BY <1>8, <2>1
    <3>2. s5' \in [Lc!Kinds -> Nat]
      BY <1>1, <2>1
    <3>3. s5'["step"] = s5["step"]
      BY <1>8, <3>1
    <3>4. \A k \in Lc!Kinds : s5'[k] \in 0..Lc!Counted(k)
      <4>1. \A k \in Lc!Kinds : s5[k] \in 0..Lc!Counted(k) /\ 0 \in 0..Lc!Counted(k)
        BY <1>1, <1>5
      <4> QED
        BY <3>1, <4>1
    <3> QED
      BY <1>8, <3>2, <3>3, <3>4
  <2>3. Row(s1, s2, s3, s4, s6, s8)'
    BY <1>1, <2>1
  <2> HIDE DEF Goal, Row, Age
  <2> QED
    BY <1>7, <2>1, <2>2, <2>3
<1>17. ASSUME Lc!Tick PROVE Goal
  <2>1. PICK g \in 0..1 : g = (IF s13.of = s2 THEN 1 ELSE 0)
    OBVIOUS
  <2>2. PICK v : v = [s13 EXCEPT !.age = g]
    OBVIOUS
  <2>3. /\ s12.calls = <<>> /\ s13' = v
        /\ s5' = [k \in DOMAIN s5 |-> IF Lc!Counts(k) THEN Lc!Later(k) ELSE 0]
        /\ UNCHANGED <<s1, s2, s3, s4, s6, s7, s8, s9, s10, s11, s12>>
    BY <1>17, <2>1, <2>2, Zenon DEF Lc!Tick
  <2>4. v \in [of : 0..MaxHolds, age : 0..1] /\ v.of = s13.of
        /\ v.age = IF s13.of = s2 THEN 1 ELSE 0
    <3>1. v = [of |-> s13.of, age |-> g]
      BY <1>1, <2>2
    <3>2. s13.of \in 0..MaxHolds
      BY <1>1
    <3> QED
      BY <2>1, <3>1, <3>2
  <2>5. Age(s5)'
    <3>1. ASSUME NEW k \in Lc!Kinds PROVE s5'[k] \in 0..Lc!Counted(k)
      <4>1. s5[k] \in 0..Lc!Counted(k) /\ Lc!Counted(k) \in Nat
        BY <1>1, <1>5
      <4>2. Lc!Later(k) \in 0..Lc!Counted(k)
        BY <4>1 DEF Lc!Later
      <4> QED
        BY <1>8, <2>3, <4>1, <4>2
    <3>2. s5' \in [Lc!Kinds -> Nat]
      BY <1>5, <1>8, <2>3, <3>1
    <3> QED
      BY <3>1, <3>2
  <2>6. Warned(s2, s7, s5, s13)'
    BY <1>1, <2>3, <2>4
  <2>7. Planned(s2, s12, s13)'
    BY <1>1, <2>3
  <2>8. Row(s1, s2, s3, s4, s6, s8)' /\ Told(s2, s9, s10, s11)'
    BY <1>1, <2>3
  <2> HIDE DEF Row, Age, Warned, Planned, Told, Own
  <2> QED
    BY <1>2, <1>4, <2>3, <2>5, <2>6, <2>7, <2>8
<1>18. /\ Lc!NoPlan \in [of : 0..MaxHolds, by : Owner \cup {Free}, to : Owner \cup {Free},
                         calls : Lc!Plans]
       /\ Lc!NoPlan.of = 0 /\ Lc!NoPlan.calls = <<>>
  BY DEF Lc!NoPlan, Lc!Plans
(* What a poll decides.                                                    *)
<1>19. ASSUME NEW sole \in BOOLEAN, NEW waited \in BOOLEAN, NEW peer \in Owner \cup {Free},
              Lc!Poll(sole, peer, waited)
       PROVE  Goal
  <2>1. PICK calls : calls = IF s1 = Free \/ Lc!Stays(sole)
                             THEN IF s7 = Lc!NoLadder THEN <<>> ELSE <<"drop">>
                             ELSE Lc!Ladder(sole, peer)
    OBVIOUS
  <2>2. /\ s12.calls = <<>> /\ UNCHANGED <<s1, s2, s3, s4, s5, s6, s7, s8, s13>>
        /\ s12' = IF calls = <<>> THEN Lc!NoPlan
                  ELSE [of |-> s2, by |-> s1, to |-> peer, calls |-> calls]
        /\ s9' = Lc!Marker(sole, waited)
        /\ s10' = IF s9' = s2 /\ s9 # s2 THEN s10 \cup {s2} ELSE s10
        /\ s11' = (s11 \/ (s9' = s2 /\ s9 # s2 /\ s2 \in s10))
    BY <1>19, <2>1, Zenon DEF Lc!Poll
  <2>3. Told(s2, s9, s10, s11)'
    <3>1. /\ s2 = 0 => s9' = s9
          /\ (s2 # 0 /\ s9 = s2) => s9' = s2
          /\ s9' \in {s9, s2, 0}
      BY <2>2 DEF Lc!Marker
    <3>2. s2 \in s10 => s9 = s2
      BY <1>1
    <3>3. s11' = FALSE
      <4>1. ~(s9' = s2 /\ s9 # s2 /\ s2 \in s10)
        BY <3>2
      <4>2. s11 = FALSE
        BY <1>1
      <4> QED
        BY <2>2, <4>1, <4>2, Zenon
    <3> QED
      BY <1>1, <2>2, <3>1, <3>2, <3>3
  <2>4. calls \in {<<>>, <<"drop">>} \/ (calls = Lc!Ladder(sole, peer) /\ s1 # Free
                                          /\ ~Lc!Stays(sole))
    BY <2>1
  <2>5. ASSUME calls = Lc!Ladder(sole, peer)
        PROVE  /\ calls \in Lc!Plans
               /\ calls \notin {<<>>, <<"wake">>} =>
                     (s7.of = s2 /\ (s7.step = "offer" \/ (s7.step = "wake" /\ s5["step"] >= 1)))
    <3>1. Lc!Elapsed(sole) >= 1 => s5["step"] >= 1
      <4>1. Lc!Elapsed(sole) = s5["step"]
            \/ (Lc!Elapsed(sole) = s5["wake"] /\ s5["wake"] <= s5["step"])
        BY DEF Lc!Elapsed
      <4>2. s5["wake"] \in Nat
        BY <1>1 DEF Lc!Kinds
      <4> QED
        BY <1>8, <4>1, <4>2
    <3>2. CASE s7.of # s2
      BY <2>5, <3>2 DEF Lc!Ladder, Lc!Ours, Lc!Plans
    <3>3. CASE s7.of = s2 /\ s7.step = "wake" /\ Lc!Elapsed(sole) >= 1
      BY <2>5, <3>1, <3>3 DEF Lc!Ladder, Lc!Ours, Lc!Plans
    <3>4. CASE s7.of = s2 /\ s7.step = "offer"
      BY <2>5, <3>4 DEF Lc!Ladder, Lc!Ours, Lc!Plans
    <3>5. CASE s7.of = s2 /\ s7.step # "offer"
               /\ ~(s7.step = "wake" /\ Lc!Elapsed(sole) >= 1)
      BY <2>5, <3>5 DEF Lc!Ladder, Lc!Ours, Lc!Plans
    <3> QED
      BY <3>2, <3>3, <3>4, <3>5
  <2>6. s1 # Free => s2 > 0
    BY <1>1
  <2>7. Planned(s2, s12, s13)'
    <3>1. calls \in Lc!Plans /\ (calls # <<>> => (s2 > 0 \/ calls = <<"drop">>))
      <4>1. <<>> \in Lc!Plans /\ <<"drop">> \in Lc!Plans
        BY DEF Lc!Plans
      <4> HIDE DEF Lc!Plans
      <4> QED
        BY <2>4, <2>5, <2>6, <4>1
    <3>2. calls \notin {<<>>, <<"drop">>, <<"wake">>} => (s13.of = s2 /\ s13.age = 1)
      <4>1. ASSUME calls \notin {<<>>, <<"drop">>, <<"wake">>}
            PROVE  s13.of = s2 /\ s13.age = 1
        <5>1. s7.of = s2 /\ (s7.step = "offer" \/ (s7.step = "wake" /\ s5["step"] >= 1))
              /\ s2 > 0
          BY <2>4, <2>5, <2>6, <4>1
        <5> QED
          BY <1>1, <5>1
      <4> QED
        BY <4>1
    <3>3. CASE calls = <<>>
      BY <1>18, <1>1, <2>2, <3>3
    <3>4. CASE calls # <<>>
      <4>1. s12' = [of |-> s2, by |-> s1, to |-> peer, calls |-> calls]
        BY <2>2, <3>4
      <4>2. s12' \in [of : 0..MaxHolds, by : Owner \cup {Free}, to : Owner \cup {Free},
                      calls : Lc!Plans]
        <5> HIDE DEF Lc!Plans
        <5> QED
          BY <1>1, <3>1, <4>1
      <4> QED
        BY <1>1, <2>2, <3>1, <3>2, <4>1, <4>2
    <3> QED
      BY <3>3, <3>4
  <2>8. Own
    <3>1. ASSUME s12'.calls # <<>>, s3 # Free, s7.of # s2
          PROVE  \A i \in DOMAIN s12'.calls : s12'.calls[i] = "drop"
      <4>1. Lc!Stays(sole)
        BY <3>1 DEF Lc!Stays, Lc!Ours
      <4>2. calls \in {<<>>, <<"drop">>}
        BY <2>4, <4>1
      <4>3. s12'.calls = <<"drop">>
        BY <1>18, <2>2, <3>1, <4>2
      <4> QED
        BY <4>3
    <3> QED
      BY <3>1 DEF Lc!OwnOffersAreLeftAloneStep
  <2>9. Row(s1, s2, s3, s4, s6, s8)' /\ Age(s5)' /\ Warned(s2, s7, s5, s13)'
    BY <1>1, <2>2
  <2> HIDE DEF Row, Age, Warned, Planned, Told, Own
  <2> QED
    BY <1>2, <2>3, <2>7, <2>8, <2>9
(* A call of a poll.                                                       *)
<1>20. ASSUME Lc!Call
       PROVE  /\ s12.calls # <<>> /\ s12.calls \in Lc!Plans /\ Head(s12.calls) \in Lc!Steps
              /\ UNCHANGED <<s6, s8, s9, s10, s11>>
              /\ Told(s2, s9, s10, s11)
              /\ Own
  <2>1. s12.calls # <<>> /\ s12.calls \in Lc!Plans /\ UNCHANGED <<s6, s8, s9, s10, s11>>
    <3> HIDE DEF Lc!Plans
    <3> QED
      BY <1>1, <1>20 DEF Lc!Call
  <2>2. Head(s12.calls) \in Lc!Steps
    BY <2>1, PlannedCalls
  <2> HIDE DEF Own, Told
  <2> QED
    BY <1>1, <1>4, <2>1, <2>2
<1>21. ASSUME Lc!Next1, s12.calls # <<>>, s2' = s2, s13' = s13 PROVE Planned(s2, s12, s13)'
  <2>1. s12.calls \in Lc!Plans
    <3> HIDE DEF Lc!Plans
    <3> QED
      BY <1>1
  <2>2. CASE Len(s12.calls) = 1
    BY <1>1, <1>18, <1>21, <2>2 DEF Lc!Next1
  <2>3. CASE Len(s12.calls) # 1
    <3>1. Tail(s12.calls) \in Lc!Plans /\ Tail(s12.calls) # <<>>
          /\ s12.calls # <<"drop">> /\ s12.calls # <<"wake">>
      BY <1>21, <2>1, <2>3, PlannedCalls
    <3>2. PICK c \in Lc!Plans : c = Tail(s12.calls)
      BY <3>1
    <3>3. PICK q : q = [s12 EXCEPT !.calls = c]
      OBVIOUS
    <3>4. s12' = q
      BY <1>21, <2>3, <3>2, <3>3 DEF Lc!Next1
    <3>5. q = [of |-> s12.of, by |-> s12.by, to |-> s12.to, calls |-> c]
      <4> HIDE DEF Lc!Plans
      <4> QED
        BY <1>1, <3>3
    <3>6. q.of = s12.of /\ q.calls = c /\ s12.of > 0 /\ s13.of = s12.of /\ s13.age = 1
          /\ s12.of <= s2
      BY <1>1, <1>21, <3>1, <3>5
    <3>7. q \in [of : 0..MaxHolds, by : Owner \cup {Free}, to : Owner \cup {Free},
                 calls : Lc!Plans]
      <4> HIDE DEF Lc!Plans
      <4> QED
        BY <1>1, <3>5
    <3> HIDE DEF Lc!Plans
    <3> QED
      BY <1>21, <3>4, <3>6, <3>7
  <2> QED
    BY <2>2, <2>3
<1>22. ASSUME Lc!Refused, s2' = s2, s13' = s13 PROVE Planned(s2, s12, s13)'
  <2> HIDE DEF Lc!Plans
  <2> QED
    BY <1>1, <1>18, <1>22 DEF Lc!Refused
<1>23. ASSUME NEW step \in {"wake", "offer", "release"}, Lc!Reach(step), Lc!Call,
              Head(s12.calls) = (IF step = "wake" THEN "wake"
                                 ELSE IF step = "offer" THEN "toOffer" ELSE "toRelease")
       PROVE  Goal
  <2>1. /\ Lc!Next1 /\ s7' = [of |-> s12.of, step |-> step] /\ s5' = [s5 EXCEPT !["step"] = 0]
        /\ s13' = (IF step = "wake" THEN [of |-> s12.of, age |-> 0] ELSE s13)
        /\ UNCHANGED <<s1, s2, s3, s4>>
    BY <1>23 DEF Lc!Reach
  <2>2. Age(s5)' /\ s5'["step"] = 0
    <3>1. \A k \in Lc!Kinds : s5'[k] = IF k = "step" THEN 0 ELSE s5[k]
      BY <1>8, <2>1
    <3>2. s5' \in [Lc!Kinds -> Nat]
      BY <1>1, <2>1
    <3>3. \A k \in Lc!Kinds : s5[k] \in 0..Lc!Counted(k) /\ 0 \in 0..Lc!Counted(k)
      BY <1>1, <1>5
    <3> QED
      BY <1>8, <3>1, <3>2, <3>3
  <2>3. s12.of \in 0..MaxHolds /\ s12.of <= s2
    BY <1>1
  <2>4. (step # "wake") => (s13.of = s12.of /\ s13.age = 1)
    <3>1. (step # "wake") => (s12.calls # <<"drop">> /\ s12.calls # <<"wake">>)
      BY <1>20, <1>23, PlannedCalls
    <3> QED
      BY <1>1, <1>20, <1>23, <3>1
  <2>5. Warned(s2, s7, s5, s13)'
    <3>1. s7' \in [of : 0..MaxHolds, step : {"none", "wake", "offer", "release"}]
          /\ s7'.of = s12.of /\ s7'.step = step
      BY <2>1, <2>3
    <3>2. CASE step = "wake"
      <4>1. s13' \in [of : 0..MaxHolds, age : 0..1] /\ s13'.of = s12.of
        BY <2>1, <2>3, <3>2
      <4> QED
        BY <2>1, <2>2, <2>3, <3>1, <3>2, <4>1
    <3>3. CASE step # "wake"
      BY <1>1, <2>1, <2>3, <2>4, <3>1, <3>3
    <3> QED
      BY <3>2, <3>3
  <2>6. Planned(s2, s12, s13)'
    <3>1. CASE step = "wake"
      <4>1. Len(s12.calls) = 1
        BY <1>20, <1>23, <3>1, PlannedCalls
      <4>2. s12' = Lc!NoPlan
        BY <2>1, <4>1 DEF Lc!Next1
      <4> HIDE DEF Lc!Plans
      <4> QED
        BY <1>1, <1>18, <2>1, <4>2
    <3>2. CASE step # "wake"
      <4> HIDE DEF Planned
      <4> QED
        BY <1>20, <1>21, <1>23, <2>1, <3>2
    <3> QED
      BY <3>1, <3>2
  <2>7. Row(s1, s2, s3, s4, s6, s8)'
    BY <1>1, <1>20, <1>23, <2>1
  <2>8. Told(s2, s9, s10, s11)'
    BY <1>1, <1>20, <1>23, <2>1
  <2> HIDE DEF Row, Age, Warned, Planned, Told, Own
  <2> QED
    BY <1>2, <1>20, <1>23, <2>2, <2>5, <2>6, <2>7, <2>8
(* A call about the row.                                                   *)
<1>24. ASSUME Lc!Call, s1' \in {s1, Free}, s3' \in Owner \cup {Free}, s4' \in BOOLEAN,
              Age(s5)', s5'["step"] = s5["step"], s7' \in {s7, Lc!NoLadder},
              Lc!Next1 \/ Lc!Refused, UNCHANGED <<s2, s13>>
       PROVE  Goal
  <2>1. Planned(s2, s12, s13)'
    <3> HIDE DEF Planned
    <3> QED
      BY <1>20, <1>21, <1>22, <1>24
  <2>2. /\ Lc!NoLadder \in [of : 0..MaxHolds, step : {"none", "wake", "offer", "release"}]
        /\ Lc!NoLadder.of = 0
    BY DEF Lc!NoLadder
  <2>3. Warned(s2, s7, s5, s13)'
    BY <1>1, <1>24, <2>2
  <2>4. Row(s1, s2, s3, s4, s6, s8)'
    BY <1>1, <1>20, <1>24
  <2>5. Told(s2, s9, s10, s11)'
    BY <1>1, <1>20, <1>24
  <2> HIDE DEF Row, Age, Warned, Planned, Told, Own
  <2> QED
    BY <1>2, <1>20, <1>24, <2>1, <2>3, <2>4, <2>5
<1>25. Age(s5) /\ s1 \in {s1, Free} /\ s3 \in Owner \cup {Free} /\ s4 \in BOOLEAN
       /\ FALSE \in BOOLEAN /\ s7 \in {s7, Lc!NoLadder}
  BY <1>1
<1>26. ASSUME Lc!Call, Lc!Drop PROVE Goal
  <2>1. Lc!Next1 /\ s7' = Lc!NoLadder /\ UNCHANGED <<s1, s2, s3, s4, s5, s13>>
    BY <1>26 DEF Lc!Drop
  <2>2. Age(s5)'
    BY <1>1, <2>1
  <2> HIDE DEF Goal, Age
  <2> QED
    BY <1>24, <1>25, <1>26, <2>1, <2>2
<1>27. ASSUME Lc!Call, Lc!OfferPeer PROVE Goal
  <2>1. /\ UNCHANGED <<s1, s2, s4, s7, s13>>
        /\ \/ s3' = s12.to /\ s5' = [s5 EXCEPT !["offer"] = 0] /\ Lc!Next1
           \/ Lc!Refused /\ UNCHANGED <<s3, s5>>
    BY <1>27 DEF Lc!OfferPeer
  <2>2. s12.to \in Owner \cup {Free}
    <3> HIDE DEF Lc!Plans
    <3> QED
      BY <1>1
  <2>3. Age(s5)' /\ s5'["step"] = s5["step"]
    <3>1. CASE s5' = [s5 EXCEPT !["offer"] = 0]
      <4>1. \A k \in Lc!Kinds : s5'[k] = IF k = "offer" THEN 0 ELSE s5[k]
        BY <1>8, <3>1
      <4>2. s5' \in [Lc!Kinds -> Nat]
        BY <1>1, <3>1
      <4>3. \A k \in Lc!Kinds : s5[k] \in 0..Lc!Counted(k) /\ 0 \in 0..Lc!Counted(k)
        BY <1>1, <1>5
      <4> QED
        BY <1>8, <4>1, <4>2, <4>3
    <3>2. CASE s5' = s5
      BY <1>1, <3>2
    <3> QED
      BY <2>1, <3>1, <3>2
  <2>4. s3' \in Owner \cup {Free} /\ s1' \in {s1, Free} /\ s7' \in {s7, Lc!NoLadder}
    BY <1>25, <2>1, <2>2
  <2>5. s4' \in BOOLEAN
    BY <1>25, <2>1
  <2> HIDE DEF Goal, Age
  <2> QED
    BY <1>24, <1>27, <2>1, <2>3, <2>4, <2>5
<1>28. ASSUME Lc!Call, Lc!Cancel \/ Lc!Release PROVE Goal
  <2>1. /\ UNCHANGED <<s2, s5, s7, s13>> /\ s1' \in {s1, Free} /\ s3' \in {s3, Free}
        /\ Lc!Next1 \/ Lc!Refused
    BY <1>28 DEF Lc!Cancel, Lc!Release, Lc!Unheld
  <2>2. s4' = s4 \/ s4' = FALSE
    BY <1>28, Zenon DEF Lc!Cancel, Lc!Release, Lc!Unheld
  <2>3. Age(s5)'
    BY <1>1, <2>1
  <2>4. s4' \in BOOLEAN
    BY <1>25, <2>2, Zenon
  <2>5. s3' \in Owner \cup {Free} /\ s7' \in {s7, Lc!NoLadder}
    BY <1>25, <2>1
  <2> HIDE DEF Goal, Age
  <2> QED
    BY <1>24, <1>28, <2>1, <2>3, <2>4, <2>5
<1>29. ASSUME Lc!Call PROVE Goal
  <2>1. \/ Lc!Drop \/ Lc!OfferPeer \/ Lc!Cancel \/ Lc!Release
        \/ (Lc!Reach("wake") /\ Head(s12.calls) = "wake")
        \/ (Lc!Reach("offer") /\ Head(s12.calls) = "toOffer")
        \/ (Lc!Reach("release") /\ Head(s12.calls) = "toRelease")
    <3>1. \/ Head(s12.calls) = "drop" \/ Head(s12.calls) = "wake" \/ Head(s12.calls) = "toOffer"
          \/ Head(s12.calls) = "toRelease" \/ Head(s12.calls) = "offer"
          \/ Head(s12.calls) = "cancel" \/ Head(s12.calls) = "release"
      BY <1>20, <1>29 DEF Lc!Steps
    <3> QED
      BY <1>29, <3>1 DEF Lc!Call
  <2> HIDE DEF Goal
  <2> QED
    BY <1>23, <1>26, <1>27, <1>28, <1>29, <2>1
<1>30. ASSUME UNCHANGED Lc!overdueVars PROVE Goal
  <2>1. UNCHANGED <<s1, s2, s3, s4, s5, s6, s7, s8, s9, s10, s11, s12, s13>>
    BY <1>30 DEF Lc!overdueVars
  <2>2. Row(s1, s2, s3, s4, s6, s8)' /\ Age(s5)' /\ s5'["step"] <= s5["step"]
    BY <1>1, <1>8, <2>1
  <2> HIDE DEF Goal, Row, Age
  <2> QED
    BY <1>7, <2>1, <2>2
<1> HIDE DEF Goal
<1>31. Goal
  BY <1>9, <1>10, <1>11, <1>13, <1>14, <1>15, <1>16, <1>17, <1>19, <1>29, <1>30
     DEF Lc!OverdueNext, Lc!OverduePoll
<1> QED
  BY <1>3, <1>31 DEF Goal

(* The sweep over the claims of dead lanes.                                *)

(* No claim is marked at first.                                            *)
LEMMA OrphansInitially == Lc!OrphansInit => Lc!OrphansInv
<1> SUFFICES ASSUME Lc!OrphansInit PROVE Lc!OrphansInv
  OBVIOUS
<1> USE SupervisionAssumption
<1>1. /\ s1 = {} /\ s2 = [l \in OrphanLanes |-> 0] /\ s4 = [i \in Claims |-> Lc!NoMark]
      /\ s3 \in [Claims -> {[owner |-> l, claim |-> 1] : l \in OrphanLanes}]
      /\ s5 = Lc!Quiet /\ s6 = {} /\ s7 = {} /\ s9 = 0
  BY DEF Lc!OrphansInit
<1>2. /\ s5 = [at |-> "idle", dead |-> {}, back |-> {}, orphaned |-> {}, returned |-> {}]
      /\ s5.at = "idle" /\ s5.dead = {} /\ s5.back = {} /\ s5.orphaned = {} /\ s5.returned = {}
  BY <1>1 DEF Lc!Quiet
<1>3. s3 \in [Claims -> [owner : Lc!Holders, claim : Nat]]
  BY <1>1 DEF Lc!Holders
<1>4. /\ Lc!NoMark \in [lane : OrphanLanes \cup {0}, claim : Nat, since : 0..MaxDeaths,
                        quiesced : BOOLEAN]
      /\ ~Lc!NoMark.quiesced
  BY DEF Lc!NoMark
<1>5. /\ s4 \in [Claims -> [lane : OrphanLanes \cup {0}, claim : Nat, since : 0..MaxDeaths,
                            quiesced : BOOLEAN]]
      /\ \A i \in Claims : s4[i] = Lc!NoMark /\ ~s4[i].quiesced
  BY <1>1, <1>4
<1>6. Lc!OrphansTypeOK
  BY <1>1, <1>2, <1>3, <1>5 DEF Lc!OrphansTypeOK
<1>7. Lc!MarkedClaimsWereAnnounced
  BY <1>5 DEF Lc!MarkedClaimsWereAnnounced
<1> QED
  BY <1>1, <1>2, <1>3, <1>5, <1>6, <1>7 DEF Lc!OrphansInv

(* Lanes die and return, claims move, and the sweep marks and tells.       *)
LEMMA OrphansStep ==
  Lc!OrphansInv /\ [Lc!OrphansNext]_(Lc!orVars)
    => Lc!OrphansInv' /\ Lc!QuiescedMarksStayStep
<1> SUFFICES ASSUME Lc!OrphansInv, [Lc!OrphansNext]_(Lc!orVars)
             PROVE  Lc!OrphansInv' /\ Lc!QuiescedMarksStayStep
  OBVIOUS
<1> USE SupervisionAssumption
<1> DEFINE
      Marks == [lane : OrphanLanes \cup {0}, claim : Nat, since : 0..MaxDeaths,
                quiesced : BOOLEAN]
      Typed(d, e, i, m, f) ==
        /\ d \subseteq OrphanLanes /\ e \in [OrphanLanes -> 0..MaxDeaths]
        /\ i \in [Claims -> [owner : Lc!Holders, claim : Nat]] /\ m \in [Claims -> Marks]
        /\ f \in Nat
      Formed(s) ==
        /\ s = [at |-> s.at, dead |-> s.dead, back |-> s.back, orphaned |-> s.orphaned,
                returned |-> s.returned]
        /\ s.at \in {"idle", "seen", "tell"}
        /\ s.dead \subseteq OrphanLanes /\ s.back \subseteq OrphanLanes
        /\ (s.at # "tell") => (s.orphaned = {} /\ s.returned = {})
        /\ (s.at = "idle") => (s = Lc!Quiet)
        /\ \A n \in s.orphaned : /\ n.lane \in OrphanLanes /\ n.since \in 1..MaxDeaths
                                 /\ n.issues \subseteq Claims
      Died(d, e, s) == \A l \in d \cup s.dead : e[l] >= 1
      Current(m, i) == \A c \in Claims : m[c].quiesced =>
                          (m[c].lane = i[c].owner /\ m[c].claim = i[c].claim)
      Keyed(k, h) == \A l \in OrphanLanes : \A S \in SUBSET Claims :
                        <<"orphan", l, S>> \in k =>
                           \A c \in S : \E e \in 1..MaxDeaths : <<l, e, c>> \in h
      Hears(x, c, h) == \E e \in 1..MaxDeaths : <<x.lane, e, c>> \in h
      Tells(x, c, s) == \E n \in s.orphaned : n.lane = x.lane /\ c \in n.issues
      Known(m, s, h) == \A c \in Claims : (m[c] # Lc!NoMark /\ ~m[c].quiesced) =>
                           (Hears(m[c], c, h) \/ Tells(m[c], c, s))
      Stay == Lc!QuiescedMarksStayStep
      Goal == Lc!OrphansInv' /\ Stay
<1>1. /\ Typed(s1, s2, s3, s4, s9) /\ Formed(s5) /\ Died(s1, s2, s5) /\ Current(s4, s3)
      /\ s9 = 0 => (Keyed(s6, s7) /\ Known(s4, s5, s7))
  <2>1. Typed(s1, s2, s3, s4, s9)
    BY DEF Lc!OrphansInv, Lc!OrphansTypeOK
  <2>2. Formed(s5)
    BY DEF Lc!OrphansInv, Lc!OrphansTypeOK
  <2>3. Died(s1, s2, s5) /\ Current(s4, s3)
    BY DEF Lc!OrphansInv
  <2>4. s9 = 0 => (Keyed(s6, s7) /\ Known(s4, s5, s7))
    BY DEF Lc!OrphansInv
  <2> QED
    BY <2>1, <2>2, <2>3, <2>4
<1>2. ASSUME Typed(s1, s2, s3, s4, s9)', Formed(s5)', Died(s1, s2, s5)', Current(s4, s3)',
             (s9 = 0 => (Keyed(s6, s7) /\ Known(s4, s5, s7)))'
      PROVE  Lc!OrphansInv'
  <2>1. Lc!OrphansTypeOK'
    BY <1>2 DEF Lc!OrphansTypeOK
  <2>2. Lc!MarkedClaimsWereAnnounced'
    <3>1. ASSUME s5' = Lc!Quiet, s9' = 0, NEW c \in Claims, s4'[c] # Lc!NoMark,
                 ~s4'[c].quiesced
          PROVE  Hears(s4'[c], c, s7')
      <4>1. s5'.orphaned = {}
        BY <3>1 DEF Lc!Quiet
      <4> QED
        BY <1>2, <3>1, <4>1
    <3> QED
      BY <3>1 DEF Lc!MarkedClaimsWereAnnounced
  <2>3. s9' = 0 =>
          /\ \A l \in OrphanLanes : \A S \in SUBSET Claims : <<"orphan", l, S>> \in s6' =>
                \A i \in S : \E e \in 1..MaxDeaths : <<l, e, i>> \in s7'
          /\ \A i \in Claims : s4'[i] # Lc!NoMark /\ ~s4'[i].quiesced =>
                \/ \E e \in 1..MaxDeaths : <<s4'[i].lane, e, i>> \in s7'
                \/ \E n \in s5'.orphaned : n.lane = s4'[i].lane /\ i \in n.issues
    BY <1>2
  <2>4. Typed(s1, s2, s3, s4, s9)' /\ Formed(s5)' /\ Died(s1, s2, s5)' /\ Current(s4, s3)'
    BY <1>2
  <2> QED
    BY <2>1, <2>2, <2>3, <2>4 DEF Lc!OrphansInv
(* What marks nothing leaves the marks of a recovery.                      *)
<1>3. ASSUME s4' = s4 PROVE Stay
  BY <1>3 DEF Lc!QuiescedMarksStayStep
<1>4. ASSUME NEW l \in OrphanLanes, Lc!Die(l) \/ Lc!Resume(l) PROVE Goal
  <2>1. /\ UNCHANGED <<s3, s4, s5, s6, s7, s9>>
        /\ \/ /\ s2[l] < MaxDeaths /\ s1' = s1 \cup {l} /\ s2' = [s2 EXCEPT ![l] = s2[l] + 1]
           \/ s1' = s1 \ {l} /\ s2' = s2
    BY <1>4 DEF Lc!Die, Lc!Resume
  <2>2. /\ s1' \subseteq s1 \cup {l} /\ s2' \in [OrphanLanes -> 0..MaxDeaths]
        /\ \A m \in OrphanLanes : s2'[m] >= s2[m] /\ (m \in s1' => m \in s1 \/ s2'[m] >= 1)
    BY <1>1, <2>1
  <2>3. Typed(s1, s2, s3, s4, s9)'
    BY <1>1, <2>1, <2>2
  <2>4. Died(s1, s2, s5)'
    <3>1. \A m \in OrphanLanes : s2'[m] \in Int /\ s2[m] \in Int
      BY <1>1, <2>2
    <3> QED
      BY <1>1, <2>1, <2>2, <3>1
  <2>5. Formed(s5)' /\ Current(s4, s3)'
    BY <1>1, <2>1
  <2>6. (s9 = 0 => (Keyed(s6, s7) /\ Known(s4, s5, s7)))'
    BY <1>1, <2>1
  <2> HIDE DEF Typed, Formed, Died, Current, Keyed, Known, Stay
  <2> QED
    BY <1>2, <1>3, <2>1, <2>3, <2>4, <2>5, <2>6
<1>5. /\ Lc!NoMark \in Marks /\ ~Lc!NoMark.quiesced
  BY DEF Lc!NoMark
<1>6. ASSUME NEW i \in Claims, NEW l \in Lc!Holders, Lc!Move(i, l) PROVE Goal
  <2>1. PICK o : o = [owner |-> l, claim |-> s3[i].claim + 1]
    OBVIOUS
  <2>2. /\ s3' = [s3 EXCEPT ![i] = o] /\ s4' = [s4 EXCEPT ![i] = Lc!NoMark]
        /\ UNCHANGED <<s1, s2, s5, s6, s7, s9>>
    BY <1>6, <2>1 DEF Lc!Move
  <2>3. o \in [owner : Lc!Holders, claim : Nat] /\ o.claim = s3[i].claim + 1
        /\ s3[i].claim \in Nat
    BY <1>1, <2>1
  <2>4. /\ s3' \in [Claims -> [owner : Lc!Holders, claim : Nat]] /\ s3'[i] = o
        /\ \A c \in Claims \ {i} : s3'[c] = s3[c]
    BY <1>1, <2>2, <2>3
  <2>5. /\ s4' \in [Claims -> Marks] /\ s4'[i] = Lc!NoMark
        /\ \A c \in Claims \ {i} : s4'[c] = s4[c]
    BY <1>1, <1>5, <2>2
  <2>6. Typed(s1, s2, s3, s4, s9)'
    BY <1>1, <2>2, <2>4, <2>5
  <2>7. Current(s4, s3)'
    BY <1>1, <1>5, <2>4, <2>5
  <2>8. Formed(s5)' /\ Died(s1, s2, s5)'
    BY <1>1, <2>2
  <2>9. (s9 = 0 => (Keyed(s6, s7) /\ Known(s4, s5, s7)))'
    BY <1>1, <2>2, <2>5
  <2>10. Stay
    <3>1. s3'[i] # s3[i]
      BY <2>3, <2>4
    <3> QED
      BY <2>5, <3>1 DEF Lc!QuiescedMarksStayStep
  <2> HIDE DEF Typed, Formed, Died, Current, Keyed, Known, Stay
  <2> QED
    BY <1>2, <2>6, <2>7, <2>8, <2>9, <2>10
<1>7. ASSUME NEW i \in Claims, Lc!Quiesce(i) PROVE Goal
  <2>1. PICK m : m = [lane |-> s3[i].owner, claim |-> s3[i].claim, since |-> 0,
                      quiesced |-> TRUE]
    OBVIOUS
  <2>2. /\ s3[i].owner \in OrphanLanes /\ s4' = [s4 EXCEPT ![i] = m]
        /\ UNCHANGED <<s1, s2, s3, s5, s6, s7, s9>>
    BY <1>7, <2>1 DEF Lc!Quiesce
  <2>3. m \in Marks /\ m.quiesced /\ m.lane = s3[i].owner /\ m.claim = s3[i].claim
    <3>1. s3[i].claim \in Nat
      BY <1>1
    <3> QED
      BY <2>1, <2>2, <3>1
  <2>4. /\ s4' \in [Claims -> Marks] /\ s4'[i] = m
        /\ \A c \in Claims \ {i} : s4'[c] = s4[c]
    BY <1>1, <2>2, <2>3
  <2>5. Typed(s1, s2, s3, s4, s9)'
    BY <1>1, <2>2, <2>4
  <2>6. Current(s4, s3)'
    BY <1>1, <2>2, <2>3, <2>4
  <2>7. Formed(s5)' /\ Died(s1, s2, s5)'
    BY <1>1, <2>2
  <2>8. (s9 = 0 => (Keyed(s6, s7) /\ Known(s4, s5, s7)))'
    BY <1>1, <2>2, <2>3, <2>4
  <2>9. Stay
    BY <2>3, <2>4 DEF Lc!QuiescedMarksStayStep
  <2> HIDE DEF Typed, Formed, Died, Current, Keyed, Known, Stay
  <2> QED
    BY <1>2, <2>5, <2>6, <2>7, <2>8, <2>9
(* The sweep: the lanes and the claims stay.                               *)
<1>8. ASSUME NEW d \in SUBSET OrphanLanes, NEW b \in SUBSET OrphanLanes, NEW at \in {"seen", "tell"},
             NEW o, NEW r, s5' = [at |-> at, dead |-> d, back |-> b, orphaned |-> o, returned |-> r],
             at = "seen" => (o = {} /\ r = {}),
             \A n \in o : n.lane \in OrphanLanes /\ n.since \in 1..MaxDeaths /\ n.issues \subseteq Claims,
             \A l \in d : s2[l] >= 1, UNCHANGED <<s1, s2>>
      PROVE  Formed(s5)' /\ Died(s1, s2, s5)'
  BY <1>1, <1>8
<1>9. ASSUME Lc!Look PROVE Goal
  <2>1. PICK s : s = [Lc!Quiet EXCEPT !.at = "seen", !.dead = s1, !.back = OrphanLanes \ s1]
    OBVIOUS
  <2>2. s5 = Lc!Quiet /\ s5' = s /\ UNCHANGED <<s1, s2, s3, s4, s6, s7, s9>>
    BY <1>9, <2>1 DEF Lc!Look
  <2>3. s = [at |-> "seen", dead |-> s1, back |-> OrphanLanes \ s1, orphaned |-> {},
             returned |-> {}]
    BY <2>1 DEF Lc!Quiet
  <2>4. Formed(s5)' /\ Died(s1, s2, s5)'
    <3>1. s1 \in SUBSET OrphanLanes /\ \A l \in s1 : s2[l] >= 1
      BY <1>1
    <3> HIDE DEF Formed, Died
    <3> QED
      BY <1>8, <2>2, <2>3, <3>1
  <2>5. Typed(s1, s2, s3, s4, s9)' /\ Current(s4, s3)'
    BY <1>1, <2>2
  <2>6. s5.orphaned = {} /\ s5'.orphaned = {}
    BY <2>2, <2>3 DEF Lc!Quiet
  <2>7. (s9 = 0 => (Keyed(s6, s7) /\ Known(s4, s5, s7)))'
    BY <1>1, <2>2, <2>6
  <2> HIDE DEF Typed, Formed, Died, Current, Keyed, Known, Stay
  <2> QED
    BY <1>2, <1>3, <2>2, <2>4, <2>5, <2>7
<1>10. ASSUME Lc!MarkAll PROVE Goal
  <2> DEFINE fresh == UNION {Lc!Fresh(l) : l \in s5.dead}
             gone == UNION {Lc!Recovered(l) : l \in s5.back}
             o == {[lane |-> l, issues |-> Lc!Named(l), since |-> s2[l]] :
                      l \in {d \in s5.dead : Lc!Fresh(d) # {}}}
             r == {[lane |-> l, issues |-> Lc!Recovered(l), since |-> 0] :
                      l \in {b \in s5.back : Lc!Recovered(b) # {}}}
  <2>1. /\ s5.at = "seen" /\ UNCHANGED <<s1, s2, s3, s6, s7, s8, s9>>
        /\ s4' = [i \in Claims |-> IF i \in fresh THEN Lc!Mark(i)
                                   ELSE IF i \in gone THEN Lc!NoMark ELSE s4[i]]
        /\ s5' = [s5 EXCEPT !.at = "tell", !.orphaned = o, !.returned = r]
    BY <1>10, Zenon DEF Lc!MarkAll
  <2>2. s5.orphaned = {} /\ s5.dead \in SUBSET OrphanLanes /\ s5.back \in SUBSET OrphanLanes
        /\ \A l \in s5.dead : s2[l] >= 1
    BY <1>1, <2>1
  <2>3. \A n \in o : n.lane \in OrphanLanes /\ n.since \in 1..MaxDeaths
                     /\ n.issues \subseteq Claims
    <3>1. ASSUME NEW l \in s5.dead
          PROVE  /\ l \in OrphanLanes /\ s2[l] \in 1..MaxDeaths /\ Lc!Named(l) \subseteq Claims
      BY <1>1, <2>2 DEF Lc!Named
    <3> QED
      BY <3>1
  <2>4. \A i \in Claims : i \in fresh => s3[i].owner \in s5.dead
    BY DEF Lc!Fresh
  <2>5. \A i \in Claims : i \in fresh =>
          /\ \E n \in o : n.lane = s3[i].owner /\ i \in n.issues
    <3>1. ASSUME NEW i \in Claims, NEW l \in s5.dead, i \in Lc!Fresh(l)
          PROVE  \E n \in o : n.lane = s3[i].owner /\ i \in n.issues
      <4>1. s3[i].owner = l /\ i \in Lc!Named(l) /\ Lc!Fresh(l) # {}
        BY <3>1 DEF Lc!Fresh, Lc!Named
      <4>2. PICK n : n = [lane |-> l, issues |-> Lc!Named(l), since |-> s2[l]]
        OBVIOUS
      <4>3. n \in o
        BY <4>1, <4>2
      <4> QED
        BY <4>1, <4>2, <4>3
    <3> QED
      BY <3>1
  <2>6. ASSUME NEW i \in Claims, s4[i].quiesced PROVE i \notin fresh /\ i \notin gone
    <3>1. Lc!Quiesced(i, s3[i].owner)
      BY <1>1, <2>6 DEF Lc!Quiesced
    <3> QED
      BY <3>1 DEF Lc!Fresh, Lc!Recovered
  <2> HIDE DEF fresh, gone, o, r
  <2>7. s5' = [at |-> "tell", dead |-> s5.dead, back |-> s5.back, orphaned |-> o,
               returned |-> r]
    <3>1. PICK t : t = [s5 EXCEPT !.at = "tell", !.orphaned = o, !.returned = r]
      OBVIOUS
    <3>2. Formed(s5)
      BY <1>1
    <3> QED
      BY <2>1, <3>1, <3>2
  <2>8. Formed(s5)' /\ Died(s1, s2, s5)'
    <3> HIDE DEF Formed, Died
    <3> QED
      BY <1>8, <2>1, <2>2, <2>3, <2>7
  <2>9. ASSUME NEW i \in Claims
        PROVE  /\ s4'[i] \in Marks
               /\ s4'[i].quiesced => s4'[i] = s4[i]
               /\ s4[i].quiesced => s4'[i] = s4[i]
               /\ s4'[i] = s4[i] \/ s4'[i] = Lc!NoMark
                    \/ (i \in fresh /\ s4'[i].lane = s3[i].owner)
    <3>1. PICK m : m = Lc!Mark(i)
      OBVIOUS
    <3>2. i \in fresh => (m \in Marks /\ ~m.quiesced /\ m.lane = s3[i].owner)
      <4>1. i \in fresh => s3[i].owner \in OrphanLanes
        BY <2>2, <2>4
      <4>2. m = [lane |-> s3[i].owner, claim |-> s3[i].claim, since |-> s2[s3[i].owner],
                 quiesced |-> FALSE]
        BY <3>1 DEF Lc!Mark
      <4>3. s3[i].claim \in Nat /\ (i \in fresh => s2[s3[i].owner] \in 0..MaxDeaths)
        BY <1>1, <4>1
      <4> QED
        BY <4>1, <4>2, <4>3
    <3>3. s4'[i] = IF i \in fresh THEN m ELSE IF i \in gone THEN Lc!NoMark ELSE s4[i]
      BY <2>1, <3>1
    <3>4. s4[i] \in Marks
      BY <1>1
    <3> HIDE DEF Marks
    <3> QED
      BY <1>5, <2>6, <3>2, <3>3, <3>4
  <2>10. s4' \in [Claims -> Marks]
    <3> HIDE DEF Marks
    <3> QED
      BY <2>1, <2>9
  <2>11. Typed(s1, s2, s3, s4, s9)'
    BY <1>1, <2>1, <2>10
  <2>12. Current(s4, s3)'
    BY <1>1, <2>1, <2>9
  <2>13. (s9 = 0 => (Keyed(s6, s7) /\ Known(s4, s5, s7)))'
    <3>1. ASSUME s9 = 0, NEW i \in Claims, s4'[i] # Lc!NoMark, ~s4'[i].quiesced
          PROVE  Hears(s4'[i], i, s7) \/ Tells(s4'[i], i, s5')
      <4>1. CASE s4'[i] = s4[i]
        <5>1. ~Tells(s4[i], i, s5)
          BY <2>2
        <5> HIDE DEF Hears, Tells
        <5> QED
          BY <1>1, <3>1, <4>1, <5>1
      <4>2. CASE i \in fresh /\ s4'[i].lane = s3[i].owner
        BY <2>5, <2>7, <4>2
      <4> QED
        BY <2>9, <3>1, <4>1, <4>2
    <3> HIDE DEF Hears, Tells, Keyed
    <3> QED
      BY <1>1, <2>1, <3>1
  <2>14. Stay
    BY <2>9 DEF Lc!QuiescedMarksStayStep
  <2> HIDE DEF Typed, Formed, Died, Current, Keyed, Known, Stay
  <2> QED
    BY <1>2, <2>8, <2>11, <2>12, <2>13, <2>14
(* A notice is told.                                                       *)
<1>11. ASSUME NEW q, NEW r, s5.at = "tell", q \subseteq s5.orphaned,
              s5' = [at |-> "tell", dead |-> s5.dead, back |-> s5.back, orphaned |-> q,
                     returned |-> r],
              (s9 = 0 => (Keyed(s6, s7) /\ Known(s4, s5, s7)))',
              UNCHANGED <<s1, s2, s3, s4, s9>>
       PROVE  Goal
  <2>1. Formed(s5)' /\ Died(s1, s2, s5)'
    <3>1. /\ s5.dead \in SUBSET OrphanLanes /\ s5.back \in SUBSET OrphanLanes
          /\ \A l \in s5.dead : s2[l] >= 1
          /\ \A n \in q : n.lane \in OrphanLanes /\ n.since \in 1..MaxDeaths
                          /\ n.issues \subseteq Claims
      BY <1>1, <1>11
    <3> HIDE DEF Formed, Died
    <3> QED
      BY <1>8, <1>11, <3>1
  <2>2. Typed(s1, s2, s3, s4, s9)' /\ Current(s4, s3)'
    BY <1>1, <1>11
  <2> HIDE DEF Typed, Formed, Died, Current, Keyed, Known, Stay
  <2> QED
    BY <1>2, <1>3, <1>11, <2>1, <2>2
<1>12. ASSUME NEW n \in s5.orphaned, Lc!Announce(n) PROVE Goal
  <2>1. PICK q : q = s5.orphaned \ {n}
    OBVIOUS
  <2>2. PICK s : s = [s5 EXCEPT !.orphaned = q]
    OBVIOUS
  <2>3. /\ s5.at = "tell" /\ s5' = s /\ s6' = s6 \cup {<<"orphan", n.lane, n.issues>>}
        /\ s7' = IF <<"orphan", n.lane, n.issues>> \in s6 THEN s7
                 ELSE s7 \cup {<<n.lane, n.since, i>> : i \in n.issues}
        /\ UNCHANGED <<s1, s2, s3, s4, s9>>
    BY <1>12, <2>1, <2>2, Zenon DEF Lc!Announce, Lc!Key
  <2>4. s = [at |-> "tell", dead |-> s5.dead, back |-> s5.back, orphaned |-> q,
             returned |-> s5.returned]
    <3>1. Formed(s5)
      BY <1>1
    <3> QED
      BY <2>2, <2>3, <3>1
  <2>5. n.lane \in OrphanLanes /\ n.since \in 1..MaxDeaths /\ n.issues \in SUBSET Claims
    BY <1>1, <1>12
  <2>6. s7 \subseteq s7'
    BY <2>3
  <2>7. s9 = 0 => \A c \in n.issues : \E e \in 1..MaxDeaths : <<n.lane, e, c>> \in s7'
    <3>1. CASE <<"orphan", n.lane, n.issues>> \in s6
      BY <1>1, <2>3, <2>5, <3>1
    <3>2. CASE <<"orphan", n.lane, n.issues>> \notin s6
      BY <2>3, <2>5, <3>2
    <3> QED
      BY <3>1, <3>2
  <2>8. (s9 = 0 => (Keyed(s6, s7) /\ Known(s4, s5, s7)))'
    <3>1. ASSUME s9 = 0 PROVE Keyed(s6', s7')
      <4>1. ASSUME NEW l \in OrphanLanes, NEW S \in SUBSET Claims, <<"orphan", l, S>> \in s6',
                   NEW c \in S
            PROVE  \E e \in 1..MaxDeaths : <<l, e, c>> \in s7'
        <5>1. CASE <<"orphan", l, S>> \in s6
          BY <1>1, <2>6, <3>1, <4>1, <5>1
        <5>2. CASE <<"orphan", l, S>> \notin s6
          <6>1. l = n.lane /\ S = n.issues
            BY <2>3, <4>1, <5>2
          <6> QED
            BY <2>7, <3>1, <6>1
        <5> QED
          BY <5>1, <5>2
      <4> QED
        BY <4>1
    <3>2. ASSUME s9 = 0, NEW c \in Claims, s4[c] # Lc!NoMark, ~s4[c].quiesced
          PROVE  Hears(s4[c], c, s7') \/ Tells(s4[c], c, s5')
      <4>1. CASE Hears(s4[c], c, s7)
        BY <2>6, <4>1
      <4>2. CASE \E m \in s5.orphaned : m.lane = s4[c].lane /\ c \in m.issues
        <5>1. PICK m \in s5.orphaned : m.lane = s4[c].lane /\ c \in m.issues
          BY <4>2
        <5>2. CASE m = n
          BY <2>7, <3>2, <5>1, <5>2
        <5>3. CASE m # n
          BY <2>1, <2>3, <2>4, <5>1, <5>3
        <5> QED
          BY <5>2, <5>3
      <4> QED
        BY <1>1, <3>2, <4>1, <4>2
    <3> HIDE DEF Hears, Tells, Keyed
    <3> QED
      BY <2>3, <3>1, <3>2
  <2>9. q \subseteq s5.orphaned
    BY <2>1
  <2> HIDE DEF Goal, Keyed, Known
  <2> QED
    BY <1>11, <2>3, <2>4, <2>8, <2>9
<1>13. ASSUME NEW n \in s5.returned, Lc!AnnounceReturn(n) PROVE Goal
  <2>1. PICK r : r = s5.returned \ {n}
    OBVIOUS
  <2>2. PICK s : s = [s5 EXCEPT !.returned = r]
    OBVIOUS
  <2>3. /\ s5.at = "tell" /\ s5' = s /\ s6' = s6 \cup {<<"return", n.lane, n.issues>>}
        /\ UNCHANGED <<s1, s2, s3, s4, s7, s9>>
    BY <1>13, <2>1, <2>2, Zenon DEF Lc!AnnounceReturn, Lc!Key
  <2>4. s = [at |-> "tell", dead |-> s5.dead, back |-> s5.back, orphaned |-> s5.orphaned,
             returned |-> r]
    <3>1. Formed(s5)
      BY <1>1
    <3> QED
      BY <2>2, <2>3, <3>1
  <2>5. s5'.orphaned = s5.orphaned
    BY <2>3, <2>4
  <2>6. \A l, S : <<"orphan", l, S>> \in s6' => <<"orphan", l, S>> \in s6
    BY <2>3
  <2>7. (s9 = 0 => (Keyed(s6, s7) /\ Known(s4, s5, s7)))'
    BY <1>1, <2>3, <2>5, <2>6
  <2> HIDE DEF Goal, Keyed, Known
  <2> QED
    BY <1>11, <2>3, <2>4, <2>7
<1>14. ASSUME s5' = Lc!Quiet, s9' \in Nat, s9' = 0 => (s9 = 0 /\ s5.orphaned = {}),
              UNCHANGED <<s1, s2, s3, s4, s6, s7>>
       PROVE  Goal
  <2>1. Formed(s5)' /\ s5'.dead = {} /\ s5'.orphaned = {}
    BY <1>14 DEF Lc!Quiet
  <2>2. Died(s1, s2, s5)'
    BY <1>1, <1>14, <2>1
  <2>3. Typed(s1, s2, s3, s4, s9)' /\ Current(s4, s3)'
    BY <1>1, <1>14
  <2>4. (s9 = 0 => (Keyed(s6, s7) /\ Known(s4, s5, s7)))'
    BY <1>1, <1>14, <2>1
  <2> HIDE DEF Typed, Formed, Died, Current, Keyed, Known, Stay
  <2> QED
    BY <1>2, <1>3, <1>14, <2>1, <2>2, <2>3, <2>4
<1>15. ASSUME Lc!Swept \/ Lc!Unheard PROVE Goal
  <2>1. /\ s5' = Lc!Quiet /\ UNCHANGED <<s1, s2, s3, s4, s6, s7>>
        /\ (s9' = s9 /\ s5.orphaned = {}) \/ s9' = s9 + 1
    BY <1>15 DEF Lc!Swept, Lc!Unheard
  <2>2. s9' \in Nat /\ (s9' = 0 => (s9 = 0 /\ s5.orphaned = {}))
    BY <1>1, <2>1
  <2> HIDE DEF Goal
  <2> QED
    BY <1>14, <2>1, <2>2
<1>16. ASSUME UNCHANGED Lc!orVars PROVE Goal
  <2>1. UNCHANGED <<s1, s2, s3, s4, s5, s6, s7, s8, s9>>
    BY <1>16 DEF Lc!orVars
  <2>2. /\ Typed(s1, s2, s3, s4, s9)' /\ Formed(s5)' /\ Died(s1, s2, s5)' /\ Current(s4, s3)'
    BY <1>1, <2>1
  <2>3. (s9 = 0 => (Keyed(s6, s7) /\ Known(s4, s5, s7)))'
    BY <1>1, <2>1
  <2> HIDE DEF Typed, Formed, Died, Current, Keyed, Known, Stay
  <2> QED
    BY <1>2, <1>3, <2>1, <2>2, <2>3
<1> HIDE DEF Goal
<1>17. Goal
  BY <1>4, <1>6, <1>7, <1>9, <1>10, <1>12, <1>13, <1>15, <1>16
     DEF Lc!OrphansNext, Lc!OrphansPoll
<1> QED
  BY <1>17 DEF Goal

(* Stopping a process under an approval, to recover its claim.             *)

(* Nothing is approved and no pass is under way at first.                  *)
LEMMA QuiesceInitially == Ry!QuiesceInit => Ry!QuiesceInv
<1> SUFFICES ASSUME Ry!QuiesceInit PROVE Ry!QuiesceInv
  OBVIOUS
<1> USE SupervisionAssumption
<1>1. /\ s1 = 1 /\ s2 = 1 /\ s3 = [session |-> 1, process |-> 1] /\ s6 = 0
      /\ s7 = [c \in Ry!ClaimIds |-> Ry!NoApproval]
      /\ s8 = [c \in Ry!ClaimIds |-> Ry!NoTransition]
      /\ s9 = Ry!NoMark /\ s10 = 0 /\ s11 = Ry!NoPass
      /\ s12 = [c \in Ry!ClaimIds |-> 0] /\ s13 = {}
  BY DEF Ry!QuiesceInit
<1>2. s4 \in BOOLEAN /\ s5 \in BOOLEAN
  <2>1. s4 = TRUE /\ s5 = FALSE
    BY Zenon DEF Ry!QuiesceInit
  <2> QED
    BY <2>1, Zenon
<1>3. /\ Ry!NoApproval \in [found : BOOLEAN, session : 0..MaxLaunches,
                            process : 0..MaxLaunches, used : BOOLEAN]
      /\ ~Ry!NoApproval.found
  BY DEF Ry!NoApproval
<1>4. Ry!NoTransition \in [phase : Ry!Phases, session : 0..MaxLaunches,
                           process : 0..MaxLaunches]
  BY DEF Ry!NoTransition, Ry!Phases
<1>5. /\ s9 \in [claim : 0..MaxClaims, session : 0..MaxLaunches] /\ s9.claim = 0
      /\ s11.at = "idle"
      /\ s11 \in [at : {"idle", "authorized", "killed", "stopped", "captured", "marked",
                        "done"},
                  claim : 0..MaxClaims, session : 0..MaxLaunches, process : 0..MaxLaunches]
  BY <1>1 DEF Ry!NoMark, Ry!NoPass
<1>6. s7 \in [Ry!ClaimIds -> [found : BOOLEAN, session : 0..MaxLaunches,
                              process : 0..MaxLaunches, used : BOOLEAN]]
      /\ \A c \in Ry!ClaimIds : ~s7[c].found
  BY <1>1, <1>3
<1>7. s8 \in [Ry!ClaimIds -> [phase : Ry!Phases, session : 0..MaxLaunches,
                              process : 0..MaxLaunches]]
  BY <1>1, <1>4
<1>8. s3 \in [session : Ry!Launches, process : Ry!Launches]
      /\ s12 \in [Ry!ClaimIds -> 0..MaxLaunches]
  BY <1>1 DEF Ry!Launches
<1>9. Ry!QuiesceTypeOK
  BY <1>1, <1>2, <1>5, <1>6, <1>7, <1>8 DEF Ry!QuiesceTypeOK
<1> QED
  BY <1>1, <1>5, <1>6, <1>8, <1>9 DEF Ry!QuiesceInv

(* The lane, the operator and the service take one step.                   *)
LEMMA QuiesceStep ==
  Ry!QuiesceInv /\ [Ry!QuiesceNext]_(Ry!quiesceVars)
    => /\ Ry!QuiesceInv' /\ Ry!OnlyApprovedProcessesAreStoppedStep
       /\ Ry!MarkedClaimsAreCapturedStep
<1> SUFFICES ASSUME Ry!QuiesceInv, [Ry!QuiesceNext]_(Ry!quiesceVars)
             PROVE  /\ Ry!QuiesceInv' /\ Ry!OnlyApprovedProcessesAreStoppedStep
                    /\ Ry!MarkedClaimsAreCapturedStep
  OBVIOUS
<1> USE SupervisionAssumption
<1> DEFINE
      Approval == [found : BOOLEAN, session : 0..MaxLaunches, process : 0..MaxLaunches,
                   used : BOOLEAN]
      Transition == [phase : Ry!Phases, session : 0..MaxLaunches, process : 0..MaxLaunches]
      Places == {"idle", "authorized", "killed", "stopped", "captured", "marked", "done"}
      Pass == [at : Places, claim : 0..MaxClaims, session : 0..MaxLaunches,
               process : 0..MaxLaunches]
      Held(h, m, a, u, f) ==
        /\ h \in 0..MaxClaims /\ m \in 0..MaxClaims /\ h <= m
        /\ a \in [session : Ry!Launches, process : Ry!Launches] /\ u \in 0..MaxLaunches
        /\ f \in 0..MaxClaims
      Waits(r, w) == r \in BOOLEAN /\ w \in BOOLEAN
      Kept(P, T) == P \in [Ry!ClaimIds -> Approval] /\ T \in [Ry!ClaimIds -> Transition]
      Mark(o) == o \in [claim : 0..MaxClaims, session : 0..MaxLaunches]
      Caps(C) == C \in [Ry!ClaimIds -> 0..MaxLaunches]
      Approved(P, E) ==
        \A c \in Ry!ClaimIds : P[c].found =>
           (P[c].process \in Ry!Launches /\ <<c, P[c].process>> \in E)
      Acts(p, E) == (p.at # "idle") =>
        (p.claim \in Ry!ClaimIds /\ p.process \in Ry!Launches /\ <<p.claim, p.process>> \in E)
      Caught(p, C) == (p.at = "captured") => (C[p.claim] = p.process)
      Passes(p, E, C) == p \in Pass /\ Acts(p, E) /\ Caught(p, C)
      Marks == Ry!MarkedClaimsAreCapturedStep
      Goal == Ry!QuiesceInv' /\ Marks
<1>1. /\ Held(s1, s2, s3, s6, s10) /\ Waits(s4, s5) /\ Kept(s7, s8) /\ Mark(s9)
      /\ Caps(s12) /\ Approved(s7, s13) /\ Passes(s11, s13, s12)
  <2>1. Held(s1, s2, s3, s6, s10) /\ Kept(s7, s8)
    BY DEF Ry!QuiesceInv, Ry!QuiesceTypeOK
  <2>2. Waits(s4, s5)
    BY Zenon DEF Ry!QuiesceInv, Ry!QuiesceTypeOK
  <2>3. Mark(s9) /\ Caps(s12) /\ Approved(s7, s13) /\ Passes(s11, s13, s12)
    BY DEF Ry!QuiesceInv
  <2> QED
    BY <2>1, <2>2, <2>3
<1>2. ASSUME Held(s1, s2, s3, s6, s10)', Waits(s4, s5)', Kept(s7, s8)', Mark(s9)',
             Caps(s12)', Approved(s7, s13)', Passes(s11, s13, s12)'
      PROVE  Ry!QuiesceInv'
  <2>1. Ry!QuiesceTypeOK'
    <3>1. s9'.claim \in 0..MaxClaims /\ s11'.at \in Places
      BY <1>2
    <3>2. s4' \in BOOLEAN /\ s5' \in BOOLEAN
      BY <1>2
    <3> QED
      BY <1>2, <3>1, <3>2 DEF Ry!QuiesceTypeOK
  <2> QED
    BY <1>2, <2>1 DEF Ry!QuiesceInv
<1>3. ASSUME s9' = s9 \/ s9' = Ry!NoMark PROVE Marks
  BY <1>3 DEF Ry!MarkedClaimsAreCapturedStep
<1>4. /\ Ry!NoMark \in [claim : 0..MaxClaims, session : 0..MaxLaunches]
      /\ Ry!NoPass \in Pass /\ Ry!NoPass.at = "idle"
      /\ Ry!NoApproval \in Approval /\ ~Ry!NoApproval.found
      /\ Ry!NoTransition \in Transition
  BY DEF Ry!NoMark, Ry!NoPass, Ry!NoApproval, Ry!NoTransition, Ry!Phases
<1>5. Ry!ClaimIds = 1..MaxClaims /\ Ry!Launches = 1..MaxLaunches
  BY DEF Ry!ClaimIds, Ry!Launches
<1>6. Passes(Ry!NoPass, s13, s12) /\ Passes(Ry!NoPass, s13', s12')
  BY <1>4
(* Writing a phase of a transition.                                        *)
<1>7. ASSUME NEW t \in Transition, NEW f \in Ry!Phases
      PROVE  [t EXCEPT !.phase = f] \in Transition
  <2>1. t = [phase |-> t.phase, session |-> t.session, process |-> t.process]
    OBVIOUS
  <2> QED
    BY <2>1
<1>8. ASSUME NEW f \in Ry!Phases, Ry!WritePhase(f), s11.at # "idle", UNCHANGED s7
      PROVE  Kept(s7, s8)'
  <2>1. PICK t : t = [s8[s11.claim] EXCEPT !.phase = f]
    OBVIOUS
  <2>2. s8' = [s8 EXCEPT ![s11.claim] = t]
    BY <1>8, <2>1 DEF Ry!WritePhase
  <2>3. s11.claim \in Ry!ClaimIds /\ s8[s11.claim] \in Transition
    BY <1>1, <1>8
  <2>4. t \in Transition
    BY <1>7, <2>1, <2>3
  <2> QED
    BY <1>1, <1>8, <2>2, <2>3, <2>4
(* A pass goes on for the same claim and process.                          *)
<1>9. ASSUME NEW a \in Places, a # "captured", s11.at # "idle",
             s11' = [s11 EXCEPT !.at = a], UNCHANGED s13
      PROVE  Passes(s11, s13, s12)'
  <2>1. s11 = [at |-> s11.at, claim |-> s11.claim, session |-> s11.session,
               process |-> s11.process]
    BY <1>1
  <2>2. s11' = [at |-> a, claim |-> s11.claim, session |-> s11.session,
                process |-> s11.process]
    BY <1>9, <2>1
  <2>3. /\ s11' \in Pass /\ s11'.at = a /\ s11'.claim = s11.claim
        /\ s11'.process = s11.process
    BY <1>1, <2>2
  <2> QED
    BY <1>1, <1>9, <2>3
(* A refusal ends the pass.                                                *)
<1>10. ASSUME Ry!Refuse(s11.claim)
       PROVE  s11' = Ry!NoPass /\ s10' \in 0..MaxClaims /\ Passes(s11, s13, s12)'
  BY <1>1, <1>6, <1>10 DEF Ry!Refuse
(* Using an approval leaves what was approved.                             *)
<1>11. ASSUME NEW c \in Ry!ClaimIds, Ry!Consume(c), UNCHANGED <<s8, s13>>
       PROVE  Kept(s7, s8)' /\ Approved(s7, s13)' /\ s10' = 0
  <2>1. PICK a : a = [s7[c] EXCEPT !.used = TRUE]
    OBVIOUS
  <2>2. s7' = [s7 EXCEPT ![c] = a] /\ s10' = 0
    BY <1>11, <2>1, Zenon DEF Ry!Consume
  <2>3. s7[c] \in Approval
    BY <1>1
  <2>4. s7[c] = [found |-> s7[c].found, session |-> s7[c].session,
                 process |-> s7[c].process, used |-> s7[c].used]
    BY <2>3
  <2>5. a = [found |-> s7[c].found, session |-> s7[c].session,
             process |-> s7[c].process, used |-> TRUE]
    BY <2>1, <2>4
  <2>6. a \in Approval /\ a.found = s7[c].found /\ a.process = s7[c].process
    BY <2>3, <2>5
  <2>7. Kept(s7, s8)'
    BY <1>1, <1>11, <2>2, <2>6
  <2>8. Approved(s7, s13)'
    BY <1>1, <1>11, <2>2, <2>6
  <2> QED
    BY <2>2, <2>7, <2>8
<1>12. ASSUME Ry!ProcessEnds \/ Ry!Launched \/ Ry!WaitChanges \/ Ry!Publish PROVE Goal
  <2>1. UNCHANGED <<s1, s2, s7, s8, s9, s10, s11, s12, s13>>
    BY <1>12 DEF Ry!ProcessEnds, Ry!Launched, Ry!WaitChanges, Ry!Publish
  <2>2. Held(s1, s2, s3, s6, s10)'
    <3>1. CASE Ry!ProcessEnds \/ Ry!WaitChanges
      <4>1. UNCHANGED <<s3, s6>>
        BY <3>1 DEF Ry!ProcessEnds, Ry!WaitChanges
      <4> QED
        BY <1>1, <2>1, <4>1
    <3>2. CASE Ry!Publish
      <4>1. UNCHANGED s3 /\ s6' \in {0, s3.session}
        BY <3>2 DEF Ry!Publish
      <4>2. s3.session \in 1..MaxLaunches
        BY <1>1, <1>5
      <4>3. s6' \in 0..MaxLaunches
        BY <4>1, <4>2
      <4> QED
        BY <1>1, <2>1, <4>1, <4>3
    <3>3. CASE Ry!Launched
      <4>1. /\ UNCHANGED s6 /\ s3.process < MaxLaunches
            /\ \E s \in {s3.session, s3.process + 1} :
                 s3' = [session |-> s, process |-> s3.process + 1]
        BY <3>3 DEF Ry!Launched
      <4>2. s3.process \in 1..MaxLaunches /\ s3.session \in 1..MaxLaunches
        BY <1>1, <1>5
      <4>3. s3' \in [session : Ry!Launches, process : Ry!Launches]
        BY <1>5, <4>1, <4>2
      <4> QED
        BY <1>1, <2>1, <4>1, <4>3
    <3> QED
      BY <1>12, <3>1, <3>2, <3>3
  <2>3. Waits(s4, s5)'
    <3>1. s4' = s4 \/ s4' = TRUE \/ s4' = FALSE
      BY <1>12, Zenon DEF Ry!ProcessEnds, Ry!Launched, Ry!WaitChanges, Ry!Publish
    <3>2. s5' = s5 \/ s5' = ~s5
      BY <1>12, Zenon DEF Ry!ProcessEnds, Ry!Launched, Ry!WaitChanges, Ry!Publish
    <3> QED
      BY <1>1, <3>1, <3>2, Zenon
  <2>4. Kept(s7, s8)' /\ Mark(s9)' /\ Caps(s12)' /\ Approved(s7, s13)'
        /\ Passes(s11, s13, s12)'
    BY <1>1, <2>1
  <2> HIDE DEF Held, Waits, Kept, Mark, Caps, Approved, Passes, Marks
  <2> QED
    BY <1>2, <1>3, <2>1, <2>2, <2>3, <2>4
<1>13. ASSUME Ry!ClaimMoves PROVE Goal
  <2>1. /\ s9' = Ry!NoMark /\ UNCHANGED <<s3, s4, s5, s6, s7, s8, s10, s11, s12, s13>>
        /\ \/ s1' = 0 /\ s2' = s2
           \/ s2 < MaxClaims /\ s1' = s2 + 1 /\ s2' = s2 + 1
    BY <1>13 DEF Ry!ClaimMoves
  <2>2. Held(s1, s2, s3, s6, s10)'
    BY <1>1, <2>1
  <2>3. Waits(s4, s5)'
    BY <1>1, <2>1, Zenon
  <2>4. Kept(s7, s8)' /\ Caps(s12)' /\ Approved(s7, s13)' /\ Passes(s11, s13, s12)'
    BY <1>1, <2>1
  <2>5. Mark(s9)'
    BY <1>4, <2>1
  <2> HIDE DEF Held, Waits, Kept, Mark, Caps, Approved, Passes, Marks
  <2> QED
    BY <1>2, <1>3, <2>1, <2>2, <2>3, <2>4, <2>5
(* The approval is of the process that runs, and is remembered.            *)
<1>14. ASSUME Ry!Authorize PROVE Goal
  <2>1. PICK a : a = [found |-> TRUE, session |-> s3.session, process |-> s3.process,
                      used |-> FALSE]
    OBVIOUS
  <2>2. /\ s1 # 0 /\ s7' = [s7 EXCEPT ![s1] = a] /\ s13' = s13 \cup {<<s1, s3.process>>}
        /\ UNCHANGED <<s1, s2, s3, s4, s5, s6, s8, s9, s10, s11, s12>>
    BY <1>14, <2>1, Zenon DEF Ry!Authorize
  <2>3. /\ a \in Approval /\ a.process = s3.process /\ a.process \in Ry!Launches
        /\ s1 \in Ry!ClaimIds
    <3>1. s3.session \in 1..MaxLaunches /\ s3.process \in 1..MaxLaunches
      BY <1>1, <1>5
    <3>2. s3.session \in 0..MaxLaunches /\ s3.process \in 0..MaxLaunches
      BY <3>1
    <3>3. a \in Approval /\ a.process = s3.process
      BY <2>1, <3>2
    <3>4. s1 \in Ry!ClaimIds
      BY <1>1, <1>5, <2>2
    <3> QED
      BY <1>5, <3>1, <3>3, <3>4
  <2>4. Kept(s7, s8)'
    BY <1>1, <2>2, <2>3
  <2>5. Approved(s7, s13)'
    BY <1>1, <2>2, <2>3
  <2>6. Held(s1, s2, s3, s6, s10)' /\ Mark(s9)' /\ Caps(s12)' /\ Passes(s11, s13, s12)'
    BY <1>1, <2>2
  <2>7. Waits(s4, s5)'
    BY <1>1, <2>2, Zenon
  <2> HIDE DEF Held, Waits, Kept, Mark, Caps, Approved, Passes, Marks
  <2> QED
    BY <1>2, <1>3, <2>2, <2>4, <2>5, <2>6, <2>7
(* A pass begins for the process an approval of the claim names.           *)
<1>15. ASSUME Ry!Begin PROVE Goal
  <2>1. PICK p : p = [at |-> "authorized", claim |-> s1, session |-> s7[s1].session,
                      process |-> s7[s1].process]
    OBVIOUS
  <2>2. PICK e : e = Ry!Expected(s1)
    OBVIOUS
  <2>3. /\ s1 # 0 /\ (\E s \in Ry!Offered \ {0} : Ry!Approves(s1, s))
        /\ s8' = [Ry!AfterSupersede EXCEPT ![s1] = e] \/ s8' = Ry!AfterSupersede
        /\ (s10' = s1 /\ s11' = s11) \/ (s11' = p /\ s10' = s10)
        /\ UNCHANGED <<s1, s2, s3, s4, s5, s6, s7, s9, s12, s13>>
    BY <1>15, <2>1, <2>2, Zenon DEF Ry!Begin
  <2>4. s1 \in Ry!ClaimIds /\ s7[s1] \in Approval
    BY <1>1, <1>5, <2>3
  <2>5. s7[s1].found
    BY <2>3 DEF Ry!Approves
  <2>6. Ry!AfterSupersede \in [Ry!ClaimIds -> Transition]
    <3>1. ASSUME NEW c \in Ry!ClaimIds
          PROVE  (IF Ry!Superseded(c) THEN [s8[c] EXCEPT !.phase = "superseded"]
                  ELSE s8[c]) \in Transition
      <4>1. s8[c] \in Transition
        BY <1>1
      <4>2. "superseded" \in Ry!Phases
        BY DEF Ry!Phases
      <4>3. [s8[c] EXCEPT !.phase = "superseded"] \in Transition
        BY <1>7, <4>1, <4>2
      <4> HIDE DEF Transition
      <4> QED
        BY <4>1, <4>3
    <3> HIDE DEF Transition
    <3> QED
      BY <3>1 DEF Ry!AfterSupersede
  <2>7. e \in Transition
    BY <2>2, <2>4 DEF Ry!Expected, Ry!Phases
  <2>8. Kept(s7, s8)'
    <3>1. s8' \in [Ry!ClaimIds -> Transition]
      BY <2>3, <2>4, <2>6, <2>7
    <3> QED
      BY <1>1, <2>3, <3>1
  <2>9. Passes(p, s13, s12)
    <3>1. /\ p \in Pass /\ p.at = "authorized" /\ p.claim = s1
          /\ p.process = s7[s1].process
      BY <1>5, <2>1, <2>4
    <3> QED
      BY <1>1, <2>4, <2>5, <3>1
  <2>10. Passes(s11, s13, s12)'
    BY <1>1, <2>3, <2>9
  <2>11. Held(s1, s2, s3, s6, s10)' /\ Mark(s9)' /\ Caps(s12)' /\ Approved(s7, s13)'
    BY <1>1, <2>3
  <2>12. Waits(s4, s5)'
    BY <1>1, <2>3, Zenon
  <2> HIDE DEF Held, Waits, Kept, Mark, Caps, Approved, Passes, Marks
  <2> QED
    BY <1>2, <1>3, <2>3, <2>8, <2>10, <2>11, <2>12
<1>16. ASSUME Ry!Stop PROVE Goal
  <2>1. /\ s11.at = "authorized"
        /\ \/ s4' = FALSE /\ s11' = [s11 EXCEPT !.at = "killed"] /\ s10' = s10
           \/ Ry!Refuse(s11.claim) /\ s4' = s4
        /\ UNCHANGED <<s1, s2, s3, s5, s6, s7, s8, s9, s12, s13>>
    BY <1>16, Zenon DEF Ry!Stop
  <2>2. Passes(s11, s13, s12)' /\ s10' \in 0..MaxClaims
    <3>1. CASE s11' = [s11 EXCEPT !.at = "killed"] /\ s10' = s10
      BY <1>1, <1>9, <2>1, <3>1
    <3>2. CASE Ry!Refuse(s11.claim)
      BY <1>10, <3>2
    <3> QED
      BY <2>1, <3>1, <3>2
  <2>3. Held(s1, s2, s3, s6, s10)' /\ Mark(s9)' /\ Caps(s12)' /\ Approved(s7, s13)'
        /\ Kept(s7, s8)'
    BY <1>1, <2>1, <2>2
  <2>4. Waits(s4, s5)'
    BY <1>1, <2>1, Zenon
  <2> HIDE DEF Held, Waits, Kept, Mark, Caps, Approved, Passes, Marks
  <2> QED
    BY <1>2, <1>3, <2>1, <2>2, <2>3, <2>4
<1>17. ASSUME Ry!WriteStopped \/ Ry!Complete PROVE Goal
  <2>1. /\ \/ s11.at = "killed" /\ Ry!WritePhase("stopped")
              /\ s11' = [s11 EXCEPT !.at = "stopped"]
           \/ s11.at = "marked" /\ Ry!WritePhase("complete")
              /\ s11' = [s11 EXCEPT !.at = "done"]
        /\ UNCHANGED <<s1, s2, s3, s4, s5, s6, s7, s9, s10, s12, s13>>
    BY <1>17 DEF Ry!WriteStopped, Ry!Complete
  <2>2. "stopped" \in Ry!Phases /\ "complete" \in Ry!Phases
    BY DEF Ry!Phases
  <2>3. Kept(s7, s8)' /\ Passes(s11, s13, s12)'
    <3>1. CASE /\ s11.at = "killed" /\ Ry!WritePhase("stopped")
               /\ s11' = [s11 EXCEPT !.at = "stopped"]
      BY <1>8, <1>9, <2>1, <2>2, <3>1
    <3>2. CASE /\ s11.at = "marked" /\ Ry!WritePhase("complete")
               /\ s11' = [s11 EXCEPT !.at = "done"]
      BY <1>8, <1>9, <2>1, <2>2, <3>2
    <3> QED
      BY <2>1, <3>1, <3>2
  <2>4. Held(s1, s2, s3, s6, s10)' /\ Mark(s9)' /\ Caps(s12)' /\ Approved(s7, s13)'
    BY <1>1, <2>1
  <2>5. Waits(s4, s5)'
    BY <1>1, <2>1, Zenon
  <2> HIDE DEF Held, Waits, Kept, Mark, Caps, Approved, Passes, Marks
  <2> QED
    BY <1>2, <1>3, <2>1, <2>3, <2>4, <2>5
<1>18. ASSUME Ry!CaptureStopped PROVE Goal
  <2>1. s11.at = "stopped" /\ UNCHANGED <<s1, s2, s3, s4, s5, s6, s7, s9, s13>>
    BY <1>18 DEF Ry!CaptureStopped
  <2>2. CASE s1 = s11.claim
    <3>1. /\ s12' = [s12 EXCEPT ![s11.claim] = s11.process] /\ Ry!WritePhase("captured")
          /\ s11' = [s11 EXCEPT !.at = "captured"] /\ s10' = s10
      BY <1>18, <2>2 DEF Ry!CaptureStopped
    <3>2. s11.claim \in Ry!ClaimIds /\ s11.process \in 0..MaxLaunches
      BY <1>1, <2>1
    <3>3. Caps(s12)' /\ s12'[s11.claim] = s11.process
      BY <1>1, <3>1, <3>2
    <3>4. s11 = [at |-> s11.at, claim |-> s11.claim, session |-> s11.session,
                 process |-> s11.process]
      BY <1>1
    <3>5. s11' = [at |-> "captured", claim |-> s11.claim, session |-> s11.session,
                  process |-> s11.process]
      BY <3>1, <3>4
    <3>6. /\ s11' \in Pass /\ s11'.claim = s11.claim /\ s11'.process = s11.process
      BY <1>1, <3>5
    <3>7. Passes(s11, s13, s12)'
      BY <1>1, <2>1, <3>3, <3>6
    <3>8. "captured" \in Ry!Phases
      BY DEF Ry!Phases
    <3>9. Kept(s7, s8)'
      BY <1>8, <2>1, <3>1, <3>8
    <3>10. Held(s1, s2, s3, s6, s10)' /\ Mark(s9)' /\ Approved(s7, s13)'
      BY <1>1, <2>1, <3>1
    <3>11. Waits(s4, s5)'
      BY <1>1, <2>1, Zenon
    <3> HIDE DEF Held, Waits, Kept, Mark, Caps, Approved, Passes, Marks
    <3> QED
      BY <1>2, <1>3, <2>1, <3>3, <3>7, <3>9, <3>10, <3>11
  <2>3. CASE s1 # s11.claim
    <3>1. Ry!Refuse(s11.claim) /\ UNCHANGED <<s12, s8>>
      BY <1>18, <2>3 DEF Ry!CaptureStopped
    <3>2. Passes(s11, s13, s12)' /\ s10' \in 0..MaxClaims
      BY <1>10, <3>1
    <3>3. Held(s1, s2, s3, s6, s10)' /\ Mark(s9)' /\ Caps(s12)' /\ Approved(s7, s13)'
          /\ Kept(s7, s8)'
      BY <1>1, <2>1, <3>1, <3>2
    <3>4. Waits(s4, s5)'
      BY <1>1, <2>1, Zenon
    <3> HIDE DEF Held, Waits, Kept, Mark, Caps, Approved, Passes, Marks
    <3> QED
      BY <1>2, <1>3, <2>1, <3>2, <3>3, <3>4
  <2> QED
    BY <2>2, <2>3
(* The claim marked is the one captured, on the approval it was captured on. *)
<1>19. ASSUME Ry!MarkClaim PROVE Goal
  <2>1. s11.at = "captured" /\ UNCHANGED <<s1, s2, s3, s4, s5, s6, s7, s8, s12, s13>>
    BY <1>19 DEF Ry!MarkClaim
  <2>2. CASE Ry!StillApproved(s11)
    <3>1. /\ s9' = [claim |-> s11.claim, session |-> s11.session]
          /\ s11' = [s11 EXCEPT !.at = "marked"] /\ s10' = s10
      BY <1>19, <2>2 DEF Ry!MarkClaim
    <3>2. s9'.claim = s11.claim /\ s9'.session = s11.session
      BY <3>1
    <3>3. Ry!Approves(s9'.claim, s9'.session)
      BY <2>2, <3>2 DEF Ry!StillApproved
    <3>4. s12[s11.claim] = s11.process /\ s11.process \in Ry!Launches
          /\ <<s11.claim, s11.process>> \in s13
      BY <1>1, <2>1
    <3>5. Marks
      BY <3>2, <3>3, <3>4 DEF Ry!MarkedClaimsAreCapturedStep
    <3>6. Passes(s11, s13, s12)'
      BY <1>9, <2>1, <3>1
    <3>7. Mark(s9)'
      BY <1>1, <3>1
    <3>8. Held(s1, s2, s3, s6, s10)' /\ Caps(s12)' /\ Approved(s7, s13)' /\ Kept(s7, s8)'
      BY <1>1, <2>1, <3>1
    <3>9. Waits(s4, s5)'
      BY <1>1, <2>1, Zenon
    <3> HIDE DEF Held, Waits, Kept, Mark, Caps, Approved, Passes, Marks
    <3> QED
      BY <1>2, <3>5, <3>6, <3>7, <3>8, <3>9
  <2>3. CASE ~Ry!StillApproved(s11)
    <3>1. Ry!Refuse(s11.claim) /\ s9' = s9
      BY <1>19, <2>3 DEF Ry!MarkClaim
    <3>2. Passes(s11, s13, s12)' /\ s10' \in 0..MaxClaims
      BY <1>10, <3>1
    <3>3. Held(s1, s2, s3, s6, s10)' /\ Mark(s9)' /\ Caps(s12)' /\ Approved(s7, s13)'
          /\ Kept(s7, s8)'
      BY <1>1, <2>1, <3>1, <3>2
    <3>4. Waits(s4, s5)'
      BY <1>1, <2>1, Zenon
    <3> HIDE DEF Held, Waits, Kept, Mark, Caps, Approved, Passes, Marks
    <3> QED
      BY <1>2, <1>3, <3>1, <3>2, <3>3, <3>4
  <2> QED
    BY <2>2, <2>3
<1>20. ASSUME Ry!Finish \/ Ry!Reconcile PROVE Goal
  <2>1. UNCHANGED <<s1, s2, s3, s4, s5, s6, s8, s9, s12, s13>>
        /\ (s11' = Ry!NoPass \/ s11' = s11)
    BY <1>20 DEF Ry!Finish, Ry!Reconcile
  <2>2. Kept(s7, s8)' /\ Approved(s7, s13)' /\ s10' \in 0..MaxClaims
    <3>1. CASE Ry!Finish
      <4>1. s11.at = "done" /\ Ry!Consume(s11.claim)
        BY <3>1 DEF Ry!Finish
      <4>2. s11.claim \in Ry!ClaimIds
        BY <1>1, <4>1
      <4> QED
        BY <1>11, <2>1, <4>1, <4>2
    <3>2. CASE Ry!Reconcile
      <4>1. PICK c \in Ry!ClaimIds : Ry!Consume(c) \/ (s10' = c /\ UNCHANGED s7)
        BY <3>2 DEF Ry!Reconcile
      <4>2. CASE Ry!Consume(c)
        BY <1>11, <2>1, <4>2
      <4>3. CASE s10' = c /\ UNCHANGED s7
        <5>1. s10' \in 0..MaxClaims
          BY <1>5, <4>3
        <5>2. Kept(s7, s8)' /\ Approved(s7, s13)'
          BY <1>1, <2>1, <4>3
        <5> QED
          BY <5>1, <5>2
      <4> QED
        BY <4>1, <4>2, <4>3
    <3> QED
      BY <1>20, <3>1, <3>2
  <2>3. Passes(s11, s13, s12)'
    BY <1>1, <1>6, <2>1
  <2>4. Held(s1, s2, s3, s6, s10)' /\ Mark(s9)' /\ Caps(s12)'
    BY <1>1, <2>1, <2>2
  <2>5. Waits(s4, s5)'
    BY <1>1, <2>1, Zenon
  <2> HIDE DEF Held, Waits, Kept, Mark, Caps, Approved, Passes, Marks
  <2> QED
    BY <1>2, <1>3, <2>1, <2>2, <2>3, <2>4, <2>5
<1>21. ASSUME Ry!Prune \/ Ry!QuiesceCut PROVE Goal
  <2>1. /\ UNCHANGED <<s1, s2, s3, s4, s5, s6, s9, s10, s12, s13>>
        /\ s11' = Ry!NoPass \/ s11' = s11
    BY <1>21 DEF Ry!Prune, Ry!QuiesceCut
  <2>2. Kept(s7, s8)' /\ Approved(s7, s13)'
    <3>1. CASE Ry!QuiesceCut
      <4>1. UNCHANGED <<s7, s8>>
        BY <3>1 DEF Ry!QuiesceCut
      <4> QED
        BY <1>1, <2>1, <4>1
    <3>2. CASE Ry!Prune
      <4>1. PICK c \in Ry!ClaimIds : /\ s8' = [s8 EXCEPT ![c] = Ry!NoTransition]
                                     /\ s7' = [s7 EXCEPT ![c] = Ry!NoApproval]
        BY <3>2 DEF Ry!Prune
      <4>2. Kept(s7, s8)'
        BY <1>1, <1>4, <4>1
      <4>3. Approved(s7, s13)'
        BY <1>1, <1>4, <2>1, <4>1
      <4> QED
        BY <4>2, <4>3
    <3> QED
      BY <1>21, <3>1, <3>2
  <2>3. Passes(s11, s13, s12)'
    BY <1>1, <1>6, <2>1
  <2>4. Held(s1, s2, s3, s6, s10)' /\ Mark(s9)' /\ Caps(s12)'
    BY <1>1, <2>1
  <2>5. Waits(s4, s5)'
    BY <1>1, <2>1, Zenon
  <2> HIDE DEF Held, Waits, Kept, Mark, Caps, Approved, Passes, Marks
  <2> QED
    BY <1>2, <1>3, <2>1, <2>2, <2>3, <2>4, <2>5
<1>22. ASSUME UNCHANGED Ry!quiesceVars PROVE Goal
  <2>1. UNCHANGED <<s1, s2, s3, s4, s5, s6, s7, s8, s9, s10, s11, s12, s13>>
    BY <1>22 DEF Ry!quiesceVars
  <2>2. /\ Held(s1, s2, s3, s6, s10)' /\ Kept(s7, s8)' /\ Mark(s9)' /\ Caps(s12)'
        /\ Approved(s7, s13)' /\ Passes(s11, s13, s12)'
    BY <1>1, <2>1
  <2>3. Waits(s4, s5)'
    BY <1>1, <2>1, Zenon
  <2> HIDE DEF Held, Waits, Kept, Mark, Caps, Approved, Passes, Marks
  <2> QED
    BY <1>2, <1>3, <2>1, <2>2, <2>3
(* Only Stop goes from an approved pass to a stopped process.              *)
<1>23. ASSUME s11.at = "authorized", s11'.at = "killed", s4
       PROVE  <<s1, s3.process>> \in s13
  <2>1. s11 # Ry!NoPass /\ s11' # s11 /\ s11' # Ry!NoPass
    BY <1>4, <1>23
  <2>2. Ry!Stop
    <3>1. ~Ry!Begin /\ ~Ry!QuiesceCut /\ ~Ry!Reconcile /\ ~Ry!Prune /\ ~Ry!Finish
      BY <2>1 DEF Ry!Begin, Ry!QuiesceCut, Ry!Reconcile, Ry!Prune, Ry!Finish
    <3>2. ~Ry!WriteStopped /\ ~Ry!CaptureStopped /\ ~Ry!MarkClaim /\ ~Ry!Complete
      BY <1>23 DEF Ry!WriteStopped, Ry!CaptureStopped, Ry!MarkClaim, Ry!Complete
    <3>3. ~(Ry!ProcessEnds \/ Ry!Launched \/ Ry!WaitChanges \/ Ry!Publish)
      BY <2>1 DEF Ry!ProcessEnds, Ry!Launched, Ry!WaitChanges, Ry!Publish
    <3>4. ~Ry!ClaimMoves /\ ~Ry!Authorize /\ ~UNCHANGED Ry!quiesceVars
      BY <2>1 DEF Ry!ClaimMoves, Ry!Authorize, Ry!quiesceVars
    <3> QED
      BY <3>1, <3>2, <3>3, <3>4 DEF Ry!QuiesceNext, Ry!PassStep
  <2>3. Ry!MayStop(s11)
    BY <2>1, <2>2 DEF Ry!Stop, Ry!Refuse
  <2>4. s1 = s11.claim /\ s3.process = s11.process
    BY <2>3 DEF Ry!MayStop
  <2> QED
    BY <1>1, <1>23, <2>4
<1>24. Ry!OnlyApprovedProcessesAreStoppedStep
  BY <1>23 DEF Ry!OnlyApprovedProcessesAreStoppedStep
<1> HIDE DEF Goal
<1>25. Goal
  BY <1>12, <1>13, <1>14, <1>15, <1>16, <1>17, <1>18, <1>19, <1>20, <1>21, <1>22
     DEF Ry!QuiesceNext, Ry!PassStep
<1> QED
  BY <1>24, <1>25 DEF Goal

(* Taking a claim from a dead session.                                     *)

(* No claim is taken at first.                                             *)
LEMMA TakeoversInitially == Ry!TakeoversInit => Ry!TakeoversInv
<1> SUFFICES ASSUME Ry!TakeoversInit PROVE Ry!TakeoversInv
  OBVIOUS
<1> USE SupervisionAssumption
<1>1. /\ s1 = "lane" /\ s2 = 1 /\ s3 = 0 /\ s4 = 0
      /\ s5 = [session |-> 1, alive |-> TRUE] /\ s6 = 1 /\ s7 = Ry!NoFence /\ s8 = {}
      /\ s9 = [p \in FencedPeers |-> Ry!NoEvidence] /\ s10 = "nobody"
      /\ s11 = "none" /\ s12 = 0
  BY DEF Ry!TakeoversInit
<1>2. Ry!TakeoversTypeOK
  <2>1. s7 \in [session : 0..MaxGenerations, by : FencedPeers \cup {"nobody"},
                generation : 0..MaxGenerations, mark : 0..MaxMarks]
    BY <1>1 DEF Ry!NoFence
  <2>2. s9 \in [FencedPeers -> [generation : 0..MaxGenerations, mark : 0..MaxMarks]]
    BY <1>1 DEF Ry!NoEvidence
  <2> QED
    BY <1>1, <2>1, <2>2 DEF Ry!TakeoversTypeOK
<1> QED
  BY <1>1, <1>2 DEF Ry!TakeoversInv

(* Sessions end and start, marks come and go, and peers take the claim.    *)
LEMMA TakeoversStep ==
  Ry!TakeoversInv /\ [Ry!TakeoversNext]_(Ry!takeVars)
    => /\ Ry!TakeoversInv' /\ Ry!TakenSessionsAreSilentStep
       /\ Ry!UnpublishedFencesDenyNobodyStep
<1> SUFFICES ASSUME Ry!TakeoversInv, [Ry!TakeoversNext]_(Ry!takeVars)
             PROVE  /\ Ry!TakeoversInv' /\ Ry!TakenSessionsAreSilentStep
                    /\ Ry!UnpublishedFencesDenyNobodyStep
  OBVIOUS
<1> USE SupervisionAssumption
<1> DEFINE
      Fences == [session : 0..MaxGenerations, by : FencedPeers \cup {"nobody"},
                 generation : 0..MaxGenerations, mark : 0..MaxMarks]
      Sessions == [session : 1..MaxGenerations, alive : BOOLEAN]
      Read == [generation : 0..MaxGenerations, mark : 0..MaxMarks]
      Placed(o, t, v) ==
        /\ o \in FencedPeers \cup {"lane", "nobody"} /\ t \in FencedPeers \cup {"nobody"}
        /\ v \in {"none", "allowed", "denied"}
      Numbered(g, r, k) ==
        g \in 0..MaxGenerations /\ r \in 0..MaxGenerations /\ k \in 0..MaxGenerations
      Marked(d, m) == d \in 0..MaxMarks /\ m \in 0..MaxMarks /\ d <= m
      Typed(c, f, e) == c \in Sessions /\ f \in Fences /\ e \in [FencedPeers -> Read]
      Held(t, f, d) == (t # "nobody") => (f.mark = d /\ d # 0)
      Fresh(P, d, m) == \A f \in P : f.mark \in 1..m /\ f.mark # d
      Told(f, P, k) == (f \in P) => (k = f.session)
<1>1. /\ Placed(s1, s10, s11) /\ Numbered(s2, s6, s12) /\ Marked(s3, s4)
      /\ Typed(s5, s7, s9) /\ Held(s10, s7, s3) /\ Fresh(s8, s3, s4) /\ Told(s7, s8, s12)
  <2>1. Placed(s1, s10, s11) /\ Typed(s5, s7, s9)
    BY DEF Ry!TakeoversInv, Ry!TakeoversTypeOK
  <2>2. Numbered(s2, s6, s12) /\ Marked(s3, s4)
    BY DEF Ry!TakeoversInv, Ry!TakeoversTypeOK
  <2>3. Held(s10, s7, s3) /\ Fresh(s8, s3, s4) /\ Told(s7, s8, s12)
    BY DEF Ry!TakeoversInv
  <2> QED
    BY <2>1, <2>2, <2>3
<1>2. ASSUME Placed(s1, s10, s11)', Numbered(s2, s6, s12)', Marked(s3, s4)',
             Typed(s5, s7, s9)', Held(s10, s7, s3)', Fresh(s8, s3, s4)', Told(s7, s8, s12)'
      PROVE  Ry!TakeoversInv'
  <2>1. Ry!TakeoversTypeOK'
    BY <1>2 DEF Ry!TakeoversTypeOK
  <2> QED
    BY <1>2, <2>1 DEF Ry!TakeoversInv
<1>3. ASSUME Ry!SessionEnds PROVE Ry!TakeoversInv'
  <2>1. PICK e : e = [s5 EXCEPT !.alive = FALSE]
    OBVIOUS
  <2>2. /\ s6' = 0 /\ (s5' = e \/ s5' = s5)
        /\ UNCHANGED <<s1, s2, s3, s4, s7, s8, s9, s10, s11, s12>>
    BY <1>3, <2>1, Zenon DEF Ry!SessionEnds
  <2>3. e \in Sessions
    BY <1>1, <2>1
  <2>4. Typed(s5, s7, s9)' /\ Numbered(s2, s6, s12)'
    BY <1>1, <2>2, <2>3
  <2>5. Placed(s1, s10, s11)' /\ Marked(s3, s4)'
        /\ Held(s10, s7, s3)' /\ Fresh(s8, s3, s4)' /\ Told(s7, s8, s12)'
    BY <1>1, <2>2
  <2> QED
    BY <1>2, <2>4, <2>5
<1>4. ASSUME Ry!SessionStarts PROVE Ry!TakeoversInv'
  <2>1. PICK s \in 1..MaxGenerations :
          s6' = s /\ s5' = IF Ry!StaleSession(s) THEN s5 ELSE [session |-> s, alive |-> TRUE]
    BY <1>4 DEF Ry!SessionStarts, Ry!SessionNumbers
  <2>2. PICK e : e = [session |-> s, alive |-> TRUE]
    OBVIOUS
  <2>3. /\ s6' = s /\ (s5' = e \/ s5' = s5)
        /\ UNCHANGED <<s1, s2, s3, s4, s7, s8, s9, s10, s11, s12>>
    BY <1>4, <2>1, <2>2, Zenon DEF Ry!SessionStarts
  <2>4. e \in Sessions /\ s \in 0..MaxGenerations
    BY <1>1, <2>2
  <2>5. Typed(s5, s7, s9)' /\ Numbered(s2, s6, s12)'
    BY <1>1, <2>3, <2>4
  <2>6. Placed(s1, s10, s11)' /\ Marked(s3, s4)'
        /\ Held(s10, s7, s3)' /\ Fresh(s8, s3, s4)' /\ Told(s7, s8, s12)'
    BY <1>1, <2>3
  <2> QED
    BY <1>2, <2>5, <2>6
<1>5. ASSUME Ry!ToolCall PROVE Ry!TakeoversInv'
  <2>1. /\ s11' = "denied" \/ s11' = "allowed"
        /\ UNCHANGED <<s1, s2, s3, s4, s5, s6, s7, s8, s9, s10, s12>>
    BY <1>5 DEF Ry!ToolCall
  <2>2. Placed(s1, s10, s11)' /\ Numbered(s2, s6, s12)' /\ Marked(s3, s4)'
        /\ Typed(s5, s7, s9)'
    BY <1>1, <2>1
  <2>3. Held(s10, s7, s3)' /\ Fresh(s8, s3, s4)' /\ Told(s7, s8, s12)'
    BY <1>1, <2>1
  <2> QED
    BY <1>2, <2>2, <2>3
(* A mark is a number no mark had; a withdrawn one is no mark.             *)
<1>6. ASSUME Ry!Sweep PROVE Ry!TakeoversInv'
  <2>1. /\ s10 = "nobody" /\ UNCHANGED <<s1, s2, s5, s6, s7, s8, s9, s10, s11, s12>>
        /\ \/ s4 < MaxMarks /\ s4' = s4 + 1 /\ s3' = s4 + 1
           \/ s3' = 0 /\ s4' = s4
    BY <1>6 DEF Ry!Sweep
  <2>2. Marked(s3, s4)'
    BY <1>1, <2>1
  <2>3. Fresh(s8, s3, s4)'
    <3>1. s4 \in Nat
      BY <1>1
    <3> QED
      BY <1>1, <2>1, <3>1
  <2>4. Placed(s1, s10, s11)' /\ Numbered(s2, s6, s12)' /\ Typed(s5, s7, s9)'
        /\ Held(s10, s7, s3)' /\ Told(s7, s8, s12)'
    BY <1>1, <2>1
  <2> QED
    BY <1>2, <2>2, <2>3, <2>4
<1>7. ASSUME Ry!ClaimAgain PROVE Ry!TakeoversInv'
  <2>1. /\ s10 = "nobody" /\ s3' = 0
        /\ UNCHANGED <<s4, s5, s6, s7, s8, s9, s10, s11, s12>>
        /\ s1' = "nobody" \/ s1' = "lane"
        /\ s2' = s2 \/ (s2 < MaxGenerations /\ s2' = s2 + 1)
    BY <1>7 DEF Ry!ClaimAgain
  <2>2. Placed(s1, s10, s11)'
    BY <1>1, <2>1
  <2>3. Numbered(s2, s6, s12)' /\ Marked(s3, s4)'
    BY <1>1, <2>1
  <2>4. Fresh(s8, s3, s4)'
    <3>1. \A f \in s8 : f.mark \in 1..s4
      BY <1>1
    <3> QED
      BY <1>1, <2>1, <3>1
  <2>5. Typed(s5, s7, s9)' /\ Held(s10, s7, s3)' /\ Told(s7, s8, s12)'
    BY <1>1, <2>1
  <2> QED
    BY <1>2, <2>2, <2>3, <2>4, <2>5
<1>8. ASSUME NEW p \in FencedPeers, Ry!Prepare(p) PROVE Ry!TakeoversInv'
  <2>1. PICK e : e = [generation |-> s2, mark |-> s3]
    OBVIOUS
  <2>2. /\ s9' = [s9 EXCEPT ![p] = e]
        /\ UNCHANGED <<s1, s2, s3, s4, s5, s6, s7, s8, s10, s11, s12>>
    BY <1>8, <2>1 DEF Ry!Prepare
  <2>3. e \in Read
    BY <1>1, <2>1
  <2>4. Typed(s5, s7, s9)'
    BY <1>1, <2>2, <2>3
  <2>5. Placed(s1, s10, s11)' /\ Numbered(s2, s6, s12)' /\ Marked(s3, s4)'
        /\ Held(s10, s7, s3)' /\ Fresh(s8, s3, s4)' /\ Told(s7, s8, s12)'
    BY <1>1, <2>2
  <2> QED
    BY <1>2, <2>4, <2>5
(* The fence carries the mark in force, which no published fence does.     *)
<1>9. ASSUME NEW p \in FencedPeers, Ry!CommitTakeover(p) PROVE Ry!TakeoversInv'
  <2>1. /\ s3 # 0 /\ s7' = Ry!FenceOf(p) /\ s10' = p
        /\ UNCHANGED <<s1, s2, s3, s4, s5, s6, s8, s9, s11, s12>>
    BY <1>9 DEF Ry!CommitTakeover
  <2>2. s7' = [session |-> s5.session, by |-> p, generation |-> s2, mark |-> s3]
    BY <2>1 DEF Ry!FenceOf
  <2>3. s7' \in Fences /\ s7'.mark = s3
    BY <1>1, <2>2
  <2>4. Typed(s5, s7, s9)' /\ Placed(s1, s10, s11)'
    BY <1>1, <2>1, <2>3
  <2>5. Held(s10, s7, s3)' /\ Told(s7, s8, s12)'
    BY <1>1, <2>1, <2>3
  <2>6. Numbered(s2, s6, s12)' /\ Marked(s3, s4)' /\ Fresh(s8, s3, s4)'
    BY <1>1, <2>1
  <2> QED
    BY <1>2, <2>4, <2>5, <2>6
<1>10. ASSUME Ry!PublishTake PROVE Ry!TakeoversInv'
  <2>1. /\ s10 # "nobody" /\ s1' = s10 /\ s3' = 0 /\ s10' = "nobody"
        /\ s8' = s8 \cup {s7} /\ s12' = s7.session
        /\ UNCHANGED <<s2, s4, s5, s6, s7, s9, s11>>
    BY <1>10 DEF Ry!PublishTake
  <2>2. s7.mark \in 1..s4
    BY <1>1, <2>1
  <2>3. Fresh(s8, s3, s4)'
    BY <1>1, <2>1, <2>2
  <2>4. Numbered(s2, s6, s12)' /\ Marked(s3, s4)' /\ Typed(s5, s7, s9)'
    BY <1>1, <2>1
  <2>5. Placed(s1, s10, s11)' /\ Held(s10, s7, s3)' /\ Told(s7, s8, s12)'
    BY <1>1, <2>1
  <2> QED
    BY <1>2, <2>3, <2>4, <2>5
<1>11. ASSUME Ry!TakeCut PROVE Ry!TakeoversInv'
  <2>1. s10' = "nobody" /\ UNCHANGED <<s1, s2, s3, s4, s5, s6, s7, s8, s9, s11, s12>>
    BY <1>11 DEF Ry!TakeCut
  <2>2. Placed(s1, s10, s11)' /\ Numbered(s2, s6, s12)' /\ Marked(s3, s4)'
        /\ Typed(s5, s7, s9)'
    BY <1>1, <2>1
  <2>3. Held(s10, s7, s3)' /\ Fresh(s8, s3, s4)' /\ Told(s7, s8, s12)'
    BY <1>1, <2>1
  <2> QED
    BY <1>2, <2>2, <2>3
<1>12. ASSUME UNCHANGED Ry!takeVars PROVE Ry!TakeoversInv'
  <2>1. UNCHANGED <<s1, s2, s3, s4, s5, s6, s7, s8, s9, s10, s11, s12>>
    BY <1>12 DEF Ry!takeVars
  <2>2. Placed(s1, s10, s11)' /\ Numbered(s2, s6, s12)' /\ Marked(s3, s4)'
        /\ Typed(s5, s7, s9)'
    BY <1>1, <2>1
  <2>3. Held(s10, s7, s3)' /\ Fresh(s8, s3, s4)' /\ Told(s7, s8, s12)'
    BY <1>1, <2>1
  <2> QED
    BY <1>2, <2>2, <2>3
<1>13. Ry!TakeoversInv'
  BY <1>3, <1>4, <1>5, <1>6, <1>7, <1>8, <1>9, <1>10, <1>11, <1>12 DEF Ry!TakeoversNext
(* An allowed call is of a session the fence in force does not name.       *)
<1>14. Ry!TakenSessionsAreSilentStep
  <2>1. ASSUME Ry!ToolCall, s11' = "allowed", s7 \in s8 PROVE s6 # s12
    <3>1. ~Ry!StaleSession(s6)
      BY <2>1 DEF Ry!ToolCall
    <3> QED
      BY <1>1, <2>1, <3>1 DEF Ry!StaleSession
  <2> QED
    BY <2>1 DEF Ry!TakenSessionsAreSilentStep
<1>15. Ry!UnpublishedFencesDenyNobodyStep
  <2>1. ASSUME Ry!ToolCall, s11' = "denied" PROVE \E f \in s8 : f.session = s6
    <3>1. Ry!StaleSession(s6)
      BY <2>1 DEF Ry!ToolCall
    <3> QED
      BY <3>1 DEF Ry!StaleSession
  <2> QED
    BY <2>1 DEF Ry!UnpublishedFencesDenyNobodyStep
<1> QED
  BY <1>13, <1>14, <1>15

(* A behaviour of the sum is one component's, and keeps its invariant.     *)

SupervisionInv ==
  /\ part \in {"departures", "overdueClaims", "orphans", "capacity", "quiesce", "takeovers",
               "unattendedAttempts"}
  /\ part = "departures" => Dp!DeparturesInv
  /\ part = "overdueClaims" => Lc!OverdueInv
  /\ part = "orphans" => Lc!OrphansInv
  /\ part = "capacity" => Ca!CapacityInv
  /\ part = "quiesce" => Ry!QuiesceInv
  /\ part = "takeovers" => Ry!TakeoversInv
  /\ part = "unattendedAttempts" => Ua!AttemptsInv

(* A step that changes no attempt merges nothing.                          *)
LEMMA MergesWhatItGated ==
  Ua!AttemptsInv /\ [Ua!AttemptsNext]_(Ua!attemptVars) => Ua!MergesWhatWasGatedStep
<1> SUFFICES ASSUME Ua!AttemptsInv, [Ua!AttemptsNext]_(Ua!attemptVars)
             PROVE  Ua!MergesWhatWasGatedStep
  OBVIOUS
<1>1. Ua!MergesWhatWasGatedStep \/ UNCHANGED Ua!attemptVars
  BY AttemptsStep
<1>2. ASSUME UNCHANGED Ua!attemptVars PROVE Ua!MergesWhatWasGatedStep
  <2>1. UNCHANGED s7
    BY <1>2 DEF Ua!attemptVars
  <2> QED
    BY <2>1 DEF Ua!MergesWhatWasGatedStep
<1> QED
  BY <1>1, <1>2

(* Each component starts within its invariant.                             *)
LEMMA SupervisionInitially == Init => SupervisionInv
BY DeparturesInitially, OverdueInitially, OrphansInitially, CapacityInitially,
   QuiesceInitially, TakeoversInitially, AttemptsInitially
   DEF Init, SupervisionInv

(* A step of the sum is a step, or a stutter, of the component that runs.  *)
LEMMA PartsStep ==
  [Next]_vars =>
    /\ part' = part
    /\ part = "departures" => [Dp!DeparturesNext]_(Dp!depVars)
    /\ part = "overdueClaims" => [Lc!OverdueNext]_(Lc!overdueVars)
    /\ part = "orphans" => [Lc!OrphansNext]_(Lc!orVars)
    /\ part = "capacity" => [Ca!CapacityNext]_(Ca!caVars)
    /\ part = "quiesce" => [Ry!QuiesceNext]_(Ry!quiesceVars)
    /\ part = "takeovers" => [Ry!TakeoversNext]_(Ry!takeVars)
    /\ part = "unattendedAttempts" => [Ua!AttemptsNext]_(Ua!attemptVars)
<1> SUFFICES ASSUME [Next]_vars
             PROVE  /\ part' = part
                    /\ part = "departures" => [Dp!DeparturesNext]_(Dp!depVars)
                    /\ part = "overdueClaims" => [Lc!OverdueNext]_(Lc!overdueVars)
                    /\ part = "orphans" => [Lc!OrphansNext]_(Lc!orVars)
                    /\ part = "capacity" => [Ca!CapacityNext]_(Ca!caVars)
                    /\ part = "quiesce" => [Ry!QuiesceNext]_(Ry!quiesceVars)
                    /\ part = "takeovers" => [Ry!TakeoversNext]_(Ry!takeVars)
                    /\ part = "unattendedAttempts" => [Ua!AttemptsNext]_(Ua!attemptVars)
  OBVIOUS
<1>1. CASE UNCHANGED vars
  BY <1>1 DEF vars, Dp!depVars, Lc!overdueVars, Lc!orVars, Ca!caVars, Ry!quiesceVars,
     Ry!takeVars, Ua!attemptVars
<1>2. CASE Next
  BY <1>2 DEF Next, OfDepartures, OfOverdueClaims, OfOrphans, OfCapacity, OfQuiesce,
     OfTakeovers, OfUnattendedAttempts
<1> QED
  BY <1>1, <1>2

(* Each component keeps its invariant, and the others are not of this
   behaviour. *)
LEMMA SupervisionStep == SupervisionInv /\ [Next]_vars => SupervisionInv'
BY PartsStep, DeparturesStep, OverdueStep, OrphansStep, CapacityStep, QuiesceStep,
   TakeoversStep, AttemptsStep
   DEF SupervisionInv

(* Every behaviour keeps the invariant of its component.                   *)
THEOREM SupervisionIsSound == Spec => []SupervisionInv
<1>1. Init => SupervisionInv
  BY SupervisionInitially
<1>2. SupervisionInv /\ [Next]_vars => SupervisionInv'
  BY SupervisionStep
<1> QED
  BY <1>1, <1>2, PTL DEF Spec

(* Every component of the supervision poll keeps its types.                *)
THEOREM SupervisionTypeCorrect == Spec => []TypeOK
<1>1. SupervisionInv => TypeOK
  BY DEF SupervisionInv, TypeOK, Dp!DeparturesInv, Lc!OverdueInv, Lc!OrphansInv,
     Ca!CapacityInv, Ry!QuiesceInv, Ry!TakeoversInv, Ua!AttemptsInv
<1> QED
  BY <1>1, SupervisionIsSound, PTL

(* A lane that left owns nothing but strays and asks for nothing, an       *)
(* operator is told once of a claim, a mark on a claim was announced, and  *)
(* a decision on unattended work is not taken again on the same news,      *)
(* wherever a poll, a lane or the operator interrupts another.             *)
THEOREM WhatThePollDidIsComplete == Spec => []PollsLeaveNothingOver
<1>1. SupervisionInv => PollsLeaveNothingOver
  BY DEF SupervisionInv, PollsLeaveNothingOver, Dp!DeparturesInv, Lc!OverdueInv,
     Lc!OrphansInv, Ua!AttemptsInv
<1> QED
  BY <1>1, SupervisionIsSound, PTL

(* Blocked work is not retired away and gifts were asked for; a released   *)
(* claim was warned and a lane's own offer is left alone; the marks of a   *)
(* recovery stay; exhaustion ends for a reason and readings move forward;  *)
(* only approved processes are stopped and only captured claims marked; a  *)
(* taken session is silent and a fence of no take denies nobody; what is   *)
(* merged was gated.                                                       *)
THEOREM ThePollSeesWhatItDoes == Spec => NobodyIsActedOnBlindly
<1>1. SupervisionInv /\ [Next]_vars =>
        /\ part = "departures" => /\ Dp!BlockedWorkIsNotRetiredAwayStep
                                  /\ Dp!GiftsWereAskedForStep
        /\ part = "overdueClaims" => /\ Lc!ReleasedClaimsWereWarnedStep
                                     /\ Lc!OwnOffersAreLeftAloneStep
        /\ part = "orphans" => Lc!QuiescedMarksStayStep
        /\ part = "capacity" => /\ Ca!ExhaustionEndsForAReasonStep
                                /\ Ca!CapacityMovesForwardStep
        /\ part = "quiesce" => /\ Ry!OnlyApprovedProcessesAreStoppedStep
                               /\ Ry!MarkedClaimsAreCapturedStep
        /\ part = "takeovers" => /\ Ry!TakenSessionsAreSilentStep
                                 /\ Ry!UnpublishedFencesDenyNobodyStep
        /\ part = "unattendedAttempts" => Ua!MergesWhatWasGatedStep
  BY PartsStep, DeparturesStep, OverdueStep, OrphansStep, CapacityStep, QuiesceStep,
     TakeoversStep, MergesWhatItGated
     DEF SupervisionInv
<1> QED
  BY <1>1, SupervisionIsSound, PTL DEF Spec, NobodyIsActedOnBlindly
=============================================================================
