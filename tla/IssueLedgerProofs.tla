-------------------------- MODULE IssueLedgerProofs --------------------------
(***************************************************************************)
(* What the issue ledger keeps for every set of lanes and issues: proofs   *)
(* of the properties of IssueLedger that the runs check on small ones.     *)
(*                                                                         *)
(* Most of a record's promises are about that record alone, so the proof   *)
(* is in two parts.  The first shows that whatever an action writes is a   *)
(* sound record and that, of the whole ledger, a step changes what the     *)
(* properties read in one of four ways (LedgerStep): nothing passes, one   *)
(* issue passes or is let go, one issue waits on another, or one offer     *)
(* attaches a new diff.  The second derives the properties, also the ones  *)
(* that relate two issues, from that shape of a step.                      *)
(***************************************************************************)
EXTENDS IssueLedger, TLAPS

-----------------------------------------------------------------------------
(* What holds of one record by itself, whatever happened to it.  No part of
   it is inductive without the others: a merge that fails makes repair work
   only of work that is held, a request dies with the claim it was made to. *)
Held(r) ==
    /\ r.phase \in {"running", "ready", "recovery"} => Owned(r)
    /\ r.phase \in {"queued", "complete"} => ~Owned(r)

AsksOthers(r) ==
    /\ r.request # NoRequest => Owned(r) /\ r.request.to # r.owner
    /\ r.offer # NoOffer => r.offer.to # r.owner

MarkIsCurrent(r) ==
    Owned(r) /\ r.orphan # NoOrphan =>
        r.orphan.of = r.owner /\ r.orphan.claim = r.claim

Reported(r) == r.phase \in {"ready", "recovery"} => r.commit \in Commit

Resumes(r) == r.resume # {} => r.phase = "blocked"

OwnDiffs(r) == r.offer.diff = r.handoff => r.handoff = 0

SoundRecord(r) ==
    /\ Held(r) /\ AsksOthers(r) /\ MarkIsCurrent(r)
    /\ Reported(r) /\ Resumes(r) /\ OwnDiffs(r)
    /\ r.ended => ~Owned(r)

Sound == {r \in Record : SoundRecord(r)}

(* The diffs a record names. *)
Named(r) == {r.offer.diff, r.handoff} \ {0}

(* A merge and a ruling name an issue of the ledger, and a merge that is
   verified is in the base. *)
NamesIssues ==
    /\ merge # NoMerge => merge.issue \in Issue /\ merge.commit \in Commit
    /\ merge.verified => <<merge.issue, merge.claim, merge.commit>> \in base
    /\ ruling # NoRuling => ruling.issue \in Issue

(* A new offer names a diff that no record names, because what records name
   is on disk. *)
Inv ==
    /\ TypeOK /\ record \in [Issue -> Sound] /\ NamesIssues
    /\ PendingDiffsExist

-----------------------------------------------------------------------------
(* The shapes of a step.  Of one record: it is kept, that is its owner, its
   claim and whether it is complete are, and it comes to wait on nothing and
   to name no diff it did not; or it passes to a lane; or its claim ends.   *)
Resumed(r, n) == r.phase # "running" /\ n.phase = "running"

Alike(r, n) ==
    /\ n.owner = r.owner /\ n.claim = r.claim
    /\ n.phase = "complete" <=> r.phase = "complete"

Kept(r, n) ==
    /\ Alike(r, n)
    /\ n.waits \subseteq r.waits /\ Named(n) \subseteq Named(r)
    /\ Resumed(r, n) => n.waits \in {{}, r.waits}

Passed(r, n) ==
    /\ r.phase # "complete" /\ n.phase = "running"
    /\ n.owner \in Lane /\ n.claim = r.claim + 1 /\ n.offer = NoOffer
    /\ n.waits = r.waits /\ Named(n) \subseteq Named(r)
    /\ \/ r.offer.to = n.owner
       \/ r.owner = n.owner
       \/ ~Owned(r) /\ r.offer = NoOffer
       \/ /\ r.orphan.of = r.owner /\ r.orphan.claim = r.claim
          /\ r.owner \in dead

Proven(i, r) ==
    \/ <<i, r.claim, r.commit>> \in base
    \/ seen[i].by # "nothing" /\ seen[i].claim = r.claim
    \/ ruling = [issue |-> i, merged |-> TRUE]

LetGo(i, r, n) ==
    /\ Owned(r) /\ r.phase # "complete"
    /\ n.owner = NoLane /\ n.claim = r.claim /\ n.offer = NoOffer
    /\ n.phase # "running"
    /\ n.waits \subseteq r.waits /\ Named(n) \subseteq Named(r)
    /\ n.phase = "complete" => Proven(i, r)

(* Of the ledger.  A diff leaves the disk only with the one record that
   names it. *)
OneDrops ==
    \E i \in Issue :
        diffs \ diffs' \subseteq Named(record[i]) \ Named(record'[i])

DiffsShrink == diffs' = diffs \/ (diffs' \subseteq diffs /\ OneDrops)

Quiet == DiffsShrink /\ \A i \in Issue : Kept(record[i], record'[i])

OneMoves ==
    /\ DiffsShrink
    /\ \E i \in Issue :
        /\ Passed(record[i], record'[i]) \/ LetGo(i, record[i], record'[i])
        /\ record'[i].phase = "complete" =>
              \A j \in Issue : i \notin record'[j].waits
        /\ \A j \in Issue \ {i} : /\ Kept(record[j], record'[j])
                                  /\ record'[j].offer = record[j].offer

OneWaits ==
    /\ diffs' = diffs
    /\ \E i, j \in Issue :
        /\ i # j /\ record[j].phase # "complete" /\ ~Reaches(record, j, i)
        /\ Alike(record[i], record'[i])
        /\ record'[i].waits = record[i].waits \cup {j}
        /\ Named(record'[i]) \subseteq Named(record[i])
        /\ ~Resumed(record[i], record'[i])
        /\ \A k \in Issue \ {i} : Kept(record[k], record'[k])

OneAttaches ==
    \E i \in Issue, d \in Diff \ diffs :
        /\ diffs' = diffs \cup {d}
        /\ Alike(record[i], record'[i])
        /\ record'[i].waits = record[i].waits
        /\ record'[i].phase = record[i].phase
        /\ Named(record'[i]) = Named(record[i]) \cup {d}
        /\ \A k \in Issue \ {i} : record'[k] = record[k]

LedgerStep ==
    /\ record' \in [Issue -> Sound] /\ diffs' \subseteq Diff
    /\ Quiet \/ OneMoves \/ OneWaits \/ OneAttaches

-----------------------------------------------------------------------------
(* The records the actions write.                                          *)

LEMMA Constants ==
  /\ NoLane \notin Lane /\ NoLane \in MaybeLane /\ Lane \subseteq MaybeLane
  /\ MaxClaims \in Nat /\ MaxDiffs \in Nat /\ MaxDeaths \in Nat
  /\ 0 \in ClaimId /\ 0 \in 0..MaxDiffs /\ 0 \in 0..MaxDeaths
BY ConstantsAssumption DEF MaybeLane, ClaimId

LEMMA Nothings ==
  /\ NoOffer \in Offer /\ NoRequest \in Request
  /\ NoOrphan \in Orphan /\ NoPrompt \in Prompt
BY Constants DEF NoOffer, Offer, NoRequest, Request, NoOrphan, Orphan,
                 NoPrompt, Prompt, Due

LEMMA UnseenSound == Unseen \in Sound
<1>1. Unseen \in Record
  BY Constants, Nothings DEF Unseen, Record, Phase
<1> QED
  BY <1>1 DEF Unseen, Sound, SoundRecord, Held, AsksOthers, MarkIsCurrent,
              Reported, Resumes, OwnDiffs, Owned

(* Appending to the history changes what no other part of a record reads. *)
LEMMA LoggedFields ==
  ASSUME NEW r \in Record
  PROVE  /\ Logged(r) \in Record
         /\ Logged(r).owner = r.owner /\ Logged(r).claim = r.claim
         /\ Logged(r).phase = r.phase /\ Logged(r).commit = r.commit
         /\ Logged(r).offer = r.offer /\ Logged(r).request = r.request
         /\ Logged(r).orphan = r.orphan /\ Logged(r).ended = r.ended
         /\ Logged(r).waits = r.waits /\ Logged(r).handoff = r.handoff
         /\ Logged(r).resume = r.resume
BY DEF Logged, Record, Prompt

(* A record that differs from a sound one in nothing its parts read. *)
LEMMA SameSound ==
  ASSUME NEW r \in Sound, NEW n \in Record,
         n.owner = r.owner, n.claim = r.claim, n.phase = r.phase,
         n.commit = r.commit, n.offer = r.offer, n.request = r.request,
         n.orphan = r.orphan, n.ended = r.ended, n.resume = r.resume,
         n.handoff = r.handoff, n.waits = r.waits
  PROVE  n \in Sound /\ Kept(r, n)
BY DEF Sound, SoundRecord, Held, AsksOthers, MarkIsCurrent, Reported, Resumes,
       OwnDiffs, Named, Owned, Kept, Alike, Resumed

LEMMA ItselfKept == \A r : r \in Sound => Kept(r, r)
BY DEF Kept, Alike, Resumed

(* A record that differs from a sound one in what is asked of its owner. *)
LEMMA AskedSound ==
  ASSUME NEW r \in Sound, NEW n \in Record,
         n.owner = r.owner, n.claim = r.claim, n.phase = r.phase,
         n.commit = r.commit, n.orphan = r.orphan, n.ended = r.ended,
         n.resume = r.resume, n.handoff = r.handoff, n.waits = r.waits,
         n.offer.diff \in {0, r.offer.diff},
         AsksOthers(n)
  PROVE  n \in Sound /\ Kept(r, n)
BY DEF Sound, SoundRecord, Held, MarkIsCurrent, Reported, Resumes, OwnDiffs,
       Named, Owned, Kept, Alike, Resumed

(* A record whose owner reports of its work. *)
LEMMA ReportedSound ==
  ASSUME NEW r \in Sound, NEW n \in Record, Owned(r),
         n.owner = r.owner, n.claim = r.claim, n.offer = r.offer,
         n.request # NoRequest => r.request # NoRequest,
         n.request.to = r.request.to,
         n.orphan = r.orphan, n.ended = r.ended, n.handoff = r.handoff,
         n.phase \in {"running", "blocked", "ready", "recovery"},
         Reported(n), Resumes(n)
  PROVE  n \in Sound /\ Alike(r, n) /\ Named(n) = Named(r)
BY DEF Sound, SoundRecord, Held, AsksOthers, MarkIsCurrent, OwnDiffs, Owned,
       Alike, Named

(* A record nobody owns any more. *)
LEMMA UnownedSound ==
  ASSUME NEW n \in Record, n.owner = NoLane, n.offer = NoOffer,
         n.request = NoRequest, n.phase \in {"queued", "blocked", "complete"},
         n.resume = {}
  PROVE  n \in Sound
BY DEF Sound, SoundRecord, Held, AsksOthers, MarkIsCurrent, Reported, Resumes,
       OwnDiffs, Owned, NoOffer

(* A new claim. *)
LEMMA ClaimedSound ==
  ASSUME NEW r \in Sound, NEW l \in Lane, r.claim < MaxClaims
  PROVE  LET n == Claimed(r, l)
         IN  /\ n \in Sound
             /\ n.owner = l /\ n.claim = r.claim + 1 /\ n.phase = "running"
             /\ n.offer = NoOffer /\ n.request = NoRequest
             /\ n.orphan = NoOrphan /\ n.ended = FALSE /\ n.waits = r.waits
             /\ n.commit = 0 /\ n.resume = {} /\ n.handoff = r.handoff
<1> DEFINE n == Claimed(r, l)
<1>1. /\ r \in Record /\ Logged(r) \in Record
      /\ Logged(r).waits = r.waits /\ Logged(r).handoff = r.handoff
      /\ r.claim \in ClaimId
  BY LoggedFields DEF Sound, Record
<1>2. r.claim + 1 \in ClaimId
  BY <1>1, Constants DEF ClaimId
<1>3. n \in Record
  BY <1>1, <1>2, Constants, Nothings DEF Claimed, Record, Phase
<1>4. /\ n.owner = l /\ n.claim = r.claim + 1 /\ n.phase = "running"
      /\ n.offer = NoOffer /\ n.request = NoRequest
      /\ n.orphan = NoOrphan /\ n.ended = FALSE /\ n.waits = r.waits
      /\ n.commit = 0 /\ n.resume = {} /\ n.handoff = r.handoff
  BY <1>1 DEF Claimed, Record
<1>5. n \in Sound
  <2> HIDE DEF n
  <2> QED
    BY <1>3, <1>4, Constants
       DEF Sound, SoundRecord, Held, AsksOthers, MarkIsCurrent, Reported,
           Resumes, OwnDiffs, Owned, NoOffer
<1> QED
  BY <1>4, <1>5

LEMMA FreshSound ==
  ASSUME NEW r \in Sound, NEW l \in Lane, r.claim < MaxClaims,
         NEW h \in 0..MaxDiffs
  PROVE  LET n == FreshlyClaimed(r, l, h)
         IN  /\ n \in Sound
             /\ n.owner = l /\ n.claim = r.claim + 1 /\ n.phase = "running"
             /\ n.offer = NoOffer /\ n.waits = r.waits /\ n.handoff = h
<1> DEFINE c == Claimed(r, l)
           n == [c EXCEPT !.handoff = h, !.prompt = NoPrompt, !.escalated = 0]
<1>1. /\ c \in Sound /\ c.owner = l /\ c.claim = r.claim + 1
      /\ c.phase = "running" /\ c.offer = NoOffer /\ c.waits = r.waits
  BY ClaimedSound
<1> HIDE DEF c
<1>2. n \in Record
  BY <1>1, Constants, Nothings DEF Sound, Record
<1>3. /\ n.owner = c.owner /\ n.claim = c.claim /\ n.phase = c.phase
      /\ n.commit = c.commit /\ n.offer = c.offer /\ n.request = c.request
      /\ n.orphan = c.orphan /\ n.ended = c.ended /\ n.waits = c.waits
      /\ n.handoff = h /\ n.resume = c.resume
  BY <1>1 DEF Sound, Record
<1>4. n \in Sound
  <2> HIDE DEF n
  <2> QED
    BY <1>1, <1>2, <1>3
       DEF Sound, SoundRecord, Held, AsksOthers, MarkIsCurrent, Reported,
           Resumes, OwnDiffs, Owned, NoOffer
<1> QED
  BY <1>1, <1>3, <1>4 DEF FreshlyClaimed, c

-----------------------------------------------------------------------------
(* Writing one record, or settling what waits on satisfied ones.           *)

LEMMA WriteQuiet ==
  ASSUME Inv, NEW i \in Issue, NEW n, n \in Sound, Kept(record[i], n),
         Write(i, n), diffs' = diffs
  PROVE  LedgerStep
<1>1. record' \in [Issue -> Sound]
  BY DEF Inv, Write
<1>2. \A k \in Issue : Kept(record[k], record'[k])
  BY ItselfKept DEF Inv, Write
<1> QED
  BY <1>1, <1>2 DEF LedgerStep, Quiet, DiffsShrink, Inv, TypeOK

(* The same when a diff the record named leaves the disk. *)
LEMMA WriteDrops ==
  ASSUME Inv, NEW i \in Issue, NEW n, n \in Sound, Kept(record[i], n),
         Write(i, n), NEW D, diffs' = diffs \ D,
         D \subseteq Named(record[i]) \cup {0}, D \cap Named(n) = {}
  PROVE  LedgerStep
<1>1. record' \in [Issue -> Sound]
  BY DEF Inv, Write
<1>2. \A k \in Issue : Kept(record[k], record'[k])
  BY ItselfKept DEF Inv, Write
<1>3. record'[i] = n /\ 0 \notin diffs /\ diffs \subseteq Diff
  BY Constants DEF Inv, Write, TypeOK, Diff
<1>4. DiffsShrink
  BY <1>3 DEF DiffsShrink, OneDrops, Named
<1> QED
  BY <1>1, <1>2, <1>3, <1>4 DEF LedgerStep, Quiet

LEMMA WriteMoves ==
  ASSUME Inv, NEW i \in Issue, NEW n, n \in Sound, n.phase # "complete",
         Passed(record[i], n) \/ LetGo(i, record[i], n), Write(i, n),
         NEW D, diffs' = diffs \ D,
         D \subseteq Named(record[i]) \cup {0}, D \cap Named(n) = {}
  PROVE  LedgerStep
<1>1. record' \in [Issue -> Sound]
  BY DEF Inv, Write
<1>2. \A k \in Issue \ {i} : /\ Kept(record[k], record'[k])
                             /\ record'[k].offer = record[k].offer
  BY ItselfKept DEF Inv, Write
<1>3. record'[i] = n /\ 0 \notin diffs /\ diffs \subseteq Diff
  BY Constants DEF Inv, Write, TypeOK, Diff
<1>4. DiffsShrink
  BY <1>3 DEF DiffsShrink, OneDrops, Named
<1>5. OneMoves
  BY <1>2, <1>3, <1>4 DEF OneMoves
<1> QED
  BY <1>1, <1>3, <1>5 DEF LedgerStep

LEMMA WriteMovesOnly ==
  ASSUME Inv, NEW i \in Issue, NEW n, n \in Sound, n.phase # "complete",
         Passed(record[i], n) \/ LetGo(i, record[i], n), Write(i, n),
         diffs' = diffs
  PROVE  LedgerStep
<1> DEFINE D == {}
<1>1. /\ diffs' = diffs \ D
      /\ D \subseteq Named(record[i]) \cup {0} /\ D \cap Named(n) = {}
  OBVIOUS
<1> HIDE DEF D
<1> QED
  BY <1>1, WriteMoves

LEMMA NothingWritten ==
  ASSUME Inv, record' = record, diffs' = diffs
  PROVE  LedgerStep
BY ItselfKept DEF Inv, TypeOK, LedgerStep, Quiet, DiffsShrink

(* Settling frees a record of what it waited on and otherwise keeps it. *)
LEMMA ReconcileSound ==
  ASSUME NEW rec \in [Issue -> Sound], NEW S \in SUBSET Issue, NEW i \in Issue
  PROVE  LET r == rec[i]
             n == Reconcile(rec, S)[i]
         IN  /\ n \in Sound /\ Kept(r, n)
             /\ n.offer = r.offer /\ n.handoff = r.handoff
             /\ n.waits = r.waits \ S
             /\ r.phase # "blocked" => n.phase = r.phase
<1> DEFINE r == rec[i]
           left == r.waits \ S
           ph == IF Owned(r) THEN "running" ELSE "queued"
           freed == [r EXCEPT !.waits = left, !.phase = ph, !.resume = {}]
           fewer == [r EXCEPT !.waits = left]
           n == Reconcile(rec, S)[i]
<1>1. r \in Sound /\ r \in Record /\ left \subseteq Issue
      /\ r.waits \subseteq Issue
  BY DEF Sound, Record
<1>2. \/ n = r /\ left = r.waits
      \/ n = freed /\ left = {} /\ r.phase = "blocked"
      \/ n = fewer
  BY DEF Reconcile
<1>3. CASE n = r /\ left = r.waits
  BY <1>1, <1>3, ItselfKept
<1>4. CASE n = freed /\ left = {} /\ r.phase = "blocked"
  <2>1. /\ freed \in Record
        /\ freed.owner = r.owner /\ freed.claim = r.claim
        /\ freed.phase = ph /\ freed.commit = r.commit
        /\ freed.offer = r.offer /\ freed.request = r.request
        /\ freed.orphan = r.orphan /\ freed.ended = r.ended
        /\ freed.resume = {} /\ freed.handoff = r.handoff
        /\ freed.waits = left
    BY <1>1 DEF Record, Phase
  <2> HIDE DEF freed
  <2>2. freed \in Sound
    BY <1>1, <1>4, <2>1
       DEF Sound, SoundRecord, Held, AsksOthers, MarkIsCurrent, Reported,
           Resumes, OwnDiffs, Owned
  <2>3. Kept(r, freed)
    BY <1>4, <2>1 DEF Kept, Alike, Resumed, Named
  <2> QED
    BY <1>4, <2>1, <2>2, <2>3
<1>5. CASE n = fewer
  <2>1. /\ fewer \in Record
        /\ fewer.owner = r.owner /\ fewer.claim = r.claim
        /\ fewer.phase = r.phase /\ fewer.commit = r.commit
        /\ fewer.offer = r.offer /\ fewer.request = r.request
        /\ fewer.orphan = r.orphan /\ fewer.ended = r.ended
        /\ fewer.resume = r.resume /\ fewer.handoff = r.handoff
        /\ fewer.waits = left
    BY <1>1 DEF Record
  <2> HIDE DEF fewer
  <2>2. fewer \in Sound
    BY <1>1, <2>1
       DEF Sound, SoundRecord, Held, AsksOthers, MarkIsCurrent, Reported,
           Resumes, OwnDiffs, Owned
  <2>3. Kept(r, fewer)
    BY <1>1, <2>1 DEF Kept, Alike, Resumed, Named
  <2> QED
    BY <1>5, <2>1, <2>2, <2>3
<1> QED
  BY <1>2, <1>3, <1>4, <1>5

LEMMA ReconcileType ==
  ASSUME NEW rec \in [Issue -> Sound], NEW S \in SUBSET Issue
  PROVE  Reconcile(rec, S) \in [Issue -> Sound]
<1>1. Reconcile(rec, S) = [i \in Issue |-> Reconcile(rec, S)[i]]
  BY DEF Reconcile
<1>2. \A i \in Issue : Reconcile(rec, S)[i] \in Sound
  BY ReconcileSound
<1> QED
  BY <1>1, <1>2

-----------------------------------------------------------------------------
(* Each action writes sound records and is a step of one of the shapes.    *)

LEMMA RecordOf ==
  ASSUME Inv, NEW i \in Issue
  PROVE  record[i] \in Sound /\ record[i] \in Record /\ SoundRecord(record[i])
BY DEF Inv, Sound

(* A claim that takes what an offer, the free ledger, an orphan mark or the
   lane's own claim gives it. *)
LEMMA FreshStep ==
  ASSUME Inv, NEW l \in Lane, NEW i \in Issue, NEW h \in {0, record[i].handoff},
         record[i].phase # "complete", record[i].claim < MaxClaims,
         \/ record[i].owner = l
         \/ ~Owned(record[i]) /\ record[i].offer = NoOffer
         \/ /\ record[i].orphan.of = record[i].owner
            /\ record[i].orphan.claim = record[i].claim
            /\ record[i].owner \in dead,
         Write(i, FreshlyClaimed(record[i], l, h)), diffs' = diffs
  PROVE  LedgerStep
<1> DEFINE r == record[i]
           n == FreshlyClaimed(r, l, h)
<1>1. r \in Sound /\ r \in Record /\ h \in 0..MaxDiffs
  BY RecordOf, Constants DEF Record
<1>2. /\ n \in Sound
      /\ n.owner = l /\ n.claim = r.claim + 1 /\ n.phase = "running"
      /\ n.offer = NoOffer /\ n.waits = r.waits /\ n.handoff = h
  BY <1>1, FreshSound
<1>3. Passed(r, n) /\ Write(i, n)
  <2> HIDE DEF n
  <2>1. Named(n) \subseteq Named(r)
    BY <1>2 DEF Named, NoOffer
  <2>2. Passed(r, n)
    BY <1>2, <2>1 DEF Passed
  <2> QED
    BY <2>2 DEF n
<1> HIDE DEF n
<1> QED
  BY <1>2, <1>3, WriteMovesOnly

LEMMA ClaimStep ==
  ASSUME Inv, NEW l \in Lane, NEW i \in Issue, Claim(l, i)
  PROVE  LedgerStep
<1> DEFINE r == record[i]
           h == IF r.owner = l THEN r.handoff ELSE 0
<1>1. h \in {0, r.handoff}
  OBVIOUS
<1>2. /\ r.phase # "complete" /\ r.claim < MaxClaims
      /\ r.owner = l \/ (~Owned(r) /\ r.offer = NoOffer)
      /\ Write(i, FreshlyClaimed(r, l, h)) /\ diffs' = diffs
  BY DEF Claim, LedgerAlone
<1> HIDE DEF h
<1> QED
  BY <1>1, <1>2, FreshStep

LEMMA TakeStep ==
  ASSUME Inv, NEW l \in Lane, NEW i \in Issue, Take(l, i)
  PROVE  LedgerStep
<1> DEFINE r == record[i]
<1>1. diffs' = diffs /\ (record' = record \/ (/\ Owned(r) /\ r.orphan.of = r.owner
                             /\ r.owner \in dead /\ r.claim < MaxClaims
                             /\ Write(i, FreshlyClaimed(r, l, r.handoff))))
  BY DEF Take
<1>2. CASE record' = record
  BY <1>1, <1>2, NothingWritten
<1>3. CASE record' # record
  <2>1. r \in Sound /\ SoundRecord(r) /\ r.phase # "complete"
    BY <1>1, <1>3, RecordOf DEF SoundRecord, Held
  <2>2. r.orphan # NoOrphan
    BY <1>1, <1>3 DEF Owned, NoOrphan
  <2>3. r.orphan.claim = r.claim
    BY <1>1, <1>3, <2>1, <2>2 DEF SoundRecord, MarkIsCurrent
  <2> QED
    BY <1>1, <1>3, <2>1, <2>3, FreshStep
<1> QED
  BY <1>2, <1>3

LEMMA AcceptStep ==
  ASSUME Inv, NEW l \in Lane, NEW i \in Issue, Accept(l, i)
  PROVE  LedgerStep
<1> DEFINE r == record[i]
           c == Claimed(r, l)
           n == [c EXCEPT !.handoff = r.offer.diff]
<1>1. /\ r \in Sound /\ r \in Record /\ r.offer.diff \in 0..MaxDiffs
      /\ r.offer.to = l /\ r.phase # "complete" /\ r.claim < MaxClaims
      /\ Write(i, n) /\ diffs' = diffs
  BY RecordOf DEF Accept, LedgerAlone, Record, Offer
<1>2. /\ c \in Sound /\ c.owner = l /\ c.claim = r.claim + 1
      /\ c.phase = "running" /\ c.offer = NoOffer /\ c.waits = r.waits
      /\ c.orphan = NoOrphan /\ c.request = NoRequest /\ ~c.ended
      /\ c.resume = {}
  BY <1>1, ClaimedSound
<1> HIDE DEF c
<1>3. /\ n \in Record
      /\ n.owner = l /\ n.claim = r.claim + 1 /\ n.phase = "running"
      /\ n.offer = NoOffer /\ n.waits = r.waits /\ n.handoff = r.offer.diff
      /\ n.orphan = NoOrphan /\ n.request = NoRequest /\ ~n.ended
      /\ n.resume = {}
  BY <1>1, <1>2 DEF Sound, Record
<1> HIDE DEF n
<1>4. n \in Sound
  BY <1>3, Constants
     DEF Sound, SoundRecord, Held, AsksOthers, MarkIsCurrent, Reported,
         Resumes, OwnDiffs, Owned, NoOffer
<1>5. Passed(r, n)
  BY <1>1, <1>3 DEF Passed, Named, NoOffer
<1> QED
  BY <1>1, <1>3, <1>4, <1>5, WriteMovesOnly

LEMMA ReleaseStep ==
  ASSUME Inv, NEW i \in Issue, Release(i)
  PROVE  LedgerStep
<1> DEFINE r == record[i]
           g == Logged(r)
           ph == IF ~Closed(r) /\ OperatorBlocked(r) THEN "blocked" ELSE "queued"
           left == [Unowned(g) EXCEPT
                      !.phase = ph, !.resume = {}, !.orphan = NoOrphan,
                      !.handoff = 0, !.released = TRUE]
           n == IF Closed(r) THEN EndOnForge(left) ELSE left
           D == {r.offer.diff, r.handoff}
<1>1. /\ r \in Sound /\ r \in Record /\ SoundRecord(r)
      /\ g \in Record /\ g.waits = r.waits /\ g.claim = r.claim
      /\ ph \in {"blocked", "queued"}
  BY RecordOf, LoggedFields
<1>2. Owned(r) /\ Write(i, n) /\ diffs' = diffs \ D
  BY DEF Release
<1> HIDE DEF g, ph
<1>3. /\ left \in Record
      /\ left.owner = NoLane /\ left.offer = NoOffer
      /\ left.request = NoRequest /\ left.phase = ph /\ left.resume = {}
      /\ left.waits = r.waits /\ left.claim = r.claim /\ left.handoff = 0
  BY <1>1, Constants, Nothings DEF Unowned, Record, Phase
<1> HIDE DEF left
<1>4. /\ n \in Record
      /\ n.owner = NoLane /\ n.offer = NoOffer
      /\ n.request = NoRequest /\ n.phase = ph /\ n.resume = {}
      /\ n.waits = r.waits /\ n.claim = r.claim /\ n.handoff = 0
  BY <1>3 DEF EndOnForge, Record
<1> HIDE DEF n
<1>5. n \in Sound
  BY <1>1, <1>4, UnownedSound
<1>6. Named(n) = {} /\ LetGo(i, r, n)
  BY <1>1, <1>2, <1>4 DEF LetGo, Named, NoOffer, SoundRecord, Held
<1>7. D \subseteq Named(r) \cup {0} /\ D \cap Named(n) = {}
  BY <1>6 DEF Named
<1> QED
  BY <1>1, <1>2, <1>4, <1>5, <1>6, <1>7, WriteMoves

(* Offers and requests.  What is written differs from a logged record, which
   may also have been authorized, in the offer and the request only. *)
LEMMA AskedFields ==
  ASSUME NEW r \in Sound, NEW g \in Record, NEW q \in Request, NEW o \in Offer,
         g = Logged(r) \/ g = [Logged(r) EXCEPT !.auth = TRUE],
         q # NoRequest => Owned(r) /\ q.to # r.owner,
         o # NoOffer => o.to # r.owner,
         o.diff \in {0, r.offer.diff}
  PROVE  LET n == [g EXCEPT !.request = q, !.offer = o]
         IN  n \in Sound /\ Kept(r, n) /\ n.offer = o
<1> DEFINE n == [g EXCEPT !.request = q, !.offer = o]
<1>1. /\ r \in Record
      /\ g.owner = r.owner /\ g.claim = r.claim
      /\ g.phase = r.phase /\ g.commit = r.commit
      /\ g.orphan = r.orphan /\ g.ended = r.ended
      /\ g.waits = r.waits /\ g.handoff = r.handoff
      /\ g.resume = r.resume
  BY LoggedFields DEF Sound, Record
<1>2. /\ n \in Record
      /\ n.owner = r.owner /\ n.claim = r.claim
      /\ n.phase = r.phase /\ n.commit = r.commit
      /\ n.orphan = r.orphan /\ n.ended = r.ended
      /\ n.waits = r.waits /\ n.handoff = r.handoff
      /\ n.resume = r.resume
      /\ n.request = q /\ n.offer = o
  BY <1>1 DEF Record
<1> HIDE DEF n
<1>3. AsksOthers(n)
  BY <1>2 DEF AsksOthers, Owned
<1>4. n \in Sound /\ Kept(r, n)
  BY <1>2, <1>3, AskedSound
<1> QED
  BY <1>2, <1>4 DEF n

LEMMA OfferedSound ==
  ASSUME NEW r \in Sound, NEW o \in Offer,
         o # NoOffer => o.to # r.owner,
         o.diff \in {0, r.offer.diff}
  PROVE  LET n == [Logged(r) EXCEPT !.offer = o]
         IN  n \in Sound /\ Kept(r, n) /\ n.offer = o
<1> DEFINE g == Logged(r)
<1>1. /\ r \in Record /\ g \in Record /\ g.request = r.request
      /\ r.request \in Request /\ r.offer \in Offer
      /\ r.request # NoRequest => Owned(r) /\ r.request.to # r.owner
  BY LoggedFields DEF Sound, Record, SoundRecord, AsksOthers
<1> DEFINE q == r.request
<1> HIDE DEF q
<1>2. /\ [g EXCEPT !.request = q, !.offer = o] \in Sound
      /\ Kept(r, [g EXCEPT !.request = q, !.offer = o])
      /\ [g EXCEPT !.request = q, !.offer = o].offer = o
  BY <1>1, AskedFields DEF q
<1> HIDE DEF g
<1>3. [g EXCEPT !.offer = o] = [g EXCEPT !.request = q, !.offer = o]
  BY <1>1 DEF Record, q
<1> QED
  BY <1>2, <1>3 DEF g

LEMMA RequestedSound ==
  ASSUME NEW r \in Sound, NEW q \in Request,
         q # NoRequest => Owned(r) /\ q.to # r.owner
  PROVE  LET n == [Logged(r) EXCEPT !.request = q]
         IN  n \in Sound /\ Kept(r, n)
<1> DEFINE g == Logged(r)
<1>1. /\ r \in Record /\ g \in Record /\ g.offer = r.offer
      /\ r.offer \in Offer /\ SoundRecord(r)
  BY LoggedFields DEF Sound, Record
<1>2. /\ [g EXCEPT !.request = q, !.offer = r.offer] \in Sound
      /\ Kept(r, [g EXCEPT !.request = q, !.offer = r.offer])
  BY <1>1, AskedFields DEF SoundRecord, AsksOthers
<1> HIDE DEF g
<1>3. [g EXCEPT !.request = q] = [g EXCEPT !.request = q, !.offer = r.offer]
  BY <1>1 DEF Record
<1> QED
  BY <1>2, <1>3 DEF g

(* A request that becomes an offer to the lane that asked. *)
LEMMA GrantedSound ==
  ASSUME NEW r \in Sound, r.request # NoRequest, NEW o \in Offer,
         o.to = r.request.to, o.diff = 0
  PROVE  LET n == [Logged(r) EXCEPT !.request = NoRequest, !.offer = o]
         IN  n \in Sound /\ Kept(r, n)
BY AskedFields, LoggedFields, Nothings
   DEF Sound, SoundRecord, AsksOthers

LEMMA AssignStep ==
  ASSUME Inv, NEW i \in Issue, NEW l \in Lane, Assign(i, l)
  PROVE  LedgerStep
<1> DEFINE r == record[i]
           g == [Logged(r) EXCEPT !.auth = TRUE]
           q == [NoRequest EXCEPT !.to = l, !.source = "operator"]
           o(due) == OperatorOffer(l, "operator", due)
<1>1. /\ r \in Sound /\ r \in Record /\ Logged(r) \in Record
      /\ Logged(r).owner = r.owner /\ Logged(r).offer = r.offer
      /\ Logged(r).request = r.request
      /\ l # r.owner /\ r.offer = NoOffer /\ r.request = NoRequest
      /\ diffs' = diffs
  <2>1. r \in Sound /\ r \in Record
    BY RecordOf
  <2>2. /\ Logged(r) \in Record /\ Logged(r).owner = r.owner
        /\ Logged(r).offer = r.offer /\ Logged(r).request = r.request
    BY <2>1, LoggedFields DEF Record
  <2>3. /\ l # g.owner /\ g.offer = NoOffer /\ g.request = NoRequest
        /\ diffs' = diffs
    BY DEF Assign, LedgerAlone
  <2>4. g.owner = r.owner /\ g.offer = r.offer /\ g.request = r.request
    BY <2>2 DEF Record
  <2> QED
    BY <2>1, <2>2, <2>3, <2>4
<1>2. /\ g \in Record /\ g.owner = r.owner
      /\ g.offer = NoOffer /\ g.request = NoRequest
  BY <1>1 DEF Record
<1>3. /\ q \in Request /\ q.to = l
      /\ \A due \in Windows : o(due) \in Offer /\ o(due).to = l /\ o(due).diff = 0
  BY Constants, ConstantsAssumption, Nothings
     DEF NoRequest, Request, OperatorOffer, Offer, Due
<1>4. \/ Owned(r) /\ Write(i, [g EXCEPT !.request = q])
      \/ \E due \in Windows : ~Owned(r) /\ Write(i, [g EXCEPT !.offer = o(due)])
  BY <1>2 DEF Assign, Owned
<1>5. /\ [g EXCEPT !.request = q] = [g EXCEPT !.request = q, !.offer = NoOffer]
      /\ \A due : [g EXCEPT !.offer = o(due)]
                   = [g EXCEPT !.request = NoRequest, !.offer = o(due)]
  <2> HIDE DEF g, q, o
  <2> QED
    BY <1>2 DEF Record
<1>6. Owned(r) => /\ [g EXCEPT !.request = q, !.offer = NoOffer] \in Sound
                  /\ Kept(r, [g EXCEPT !.request = q, !.offer = NoOffer])
  <2> HIDE DEF q
  <2> QED
    BY <1>1, <1>2, <1>3, Nothings, AskedFields DEF NoOffer
<1>7. ASSUME NEW due \in Windows
      PROVE  /\ [g EXCEPT !.request = NoRequest, !.offer = o(due)] \in Sound
             /\ Kept(r, [g EXCEPT !.request = NoRequest, !.offer = o(due)])
  <2> HIDE DEF o
  <2> QED
    BY <1>1, <1>2, <1>3, Nothings, AskedFields
<1> HIDE DEF g, q, o
<1> QED
  BY <1>1, <1>4, <1>5, <1>6, <1>7, WriteQuiet

LEMMA UnassignStep ==
  ASSUME Inv, NEW i \in Issue, Unassign(i)
  PROVE  LedgerStep
<1>1. record[i] \in Sound
  BY RecordOf
<1>2. CASE Write(i, [Logged(record[i]) EXCEPT !.request = NoRequest])
  BY <1>1, <1>2, RequestedSound, Nothings, WriteQuiet
     DEF Unassign, LedgerAlone
<1>3. CASE Write(i, [Logged(record[i]) EXCEPT !.offer = NoOffer])
  <2>1. NoOffer.diff = 0
    BY DEF NoOffer
  <2> QED
    BY <1>1, <1>3, <2>1, OfferedSound, Nothings, WriteQuiet
       DEF Unassign, LedgerAlone
<1> QED
  BY <1>2, <1>3 DEF Unassign

LEMMA RequestTakeoverStep ==
  ASSUME Inv, NEW l \in Lane, NEW i \in Issue, RequestTakeover(l, i)
  PROVE  LedgerStep
<1> DEFINE q == [NoRequest EXCEPT !.to = l]
<1>1. record[i] \in Sound
  BY RecordOf
<1>2. q \in Request /\ q.to = l
  BY Constants, Nothings DEF NoRequest, Request
<1>3. /\ Owned(record[i]) /\ record[i].owner # l /\ diffs' = diffs
      /\ Write(i, [Logged(record[i]) EXCEPT !.request = q])
  BY DEF RequestTakeover, LedgerAlone
<1> HIDE DEF q
<1> QED
  BY <1>1, <1>2, <1>3, RequestedSound, WriteQuiet

LEMMA AuthorizeStep ==
  ASSUME Inv, NEW i \in Issue, Authorize(i)
  PROVE  LedgerStep
<1> DEFINE r == record[i]
           o(due) == OperatorOffer(r.request.to, r.request.source, due)
<1>1. r \in Sound /\ r \in Record
  BY RecordOf
<1>2. PICK due \in Windows :
         Write(i, [Logged(r) EXCEPT !.request = NoRequest, !.offer = o(due)])
  BY DEF Authorize
<1>3. o(due) \in Offer /\ o(due).to = r.request.to /\ o(due).diff = 0
  BY <1>1, ConstantsAssumption DEF Record, Request, OperatorOffer, Offer, Due
<1>4. r.request # NoRequest /\ diffs' = diffs
  BY DEF Authorize, LedgerAlone
<1> HIDE DEF o
<1> QED
  BY <1>1, <1>2, <1>3, <1>4, GrantedSound, WriteQuiet

LEMMA RefuseStep ==
  ASSUME Inv, NEW i \in Issue, Refuse(i)
  PROVE  LedgerStep
BY RecordOf, RequestedSound, Nothings, WriteQuiet DEF Refuse, LedgerAlone

(* An offer that ends takes its diff from the disk with it. *)
LEMMA DropStep ==
  ASSUME Inv, NEW i \in Issue,
         Write(i, [Logged(record[i]) EXCEPT !.offer = NoOffer]),
         DropOffer(record[i])
  PROVE  LedgerStep
<1> DEFINE r == record[i]
           n == [Logged(r) EXCEPT !.offer = NoOffer]
           D == {r.offer.diff}
<1>1. r \in Sound /\ r \in Record /\ SoundRecord(r)
  BY RecordOf
<1>2. /\ n.handoff = r.handoff /\ n.offer = NoOffer /\ NoOffer.diff = 0
  BY <1>1, LoggedFields DEF Record, NoOffer
<1>3. n \in Sound /\ Kept(r, n)
  BY <1>1, <1>2, Nothings, OfferedSound
<1> HIDE DEF n
<1>4. D \subseteq Named(r) \cup {0} /\ D \cap Named(n) = {}
  BY <1>1, <1>2 DEF Named, SoundRecord, OwnDiffs
<1>5. Write(i, n) /\ diffs' = diffs \ D
  BY DEF DropOffer, n
<1> HIDE DEF D
<1> QED
  BY <1>3, <1>4, <1>5, WriteDrops

LEMMA CancelStep ==
  ASSUME Inv, NEW i \in Issue, Cancel(i)
  PROVE  LedgerStep
BY DropStep DEF Cancel, CancelOffer

LEMMA DeclineStep ==
  ASSUME Inv, NEW i \in Issue, Decline(i)
  PROVE  LedgerStep
BY DropStep DEF Decline

LEMMA ExpireOfferStep ==
  ASSUME Inv, NEW i \in Issue, ExpireOffer(i)
  PROVE  LedgerStep
BY DropStep, NothingWritten DEF ExpireOffer, CancelOffer

LEMMA OfferIssueStep ==
  ASSUME Inv, NEW i \in Issue, NEW l \in Lane, NEW due \in Windows,
         NEW d \in {0} \cup (Diff \ diffs), OfferIssue(i, l, due, d)
  PROVE  LedgerStep
<1> DEFINE r == record[i]
           g == Logged(r)
           o == [to |-> l, source |-> "peer", due |-> due, diff |-> d]
           n == [g EXCEPT !.offer = o]
<1>1. /\ r \in Sound /\ r \in Record /\ SoundRecord(r)
      /\ Owned(r) /\ l # r.owner /\ r.offer = NoOffer /\ NoOffer.diff = 0
      /\ Write(i, n) /\ diffs' = diffs \cup ({d} \ {0})
  BY RecordOf DEF OfferIssue, NoOffer
<1>2. o \in Offer /\ o.to = l /\ o.diff = d
  BY Constants, ConstantsAssumption DEF Offer, Due, Diff
<1>3. CASE d = 0
  <2>1. n \in Sound /\ Kept(r, n)
    BY <1>1, <1>2, <1>3, OfferedSound
  <2>2. diffs' = diffs
    BY <1>1, <1>3
  <2> QED
    BY <1>1, <2>1, <2>2, WriteQuiet
<1>4. CASE d # 0 /\ d \in Diff \ diffs
  <2>1. /\ g \in Record
        /\ g.owner = r.owner /\ g.claim = r.claim
        /\ g.phase = r.phase /\ g.commit = r.commit
        /\ g.request = r.request
        /\ g.orphan = r.orphan /\ g.ended = r.ended
        /\ g.waits = r.waits /\ g.handoff = r.handoff
        /\ g.resume = r.resume
    BY <1>1, LoggedFields
  <2> HIDE DEF g, o
  <2>2. /\ n \in Record
        /\ n.owner = r.owner /\ n.claim = r.claim
        /\ n.phase = r.phase /\ n.commit = r.commit
        /\ n.request = r.request
        /\ n.orphan = r.orphan /\ n.ended = r.ended
        /\ n.waits = r.waits /\ n.handoff = r.handoff
        /\ n.resume = r.resume /\ n.offer = o
    BY <1>2, <2>1 DEF Record
  <2> HIDE DEF n
  <2>3. r.handoff # d
    <3>1. Named(r) \subseteq diffs
      BY DEF Inv, PendingDiffsExist, Named
    <3> QED
      BY <1>4, <3>1 DEF Named
  <2>4. n \in Sound
    BY <1>1, <1>2, <2>2, <2>3
       DEF Sound, SoundRecord, Held, AsksOthers, MarkIsCurrent, Reported,
           Resumes, OwnDiffs, Owned
  <2>5. /\ record' \in [Issue -> Sound] /\ record'[i] = n
        /\ \A k \in Issue \ {i} : record'[k] = record[k]
    BY <1>1, <2>4 DEF Inv, Write, n
  <2>6. Alike(r, n) /\ Named(n) = Named(r) \cup {d}
    BY <1>1, <1>2, <1>4, <2>2 DEF Alike, Named
  <2>7. diffs' = diffs \cup {d} /\ diffs' \subseteq Diff
    BY <1>1, <1>4 DEF Inv, TypeOK
  <2> QED
    BY <1>4, <2>2, <2>5, <2>6, <2>7 DEF LedgerStep, OneAttaches
<1> QED
  BY <1>3, <1>4

(* Actions that rewrite every record. *)
LEMMA AllQuiet ==
  ASSUME Inv, record' = [i \in Issue |-> record'[i]], diffs' = diffs,
         \A i \in Issue : record'[i] \in Sound /\ Kept(record[i], record'[i])
  PROVE  LedgerStep
BY DEF LedgerStep, Quiet, DiffsShrink, Inv, TypeOK

LEMMA GrantRequestsStep ==
  ASSUME Inv, GrantRequests
  PROVE  LedgerStep
<1>1. /\ record' = [i \in Issue |-> record'[i]] /\ diffs' = diffs
  BY DEF GrantRequests, LedgerAlone
<1>2. ASSUME NEW i \in Issue
      PROVE  record'[i] \in Sound /\ Kept(record[i], record'[i])
  <2> DEFINE r == record[i]
             o(due) == OperatorOffer(r.request.to, "peer", due)
  <2>1. r \in Sound /\ r \in Record
    BY RecordOf
  <2>2. \/ record'[i] = r
        \/ \E due \in Windows :
              /\ Lapsed(r)
              /\ record'[i] = [Logged(r) EXCEPT !.request = NoRequest,
                                                !.offer = o(due)]
    BY DEF GrantRequests
  <2>3. \A due \in Windows :
           o(due) \in Offer /\ o(due).to = r.request.to /\ o(due).diff = 0
    BY <2>1, ConstantsAssumption DEF Record, Request, OperatorOffer, Offer, Due
  <2>4. Lapsed(r) => r.request # NoRequest
    BY DEF Lapsed, NoRequest
  <2> HIDE DEF o
  <2> QED
    BY <2>1, <2>2, <2>3, <2>4, GrantedSound, ItselfKept
<1> QED
  BY <1>1, <1>2, AllQuiet

LEMMA LapseStep ==
  ASSUME Inv, NEW i \in Issue, Lapse(i)
  PROVE  LedgerStep
<1> DEFINE r == record[i]
           n == [r EXCEPT !.request.grace = "passed"]
           m == [r EXCEPT !.offer.due = "late"]
<1>1. r \in Sound /\ r \in Record /\ SoundRecord(r) /\ diffs' = diffs
  BY RecordOf DEF Lapse, LedgerAlone
<1>2. CASE r.request.to # NoLane /\ Write(i, n)
  <2>1. /\ n \in Record
        /\ n.owner = r.owner /\ n.claim = r.claim /\ n.phase = r.phase
        /\ n.commit = r.commit /\ n.orphan = r.orphan /\ n.ended = r.ended
        /\ n.resume = r.resume /\ n.handoff = r.handoff /\ n.waits = r.waits
        /\ n.offer = r.offer /\ n.request.to = r.request.to
    BY <1>1 DEF Record, Request
  <2> HIDE DEF n
  <2>2. AsksOthers(n)
    BY <1>1, <1>2, <2>1 DEF SoundRecord, AsksOthers, NoRequest, Owned
  <2> QED
    BY <1>1, <1>2, <2>1, <2>2, AskedSound, WriteQuiet
<1>3. CASE r.offer.due = "running" /\ Write(i, m)
  <2>1. /\ m \in Record
        /\ m.owner = r.owner /\ m.claim = r.claim /\ m.phase = r.phase
        /\ m.commit = r.commit /\ m.orphan = r.orphan /\ m.ended = r.ended
        /\ m.resume = r.resume /\ m.handoff = r.handoff /\ m.waits = r.waits
        /\ m.request = r.request /\ m.offer.to = r.offer.to
        /\ m.offer.diff = r.offer.diff
    BY <1>1 DEF Record, Offer, Due
  <2> HIDE DEF m
  <2>2. AsksOthers(m)
    BY <1>1, <1>3, <2>1 DEF SoundRecord, AsksOthers, NoOffer, Owned
  <2> QED
    BY <1>1, <1>3, <2>1, <2>2, AskedSound, WriteQuiet
<1> QED
  BY <1>2, <1>3 DEF Lapse

(* Dependencies.  A record that comes to wait on one issue more. *)
LEMMA WaitsStep ==
  ASSUME Inv, NEW i \in Issue, NEW j \in Issue, i # j,
         record[j].phase # "complete", ~Reaches(record, j, i),
         record' \in [Issue -> Sound], diffs' = diffs,
         Alike(record[i], record'[i]),
         record'[i].waits = record[i].waits \cup {j},
         Named(record'[i]) \subseteq Named(record[i]),
         ~Resumed(record[i], record'[i]),
         \A k \in Issue \ {i} : Kept(record[k], record'[k])
  PROVE  LedgerStep
BY DEF LedgerStep, OneWaits, Inv, TypeOK

LEMMA BlockStep ==
  ASSUME Inv, NEW i \in Issue, NEW j \in Issue, Block(i, j)
  PROVE  LedgerStep
<1> DEFINE r == record[i]
           g == Logged(r)
           n == [g EXCEPT !.waits = r.waits \cup {j}]
<1>1. /\ r \in Sound /\ r \in Record /\ SoundRecord(r)
      /\ i # j /\ record[j].phase # "complete" /\ ~Reaches(record, j, i)
      /\ Write(i, n) /\ diffs' = diffs
  BY RecordOf DEF Block, LedgerAlone, Satisfied
<1>2. /\ g \in Record
      /\ g.owner = r.owner /\ g.claim = r.claim
      /\ g.phase = r.phase /\ g.commit = r.commit
      /\ g.offer = r.offer /\ g.request = r.request
      /\ g.orphan = r.orphan /\ g.ended = r.ended
      /\ g.handoff = r.handoff /\ g.resume = r.resume
  BY <1>1, LoggedFields
<1>3. r.waits \cup {j} \in SUBSET Issue
  BY <1>1 DEF Record
<1> HIDE DEF g
<1>4. /\ n \in Record
      /\ n.owner = r.owner /\ n.claim = r.claim
      /\ n.phase = r.phase /\ n.commit = r.commit
      /\ n.offer = r.offer /\ n.request = r.request
      /\ n.orphan = r.orphan /\ n.ended = r.ended
      /\ n.handoff = r.handoff /\ n.resume = r.resume
      /\ n.waits = r.waits \cup {j}
  BY <1>2, <1>3 DEF Record
<1> HIDE DEF n
<1>5. n \in Sound
  BY <1>1, <1>4
     DEF Sound, SoundRecord, Held, AsksOthers, MarkIsCurrent, Reported,
         Resumes, OwnDiffs, Owned
<1>6. /\ record' \in [Issue -> Sound] /\ record'[i] = n
      /\ \A k \in Issue \ {i} : Kept(record[k], record'[k])
  BY <1>1, <1>5, ItselfKept DEF Inv, Write
<1>7. Alike(r, n) /\ Named(n) = Named(r) /\ ~Resumed(r, n)
  BY <1>4 DEF Alike, Named, Resumed
<1> QED
  BY <1>1, <1>4, <1>6, <1>7, WaitsStep

LEMMA UnblockStep ==
  ASSUME Inv, NEW i \in Issue, NEW j \in Issue, Unblock(i, j)
  PROVE  LedgerStep
<1> DEFINE r == record[i]
           g == Logged(r)
           n == [g EXCEPT !.waits = g.waits \ {j}]
<1>1. /\ r \in Sound /\ r \in Record /\ SoundRecord(r)
      /\ Write(i, n) /\ diffs' = diffs
  BY RecordOf DEF Unblock, LedgerAlone
<1>2. /\ g \in Record
      /\ g.owner = r.owner /\ g.claim = r.claim
      /\ g.phase = r.phase /\ g.commit = r.commit
      /\ g.offer = r.offer /\ g.request = r.request
      /\ g.orphan = r.orphan /\ g.ended = r.ended
      /\ g.handoff = r.handoff /\ g.resume = r.resume /\ g.waits = r.waits
  BY <1>1, LoggedFields
<1> HIDE DEF g
<1>3. /\ n \in Record
      /\ n.owner = r.owner /\ n.claim = r.claim
      /\ n.phase = r.phase /\ n.commit = r.commit
      /\ n.offer = r.offer /\ n.request = r.request
      /\ n.orphan = r.orphan /\ n.ended = r.ended
      /\ n.handoff = r.handoff /\ n.resume = r.resume
      /\ n.waits = r.waits \ {j}
  BY <1>2 DEF Record
<1> HIDE DEF n
<1>4. n \in Sound
  BY <1>1, <1>3
     DEF Sound, SoundRecord, Held, AsksOthers, MarkIsCurrent, Reported,
         Resumes, OwnDiffs, Owned
<1>5. Kept(r, n)
  BY <1>3 DEF Kept, Alike, Named, Resumed
<1> QED
  BY <1>1, <1>4, <1>5, WriteQuiet

LEMMA ApplyPlanStep ==
  ASSUME Inv, NEW i \in Issue, NEW j \in Issue, ApplyPlan(i, j)
  PROVE  LedgerStep
<1> DEFINE planned == [record EXCEPT ![i].auth = TRUE, ![j].auth = TRUE]
           added == [planned EXCEPT ![i].waits = @ \cup {j}]
<1>1. /\ record \in [Issue -> Record] /\ record \in [Issue -> Sound]
      /\ i # j /\ diffs' = diffs
  BY DEF Inv, TypeOK, ApplyPlan, LedgerAlone
<1>2. /\ planned = [k \in Issue |-> planned[k]]
      /\ \A k \in Issue : planned[k] \in {record[k], [record[k] EXCEPT !.auth = TRUE]}
  BY <1>1
<1>3. ASSUME NEW k \in Issue
      PROVE  /\ planned[k] \in Sound /\ Kept(record[k], planned[k])
             /\ planned[k].waits = record[k].waits
             /\ planned[k].phase = record[k].phase
  <2> DEFINE r == record[k]
             n == [r EXCEPT !.auth = TRUE]
  <2>1. r \in Sound /\ r \in Record
    BY RecordOf
  <2>2. /\ n \in Record
        /\ n.owner = r.owner /\ n.claim = r.claim /\ n.phase = r.phase
        /\ n.commit = r.commit /\ n.offer = r.offer /\ n.request = r.request
        /\ n.orphan = r.orphan /\ n.ended = r.ended /\ n.resume = r.resume
        /\ n.handoff = r.handoff /\ n.waits = r.waits
    BY <2>1 DEF Record
  <2> HIDE DEF n
  <2>3. n \in Sound /\ Kept(r, n)
    BY <2>1, <2>2, SameSound
  <2> HIDE DEF planned
  <2> QED
    BY <1>2, <2>1, <2>2, <2>3, ItselfKept DEF n
<1>4. CASE record' = planned
  <2> HIDE DEF planned
  <2> QED
    BY <1>1, <1>2, <1>3, <1>4, AllQuiet
<1>5. CASE record[j].phase # "complete" /\ ~Reaches(record, j, i) /\ record' = added
  <2> DEFINE r == planned[i]
             n == [r EXCEPT !.waits = r.waits \cup {j}]
  <2>1. added = [planned EXCEPT ![i] = n]
    BY <1>2
  <2> HIDE DEF planned
  <2>2. r \in Sound /\ r \in Record /\ SoundRecord(r)
    BY <1>3 DEF Sound
  <2>3. /\ n \in Record
        /\ n.owner = r.owner /\ n.claim = r.claim /\ n.phase = r.phase
        /\ n.commit = r.commit /\ n.offer = r.offer /\ n.request = r.request
        /\ n.orphan = r.orphan /\ n.ended = r.ended /\ n.resume = r.resume
        /\ n.handoff = r.handoff /\ n.waits = r.waits \cup {j}
    BY <2>2 DEF Record
  <2> HIDE DEF n
  <2>4. n \in Sound
    BY <2>2, <2>3
       DEF Sound, SoundRecord, Held, AsksOthers, MarkIsCurrent, Reported,
           Resumes, OwnDiffs, Owned
  <2>5. /\ record' \in [Issue -> Sound] /\ record'[i] = n
        /\ \A k \in Issue \ {i} : record'[k] = planned[k]
    <3> HIDE DEF added
    <3> QED
      BY <1>2, <1>3, <1>5, <2>1, <2>4
  <2>6. Kept(record[i], r) /\ r.waits = record[i].waits
    BY <1>3
  <2>7. /\ Alike(record[i], n) /\ Named(n) \subseteq Named(record[i])
        /\ ~Resumed(record[i], n) /\ n.waits = record[i].waits \cup {j}
    BY <1>3, <2>3, <2>6 DEF Alike, Named, Resumed, Kept
  <2>8. \A k \in Issue \ {i} : Kept(record[k], record'[k])
    BY <1>3, <2>5
  <2> HIDE DEF r, added
  <2> QED
    BY <1>1, <1>5, <2>5, <2>7, <2>8, WaitsStep
<1> QED
  BY <1>4, <1>5 DEF ApplyPlan

(* Reports.  Whatever the owner reports, its report meets the grace of the
   request that stands. *)
LEMMA ReportFields ==
  ASSUME Inv, NEW i \in Issue, NEW m \in Record, Report(i, m),
         m.owner = record[i].owner, m.claim = record[i].claim,
         m.offer = record[i].offer, m.request = record[i].request,
         m.orphan = record[i].orphan, m.ended = record[i].ended,
         m.handoff = record[i].handoff,
         m.phase \in {"running", "blocked", "ready"},
         Reported(m), Resumes(m)
  PROVE  /\ record' \in [Issue -> Sound] /\ diffs' = diffs
         /\ Alike(record[i], record'[i])
         /\ Named(record'[i]) = Named(record[i])
         /\ record'[i].phase = m.phase /\ record'[i].waits = m.waits
         /\ \A k \in Issue \ {i} : Kept(record[k], record'[k])
<1> DEFINE r == record[i]
           gr == IF m.request = NoRequest THEN m.request.grace ELSE "met"
           n == [m EXCEPT !.request.grace = gr]
<1>1. /\ r \in Sound /\ r \in Record /\ Owned(r)
      /\ Write(i, n) /\ diffs' = diffs
  BY RecordOf, Constants DEF Report, Live, LedgerAlone, Owned
<1>2. gr \in {"running", "passed", "met"}
  BY DEF NoRequest
<1>3. /\ n \in Record
      /\ n.owner = r.owner /\ n.claim = r.claim /\ n.offer = r.offer
      /\ n.request.to = r.request.to
      /\ n.request # NoRequest => r.request # NoRequest
      /\ n.orphan = r.orphan /\ n.ended = r.ended /\ n.handoff = r.handoff
      /\ n.phase = m.phase /\ n.commit = m.commit /\ n.resume = m.resume
      /\ n.waits = m.waits
  BY <1>2 DEF Record, Request, NoRequest
<1> HIDE DEF n
<1>4. n \in Sound /\ Alike(r, n) /\ Named(n) = Named(r)
  BY <1>1, <1>3, ReportedSound DEF Reported, Resumes
<1>5. /\ record' \in [Issue -> Sound] /\ record'[i] = n
      /\ \A k \in Issue \ {i} : Kept(record[k], record'[k])
  BY <1>1, <1>4, ItselfKept DEF Inv, Write
<1> QED
  BY <1>1, <1>3, <1>4, <1>5

LEMMA ReportQuiet ==
  ASSUME Inv, NEW i \in Issue, diffs' = diffs,
         record' \in [Issue -> Sound],
         Alike(record[i], record'[i]),
         Named(record'[i]) = Named(record[i]),
         record'[i].waits = record[i].waits,
         \A k \in Issue \ {i} : Kept(record[k], record'[k])
  PROVE  LedgerStep
<1>1. Kept(record[i], record'[i])
  BY DEF Kept
<1> QED
  BY <1>1 DEF LedgerStep, Quiet, DiffsShrink, Inv, TypeOK

LEMMA ReportPartialStep ==
  ASSUME Inv, NEW i \in Issue, ReportPartial(i)
  PROVE  LedgerStep
<1> DEFINE r == record[i]
           m == [r EXCEPT !.phase = "running", !.resume = {}]
<1>1. r \in Record /\ Report(i, m)
  BY RecordOf DEF ReportPartial
<1>2. /\ m \in Record /\ m.owner = r.owner /\ m.claim = r.claim
      /\ m.offer = r.offer /\ m.request = r.request /\ m.orphan = r.orphan
      /\ m.ended = r.ended /\ m.handoff = r.handoff /\ m.waits = r.waits
      /\ m.phase = "running" /\ m.resume = {}
  BY <1>1 DEF Record, Phase
<1> HIDE DEF m
<1> QED
  BY <1>1, <1>2, ReportFields, ReportQuiet DEF Reported, Resumes

LEMMA ReportBlockedStep ==
  ASSUME Inv, NEW i \in Issue, ReportBlocked(i)
  PROVE  LedgerStep
<1> DEFINE r == record[i]
           m == [r EXCEPT !.phase = "blocked", !.resume = {}]
<1>1. r \in Record /\ Report(i, m)
  BY RecordOf DEF ReportBlocked
<1>2. /\ m \in Record /\ m.owner = r.owner /\ m.claim = r.claim
      /\ m.offer = r.offer /\ m.request = r.request /\ m.orphan = r.orphan
      /\ m.ended = r.ended /\ m.handoff = r.handoff /\ m.waits = r.waits
      /\ m.phase = "blocked" /\ m.resume = {}
  BY <1>1 DEF Record, Phase
<1> HIDE DEF m
<1> QED
  BY <1>1, <1>2, ReportFields, ReportQuiet DEF Reported, Resumes

LEMMA ReportReadyStep ==
  ASSUME Inv, NEW i \in Issue, NEW c \in Commit, ReportReady(i, c)
  PROVE  LedgerStep
<1> DEFINE r == record[i]
           m == [r EXCEPT !.phase = "ready", !.resume = {}, !.commit = c]
<1>1. r \in Record /\ Report(i, m)
  BY RecordOf DEF ReportReady
<1>2. /\ m \in Record /\ m.owner = r.owner /\ m.claim = r.claim
      /\ m.offer = r.offer /\ m.request = r.request /\ m.orphan = r.orphan
      /\ m.ended = r.ended /\ m.handoff = r.handoff /\ m.waits = r.waits
      /\ m.phase = "ready" /\ m.resume = {} /\ m.commit = c
  BY <1>1 DEF Record, Phase
<1> HIDE DEF m
<1> QED
  BY <1>1, <1>2, ReportFields, ReportQuiet DEF Reported, Resumes

LEMMA ReportBlockedOnStep ==
  ASSUME Inv, NEW i \in Issue, NEW j \in Issue, ReportBlockedOn(i, j)
  PROVE  LedgerStep
<1> DEFINE r == record[i]
           m == [r EXCEPT !.phase = "blocked", !.resume = {j},
                          !.waits = r.waits \cup {j}]
<1>1. /\ r \in Record /\ Report(i, m)
      /\ i # j /\ record[j].phase # "complete" /\ ~Reaches(record, j, i)
  BY RecordOf DEF ReportBlockedOn
<1>2. /\ m \in Record /\ m.owner = r.owner /\ m.claim = r.claim
      /\ m.offer = r.offer /\ m.request = r.request /\ m.orphan = r.orphan
      /\ m.ended = r.ended /\ m.handoff = r.handoff
      /\ m.waits = r.waits \cup {j}
      /\ m.phase = "blocked" /\ m.resume = {j}
  BY <1>1 DEF Record, Phase
<1> HIDE DEF m
<1>3. /\ record' \in [Issue -> Sound] /\ diffs' = diffs
      /\ Alike(r, record'[i]) /\ Named(record'[i]) = Named(r)
      /\ record'[i].phase = "blocked" /\ record'[i].waits = r.waits \cup {j}
      /\ \A k \in Issue \ {i} : Kept(record[k], record'[k])
  BY <1>1, <1>2, ReportFields DEF Reported, Resumes
<1> QED
  BY <1>1, <1>3, WaitsStep DEF Resumed

LEMMA SettleDependenciesStep ==
  ASSUME Inv, SettleDependencies
  PROVE  LedgerStep
<1> DEFINE S == {j \in Issue : Satisfied(record[j])}
<1>1. record' = Reconcile(record, S) /\ diffs' = diffs
  BY DEF SettleDependencies, LedgerAlone
<1>2. record \in [Issue -> Sound] /\ S \in SUBSET Issue
  BY DEF Inv
<1> HIDE DEF S
<1>3. record' = [i \in Issue |-> record'[i]]
  BY <1>1, <1>2, ReconcileType
<1>4. \A i \in Issue : record'[i] \in Sound /\ Kept(record[i], record'[i])
  BY <1>1, <1>2, ReconcileSound
<1> QED
  BY <1>1, <1>3, <1>4, AllQuiet

-----------------------------------------------------------------------------
(* The ends of a claim on evidence.                                        *)

LEMMA CompletedStep ==
  ASSUME Inv, NEW i \in Issue, NEW done \in Record,
         Owned(record[i]), Proven(i, record[i]),
         done.owner = NoLane, done.offer = NoOffer, done.request = NoRequest,
         done.phase = "complete", done.resume = {},
         done.claim = record[i].claim, done.handoff = record[i].handoff,
         done.waits = record[i].waits,
         record' = Reconcile([record EXCEPT ![i] = done], {i}),
         DropOffer(record[i])
  PROVE  LedgerStep
<1> DEFINE r == record[i]
           rec == [record EXCEPT ![i] = done]
           D == {r.offer.diff}
<1>1. r \in Sound /\ r \in Record /\ SoundRecord(r) /\ r.phase # "complete"
  BY RecordOf DEF SoundRecord, Held
<1>2. done \in Sound
  BY UnownedSound
<1>3. /\ rec \in [Issue -> Sound] /\ rec[i] = done
      /\ \A k \in Issue \ {i} : rec[k] = record[k]
  BY <1>2 DEF Inv
<1> HIDE DEF rec
<1>4. record' \in [Issue -> Sound] /\ record' = Reconcile(rec, {i})
  BY <1>3, ReconcileType DEF rec
<1>5. /\ Kept(done, record'[i]) /\ record'[i].offer = NoOffer
      /\ record'[i].handoff = done.handoff
      /\ record'[i].phase = "complete"
      /\ record'[i].waits \subseteq r.waits
  <2> DEFINE m == record'[i]
  <2>1. /\ Kept(rec[i], m) /\ m.offer = rec[i].offer
        /\ m.handoff = rec[i].handoff
    BY <1>3, <1>4, ReconcileSound
  <2>2. m.waits = rec[i].waits \ {i}
    BY <1>3, <1>4, ReconcileSound
  <2>3. rec[i].phase # "blocked" => m.phase = rec[i].phase
    BY <1>3, <1>4, ReconcileSound
  <2> HIDE DEF m
  <2>4. /\ Kept(done, m) /\ m.offer = NoOffer /\ m.handoff = done.handoff
        /\ m.phase = "complete" /\ m.waits \subseteq r.waits
    BY <1>3, <2>1, <2>2, <2>3
  <2> QED
    BY <2>4 DEF m
<1>6. \A k \in Issue \ {i} : /\ Kept(record[k], record'[k])
                             /\ record'[k].offer = record[k].offer
  BY <1>3, <1>4, ReconcileSound
<1>7. \A k \in Issue : i \notin record'[k].waits
  <2>1. \A k \in Issue : record'[k].waits = rec[k].waits \ {i}
    BY <1>3, <1>4, ReconcileSound
  <2> QED
    BY <2>1
<1>8. LetGo(i, r, record'[i])
  <2>1. Named(record'[i]) \subseteq Named(r)
    BY <1>5 DEF Named, NoOffer
  <2> QED
    BY <1>1, <1>5, <2>1 DEF LetGo, Kept, Alike
<1>9. DiffsShrink
  <2>1. diffs \ diffs' \subseteq {r.offer.diff} \ {0} /\ diffs' \subseteq diffs
    BY Constants DEF DropOffer, Inv, TypeOK, Diff
  <2>2. {r.offer.diff} \ {0} \subseteq Named(r) \ Named(record'[i])
    BY <1>1, <1>5 DEF Named, NoOffer, SoundRecord, OwnDiffs
  <2> QED
    BY <2>1, <2>2 DEF DiffsShrink, OneDrops
<1>10. OneMoves
  BY <1>6, <1>7, <1>8, <1>9 DEF OneMoves
<1>11. diffs' \subseteq Diff
  BY DEF DropOffer, Inv, TypeOK
<1> QED
  BY <1>4, <1>10, <1>11 DEF LedgerStep

(* What is written when a claim ends: the history, no owner, no offer. *)
LEMMA UnownedFields ==
  ASSUME NEW r \in Record, NEW ph \in {"queued", "complete"}
  PROVE  LET d == [Unowned(Logged(r)) EXCEPT !.phase = ph, !.resume = {}]
         IN  /\ d \in Record /\ d.owner = NoLane /\ d.offer = NoOffer
             /\ d.request = NoRequest /\ d.phase = ph /\ d.resume = {}
             /\ d.claim = r.claim /\ d.handoff = r.handoff
             /\ d.waits = r.waits
<1> DEFINE g == Logged(r)
<1>1. /\ g \in Record /\ g.claim = r.claim /\ g.handoff = r.handoff
      /\ g.waits = r.waits
  BY LoggedFields
<1> HIDE DEF g
<1>2. LET d == [Unowned(g) EXCEPT !.phase = ph, !.resume = {}]
      IN  /\ d \in Record /\ d.owner = NoLane /\ d.offer = NoOffer
          /\ d.request = NoRequest /\ d.phase = ph /\ d.resume = {}
          /\ d.claim = r.claim /\ d.handoff = r.handoff
          /\ d.waits = r.waits
  BY <1>1, Constants, Nothings DEF Unowned, Record, Phase
<1> QED
  BY <1>2 DEF g

LEMMA ClearedFields ==
  ASSUME NEW r \in Record, NEW ph \in {"queued", "complete"}
  PROVE  LET d == [Unowned(Logged(r)) EXCEPT !.phase = ph, !.resume = {},
                                             !.escalated = 0]
         IN  /\ d \in Record /\ d.owner = NoLane /\ d.offer = NoOffer
             /\ d.request = NoRequest /\ d.phase = ph /\ d.resume = {}
             /\ d.claim = r.claim /\ d.handoff = r.handoff
             /\ d.waits = r.waits
<1> DEFINE g == Logged(r)
<1>1. /\ g \in Record /\ g.claim = r.claim /\ g.handoff = r.handoff
      /\ g.waits = r.waits
  BY LoggedFields
<1> HIDE DEF g
<1>2. LET d == [Unowned(g) EXCEPT !.phase = ph, !.resume = {}, !.escalated = 0]
      IN  /\ d \in Record /\ d.owner = NoLane /\ d.offer = NoOffer
          /\ d.request = NoRequest /\ d.phase = ph /\ d.resume = {}
          /\ d.claim = r.claim /\ d.handoff = r.handoff
          /\ d.waits = r.waits
  BY <1>1, Constants, Nothings DEF Unowned, Record, Phase
<1> QED
  BY <1>2 DEF g

LEMMA CompleteStep ==
  ASSUME Inv, Complete
  PROVE  LedgerStep
<1> DEFINE i == merge.issue
           r == record[i]
           done == [Unowned(Logged(r)) EXCEPT !.phase = "complete", !.resume = {}]
<1>1. merge # NoMerge /\ i \in Issue
  BY DEF Complete, Inv, NamesIssues, NoMerge
<1>2. /\ r \in Record /\ SoundRecord(r)
      /\ r.phase \in {"ready", "recovery"}
      /\ r.claim = merge.claim /\ r.commit = merge.commit
      /\ record' = Reconcile([record EXCEPT ![i] = done], {i})
      /\ DropOffer(r)
  BY <1>1, RecordOf DEF Complete
<1>3. Owned(r)
  BY <1>2 DEF SoundRecord, Held
<1>4. Proven(i, r)
  BY <1>2 DEF Complete, Inv, NamesIssues, Proven
<1>5. /\ done \in Record /\ done.owner = NoLane /\ done.offer = NoOffer
      /\ done.request = NoRequest /\ done.phase = "complete"
      /\ done.resume = {} /\ done.claim = r.claim
      /\ done.handoff = r.handoff /\ done.waits = r.waits
  BY <1>2, UnownedFields
<1> HIDE DEF done
<1> QED
  BY <1>1, <1>2, <1>3, <1>4, <1>5, CompletedStep

LEMMA ResolveCompleteStep ==
  ASSUME Inv, NEW i \in Issue, Owned(record[i]), Proven(i, record[i]),
         ResolveComplete(i)
  PROVE  LedgerStep
<1> DEFINE r == record[i]
           done == [Unowned(Logged(r)) EXCEPT !.phase = "complete",
                                              !.resume = {}, !.escalated = 0]
<1>1. /\ r \in Record
      /\ record' = Reconcile([record EXCEPT ![i] = done], {i})
      /\ DropOffer(r)
  BY RecordOf DEF ResolveComplete
<1>2. /\ done \in Record /\ done.owner = NoLane /\ done.offer = NoOffer
      /\ done.request = NoRequest /\ done.phase = "complete"
      /\ done.resume = {} /\ done.claim = r.claim
      /\ done.handoff = r.handoff /\ done.waits = r.waits
  BY <1>1, ClearedFields
<1> HIDE DEF done
<1> QED
  BY <1>1, <1>2, CompletedStep

LEMMA EndMergedClaimStep ==
  ASSUME Inv, NEW i \in Issue, EndMergedClaim(i)
  PROVE  LedgerStep
BY ResolveCompleteStep DEF EndMergedClaim, Proven

LEMMA RuleStep ==
  ASSUME Inv, Rule
  PROVE  LedgerStep
<1> DEFINE i == ruling.issue
           r == record[i]
           n == [Unowned(Logged(r)) EXCEPT !.phase = "queued", !.resume = {},
                                           !.escalated = 0]
<1>1. i \in Issue /\ ruling = [issue |-> i, merged |-> ruling.merged]
      /\ ruling.merged \in BOOLEAN
  BY DEF Rule, Inv, NamesIssues, TypeOK, Ruling
<1>2. CASE record' = record /\ diffs' = diffs
  BY <1>2, NothingWritten
<1>3. CASE Owned(r) /\ ruling.merged /\ ResolveComplete(i)
  <2>1. ruling = [issue |-> i, merged |-> TRUE]
    BY <1>1, <1>3
  <2> QED
    BY <1>1, <1>3, <2>1, ResolveCompleteStep DEF Proven
<1>4. CASE Owned(r) /\ ResolveRelease(i)
  <2>1. r \in Record /\ SoundRecord(r) /\ r \in Sound
    BY <1>1, RecordOf
  <2>2. Write(i, n) /\ diffs' = diffs \ {r.offer.diff}
    BY <1>4 DEF ResolveRelease, DropOffer
  <2>3. /\ n \in Record /\ n.owner = NoLane /\ n.offer = NoOffer
        /\ n.request = NoRequest /\ n.phase = "queued" /\ n.resume = {}
        /\ n.claim = r.claim /\ n.handoff = r.handoff /\ n.waits = r.waits
    BY <2>1, ClearedFields
  <2> HIDE DEF n
  <2>4. n \in Sound
    BY <2>3, UnownedSound
  <2>5. LetGo(i, r, n)
    BY <1>4, <2>1, <2>3 DEF LetGo, Named, NoOffer, SoundRecord, Held
  <2> DEFINE D == {r.offer.diff}
  <2>6. /\ D \subseteq Named(r) \cup {0} /\ D \cap Named(n) = {}
        /\ diffs' = diffs \ D
    BY <2>1, <2>2, <2>3 DEF Named, NoOffer, SoundRecord, OwnDiffs
  <2> HIDE DEF D
  <2> QED
    BY <1>1, <2>2, <2>3, <2>4, <2>5, <2>6, WriteMoves
<1> QED
  BY <1>2, <1>3, <1>4 DEF Rule

LEMMA FailMergeStep ==
  ASSUME Inv, FailMerge
  PROVE  LedgerStep
<1> DEFINE i == merge.issue
           r == record[i]
           n == [r EXCEPT !.phase = "recovery"]
<1>1. i \in Issue /\ diffs' = diffs
  BY DEF FailMerge, Inv, NamesIssues
<1>2. r \in Sound /\ r \in Record /\ SoundRecord(r)
  BY <1>1, RecordOf
<1>3. CASE record' = record
  BY <1>1, <1>3, NothingWritten
<1>4. CASE r.phase \in {"ready", "recovery"} /\ Write(i, n)
  <2>1. /\ n \in Record
        /\ n.owner = r.owner /\ n.claim = r.claim /\ n.offer = r.offer
        /\ n.request = r.request /\ n.orphan = r.orphan
        /\ n.ended = r.ended /\ n.handoff = r.handoff
        /\ n.commit = r.commit /\ n.resume = r.resume /\ n.waits = r.waits
        /\ n.phase = "recovery"
    BY <1>2 DEF Record, Phase
  <2> HIDE DEF n
  <2>2. Owned(r) /\ Reported(n) /\ Resumes(n)
    BY <1>2, <1>4, <2>1 DEF SoundRecord, Held, Reported, Resumes
  <2>3. n \in Sound /\ Alike(r, n) /\ Named(n) = Named(r)
    BY <1>2, <2>1, <2>2, ReportedSound
  <2>4. Kept(r, n)
    BY <2>1, <2>3 DEF Kept
  <2> QED
    BY <1>1, <1>4, <2>3, <2>4, WriteQuiet
<1> QED
  BY <1>3, <1>4 DEF FailMerge

LEMMA EndClosedIssueStep ==
  ASSUME Inv, NEW i \in Issue, EndClosedIssue(i)
  PROVE  LedgerStep
<1> DEFINE r == record[i]
           n == EndOnForge(r)
<1>1. /\ r \in Sound /\ r \in Record /\ SoundRecord(r)
      /\ ~Owned(r) /\ Write(i, n) /\ diffs' = diffs
  BY RecordOf DEF EndClosedIssue, LedgerAlone
<1>2. /\ n \in Record
      /\ n.owner = r.owner /\ n.claim = r.claim /\ n.phase = r.phase
      /\ n.commit = r.commit /\ n.offer = r.offer /\ n.request = r.request
      /\ n.orphan = r.orphan /\ n.resume = r.resume
      /\ n.handoff = r.handoff /\ n.waits = r.waits
  BY <1>1 DEF Record, EndOnForge
<1> HIDE DEF n
<1>3. n \in Sound
  BY <1>1, <1>2
     DEF Sound, SoundRecord, Held, AsksOthers, MarkIsCurrent, Reported,
         Resumes, OwnDiffs, Owned
<1>4. Kept(r, n)
  BY <1>2 DEF Kept, Alike, Named, Resumed
<1> QED
  BY <1>1, <1>3, <1>4, WriteQuiet

(* Reminders and escalations touch nothing else of a record. *)
LEMMA PromptedSound ==
  ASSUME NEW r \in Sound, NEW p \in Prompt, NEW e \in ClaimId
  PROVE  /\ [r EXCEPT !.prompt = p] \in Sound
         /\ Kept(r, [r EXCEPT !.prompt = p])
         /\ [r EXCEPT !.escalated = e] \in Sound
         /\ Kept(r, [r EXCEPT !.escalated = e])
<1> DEFINE n == [r EXCEPT !.prompt = p]
           m == [r EXCEPT !.escalated = e]
<1>1. r \in Record
  BY DEF Sound
<1>2. /\ n \in Record
      /\ n.owner = r.owner /\ n.claim = r.claim /\ n.phase = r.phase
      /\ n.commit = r.commit /\ n.offer = r.offer /\ n.request = r.request
      /\ n.orphan = r.orphan /\ n.resume = r.resume /\ n.ended = r.ended
      /\ n.handoff = r.handoff /\ n.waits = r.waits
  BY <1>1 DEF Record
<1>3. /\ m \in Record
      /\ m.owner = r.owner /\ m.claim = r.claim /\ m.phase = r.phase
      /\ m.commit = r.commit /\ m.offer = r.offer /\ m.request = r.request
      /\ m.orphan = r.orphan /\ m.resume = r.resume /\ m.ended = r.ended
      /\ m.handoff = r.handoff /\ m.waits = r.waits
  BY <1>1 DEF Record
<1>4. n \in Sound /\ Kept(r, n)
  <2> HIDE DEF n
  <2> QED
    BY <1>2, SameSound
<1>5. m \in Sound /\ Kept(r, m)
  <2> HIDE DEF m
  <2> QED
    BY <1>3, SameSound
<1> QED
  BY <1>4, <1>5

LEMMA RemindersStep ==
  ASSUME Inv, NEW C, Reminders(C), diffs' = diffs
  PROVE  LedgerStep
<1>1. record' = [i \in Issue |-> record'[i]]
  BY DEF Reminders
<1>2. ASSUME NEW i \in Issue
      PROVE  record'[i] \in Sound /\ Kept(record[i], record'[i])
  <2> DEFINE r == record[i]
             fresh == [to |-> r.owner, claim |-> r.claim, answered |-> FALSE,
                       newest |-> TRUE]
             stamp == [r.prompt EXCEPT !.answered = TRUE]
  <2>1. r \in Sound /\ r \in Record
    BY RecordOf
  <2>2. NoPrompt \in Prompt /\ fresh \in Prompt /\ stamp \in Prompt
    BY <2>1, Nothings DEF Record, Prompt
  <2>3. [r EXCEPT !.prompt.answered = TRUE] = [r EXCEPT !.prompt = stamp]
    BY <2>1 DEF Record
  <2>4. \/ record'[i] = r
        \/ record'[i] = [r EXCEPT !.prompt = NoPrompt]
        \/ record'[i] = [r EXCEPT !.prompt = fresh]
        \/ record'[i] = [r EXCEPT !.prompt = stamp]
    BY <2>3 DEF Reminders, RemindedOf
  <2> HIDE DEF fresh, stamp
  <2> QED
    BY <2>1, <2>2, <2>4, Constants, PromptedSound, ItselfKept
<1> QED
  BY <1>1, <1>2, AllQuiet

LEMMA ObserveResponseStep ==
  ASSUME Inv, NEW i \in Issue, ObserveResponse(i)
  PROVE  LedgerStep
<1> DEFINE r == record[i]
           stamp == [r.prompt EXCEPT !.answered = TRUE]
           n == [r EXCEPT !.prompt = stamp]
<1>1. r \in Sound /\ r \in Record
  BY RecordOf
<1>2. stamp \in Prompt
  BY <1>1 DEF Record, Prompt
<1>3. Write(i, n) /\ diffs' = diffs
  BY <1>1 DEF ObserveResponse, LedgerAlone, Record
<1>4. n \in Sound /\ Kept(r, n)
  <2> HIDE DEF stamp
  <2> QED
    BY <1>1, <1>2, Constants, PromptedSound
<1> HIDE DEF n
<1> QED
  BY <1>3, <1>4, WriteQuiet

LEMMA EscalateStep ==
  ASSUME Inv, Escalate
  PROVE  LedgerStep
<1>1. record' = [i \in Issue |-> record'[i]] /\ diffs' = diffs
  BY DEF Escalate
<1>2. ASSUME NEW i \in Issue
      PROVE  record'[i] \in Sound /\ Kept(record[i], record'[i])
  <2> DEFINE r == record[i]
  <2>1. r \in Sound /\ r \in Record /\ r.claim \in ClaimId
        /\ r.escalated \in ClaimId
    BY RecordOf DEF Record
  <2>2. \E e \in {0, r.claim, r.escalated} :
            record'[i] = [r EXCEPT !.escalated = e]
    BY <2>1 DEF Escalate
  <2> QED
    BY <2>1, <2>2, Constants, Nothings, PromptedSound
<1> QED
  BY <1>1, <1>2, AllQuiet

LEMMA EscalateUnreadStep ==
  ASSUME Inv, EscalateUnread
  PROVE  LedgerStep
<1>1. record' = [i \in Issue |-> record'[i]] /\ diffs' = diffs
  BY DEF EscalateUnread, LedgerAlone
<1>2. ASSUME NEW i \in Issue
      PROVE  record'[i] \in Sound /\ Kept(record[i], record'[i])
  <2>1. record[i] \in Sound
    BY RecordOf
  <2>2. record'[i] \in {record[i], [record[i] EXCEPT !.escalated = 0]}
    BY DEF EscalateUnread
  <2> QED
    BY <2>1, <2>2, Constants, Nothings, PromptedSound, ItselfKept
<1> QED
  BY <1>1, <1>2, AllQuiet

LEMMA MarkOrphansStep ==
  ASSUME Inv, MarkOrphans
  PROVE  LedgerStep
<1>1. record' = [i \in Issue |-> record'[i]] /\ diffs' = diffs
  BY DEF MarkOrphans
<1>2. ASSUME NEW i \in Issue
      PROVE  record'[i] \in Sound /\ Kept(record[i], record'[i])
  <2> DEFINE r == record[i]
             mark == [of |-> r.owner, claim |-> r.claim, death |-> deaths[r.owner]]
  <2>1. r \in Sound /\ r \in Record /\ SoundRecord(r)
    BY RecordOf
  <2>2. CASE record'[i] = r
    BY <2>1, <2>2, ItselfKept
  <2>3. ASSUME Owned(r), NEW o \in {NoOrphan, mark},
               record'[i] = [r EXCEPT !.orphan = o]
        PROVE  record'[i] \in Sound /\ Kept(record[i], record'[i])
    <3> DEFINE n == [r EXCEPT !.orphan = o]
    <3>1. mark \in Orphan /\ mark.of = r.owner /\ mark.claim = r.claim
      BY <2>1, <2>3 DEF Record, Orphan, MaybeLane, Owned, Inv, TypeOK
    <3>2. /\ n \in Record
          /\ n.owner = r.owner /\ n.claim = r.claim /\ n.phase = r.phase
          /\ n.commit = r.commit /\ n.offer = r.offer
          /\ n.request = r.request /\ n.resume = r.resume
          /\ n.ended = r.ended /\ n.handoff = r.handoff
          /\ n.waits = r.waits /\ n.orphan = o
      BY <2>1, <3>1, Nothings DEF Record
    <3> HIDE DEF n, mark
    <3>3. n \in Sound
      BY <2>1, <2>3, <3>1, <3>2
         DEF Sound, SoundRecord, Held, AsksOthers, MarkIsCurrent, Reported,
             Resumes, OwnDiffs, Owned
    <3>4. Kept(r, n)
      BY <3>2 DEF Kept, Alike, Named, Resumed
    <3> QED
      BY <2>3, <3>3, <3>4 DEF n
  <2>4. \/ record'[i] = r
        \/ Owned(r) /\ record'[i] = [r EXCEPT !.orphan = mark]
        \/ Owned(r) /\ record'[i] = [r EXCEPT !.orphan = NoOrphan]
    BY DEF MarkOrphans
  <2> HIDE DEF mark
  <2> QED
    BY <2>2, <2>3, <2>4
<1> QED
  BY <1>1, <1>2, AllQuiet

(* What changes neither the ledger nor the diffs it names: readings, the
   start and the end of a merge, and the world outside. *)
LEMMA ReadingStep ==
  ASSUME Inv,
         \/ \E l \in Lane, i \in Issue : PrepareTake(l, i)
         \/ \E i \in Issue : StartMerge(i) \/ ReadRuling(i) \/ ForgeReopens(i)
         \/ \E i \in Closing, how \in Endings : ForgeEnds(i, how)
         \/ \E l \in Mortal : Die(l) \/ Return(l)
         \/ ReadOverdue \/ VerifyMerge \/ AbandonMerge \/ ReadForge
         \/ FailStage \/ ReadPresence
  PROVE  LedgerStep
<1>1. record' = record /\ diffs' = diffs
  BY DEF PrepareTake, StartMerge, ReadRuling, ForgeReopens, ForgeEnds, Die,
         Return, ReadOverdue, VerifyMerge, AbandonMerge, ReadForge, FailStage,
         ReadPresence
<1> QED
  BY <1>1, NothingWritten

(* Every step of the ledger has one of the shapes. *)
THEOREM StepShape == ASSUME Inv, [Next]_vars PROVE LedgerStep
<1>1. CASE UNCHANGED vars
  BY <1>1, NothingWritten DEF vars
<1>2. ASSUME NEW l \in Lane, NEW i \in Issue,
             Claim(l, i) \/ PrepareTake(l, i) \/ Take(l, i) \/ Accept(l, i)
      PROVE  LedgerStep
  BY <1>2, ClaimStep, TakeStep, AcceptStep, ReadingStep
<1>3. ASSUME NEW i \in Issue,
             \/ Release(i) \/ Unassign(i) \/ Authorize(i) \/ Refuse(i)
             \/ Cancel(i) \/ Decline(i) \/ Lapse(i) \/ ExpireOffer(i)
             \/ ReportPartial(i) \/ ReportBlocked(i)
             \/ StartMerge(i) \/ EndMergedClaim(i) \/ ObserveResponse(i)
             \/ ReadRuling(i) \/ EndClosedIssue(i) \/ ForgeReopens(i)
      PROVE  LedgerStep
  <2>1. CASE StartMerge(i) \/ ReadRuling(i) \/ ForgeReopens(i)
    BY <2>1, ReadingStep
  <2> QED
    BY <1>3, <2>1, ReleaseStep, UnassignStep, AuthorizeStep, RefuseStep,
       CancelStep, DeclineStep, LapseStep, ExpireOfferStep, ReportPartialStep,
       ReportBlockedStep, EndMergedClaimStep, ObserveResponseStep,
       EndClosedIssueStep
<1>4. ASSUME NEW i \in Issue, NEW l \in Lane,
             \/ l \in Directed /\ Assign(i, l)
             \/ l \in Asking /\ RequestTakeover(l, i)
             \/ \E due \in Windows, d \in {0} \cup (Diff \ diffs) :
                    OfferIssue(i, l, due, d)
      PROVE  LedgerStep
  BY <1>4, AssignStep, RequestTakeoverStep, OfferIssueStep
<1>5. ASSUME NEW i \in Issue, NEW j \in Issue,
             \/ Block(i, j) \/ Unblock(i, j) \/ ApplyPlan(i, j)
             \/ ReportBlockedOn(i, j)
      PROVE  LedgerStep
  BY <1>5, BlockStep, UnblockStep, ApplyPlanStep, ReportBlockedOnStep
<1>6. ASSUME NEW i \in Issue, NEW c \in Commit, ReportReady(i, c)
      PROVE  LedgerStep
  BY <1>6, ReportReadyStep
<1>7. CASE \/ \E i \in Closing, how \in Endings : ForgeEnds(i, how)
           \/ \E l \in Mortal : Die(l) \/ Return(l)
           \/ ReadOverdue \/ VerifyMerge \/ AbandonMerge \/ ReadForge
           \/ FailStage \/ ReadPresence
  BY <1>7, ReadingStep
<1>8. CASE \/ GrantRequests \/ SettleDependencies \/ Complete \/ FailMerge
           \/ RemindOfReading \/ RemindAfterRelease
           \/ Escalate \/ EscalateUnread \/ Rule \/ MarkOrphans
  <2>1. CASE RemindOfReading \/ RemindAfterRelease
    BY <2>1, RemindersStep DEF RemindOfReading, RemindAfterRelease, LedgerAlone
  <2> QED
    BY <1>8, <2>1, GrantRequestsStep, SettleDependenciesStep, CompleteStep,
       FailMergeStep, EscalateStep, EscalateUnreadStep, RuleStep,
       MarkOrphansStep
<1>9. Directed \subseteq Lane /\ Asking \subseteq Lane /\ Offered \subseteq Lane
  BY ConstantsAssumption
<1> QED
  BY <1>1, <1>2, <1>3, <1>4, <1>5, <1>6, <1>7, <1>8, <1>9 DEF Next

-----------------------------------------------------------------------------
(* The rest of the state: what a poll reads, what an integration and a
   ruling name. *)

LEMMA ReadingOfType ==
  ASSUME Inv, NEW i \in Issue
  PROVE  ReadingOf(i) \in Reading
<1>1. record[i].claim \in ClaimId
  BY RecordOf DEF Record
<1> QED
  BY <1>1, Constants DEF ReadingOf, Reading, NoReading

LEMMA NoMatter ==
  /\ NoMerge \in Merge /\ NoReading \in Reading
  /\ NoEvidence \in Evidence /\ NoRuling \in Ruling
  /\ Open \in [how : Ending \cup {"open"}, claim : ClaimId]
BY Constants, Nothings
   DEF NoMerge, Merge, NoReading, Reading, NoEvidence, Evidence, NoRuling,
       Ruling, Open

(* The forge reading of a poll, and the world outside. *)
WorldOK ==
    /\ stage \in {"read", "complete", "escalate"}
    /\ seen \in [Issue -> Reading]
    /\ presence \in [Lane -> {"unread", "live", "dead"}]
    /\ overdue \in [Issue -> MaybeLane]
    /\ takeover \in [Lane -> Evidence]
    /\ forge \in [Issue -> [how : Ending \cup {"open"}, claim : ClaimId]]
    /\ dead \subseteq Lane
    /\ deaths \in [Lane -> 0..MaxDeaths]

MergeOK ==
    /\ base \subseteq Issue \X ClaimId \X Commit
    /\ merge \in Merge /\ ruling \in Ruling
    /\ NamesIssues

(* What the changes of the ledger leave alone, and what a poll rewrites. *)
LEMMA WorldStep ==
  ASSUME Inv, [Next]_vars
  PROVE  WorldOK'
<1>1. WorldOK
  BY DEF Inv, TypeOK, WorldOK
<1>2. CASE UNCHANGED <<stage, seen, presence, overdue, takeover, world>>
  BY <1>1, <1>2 DEF WorldOK, world
<1>3. ASSUME NEW l \in Lane, NEW i \in Issue, PrepareTake(l, i)
      PROVE  WorldOK'
  <2> DEFINE e == [issue |-> i, orphan |-> [record[i].orphan EXCEPT
                                               !.claim = record[i].claim]]
  <2>1. record[i] \in Record
    BY RecordOf
  <2>2. e \in Evidence
    BY <2>1 DEF Record, Orphan, Evidence
  <2> HIDE DEF e
  <2>3. takeover' = [takeover EXCEPT ![l] = e]
    BY <1>3 DEF PrepareTake, e
  <2> QED
    BY <1>1, <1>3, <2>2, <2>3 DEF WorldOK, PrepareTake, world
<1>4. ASSUME NEW l \in Lane, NEW i \in Issue, Take(l, i)
      PROVE  WorldOK'
  BY <1>1, <1>4, NoMatter DEF WorldOK, Take, world
<1>5. ASSUME NEW i \in Issue, ExpireOffer(i)
      PROVE  WorldOK'
  BY <1>1, <1>5, Constants DEF WorldOK, ExpireOffer, world
<1>6. CASE ReadOverdue
  <2>1. \A i \in Issue : record[i].owner \in MaybeLane
    BY RecordOf DEF Record
  <2> QED
    BY <1>1, <1>6, <2>1, Constants DEF WorldOK, ReadOverdue, world
<1>7. CASE ReadForge
  BY <1>1, <1>7, ReadingOfType, NoMatter DEF WorldOK, ReadForge, world
<1>8. CASE RemindOfReading \/ Escalate \/ FailStage
  BY <1>1, <1>8, NoMatter
     DEF WorldOK, RemindOfReading, Escalate, FailStage, world
<1>9. ASSUME NEW i \in Closing, NEW how \in Endings, ForgeEnds(i, how)
      PROVE  WorldOK'
  <2>1. i \in Issue /\ how \in Ending
    BY ConstantsAssumption
  <2>2. record[i].claim \in ClaimId
    BY <2>1, RecordOf DEF Record
  <2> QED
    BY <1>1, <1>9, <2>1, <2>2 DEF WorldOK, ForgeEnds, readings
<1>10. ASSUME NEW i \in Issue, ForgeReopens(i)
       PROVE  WorldOK'
  BY <1>1, <1>10, NoMatter DEF WorldOK, ForgeReopens, readings
<1>11. ASSUME NEW l \in Mortal, Die(l) \/ Return(l)
       PROVE  WorldOK'
  <2>1. l \in Lane /\ deaths[l] \in 0..MaxDeaths
    BY <1>1, ConstantsAssumption DEF WorldOK
  <2>2. deaths[l] < MaxDeaths => deaths[l] + 1 \in 0..MaxDeaths
    BY <2>1, Constants
  <2> QED
    BY <1>1, <1>11, <2>1, <2>2 DEF WorldOK, Die, Return, Live, readings
<1>12. CASE ReadPresence \/ MarkOrphans
  BY <1>1, <1>12 DEF WorldOK, ReadPresence, MarkOrphans, world
<1>13. ASSUME NEW l \in Lane, NEW i \in Issue, Claim(l, i) \/ Accept(l, i)
       PROVE  UNCHANGED <<stage, seen, presence, overdue, takeover, world>>
  BY <1>13 DEF Claim, Accept, LedgerAlone, LedgerOnly, readings
<1>14. ASSUME NEW i \in Issue,
              \/ Release(i) \/ Unassign(i) \/ Authorize(i) \/ Refuse(i)
              \/ Cancel(i) \/ Decline(i) \/ Lapse(i)
              \/ ReportPartial(i) \/ ReportBlocked(i)
              \/ StartMerge(i) \/ EndMergedClaim(i) \/ ObserveResponse(i)
              \/ ReadRuling(i) \/ EndClosedIssue(i)
       PROVE  UNCHANGED <<stage, seen, presence, overdue, takeover, world>>
  BY <1>14 DEF Release, Unassign, Authorize, Refuse, Cancel, Decline, Lapse,
     ReportPartial, ReportBlocked, Report, StartMerge, EndMergedClaim,
     ObserveResponse, ReadRuling, EndClosedIssue, LedgerAlone, LedgerOnly,
     readings
<1>15. ASSUME NEW i \in Issue, NEW l \in Lane,
              \/ Assign(i, l) \/ RequestTakeover(l, i)
              \/ \E due \in Windows, d \in {0} \cup (Diff \ diffs) :
                    OfferIssue(i, l, due, d)
       PROVE  UNCHANGED <<stage, seen, presence, overdue, takeover, world>>
  BY <1>15 DEF Assign, RequestTakeover, OfferIssue, LedgerAlone, LedgerOnly,
     readings
<1>16. ASSUME NEW i \in Issue, NEW j \in Issue,
              \/ Block(i, j) \/ Unblock(i, j) \/ ApplyPlan(i, j)
              \/ ReportBlockedOn(i, j) \/ \E c \in Commit : ReportReady(i, c)
       PROVE  UNCHANGED <<stage, seen, presence, overdue, takeover, world>>
  BY <1>16 DEF Block, Unblock, ApplyPlan, ReportBlockedOn, ReportReady,
     Report, LedgerAlone, LedgerOnly, readings
<1>17. CASE \/ GrantRequests \/ SettleDependencies \/ VerifyMerge \/ Complete
            \/ FailMerge \/ AbandonMerge \/ RemindAfterRelease
            \/ EscalateUnread \/ Rule \/ UNCHANGED vars
  BY <1>2, <1>17 DEF GrantRequests, SettleDependencies, VerifyMerge, Complete,
     FailMerge, AbandonMerge, RemindAfterRelease, EscalateUnread, Rule,
     LedgerAlone, LedgerOnly, readings, vars
<1>18. Directed \subseteq Lane /\ Asking \subseteq Lane /\ Offered \subseteq Lane
  BY ConstantsAssumption
<1> HIDE DEF WorldOK
<1> QED
  BY <1>2, <1>3, <1>4, <1>5, <1>6, <1>7, <1>8, <1>9, <1>10, <1>11, <1>12,
     <1>13, <1>14, <1>15, <1>16, <1>17, <1>18 DEF Next

(* What an integration carries through its merge is what it started with. *)
LEMMA MergeStep ==
  ASSUME Inv, [Next]_vars
  PROVE  MergeOK'
<1>1. MergeOK
  BY DEF Inv, TypeOK, MergeOK
<1>2. CASE UNCHANGED <<base, merge, ruling>>
  BY <1>1, <1>2 DEF MergeOK, NamesIssues
<1>3. ASSUME NEW i \in Issue, StartMerge(i)
      PROVE  MergeOK'
  <2>1. /\ record[i].claim \in ClaimId /\ SoundRecord(record[i])
        /\ record[i].phase \in {"ready", "recovery"}
    BY <1>3, RecordOf DEF StartMerge, Record
  <2>2. record[i].commit \in Commit
    BY <2>1 DEF SoundRecord, Reported
  <2> QED
    BY <1>1, <1>3, <2>1, <2>2
       DEF MergeOK, NamesIssues, StartMerge, Merge, readings
<1>4. CASE VerifyMerge
  <2> DEFINE m == [merge EXCEPT !.verified = TRUE]
  <2>1. /\ merge # NoMerge /\ merge' = m /\ ruling' = ruling
        /\ base' = base \cup {<<merge.issue, merge.claim, merge.commit>>}
    BY <1>4 DEF VerifyMerge, readings
  <2>2. /\ merge \in Merge /\ merge.issue \in Issue
        /\ merge.claim \in ClaimId /\ merge.commit \in Commit
    BY <1>1, <2>1 DEF MergeOK, NamesIssues, Merge
  <2>3. /\ m \in Merge /\ m.issue = merge.issue /\ m.claim = merge.claim
        /\ m.commit = merge.commit
    BY <2>2 DEF Merge
  <2> HIDE DEF m
  <2>4. base' \subseteq Issue \X ClaimId \X Commit
    BY <1>1, <2>1, <2>2 DEF MergeOK
  <2> QED
    BY <1>1, <2>1, <2>2, <2>3, <2>4 DEF MergeOK, NamesIssues
<1>5. CASE Complete \/ FailMerge \/ AbandonMerge
  <2>1. merge' = NoMerge /\ base' = base /\ ruling' = ruling
    BY <1>5 DEF Complete, FailMerge, AbandonMerge, readings
  <2>2. NoMerge \in Merge /\ ~NoMerge.verified
    BY NoMatter DEF NoMerge
  <2> QED
    BY <1>1, <2>1, <2>2 DEF MergeOK, NamesIssues
<1>6. ASSUME NEW i \in Issue, ReadRuling(i)
      PROVE  MergeOK'
  <2> DEFINE g == [issue |-> i, merged |-> Merged(forge[i].how)]
  <2>1. ruling' = g /\ base' = base /\ merge' = merge
    BY <1>6 DEF ReadRuling
  <2>2. g \in Ruling /\ g.issue = i
    BY DEF Ruling, Merged
  <2> HIDE DEF g
  <2> QED
    BY <1>1, <2>1, <2>2 DEF MergeOK, NamesIssues
<1>7. CASE Rule
  BY <1>1, <1>7, NoMatter DEF MergeOK, NamesIssues, Rule
<1>8. ASSUME NEW l \in Lane, NEW i \in Issue,
             Claim(l, i) \/ PrepareTake(l, i) \/ Take(l, i) \/ Accept(l, i)
      PROVE  UNCHANGED <<base, merge, ruling>>
  BY <1>8 DEF Claim, PrepareTake, Take, Accept, LedgerAlone, LedgerOnly,
     readings
<1>9. ASSUME NEW i \in Issue,
             \/ Release(i) \/ Unassign(i) \/ Authorize(i) \/ Refuse(i)
             \/ Cancel(i) \/ Decline(i) \/ Lapse(i) \/ ExpireOffer(i)
             \/ ReportPartial(i) \/ ReportBlocked(i)
             \/ EndMergedClaim(i) \/ ObserveResponse(i)
             \/ EndClosedIssue(i) \/ ForgeReopens(i)
      PROVE  UNCHANGED <<base, merge, ruling>>
  BY <1>9 DEF Release, Unassign, Authorize, Refuse, Cancel, Decline, Lapse,
     ExpireOffer, ReportPartial, ReportBlocked, Report, EndMergedClaim,
     ObserveResponse, EndClosedIssue, ForgeReopens, LedgerAlone, LedgerOnly,
     readings
<1>10. ASSUME NEW i \in Issue, NEW l \in Lane,
              \/ Assign(i, l) \/ RequestTakeover(l, i)
              \/ \E due \in Windows, d \in {0} \cup (Diff \ diffs) :
                    OfferIssue(i, l, due, d)
       PROVE  UNCHANGED <<base, merge, ruling>>
  BY <1>10 DEF Assign, RequestTakeover, OfferIssue, LedgerAlone, LedgerOnly,
     readings
<1>11. ASSUME NEW i \in Issue, NEW j \in Issue,
              \/ Block(i, j) \/ Unblock(i, j) \/ ApplyPlan(i, j)
              \/ ReportBlockedOn(i, j) \/ \E c \in Commit : ReportReady(i, c)
       PROVE  UNCHANGED <<base, merge, ruling>>
  BY <1>11 DEF Block, Unblock, ApplyPlan, ReportBlockedOn, ReportReady,
     Report, LedgerAlone, LedgerOnly, readings
<1>12. CASE \/ \E i \in Closing, how \in Endings : ForgeEnds(i, how)
            \/ \E l \in Mortal : Die(l) \/ Return(l)
            \/ GrantRequests \/ ReadOverdue \/ SettleDependencies
            \/ ReadForge \/ RemindOfReading \/ RemindAfterRelease
            \/ Escalate \/ EscalateUnread \/ FailStage
            \/ ReadPresence \/ MarkOrphans \/ UNCHANGED vars
  BY <1>2, <1>12 DEF ForgeEnds, Die, Return, GrantRequests, ReadOverdue,
     SettleDependencies, ReadForge, RemindOfReading, RemindAfterRelease,
     Escalate, EscalateUnread, FailStage, ReadPresence, MarkOrphans,
     LedgerAlone, LedgerOnly, readings, vars
<1>13. Directed \subseteq Lane /\ Asking \subseteq Lane /\ Offered \subseteq Lane
  BY ConstantsAssumption
<1> HIDE DEF MergeOK
<1> QED
  BY <1>2, <1>3, <1>4, <1>5, <1>6, <1>7, <1>8, <1>9, <1>10, <1>11, <1>12,
     <1>13 DEF Next

-----------------------------------------------------------------------------
(* The invariant.                                                          *)

(* What the records name stays on disk, and apart. *)
LEMMA DiffsStep ==
  ASSUME Inv, LedgerStep
  PROVE  PendingDiffsExist'
<1>1. /\ \A i \in Issue : Named(record[i]) \subseteq diffs
      /\ \A i, j \in Issue : i # j =>
            Named(record[i]) \cap Named(record[j]) = {}
  BY DEF Inv, PendingDiffsExist, Named
<1>2. \A i \in Issue : OwnDiffs(record'[i])
  BY DEF LedgerStep, Sound, SoundRecord
<1>3. SUFFICES /\ \A i \in Issue : Named(record'[i]) \subseteq diffs'
               /\ \A i, j \in Issue : i # j =>
                     Named(record'[i]) \cap Named(record'[j]) = {}
  BY <1>2, <1>3 DEF PendingDiffsExist, Named, OwnDiffs
<1>4. CASE \A i \in Issue : Named(record'[i]) \subseteq Named(record[i])
  <2>1. CASE diffs' = diffs
    BY <1>1, <1>4, <2>1
  <2>2. CASE OneDrops
    <3>1. PICK i \in Issue :
              diffs \ diffs' \subseteq Named(record[i]) \ Named(record'[i])
      BY <2>2 DEF OneDrops
    <3>2. Named(record'[i]) \subseteq diffs'
      BY <1>1, <1>4, <3>1
    <3>3. ASSUME NEW k \in Issue \ {i}
          PROVE  Named(record'[k]) \subseteq diffs'
      <4>1. /\ Named(record'[k]) \subseteq diffs
            /\ Named(record'[k]) \cap Named(record[i]) = {}
        BY <1>1, <1>4
      <4> QED
        BY <3>1, <4>1
    <3> QED
      BY <1>1, <1>4, <3>2, <3>3
  <2>3. CASE OneAttaches
    BY <1>1, <1>4, <2>3 DEF OneAttaches
  <2> QED
    BY <2>1, <2>2, <2>3
       DEF LedgerStep, Quiet, OneMoves, OneWaits, DiffsShrink
<1>5. CASE OneAttaches
  <2>1. PICK i \in Issue, d \in Diff \ diffs :
            /\ diffs' = diffs \cup {d}
            /\ Named(record'[i]) = Named(record[i]) \cup {d}
            /\ \A k \in Issue \ {i} : record'[k] = record[k]
    BY <1>5 DEF OneAttaches
  <2>2. \A k \in Issue \ {i} : Named(record'[k]) = Named(record[k])
    BY <2>1
  <2> QED
    BY <1>1, <2>1, <2>2
<1>6. CASE Quiet \/ OneMoves \/ OneWaits
  <2>1. \A i \in Issue : Named(record'[i]) \subseteq Named(record[i])
    BY <1>6 DEF Quiet, OneMoves, OneWaits, Kept, Passed, LetGo
  <2> QED
    BY <1>4, <2>1
<1> QED
  BY <1>5, <1>6 DEF LedgerStep

LEMMA InitInv == Init => Inv
<1> SUFFICES ASSUME Init PROVE Inv
  OBVIOUS
<1>1. record \in [Issue -> Sound] /\ record \in [Issue -> Record]
  BY UnseenSound DEF Init, Sound
<1>2. TypeOK
  BY <1>1, Constants, NoMatter DEF Init, TypeOK
<1>3. NamesIssues
  BY DEF Init, NamesIssues, NoMerge
<1>4. PendingDiffsExist
  BY DEF Init, PendingDiffsExist, Unseen, NoOffer
<1> QED
  BY <1>1, <1>2, <1>3, <1>4 DEF Inv

LEMMA InvStep == Inv /\ [Next]_vars => Inv'
<1> SUFFICES ASSUME Inv, [Next]_vars PROVE Inv'
  OBVIOUS
<1>1. LedgerStep
  BY StepShape
<1>2. WorldOK' /\ MergeOK'
  BY WorldStep, MergeStep
<1>3. record' \in [Issue -> Sound] /\ record' \in [Issue -> Record]
      /\ diffs' \subseteq Diff
  BY <1>1 DEF LedgerStep, Sound
<1>4. TypeOK' /\ NamesIssues'
  BY <1>2, <1>3 DEF TypeOK, WorldOK, MergeOK
<1>5. PendingDiffsExist'
  BY <1>1, DiffsStep
<1> QED
  BY <1>3, <1>4, <1>5 DEF Inv

(* Every behaviour of the ledger keeps the invariant. *)
THEOREM Invariance == Spec => []Inv
BY InitInv, InvStep, PTL DEF Spec

(* Types: the ledger, the readings and the merge in progress keep theirs
   whatever is read, answered, merged or lost in between. *)
THEOREM TypeCorrect == Spec => []TypeOK
BY Invariance, PTL DEF Inv

LEMMA InvFacts ==
  Inv => /\ WorkIsHeld /\ EndedIsUnowned
         /\ NobodyIsAskedForTheirOwn /\ OrphanMarksAreCurrent
<1> SUFFICES ASSUME Inv
             PROVE  /\ WorkIsHeld /\ EndedIsUnowned
                    /\ NobodyIsAskedForTheirOwn /\ OrphanMarksAreCurrent
  OBVIOUS
<1>1. \A i \in Issue : SoundRecord(record[i])
  BY RecordOf
<1> QED
  BY <1>1 DEF SoundRecord, Held, AsksOthers, MarkIsCurrent, WorkIsHeld,
     EndedIsUnowned, NobodyIsAskedForTheirOwn, OrphanMarksAreCurrent

(* Work in progress has an owner and an owner has work in progress, also
   when a merge fails long after the claim it was started for is gone. *)
THEOREM WorkHeld == Spec => []WorkIsHeld
BY Invariance, InvFacts, PTL

(* What ended on the forge is nobody's work. *)
THEOREM EndedUnowned == Spec => []EndedIsUnowned
BY Invariance, InvFacts, PTL

(* An offer or a request is to somebody else than the owner, and a request
   never outlives the claim it was made to. *)
THEOREM AskedOfOthers == Spec => []NobodyIsAskedForTheirOwn
BY Invariance, InvFacts, PTL

(* A mark names the owner and the claim that stand. *)
THEOREM MarksCurrent == Spec => []OrphanMarksAreCurrent
BY Invariance, InvFacts, PTL

(* A diff that an offer or a handoff names is on disk, and no two name the
   same one. *)
THEOREM DiffsExist == Spec => []PendingDiffsExist
BY Invariance, PTL DEF Inv

-----------------------------------------------------------------------------
(* What no step does.                                                      *)

(* Whatever the step, each record is kept, passed or let go. *)
LEMMA RecordStep ==
  ASSUME Inv, [Next]_vars, NEW i \in Issue
  PROVE  \/ Alike(record[i], record'[i])
         \/ Passed(record[i], record'[i])
         \/ LetGo(i, record[i], record'[i])
<1>1. LedgerStep
  BY StepShape
<1>2. CASE Quiet
  BY <1>2 DEF Quiet, Kept
<1>3. CASE OneMoves
  BY <1>3 DEF OneMoves, Kept
<1>4. CASE OneWaits
  BY <1>4 DEF OneWaits, Kept
<1>5. CASE OneAttaches
  BY <1>5 DEF OneAttaches, Alike
<1> QED
  BY <1>1, <1>2, <1>3, <1>4, <1>5 DEF LedgerStep

(* An issue passes only by an offer, from free work, or from a dead owner,
   and every passage is a new claim. *)
THEOREM Consent == Spec => OwnershipMovesByConsent
<1> DEFINE Moves(i) ==
       LET r == record[i]
           n == record'[i]
       IN  n.owner \notin {r.owner, NoLane} =>
             /\ n.claim = r.claim + 1
             /\ \/ r.offer.to = n.owner
                \/ ~Owned(r) /\ r.offer = NoOffer
                \/ /\ r.orphan.of = r.owner /\ r.orphan.claim = r.claim
                   /\ r.owner \in dead
<1>1. ASSUME Inv, [Next]_vars, NEW i \in Issue
      PROVE  Moves(i)
  BY <1>1, RecordStep DEF Alike, Passed, LetGo
<1>2. Inv /\ [Next]_vars => [\A i \in Issue : Moves(i)]_vars
  BY <1>1
<1> QED
  BY <1>2, Invariance, PTL DEF Spec, OwnershipMovesByConsent

(* Verified work stays verified, and nobody owns it again. *)
THEOREM CompleteFinal == Spec => CompleteIsFinal
<1> DEFINE Stays(i) == record[i].phase = "complete" =>
                          /\ record'[i].phase = "complete"
                          /\ record'[i].owner = NoLane
<1>1. ASSUME Inv, [Next]_vars, NEW i \in Issue
      PROVE  Stays(i)
  <2>1. SoundRecord(record[i])
    BY <1>1, RecordOf
  <2> QED
    BY <1>1, <2>1, RecordStep
       DEF Alike, Passed, LetGo, SoundRecord, Held, Owned
<1>2. Inv /\ [Next]_vars => [\A i \in Issue : Stays(i)]_vars
  BY <1>1
<1> QED
  BY <1>2, Invariance, PTL DEF Spec, CompleteIsFinal

(* Work becomes complete only on evidence for the claim it then has. *)
THEOREM Evidenced == Spec => CompletionHasEvidence
<1> DEFINE Shown(i) ==
       LET r == record[i]
       IN  record'[i].phase = "complete" /\ r.phase # "complete" =>
             \/ <<i, r.claim, r.commit>> \in base
             \/ seen[i].by # "nothing" /\ seen[i].claim = r.claim
             \/ ruling = [issue |-> i, merged |-> TRUE]
<1>1. ASSUME Inv, [Next]_vars, NEW i \in Issue
      PROVE  Shown(i)
  BY <1>1, RecordStep DEF Alike, Passed, LetGo, Proven
<1>2. Inv /\ [Next]_vars => [\A i \in Issue : Shown(i)]_vars
  BY <1>1
<1> QED
  BY <1>2, Invariance, PTL DEF Spec, CompletionHasEvidence

-----------------------------------------------------------------------------
(* Dependencies.                                                           *)

(* A step that adds an edge adds one from i to j such that no edges led from
   j to i: those that did lead from j stay within a set without i. *)
LEMMA AcyclicStep ==
  ASSUME Inv, DependenciesAreAcyclic, [Next]_vars
  PROVE  DependenciesAreAcyclic'
<1>1. LedgerStep
  BY StepShape
<1>2. CASE \A k \in Issue : record'[k].waits \subseteq record[k].waits
  BY <1>2 DEF DependenciesAreAcyclic
<1>3. CASE OneWaits
  <2>1. PICK i \in Issue, j \in Issue :
            /\ i # j /\ ~Reaches(record, j, i)
            /\ record'[i].waits = record[i].waits \cup {j}
            /\ \A k \in Issue \ {i} : Kept(record[k], record'[k])
    BY <1>3 DEF OneWaits
  <2>2. PICK T \in SUBSET Issue :
            /\ j \in T /\ i \notin T
            /\ \A k \in T : record[k].waits \subseteq T
    BY <2>1 DEF Reaches
  <2>3. ASSUME NEW S \in SUBSET Issue, S # {}
        PROVE  \E k \in S : record'[k].waits \cap S = {}
    <3>1. CASE S \cap T # {}
      <4>1. PICK k \in S \cap T : record[k].waits \cap (S \cap T) = {}
        <5>1. S \cap T \in (SUBSET Issue) \ {{}}
          BY <3>1
        <5> QED
          BY <5>1 DEF DependenciesAreAcyclic
      <4>2. record'[k].waits \subseteq record[k].waits
        BY <2>1, <2>2, <4>1 DEF Kept
      <4>3. record'[k].waits \cap S = {}
        BY <2>2, <4>1, <4>2
      <4> QED
        BY <4>1, <4>3
    <3>2. CASE S \cap T = {}
      <4>1. PICK k \in S : record[k].waits \cap S = {}
        BY <2>3 DEF DependenciesAreAcyclic
      <4>2. record'[k].waits \subseteq record[k].waits \cup {j}
        BY <2>1, <4>1 DEF Kept
      <4>3. record'[k].waits \cap S = {}
        BY <2>2, <3>2, <4>1, <4>2
      <4> QED
        BY <4>1, <4>3
    <3> QED
      BY <3>1, <3>2
  <2> QED
    BY <2>3 DEF DependenciesAreAcyclic
<1>4. CASE Quiet \/ OneMoves \/ OneAttaches
  <2>1. \A k \in Issue : record'[k].waits \subseteq record[k].waits
    BY <1>4 DEF Quiet, OneMoves, OneAttaches, Kept, Passed, LetGo
  <2> QED
    BY <1>2, <2>1
<1> QED
  BY <1>1, <1>3, <1>4 DEF LedgerStep

(* No circle of issues waits on itself. *)
THEOREM Acyclic == Spec => []DependenciesAreAcyclic
<1>1. Init => DependenciesAreAcyclic
  BY DEF Init, DependenciesAreAcyclic, Unseen
<1>2. Inv /\ DependenciesAreAcyclic /\ [Next]_vars => DependenciesAreAcyclic'
  BY AcyclicStep
<1> QED
  BY <1>1, <1>2, Invariance, PTL DEF Spec

(* Nothing waits on verified work: an issue is freed by the step that
   completes what it waits on, and no edge is added to a complete one. *)
THEOREM NothingWaits == Spec => []NothingWaitsOnCompleteWork
<1>1. Init => NothingWaitsOnCompleteWork
  BY DEF Init, NothingWaitsOnCompleteWork, Unseen
<1>2. ASSUME Inv, NothingWaitsOnCompleteWork, [Next]_vars
      PROVE  NothingWaitsOnCompleteWork'
  <2>1. LedgerStep /\ record \in [Issue -> Record]
    BY <1>2, StepShape DEF Inv, TypeOK
  <2>2. ASSUME NEW k \in Issue, NEW j \in record'[k].waits
        PROVE  record'[j].phase # "complete"
    <3>1. j \in Issue
      BY <2>1, <2>2 DEF LedgerStep, Sound, Record
    <3>2. CASE Quiet
      BY <1>2, <2>2, <3>1, <3>2
         DEF Quiet, Kept, Alike, NothingWaitsOnCompleteWork
    <3>3. CASE OneMoves
      <4>1. PICK i \in Issue :
               /\ Passed(record[i], record'[i]) \/ LetGo(i, record[i], record'[i])
               /\ record'[i].phase = "complete" =>
                     \A m \in Issue : i \notin record'[m].waits
               /\ \A m \in Issue \ {i} : Kept(record[m], record'[m])
        BY <3>3 DEF OneMoves
      <4>2. record'[k].waits \subseteq record[k].waits
        BY <4>1 DEF Kept, Passed, LetGo
      <4>3. CASE j = i
        BY <2>2, <4>1, <4>3
      <4>4. CASE j # i
        BY <1>2, <2>2, <3>1, <4>1, <4>2, <4>4
           DEF Kept, Alike, NothingWaitsOnCompleteWork
      <4> QED
        BY <4>3, <4>4
    <3>4. CASE OneWaits
      <4>1. \A m \in Issue : Alike(record[m], record'[m])
        BY <3>4 DEF OneWaits, Kept
      <4>2. j \in record[k].waits \/ record[j].phase # "complete"
        BY <2>2, <3>4 DEF OneWaits, Kept
      <4> QED
        BY <1>2, <3>1, <4>1, <4>2 DEF Alike, NothingWaitsOnCompleteWork
    <3>5. CASE OneAttaches
      BY <1>2, <2>2, <3>1, <3>5
         DEF OneAttaches, Alike, NothingWaitsOnCompleteWork
    <3> QED
      BY <2>1, <3>2, <3>3, <3>4, <3>5 DEF LedgerStep
  <2> QED
    BY <2>2 DEF NothingWaitsOnCompleteWork
<1>3. Inv /\ NothingWaitsOnCompleteWork /\ [Next]_vars
        => NothingWaitsOnCompleteWork'
  BY <1>2
<1> QED
  BY <1>1, <1>3, Invariance, PTL DEF Spec

(* What would be resumed by the end of another issue is resumed only when
   nothing is left for it to wait on. *)
THEOREM ResumedUnblocked == Spec => ResumedWorkIsUnblocked
<1> DEFINE Free(i) ==
       (/\ record[i].resume # {}
        /\ record'[i].claim = record[i].claim
        /\ record'[i].phase = "running"
        /\ record'[i].waits # record[i].waits)
          => record'[i].waits = {}
<1>1. ASSUME Inv, [Next]_vars, NEW i \in Issue
      PROVE  Free(i)
  <2> DEFINE r == record[i]
             n == record'[i]
  <2>1. /\ r.resume # {} => r.phase = "blocked"
        /\ r.claim \in ClaimId /\ r.claim + 1 # r.claim
    BY <1>1, RecordOf, Constants DEF SoundRecord, Resumes, Record, ClaimId
  <2>2. \/ Kept(r, n) \/ Passed(r, n) \/ LetGo(i, r, n)
        \/ ~Resumed(r, n) \/ n.phase = r.phase
    <3>1. LedgerStep
      BY <1>1, StepShape
    <3>2. CASE Quiet \/ OneMoves
      BY <3>2 DEF Quiet, OneMoves
    <3>3. CASE OneWaits
      BY <3>3 DEF OneWaits
    <3>4. CASE OneAttaches
      BY <3>4 DEF OneAttaches
    <3> QED
      BY <3>1, <3>2, <3>3, <3>4 DEF LedgerStep
  <2> HIDE DEF r, n
  <2>3. (/\ r.resume # {} /\ n.claim = r.claim /\ n.phase = "running"
         /\ n.waits # r.waits) => n.waits = {}
    BY <2>1, <2>2 DEF Kept, Passed, LetGo, Resumed
  <2> QED
    BY <2>3 DEF r, n
<1>2. Inv /\ [Next]_vars => [\A i \in Issue : Free(i)]_vars
  BY <1>1
<1> QED
  BY <1>2, Invariance, PTL DEF Spec, ResumedWorkIsUnblocked

-----------------------------------------------------------------------------
(* The ledger implements Ownership.                                        *)

owners == [i \in Issue |-> record[i].owner]
claims == [i \in Issue |-> record[i].claim]
offered == [i \in Issue |-> record[i].offer.to]
done == {i \in Issue : record[i].phase = "complete"}

(* A session that dies or returns changes nothing of the ledger. *)
LEMMA LanesStep ==
  ASSUME [Next]_vars
  PROVE  dead' = dead \/ (record' = record /\ diffs' = diffs /\ dead' \subseteq dead \cup Lane)
<1>1. ASSUME NEW l \in Mortal, Die(l) \/ Return(l)
      PROVE  record' = record /\ diffs' = diffs /\ dead' \subseteq dead \cup Lane
  BY <1>1, ConstantsAssumption DEF Die, Return, Live
<1>2. ASSUME NEW l \in Lane, NEW i \in Issue,
             Claim(l, i) \/ PrepareTake(l, i) \/ Take(l, i) \/ Accept(l, i)
      PROVE  dead' = dead
  BY <1>2 DEF Claim, PrepareTake, Take, Accept, LedgerAlone, LedgerOnly, world
<1>3. ASSUME NEW i \in Issue,
             \/ Release(i) \/ Unassign(i) \/ Authorize(i) \/ Refuse(i)
             \/ Cancel(i) \/ Decline(i) \/ Lapse(i) \/ ExpireOffer(i)
             \/ ReportPartial(i) \/ ReportBlocked(i)
             \/ StartMerge(i) \/ EndMergedClaim(i) \/ ObserveResponse(i)
             \/ ReadRuling(i) \/ EndClosedIssue(i) \/ ForgeReopens(i)
      PROVE  dead' = dead
  BY <1>3 DEF Release, Unassign, Authorize, Refuse, Cancel, Decline, Lapse,
     ExpireOffer, ReportPartial, ReportBlocked, Report, StartMerge,
     EndMergedClaim, ObserveResponse, ReadRuling, EndClosedIssue, ForgeReopens,
     LedgerAlone, LedgerOnly, world
<1>4. ASSUME NEW i \in Issue, NEW l,
             \/ Assign(i, l) \/ RequestTakeover(l, i)
             \/ \E due \in Windows, d \in {0} \cup (Diff \ diffs) :
                    OfferIssue(i, l, due, d)
      PROVE  dead' = dead
  BY <1>4 DEF Assign, RequestTakeover, OfferIssue, LedgerAlone, LedgerOnly,
     world
<1>5. ASSUME NEW i \in Issue, NEW j \in Issue,
             \/ Block(i, j) \/ Unblock(i, j) \/ ApplyPlan(i, j)
             \/ ReportBlockedOn(i, j) \/ \E c \in Commit : ReportReady(i, c)
      PROVE  dead' = dead
  BY <1>5 DEF Block, Unblock, ApplyPlan, ReportBlockedOn, ReportReady, Report,
     LedgerAlone, LedgerOnly, world
<1>6. CASE \/ \E i \in Closing, how \in Endings : ForgeEnds(i, how)
           \/ GrantRequests \/ ReadOverdue \/ SettleDependencies
           \/ VerifyMerge \/ Complete \/ FailMerge \/ AbandonMerge
           \/ ReadForge \/ RemindOfReading \/ RemindAfterRelease
           \/ Escalate \/ EscalateUnread \/ FailStage \/ Rule
           \/ ReadPresence \/ MarkOrphans \/ UNCHANGED vars
  BY <1>6 DEF ForgeEnds, GrantRequests, ReadOverdue, SettleDependencies,
     VerifyMerge, Complete, FailMerge, AbandonMerge, ReadForge,
     RemindOfReading, RemindAfterRelease, Escalate, EscalateUnread, FailStage,
     Rule, ReadPresence, MarkOrphans, LedgerAlone, LedgerOnly, readings, world,
     vars
<1> QED
  BY <1>1, <1>2, <1>3, <1>4, <1>5, <1>6 DEF Next

LEMMA OwnersType ==
  ASSUME Inv
  PROVE  /\ owners \in [Issue -> MaybeLane] /\ claims \in [Issue -> ClaimId]
         /\ offered \in [Issue -> MaybeLane] /\ done \subseteq Issue
         /\ \A i \in Issue : offered[i] # NoLane => offered[i] # owners[i]
<1>1. ASSUME NEW i \in Issue
      PROVE  /\ record[i].owner \in MaybeLane /\ record[i].claim \in ClaimId
             /\ record[i].offer.to \in MaybeLane
             /\ record[i].offer.to # NoLane => record[i].offer.to # record[i].owner
  BY RecordOf DEF Record, Offer, SoundRecord, AsksOthers, NoOffer
<1> QED
  BY <1>1 DEF owners, claims, offered, done

(* Nothing passes: at most promises change. *)
LEMMA NegotiateStep ==
  ASSUME Inv, Inv', dead' = dead,
         \A i \in Issue : Alike(record[i], record'[i])
  PROVE  Promises!Negotiate
<1>1. owners' = owners /\ claims' = claims /\ done' = done
  BY DEF owners, claims, done, Alike
<1>2. /\ offered' \in [Issue -> Lane \cup {NoLane}]
      /\ \A i \in Issue : offered'[i] # NoLane => offered'[i] # owners'[i]
  <2>1. /\ offered \in [Issue -> MaybeLane]
        /\ \A i \in Issue : offered[i] # NoLane => offered[i] # owners[i]
    BY OwnersType
  <2>2. ASSUME NEW i \in Issue
        PROVE  /\ record'[i].offer.to \in MaybeLane
               /\ record'[i].offer.to # NoLane
                     => record'[i].offer.to # record'[i].owner
    BY DEF Inv, Sound, Record, Offer, SoundRecord, AsksOthers, NoOffer
  <2> QED
    BY <2>2 DEF offered, owners, MaybeLane
<1>3. \A i \in Issue : offered'[i] \in {NoLane} \cup (Lane \ {owners[i]})
  BY <1>1, <1>2
<1> QED
  BY <1>1, <1>2, <1>3
     DEF Promises!Negotiate, owners, claims, offered, done

(* One issue passes. *)
LEMMA PassStep ==
  ASSUME Inv, Inv', dead' = dead, NEW i \in Issue,
         Passed(record[i], record'[i]),
         \A j \in Issue \ {i} : /\ Alike(record[j], record'[j])
                                /\ record'[j].offer = record[j].offer
  PROVE  \E l \in Lane : \/ Promises!Claim(i, l) \/ Promises!Renew(i, l)
                         \/ Promises!Accept(i, l) \/ Promises!Take(i, l)
<1> DEFINE l == record'[i].owner
<1>1. /\ l \in Lane /\ record'[i].claim = record[i].claim + 1
      /\ record'[i].offer = NoOffer /\ NoOffer.to = NoLane
      /\ i \notin done /\ record'[i].phase # "complete"
  BY DEF Passed, done, NoOffer
<1>2. owners' = [owners EXCEPT ![i] = l]
  BY DEF owners, Alike
<1>3. claims' = [claims EXCEPT ![i] = claims[i] + 1]
  BY <1>1 DEF claims, Alike
<1>4. offered' = [offered EXCEPT ![i] = NoLane]
  BY <1>1 DEF offered
<1>5. done' = done
  BY <1>1 DEF done, Alike
<1>6. Promises!Give(i, l)
  BY <1>1, <1>2, <1>3, <1>4, <1>5
     DEF Promises!Give, owners, claims, offered, done
<1>7. \/ offered[i] = l \/ owners[i] = l
      \/ owners[i] = NoLane /\ offered[i] = NoLane
      \/ owners[i] \in dead
  BY <1>1 DEF Passed, owners, offered, Owned
<1> HIDE DEF l
<1>8. \/ Promises!Claim(i, l) \/ Promises!Renew(i, l)
      \/ Promises!Accept(i, l) \/ Promises!Take(i, l)
  BY <1>6, <1>7
     DEF Promises!Claim, Promises!Renew, Promises!Accept, Promises!Take,
         owners, offered
<1> QED
  BY <1>1, <1>8

(* One claim ends. *)
LEMMA LeaveStep ==
  ASSUME Inv, Inv', dead' = dead, NEW i \in Issue,
         LetGo(i, record[i], record'[i]),
         \A j \in Issue \ {i} : /\ Alike(record[j], record'[j])
                                /\ record'[j].offer = record[j].offer
  PROVE  Promises!Release(i) \/ Promises!Complete(i)
<1>1. /\ owners[i] # NoLane /\ record'[i].owner = NoLane
      /\ record'[i].claim = record[i].claim
      /\ record'[i].offer = NoOffer /\ NoOffer.to = NoLane /\ i \notin done
  BY DEF LetGo, owners, done, NoOffer, Owned
<1>2. owners' = [owners EXCEPT ![i] = NoLane]
  BY <1>1 DEF owners, Alike
<1>3. claims' = claims
  BY <1>1 DEF claims, Alike
<1>4. offered' = [offered EXCEPT ![i] = NoLane]
  BY <1>1 DEF offered
<1>5. \A j \in Issue \ {i} : j \in done' <=> j \in done
  BY DEF done, Alike
<1>6. done' = done \/ done' = done \cup {i}
  <2>1. done \subseteq Issue /\ done' \subseteq Issue
    BY DEF done
  <2>2. CASE i \in done'
    <3>1. \A j : j \in done' <=> j \in done \cup {i}
      BY <1>5, <2>1, <2>2
    <3> QED
      BY <3>1
  <2>3. CASE i \notin done'
    <3>1. \A j : j \in done' <=> j \in done
      BY <1>1, <1>5, <2>1, <2>3
    <3> QED
      BY <3>1
  <2> QED
    BY <2>2, <2>3
<1>7. Promises!Leave(i)
  BY <1>1, <1>2, <1>3, <1>4 DEF Promises!Leave, owners, claims, offered
<1> QED
  BY <1>1, <1>6, <1>7 DEF Promises!Release, Promises!Complete, done

LEMMA PromisesStep ==
  ASSUME Inv, Inv', [Next]_vars
  PROVE  [Promises!Next]_(Promises!vars)
<1>1. LedgerStep
  BY StepShape
<1>2. CASE dead' # dead
  <2>1. record' = record /\ dead' \subseteq dead \cup Lane
    BY <1>2, LanesStep
  <2>2. dead' \subseteq Lane
    BY <2>1 DEF Inv, TypeOK
  <2>3. Promises!LanesChange
    BY <2>1, <2>2 DEF Promises!LanesChange
  <2> QED
    BY <2>3 DEF Promises!Next
<1>3. CASE dead' = dead /\ OneMoves
  <2>1. PICK i \in Issue :
            /\ Passed(record[i], record'[i]) \/ LetGo(i, record[i], record'[i])
            /\ \A j \in Issue \ {i} : /\ Alike(record[j], record'[j])
                                      /\ record'[j].offer = record[j].offer
    BY <1>3 DEF OneMoves, Kept
  <2> QED
    BY <1>3, <2>1, PassStep, LeaveStep DEF Promises!Next
<1>4. CASE dead' = dead /\ (Quiet \/ OneWaits \/ OneAttaches)
  <2>1. \A i \in Issue : Alike(record[i], record'[i])
    BY <1>4 DEF Quiet, OneWaits, OneAttaches, Kept, Alike
  <2> QED
    BY <1>4, <2>1, NegotiateStep DEF Promises!Next
<1> QED
  BY <1>1, <1>2, <1>3, <1>4 DEF LedgerStep

LEMMA PromisesInit == Init => Promises!Init
BY DEF Init, Promises!Init, Unseen, NoOffer

(* Every behaviour of the ledger is one of Ownership. *)
THEOREM OwnershipKept == Spec => OwnershipIsKept
<1>1. Inv /\ Inv' /\ [Next]_vars => [Promises!Next]_(Promises!vars)
  BY PromisesStep
<1> QED
  BY <1>1, PromisesInit, Invariance, PTL
     DEF Spec, OwnershipIsKept, Promises!Spec

=============================================================================
