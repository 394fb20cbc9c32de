----------------------------- MODULE Situations -----------------------------
(***************************************************************************)
(* Situations kept once: the decision the operator is asked for, and the   *)
(* follow-up issue that is filed when it is accepted.                      *)
(* The parts share no state: each has its own Init and Next.               *)
(***************************************************************************)
EXTENDS Naturals, FiniteSets

(***************************************************************************)
(* One operator decision: a situation of one lane opens it, and the        *)
(* operator answers it from the chat or the command line.                  *)
(*                                                                         *)
(* The record is kept under the situation's stable identifier; every time  *)
(* the situation comes back after the decision ended, the record is a new  *)
(* occurrence with its own nonce.  Each step under decisions.lock is one   *)
(* action; decide reads the record without the lock, and other actors step *)
(* in before it records the answer.  Notices says how the operator gets    *)
(* the buttons.                                                            *)
(***************************************************************************)

CONSTANT MaxOccurrence      \* model bound: occurrences of the situation

VARIABLES
    decided,    \* the record in decisions.json
    answerer,   \* answers read and not recorded: from the chat, from the cli
    buttons,    \* occurrences the operator has a digest of
    prompts,    \* confirm buttons the operator has
    again       \* ghost: an answer was carried out a second time

decVars == <<decided, answerer, buttons, prompts, again>>

Occurrence == 1..MaxOccurrence
Option == {"plain", "grave"}
NoAnswer == "no answer"
Answerers == {"chat", "cli"}
NotAsked == [of |-> 0, option |-> NoAnswer]

Fresh(n) == [n |-> n, state |-> "open", late |-> FALSE, answer |-> NoAnswer,
             applied |-> FALSE]

DecisionsTypeOK ==
    /\ decided \in [n : 0..MaxOccurrence,
                    state : {"none", "open", "answered", "closed", "stale", "expired"},
                    late : BOOLEAN, answer : Option \cup {NoAnswer},
                    applied : BOOLEAN]
    /\ answerer \in [Answerers -> [of : 0..MaxOccurrence,
                                   option : Option \cup {NoAnswer}]]
    /\ buttons \subseteq Occurrence /\ prompts \subseteq Occurrence \X Option
    /\ again \in BOOLEAN

DecisionsInit ==
    /\ decided = [Fresh(0) EXCEPT !.state = "none"]
    /\ answerer = [a \in Answerers |-> NotAsked]
    /\ buttons = {} /\ prompts = {} /\ again = FALSE

(* _expire: what the writers that care for the expiry do first. *)
Expired(r) == IF r.state = "open" /\ r.late THEN [r EXCEPT !.state = "expired"] ELSE r

-----------------------------------------------------------------------------
(* open_or_refresh: the open decision of the situation lives on; one that
   ended is replaced by a new occurrence. *)
Opened(r) ==
    IF Expired(r).state = "open" THEN [r EXCEPT !.late = FALSE] ELSE Fresh(r.n + 1)

OpenOrRefresh ==
    /\ Expired(decided).state = "open" \/ decided.n < MaxOccurrence
    /\ decided' = Opened(decided)
    /\ UNCHANGED <<answerer, buttons, prompts, again>>

(* A digest of the occurrence reaches the operator. *)
Posted ==
    /\ decided.state = "open" /\ decided.n \notin buttons
    /\ buttons' = buttons \cup {decided.n}
    /\ UNCHANGED <<decided, answerer, prompts, again>>

(* The situation cleared, or changed, without an answer; stale also ends an
   answer nobody has carried out. *)
Close ==
    /\ decided.state = "open"
    /\ decided' = [decided EXCEPT !.state = "closed"]
    /\ UNCHANGED <<answerer, buttons, prompts, again>>

MayStale(r) == ~r.applied /\ r.state \in {"open", "answered"}

Stale ==
    /\ MayStale(decided)
    /\ decided' = [decided EXCEPT !.state = "stale"]
    /\ UNCHANGED <<answerer, buttons, prompts, again>>

(* applied: the one step that carries an answer out claims it first. *)
MayApply(r) == r.state = "answered" /\ ~r.applied

Applied ==
    /\ MayApply(decided)
    /\ decided' = [decided EXCEPT !.applied = TRUE]
    /\ again' = (again \/ decided.applied)
    /\ UNCHANGED <<answerer, buttons, prompts>>

ExpiryComes ==
    /\ decided.state = "open" /\ ~decided.late
    /\ decided' = [decided EXCEPT !.late = TRUE]
    /\ UNCHANGED <<answerer, buttons, prompts, again>>

-----------------------------------------------------------------------------
(* decide: the record is read, the occurrence and the option are checked, and
   an answer that needs it is asked for again before anything is recorded. *)
Confirming(option, sure) == option = "grave" /\ ~sure

Admits(n) == decided.n = n /\ decided.state = "open" /\ ~decided.late

Decide(a, n, option, sure) ==
    /\ answerer[a] = NotAsked /\ Admits(n)
    /\ IF Confirming(option, sure)
         THEN prompts' = prompts \cup {<<decided.n, option>>} /\ UNCHANGED answerer
         ELSE /\ answerer' = [answerer EXCEPT ![a] = [of |-> n, option |-> option]]
              /\ UNCHANGED prompts
    /\ UNCHANGED <<decided, buttons, again>>

(* A tap names the occurrence its button was posted for; a typed answer names
   the current one, and cannot confirm. *)
Tap ==
    \E n \in buttons, option \in Option, sure \in BOOLEAN :
        (sure => <<n, option>> \in prompts) /\ Decide("chat", n, option, sure)

Typed == \E option \in Option :
    decided.n > 0 /\ Decide("cli", decided.n, option, FALSE)

(* answer: under the lock the option is refused again if the decision ended
   or is not open any more.  The occurrence is not compared again. *)
Refused(r) == r.state # "open"

Answer(a) ==
    /\ answerer[a] # NotAsked
    /\ answerer' = [answerer EXCEPT ![a] = NotAsked]
    /\ LET r == Expired(decided)
       IN  IF Refused(r) THEN UNCHANGED decided
           ELSE decided' = [r EXCEPT !.state = "answered",
                                     !.answer = answerer[a].option]
    /\ UNCHANGED <<buttons, prompts, again>>

-----------------------------------------------------------------------------
DecisionsNext ==
    \/ OpenOrRefresh \/ Posted \/ Close \/ Stale \/ Applied \/ ExpiryComes
    \/ Tap \/ Typed \/ \E a \in Answerers : Answer(a)

DecisionsSpec == DecisionsInit /\ [][DecisionsNext]_decVars

-----------------------------------------------------------------------------
(* What cannot be undone is answered only after the operator was asked to
   confirm it: in this occurrence, or in one that was replaced between the
   read decide makes and the answer it records (inbound.py:812, 823). *)
GraveAnswersWereConfirmed ==
    decided.state = "answered" /\ decided.answer = "grave"
        => \E n \in 1..decided.n : <<n, "grave">> \in prompts

AnswersStandStep ==
    (decided.state = "answered" /\ decided'.n = decided.n)
        => /\ decided'.answer = decided.answer
           /\ decided.applied => decided'.state = "answered"

(* The first answer stands, whoever else was answering, and what was carried
   out does not go stale. *)
AnswersStand == [][AnswersStandStep]_decVars

(* An answered occurrence is carried out once, and a new one starts without
   the answer of the last. *)
CarriedOutOnce ==
    /\ ~again
    /\ decided.state = "open" => decided.answer = NoAnswer /\ ~decided.applied

-----------------------------------------------------------------------------
(* What makes them inductive. *)
DecidedShape ==
    decided \in [n : 0..MaxOccurrence,
                 state : {"none", "open", "answered", "closed", "stale", "expired"},
                 late : BOOLEAN, answer : Option \cup {NoAnswer}, applied : BOOLEAN]
AnswererShape ==
    answerer \in [Answerers -> [of : 0..MaxOccurrence, option : Option \cup {NoAnswer}]]
AskedShape ==
    buttons \subseteq Occurrence /\ prompts \subseteq Occurrence \X Option /\ again \in BOOLEAN

AskedIsNumbered == decided.state # "none" => decided.n >= 1
AnswersArePast == \A a \in Answerers : answerer[a].of <= decided.n

(* An answer that is on its way to the record was confirmed when it was read. *)
GraveWereAsked ==
    \A a \in Answerers :
        answerer[a].option = "grave" => \E n \in 1..answerer[a].of : <<n, "grave">> \in prompts

DecisionsInv ==
    /\ DecidedShape /\ AnswererShape /\ AskedShape /\ AskedIsNumbered
    /\ AnswersArePast /\ GraveWereAsked /\ GraveAnswersWereConfirmed /\ CarriedOutOnce

-----------------------------------------------------------------------------
(***************************************************************************)
(* One follow-up a lane suggests and the operator accepts, from a chat     *)
(* button or the command line: filing takes a call to the forge, so an     *)
(* acceptance is a mark under followups.lock, the call outside it, the     *)
(* outcome under the lock again, an assignment in the ledger, and the      *)
(* name of the recipient under the lock a third time.                      *)
(***************************************************************************)

CONSTANTS
    IdleLanes,      \* lanes that may be idle
    NoTaker,        \* no lane
    MaxForged       \* model bound: issues the forge files

VARIABLES
    suggestion, \* the entry in followups.json
    ask,        \* the decision that carries its accept button
    accepting,  \* the acceptance each of the two ways in is making
    forged,     \* issues filed for the suggestion
    offeredTo,  \* the pending offer, or the owner, of the filed issue
    doubts      \* ghost: filings whose answer was lost, late or not waited for

followVars == <<suggestion, ask, accepting, forged, offeredTo, doubts>>

Ways == {"chat", "cli"}
NoSuggestion == [state |-> "none", filing |-> "no", expired |-> FALSE,
                 taker |-> NoTaker, linked |-> FALSE]
Gone == [NoSuggestion EXCEPT !.state = "gone"]
NotAccepting == [step |-> "idle", taker |-> NoTaker]

FollowupsTypeOK ==
    /\ suggestion \in [state : {"none", "pending", "accepted", "gone"},
                       filing : {"no", "fresh", "old"}, expired : BOOLEAN,
                       taker : IdleLanes \cup {NoTaker}, linked : BOOLEAN]
    /\ ask \in {"none", "open", "answered", "closed"}
    /\ accepting \in [Ways -> [step : {"idle", "file", "mark", "unsure", "refused",
                                       "assign", "note", "settle"},
                               taker : IdleLanes \cup {NoTaker}]]
    /\ forged \in 0..MaxForged /\ offeredTo \in IdleLanes \cup {NoTaker}
    /\ doubts \in BOOLEAN

FollowupsInit ==
    /\ suggestion = NoSuggestion /\ ask = "none"
    /\ accepting = [w \in Ways |-> NotAccepting]
    /\ forged = 0 /\ offeredTo = NoTaker /\ doubts = FALSE

At(w, step) == accepting[w].step = step
Go(w, step) == accepting' = [accepting EXCEPT ![w].step = step]
Leave(w) == accepting' = [accepting EXCEPT ![w] = NotAccepting]
Filing(w) == accepting[w].step \in {"file", "mark", "refused", "unsure"}

-----------------------------------------------------------------------------
(* suggest; then the decision, and the link to it, in steps of their own. *)
Suggest ==
    /\ suggestion = NoSuggestion
    /\ suggestion' = [NoSuggestion EXCEPT !.state = "pending"]
    /\ UNCHANGED <<ask, accepting, forged, offeredTo, doubts>>

OpenAsk ==
    /\ suggestion.state = "pending" /\ ask = "none" /\ ask' = "open"
    /\ UNCHANGED <<suggestion, accepting, forged, offeredTo, doubts>>

Link ==
    /\ ask # "none" /\ suggestion.state # "gone" /\ ~suggestion.linked
    /\ suggestion' = [suggestion EXCEPT !.linked = TRUE]
    /\ UNCHANGED <<ask, accepting, forged, offeredTo, doubts>>

Expire ==
    /\ suggestion.state = "pending" /\ ~suggestion.expired
    /\ suggestion' = [suggestion EXCEPT !.expired = TRUE]
    /\ UNCHANGED <<ask, accepting, forged, offeredTo, doubts>>

(* FILING_SECONDS pass: longer than the forge call may take. *)
FilingAges ==
    /\ suggestion.filing = "fresh"
    /\ suggestion' = [suggestion EXCEPT !.filing = "old"]
    /\ doubts' = (doubts \/ \E w \in Ways : Filing(w))
    /\ UNCHANGED <<ask, accepting, forged, offeredTo>>

(* _prune, before every acceptance and every other suggestion. *)
Pruned(s) == IF s.state = "pending" /\ s.expired THEN Gone ELSE s

Prune ==
    /\ Pruned(suggestion) # suggestion /\ suggestion' = Pruned(suggestion)
    /\ UNCHANGED <<ask, accepting, forged, offeredTo, doubts>>

-----------------------------------------------------------------------------
(* accept: one way in marks the suggestion as being filed, the other waits. *)
MayFile(s) == s.state = "pending" /\ s.filing # "fresh"

(* accept_decision finds the suggestion by its decision, which must be open. *)
Named(w) == w = "chat" => suggestion.linked /\ ask = "open"

Accept(w) ==
    /\ At(w, "idle") /\ Named(w)
    /\ LET s == Pruned(suggestion)
       IN  \/ /\ MayFile(s)
              /\ suggestion' = [s EXCEPT !.filing = "fresh"]
              /\ Go(w, "file")
           \/ /\ s.state = "accepted" /\ UNCHANGED suggestion
              /\ Go(w, IF s.taker = NoTaker THEN "assign" ELSE "settle")
           \/ /\ s.state = "gone" /\ suggestion.state = "pending"
              /\ suggestion' = s /\ UNCHANGED accepting
    /\ UNCHANGED <<ask, forged, offeredTo, doubts>>

(* file_issue: filed and heard of, refused, or filed by a call whose answer
   did not come in time. *)
File(w) ==
    /\ At(w, "file")
    /\ \/ Go(w, "refused") /\ UNCHANGED <<forged, doubts>>
       \/ /\ forged < MaxForged /\ forged' = forged + 1
          /\ \/ Go(w, "mark") /\ UNCHANGED doubts
             \/ Go(w, "unsure") /\ doubts' = TRUE
    /\ UNCHANGED <<suggestion, ask, offeredTo>>

(* _file's outcome: an entry that was pruned while it was being filed comes
   back as accepted; without a number it stays pending and may be retried. *)
Marked(s) == [s EXCEPT !.state = "accepted", !.filing = "no", !.linked = TRUE]

Unfiled(w) == Leave(w)

Mark(w) ==
    /\ \/ At(w, "mark") /\ suggestion' = Marked(suggestion) /\ Go(w, "assign")
       \/ /\ At(w, "refused") \/ At(w, "unsure")
          /\ suggestion' = [suggestion EXCEPT !.filing = "no"] /\ Unfiled(w)
    /\ UNCHANGED <<ask, forged, offeredTo, doubts>>

(* idle_lane picks among the lanes without a claim or an offer, outside the
   ledger's lock; the ledger refuses a second offer. *)
Assigned(l) == IF offeredTo = NoTaker THEN l ELSE offeredTo

Assign(w) ==
    /\ At(w, "assign")
    /\ \/ \E l \in IdleLanes :
            /\ l # offeredTo /\ offeredTo' = Assigned(l)
            /\ IF offeredTo' = l
                 THEN accepting' = [accepting EXCEPT ![w] = [step |-> "note", taker |-> l]]
                 ELSE Leave(w)
       \/ Go(w, "settle") /\ UNCHANGED offeredTo
    /\ UNCHANGED <<suggestion, ask, forged, doubts>>

Note(w) ==
    /\ At(w, "note")
    /\ suggestion' = IF suggestion.state = "gone" THEN suggestion
                     ELSE [suggestion EXCEPT !.taker = accepting[w].taker]
    /\ Go(w, "settle")
    /\ UNCHANGED <<ask, forged, offeredTo, doubts>>

(* A tap answers the decision only now; the command line closes it. *)
SettleAsk(w) ==
    /\ At(w, "settle") /\ Leave(w)
    /\ ask' = IF ask # "open" THEN ask ELSE IF w = "chat" THEN "answered" ELSE "closed"
    /\ UNCHANGED <<suggestion, forged, offeredTo, doubts>>

(* The process that accepts stops. *)
Stops(w) ==
    /\ ~At(w, "idle") /\ Leave(w)
    /\ doubts' = (doubts \/ At(w, "file") \/ At(w, "mark"))
    /\ UNCHANGED <<suggestion, ask, forged, offeredTo>>

(* The lane declines the offer, or it expires: the issue is free again. *)
Decline ==
    /\ offeredTo # NoTaker /\ offeredTo' = NoTaker
    /\ UNCHANGED <<suggestion, ask, accepting, forged, doubts>>

FollowupsNext ==
    \/ Suggest \/ OpenAsk \/ Link \/ Expire \/ FilingAges \/ Prune \/ Decline
    \/ \E w \in Ways : \/ Accept(w) \/ File(w) \/ Mark(w) \/ Assign(w)
                       \/ Note(w) \/ SettleAsk(w) \/ Stops(w)

FollowupsSpec == FollowupsInit /\ [][FollowupsNext]_followVars

-----------------------------------------------------------------------------
(* The operator may accept from two places at once and a suggestion is filed
   once, unless a filing's answer was late, lost or not waited for: then
   nobody can tell (followups.py:474, 552). *)
FiledOnce == ~doubts => forged <= 1

(* A filed issue the forge told of is on record as accepted, also when the
   suggestion expired and was pruned while it was being filed. *)
FiledIsRemembered ==
    (forged > 0 /\ ~doubts /\ \A w \in Ways : ~At(w, "mark"))
        => suggestion.state = "accepted"

(* An answered decision means the issue exists: the answer is recorded after
   the filing, whatever fails in between. *)
AnsweredMeansFiled == ask = "answered" => forged > 0

OffersAreNotReplacedStep ==
    offeredTo # NoTaker => offeredTo' \in {offeredTo, NoTaker}

(* However often it is accepted, an offer that is pending is not replaced by
   another one. *)
OffersAreNotReplaced == [][OffersAreNotReplacedStep]_followVars

-----------------------------------------------------------------------------
(* What makes them inductive. *)
Suggestions == [state : {"none", "pending", "accepted", "gone"},
                filing : {"no", "fresh", "old"}, expired : BOOLEAN,
                taker : IdleLanes \cup {NoTaker}, linked : BOOLEAN]
Acceptances == [step : {"idle", "file", "mark", "unsure", "refused", "assign", "note", "settle"},
                taker : IdleLanes \cup {NoTaker}]

SuggestionShape == suggestion \in Suggestions
AcceptingShape == accepting \in [Ways -> Acceptances]
AskShape == ask \in {"none", "open", "answered", "closed"}
ForgedShape ==
    forged \in 0..MaxForged /\ offeredTo \in IdleLanes \cup {NoTaker} /\ doubts \in BOOLEAN

(* Who is past the forge's answer, and a record of it, know that it filed. *)
AcceptedWasFiled == suggestion.state = "accepted" => forged > 0
PastFilingWasFiled ==
    \A w \in Ways : accepting[w].step \in {"mark", "assign", "note", "settle"} => forged > 0

(* While every filing was heard of: one way in files, what it files is marked
   or was pruned away, and the issue it files is recorded or about to be. *)
UnsureDoubts == \A w \in Ways : At(w, "unsure") => doubts
OneFiles == ~doubts => \A w, v \in Ways : Filing(w) /\ Filing(v) => w = v
FilingIsMarked ==
    ~doubts => \A w \in Ways :
        Filing(w) => \/ suggestion.state = "pending" /\ suggestion.filing = "fresh"
                     \/ suggestion.state = "gone"
NotFiledYet == ~doubts => \A w \in Ways : At(w, "file") \/ At(w, "refused") => forged = 0

FollowupsInv ==
    /\ SuggestionShape /\ AcceptingShape /\ AskShape /\ ForgedShape /\ AcceptedWasFiled
    /\ PastFilingWasFiled /\ UnsureDoubts /\ OneFiles /\ FilingIsMarked /\ NotFiledYet
    /\ FiledOnce /\ FiledIsRemembered /\ AnsweredMeansFiled
=============================================================================
