------------------------------ MODULE Ownership ------------------------------
(***************************************************************************)
(* What the issue ledger promises of ownership, without its records: whose *)
(* an issue is and in which generation of ownership, to whom it is         *)
(* promised, whether its work is complete, and which lanes are gone.       *)
(*                                                                         *)
(* An issue is one lane's at a time.  It is promised to one lane at a time *)
(* and never to its owner.  It passes by claim when it is free, by         *)
(* acceptance of the promise, or from an owner that is gone, and every     *)
(* passage is a new generation.  Complete work is nobody's for ever.       *)
(***************************************************************************)
EXTENDS Naturals

CONSTANTS Lane, NoLane, Issue

VARIABLES
    owner,       \* of each issue, or NoLane
    generation,  \* how often each issue was claimed
    promised,    \* the lane each issue is offered to, or NoLane
    complete,    \* issues whose work is complete
    gone         \* lanes whose session is gone

vars == <<owner, generation, promised, complete, gone>>

Init ==
    /\ owner = [i \in Issue |-> NoLane]
    /\ generation = [i \in Issue |-> 0]
    /\ promised = [i \in Issue |-> NoLane]
    /\ complete = {}
    /\ gone = {}

(* Promises are made, taken back and lapse: no issue is owed to its owner. *)
Negotiate ==
    /\ promised' \in [Issue -> Lane \cup {NoLane}]
    /\ \A i \in Issue :
          promised'[i] # promised[i] => promised'[i] \in {NoLane} \cup (Lane \ {owner[i]})
    /\ UNCHANGED <<owner, generation, complete, gone>>

Give(i, l) ==
    /\ i \notin complete
    /\ owner' = [owner EXCEPT ![i] = l]
    /\ generation' = [generation EXCEPT ![i] = @ + 1]
    /\ promised' = [promised EXCEPT ![i] = NoLane]
    /\ UNCHANGED <<complete, gone>>

Claim(i, l) == owner[i] = NoLane /\ promised[i] = NoLane /\ Give(i, l)

(* A lane that was thought gone claims its own issue anew. *)
Renew(i, l) == owner[i] = l /\ Give(i, l)

Accept(i, l) == promised[i] = l /\ Give(i, l)

Take(i, l) == owner[i] \in gone /\ Give(i, l)

Leave(i) ==
    /\ owner[i] # NoLane
    /\ owner' = [owner EXCEPT ![i] = NoLane]
    /\ promised' = [promised EXCEPT ![i] = NoLane]
    /\ UNCHANGED <<generation, gone>>

Release(i) == Leave(i) /\ UNCHANGED complete

Complete(i) == i \notin complete /\ Leave(i) /\ complete' = complete \cup {i}

(* Sessions die and return. *)
LanesChange ==
    /\ gone' \subseteq Lane
    /\ UNCHANGED <<owner, generation, promised, complete>>

Next ==
    \/ Negotiate
    \/ \E i \in Issue, l \in Lane :
          Claim(i, l) \/ Renew(i, l) \/ Accept(i, l) \/ Take(i, l)
    \/ \E i \in Issue : Release(i) \/ Complete(i)
    \/ LanesChange

Spec == Init /\ [][Next]_vars

=============================================================================
