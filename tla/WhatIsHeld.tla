------------------------------ MODULE WhatIsHeld ------------------------------
(***************************************************************************)
(* What a node promises about another member's holdings: it says nothing,  *)
(* or exactly what that member said it held in the beat last accepted, and *)
(* within one run of the member it never accepts an earlier beat.          *)
(*                                                                         *)
(* The abstract side of Availability.                                      *)
(***************************************************************************)
EXTENDS Naturals, Sequences

CONSTANT Item

VARIABLES
    said,       \* what the member has said, in order: [epoch, items]
    heard,      \* which of it this node accepted last; 0: nothing
    view        \* what it tells: {} nothing, else {the set of items}

vars == <<said, heard, view>>

Init == said = <<>> /\ heard = 0 /\ view = {}

Says ==
    /\ Len(said') = Len(said) + 1
    /\ said' = Append(said, said'[Len(said')])
    /\ said'[Len(said')].items \subseteq Item
    /\ UNCHANGED <<heard, view>>

Told(k) == {{}, {said[k].items}}

\* A beat is accepted, of another run or later in the same one.
Hears ==
    /\ \E k \in DOMAIN said :
          /\ (heard # 0 /\ said[k].epoch = said[heard].epoch) => k > heard
          /\ heard' = k
          /\ view' \in Told(k)
    /\ UNCHANGED said

\* The list a beat referred to is here, or is not to be had.
Learns ==
    /\ heard # 0
    /\ view' \in Told(heard)
    /\ UNCHANGED <<said, heard>>

\* The member is expelled.
Forgets == heard' = 0 /\ view' = {} /\ UNCHANGED said

Next == Says \/ Hears \/ Learns \/ Forgets

Spec == Init /\ [][Next]_vars
=============================================================================
