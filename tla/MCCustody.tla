------------------------------ MODULE MCCustody ------------------------------
(* Three members, one of them pledging too little to weigh, and two items.   *)
EXTENDS Custody, TLC

CONSTANTS n1, n2, n3, i1, i2

MCScore == i1 :> <<n1, n2, n3>> @@ i2 :> <<n3, n2, n1>>

\* All three; without n2; n3 pledging below the minimum.
MCGroups == {
    n1 :> 3 @@ n2 :> 2 @@ n3 :> 4,
    n1 :> 3 @@ n3 :> 4,
    n1 :> 3 @@ n2 :> 2 @@ n3 :> 1 }

MCStored == {[creators |-> {n2}, size_bytes |-> 1], [creators |-> {n2, n3}, size_bytes |-> 2]}
=============================================================================
