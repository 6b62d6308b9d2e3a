------------------------------ MODULE Emergency ------------------------------
(***************************************************************************)
(* Emergency copies (distlib-custody emergency.rs): an item down to one    *)
(* live copy for long enough is copied, as cache, by the first online      *)
(* member after its custodians.  Time is whether the delay has passed.     *)
(***************************************************************************)
EXTENDS Keeping

VARIABLES
    alone,          \* Item -> "none", "Since", "Due" or "Copying"
    ripe,           \* items alone for emergency_after_secs
    look_alone,     \* an availability change waits to be acted on
    stuck,          \* history: items whose copy panicked, or failed with no look to come
    looked_at       \* history: the membership at the last look

emergencyVars == <<alone, ripe, look_alone, stuck, looked_at>>

EmergencyTypeOK ==
    /\ alone \in [Item -> {"none", "Since", "Due", "Copying"}]
    /\ ripe \subseteq {item \in Item : alone[item] = "Since"}
    /\ \A item \in Item : Busy("emergency", item) => alone[item] = "Copying"

\* Holders::sole_holders, of the items this node does not hold.
AloneNow == {item \in Item \ held : Cardinality(holders[item] \cap online) = 1}

DelayPasses(item) ==
    /\ alone[item] = "Since" /\ item \notin ripe
    /\ ripe' = ripe \cup {item}
    /\ UNCHANGED <<keepingVars, alone, look_alone, stuck, looked_at>>

\* Mutant: an item due stays due when it has its copies again.
Updated_mutant ==
    [item \in Item |->
        CASE alone[item] = "none" -> IF item \in AloneNow THEN "Since" ELSE "none"
          [] alone[item] = "Since" /\ item \in ripe -> "Due"
          [] OTHER -> alone[item]]

\* AloneItems::update: one being copied stays, alone or not.
Updated ==
    [item \in Item |->
        CASE alone[item] = "Copying" -> "Copying"
          [] alone[item] # "Copying" /\ item \notin AloneNow -> "none"
          [] alone[item] = "none" /\ item \in AloneNow -> "Since"
          [] OTHER -> IF item \in ripe THEN "Due" ELSE alone[item]]

\* is_mine_to_copy: the first after the custodians, of those online and not
\* the one holder, under the membership as it is now.
is_mine_to_copy(item) ==
    LET eligible == (online \cup {me}) \ holders[item] IN
    files[item] # {} /\ first_after_custodians(membership, item, Stored(item), eligible) = {me}

\* Emergency::look starts a copy of each item due that is this node's to make.
Looks ==
    /\ look_alone \/ \E item \in ripe : alone[item] = "Since"
    /\ look_alone' = FALSE
    /\ ripe' = {} /\ looked_at' = membership
    /\ \E updated \in {Updated} :
       \E mine \in {{item \in Item : updated[item] = "Due" /\ is_mine_to_copy(item)}} :
       /\ alone' = [item \in Item |-> IF item \in mine THEN "Copying" ELSE updated[item]]
       /\ jobs' = jobs \cup {NewJob("emergency", item, "start") : item \in mine}
    /\ stuck' = {item \in stuck : alone[item] = "Copying"}
    /\ UNCHANGED <<worldVars, keepVars>>

\* Mutant: a copy that failed counts as being made.
copied_mutant(j) ==
    /\ j.why = "emergency" /\ j.step = "done"
    /\ jobs' = jobs \ {j}
    /\ alone' = IF j.result = "ok" THEN [alone EXCEPT ![j.item] = "none"] ELSE alone
    /\ stuck' = IF j.result = "ok" \/ look_alone THEN stuck ELSE stuck \cup {j.item}
    /\ UNCHANGED <<worldVars, keepVars, ripe, look_alone, looked_at>>

\* A copy done is no longer alone here; one failed is due at the next look.
copied(j) ==
    /\ j.why = "emergency" /\ j.step = "done"
    /\ jobs' = jobs \ {j}
    /\ alone' = [alone EXCEPT ![j.item] = IF j.result = "ok" THEN "none" ELSE "Due"]
    /\ stuck' = IF j.result = "ok" \/ look_alone THEN stuck ELSE stuck \cup {j.item}
    /\ UNCHANGED <<worldVars, keepVars, ripe, look_alone, looked_at>>

\* A copy that panicked is not heard of again.
CopyPanics(j) ==
    /\ j.why = "emergency" /\ j.step = "fetch"
    /\ jobs' = jobs \ {j}
    /\ stuck' = stuck \cup {j.item}
    /\ UNCHANGED <<worldVars, keepVars, alone, ripe, look_alone, looked_at>>

EmergencyLoop == Looks \/ \E j \in jobs : copied(j)

----------------------------------------------------------------------------

\* A copy is begun only of an item with one live copy, and none here, that has
\* been so since a look before this one: one that has its copies again starts
\* its wait anew (emergency.rs update, look).
CopiesOnlyTheAlone ==
    [][\A item \in Item :
          (~ Busy("emergency", item) /\ (\E j \in jobs' : j.why = "emergency" /\ j.item = item)) =>
              item \in AloneNow /\ alone[item] # "none"]_<<jobs, alone>>
=============================================================================
