------------------------- MODULE MembershipHistory -------------------------
(***************************************************************************)
(* MembershipState with the history its comments argue about: when each    *)
(* member's seat in the core group last moved (superseded_by in state.rs). *)
(***************************************************************************)
EXTENDS MembershipState

\* m |-> the index of the entry that last gave, moved or took m's seat.
VARIABLE moved_at

historyVars == <<vars, moved_at>>

HistoryInit == Init /\ moved_at = [m \in Member |-> 0]

HistoryNext ==
    /\ Next
    /\ moved_at' = [m \in Member |->
                        IF Moved(m, core, core') THEN log_index' ELSE moved_at[m]]

HistorySpec == HistoryInit /\ [][HistoryNext]_historyVars

\* Approving a waiting core map never silently reverts a later change: of every
\* member the map names whose seat moved after the map was proposed, it says
\* exactly what the group says now (so a moved node's dead address never comes
\* back by an approval).  The map may have been waiting through any number of
\* address changes, promotions, demotions and expulsions.
WaitingMapsAgree ==
    \A p \in DOMAIN pending :
        pending[p].event.kind = "CoreGroupChanged" =>
            \A m \in Named(pending[p].event.core) :
                moved_at[m] > p =>
                    m \in DOMAIN core /\ core[m] = AddrIn(pending[p].event.core, m)
=============================================================================
