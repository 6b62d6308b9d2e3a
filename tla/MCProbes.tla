------------------------------ MODULE MCProbes ------------------------------
(* One node that probes two others, of which one may lie.  Each scenario     *)
(* lets a few of the things that can happen interleave.                      *)
EXTENDS Probes, TLC

CONSTANTS n1, n2, n3, i1, i2, c0

MCSize == [f \in File |-> 0]
MCStored == [i \in Item |-> [creators |-> {}, size_bytes |-> 1]]
MCScore == [i \in Item |-> IF i = i1 THEN <<n1, n2, n3>> ELSE <<n2, n1, n3>>]

Wrote(custodian, named, by, at, item) ==
    Entry(FailureKey(custodian, named), by, at, ProbeFailure(item, c0, 1))

Nothing == [fails |-> {}, checks |-> {}, arrives |-> {}, groups |-> <<>>, loses |-> {}, evicts |-> {},
            bases |-> {}, offline |-> {}, restarts |-> 0]

Pledges(a, b, c) == n1 :> a @@ n2 :> b @@ n3 :> c

\* This node holds an item, and so does n2.
Base == [group |-> Pledges(1, 1, 1), applied |-> n2 :> Pledges(1, 1, 1) @@ n3 :> Pledges(1, 1, 1), held |-> {i1},
         claims |-> n2 :> {i1} @@ n3 :> {}, unknown |-> {}, doc |-> {}, left |-> Nothing]

MCScenarios == {
    \* A copy is lost, and this node restarts.
    [Base EXCEPT !.left.loses = {<<n2, i1>>}, !.left.restarts = 1],
    \* A slow answer, and a write that fails.
    [Base EXCEPT !.claims[n2] = {i1, i2}, !.left.fails = {"timeout", "put"}],
    [Base EXCEPT !.doc = {Wrote(n2, n1, n1, 0, i1)}, !.left.fails = {"put"}, !.left.restarts = 1],
    \* A member is checked, and the caller leaves.
    [Base EXCEPT !.doc = {Wrote(n2, n1, n1, 0, i1)}, !.left.checks = {n2}, !.left.fails = {"client"}],
    [Base EXCEPT !.left.checks = {n2}, !.left.fails = {"timeout", "client"}],
    \* A failure of an item this node no longer holds, of one that is asked about.
    [Base EXCEPT !.held = {}, !.claims[n2] = {i1, i2}, !.doc = {Wrote(n2, n1, n1, 0, i1), Wrote(n3, n2, n2, 0, i1)}, !.left.checks = {n2}],
    \* One writes under another's name of this node, and takes its own back; a read fails.
    [Base EXCEPT !.left.arrives = {Wrote(n1, n3, n3, 0, i1), Wrote(n1, n2, n3, 1, i1), Deletion(FailureKey(n1, n3), n3, 2)}],
    [Base EXCEPT !.doc = {Wrote(n2, n3, n3, 0, i1)}, !.left.arrives = {Wrote(n3, n2, n2, 1, i1)}, !.left.fails = {"read"}],
    \* A pledge raised here is not yet known where it is asked.
    [Base EXCEPT !.applied[n2] = Pledges(0, 1, 1)],
    \* A prober is expelled, and this node's pledge lowered.
    [Base EXCEPT !.doc = {Wrote(n2, n3, n3, 0, i1)}, !.left.groups = <<n1 :> 0 @@ n2 :> 1>>],
    \* An item is let go of, and another has yet to be fetched; the list is not known.
    [Base EXCEPT !.left.evicts = {<<n2, i1>>}],
    [Base EXCEPT !.held = {i1, i2}, !.unknown = {n2}, !.left.offline = {n2}, !.left.fails = {"count"}],
    [Base EXCEPT !.held = {i1, i2}, !.claims[n2] = {i1, i2}, !.left.bases = {n2}, !.left.checks = {n2}]
}
=============================================================================
