------------------------------ MODULE MCKeeping ------------------------------
(* A node with two other members and three items.  Each scenario lets a few  *)
(* of the things that can happen interleave: releases with fetches for room, *)
(* files added during fetches, downloads and adds with evictions, members    *)
(* that leave an item alone, and restarts.                                   *)
EXTENDS KeepingNode

CONSTANTS n1, n2, n3, i1, i2, i3, f1, f2, f3, u1, u2

MCScore == i1 :> <<n1, n3, n2>> @@ i2 :> <<n3, n1, n2>> @@ i3 :> <<n3, n2, n1>>
MCSize == f1 :> 2 @@ f2 :> 1 @@ f3 :> 1
MCFileOf == u1 :> f2 @@ u2 :> f3

\* All three: this node has i1, and is next for i2.  Without n3: it has both.
\* Pledging the minimum, and less than a step: it has neither.
All == n1 :> 2 @@ n2 :> 2 @@ n3 :> 2
Pair == n1 :> 2 @@ n2 :> 2
Out == n1 :> 1 @@ n2 :> 2 @@ n3 :> 2
MCGroups == {All, Pair, Out}

Nothing == [moves |-> 0, members |-> 0, files |-> 0, upgrades |-> 0, downloads |-> 0, adds |-> 0,
            restarts |-> 0, panics |-> 0, uploads |-> 0, calls |-> <<>>, leaves |-> 0]

Has(fs) == [f \in File |-> IF f \in fs THEN "complete" ELSE "absent"]
Both == {n2, n3}

Start == [
    files |-> i1 :> {f1} @@ i2 :> {f2} @@ i3 :> {}, creators |-> i1 :> {n2} @@ i2 :> {n2} @@ i3 :> {},
    tags |-> {}, here |-> Has({}), membership |-> All, online |-> Both,
    holders |-> i1 :> Both @@ i2 :> Both @@ i3 :> {}, unknown |-> {}, used |-> <<>>, left |-> Nothing]

\* Nothing but what is uploaded.
Alone == [Start EXCEPT !.membership = Out, !.files = i1 :> {} @@ i2 :> {} @@ i3 :> {},
                       !.creators = i1 :> {} @@ i2 :> {} @@ i3 :> {}, !.holders = i1 :> {} @@ i2 :> {} @@ i3 :> {}]
Call(uploads) == [item |-> i3, uploads |-> uploads]

MCScenarios == {
    \* Custody moves between two items there is no room for together.
    [Start EXCEPT !.membership = Pair, !.left.members = 2, !.tags = {<<"custody", i1, f1>>}, !.here = Has({f1})],
    \* A file is added while the item is being fetched, and its holders come and go.
    [Start EXCEPT !.files = i1 :> {f2} @@ i2 :> {} @@ i3 :> {}, !.holders = i1 :> {n2} @@ i2 :> {} @@ i3 :> {}, !.left.files = 1, !.left.moves = 1],
    \* The only holder is away when the item is wanted.
    [Start EXCEPT !.files[i2] = {}, !.holders = i1 :> {n2} @@ i2 :> {} @@ i3 :> {}, !.online = {n3}, !.left.moves = 1],
    \* An item is down to one copy.
    [Start EXCEPT !.files[i1] = {}, !.holders[i1] = {}, !.holders[i2] = {n3}, !.left.moves = 2, !.left.panics = 1],
    \* Two downloads, over a cache in which two items share a file.
    [Start EXCEPT !.membership = Out, !.files[i3] = {f2}, !.creators[i3] = {n2}, !.holders[i3] = Both, !.here = Has({f2}),
                  !.tags = {<<"cache", i2, f2>>, <<"cache", i3, f2>>}, !.used = <<i3, i2>>,
                  !.left.downloads = 2, !.left.panics = 1],
    \* An add takes room from the cache.
    [Start EXCEPT !.membership = Out, !.here = Has({f2, f3}), !.used = <<i2, i1>>, !.files[i1] = {f3},
                  !.tags = {<<"cache", i2, f2>>, <<"cache", i1, f3>>}, !.left.adds = 1],
    \* Custody is lost while a member has not said what it holds, or an upgrade is needed.
    [Start EXCEPT !.tags = {<<"custody", i1, f1>>}, !.here = Has({f1}), !.unknown = {n3},
                  !.left.members = 1, !.left.moves = 1, !.left.upgrades = 1],
    \* A restart, with custody of one item taken up and another kept.
    [Start EXCEPT !.files[i1] = {f3}, !.tags = {<<"custody", i1, f3>>}, !.here = Has({f3}),
                  !.left.members = 1, !.left.restarts = 1],
    \* The same upload is given to two adds, and a client goes away.
    [Alone EXCEPT !.left.uploads = 1, !.left.calls = <<Call(<<u1>>), Call(<<u1>>)>>, !.left.leaves = 1],
    \* One add is given two uploads, of which one may have broken off; a restart.
    [Alone EXCEPT !.left.uploads = 2, !.left.calls = <<Call(<<u1, u2>>)>>, !.left.restarts = 1]
}
=============================================================================
