------------------------------ MODULE MCLibrary ------------------------------
(* A node in a group of up to three, with two items and a wish.  Each        *)
(* scenario lets a few of the things that can happen interleave.             *)
EXTENDS Library

CONSTANTS n1, n2, n3, i1, i2, w1, f1, f2, a1, a2

MCSize == f1 :> 2 @@ f2 :> 1

Title(i, by, at) == Entry(Key("field", i, "title", 0), by, at, Plain)
FileOf(i, f, by, at) == Entry(Key("file", i, f, 0), by, at, Plain)
Said(kind, of, by, at) == Entry(CommunityKey(kind, of, by, 0), by, at, Plain)
Forged(kind, of, named, by, at) == Entry(CommunityKey(kind, of, named, 0), by, at, Plain)
WishOf(by, at, titled) == Entry(CommunityKey("wish", w1, by, 0), by, at, [Plain EXCEPT !.title = titled, !.created_at = at])
Hides(named, by) == Deletion(CommunityKey("bookmark", i1, named, 0), by, 2)
Call(op, of, with) == [op |-> op, of |-> of, with |-> with]

Nothing == [writes |-> {}, fails |-> {}, ups |-> 0, downs |-> 0, backstop |-> FALSE, moves |-> 0,
            addresses |-> {}, groups |-> <<>>, calls |-> {}, crashes |-> 0, reindexes |-> 0]
Nobody == [p \in {n2, n3} |-> {}]

\* Two members; the other's document has what it has the content of.
Pair(d, t) == [doc |-> d, content |-> d, members |-> {n1, n2}, directory |-> n2 :> a1 @@ n3 :> None,
               theirs |-> n2 :> t @@ n3 :> {}, held |-> n2 :> t @@ n3 :> {}, left |-> Nothing]

\* The commit of the index fails, and nothing else does.
Uncommittable == [Pair({Title(i1, n1, 1)}, {}) EXCEPT !.left.fails = {"commit"}, !.left.crashes = 1,
                     !.left.calls = {Call("edit_metadata", i1, None)}]
\* A restart between a deletion and its projection.
DeletedUnread == [Pair({Title(i1, n1, 1), Said("bookmark", i1, n1, 1)}, {}) EXCEPT !.left.crashes = 1,
                     !.left.calls = {Call("bookmark_delete", i1, 0), Call("rate", i1, Plain)}]

MCScenarios == {
    Uncommittable, DeletedUnread,
    \* What cannot be listed or committed, until a reindex comes to it.
    [Pair({Title(i1, n1, 1), Said("bookmark", i1, n2, 1), WishOf(n2, 1, TRUE)}, {}) EXCEPT
        !.left.fails = {"replay", "commit"}, !.left.reindexes = 1, !.left.calls = {Call("edit_metadata", i1, None)}],
    \* The table of members cannot be written.
    [Pair({Title(i1, n2, 1), Said("rating", i1, n3, 1)}, {}) EXCEPT
        !.members = {n1, n2, n3}, !.left.groups = <<{n1, n2}, {n1, n2, n3}>>, !.left.fails = {"members", "replay"}],
    \* Another member's newer deletion under the key of a bookmark: there before the
    \* node starts, before the bookmark's member is expelled, and before a restart.
    [Pair({Title(i1, n1, 1), Said("bookmark", i1, n2, 1), Hides(n2, n3)}, {}) EXCEPT
        !.left.calls = {Call("bookmark", i1, None)}, !.left.groups = <<{n1, n2, n3}>>],
    [Pair({Title(i1, n1, 1), Said("bookmark", i1, n3, 1)}, {Hides(n3, n2)}) EXCEPT
        !.members = {n1, n2, n3}, !.left.groups = <<{n1, n2}>>],
    [Pair({Title(i1, n1, 1), Said("bookmark", i1, n2, 1)}, {Hides(n2, n3)}) EXCEPT !.left.crashes = 1],
    \* The other writes while a first round is running and it becomes a neighbour.
    [Pair({}, {}) EXCEPT !.left.ups = 1, !.left.writes = {<<n2, Title(i1, n2, 1)>>}],
    \* A neighbour's words about an item, whose content may come late.
    [Pair({Title(i1, n2, 1)}, {Title(i1, n2, 1)}) EXCEPT !.left.ups = 1, !.left.fails = {"download"},
        !.left.writes = {<<n2, Said("review", i1, n2, 2)>>}],
    \* A member is expelled, and another writes under its name.
    [Pair({Title(i1, n2, 1), Said("rating", i1, n3, 1), Forged("rating", i1, n3, n2, 3), Said("bookmark", i1, n3, 1)}, {})
        EXCEPT !.members = {n1, n2, n3}, !.left.groups = <<{n1, n2}>>],
    \* Two members ask for something and one answers it.
    [Pair({WishOf(n2, 1, TRUE)}, {}) EXCEPT
        !.left.calls = {Call("add", i1, {f1}), Call("wish_fulfill", w1, i1)}],
    [Pair({Title(i1, n1, 1)}, {}) EXCEPT
        !.left.calls = {Call("wish_create", w1, None), Call("wish_fulfill", w1, i1), Call("wish_comment", w1, Plain)}],
    \* The rest of what a member may say of an item.
    [Pair({Title(i1, n1, 1), FileOf(i1, f1, n2, 1), Said("rating", i1, n1, 1)}, {}) EXCEPT
        !.left.calls = {Call("add", i1, {f1, f2}), Call("rate", i1, None), Call("review", i2, Plain)}, !.left.fails = {"round"}],
    [Pair({Title(i1, n1, 1)}, {}) EXCEPT
        !.left.calls = {Call("bookmark", i1, None), Call("bookmark", i1, 0), Call("edit_metadata", i1, None)}],
    \* Something cannot be projected, and the read model is rebuilt.
    [Pair({Title(i1, n1, 1), Said("bookmark", i1, n2, 2)}, {}) EXCEPT !.directory[n2] = None, !.left.fails = {"project"}, !.left.reindexes = 1],
    \* An address is heard, and an offer is not taken; only the backstop repairs it.
    [Pair({}, {}) EXCEPT !.members = {n1, n3}, !.directory[n2] = None, !.left.fails = {"offer"}, !.left.backstop = TRUE,
        !.left.moves = 1, !.left.addresses = {a2}, !.left.groups = <<{n1, n2}>>],
    \* A member that was offered moves.
    [Pair({}, {}) EXCEPT !.left.moves = 1, !.left.addresses = {a2}, !.left.groups = <<{n1, n2}>>],
    \* A neighbour comes and goes.
    [Pair({}, {Title(i1, n2, 1)}) EXCEPT !.left.ups = 1, !.left.downs = 1],
    \* Content nobody has until a member joins in another's place that does.
    [Pair({Title(i1, n2, 1)}, {}) EXCEPT !.content = {}, !.held[n3] = {Title(i1, n2, 1)},
        !.directory = n2 :> a1 @@ n3 :> a1, !.left.groups = <<{n1, n3}>>],
    \* Content that does not come when it is asked for.
    [Pair({Title(i1, n2, 1)}, {}) EXCEPT !.content = {}, !.held[n2] = {Title(i1, n2, 1)}, !.left.fails = {"sweep"}]
}
=============================================================================
