------------------------------ MODULE Document ------------------------------
(* What the catalogue's document holds and what is read from it: the keys of *)
(* core/catalogue.rs and core/community.rs, iroh-docs' last-writer-wins      *)
(* entries, and the reads of sync/catalogue.rs.                              *)
(*                                                                           *)
(* A value is kept as the entry that carries it: two entries differ in when  *)
(* they were written, which stands for what they say.  Only a wish's value   *)
(* is looked into.                                                           *)
EXTENDS Naturals, FiniteSets, FiniteSetsExt

CONSTANTS
    Member, Item, Wish, File,
    ContentFile,    \* the files whose record says they are content
    size,           \* [File -> Nat], what a file's record says its size is
    None            \* the absence of an item, an address or a round

ASSUME DocumentAssumption ==
    /\ ContentFile \subseteq File
    /\ size \in [File -> Nat]

-----------------------------------------------------------------------------
(* Keys                                                                      *)

OwnKinds == {"field", "file"}
AboutWish == {"wish", "wish_comment"}

\* `name`: the field or the file of an item's own key, the member of any other;
\* `id` tells a member's bookmarks on one item apart.
Key(kind, of, name, id) == [kind |-> kind, of |-> of, name |-> name, id |-> id]

CommunityKey(kind, of, by, id) == Key(kind, of, by, id)

\* The member a community key names: the only one whose entry there counts.
member(key) == key.name

\* What a member's entry says about a wish.
Plain == [title |-> FALSE, created_at |-> 0, fulfilled |-> None]

Entry(key, author, at, value) ==
    [key |-> key, author |-> author, at |-> at, deleted |-> FALSE, value |-> value]
Deletion(key, author, at) == [Entry(key, author, at, Plain) EXCEPT !.deleted = TRUE]

-----------------------------------------------------------------------------
(* The document: one entry for each key and author, the newest.  Entries are *)
(* kept with it for ever, and deletions are entries.                         *)

Merged(entries) ==
    {e \in entries : \A f \in entries : f.key = e.key /\ f.author = e.author => f.at <= e.at}

\* Query::all(): each author's entry, deletions left out.
all(d) == {e \in d : ~e.deleted}

\* Query::single_latest_per_key(): each key's newest, left out if it is a deletion.
single_latest_per_key(d) ==
    all({e \in d : \A f \in d : f.key = e.key => f.at <= e.at})

\* Has the content of this entry arrived: a deletion has none to wait for.
Here(e, c) == e.deleted \/ e \in c

-----------------------------------------------------------------------------
(* Reads.  d: the document, c: the entries whose content is here.            *)

\* Counts an entry only if its author is the member its key names.
read_community_entries(d, c, kind, of) ==
    LET theirs == {e \in all(d) : e.key.kind = kind /\ e.key.of = of /\ e.author = member(e.key)}
    IN  [entries |-> theirs \cap c, waiting_for_content |-> ~(theirs \subseteq c)]

\* An item's own entries, the newest for each key whoever wrote it: each is
\* absorbed into the item once its content is here.
Own(d, i) == {e \in single_latest_per_key(d) : e.key.kind \in OwnKinds /\ e.key.of = i}

read_file_authors(d, i) ==
    {<<e.key.name, e.author>> : e \in {f \in all(d) : f.key.kind = "file" /\ f.key.of = i}}

\* None while nobody has written an entry of the item's own, however many rated it.
HasItem(d, i) == Own(d, i) # {}

read_item(d, c, i) ==
    LET own == Own(d, i)
        ratings == read_community_entries(d, c, "rating", i)
        reviews == read_community_entries(d, c, "review", i)
    IN  [item |-> own \cap c,
         ratings |-> ratings.entries,
         reviews |-> reviews.entries,
         file_authors |-> read_file_authors(d, i),
         last_modified |-> Max({e.at : e \in own}),
         waiting_for_content |-> \/ ~(own \subseteq c)
                                 \/ ratings.waiting_for_content
                                 \/ reviews.waiting_for_content]

read_bookmarks(d, c, i) == read_community_entries(d, c, "bookmark", i)

read_wish(d, c, w) ==
    LET entries == read_community_entries(d, c, "wish", w)
        comments == read_community_entries(d, c, "wish_comment", w)
    IN  [entries |-> entries.entries,
         comments |-> comments.entries,
         waiting_for_content |-> entries.waiting_for_content \/ comments.waiting_for_content]

item_ids(d) == {e.key.of : e \in {f \in single_latest_per_key(d) : f.key.kind \in OwnKinds}}
bookmarked_item_ids(d) == {e.key.of : e \in {f \in single_latest_per_key(d) : f.key.kind = "bookmark"}}
wish_ids(d) == {e.key.of : e \in {f \in single_latest_per_key(d) : f.key.kind = "wish"}}

-----------------------------------------------------------------------------
(* A wish, as the entries that count resolve it                              *)

\* Whoever's entry carrying a title was made earliest, the lower member on a tie.
Creators(entries) ==
    {e \in entries : /\ e.value.title
                     /\ \A f \in entries : f.value.title => e.value.created_at <= f.value.created_at}

Resolves(entries) == Creators(entries) # {}

\* Somebody answered it, whoever that is and whatever it was answered with.
is_fulfilled(entries) == \E e \in entries : e.value.fulfilled # None
=============================================================================
