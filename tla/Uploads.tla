------------------------------- MODULE Uploads -------------------------------
(***************************************************************************)
(* Files a browser sends, held until library.add takes them (distlib-api   *)
(* uploads.rs).  An upload's directory goes with the request that made it  *)
(* when that ends early, and with the add that took it however that ends;  *)
(* what is left over goes when the node starts.                            *)
(***************************************************************************)
EXTENDS Keeping

CONSTANTS
    Upload,         \* ids: random, never used again
    FileOf,         \* [Upload -> the file it holds]
    max_upload_bytes

VARIABLES
    disk,           \* [Upload -> "fresh", "partial", "whole" or "gone"]
    calls,          \* the adds given uploads that are under way
    named,          \* history: uploads given to an add
    passed_over     \* history: uploads an add was given and did not come to

uploadVars == <<disk, calls, named, passed_over>>

UploadInit ==
    /\ disk = [u \in Upload |-> "fresh"]
    /\ calls = {} /\ named = {} /\ passed_over = {}

\* Staged::drop, for each guard.
Dropped(guards) == [u \in Upload |-> IF u \in guards THEN "gone" ELSE disk[u]]

\* Uploads::receive: the directory is made, and the body streamed into it ...
receive(u) ==
    /\ disk[u] = "fresh"
    /\ disk' = [disk EXCEPT ![u] = "partial"]
    /\ UNCHANGED <<calls, named, passed_over>>

\* ... until it ends, is too large, or breaks off.
ReceiveEnds(u) ==
    /\ disk[u] = "partial"
    /\ \/ size[FileOf[u]] <= max_upload_bytes /\ disk' = [disk EXCEPT ![u] = "whole"]
       \/ disk' = Dropped({u})
    /\ UNCHANGED <<calls, named, passed_over>>

\* library.add, given uploads: of no others does a client know the id.
AddsUploads(id, item, uploads) ==
    /\ \A k \in DOMAIN uploads : disk[uploads[k]] \in {"whole", "gone"}
    /\ calls' = calls \cup {[id |-> id, item |-> item, to_take |-> uploads, guards |-> {}, step |-> "take"]}
    /\ named' = named \cup {uploads[k] : k \in DOMAIN uploads}
    /\ UNCHANGED <<disk, passed_over>>

CallEnds(c, guards) ==
    /\ calls' = calls \ {c}
    /\ disk' = Dropped(guards)

\* take_uploads, one at a time: the first that is not there ends the call, and
\* those after it are never taken.
take(c) ==
    /\ c.step = "take" /\ c.to_take # <<>>
    /\ \/ /\ disk[Head(c.to_take)] = "whole"
          /\ calls' = (calls \ {c}) \cup
                        {[c EXCEPT !.to_take = Tail(@), !.guards = @ \cup {Head(c.to_take)}]}
          /\ UNCHANGED <<disk, passed_over>>
       \/ /\ disk[Head(c.to_take)] # "whole"
          /\ CallEnds(c, c.guards)
          /\ passed_over' = passed_over \cup {c.to_take[k] : k \in 2 .. Len(c.to_take)}
    /\ UNCHANGED named

\* item_from_files: one that another add removed meanwhile, or that cannot be
\* told apart from another by its name, ends the call.
Imports(c) ==
    /\ c.step = "take" /\ c.to_take = <<>>
    /\ \/ /\ \A u \in c.guards : disk[u] = "whole"
          /\ calls' = (calls \ {c}) \cup {[c EXCEPT !.step = "imported"]}
          /\ UNCHANGED disk
       \/ /\ \/ \E u \in c.guards : disk[u] # "whole"
             \/ Cardinality(c.guards) > 1
          /\ CallEnds(c, c.guards)
    /\ UNCHANGED <<named, passed_over>>

\* The rest of the add, as for files given by path.
Begins(c) ==
    /\ c.step = "imported" /\ ~ Busy("add", c.item)
    /\ jobs' = jobs \cup {NewJobOf("add", c.item, "start", {FileOf[u] : u \in c.guards}, {})}
    /\ calls' = (calls \ {c}) \cup {[c EXCEPT !.step = "adding"]}
    /\ UNCHANGED <<disk, named, passed_over>>

Adding(item) == {c \in calls : c.step = "adding" /\ c.item = item}

\* Mutant: the uploads of an add that was refused stay.
add_returns_mutant(j) ==
    /\ calls' = calls \ Adding(j.item)
    /\ disk' = IF j.result = "ok" THEN Dropped(UNION {c.guards : c \in Adding(j.item)}) ELSE disk
    /\ UNCHANGED <<named, passed_over>>

\* However the add ends, its guards are dropped.
add_returns(j) ==
    /\ calls' = calls \ Adding(j.item)
    /\ disk' = Dropped(UNION {c.guards : c \in Adding(j.item)})
    /\ UNCHANGED <<named, passed_over>>

\* The client goes away, which drops the call where it is: the upload being
\* taken has its guard already.
Abandons(c) ==
    /\ CallEnds(c, c.guards \cup {c.to_take[k] : k \in DOMAIN c.to_take \cap {1}})
    /\ passed_over' = passed_over \cup {c.to_take[k] : k \in 2 .. Len(c.to_take)}
    /\ IF c.step = "adding"
       THEN /\ jobs' = {j \in jobs : j.why # "add" \/ j.item # c.item}
            /\ making_room' = making_room \ {<<"add", c.item>>}
       ELSE UNCHANGED <<jobs, making_room>>
    /\ UNCHANGED named

\* Uploads::open: what a previous run left is removed.
opens ==
    /\ disk' = Dropped({u \in Upload : disk[u] # "fresh"})
    /\ calls' = {} /\ passed_over' = {}
    /\ UNCHANGED named

\* uploads.rs: "library.add removes every upload it was given whether it succeeds
\* or fails", and whether another add was given it too or its client goes away.
\* Not those it did not come to, because one before was not there or its client
\* went away first.
UploadsGoInTheEnd == <>[](\A u \in named : disk[u] = "gone" \/ u \in passed_over)
=============================================================================
