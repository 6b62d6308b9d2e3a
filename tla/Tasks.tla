-------------------------------- MODULE Tasks --------------------------------
(***************************************************************************)
(* The registry of downloads (distlib-api tasks.rs): what library.task     *)
(* answers, and what watchers are told.  Tasks are numbered from 1.        *)
(***************************************************************************)
EXTENDS Naturals, Sequences, FiniteSets, FiniteSetsExt

CONSTANT KEEP_ENDED

VARIABLES
    registered,     \* TaskId -> "Running", "Finished" or "Failed"; pruned ones are not in it
    next_task,
    telling,        \* tasks whose end is stored and not told yet: TaskId -> outcome
    told            \* history: TaskId -> the end watchers were told of

taskVars == <<registered, next_task, telling, told>>

Without_(f, ids) == [id \in DOMAIN f \ ids |-> f[id]]
With(f, id, value) == [i \in DOMAIN f \cup {id} |-> IF i = id THEN value ELSE f[i]]

\* Tasks::start_download: registered before any work starts.
start_download ==
    /\ next_task' = next_task + 1
    /\ registered' = With(registered, next_task + 1, "Running")
    /\ UNCHANGED <<telling, told>>

EndedIn(tasks) == {id \in DOMAIN tasks : tasks[id] # "Running"}

\* The oldest ended tasks past KEEP_ENDED are pruned.
Pruned(tasks) ==
    Without_(tasks, {id \in EndedIn(tasks) : Cardinality({i \in EndedIn(tasks) : i > id}) >= KEEP_ENDED})

\* Download::end stores the outcome ...
end(id, outcome) ==
    /\ registered' = Pruned(IF id \in DOMAIN registered THEN With(registered, id, outcome) ELSE registered)
    /\ telling' = With(telling, id, outcome)
    /\ UNCHANGED <<next_task, told>>

\* ... and then publishes it.
Publishes(id) ==
    /\ id \in DOMAIN telling
    /\ told' = With(told, id, telling[id])
    /\ telling' = Without_(telling, {id})
    /\ UNCHANGED <<registered, next_task>>

\* Whoever is told that a download ended and asks library.task is told the same,
\* or that it was pruned; a running one is never pruned (tasks.rs end, get).
ToldIsStored ==
    /\ \A id \in DOMAIN told \cap DOMAIN registered : registered[id] = told[id]
    /\ \A id \in 1..next_task : id \in DOMAIN registered \/ id \in DOMAIN told \/ id \in DOMAIN telling
=============================================================================
