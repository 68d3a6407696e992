-------------------------- MODULE MutationManager --------------------------
(***************************************************************************)
(* cwltool/mutation.py and the jobs that use it (command_line_tool.py):    *)
(* the check that files updated in place (InplaceUpdateRequirement) are    *)
(* not read or updated by another job at the same time.                    *)
(*                                                                         *)
(* File objects travel between steps and carry the generation they were    *)
(* made at.  When a job is made, on the main thread, it registers every    *)
(* file it reads or updates; when its outputs are collected, on a worker   *)
(* thread, they are stamped with the current generation and its readers    *)
(* are released.  Which job gets which File object is left open: any       *)
(* object in circulation may reach any job.                                *)
(***************************************************************************)
EXTENDS Integers, FiniteSets

CONSTANTS
    Jobs,     \* command line jobs; their names are unique (uniquename)
    Files     \* locations

\* How a job uses a file: not at all, as an input without or with an
\* inputBinding, or as a writable InitialWorkDir entry updated in place.
Uses   == {"none", "read", "bound", "mutate"}
Reads  == {"read", "bound"}
Phases == {"idle", "register", "running", "release", "done", "refused", "lost"}

VARIABLES
    generation,  \* generation[f]: generations[f].generation
    readers,     \* readers[f][j]: how often j is in generations[f].readers
    objs,        \* the File objects in circulation
    phase,       \* phase[j]: where job j is
    use,         \* use[j][f]: how j uses f
    gens,        \* gens[j][f]: the generation of the object j got for f
    todo         \* todo[j]: the files j has still to register, or to release

vars == <<generation, readers, objs, phase, use, gens, todo>>

File(f, g) == [loc |-> f, gen |-> g]

-----------------------------------------------------------------------------
\* The inputs of j are known and its generator begins.  Jobs are made on one
\* thread, so no other job is half registered.
Make(j) ==
    /\ phase[j] = "idle"
    /\ \A k \in Jobs : phase[k] # "register"
    /\ \E u \in [Files -> Uses], g \in [Files -> {o.gen : o \in objs}] :
        /\ \A f \in Files : File(f, g[f]) \in objs
        /\ use' = [use EXCEPT ![j] = u]
        /\ gens' = [gens EXCEPT ![j] = g]
        /\ todo' = [todo EXCEPT ![j] = {f \in Files : u[f] # "none"}]
    /\ phase' = [phase EXCEPT ![j] = "register"]
    /\ UNCHANGED <<generation, readers, objs>>

\* register_reader raises, or register_mutation does: the job is not made,
\* and what it has registered so far stays.
Refuse(j) ==
    /\ phase' = [phase EXCEPT ![j] = "refused"]
    /\ UNCHANGED <<generation, readers, objs, use, gens, todo>>

\* A mutant of RegisterReader: the generation is not compared.
RegisterReaderStale(j, f) ==
    /\ phase[j] = "register" /\ f \in todo[j] /\ use[j][f] \in Reads
    /\ readers' = [readers EXCEPT ![f][j] =
                       @ + (IF use[j][f] = "bound" THEN 2 ELSE 1)]
    /\ todo' = [todo EXCEPT ![j] = @ \ {f}]
    /\ UNCHANGED <<generation, objs, phase, use, gens>>

\* register_reader, for the File in builder.files and, when the input has an
\* inputBinding, once more for the same File in builder.bindings.
RegisterReader(j, f) ==
    /\ phase[j] = "register" /\ f \in todo[j] /\ use[j][f] \in Reads
    /\ IF gens[j][f] # generation[f] THEN Refuse(j)
       ELSE /\ readers' = [readers EXCEPT ![f][j] =
                               @ + (IF use[j][f] = "bound" THEN 2 ELSE 1)]
            /\ todo' = [todo EXCEPT ![j] = @ \ {f}]
            /\ UNCHANGED <<generation, objs, phase, use, gens>>

MayMutate(j, f) ==
    /\ \A k \in Jobs : readers[f][k] = 0
    /\ gens[j][f] = generation[f]

RegisterMutation(j, f) ==
    /\ phase[j] = "register" /\ f \in todo[j] /\ use[j][f] = "mutate"
    /\ IF ~MayMutate(j, f) THEN Refuse(j)
       ELSE /\ generation' = [generation EXCEPT ![f] = @ + 1]
            /\ todo' = [todo EXCEPT ![j] = @ \ {f}]
            /\ UNCHANGED <<readers, objs, phase, use, gens>>

\* The job is yielded and may run from now on.
Run(j) ==
    /\ phase[j] = "register" /\ todo[j] = {}
    /\ phase' = [phase EXCEPT ![j] = "running"]
    /\ UNCHANGED <<generation, readers, objs, use, gens, todo>>

\* The job fails before its outputs are collected: nothing is released.
Lose(j) ==
    /\ phase[j] = "running"
    /\ phase' = [phase EXCEPT ![j] = "lost"]
    /\ UNCHANGED <<generation, readers, objs, use, gens, todo>>

\* collect_output_ports: the outputs that are files the job was given are
\* stamped by set_generation (none of them when collecting raises).
Collect(j) ==
    /\ phase[j] = "running"
    /\ \E out \in SUBSET {f \in Files : use[j][f] # "none"} :
           objs' = objs \cup {File(f, generation[f]) : f \in out}
    /\ todo' = [todo EXCEPT ![j] = {f \in Files : use[j][f] \in Reads}]
    /\ phase' = [phase EXCEPT ![j] = "release"]
    /\ UNCHANGED <<generation, readers, use, gens>>

\* A mutant of Release: every file is released twice.
ReleaseTwice(j, f) ==
    /\ phase[j] = "release" /\ f \in todo[j]
    /\ readers' = [readers EXCEPT ![f][j] = @ - 2]
    /\ todo' = [todo EXCEPT ![j] = @ \ {f}]
    /\ UNCHANGED <<generation, objs, phase, use, gens>>

\* release_reader, once for each location, in the finally clause; when it
\* raises, the exception leaves that clause and the job fails.
Release(j, f) ==
    /\ phase[j] = "release" /\ f \in todo[j]
    /\ IF gens[j][f] = generation[f]
       THEN /\ readers' = [readers EXCEPT ![f][j] = @ - 1]
            /\ todo' = [todo EXCEPT ![j] = @ \ {f}]
            /\ UNCHANGED phase
       ELSE /\ phase' = [phase EXCEPT ![j] = "lost"]
            /\ UNCHANGED <<readers, todo>>
    /\ UNCHANGED <<generation, objs, use, gens>>

Finish(j) ==
    /\ phase[j] = "release" /\ todo[j] = {}
    /\ phase' = [phase EXCEPT ![j] = "done"]
    /\ UNCHANGED <<generation, readers, objs, use, gens, todo>>

JobStep(j) ==
    \/ Make(j) \/ Run(j) \/ Lose(j) \/ Collect(j) \/ Finish(j)
    \/ \E f \in Files :
           RegisterReader(j, f) \/ RegisterMutation(j, f) \/ Release(j, f)

Init ==
    /\ generation = [f \in Files |-> 0]
    /\ readers = [f \in Files |-> [j \in Jobs |-> 0]]
    /\ objs = {File(f, 0) : f \in Files}
    /\ phase = [j \in Jobs |-> "idle"]
    /\ use = [j \in Jobs |-> [f \in Files |-> "none"]]
    /\ gens = [j \in Jobs |-> [f \in Files |-> 0]]
    /\ todo = [j \in Jobs |-> {}]

Next == \E j \in Jobs : JobStep(j)

Spec == Init /\ [][Next]_vars

-----------------------------------------------------------------------------
(* Properties *)

TypeOK ==
    /\ generation \in [Files -> Nat]
    /\ readers \in [Files -> [Jobs -> Nat]]
    /\ objs \subseteq [loc : Files, gen : Nat]
    /\ phase \in [Jobs -> Phases]
    /\ use \in [Jobs -> [Files -> Uses]]
    /\ gens \in [Jobs -> [Files -> Nat]]
    /\ todo \in [Jobs -> SUBSET Files]

\* The job has f registered and its process may be at work on it.
Active(j, f) ==
    \/ phase[j] = "register" /\ use[j][f] # "none" /\ f \notin todo[j]
    \/ phase[j] = "running" /\ use[j][f] # "none"

\* "A file which is registered for in-place update cannot be read or updated
\* by any other steps" (MutationManager's docstring): while a job that updates
\* f in place is at work, no other job is at work on f.
Exclusive ==
    \A f \in Files, j, k \in Jobs :
        Active(j, f) /\ use[j][f] = "mutate" /\ Active(k, f) => j = k

\* release_reader never raises: the generation a job read cannot pass while
\* the job has not released it.
ReleaseAccepted ==
    \A j \in Jobs : phase[j] = "release" =>
        \A f \in todo[j] : gens[j][f] = generation[f]

\* "In-place file updates happen sequentially": an object that carries the
\* current generation is only in circulation when no update is under way, so
\* a job that gets past the check sees the last completed update.
NoPeeking ==
    \A f \in Files, j \in Jobs :
        Active(j, f) /\ use[j][f] = "mutate" => File(f, generation[f]) \notin objs

(***************************************************************************)
(* The inductive invariant behind the properties above.                    *)
(***************************************************************************)
\* j is listed as a reader of f and will be unlisted.
Reading(j, f) ==
    /\ use[j][f] \in Reads
    /\ Active(j, f) \/ (phase[j] = "release" /\ f \in todo[j])

\* j has not registered f yet.
Fresh(j, f) == phase[j] = "idle" \/ (phase[j] = "register" /\ f \in todo[j])

\* No object is ahead of the current generation, and every job got an object
\* that is still in circulation.
ObjectsBehind ==
    /\ \A o \in objs : o.gen <= generation[o.loc]
    /\ \A j \in Jobs, f \in Files : File(f, gens[j][f]) \in objs

\* The entries of readers go with the jobs.
ReadersListed ==
    \A j \in Jobs, f \in Files :
        /\ Fresh(j, f) => readers[f][j] = 0
        /\ Reading(j, f) => readers[f][j] > 0 /\ gens[j][f] = generation[f]
        /\ phase[j] = "release" /\ f \in todo[j] => use[j][f] \in Reads

\* An update under way made the current generation, and it is the only one.
MutatorAhead ==
    \A j \in Jobs, f \in Files : Active(j, f) /\ use[j][f] = "mutate" =>
        /\ gens[j][f] + 1 = generation[f]
        /\ File(f, generation[f]) \notin objs
        /\ \A k \in Jobs : Active(k, f) /\ use[k][f] = "mutate" => j = k

\* The inductive invariant: in-place updates exclude every other use because
\* the objects, the readers' lists and the updates agree as above.
IInv == TypeOK /\ ObjectsBehind /\ ReadersListed /\ MutatorAhead
=============================================================================
