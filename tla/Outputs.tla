------------------------------ MODULE Outputs ------------------------------
(***************************************************************************)
(* What becomes of the output files when a workflow has ended:             *)
(* relocateOutputs (process.py) with the PathMapper it stages by           *)
(* (pathmapper.py), and cleanIntermediate, as JobExecutor.execute calls    *)
(* them (executors.py).                                                    *)
(*                                                                         *)
(* A name is a sequence of pieces, so that a prefix of a name can be told; *)
(* a path is a sequence of names.  The location "_:..." of a literal is a  *)
(* path that begins with Anonymous.  What the code does by recursion is    *)
(* here a loop over the work it still has to do.                           *)
(***************************************************************************)
EXTENDS Naturals, Sequences, FiniteSets, SequencesExt

CONSTANTS
    FileSystems,  \* what the disk may hold when the outputs are relocated
    Objects,      \* the Files and Directories a workflow may put out, and what
                  \* the literal ones among them list
    MaxOutputs,   \* how many of them it puts out at most
    OutputDirs,   \* JobExecutor.output_dirs
    CacheDir,     \* the directory given as --cachedir
    Dest,         \* finaloutdir
    Actions,      \* what --move-outputs, --copy-outputs, --leave-outputs ask
    MaxLinks      \* the longest chain of links that leads somewhere

VARIABLES
    fs,       \* the disk: path -> node
    out,      \* final_output[0]: the objects, then what they list; once an
              \* object is expanded its listing holds places in out
    visits,   \* the calls of PathMapper.visit still to be made
    pm,       \* PathMapper._pathmap, in its order
    turn,     \* how many turns the loop at pc has done
    moves,    \* the calls of _relocate still to be made
    where,    \* the location each object of the output has now
    options,  \* move_outputs, rm_tmpdir and whether there is a cachedir
    fs0,      \* history: the disk at the beginning
    pc

vars == <<fs, out, visits, pm, turn, moves, where, options, fs0, pc>>

\* Strings are made of these; the provers do not know that a literal is one.
Strings == STRING \cup {"_", "none"}
Name == Seq(Strings)
Path == Seq(Name) \ {<<>>}
Anonymous == <<"_:">>
Literal(loc) == loc[1] = Anonymous

\* str.startswith on paths: the last name may go on.
StartsWith(path, prefix) ==
    LET n == Len(prefix) IN
    /\ Len(path) >= n
    /\ IsPrefix(Front(prefix), path)
    /\ IsPrefix(prefix[n], path[n])

-----------------------------------------------------------------------------
(* The disk. *)

Node == [kind : {"dir"}] \cup [kind : {"file"}, text : Strings]
            \cup [kind : {"link"}, to : Path]
DirNode == [kind |-> "dir"]
FileNode(text) == [kind |-> "file", text |-> text]
LinkNode(to) == [kind |-> "link", to |-> to]

At(F, path) == {p \in DOMAIN F : IsPrefix(path, p)}
Without(F, path) == [p \in DOMAIN F \ At(F, path) |-> F[p]]
Suffix(path, dir) == SubSeq(path, Len(dir) + 1, Len(path))
Entries(F, dir) == {p \in DOMAIN F : Len(p) = Len(dir) + 1 /\ IsPrefix(dir, p)}
Exists(F, path) == path \in DOMAIN F
IsDir(F, path) == Exists(F, path) /\ F[path].kind = "dir"
IsFile(F, path) == Exists(F, path) /\ F[path].kind = "file"

\* os.path.realpath: the first link on the path is followed, as long as there
\* is one.  What does not end is Nowhere.
Links(F, path) == {k \in 1..Len(path) : /\ Exists(F, SubSeq(path, 1, k))
                                        /\ F[SubSeq(path, 1, k)].kind = "link"}
Follow(F, path) ==
    IF Links(F, path) = {} THEN path
    ELSE LET k == Min(Links(F, path)) IN F[SubSeq(path, 1, k)].to \o SubSeq(path, k + 1, Len(path))
Nowhere == << <<>> >>
RealPath(F, path) ==
    LET reached[k \in 0..MaxLinks] == IF k = 0 THEN path ELSE Follow(F, reached[k - 1])
    IN  IF Links(F, reached[MaxLinks]) = {} THEN reached[MaxLinks] ELSE Nowhere

\* What a reader of path gets.
Text(F, path) ==
    LET p == RealPath(F, path) IN IF IsFile(F, p) THEN F[p].text ELSE "nothing"

\* A tree that was at src, put at dst.
Graft(F, tree, src, dst) ==
    LET copied == [p \in {dst \o Suffix(s, src) : s \in DOMAIN tree} |->
                      tree[src \o Suffix(p, dst)]]
    IN  [p \in DOMAIN F \cup DOMAIN copied |->
            IF p \in DOMAIN copied THEN copied[p] ELSE F[p]]

\* Links are kept by a rename, followed by a copy.
Kept(F, src) == [s \in At(F, src) |-> F[s]]
Followed(F, src) == [s \in At(F, src) |-> F[RealPath(F, s)]]

\* os.makedirs, which leaves a file that is in the way.
MakeDirs(F, dir) ==
    LET above == {SubSeq(dir, 1, k) : k \in 1..Len(dir)} IN
    IF \E p \in above : IsFile(F, p) THEN F
    ELSE [p \in DOMAIN F \cup above |-> IF p \in DOMAIN F THEN F[p] ELSE DirNode]

\* shutil.move: into a directory that exists, onto a file that exists, but
\* never into itself.
Move(F, src, dst) ==
    LET real == IF IsDir(F, dst) THEN Append(dst, Last(src)) ELSE dst
        cleared == Without(F, real)
    IN  IF \/ ~Exists(F, src)
           \/ IsDir(F, dst) /\ Exists(F, real)
           \/ IsDir(F, src) /\ IsFile(F, real)
           \/ ~IsDir(F, Front(real))
           \/ IsPrefix(src, real)
        THEN [ok |-> FALSE, fs |-> F]
        ELSE [ok |-> TRUE, fs |-> Graft(cleared, Kept(cleared, src), src, real)]

\* The rename behind Move leaves nothing at src.
Renamed(F, src, dst) ==
    LET moved == Move(F, src, dst) IN
    IF moved.ok THEN [moved EXCEPT !.fs = Without(@, src)] ELSE moved

\* The copy branch of _relocate: rmtree or unlink and copytree, or copy2.
CopyOver(F, src, dst) ==
    LET real == IF ~IsDir(F, src) /\ IsDir(F, dst) THEN Append(dst, Last(src))
                                                   ELSE dst
        cleared == Without(F, real)
    IN  IF \/ ~Exists(F, src)
           \/ ~IsDir(F, Front(real))
           \/ ~IsDir(F, src) /\ IsDir(F, real)
        THEN [ok |-> FALSE, fs |-> F]
        ELSE IF \E p \in At(F, src) : ~Exists(cleared, RealPath(cleared, p))
        THEN [ok |-> FALSE, fs |-> cleared]
        ELSE [ok |-> TRUE, fs |-> Graft(cleared, Followed(cleared, src), src, real)]

-----------------------------------------------------------------------------
(* The output object. *)

\* The listing of a File holds its secondaryFiles; most bring no dirname, <<>>.
Object(listed) == [class : {"File", "Directory"}, loc : Path, name : Name,
                   dirname : Path \cup {<<>>}, contents : Strings,
                   listing : Seq(listed)]

\* A disk is finite, and none of its paths begins like a literal's.
DiskAssumption ==
    \A F \in FileSystems :
        /\ F \in [DOMAIN F -> Node]
        /\ IsFiniteSet(DOMAIN F)
        /\ \A p \in DOMAIN F : p \in Path /\ p[1] \notin {Anonymous, <<>>}
ASSUME DiskAssumption

\* What an object lists is an object of the same constant.
ObjectsAssumption ==
    /\ Objects \subseteq Object(Objects)
    /\ MaxOutputs \in Nat /\ MaxLinks \in Nat
ASSUME ObjectsAssumption

DirsAssumption ==
    /\ OutputDirs \cup {CacheDir, Dest} \subseteq Path
    /\ Dest[1] # Anonymous
    /\ Actions \subseteq {"move", "copy", "leave"}
ASSUME DirsAssumption

\* A link in a directory that is put out leads to a file, if anywhere: a copy
\* of what lies below a linked directory is not modelled.
LinksAssumption ==
    \A F \in FileSystems : \A o \in Objects :
        o.class = "Directory" =>
            \A p \in At(F, RealPath(F, o.loc)) :
                F[p].kind = "link" => ~IsDir(F, RealPath(F, p))
ASSUME LinksAssumption

\* An entry of a directory, as get_listing describes it.
Found(F, path) ==
    [class |-> IF IsDir(F, RealPath(F, path)) THEN "Directory" ELSE "File",
     loc |-> path, name |-> Last(path), dirname |-> <<>>, contents |-> "none",
     listing |-> <<>>]

\* What an object lists; os.listdir has no order.
Listings(F, obj) ==
    IF obj.class = "File" \/ Literal(obj.loc) THEN {obj.listing}
    ELSE LET below == {Append(obj.loc, Last(p)) : p \in Entries(F, RealPath(F, obj.loc))} IN
         {[i \in DOMAIN paths |-> Found(F, paths[i])] : paths \in SetToSeqs(below)}

\* _realpath.
Located(F, obj) ==
    IF Literal(obj.loc) THEN obj ELSE [obj EXCEPT !.loc = RealPath(F, @)]

\* A mutant of Dedup: nothing is left out.
KeepAll(i) == FALSE

\* What an object lists is of a greater index than the object.
Nested == UNION {Range(out[k].listing) : k \in DOMAIN out}

\* marksub: all that is below a Directory of the output.
Marked ==
    LET marked[k \in 0..Len(out)] ==
            IF k = 0 THEN {}
            ELSE LET before == marked[k - 1] IN
                 IF k \in before \/ (k \notin Nested /\ out[k].class = "Directory")
                 THEN before \cup Range(out[k].listing) ELSE before
    IN  {out[j].loc : j \in marked[Len(out)]}

\* dedup: an output that is also in a directory of the output is left out.
Dedup(i) == i \notin Nested /\ out[i].loc \in Marked

\* visit's stagedir.
StageDir(v) == IF out[v.obj].dirname = <<>> THEN v.dir ELSE out[v.obj].dirname

\* Every object of the output has an entry.
AllMapped == \A o \in Range(out) : \E e \in Range(pm) : e.key = o.loc

\* The entry that PathMapper.visit makes of an object.  What is resolved of a
\* literal File is its contents.
EntryOf(v) ==
    LET obj == out[v.obj]
        created == obj.class = "File" /\ Literal(obj.loc)
    IN  [key |-> obj.loc, target |-> Append(StageDir(v), obj.name),
         staged |-> v.staged,
         type |-> IF created THEN "CreateFile" ELSE obj.class,
         resolved |-> IF created THEN << <<obj.contents>> >> ELSE obj.loc]

\* The call of visit for one of those the object lists: beside a File its
\* secondaryFiles, in a Directory what it holds, which is staged with it unless
\* the Directory is a literal.
VisitListed(v, i) ==
    IF out[v.obj].class = "File"
    THEN [obj |-> i, dir |-> StageDir(v), staged |-> v.staged]
    ELSE [obj |-> i, dir |-> EntryOf(v).target,
          staged |-> v.staged /\ Literal(out[v.obj].loc)]

\* A mutant of Unclash: the targets stay.
UnclashNot(m, i) == m

\* The first pass of stage_files, with fix_conflicts: the i-th File gets a
\* target no File before it has, unless it is that same file.  The name "f_2"
\* is f with two marks.
Unclash(m, i) ==
    LET Taken(t) == \E j \in 1..(i - 1) : m[j].type # "Directory" /\ m[j].target = t
        Same(t) == \E j \in 1..(i - 1) : /\ m[j].type # "Directory" /\ m[j].target = t
                                         /\ m[j].resolved = m[i].resolved
        t == m[i].target
        Numbered(n) == Append(Front(t), Last(t) \o [k \in 1..n |-> "_"])
        free == {n \in 2..(Len(m) + 1) : ~Taken(Numbered(n))}
    IN  IF m[i].type = "Directory" \/ ~Taken(t) \/ Same(t) THEN m
        ELSE [m EXCEPT ![i].target = Numbered(CHOOSE n \in free : \A k \in free : n <= k)]

-----------------------------------------------------------------------------
(* _relocate *)

\* A mutant of SrcCanDeleted: whatever has been linked into an output is moved.
AnySrc(src) == TRUE

\* os.path.commonprefix([p, src]) == p for one of source_directories.
SrcCanDeleted(src) == \E p \in OutputDirs : StartsWith(src, p)

\* What one turn of the second pass does before it calls _relocate.
StageEntry(F, e) ==
    LET made == MakeDirs(F, Front(e.target))
        blocked == ~IsDir(made, Front(e.target)) \/ IsDir(made, e.target)
        Result(ok, disk) == [ok |-> ok, fs |-> disk, moves |-> {}]
    IN  CASE ~e.staged -> Result(TRUE, F)
          [] e.staged /\ e.type = "CreateFile" ->
                IF blocked THEN Result(FALSE, made)
                ELSE Result(TRUE, [p \in DOMAIN made \cup {e.target} |->
                                      IF p = e.target THEN FileNode(e.resolved[1][1])
                                                      ELSE made[p]])
          [] e.staged /\ e.type # "CreateFile" /\ Exists(made, e.resolved) ->
                [Result(TRUE, made) EXCEPT !.moves = {[from |-> e.resolved, to |-> e.target]}]
          [] e.staged /\ e.type = "Directory" /\ Literal(e.resolved)
                      /\ ~Exists(made, e.resolved) ->
                IF Exists(made, e.target) THEN Result(TRUE, made)
                ELSE Result(IsDir(made, Front(e.target)), MakeDirs(made, e.target))
          [] OTHER -> Result(TRUE, made)

-----------------------------------------------------------------------------
(* execute, from the end of run_jobs. *)

\* A mutant of MoveOutputs: what was asked for is done, with a cache too.
AsAsked(asked, cached) == asked

\* main: files of a cache are not moved out of it.
MoveOutputs(asked, cached) == IF cached /\ asked = "move" THEN "copy" ELSE asked

\* A mutant of CacheArg: without the slash.
BareCacheArg == CacheDir

\* check_working_directories ends the name of the cache with a slash, so that
\* the prefix for temporary directories, CacheDir + "_tmp", does not begin
\* with it.
CacheArg == Append(CacheDir, <<>>)

\* The filter of execute, and cleanIntermediate.
ToClean == {d \in OutputDirs : options.cached => ~StartsWith(d, CacheArg)}

Init ==
    /\ fs0 \in FileSystems
    /\ fs = fs0
    /\ out \in {s \in UNION {[1..n -> Objects] : n \in 1..MaxOutputs} : IsInjective(s)}
    /\ \A i \in DOMAIN out : Literal(out[i].loc) \/ Exists(fs0, out[i].loc)
    /\ visits = [i \in DOMAIN out |-> [obj |-> i, dir |-> Dest, staged |-> TRUE]]
    /\ options \in {[action |-> MoveOutputs(a, c), rm |-> r, cached |-> c] :
                        a \in Actions, r, c \in BOOLEAN}
    /\ pm = <<>>
    /\ turn = 0
    /\ moves = {}
    /\ where = <<>>
    /\ pc = "expand"

\* get_listing for one object.
ExpandNext ==
    /\ pc = "expand"
    /\ turn < Len(out)
    /\ \E listed \in Listings(fs, out[turn + 1]) :
          out' = [out EXCEPT ![turn + 1].listing = [i \in DOMAIN listed |-> Len(out) + i]]
                 \o listed
    /\ turn' = turn + 1
    /\ UNCHANGED <<fs, visits, pm, moves, where, options, fs0, pc>>

\* relocateOutputs returns here for "leave", and else resolves all locations.
Expanded ==
    /\ pc = "expand"
    /\ turn = Len(out)
    /\ out' = IF options.action = "leave" THEN out
              ELSE [k \in DOMAIN out |-> Located(fs, out[k])]
    /\ where' = [loc \in {o.loc : o \in Range(out')} |-> loc]
    /\ pc' = IF options.action = "leave" THEN "clean" ELSE "map"
    /\ turn' = 0
    /\ UNCHANGED <<fs, visits, pm, moves, options, fs0>>

\* One call of PathMapper.visit; what the object lists is visited next.
VisitNext ==
    LET v == Head(visits)
        obj == out[v.obj]
        listed == [i \in DOMAIN obj.listing |-> VisitListed(v, obj.listing[i])]
    IN  /\ pc = "map"
        /\ visits # <<>>
        /\ IF Dedup(v.obj) \/ \E e \in Range(pm) : e.key = obj.loc
           THEN /\ visits' = Tail(visits)
                /\ UNCHANGED pm
           ELSE /\ visits' = listed \o Tail(visits)
                /\ pm' = Append(pm, EntryOf(v))
        /\ UNCHANGED <<fs, out, turn, moves, where, options, fs0, pc>>

\* One turn of the first pass of stage_files, and its end.
UnclashNext ==
    /\ pc = "map" /\ visits = <<>>
    /\ turn < Len(pm)
    /\ pm' = Unclash(pm, turn + 1)
    /\ turn' = turn + 1
    /\ UNCHANGED <<fs, out, visits, moves, where, options, fs0, pc>>

Mapped ==
    /\ pc = "map" /\ visits = <<>>
    /\ turn = Len(pm)
    /\ pc' = "stage"
    /\ turn' = 0
    /\ UNCHANGED <<fs, out, visits, pm, moves, where, options, fs0>>

\* One turn of the second pass, up to the call of _relocate; an OSError or
\* shutil.Error ends the run.
StageNext ==
    LET done == StageEntry(fs, pm[turn + 1])
    IN  /\ pc = "stage" /\ moves = {}
        /\ turn < Len(pm)
        /\ fs' = done.fs
        /\ moves' = done.moves
        /\ turn' = turn + 1
        /\ pc' = IF done.ok THEN "stage" ELSE "failed"
        /\ UNCHANGED <<out, visits, pm, where, options, fs0>>

\* One call of _relocate, without those it makes to merge two directories;
\* scandir has no order.
RelocateNext ==
    \E m \in moves :
        LET src == RealPath(fs, m.from)
            dst == RealPath(fs, m.to)
            moving == options.action = "move" /\ SrcCanDeleted(src)
            merging == moving /\ IsDir(fs, src) /\ IsDir(fs, dst)
            done == IF moving THEN Renamed(fs, src, dst) ELSE CopyOver(fs, src, dst)
        IN  /\ pc = "stage"
            /\ \/ /\ src = dst
                  /\ moves' = moves \ {m}
                  /\ UNCHANGED <<fs, pc>>
               \/ /\ src # dst /\ merging
                  /\ moves' = (moves \ {m}) \cup
                        {[from |-> p, to |-> Append(dst, Last(p))] : p \in Entries(fs, src)}
                  /\ UNCHANGED <<fs, pc>>
               \/ /\ src # dst /\ ~merging
                  /\ fs' = done.fs
                  /\ moves' = moves \ {m}
                  /\ pc' = IF done.ok THEN "stage" ELSE "failed"
            /\ UNCHANGED <<out, visits, pm, turn, where, options, fs0>>

\* _check_adjust on every object; one that was never visited is a KeyError.
AdjustLocations ==
    /\ pc = "stage" /\ moves = {}
    /\ turn = Len(pm)
    /\ IF AllMapped
       THEN /\ where' = [loc \in DOMAIN where |->
                            (CHOOSE e \in Range(pm) : e.key = loc).target]
            /\ pc' = "clean"
       ELSE pc' = "failed" /\ UNCHANGED where
    /\ UNCHANGED <<fs, out, visits, pm, turn, moves, options, fs0>>

CleanIntermediate ==
    /\ pc = "clean"
    /\ fs' = IF options.rm
             THEN [p \in {q \in DOMAIN fs : \A d \in ToClean : ~IsPrefix(d, q)} |-> fs[p]]
             ELSE fs
    /\ pc' = "done"
    /\ UNCHANGED <<out, visits, pm, turn, moves, where, options, fs0>>

Next ==
    \/ ExpandNext
    \/ Expanded
    \/ VisitNext
    \/ UnclashNext
    \/ Mapped
    \/ StageNext
    \/ RelocateNext
    \/ AdjustLocations
    \/ CleanIntermediate

Spec == Init /\ [][Next]_vars

-----------------------------------------------------------------------------
(* What the code promises. *)

\* An output that is at its target already.
InPlace(e) == e.target = e.resolved

\* No directory that is moved holds a link, which a rename would keep.
LinkFree ==
    options.action = "move" =>
        \A e \in Range(pm) : e.type # "CreateFile" =>
            \A p \in At(fs0, e.resolved) : fs0[p].kind # "link"

\* Outputs whose places on the disk do not meet: no Directory goes where
\* something else goes, nothing goes where one of the outputs is or above it,
\* nothing is staged below a file, nor below the target of another output but
\* of a literal Directory, no File goes where a directory is, no Directory where
\* a file is; and no directory that is moved holds a link.  The code looks for
\* none of these.
Apart ==
    /\ \A i, j \in DOMAIN pm :
          /\ i # j /\ pm[i].target = pm[j].target =>
                "Directory" \notin {pm[i].type, pm[j].type}
          /\ IsPrefix(pm[i].target, pm[j].resolved) => i = j /\ InPlace(pm[i])
          /\ pm[j].staged /\ IsPrefix(pm[i].target, Front(pm[j].target)) =>
                pm[i].type = "Directory" /\ Literal(pm[i].resolved)
    /\ \A e \in Range(pm) :
          /\ e.type # "Directory" => ~IsDir(fs0, e.target)
          /\ \A p \in DOMAIN fs0 : IsFile(fs0, p) /\ IsPrefix(p, e.target) =>
                p = e.target /\ e.type # "Directory"
    /\ LinkFree

\* The files an output object stands for: its own, or all of its directory.
Held(o) == {p \in At(fs0, RealPath(fs0, o.loc)) : ~IsDir(fs0, RealPath(fs0, p))}

\* The types of the variables; a location has one entry in the path map, and
\* a run with a cache never moves.
TypeOK ==
    /\ pc \in {"expand", "map", "stage", "clean", "done", "failed"}
    /\ DOMAIN fs \subseteq Path /\ fs \in [DOMAIN fs -> Node]
    /\ fs0 \in FileSystems
    /\ turn \in 0..Len(IF pc = "expand" THEN out ELSE pm)
    /\ \A k \in DOMAIN out :
          out[k] \in IF pc = "expand" /\ k > turn THEN Object(Objects)
                                                 ELSE Object(DOMAIN out)
    /\ out \in Seq(Range(out))
    /\ visits \in Seq([obj : DOMAIN out, dir : Path, staged : BOOLEAN])
    /\ pm \in Seq([key : Path, target : Path, staged : BOOLEAN, resolved : Path,
                   type : {"File", "Directory", "CreateFile"}])
    /\ \A i, j \in DOMAIN pm : pm[i].key = pm[j].key => i = j
    /\ moves \subseteq [from : Path, to : Path]
    /\ options.action = "move" => ~options.cached

\* Where the secondaryFiles of an output are, and what a literal Directory lists.
Listed == UNION {{out[j].loc : j \in Range(o.listing)} :
                     o \in {x \in Range(out) : x.class = "File" \/ Literal(x.loc)}}

\* relocateOutputs and cleanIntermediate together: when the run has ended,
\* every File and everything in every Directory of the output object can be
\* read at the location the object gives, with what the tool wrote, and the
\* staging has not failed.  What a File has as a secondary file, or a literal
\* Directory lists, may lie in another Directory of the output and have been
\* taken out of it (pathmapper.py:115-116 and 175-181, when it is visited before
\* that Directory): it is at the location its own object gives.  What is
\* left out by name: an object that dedup drops takes its secondaryFiles with it,
\* and unless another object brings them _check_adjust fails (AllMapped); with
\* --leave-outputs and without --leave-tmpdir execute removes what it left.
Delivered ==
    /\ pc \in {"done", "failed"} /\ Apart
    /\ IF options.action = "leave" THEN ~options.rm ELSE AllMapped
    =>  /\ pc = "done"
        /\ \A o \in Range(out) :
            /\ o.class = "File" /\ Literal(o.loc) /\ options.action # "leave" =>
                  Text(fs, where[o.loc]) = o.contents
            /\ \A p \in Held(o) :
                  \/ Text(fs, where[o.loc] \o Suffix(p, RealPath(fs0, o.loc))) = Text(fs0, p)
                  \/ \E s \in Listed :
                        IsPrefix(s, p) /\ Text(fs, where[s] \o Suffix(p, s)) = Text(fs0, p)

\* Whenever the staging is interrupted, no output is lost: between any two
\* steps of stage_files each file is where it was, or at its own target or
\* below that of the directory that holds it.
NothingLost ==
    pc \in {"stage", "clean", "failed"} /\ Apart =>
        \A e \in {x \in Range(pm) : x.type = "File"} :
            \/ Text(fs, e.resolved) = Text(fs0, e.resolved)
            \/ Text(fs, e.target) = Text(fs0, e.resolved)
            \/ \E d \in {x \in Range(pm) : x.type = "Directory"} :
                  /\ IsPrefix(d.resolved, e.resolved)
                  /\ Text(fs, d.target \o Suffix(e.resolved, d.resolved))
                         = Text(fs0, e.resolved)

\* _relocate's "we're not allowed to delete it": outside of the destination
\* a path changes only in a directory a job wrote, by a move or by the final
\* clean-up, and never in the cache; in the destination only at or below the
\* target of an output.
OthersKept ==
    [][\A p \in DOMAIN fs :
         \/ p \in DOMAIN fs' /\ fs'[p] = fs[p]
         \/ \E e \in Range(pm) : IsPrefix(e.target, p)
         \/ /\ \E d \in OutputDirs : IsPrefix(d, p)
            /\ options.action = "move" \/ pc = "clean"
            /\ options.cached => ~IsPrefix(CacheDir, p)]_vars

\* --rm-tmpdir: of the directories the jobs wrote to only the cache's remain,
\* and that one is as it was.
CleanedUp ==
    pc = "done" /\ options.rm =>
        \A d \in OutputDirs :
            IF options.cached /\ IsPrefix(CacheDir, d)
            THEN [p \in At(fs, d) |-> fs[p]] = [p \in At(fs0, d) |-> fs0[p]]
            ELSE At(fs, d) = {}

-----------------------------------------------------------------------------
(***************************************************************************)
(* What the theorems assume of the constants, and the inductive invariant. *)
(***************************************************************************)

\* A dirname that an output brings is in the destination.
StaysInside(o) == o.dirname # <<>> => IsPrefix(Dest, o.dirname)

\* The destination is apart from the directories the jobs wrote to and no link
\* leads into it or out of it; the cache is in none of these directories, and
\* no name on the disk goes on where the name of one of them ends.  No output
\* brings a dirname that leads out of the destination.
TidyDirs ==
    /\ \A d \in OutputDirs :
          ~StartsWith(Dest, d) /\ ~IsPrefix(Dest, d) /\ ~IsPrefix(d, CacheDir)
    /\ \A F \in FileSystems : \A p \in DOMAIN F :
          /\ F[p].kind = "link" => ~IsPrefix(p, Dest) /\ ~IsPrefix(Dest, p)
          /\ \A d \in OutputDirs : StartsWith(p, d) => IsPrefix(d, p)
    /\ \A o \in Objects : StaysInside(o)

\* Where objects are and go: a location is real, a target in the destination.
PlacesSound ==
    /\ pc = "map" => \A k \in DOMAIN out : Links(fs0, out[k].loc) = {}
    /\ \A k \in DOMAIN out : StaysInside(out[k])
    /\ \A i \in DOMAIN visits : IsPrefix(Dest, visits[i].dir)
    /\ \A e \in Range(pm) :
          /\ IsPrefix(Dest, e.target) /\ Len(e.target) > Len(Dest)
          /\ e.type # "CreateFile" => Links(fs0, e.resolved) = {}

\* fix_conflicts: Files that go to one place are one File.
TargetsSound ==
    LET fixed == 1..(IF pc \in {"expand", "map"} THEN turn ELSE Len(pm)) IN
    pc # "expand" =>
        \A i, j \in fixed :
            "Directory" \notin {pm[i].type, pm[j].type} /\ pm[i].target = pm[j].target =>
                pm[i].resolved = pm[j].resolved

\* The calls of _relocate to be made are for the entry at hand and, when it is
\* merged, for what it holds.
MovesSound ==
    moves # {} =>
        /\ pc \in {"stage", "failed"} /\ turn \in 1..Len(pm)
        /\ pm[turn].type # "CreateFile"
        /\ \A m \in moves :
              \/ m = [from |-> pm[turn].resolved, to |-> pm[turn].target]
              \/ /\ options.action = "move" /\ ~InPlace(pm[turn])
                 /\ IsPrefix(pm[turn].target, m.to)
                 /\ IsPrefix(pm[turn].resolved, m.from)

\* As it was at the beginning, but for a directory on the way to a target.
Untouched(p) ==
    \/ p \in DOMAIN fs /\ p \in DOMAIN fs0 /\ fs[p] = fs0[p]
    \/ p \notin DOMAIN fs /\ p \notin DOMAIN fs0
    \/ p \notin DOMAIN fs0 /\ IsDir(fs, p) /\ (IsPrefix(p, Dest) \/ IsPrefix(Dest, p))

\* Where the staging may write, and what it may take away.
Written(p) == \E e \in Range(pm) : IsPrefix(e.target, p) /\ ~InPlace(e)
Given(p) == options.action = "move" /\ \E d \in OutputDirs : IsPrefix(d, p)

DiskSound ==
    /\ \A p \in DOMAIN fs :
          fs[p].kind = "link" => p \in DOMAIN fs0 /\ fs0[p] = fs[p]
    /\ pc # "done" =>
          \A p \in DOMAIN fs \cup DOMAIN fs0 : Untouched(p) \/ Written(p) \/ Given(p)

\* Nothing is written before the path map is made.
Fresh == /\ pc \in {"expand", "map"} => fs = fs0 /\ moves = {}
         /\ pc = "expand" => pm = <<>>

\* What is resolved of a file to be created is one string.
Contents == \A e \in Range(pm) : e.type = "CreateFile" =>
                Len(e.resolved) = 1 /\ Len(e.resolved[1]) = 1

IInv ==
    /\ TypeOK /\ Fresh /\ Contents /\ PlacesSound /\ TargetsSound
    /\ LinkFree => MovesSound /\ DiskSound
=============================================================================
