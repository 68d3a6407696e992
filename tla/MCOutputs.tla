----------------------------- MODULE MCOutputs -----------------------------
(***************************************************************************)
(* A small disk for Outputs: a directory a job wrote to beside the cache,  *)
(* one in the cache, a user's directory and the destination.               *)
(***************************************************************************)
EXTENDS Outputs

Cache == << <<"cache">> >>
Tmp   == << <<"cache", "tmp1">> >>
Entry == << <<"cache">>, <<"k">> >>
Home  == << <<"home">> >>
Final == << <<"out">> >>
Dirs  == {Tmp, Entry}
f  == <<"f">>
f2 == <<"f", "_", "_">>
d  == <<"d">>
g  == <<"g">>
l  == <<"l">>

Common ==
    LET tree == <<
          <<Cache, DirNode>>, <<Home, DirNode>>,
          <<Tmp, DirNode>>, <<Tmp \o <<f>>, FileNode("1")>>,
          <<Tmp \o <<d>>, DirNode>>, <<Tmp \o <<d, f>>, FileNode("2")>>,
          <<Tmp \o <<g>>, LinkNode(Home \o <<f>>)>>,
          <<Tmp \o <<l>>, LinkNode(Home \o <<d>>)>>,
          <<Entry, DirNode>>, <<Entry \o <<f>>, FileNode("3")>>,
          <<Entry \o <<f2>>, FileNode("4")>>,
          <<Entry \o <<d>>, DirNode>>, <<Entry \o <<d, g>>, FileNode("5")>>,
          <<Entry \o <<d, l>>, LinkNode(Tmp \o <<f>>)>>,
          <<Home \o <<f>>, FileNode("6")>>,
          <<Home \o <<d>>, DirNode>>, <<Home \o <<d, f>>, FileNode("7")>> >>
    IN  [p \in {tree[i][1] : i \in DOMAIN tree} |->
            (CHOOSE n \in Range(tree) : n[1] = p)[2]]
With(F, p, n) == [q \in DOMAIN F \cup {p} |-> IF q = p THEN n ELSE F[q]]

\* No destination yet, one from an earlier run, one with a directory f.
Old == With(With(With(With(Common, Final, DirNode), Final \o <<f>>, FileNode("8")),
                 Final \o <<d>>, DirNode), Final \o <<d, f2>>, FileNode("9"))
Disks == {Common, Old, With(With(Common, Final, DirNode), Final \o <<f>>, DirNode)}

FileAt(p) == [class |-> "File", loc |-> p, name |-> Last(p), dirname |-> <<>>,
              contents |-> "none", listing |-> <<>>]
DirAt(p) == [FileAt(p) EXCEPT !.class = "Directory"]
Text1 == [FileAt(<<Anonymous, <<"1">>>>) EXCEPT !.name = f, !.contents = "t"]
Dir1  == [DirAt(<<Anonymous, <<"2">>>>) EXCEPT !.name = g,
             !.listing = <<FileAt(Tmp \o <<d, f>>), FileAt(Entry \o <<f>>)>>]
\* A file with a secondary file that lies in a directory, and one whose
\* secondary file is a user's and that brings a dirname.
Pair1 == [FileAt(Tmp \o <<f>>) EXCEPT !.listing = <<FileAt(Tmp \o <<d, f>>)>>]
Pair2 == [FileAt(Entry \o <<f2>>) EXCEPT !.listing = <<FileAt(Tmp \o <<g>>)>>,
             !.dirname = Final \o <<g>>]

\* The file f of the destination is an output only when it is there.
Pool == {FileAt(Final \o <<f>>), FileAt(Entry \o <<f>>), FileAt(Tmp \o <<g>>),
         FileAt(Tmp \o <<d, f>>), Text1,
         DirAt(Tmp \o <<d>>), DirAt(Entry \o <<d>>), DirAt(Tmp \o <<l>>), Dir1,
         Pair1, Pair2}

\* What the theorems assume of the constants holds here.
ASSUME DirsAreTidy == TidyDirs
=============================================================================
