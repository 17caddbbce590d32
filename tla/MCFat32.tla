------------------------------ MODULE MCFat32 ------------------------------
(* Root directories of up to two entries, the second a file, on disks of   *)
(* three data clusters: straight, short and cyclic chains, unreadable      *)
(* clusters and sectors of the FAT, one or two sectors per cluster.  A     *)
(* sector of the FAT has two entries.                                      *)
EXTENDS Fat32, TLC

File(size) == [name |-> "used", attr |-> {"archive"}, cluster |-> 3, size |-> size]
Files == {File(n) : n \in {0, 9, 17, 55, 60}}
Others ==
  {[name |-> "used", attr |-> a, cluster |-> 4, size |-> 0] :
     a \in {{"directory"}, {"directory", "hidden"}, {"volume"}, Lfn}}
  \cup {[name |-> "deleted", attr |-> {}, cluster |-> 4, size |-> 2]}

Dirs == {<< >>} \cup {<<e>> : e \in Others} \cup {<<f>> : f \in Files}
        \cup {<<e, f>> : e \in Others, f \in {File(9)}}
        \cup {<<e, e>> : e \in Others}
Chain(c3, c4, c5) == (0 :> EOC) @@ (1 :> EOC) @@ (2 :> EOC) @@ (3 :> c3) @@ (4 :> c4) @@ (5 :> c5)
Fats == {Chain(4, 5, EOC), Chain(5, EOC, EOC), Chain(4, 3, 3)}
MCDisks ==
  {[last |-> 5, dir |-> d, spc |-> s, fat |-> f, bad |-> b, fatBad |-> fb,
    begins |-> [c \in 0 .. 5 |-> IF c = 3 THEN k ELSE "other"]] :
     d \in Dirs, s \in {1, 2}, f \in Fats, k \in Kinds,
     b \in {{}, {RootCluster}, {3}, {3, 4, 5}}, fb \in {{}, {1}, {2}}}
==============================================================================
