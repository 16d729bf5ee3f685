------------------------ MODULE MCOverlapCheckpoint ------------------------
(* One selected file with two hunks and one other file. *)
EXTENDS OverlapCheckpoint

\* Hunk 1 of the selected file is the earlier owner's: absent, in the file, or
\* staged as well; in one start HEAD has it and the owner removed it.
Starts ==
    LET tree(s, u) == [f \in Path |-> IF f \in Selected THEN s ELSE u]
    IN  {[tree |-> tree({}, {}), index |-> tree({}, {1}), work |-> tree({1}, {1})],
         [tree |-> tree({}, {}), index |-> tree({1}, {}), work |-> tree({1}, {})],
         [tree |-> tree({}, {}), index |-> tree({1}, {}), work |-> tree({}, {})],
         [tree |-> tree({1}, {}), index |-> tree({1}, {}), work |-> tree({}, {1})],
         [tree |-> tree({}, {}), index |-> tree({}, {}), work |-> tree({}, {})]}
=============================================================================
