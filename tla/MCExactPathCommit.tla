-------------------------- MODULE MCExactPathCommit --------------------------
(* One selected file and one or two others. *)
EXTENDS ExactPathCommit

\* HEAD has every file or misses one; anything may be staged and edited.
Starts ==
    {[tree |-> t, index |-> i, work |-> w] :
        t \in {[f \in Path |-> {}], [f \in Path |-> IF f \in Selected THEN Absent ELSE {}]},
        i \in [Path -> {{}, {1}}], w \in [Path -> {{}, {1}, Absent}]}

=============================================================================
