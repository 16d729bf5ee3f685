---------------------------- MODULE MCAgentQueue ----------------------------
(* Small repositories, intents and commands for TLC. *)
EXTENDS AgentQueue

Commits == 0..MaxCommit

\* An intent on file f alone, on some of its lines, with a postcondition or "".
On(f, ranges, post) ==
    [files |-> {f}, chunks |-> [g \in Path |-> IF g = f THEN ranges ELSE {}],
     post |-> [g \in Path |-> IF g = f THEN post ELSE ""]]

\* Lines 1-2 and 2-3 of one file: two items that must not share a batch.
Overlapping == {On("f", {<<1, 2>>}, ""), On("f", {<<2, 3>>}, "")}
=============================================================================
