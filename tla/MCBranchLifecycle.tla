-------------------------- MODULE MCBranchLifecycle --------------------------
(* Small clones for kog converge branches, for TLC. *)
EXTENDS BranchLifecycle

MCSources == {"f", "g"}
MCBranches == {"main", "f", "g"}
MCLinked == {"w"}
\* 1 to 3 are the branches', 4 is what others push, 5 and 6 are edits; in
\* most clones 6 is history, and only 5 can still be made.
MCPatches == 1..6
MCFileOf == [e \in {5, 6} |-> "a"]
MCTheirs == {4}

C(ps, who) == [patches |-> ps, by |-> who]
T(commits) == Onto([log |-> {}, tree |-> {}], commits)
New == T({})
NewOne == T({C({1}, "author")})
Past(commits) == T(commits \cup {C({6}, "author")})
Root == Past({})
One == Past({C({1}, "author")})
Two == Past({C({1}, "author"), C({2}, "author")})
Third == Past({C({3}, "author")})
Squashed == Past({C({1}, "squash")})
SquashedTwo == Past({C({1, 2}, "squash")})

At(on) == [on |-> on, at |-> Root, edits |-> {}]
Detached(tip) == [on |-> "detached", at |-> tip, edits |-> {}]
Gone == At("removed")
Places(p, w) == [v \in {"primary", "w"} |-> IF v = "primary" THEN p ELSE w]

\* main, f and g with what is local (l), what is published (p), and what f
\* tracks.
Clone(m, f, g, l, p, u, places) ==
    LET tips == [b \in MCBranches |-> IF b = "main" THEN m ELSE IF b = "f" THEN f ELSE g]
        remote == [b \in MCBranches |-> IF b = "main" THEN Root ELSE IF b \in p THEN tips[b] ELSE NoRef]
    IN  [ref |-> [b \in MCBranches |-> IF b \in l \cup {"main"} THEN tips[b] ELSE NoRef],
         tracking |-> remote, published |-> remote,
         upstream |-> [b \in MCBranches |->
                          IF b = "main" THEN "main" ELSE IF b = "f" /\ "f" \in l \cap p THEN u ELSE "none"],
         worktree |-> places]
\* Of branch b, the remote has t.
Publishing(s, b, t) == [s EXCEPT !.tracking[b] = t, !.published[b] = t]

\* One branch, in every place it can be.
Somewhere ==
    {Places(At(on), y) : on \in {"main", "f"}, y \in {Gone, At("main"), At("f"), Detached(One)}}
    \cup {Places(Detached(One), Gone)}
OneBranch ==
    {Clone(k.m, k.f, NoRef, l, p, k.u, places) :
        k \in [m : {Root, One, Squashed}, f : {One, Two}, u : {"f"}]
              \cup [m : {Root}, f : {One}, u : {"main"}],
        l \in {{}, {"f"}}, p \in {{}, {"f"}}, places \in Somewhere}
\* Both commits of the branch are in one commit of the target.
SquashMerged ==
    {Clone(SquashedTwo, Two, NoRef, l, {"f"}, "f", Places(At("main"), Gone)) : l \in {{}, {"f"}}}
\* Two branches, apart or one on top of the other, one of them in a worktree.
TwoBranches ==
    {Clone(m, One, g, {"f", "g"}, p, "f", Places(x, At("g"))) :
        m \in {Root, Two}, g \in {Two, Third}, p \in {{"f"}, {"f", "g"}}, x \in {At("main"), At("f")}}
\* The linked worktree has the target, the repository itself a branch of it.
HandedOver ==
    {Clone(Two, One, Two, {"f", "g"}, {"f"}, "f", Places(At("f"), At("main")))}
\* The branch is in the target, and behind what the remote has of it.
Behind ==
    {Publishing(Clone(One, One, NoRef, {"f"}, {"f"}, "f", Places(At("main"), y)), "f", Two) :
        y \in {Gone, At("f")}}
\* Two edits can be made where a harvest finds the first of them.
Harvests ==
    {Publishing(Clone(NewOne, NewOne, NoRef, {"f"}, {}, "f", Places(At("main"), y)), "main", New) :
        y \in {At("f"), Detached(NewOne)}}

Possible(s) ==
    /\ \A b \in MCBranches :
          LET on == {w \in {"primary", "w"} : s.worktree[w].on = b}
          IN  Cardinality(on) <= 1 /\ (on # {} => s.ref[b] # NoRef)
    /\ s.ref["f"] # NoRef \/ s.published["f"] # NoRef

MCStarts == {s \in OneBranch \cup SquashMerged \cup TwoBranches \cup HandedOver \cup Behind \cup Harvests : Possible(s)}

Retire(only, all) ==
    [op |-> "retire", only |-> only, removeWorktrees |-> all, deleteRemote |-> all, harvest |-> all]
Apply(only, how) == [op |-> "apply", only |-> only, strategy |-> how]
Recover(how) == [op |-> "recover", how |-> how]
MCCommands ==
    {Retire("all", TRUE), Retire("f", TRUE), Retire("all", FALSE)}
    \cup {Apply("all", how) : how \in {"rebase", "merge"}}
    \cup {Apply("f", how) : how \in {"cherry-pick", "reviewed"}}
    \cup {Recover("continue"), Recover("abort")}
=============================================================================
