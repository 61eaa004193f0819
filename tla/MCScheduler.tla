---------------------------- MODULE MCScheduler ----------------------------
EXTENDS Scheduler, TLC

CONSTANTS main, a, b, c, top, left, right

\* Threads a and b in one group, c in another one.
ParentSiblings == main :> top @@ a :> left @@ b :> left @@ c :> right
                    @@ left :> top @@ right :> top
\* A group within a group.
ParentNested == main :> top @@ a :> left @@ b :> right @@ c :> right
                    @@ left :> top @@ right :> left
=============================================================================
