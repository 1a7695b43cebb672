---------------------------- MODULE MCHeldCalls ----------------------------
(* Instances of HeldCalls for TLC.                                         *)
EXTENDS HeldCalls, TLC

CONSTANTS r1, r2, c1, c2, t1, t2, t3, i1, i2

OneRun == {r1}
NoParent == [r \in {r1} |-> NoRun]
OneCall == {c1}
OneRunOf == [c \in {c1} |-> r1]
OneIntent == [c \in {c1} |-> i1]

TwoCalls == {c1, c2}
TwoRunOf == [c \in {c1, c2} |-> r1]
TwoIntents == (c1 :> i1) @@ (c2 :> i2)

TwoRuns == {r1, r2}
Child == (r1 :> NoRun) @@ (r2 :> r1)
ChildRunOf == [c \in {c1} |-> r2]

TwoTasks == {t1, t2}
ThreeTasks == {t1, t2, t3}

TaskSymmetry == Permutations(Tasks)
=============================================================================
