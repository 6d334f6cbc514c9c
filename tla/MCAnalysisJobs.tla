--------------------------- MODULE MCAnalysisJobs ---------------------------
(* Instances of AnalysisJobs for TLC. *)
EXTENDS AnalysisJobs, TLC

CONSTANTS w1, w2, answers, rows1, rows2

TwoJobs == 1..2
ThreeJobs == 1..3
FourJobs == 1..4
SevenJobs == 1..7
OneWorker == {w1}
TwoWorkers == {w1, w2}
Answers == {answers}
TwoDatasetVersions == {rows1, rows2}

\* Both dataset versions have the same source_kind and source_ref.
Refs == [s \in Sources |-> IF s = answers THEN "answers" ELSE "dataset"]
SharedRoot == [w \in Workers |-> "output"]
OwnRoots == [w \in Workers |-> w]

WorkerSymmetry == Permutations(Workers)

-----------------------------------------------------------------------------
(* Courses: the orders in which the survey may change while a worker is at it *)

State(input, config, src, enabled) ==
    [input |-> input, config |-> config, src |-> src, enabled |-> enabled]

Begin == State(0, 0, rows1, TRUE)
Corrected == State(1, 0, rows1, TRUE)    \* a first change of the data
Replaced == State(1, 1, rows2, TRUE)     \* a new version of the data set comes first
SwitchedOff == State(1, 1, rows1, FALSE)

\* The steps of four courses.
Courses == {
    <<Begin, Corrected>>, <<Corrected, State(2, 1, rows2, TRUE)>>,      \* a new version while work waits or runs
    <<Corrected, SwitchedOff>>, <<SwitchedOff, State(1, 2, rows1, TRUE)>>,  \* off and on again
    <<Begin, Replaced>>, <<Replaced, State(1, 2, rows2, TRUE)>>,        \* a change of the new version's configuration
    <<Replaced, State(2, 2, rows1, TRUE)>>}                             \* and back to the old one

\* An action constraint that narrows the survey's changes alone; no fair action makes one.
OnCourse == survey' = survey \/ <<survey, survey'>> \in Courses
=============================================================================
