-------------------------- MODULE MCSurveyReplies --------------------------
(* Small instances of SurveyReplies: a draft of up to four versions whose survey gets one     *)
(* reply, and published surveys with two forms open at once.                                  *)
EXTENDS SurveyReplies
CONSTANTS ann, mia, t1, t2

TwoTabs == {t1, t2}
Customer == {ann, mia}
Staff == {mia}

Row(code, label, excluded) == [code |-> code, label |-> label, excluded |-> excluded]
Card(ui, ordered, rows) == [ui |-> ui, ordered |-> ordered, rows |-> rows]

TwoOptions == Card("radio", FALSE, <<Row(0, "x", FALSE), Row(0, "y", FALSE)>>)

\* Options that are new, kept, renamed, retired, left out of the analysis, or given a code.
ManyCards ==
    {TwoOptions,
     Card("radio", FALSE, <<Row(1, "y", FALSE), Row(0, "x", TRUE)>>),
     Card("radio", FALSE, <<Row(2, "x", FALSE)>>),
     Card("dropdown", FALSE, <<Row(0, "x", FALSE), Row(3, "y", FALSE)>>),
     Card("radio", TRUE, <<Row(0, "x", FALSE), Row(0, "z", TRUE), Row(0, "y", FALSE)>>),
     Card("checkbox", FALSE, <<Row(1, "x", FALSE), Row(0, "y", TRUE)>>),
     Card("checkbox", FALSE, <<Row(1, "y", FALSE), Row(0, "x", FALSE)>>),
     Card("scale", FALSE, <<>>),
     Card("long_text", FALSE, <<>>)}

Lines == {<<"x">>, <<"x", "y">>, <<"x", "x">>, <<"1", "2", "3">>, <<"1", "3">>}
OldQuestions == [kind : {"single_choice", "multiple_choice", "scale"},
                 type : {"nominal", "ordinal"}, lines : Lines \union {<<>>}]

\* t2 holds no reply, or a value; a scale only held what its form offered.
OldSurveys ==
    {s \in [question : OldQuestions, values : {(t1 :> None) @@ (t2 :> v) : v \in {None, "x", "2"}}] :
        s.question.kind = "scale" =>
            \/ s.values[t2] = None
            \/ s.values[t2] \in Range(s.question.lines)
            \/ s.question.lines = <<>> /\ s.values[t2] = "2"}

Scenario(via, tests, start, first, second, bound) ==
    [via |-> via, tests |-> tests, start |-> start,
     users |-> (t1 :> first) @@ (t2 :> second), events |-> bound]

\* A draft or an older survey with one reply; two forms of one customer, or of a customer and
\* a manager.
ManyScenarios ==
    {Scenario("site", FALSE, "draft", ann, None, 0),
     Scenario("site", FALSE, "legacy", ann, None, 0),
     Scenario("site", FALSE, "published", ann, ann, 2),
     Scenario("site", FALSE, "published", ann, mia, 2),
     Scenario("inbox", FALSE, "published", ann, ann, 2),
     Scenario("inbox", TRUE, "published", ann, mia, 2)}

OneCard == {TwoOptions}
=============================================================================
