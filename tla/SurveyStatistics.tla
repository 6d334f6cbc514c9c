---------------------------- MODULE SurveyStatistics ----------------------------
(***************************************************************************)
(* What the worker computes from the replies of a survey, before any AI    *)
(* (feedback/background_analysis.py and local_service.py, analyze_frame):  *)
(* a chart of each question, the tests between questions, the words of     *)
(* the text answers and their mood. Means, statistics and p-values are     *)
(* left out; who stands behind each result is kept, as a set of replies,   *)
(* and a count is the size of such a set.                                  *)
(*                                                                         *)
(* A column holds a question's valid answers, one set for each reply: a    *)
(* multiple choice may have several members, an answer that is missing,    *)
(* excluded or invalid has none (QuestionSchema says which those are).     *)
(***************************************************************************)
EXTENDS Integers, FiniteSets, Sequences

CONSTANTS
    Replies,    \* the replies read
    Values,     \* what the answers say
    Words       \* the vocabulary that may leave the node

NumericTypes == {"continuous", "discrete"}
CategoryTypes == {"nominal", "ordinal"}

\* The columns of the questions; a text question has none, it is read by calculate_text.
Column == [type : NumericTypes \union CategoryTypes, multiple : BOOLEAN,
           answer : [Replies -> SUBSET Values]]

IsColumn(q) ==
    /\ q \in Column
    /\ q.multiple => q.type = "nominal"
    /\ ~q.multiple => \A r \in Replies : Cardinality(q.answer[r]) <= 1

(***************************************************************************)
(* Charts                                                                  *)
(***************************************************************************)

Answered(q) == {r \in Replies : q.answer[r] # {}}
Saying(q, v) == {r \in Replies : v \in q.answer[r]}
Total(q, v) == Cardinality(Saying(q, v))
Chosen(q) == UNION {q.answer[r] : r \in Replies}

\* A question nobody has answered gets no chart.
HasChart(q) == Answered(q) # {}

Numeric(q) == q.type \in NumericTypes

\* Who chose an option among those who answered, and its share of all checks.
Checks(q, options) == {c \in Replies \X options : c[2] \in q.answer[c[1]]}
SelectionRate(q, v) == <<Total(q, v), Cardinality(Answered(q))>>
CheckShare(q, v) == <<Total(q, v), Cardinality(Checks(q, Values))>>

(***************************************************************************)
(* Tests between two questions                                             *)
(***************************************************************************)

MaxGroups == 5
MaxCells == 25
MinPairs == 3

Both(p, q) == Answered(p) \intersect Answered(q)
Among(p, q, v) == Saying(p, v) \intersect Answered(q)

Factor(q) == q.type = "nominal" /\ ~q.multiple
Ranked(q) == q.type = "ordinal"
Continuous(q) == q.type = "continuous"
Scored(q) == Continuous(q) \/ Ranked(q)

\* A test with the groups it compares, each with its replies, and all replies behind it (its
\* valid_n, or what the groups add up to).
Test(family, groups, behind) == [family |-> family, groups |-> groups, behind |-> behind]
When(condition, test) == IF condition THEN {test} ELSE {}

\* value_counts() >= 2: an option of p that at least two of those who answered both chose.
ValidGroups(p, q) == {v \in Chosen(p) : Cardinality(Among(p, q, v)) >= 2}

Comparison(family, p, q, options) ==
    Test(family, [v \in options |-> Among(p, q, v)], UNION {Among(p, q, v) : v \in options})

\* Two to five groups are compared by their means (Welch, ANOVA), or by their ranks.
MeanComparison(p, q) ==
    When(Factor(p) /\ Continuous(q) /\ Cardinality(ValidGroups(p, q)) \in 2 .. MaxGroups,
         Comparison("mean_comparison", p, q, ValidGroups(p, q)))

RankComparison(p, q) ==
    When(Factor(p) /\ Ranked(q) /\ Cardinality(ValidGroups(p, q)) \in 2 .. MaxGroups,
         Comparison("nonparametric_rank", p, q, ValidGroups(p, q)))

\* The contingency table of those who answered both; its groups are its rows.
Rows(p, q) == {v \in Chosen(p) : Among(p, q, v) # {}}

ChiSquare(p, q) ==
    When(/\ Factor(p) /\ Factor(q)
         /\ Cardinality(Rows(p, q)) >= 2 /\ Cardinality(Rows(q, p)) >= 2
         /\ Cardinality(Rows(p, q)) * Cardinality(Rows(q, p)) <= MaxCells,
         Comparison("categorical_association", p, q, Rows(p, q)))

\* Pearson or Spearman, of three pairs or more; it has no groups.
Correlation(p, q) ==
    When(Scored(p) /\ Scored(q) /\ Cardinality(Both(p, q)) >= MinPairs,
         Test("correlation", [v \in {} |-> {}], Both(p, q)))

\* The tests that are carried out on two columns; one is still skipped when its p-value is no
\* number. A test that does not depend on the order takes the column that comes first.
TestsOf(p, q, first) ==
    MeanComparison(p, q) \union RankComparison(p, q)
        \union (IF first THEN ChiSquare(p, q) \union Correlation(p, q) ELSE {})

(***************************************************************************)
(* Words and mood of the text answers: calculate_text                      *)
(***************************************************************************)

Labels == {"positive", "neutral", "negative", "unknown"}

\* A text answer: its words of the vocabulary, in order, and its mood, which is unknown when
\* no word tells.
IsText(texts) ==
    /\ IsFiniteSet(DOMAIN texts)
    /\ \A a \in DOMAIN texts : texts[a].tokens \in Seq(Words) /\ texts[a].label \in Labels

Occurrences(texts, word) ==
    UNION {{<<a, n>> : n \in {m \in DOMAIN texts[a].tokens : texts[a].tokens[m] = word}}
           : a \in DOMAIN texts}

\* The answers of a category with one mood. An answer without a word is in the last category.
CategoriesOf(texts, a, category, uncategorised) ==
    LET tokens == texts[a].tokens
    IN  IF tokens = <<>> THEN {uncategorised} ELSE {category[tokens[n]] : n \in DOMAIN tokens}

Cell(texts, category, uncategorised, c, label) ==
    {a \in DOMAIN texts : /\ c \in CategoriesOf(texts, a, category, uncategorised)
                          /\ texts[a].label = label}

=============================================================================
