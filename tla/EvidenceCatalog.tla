---------------------------- MODULE EvidenceCatalog ----------------------------
(***************************************************************************)
(* The evidence an AI stage may cite (feedback/ai_snapshot_service.py,     *)
(* build_statistics_snapshot and _build_text_snapshot, from                *)
(* background_analysis.py, assemble_input): the results of the statistics  *)
(* with small groups left out. A number in a published text must be one of *)
(* these. The stages are sent more than this catalogue: the statistics and *)
(* the text analysis of the snapshot are part of their inputs too          *)
(* (ai_statistics_service.py:99, ai_text_service.py:102), and nothing here *)
(* is about them.                                                          *)
(*                                                                         *)
(* A row has the replies or occurrences its value counts, and those its    *)
(* sample_size counts.                                                     *)
(***************************************************************************)
EXTENDS SurveyStatistics

CONSTANTS
    MinResponses,   \* settings.AI_REPORT_MIN_RESPONSES
    MaxShown,       \* how many values of a distribution, or keywords, are passed on
    Clean,          \* _clean_text: what is left of an option, a word or a category
    Merged,         \* labels that start like the one of merged small groups
    Category,       \* the category of a word
    Uncategorised

Metrics == {"average", "standard_deviation", "minimum", "maximum"}

Row(id, kind, behind, sample) == [id |-> id, kind |-> kind, behind |-> behind, sample |-> sample]

Enough(S) == Cardinality(S) >= MinResponses

(***************************************************************************)
(* Charts                                                                  *)
(***************************************************************************)

\* The values of a chart that are passed on: of a number the first, of a category the commonest.
Bounded(q) ==
    {S \in SUBSET Chosen(q) :
        IF Cardinality(Chosen(q)) <= MaxShown THEN S = Chosen(q)
        ELSE /\ Cardinality(S) = MaxShown
             /\ ~Numeric(q) => \A v \in S, u \in Chosen(q) \ S : Total(q, v) >= Total(q, u)}

\* _sanitize_distribution: small groups are hidden, or merged when together they are enough.
Visible(q, shown) == {v \in shown : Enough(Saying(q, v))}
Hidden(q, shown) == shown \ Visible(q, shown)
HiddenChecks(q, shown) == Checks(q, Hidden(q, shown))
ShowsMerged(q, shown) == Enough(HiddenChecks(q, shown))

DescriptiveRows(i, q) ==
    IF Numeric(q) /\ Enough(Answered(q))
    THEN {Row(<<"stats", i, m>>, "descriptive_statistic", Answered(q), Answered(q)) : m \in Metrics}
    ELSE {}

\* answered_n of a multiple choice, else what the values passed on add up to.
AnsweredN(q, shown) ==
    IF q.multiple THEN Answered(q) ELSE UNION {Saying(q, v) : v \in shown}

Rates(q) == IF q.multiple THEN {"selection_rate", "check_share"} ELSE {}

DistributionRows(i, q, shown) ==
    IF Numeric(q) THEN {}
    ELSE {Row(<<"distribution", i, Clean[v], m>>, "categorical_distribution", Saying(q, v),
              AnsweredN(q, shown))
            : v \in {u \in Visible(q, shown) : Clean[u] \notin Merged}, m \in {"total"} \union Rates(q)}

(***************************************************************************)
(* Tests                                                                   *)
(***************************************************************************)

\* A test with a small group is left out altogether.
Safe(t) == \A v \in DOMAIN t.groups : Enough(t.groups[v])

TestMetrics(t) ==
    {"p_value", "statistic"} \union
        (IF t.family \in {"mean_comparison", "categorical_association"} THEN {"effect_size"} ELSE {})

TestRows(i, j, tests) ==
    UNION {{Row(<<"test", t.family, <<i, j>>, m>>, "statistical_test", t.behind, t.behind)
            : m \in TestMetrics(t)} : t \in {u \in tests : Safe(u)}}

(***************************************************************************)
(* Words and mood                                                          *)
(***************************************************************************)

\* The commonest words. A word that occurs too seldom is left out; it is the occurrences that
\* are counted, not the answers. (sample_size is None: the row gives its occurrences again.)
TopWords(texts) ==
    LET found == {w \in Words : Occurrences(texts, w) # {}}
    IN  {S \in SUBSET found :
            IF Cardinality(found) <= MaxShown THEN S = found
            ELSE /\ Cardinality(S) = MaxShown
                 /\ \A w \in S, u \in found \ S :
                       Cardinality(Occurrences(texts, w)) >= Cardinality(Occurrences(texts, u))}

KeywordRows(texts, words) ==
    {Row(<<"keyword", Clean[Category[w]], Clean[w]>>, "keyword_frequency", Occurrences(texts, w),
         Occurrences(texts, w))
        : w \in {u \in words : Enough(Occurrences(texts, u))}}

Known == {"positive", "neutral", "negative"}
CellOf(texts, c, label) == Cell(texts, Category, Uncategorised, c, label)
KnownOf(texts, c) == UNION {CellOf(texts, c, label) : label \in Known}

\* A category is shown when the answers whose mood is known are enough, and each mood that
\* occurs is.
Shown(texts, c) ==
    /\ Enough(KnownOf(texts, c))
    /\ \A label \in Known : CellOf(texts, c, label) # {} => Enough(CellOf(texts, c, label))

SentimentRows(texts, categories) ==
    UNION {{Row(<<"sentiment", Clean[c], label>>, "category_sentiment", CellOf(texts, c, label),
                KnownOf(texts, c))
            : label \in {l \in Known : CellOf(texts, c, l) # {}}} : c \in {d \in categories : Shown(texts, d)}}

(***************************************************************************)
(* The catalogue: assemble_input                                           *)
(***************************************************************************)

ChartRows(columns, shown) ==
    UNION {DescriptiveRows(i, columns[i]) \union DistributionRows(i, columns[i], shown[i])
           : i \in DOMAIN columns}

PairRows(columns) ==
    UNION {TestRows(p[1], p[2], TestsOf(columns[p[1]], columns[p[2]], p[1] < p[2]))
           : p \in {r \in (DOMAIN columns) \X (DOMAIN columns) : r[1] # r[2]}}

StatisticalRows(columns, shown) == ChartRows(columns, shown) \union PairRows(columns)

TextRows(texts, words, categories) ==
    KeywordRows(texts, words) \union SentimentRows(texts, categories)
=============================================================================
