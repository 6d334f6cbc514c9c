----------------------------- MODULE MCStageAnswers -----------------------------
\* Bounded checks of the catalogue of evidence and of what is kept of an AI answer, against
\* what they are for; TLC evaluates them at the start of a run of a module that extends this.
EXTENDS Integers, FiniteSets, Sequences

CONSTANT NotAList   \* a model value

\* Two rows of evidence and their aliases; the id of the second looks like the alias of the first.
Answers == INSTANCE StageAnswers WITH Ids <- {"E001", "E002", "stats.q1.average", "nothing"},
                                      Alias <- <<"E001", "E002">>, Malformed <- NotAList

AnIds == <<"stats.q1.average", "E001">>
AnEvidence ==
    [id \in {"stats.q1.average", "E001"} |->
        IF id = "E001" THEN [value |-> 420, sample |-> 12000, literals |-> {}, test |-> TRUE]
        ELSE [value |-> 3667, sample |-> 3000, literals |-> {[number |-> 5000, decimals |-> 0]}, test |-> FALSE]]
ARegistry == Answers!ProviderRegistry(AnIds, AnEvidence)

Number(n, d) == [number |-> n, decimals |-> d]
AText(numbers) == [fits |-> TRUE, chinese |-> FALSE, numbers |-> numbers]
AFinding(refs, numbers) ==
    [shaped |-> TRUE, refs |-> refs, texts |-> {AText(numbers)}, limitations |-> <<>>, criteria |-> <<>>]

\* 3.67 of an average of 3.667, 42 for a share of 0.42, 0.05 beside a test, and an invented 30.
SomeNumbers == {{}, {Number(3670, 2)}, {Number(42000, 0)}, {Number(50, 2)}, {Number(30000, 0)}}
SomeRefs == {NotAList} \union SUBSET {"E001", "E002", "stats.q1.average", "nothing"}
SomeFindings == {AFinding(refs, numbers) : refs \in SomeRefs, numbers \in SomeNumbers}
SomeLimits == [findings |-> 2, refs |-> 2, limitations |-> 2]
Early == {[s \in {"correlations"} |-> <<f, AFinding({"E002"}, {Number(42000, 0)})>>] : f \in SomeFindings}

\* Whatever one finding says, the other is kept, and the answer is accepted.
ASSUME \A payload \in Early :
    LET kept == Answers!EarlySanitized(payload, {"correlations"}, ARegistry, SomeLimits)
    IN  /\ Answers!EarlyAccepted(kept, {"correlations"}, ARegistry, SomeLimits)
        /\ 2 \in DOMAIN kept["correlations"]

\* An invented number is never kept, and a number is kept only beside the row that gives it.
ASSUME \A payload \in Early :
    LET kept == Answers!EarlySanitized(payload, {"correlations"}, ARegistry, SomeLimits)["correlations"]
    IN  \A n \in DOMAIN kept :
            LET stored == Answers!Stored(kept[n], AnIds)
                numbers == UNION {text.numbers : text \in stored.texts}
            IN  /\ Number(30000, 0) \notin numbers
                /\ Number(3670, 2) \in numbers => "stats.q1.average" \in stored.refs
                /\ Number(50, 2) \in numbers => "E001" \in stored.refs

\* Four replies to two questions. Each of three says one thing of the first question and the
\* fourth nothing, so all is hidden; merged they are enough.
Catalog == INSTANCE EvidenceCatalog WITH
    Replies <- 1 .. 4, Values <- {"a", "b", "c"}, Words <- {"good", "bad"}, MinResponses <- 3,
    MaxShown <- 2, Clean <- [v \in {"a", "b", "c", "good", "bad", "taste", "rest"} |-> v],
    Merged <- {}, Category <- [w \in {"good", "bad"} |-> "taste"], Uncategorised <- "rest"

Columns ==
    [type : {"nominal", "ordinal", "continuous"}, multiple : {FALSE},
     answer : [1 .. 4 -> {{}, {"a"}, {"b"}, {"c"}}]]

\* No row of evidence is about fewer than three replies, none counts more than its sample, and
\* of a chart that hides groups a single small one is never shown as merged.
ASSUME \A p \in {q \in Columns : q.type = "nominal"} :
    \A shown \in Catalog!Bounded(p) :
        /\ \A row \in Catalog!DistributionRows(1, p, shown) :
              Cardinality(row.behind) >= 3 /\ row.behind \subseteq row.sample
        /\ Catalog!ShowsMerged(p, shown) => Cardinality(Catalog!Hidden(p, shown)) >= 2
ASSUME \A p, q \in {c \in Columns : c.answer[4] = {}} :
    \A row \in Catalog!TestRows(1, 2, Catalog!TestsOf(p, q, TRUE)) : Cardinality(row.behind) >= 3

Texts == [1 .. 4 -> [tokens : {<<>>, <<"good">>, <<"bad", "good">>}, label : {"positive", "negative", "unknown"}]]

\* Neither are words that occur too seldom or moods of a few shown.
ASSUME \A texts \in Texts : \A words \in Catalog!TopWords(texts) :
    \A row \in Catalog!TextRows(texts, words, {"taste", "rest"}) :
        Cardinality(row.behind) >= 3 /\ row.behind \subseteq row.sample

=============================================================================
