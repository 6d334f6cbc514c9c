--------------------------- MODULE QuestionSchema ---------------------------
(***************************************************************************)
(* The rules of one survey question, shared by the card builder, the       *)
(* definition, the fill-in form and the statistics: which cards are        *)
(* accepted (question_errors), how they are stored with option codes and   *)
(* scores (normalize_question), how an answer is stored                    *)
(* (_encode_answer) and how the statistics class it (classify_values).     *)
(*                                                                         *)
(* An option row is [code, label, excluded]; code n stands for "c<n>" and  *)
(* 0 for a row without a code.  Labels are members of a small set, "" is a *)
(* blank one.                                                              *)
(***************************************************************************)
EXTENDS Integers, Sequences, FiniteSets, SequencesExt

NoScore == -1
Option == [code : Nat, label : STRING, excluded : BOOLEAN]

ChoiceKinds == {"single_choice", "multiple_choice"}
TextKinds == {"short_text", "long_text"}
NumberKinds == {"integer", "decimal"}
Displays == {"radio", "dropdown"}
UiTypes == TextKinds \union Displays \union {"checkbox", "scale", "number"}

\* kind_display_for: the kind a card's type stands for.
KindFor(ui, decimal) ==
    CASE ui \in Displays -> "single_choice"
      [] ui = "checkbox" -> "multiple_choice"
      [] ui = "number" -> IF decimal THEN "decimal" ELSE "integer"
      [] OTHER -> ui

\* derive_data_type.
DataType(kind, ordered) ==
    CASE kind \in TextKinds -> "text"
      [] kind \in {"single_choice", "scale"} ->
            IF kind = "scale" \/ ordered THEN "ordinal" ELSE "nominal"
      [] kind = "multiple_choice" -> "nominal"
      [] kind = "integer" -> "discrete"
      [] kind = "decimal" -> "continuous"

Codes(choices) == {choices[i].code : i \in DOMAIN choices} \ {0}
Labels(choices) == {choices[i].label : i \in DOMAIN choices}

\* The members of a sequence at the positions S, in their order.
Rank(S, i) == Cardinality({j \in S : j <= i})
Selected(s, S) == [n \in 1..Cardinality(S) |-> s[CHOOSE i \in S : Rank(S, i) = n]]

Written(rows) == Selected(rows, {i \in DOMAIN rows : rows[i].label # ""})
Included(choices) == Selected(choices, {i \in DOMAIN choices : ~choices[i].excluded})

\* How many of the first n members of a sequence satisfy P.
CountTo(choices, n, P(_)) == Cardinality({i \in 1..n : P(choices[i])})
-----------------------------------------------------------------------------
(* Storing a card *)

\* Mutant: the next code counts the options the question has now.
CounterFromRows(item, rows) == 1 + Cardinality(Codes(rows))

\* The number the next new option gets: the question's counter, raised above every code
\* the rows bring along.
CounterFor(item, rows) ==
    LET above == {item.next} \union {code + 1 : code \in Codes(rows)} IN
    CHOOSE n \in above : \A m \in above : m <= n

\* Each row without a code gets the next number, in the order of the rows.
Coded(rows, counter) ==
    [i \in DOMAIN rows |->
        IF rows[i].code # 0 THEN rows[i]
        ELSE [rows[i] EXCEPT
                !.code = counter + CountTo(rows, i - 1, LAMBDA c : c.code = 0)]]

\* Scores run from score_start over the options that are analysed.
Scored(rows, start) ==
    [i \in DOMAIN rows |->
        IF rows[i].excluded THEN NoScore
        ELSE start + CountTo(rows, i - 1, LAMBDA c : ~c.excluded)]

\* normalize_question (and Question.sync_schema, which stores its result).
NormalizeQuestion(item) ==
    LET choice == item.kind \in ChoiceKinds
        ordered == item.ordered /\ item.kind = "single_choice"
        rows == IF choice THEN Written(item.choices) ELSE <<>>
        counter == CounterFor(item, rows)
        new == CountTo(rows, Len(rows), LAMBDA c : c.code = 0)
    IN [item EXCEPT
          !.ordered = ordered,
          !.choices = Coded(rows, counter),
          !.scores = IF ordered THEN Scored(rows, item.start)
                     ELSE [i \in DOMAIN rows |-> NoScore],
          !.next = counter + new,
          !.scale = IF item.kind = "scale" THEN @ ELSE <<>>,
          !.tracked = @ /\ item.kind \in TextKinds,
          !.type = DataType(item.kind, ordered)]

DistinctCodes(rows) ==
    \A i, j \in DOMAIN rows : rows[i].code = rows[j].code /\ rows[i].code # 0 => i = j

DistinctLabels(rows) == Cardinality(Labels(rows)) = Len(rows)

\* Mutant: check boxes may leave an option out of the analysis.
AcceptableWithExcludedBoxes(item) ==
    LET rows == Written(item.choices) IN
    item.kind \in ChoiceKinds =>
        /\ DistinctCodes(rows) /\ DistinctLabels(rows)
        /\ Len(Included(rows)) >= IF item.kind = "single_choice" /\ item.ordered THEN 2 ELSE 1

\* question_errors finds nothing.
Acceptable(item) ==
    LET rows == Written(item.choices) IN
    /\ item.start \in {0, 1}
    /\ item.kind \in ChoiceKinds =>
          /\ DistinctCodes(rows) /\ DistinctLabels(rows)
          /\ item.kind = "multiple_choice" => Included(rows) = rows
          /\ Len(Included(rows)) >= IF item.kind = "single_choice" /\ item.ordered THEN 2 ELSE 1
    /\ item.kind = "scale" => item.scale[1] \in {0, 1} /\ item.scale[2] \in 2..10
-----------------------------------------------------------------------------
(* Questions of the old schema: [kind, type, lines], the options one to a line *)

NewItem == [kind |-> "short_text", ordered |-> FALSE, start |-> 1, choices |-> <<>>,
            scores |-> <<>>, next |-> 1, scale |-> <<>>, tracked |-> FALSE, type |-> "text"]

\* Lines that count up by one, the points of a scale.
RangeOf(lines) ==
    {ends \in (0..10) \X (0..10) :
        lines = [i \in 1..(ends[2] - ends[1] + 1) |-> ToString(ends[1] + i - 1)]}

\* fields_from_legacy: a scale whose lines do not count up becomes a choice with an order.
FromLegacy(legacy) ==
    LET scale == legacy.kind = "scale"
        points == IF legacy.lines = <<>> THEN {<<1, 5>>} ELSE RangeOf(legacy.lines)
    IN IF scale /\ points # {}
       THEN [NewItem EXCEPT !.kind = "scale", !.scale = CHOOSE ends \in points : TRUE]
       ELSE [NewItem EXCEPT
               !.kind = IF scale THEN "single_choice" ELSE legacy.kind,
               !.ordered = scale \/ (legacy.kind = "single_choice" /\ legacy.type = "ordinal"),
               !.choices = [i \in DOMAIN legacy.lines |->
                               [code |-> i, label |-> legacy.lines[i], excluded |-> FALSE]]]

\* schema_conversion._problems: what stops the whole conversion, given the stored values.
Convertible(legacy, values) ==
    /\ Acceptable(NormalizeQuestion(FromLegacy(legacy)))
    /\ values # {} =>
          CASE legacy.kind = "single_choice" -> values \subseteq Range(legacy.lines)
            [] legacy.kind = "scale" -> legacy.lines = <<>> \/ RangeOf(legacy.lines) # {}
            [] legacy.kind = "multiple_choice" -> FALSE
-----------------------------------------------------------------------------
(* Answers *)

\* What the form offers for a question (SurveyFormBuilder._build_field): values are codes of
\* options, the checked ones in any order, points of the scale, or free text.
ValuesOffered(item) ==
    CASE item.kind = "single_choice" -> {<<code>> : code \in Codes(item.choices)}
      [] item.kind = "multiple_choice" ->
            UNION {SetToSeqs(codes) : codes \in (SUBSET Codes(item.choices)) \ {{}}}
      [] item.kind = "scale" -> {<<n>> : n \in item.scale[1]..item.scale[2]}
      [] OTHER -> {<<>>}

\* _encode_answer: the codes in the order of the question's options; none for other kinds.
EncodeAnswer(item, value) ==
    IF item.kind \in ChoiceKinds
    THEN Selected([i \in DOMAIN item.choices |-> item.choices[i].code],
                  {i \in DOMAIN item.choices : item.choices[i].code \in Range(value)})
    ELSE value

LabelOf(item, code) ==
    item.choices[CHOOSE i \in DOMAIN item.choices : item.choices[i].code = code].label

\* answer_cell: choice codes become the question's labels of today; unknown codes stay codes.
AnswerCell(item, stored) ==
    IF item.kind \in ChoiceKinds
    THEN {IF code \in Codes(item.choices) THEN LabelOf(item, code) ELSE ToString(code)
             : code \in Range(stored)}
    ELSE {ToString(n) : n \in Range(stored)}

\* analysis_levels and analysis_excluded.
AnalysisLevels(item) ==
    IF item.kind = "scale"
    THEN {ToString(n) : n \in item.scale[1]..item.scale[2]}
    ELSE Labels(Included(item.choices))

AnalysisExcluded(item) ==
    Labels(item.choices) \ Labels(Included(item.choices))

\* classify_values for one value of a choice or scale column; {} for an empty one.
Classify(item, cell) ==
    CASE cell = {} -> "missing"
      [] cell # {} /\ cell \subseteq AnalysisLevels(item) -> "valid"
      [] cell # {} /\ ~(cell \subseteq AnalysisLevels(item)) ->
            IF item.kind = "single_choice" /\ cell \subseteq AnalysisExcluded(item)
            THEN "excluded" ELSE "invalid"
=============================================================================
