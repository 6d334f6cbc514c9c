------------------------------ MODULE StageAnswers ------------------------------
(***************************************************************************)
(* What becomes of an AI answer (feedback/ai_stage_service.py with         *)
(* ai_statistics_service.py, ai_text_service.py, ai_synthesis_service.py   *)
(* and ai_grounding.py). The provider is shown the evidence under short    *)
(* aliases; it may cite an alias or an id. Findings that cite nothing, or  *)
(* quote a number their evidence does not give, are dropped; the rest is   *)
(* validated as a whole, the aliases are replaced by ids, and the result   *)
(* is stored.                                                              *)
(*                                                                         *)
(* Numbers are counted in thousandths. A list of findings is a function    *)
(* from positions, which dropping one leaves alone.                        *)
(***************************************************************************)
EXTENDS Integers, FiniteSets, Sequences

CONSTANTS
    Ids,        \* ids of evidence and aliases
    Alias,      \* E001, E002, ...: an alias for each position of the catalogue
    Malformed   \* not a list, or not a dictionary

(***************************************************************************)
(* Numbers: ai_grounding                                                   *)
(***************************************************************************)

One == 1000
Unit(decimals) == CASE decimals = 0 -> 1000 [] decimals = 1 -> 100 [] decimals = 2 -> 10 [] decimals = 3 -> 1

\* A number as it is written, and a text with the numbers found in it. A text fits when it is
\* a string, not blank and not too long. Chinese percentages are never accepted.
Token == [number : Nat, decimals : 0 .. 3]
Text == [fits : BOOLEAN, chinese : BOOLEAN, numbers : SUBSET Token]

\* A row of evidence: its numbers, the ones printed in its labels, and whether it is of a test.
Evidence == [value : Int \union {Malformed}, sample : Nat \union {Malformed}, literals : SUBSET Token, test : BOOLEAN]

PThresholds == {50, 10, 1}

\* A value, its magnitude, a proportion as a percentage, and the customary p thresholds.
Quotable(row) ==
    LET values == {row.value, row.sample} \ {Malformed}
    IN  values \union {-v : v \in {w \in values : w < 0}}
               \union {100 * v : v \in {w \in values : w >= 0 /\ w <= One}}
               \union (IF row.test THEN PThresholds ELSE {})

Distance(a, b) == IF a >= b THEN a - b ELSE b - a

\* round(value, decimals) = number; of a tie either neighbour may come out, as with floats.
RoundsTo(v, token) == 2 * Distance(v, token.number) <= Unit(token.decimals)

Grounded(token, rows) ==
    \E row \in rows : token \in row.literals \/ \E v \in Quotable(row) : RoundsTo(v, token)

\* _validate_text, _text
ValidText(text, rows) ==
    text.fits /\ ~text.chinese /\ \A token \in text.numbers : Grounded(token, rows)

(***************************************************************************)
(* Aliases: _provider_evidence_projection                                  *)
(***************************************************************************)

\* The catalogue of a stage: ids in their order, and the rows.
IsCatalog(ids, evidence) ==
    /\ ids \in Seq(Ids) /\ Len(ids) <= Len(Alias)
    /\ \A i, j \in DOMAIN ids : ids[i] = ids[j] => i = j
    /\ evidence \in [{ids[i] : i \in DOMAIN ids} -> Evidence]

CanonicalIds(ids) == {ids[i] : i \in DOMAIN ids}
AliasesOf(ids) == {Alias[i] : i \in DOMAIN ids}

\* The id an alias stands for: alias_to_canonical.
CanonicalOf(ids, alias) == ids[CHOOSE i \in DOMAIN ids : Alias[i] = alias]

\* The rows by id, then by alias: an alias hides an id that looks the same.
ProviderRegistry(ids, evidence) ==
    [ref \in CanonicalIds(ids) \union AliasesOf(ids) |->
        IF ref \in AliasesOf(ids) THEN evidence[CanonicalOf(ids, ref)] ELSE evidence[ref]]

\* _restore_canonical_evidence_refs, for one reference.
Restore(ids, ref) == IF ref \in AliasesOf(ids) THEN CanonicalOf(ids, ref) ELSE ref

(***************************************************************************)
(* Findings                                                                *)
(***************************************************************************)

Profiles == {"standard", "compact"}
EarlyLimits(profile) ==
    IF profile = "standard" THEN [findings |-> 4, refs |-> 4, limitations |-> 3]
    ELSE [findings |-> 2, refs |-> 2, limitations |-> 2]

SynthesisLimits(profile) ==
    IF profile = "standard"
    THEN [combined_findings |-> 5, improvement_drafts |-> 4, refs |-> 4, limitations |-> 3,
          caveats |-> 3, criteria |-> 4]
    ELSE [combined_findings |-> 2, improvement_drafts |-> 2, refs |-> 2, limitations |-> 2,
          caveats |-> 2, criteria |-> 2]

\* The aliases differ from one another; that they differ from every id is not relied on.
IsAliases == Alias \in Seq(Ids) /\ \A i, j \in DOMAIN Alias : Alias[i] = Alias[j] => i = j

\* A finding or a draft: whether it has the keys and choices it must have, what it cites (the
\* candidates named by numbers, codes and ids, or Malformed when that is no list), its texts, and
\* its lists of texts.
Finding == [shaped : BOOLEAN, refs : (SUBSET Ids) \union {Malformed}, texts : SUBSET Text,
            limitations : Seq(Text), criteria : Seq(Text)]

Listed(list) == {list[n] : n \in DOMAIN list}
TextsOf(f) == f.texts \union Listed(f.limitations) \union Listed(f.criteria)
CitedRows(refs, registry) == {registry[ref] : ref \in refs}

\* _validate_refs, _refs
ValidRefs(refs, registry, max) ==
    refs # Malformed /\ refs # {} /\ Cardinality(refs) <= max /\ refs \subseteq DOMAIN registry

\* _validate_stage_finding
ValidFinding(f, registry, limits) ==
    /\ f.shaped
    /\ ValidRefs(f.refs, registry, limits.refs)
    /\ Len(f.limitations) <= limits.limitations
    /\ \A text \in TextsOf(f) : ValidText(text, CitedRows(f.refs, registry))

\* _normalize_provider_refs: what is not in the registry is not cited.
Normalize(f, registry) ==
    IF f.refs = Malformed THEN f ELSE [f EXCEPT !.refs = @ \intersect DOMAIN registry]

\* The findings that are valid once normalised; the others are discarded.
Kept(rows, registry, limits) ==
    [n \in {m \in DOMAIN rows : ValidFinding(Normalize(rows[m], registry), registry, limits)}
        |-> Normalize(rows[n], registry)]

(***************************************************************************)
(* Statistics and text                                                     *)
(***************************************************************************)

StatisticsSections == {"descriptive_statistics", "categorical_distributions", "group_comparisons",
                       "correlations", "inferential_tests", "statistical_caveats"}

\* A list of findings; a row may be no dictionary in a synthesis.
IsRows(rows) ==
    /\ rows = [n \in DOMAIN rows |-> rows[n]] /\ IsFiniteSet(DOMAIN rows)
    /\ \A n \in DOMAIN rows : rows[n] \in Finding \union {Malformed}

\* The sections are there and none has too many findings, bad ones included.
EarlyShape(payload, sections, limits) ==
    /\ payload # Malformed /\ DOMAIN payload = sections
    /\ \A s \in sections : payload[s] # Malformed /\ Cardinality(DOMAIN payload[s]) <= limits.findings

\* validate_output
EarlyAccepted(payload, sections, registry, limits) ==
    /\ EarlyShape(payload, sections, limits)
    /\ \A s \in sections : \A n \in DOMAIN payload[s] : ValidFinding(payload[s][n], registry, limits)

\* _sanitize_provider_payload: only an answer of the right shape is sanitised.
EarlySanitized(payload, sections, registry, limits) ==
    IF ~EarlyShape(payload, sections, limits) THEN payload
    ELSE [s \in sections |-> Kept(payload[s], registry, limits)]

(***************************************************************************)
(* Synthesis                                                               *)
(***************************************************************************)

Lists == {"combined_findings", "improvement_drafts"}

\* validate_combined_finding, validate_improvement_draft
ValidRow(f, registry, limits) ==
    ValidFinding(f, registry, limits) /\ Len(f.criteria) <= limits.criteria

AllRows(registry) == {registry[ref] : ref \in DOMAIN registry}

\* Summary and caveats may quote any evidence.
ValidFrame(payload, registry, limits) ==
    /\ ValidText(payload.summary, AllRows(registry))
    /\ payload.caveats # Malformed /\ Len(payload.caveats) <= limits.caveats
    /\ \A text \in Listed(payload.caveats) : ValidText(text, AllRows(registry))

Dictionaries(rows) == {n \in DOMAIN rows : rows[n] # Malformed}

\* What is no list, and a row that is no dictionary, is left as it is; the lists are not counted.
SynthesisKept(rows, registry, limits) ==
    IF rows = Malformed THEN Malformed
    ELSE [n \in (DOMAIN rows \ Dictionaries(rows))
                \union {m \in Dictionaries(rows) : ValidRow(Normalize(rows[m], registry), registry, limits)}
          |-> IF rows[n] = Malformed THEN Malformed ELSE Normalize(rows[n], registry)]

SynthesisSanitized(payload, registry, limits) ==
    IF payload = Malformed THEN Malformed
    ELSE [payload EXCEPT !.combined_findings = SynthesisKept(@, registry, limits),
                         !.improvement_drafts = SynthesisKept(@, registry, limits)]

\* validate_output; the limits of a list have its name.
SynthesisAccepted(payload, registry, limits) ==
    /\ payload # Malformed /\ ValidFrame(payload, registry, limits)
    /\ \A list \in Lists :
          /\ payload[list] # Malformed /\ Cardinality(DOMAIN payload[list]) <= limits[list]
          /\ \A n \in DOMAIN payload[list] :
                payload[list][n] # Malformed /\ ValidRow(payload[list][n], registry, limits)

\* What is stored of an accepted finding.
Stored(f, ids) == [f EXCEPT !.refs = {Restore(ids, ref) : ref \in @}]

=============================================================================
