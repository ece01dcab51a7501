------------------------------- MODULE LinkPacks -------------------------------
(***************************************************************************)
(* The packs of backend/reasoning: the entities they find in what a        *)
(* document says, and how sure they are that two entities belong together. *)
(* A code is a pair <<prefix, rest>>: the packs compare codes as a whole   *)
(* or by their first characters. Scores are in thousandths, weights in     *)
(* hundredths. Of a text is kept what the packs look for in it; its words  *)
(* are a topic, and texts of one topic are as similar as WordScore and     *)
(* MeaningScore tell.                                                      *)
(***************************************************************************)
EXTENDS Integers, Sequences, FiniteSetsExt

CONSTANTS
    WordScore,      \* keyword score of two texts of one topic
    MeaningScore    \* cosine similarity of two texts of one topic

ASSUME PacksAssumption == WordScore \in 0 .. 1000 /\ MeaningScore \in 0 .. 1000

CommercialKinds == {"cost_item", "payment_cert", "variation_order", "invoice"}
ConstructionKinds == {"boq_item", "spec_section", "contract_clause", "drawing_ref"}

NoCode == <<>>

\* an entity whose metadata are empty; `says` is its text
Found(d, kind, says) ==
    [id |-> <<d, kind, says.num>>, kind |-> kind, document |-> d, section |-> says.num,
     codes |-> {}, amount |-> 0, day |-> 0, vos |-> {}, invoices |-> {},
     materials |-> {}, drawings |-> {}, says |-> says]

FirstAmount(says) == IF says.amounts = <<>> THEN 0 ELSE says.amounts[1]
LastAmount(says) == IF says.amounts = <<>> THEN 0 ELSE says.amounts[Len(says.amounts)]

CostItem(d, says) == [Found(d, "cost_item", says) EXCEPT !.amount = FirstAmount(says)]

PaymentCert(d, says) ==
    [Found(d, "payment_cert", says) EXCEPT !.amount = FirstAmount(says), !.day = says.day,
                                           !.vos = says.vos, !.invoices = says.invoices]

VariationOrder(d, says) ==
    [Found(d, "variation_order", says) EXCEPT !.amount = LastAmount(says), !.day = says.day,
                                              !.codes = says.codes]

Invoice(d, says) ==
    [Found(d, "invoice", says) EXCEPT !.amount = LastAmount(says), !.day = says.day,
                                      !.vos = says.vos]

\* the section of a BOQ item is the first CSI code of its description, if there is one
BoqItem(d, says) ==
    [Found(d, "boq_item", says) EXCEPT
        !.section = IF says.csi = <<>> THEN NoCode ELSE says.csi[1],
        !.codes = {says.csi[i] : i \in DOMAIN says.csi}, !.materials = says.materials]

\* an informal reference ("Spec 3.1: ...") has no list of drawings
SpecSection(d, says) ==
    [Found(d, "spec_section", says) EXCEPT
        !.materials = says.materials, !.drawings = IF says.loose THEN {} ELSE says.drawings]

ContractClause(d, says) == Found(d, "contract_clause", says)

DrawingRef(d, says) == Found(d, "drawing_ref", says)

EntityOf(d, kind, says) ==
    CASE kind = "cost_item" -> CostItem(d, says)
      [] kind = "payment_cert" -> PaymentCert(d, says)
      [] kind = "variation_order" -> VariationOrder(d, says)
      [] kind = "invoice" -> Invoice(d, says)
      [] kind = "boq_item" -> BoqItem(d, says)
      [] kind = "spec_section" -> SpecSection(d, says)
      [] kind = "contract_clause" -> ContractClause(d, says)
      [] kind = "drawing_ref" -> DrawingRef(d, says)

\* the patterns of the commercial pack, and the loose ones of the other, leave out what
\* the pack has in its cache
SkipsKnown(kind, says) == kind \in CommercialKinds \/ says.loose

-----------------------------------------------------------------------------
CommercialLinks ==
    {<<"cost_item", "payment_cert", "paid_by">>, <<"payment_cert", "cost_item", "pays_for">>,
     <<"cost_item", "variation_order", "varied_by">>, <<"variation_order", "cost_item", "varies">>,
     <<"cost_item", "invoice", "invoiced_by">>, <<"invoice", "cost_item", "invoices">>,
     <<"payment_cert", "variation_order", "references">>,
     <<"variation_order", "payment_cert", "referenced_by">>,
     <<"payment_cert", "invoice", "references">>, <<"invoice", "payment_cert", "referenced_by">>,
     <<"variation_order", "invoice", "invoiced_by">>, <<"invoice", "variation_order", "invoices">>}

ConstructionLinks ==
    {<<"boq_item", "spec_section", "specified_by">>, <<"spec_section", "boq_item", "specifies">>,
     <<"boq_item", "drawing_ref", "depicted_in">>, <<"drawing_ref", "boq_item", "depicts">>,
     <<"boq_item", "contract_clause", "complies_with">>, <<"contract_clause", "boq_item", "governs">>,
     <<"spec_section", "contract_clause", "complies_with">>,
     <<"contract_clause", "spec_section", "governs">>,
     <<"spec_section", "drawing_ref", "references">>,
     <<"drawing_ref", "spec_section", "referenced_by">>}

LinkTypes(s, t) ==
    {l \in CommercialLinks \cup ConstructionLinks : l[1] = s.kind /\ l[2] = t.kind}

\* inside one document only different sections are linked
ShouldLink(s, t) ==
    /\ s.id # t.id
    /\ s.document = t.document => s.section # t.section
    /\ LinkTypes(s, t) # {}

-----------------------------------------------------------------------------
Evidence(type, score, weight) == {[type |-> type, score |-> score, weight |-> weight]}
NoEvidence == {}

SameStart(A, B) == \E a \in A, b \in B : a[1] = b[1]
CodeScore(A, B) == IF A \cap B # {} THEN 1000 ELSE IF SameStart(A, B) THEN 700 ELSE 0
CodeEvidence(type, A, B, weight) ==
    IF CodeScore(A, B) = 0 THEN NoEvidence ELSE Evidence(type, CodeScore(A, B), weight)

\* the number of a payment, variation or invoice counts as a cost code in the source only;
\* codes are looked for in the text of an entity that has none otherwise
SourceCostCodes(s) == s.codes \cup {s.section}
TargetCostCodes(t) ==
    LET known == t.codes \cup (IF t.kind = "cost_item" THEN {t.section} ELSE {})
    IN IF known = {} THEN t.says.codes ELSE known

CostCodeMatch(s, t) == CodeEvidence("cost_code", SourceCostCodes(s), TargetCostCodes(t), 30)

Larger(a, b) == IF a > b THEN a ELSE b
Apart(a, b) == IF a > b THEN a - b ELSE b - a

\* within 5 percent of the larger amount
AmountMatch(s, t) ==
    LET apart == Apart(s.amount, t.amount)
        larger == Larger(s.amount, t.amount)
    IN IF s.amount = 0 \/ t.amount = 0 \/ apart * 100 > 5 * larger THEN NoEvidence
       ELSE Evidence("amount", 1000 - (apart * 6000) \div larger, 25)

RefersTo(s, t) ==
    \/ t.kind = "variation_order" /\ t.section \in s.vos
    \/ t.kind = "invoice" /\ t.section \in s.invoices

ReferenceMatch(s, t) ==
    IF RefersTo(s, t) \/ RefersTo(t, s) \/ s.vos \cap t.vos # {} \/ s.invoices \cap t.invoices # {}
    THEN Evidence("reference", 1000, 20) ELSE NoEvidence

\* within 30 days
DateProximity(s, t) ==
    IF s.day = 0 \/ t.day = 0 \/ Apart(s.day, t.day) > 30 THEN NoEvidence
    ELSE Evidence("date", 1000 - (Apart(s.day, t.day) * 500) \div 30, 15)

Words(s, t, least, weight) ==
    IF s.says.topic = t.says.topic /\ WordScore >= least THEN Evidence("keyword", WordScore, weight)
    ELSE NoEvidence

\* `meaning` gives the topic of the embedding of an entity, NoCode when it has none
Meaning(s, t, meaning, least, weight) ==
    IF /\ meaning[s.id] # NoCode /\ meaning[t.id] # NoCode
       /\ meaning[s.id] = meaning[t.id] /\ MeaningScore >= least
    THEN Evidence("semantic", MeaningScore, weight) ELSE NoEvidence

CommercialEvidence(s, t, meaning) ==
    CostCodeMatch(s, t) \cup AmountMatch(s, t) \cup ReferenceMatch(s, t) \cup DateProximity(s, t)
        \cup Words(s, t, 100, 25) \cup Meaning(s, t, meaning, 400, 50)

CsiCodes(e) == e.codes \cup (IF e.section = NoCode THEN {} ELSE {e.section})
CsiMatch(s, t) == CodeEvidence("csi_code", CsiCodes(s), CsiCodes(t), 35)

\* an entity without materials in its metadata has none in its text either, or is matched
\* with one that has them
MaterialMatch(s, t) ==
    LET common == s.materials \cap t.materials
        all == s.materials \cup t.materials
    IN IF common = {} THEN NoEvidence
       ELSE Evidence("material", (1000 * Cardinality(common)) \div Cardinality(all), 25)

\* drawing numbers are looked for in the text of an entity that has none otherwise
Drawings(e) ==
    LET known == e.drawings \cup (IF e.kind = "drawing_ref" THEN {e.section} ELSE {})
    IN IF known = {} THEN e.says.drawings ELSE known

DrawingReference(s, t) ==
    IF Drawings(s) \cap Drawings(t) = {} THEN NoEvidence ELSE Evidence("drawing", 1000, 20)

ConstructionEvidence(s, t, meaning) ==
    CsiMatch(s, t) \cup MaterialMatch(s, t) \cup DrawingReference(s, t)
        \cup Words(s, t, 150, 40) \cup Meaning(s, t, meaning, 500, 60)

-----------------------------------------------------------------------------
WeightedAverage(evidence) ==
    LET weight == MapThenSumSet(LAMBDA e : e.weight, evidence)
        sum == MapThenSumSet(LAMBDA e : e.score * e.weight, evidence)
    IN (2 * sum + weight) \div (2 * weight)

Capped(n) == IF n > 1000 THEN 1000 ELSE n
Boost(holds, by) == IF holds THEN by ELSE 0

CommercialConfidence(evidence) ==
    IF evidence = {} THEN 0
    ELSE Capped(WeightedAverage(evidence)
                + Boost(\E e \in evidence : e.type = "reference", 150)
                + Boost(\E e \in evidence : e.type = "amount" /\ e.score >= 950, 100))

ConstructionConfidence(evidence) ==
    IF evidence = {} THEN 0
    ELSE Capped(WeightedAverage(evidence)
                + Boost(\E e \in evidence : e.type = "csi_code", 100)
                + Boost(Cardinality(evidence) >= 3, 50))

Confidence(s, t, meaning) ==
    IF s.kind \in CommercialKinds THEN CommercialConfidence(CommercialEvidence(s, t, meaning))
    ELSE ConstructionConfidence(ConstructionEvidence(s, t, meaning))

\* match_entities of the pack that has the kinds of both
Matches(s, t, meaning) == ShouldLink(s, t) /\ Confidence(s, t, meaning) >= 750
==============================================================================
