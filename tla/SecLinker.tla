------------------------------ MODULE SecLinker ------------------------------
(***************************************************************************)
(* sec_linker.py: the filings' companies and persons unified on a shared   *)
(* CIK, the filings and transactions sequenced, the violations named in    *)
(* them, and the codes they link to typed. G is the triples in, all the    *)
(* sources' together.                                                      *)
(***************************************************************************)
EXTENDS Sequencing

CONSTANTS
    SecKinds,         \* kinds of node in an SEC namespace
    ViolationWords    \* <<keyword, violation>>: SEC_VIOLATION_PATTERNS

FilingTypes == {"Form4", "Form10K", "Form10Q", "Form8K"}
TransactionTypes == {"NonDerivativeTransaction", "DerivativeTransaction"}

_detect_datasets(G) == TypedAny(G, FilingTypes) # {}
_filter_sec_triples(G) == {t \in G : KindOf(t[1]) \in SecKinds \/ KindOf(t[3]) \in SecKinds}

\* A date is given directly, or by a node of its own with a hasDateValue;
\* one without a day is left out.
_resolve_dates(S, es, p) ==
    LET links == {r \in Rel(S, p) : r[1] \in es}
        direct == {r \in links : KindOf(r[2]) = "date"}
        dated == direct \cup Via(links \ direct, Rel(S, "hasDateValue"))
    IN  {r \in dated : KindOf(r[2]) = "date" /\ r[2][4] > 0}

\* The CIKs that more than one entity states.
SharedCiks(S, p) ==
    {c \in ObjectsOf(S, p) : Cardinality({r \in Rel(S, p) : r[2] = c}) > 1}
\* For each of them one unified node, the same as each of the entities.
UnifyByCik(S, p, kind, class) ==
    LET shared == SharedCiks(S, p)
        Node(c) == <<kind, c[2]>>
    IN  {A(Node(c), class) : c \in shared}
        \cup {<<Node(c), "hasCik", c>> : c \in shared}
        \cup {<<Node(r[2]), "sameAs", r[1]>> : r \in {q \in Rel(S, p) : q[2] \in shared}}

_unify_company_entities(S) == UnifyByCik(S, "hasIssuerCik", "unifiedCompany", "UnifiedCompany")
_unify_person_entities(S) == UnifyByCik(S, "hasReportingOwnerCik", "unifiedPerson", "UnifiedPerson")

DateKey(d) == <<d[2], d[3], d[4]>>

\* The filings of some types, per owner or per issuer, by period of report.
FilingSequence(S, types, group) ==
    LET filings == TypedAny(S, types)
        grouped == {r \in Rel(S, group) : r[1] \in filings}
        dates == _resolve_dates(S, {r[1] : r \in grouped}, "hasPeriodOfReport")
    IN  sequence_to_triples(
            {Row(x[1][1], x[1][2], DateKey(x[2][2]) \o <<x[1][1][2]>>) :
                x \in {x \in grouped \X dates : x[1][1] = x[2][1]}},
            "precedes")
_link_ownership_filing_sequences(S) == FilingSequence(S, {"Form4"}, "hasReportingOwner")
_link_periodic_reporting_sequences(S) ==
    FilingSequence(S, FilingTypes \ {"Form4"}, "hasIssuer")

\* Per owner and class; on one day by the filing that reports it, then by its
\* index in that filing (the number a transaction's URI ends in), then the URI.
_link_transaction_sequences(S) ==
    LET class == {x \in Kind(S, "txn") \X TransactionTypes : x[1] \in Typed(S, x[2])}
        reported == Rel(S, "hasNonDerivativeTransaction") \cup Rel(S, "hasDerivativeTransaction")
        owners == Rel(S, "hasReportingOwner")
        owned == {<<x[1][1], x[1][2], x[2][1], x[3][2]>> : x \in
                     {x \in class \X reported \X owners :
                         x[2][2] = x[1][1] /\ x[3][1] = x[2][1]}}
        dates == _resolve_dates(S, {w[1] : w \in owned}, "hasTransactionDate")
    IN  sequence_to_triples(
            {Row(x[1][1], <<x[1][4], x[1][2]>>, DateKey(x[2][2]) \o <<x[1][3][2], x[1][1][3], x[1][1][2]>>) :
                x \in {x \in owned \X dates : x[1][1] = x[2][1]}},
            "precedes")
_link_temporal_sequences(S) ==
    _link_ownership_filing_sequences(S) \cup _link_periodic_reporting_sequences(S)
        \cup _link_transaction_sequences(S)

\* The keywords are sought in the URIs of the filings' own namespace and in
\* their labels. Two filings are linked only across namespaces: there is one.
_apply_violation_patterns(S) ==
    LET words == {r \in UriWords : KindOf(r[1]) \in SecKinds /\ r[1] \in {t[1] : t \in S}}
                 \cup UNION {{<<r[1], w>> : w \in r[2][2]} :
                                r \in {q \in Rel(S, "label") : KindOf(q[1]) \in SecKinds}}
        matched == Via(words, ViolationWords)
    IN  {A(<<"violation", m[2]>>, "ViolationType") : m \in matched}
        \cup {<<<<"violation", m[2]>>, "label", <<"text", {m[2]}>>>> : m \in matched}
        \cup {<<m[1], "hasViolationType", <<"violation", m[2]>>>> : m \in matched}

\* Only a linked code that is a URI with a local name becomes a node: its
\* number or name is read off the URI.
_type_linked_codes(S) ==
    LET Codes(p, k) == {x \in ObjectsOf(S, p) : KindOf(x) = k /\ x[2] # 0}
        Coded(xs, class, p) == {A(x, class) : x \in xs}
            \cup {<<x, p, <<"code", x[2]>>>> : x \in xs}
            \cup {<<x, "label", <<"text", {"code"}>>>> : x \in xs}
    IN  Coded(Codes("hasForm8KItem", "item"), "Form8KItem", "hasItemNumber")
        \cup Coded(Codes("hasConcept", "concept"), "XbrlConcept", "hasConceptName")

\* Every order is total, so one graph has one enrichment.
SecEnrichments(G) ==
    LET S == _filter_sec_triples(G)
        new == _unify_company_entities(S) \cup _unify_person_entities(S)
               \cup _link_temporal_sequences(S) \cup _apply_violation_patterns(S)
               \cup _type_linked_codes(S)
    IN  {IF _detect_datasets(G) THEN new \ G ELSE {}}
=============================================================================
