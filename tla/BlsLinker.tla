------------------------------ MODULE BlsLinker ------------------------------
(***************************************************************************)
(* bls_linker.py and base_enricher.py: the measurements of a category      *)
(* sequenced by month or by quarter, the series that name a sector, and    *)
(* the pairs of series a known correlation names. The datasets (cpi, ppi,  *)
(* jolts, ...) differ only in their tables.                                *)
(***************************************************************************)
EXTENDS Sequencing

CONSTANTS
    BlsKinds,            \* kind of node -> its dataset's name
    MEASUREMENT_TYPES,   \* <<class, category, "month" | "quarter", dataset>>
    SectorWords,         \* <<dataset, word, sector>>: BLS_SECTOR_PATTERNS
    KNOWN_CORRELATIONS   \* <<dataset, word, relation, dataset, word>>

_filter_bls_triples(G) == {t \in G : KindOf(t[1]) \in DOMAIN BlsKinds}
BlsDatasets(B) == {BlsKinds[KindOf(t[1])] : t \in B}

\* A measurement takes a row for each category, period name and year it
\* states. The order is by period alone: two of one period tie.
MeasurementRows(B, m) ==
    LET entities == Typed(B, m[1])
    IN  {[entity |-> x[1][1], part |-> <<m[1], x[1][2]>>, key |-> <<x[3][2][2], x[2][2][2]>>] :
            x \in {x \in Rel(B, m[2]) \X Rel(B, m[3]) \X Rel(B, "year") :
                /\ x[1][1] \in entities /\ x[2][1] = x[1][1] /\ x[3][1] = x[1][1]
                /\ KindOf(x[2][2]) = m[3]}}
_link_single_measurement_type(B, m) ==
    {sequence_to_triples(rows, "precedes") : rows \in TieBreaks(MeasurementRows(B, m))}

\* Each measurement type of the datasets, one possible order of each.
link_temporal_sequences(B, datasets) ==
    LET types == {m \in MEASUREMENT_TYPES : m[4] \in datasets}
        One(m) == _link_single_measurement_type(B, m)
        pick == {f \in [types -> UNION {One(m) : m \in types}] : \A m \in types : f[m] \in One(m)}
    IN  {UNION {f[m] : m \in types} : f \in pick}
\* A dataset whose sequencing raises is left out, and the others go on.
BlsSequences(B) ==
    UNION {link_temporal_sequences(B, datasets) : datasets \in SUBSET BlsDatasets(B)}

\* A series whose name holds a word of its own dataset's keywords.
Series(B) == {t[1] : t \in {u \in B : Len(u[1]) = 3 /\ u[1][3] = "Entity"}}
Naming(B, d, w) == {e \in Series(B) : BlsKinds[KindOf(e)] = d /\ <<e, w>> \in UriWords}
_apply_sector_patterns(B) ==
    LET matched == UNION {{<<e, k[3]>> : e \in Naming(B, k[1], k[2])} : k \in SectorWords}
    IN  {A(<<"sector", s[2]>>, "EconomicSector") : s \in matched}
        \cup {<<<<"sector", s[2]>>, "label", <<"text", {}>>>> : s \in matched}
        \cup {<<s[1], "belongsToSector", <<"sector", s[2]>>>> : s \in matched}

\* Every series of the one with every series of the other: a series that
\* both patterns name is linked to itself.
_apply_known_correlations(B) ==
    UNION {{<<a, k[3], b>> : a \in Naming(B, k[1], k[2]), b \in Naming(B, k[4], k[5])} :
              k \in KNOWN_CORRELATIONS}

BlsEnrichments(G) ==
    LET B == _filter_bls_triples(G)
        settled == _apply_sector_patterns(B) \cup _apply_known_correlations(B)
    IN  IF B = {} THEN {{}} ELSE {(settled \cup seqs) \ G : seqs \in BlsSequences(B)}
=============================================================================
