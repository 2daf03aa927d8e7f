------------------------------ MODULE JobInputs ------------------------------
(***************************************************************************)
(* graph/config.py, loading.py and turtle.py with sources/: what a graph   *)
(* job is told, what it refuses before Spark starts, and the triples it    *)
(* loads. A path is [fragments, stems, day, feed, mirror, columns, docs]:  *)
(* the sources whose fragment and whose name it carries, the day in it (0  *)
(* when none), its SEC feed, whether the staged copy of it is there, the   *)
(* columns of its files, and its documents. A document is [parses, rows],  *)
(* a row [t, datatype]. An identifier as the filings spell it, not yet     *)
(* padded, is <<"raw", kind, n>>.                                          *)
(***************************************************************************)
EXTENDS OntologyMapper

CONSTANTS
    SEC_HANDLED_FEEDS

MODES == {"full", "enrichment_only", "parse_only", "pyg_only"}
Reading(settings) == settings.mode # "pyg_only"

\* A fragment decides; a name in the path only where no fragment does.
specs_for_path(path) == IF path.fragments # {} THEN path.fragments ELSE path.stems
match_path(path) == CHOOSE s \in specs_for_path(path) : TRUE
Matches(path) == Cardinality(specs_for_path(path)) = 1
pick(paths) == {match_path(p) : p \in paths}

\* The SEC partition holds feeds that are not RDF.
assert_sec_paths_name_the_handled_feed(paths) ==
    \A p \in paths : match_path(p) = "sec" => p.feed \in SEC_HANDLED_FEEDS

days_in_source_paths(paths) == {p.day : p \in paths} \ {0}
source_data_day(paths) ==
    LET days == days_in_source_paths(paths)
    IN  IF Cardinality(days) = 1 THEN CHOOSE d \in days : TRUE ELSE 0
DayAgrees(paths, given) ==
    given = 0 \/ days_in_source_paths(paths) = {} \/ given \in days_in_source_paths(paths)
resolve_source_data_day(paths, given) == IF given = 0 THEN source_data_day(paths) ELSE given

\* What dataset.json records, or what the run was given where it records none.
DaysConflict(recorded, given) == recorded # 0 /\ given # 0 /\ given # recorded
resolve_pyg_only_day(recorded, given) == IF recorded # 0 THEN recorded ELSE given

_assert_staged_mirror_present(paths) == \A p \in paths : p.mirror = "whole"

\* JobConfig: what ends the job before it has a session.
JobConfigRefuses(settings) ==
    \/ ~DayAgrees(settings.paths, settings.given)
    \/ Reading(settings) /\ \/ settings.paths = {}
                            \/ \E p \in settings.paths : ~Matches(p)
                            \/ ~assert_sec_paths_name_the_handled_feed(settings.paths)
                            \/ settings.staged /\ ~_assert_staged_mirror_present(settings.paths)
JobConfig(settings) ==
    [f \in DOMAIN settings \cup {"sources", "day"} |->
        CASE f = "sources" -> IF Reading(settings) THEN pick(settings.paths) ELSE {}
          [] f = "day" -> resolve_source_data_day(settings.paths, settings.given)
          [] f = "s3_key" -> IF settings.archive /\ settings.s3_key = << >>
                             THEN <<settings.period, settings.name>> ELSE settings.s3_key
          [] OTHER -> settings[f]]

\* ------------------------------------------------------------------ reading
TURTLE_COLUMN_CANDIDATES == <<"triples", "rdf_turtle">>
resolve_turtle_column(columns, turtle_column) ==
    IF turtle_column # "" THEN {turtle_column} \cap columns
    ELSE IF TURTLE_COLUMN_CANDIDATES[1] \in columns THEN {TURTLE_COLUMN_CANDIDATES[1]}
    ELSE {TURTLE_COLUMN_CANDIDATES[2]} \cap columns

\* A document that does not parse is left out, all of it.
turtle_rows_or_skip(doc) == IF doc.parses THEN doc.rows ELSE {}

\* Identifiers padded to their width: company and owner URIs wherever they
\* are, numbers and codes under the predicates that hold them.
CIK_KEYED_KINDS == {"issuer", "owner"}
PADDED_IDENTIFIERS ==
    {<<"hasIssuerCik", "cik">>, <<"hasReportingOwnerCik", "cik">>,
     <<"hasCusip", "cusip">>, <<"hasRptOwnerZipCode", "zip">>}
_canonical_cik_uri(x) ==
    IF KindOf(x) = "raw" /\ x[2] \in CIK_KEYED_KINDS THEN <<x[2], x[3]>> ELSE x
_canonical_identifier_literal(p, x) ==
    IF KindOf(x) = "raw" /\ <<p, x[2]>> \in PADDED_IDENTIFIERS THEN <<x[2], x[3]>>
    ELSE _canonical_cik_uri(x)
canonicalize_source_triples(rows, source) ==
    IF source # "sec" THEN rows
    ELSE {[r EXCEPT !.t = <<_canonical_cik_uri(@[1]), @[2],
                            _canonical_identifier_literal(@[2], @[3])>>] : r \in rows}

\* A marker triple for each datatype a predicate's literals declare.
literal_datatype_observations(rows) ==
    {<<P(r.t[2]), "observedLiteralDatatype", C(r.datatype)>> :
        r \in {q \in rows : q.datatype # ""}}

ColumnsAreThere(settings) ==
    \A p \in settings.paths : resolve_turtle_column(p.columns, settings.turtle_column) # {}
load_source_triples(settings) ==
    LET rows == UNION {canonicalize_source_triples(
                           UNION {turtle_rows_or_skip(d) : d \in p.docs}, match_path(p)) :
                       p \in settings.paths}
    IN  {r.t : r \in rows} \cup literal_datatype_observations(rows)
=============================================================================
