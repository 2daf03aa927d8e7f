--------------------------- MODULE TemporalUnifier ---------------------------
(***************************************************************************)
(* temporal_unifier.py and bls/temporal.py: the periods the graph names,   *)
(* those it dates, and the unified months, years, quarters and days they   *)
(* are the same as. A period is [uri, kind, name]; BLS's are nodes of the  *)
(* graph (<<"month", 7>>), a dated one is minted per source.               *)
(***************************************************************************)
EXTENDS Triples

CONSTANTS
    DatePredicates     \* <<predicate, source>>: the sources' date_predicates

PERIOD_GRAINS_FINEST_FIRST == <<"day", "month", "year">>

Period(uri, kind, name) == [uri |-> uri, kind |-> kind, name |-> name]
Minted(src, kind, name) == Period(<<"period", src, kind, name>>, kind, name)

\* Months and years wherever BLS points at one, quarters only where the
\* weekly earnings do.
collect_bls_months_years(G) ==
    {Period(t[3], KindOf(t[3]), <<t[3][2]>>) :
        t \in {u \in G : KindOf(u[3]) \in {"month", "year"}}}
collect_bls_quarters(G) ==
    {Period(x, "quarter", <<x[2]>>) : x \in {y \in ObjectsOf(G, "quarter") : KindOf(y) = "quarter"}}

\* The first date in the value: of an instant, <<"time", n, y, m, d>>, its own.
AsDate(x) == IF KindOf(x) = "time" THEN <<"date", x[3], x[4], x[5]>> ELSE x

\* <<subject, period>>. A date with no month, or no such month, places nothing;
\* one with no day places no day.
_collect_date_based_temporals(G, p, src) ==
    UNION {LET d == AsDate(r[2])
               dated == {Minted(src, "month", <<d[3]>>), Minted(src, "year", <<d[2]>>)}
                        \cup (IF d[4] > 0 THEN {Minted(src, "day", <<d[2], d[3], d[4]>>)} ELSE {})
           IN  {<<r[1], x>> : x \in IF d[3] \in 1..12 THEN dated ELSE {}} :
           r \in {q \in Rel(G, p) : KindOf(q[2]) \in {"date", "time"}}}
Dated(G) == UNION {_collect_date_based_temporals(G, ps[1], ps[2]) : ps \in DatePredicates}

GrainRank(kind) == CHOOSE i \in 1..3 : PERIOD_GRAINS_FINEST_FIRST[i] = kind
\* A plausible slip: a date links the finest period it names, whatever the
\* entity's other dates name.
FinestGrainOfDate(dated) ==
    {<<d[1], "observedInPeriod", d[2].uri>> : d \in
        {x \in dated : \/ x[2].kind = "day"
                       \/ /\ x[2].kind = "month"
                          /\ \A y \in dated : y[1] = x[1] /\ y[2].kind = "day"
                                => y[2].name[2] # x[2].name[1]}}
\* Over the dates of every source at once.
_finest_grain_links(dated) ==
    {<<d[1], "observedInPeriod", d[2].uri>> : d \in
        {x \in dated : \A y \in dated :
            y[1] = x[1] => GrainRank(x[2].kind) <= GrainRank(y[2].kind)}}

Label(x, name) == <<x, "label", <<"name", name>>>>
Unified(kind, name) == <<"unified", kind, name>>
UnifiedClass(kind) ==
    CASE kind = "month" -> "UnifiedMonth" [] kind = "year" -> "UnifiedYear"
      [] kind = "quarter" -> "UnifiedQuarter" [] kind = "day" -> "UnifiedDay"
SourceClass(kind) ==
    CASE kind = "month" -> "SourceMonth" [] kind = "year" -> "SourceYear"
      [] kind = "quarter" -> "SourceQuarter" [] kind = "day" -> "SourceDay"

_create_source_temporal_types(periods) ==
    {A(x.uri, SourceClass(x.kind)) : x \in periods} \cup {Label(x.uri, x.name) : x \in periods}

\* One unified period a name, the same as every source's.
Unify(periods, kind) ==
    UNION {{A(Unified(kind, x.name), UnifiedClass(kind)), Label(Unified(kind, x.name), x.name),
            <<Unified(kind, x.name), "sameAs", x.uri>>} :
           x \in {y \in periods : y.kind = kind}}
_create_unified_months(periods) == Unify(periods, "month")
_create_unified_years(periods) == Unify(periods, "year")

\* A quarter covers its three months, whether or not the graph names them.
_create_unified_quarters(periods) ==
    Unify(periods, "quarter")
    \cup UNION {{<<Unified("quarter", x.name), "coversMonth", Unified("month", <<m>>)>> :
                    m \in (3 * x.name[1] - 2)..(3 * x.name[1])} :
                x \in {y \in periods : y.kind = "quarter"}}
\* A month covers its days of every year.
_create_unified_days(periods) ==
    Unify(periods, "day")
    \cup {<<Unified("month", <<x.name[2]>>), "coversDay", Unified("day", x.name)>> :
              x \in {y \in periods : y.kind = "day"}}

TemporalEnrich(G) ==
    LET dated == Dated(G)
        periods == collect_bls_months_years(G) \cup collect_bls_quarters(G)
                   \cup {d[2] : d \in dated}
    IN  _create_source_temporal_types(periods) \cup _finest_grain_links(dated)
        \cup _create_unified_months(periods) \cup _create_unified_years(periods)
        \cup _create_unified_quarters(periods) \cup _create_unified_days(periods)
=============================================================================
