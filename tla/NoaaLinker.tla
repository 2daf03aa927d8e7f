----------------------------- MODULE NoaaLinker ------------------------------
(***************************************************************************)
(* noaa_linker.py: alerts sequenced within a geocode, paired when they     *)
(* share one or an event, and linked when one raises the severity of the   *)
(* one before it. An alert has as many information blocks as languages,    *)
(* each with a time, an event, a severity and an urgency of its own.       *)
(***************************************************************************)
EXTENDS Sequencing

CONSTANTS
    EventCategories    \* <<event, category>>: NOAA_EVENT_PATTERNS

_noaa_triples(G) ==
    Only(G, {"hasInfo", "hasSentTime", "hasArea", "hasEvent", "hasSeverity",
             "hasUrgency", "hasGeocode", "hasFIPSCode", "hasSAMECode"})
    \cup {t \in G : t[2] = "a" /\ t[3] = <<"class", "WeatherAlert">>}

\* The alerts with what their information blocks say of p.
_build_alert_info(N) == {r \in Rel(N, "hasInfo") : r[1] \in Typed(N, "WeatherAlert")}
Says(N, p) == Via(_build_alert_info(N), Rel(N, p))

\* Not only of what is typed an alert.
_alert_geocodes(N) ==
    Via(Via(Via(Rel(N, "hasInfo"), Rel(N, "hasArea")), Rel(N, "hasGeocode")),
        Rel(N, "hasFIPSCode") \cup Rel(N, "hasSAMECode"))

NoaaSequences(N) ==
    sequence_to_triples(
        {Row(x[1][1], x[2][2], <<x[1][2][2], x[1][1][2]>>) : x \in
            {x \in Says(N, "hasSentTime") \X _alert_geocodes(N) : x[1][1] = x[2][1]}},
        "precedes")

\* Two alerts that share something, linked once, from the lesser name.
SharingPairs(R) ==
    {ab \in {r[1] : r \in R} \X {r[1] : r \in R} :
        ab[1][2] < ab[2][2] /\ \E r, q \in R : r[1] = ab[1] /\ q[1] = ab[2] /\ r[2] = q[2]}
_link_geographic_relationships(N) == Link(SharingPairs(_alert_geocodes(N)), "affectsSameRegion")
_link_event_relationships(N) == Link(SharingPairs(Says(N, "hasEvent")), "sameEventType")

\* A row per block: its time, a severity the hierarchy ranks, and its urgency,
\* 0 when it states none.
BlockRows(N) ==
    LET Of(b, p) == {r[2][2] : r \in {q \in Rel(N, p) : q[1] = b}}
        Urgency(b) == IF Of(b, "hasUrgency") = {} THEN {0} ELSE Of(b, "hasUrgency")
        Places(a) == {c[2] : c \in {x \in _alert_geocodes(N) : x[1] = a}}
        Said(ab) == Of(ab[2], "hasSentTime") \X Of(ab[2], "hasSeverity")
                    \X Urgency(ab[2]) \X Places(ab[1])
    IN  UNION {{[entity |-> ab[1], part |-> x[4], severity |-> x[2], urgency |-> x[3],
                 key |-> <<x[1], ab[1][2]>>] : x \in Said(ab)} :
               ab \in _build_alert_info(N)}
\* A plausible slip: whichever block the shuffle puts first speaks.
EscalatableAnyBlock(N) == BlockRows(N)
\* Of the blocks of one time the one of the highest severity comes first.
Escalatable(N) == {[r EXCEPT !.key = Append(@, 4 - r.severity)] : r \in BlockRows(N)}

\* Of rows with no ties. The next alert is more severe, or as severe and
\* more urgent.
Escalates(rows) ==
    {<<rq[1].entity, "escalatesTo", rq[2].entity>> : rq \in
        {x \in sequence_within_partitions(rows) :
            \/ x[2].severity > x[1].severity
            \/ x[2].severity = x[1].severity /\ x[2].urgency > x[1].urgency}}

_link_severity_escalations(N) == {Escalates(rows) : rows \in TieBreaks(Escalatable(N))}

_classify_event_categories(N) ==
    LET matched == Via(Says(N, "hasEvent"), EventCategories)
    IN  {<<m[1], p, <<"category", m[2]>>>> :
            m \in matched, p \in {"hasEventClassification", "eventOfCategory"}}

\* What one enrichment may add.
NoaaEnrichments(G) ==
    LET N == _noaa_triples(G)
        settled == NoaaSequences(N) \cup _link_geographic_relationships(N)
                   \cup _link_event_relationships(N) \cup _classify_event_categories(N)
    IN  IF _build_alert_info(N) = {} THEN {{}}
        ELSE {settled \cup new : new \in _link_severity_escalations(N)}
=============================================================================
