----------------------------- MODULE CrossSource -----------------------------
(***************************************************************************)
(* cross_source_linker.py with each source's cross_source.py: the hubs the *)
(* sources meet at (companies by CIK, sectors, regions), what they state   *)
(* about each other, and the measurement types they share. G is the graph  *)
(* after the intra-source and the temporal phases; nothing a step adds is  *)
(* seen by another.                                                        *)
(***************************************************************************)
EXTENDS MarketLinker

CONSTANTS
    SourceKinds,       \* source -> the kinds of node in its entity namespaces
    KeywordSources,    \* the sources whose sector_keywords is set
    SectorKeywords,    \* <<word, sector>>, of every dataset's patterns
    SIC_DIVISIONS,     \* <<low, high, sector>> over the major groups
    EQUITY_TO_ECONOMIC_SECTORS,  \* <<equity sector, economic sector>>
    US_STATES,         \* [name, abbr, fips, slug, census], all but fips words
    CENSUS_REGIONS,    \* [name, slug]
    MeasurementClasses \* <<class, unified class, source>>

_detect_sources(G) ==
    {s \in DOMAIN SourceKinds : \E t \in G : KindOf(t[1]) \in SourceKinds[s]}

Company(c) == <<"unifiedCompany", c[2]>>
Sector(s) == <<"sector", s>>
Region(state) == <<"region", state.name>>
CensusRegion(name) == <<"censusRegion", name>>

\* ------------------------------------------------------------- companies
issuer_ciks(G) == Rel(G, "hasIssuerCik")
symbol_bearers(G) ==
    {<<r[1], equity_symbol(r[2])>> : r \in
        {q \in Rel(G, "symbol") : q[1] \in TypedAny(G, {"EquitySnapshot", "OptionSnapshot"})}}
cusip_symbols(G) ==
    {<<x[1][2], equity_symbol(x[2][2])>> : x \in
        {x \in Rel(G, "cusip") \X Rel(G, "symbol") :
            x[1][1] = x[2][1] /\ x[1][1] \in Typed(G, "EquitySnapshot")}}
holding_cusips(G) == {r \in Rel(G, "hasCusip") : r[1] \in Typed(G, "InstitutionalHolding")}

\* <<symbol, cik, priority>>: what a filing states comes before the constituents'.
SymbolPairings(G, srcs, tickers) ==
    LET stated == UNION {{<<equity_symbol(r[2]), q[2], 0>> :
                             q \in {x \in issuer_ciks(G) : x[1] = r[1]}} :
                         r \in Rel(G, "hasIssuerTradingSymbol")}
    IN  (IF "sec" \in srcs THEN stated ELSE {})
        \cup (IF "market" \in srcs THEN {<<t[1], t[2], 1>> : t \in tickers} ELSE {})
\* A plausible slip: the lowest CIK, whoever states it.
LowestCiks(G, srcs, tickers) ==
    LET pairs == SymbolPairings(G, srcs, tickers)
    IN  {<<p[1], p[2]>> : p \in {q \in pairs : \A r \in pairs : r[1] = q[1] => q[2][2] <= r[2][2]}}
\* One CIK a symbol: the lowest priority, then the lowest CIK.
SymbolCiks(G, srcs, tickers) ==
    LET pairs == SymbolPairings(G, srcs, tickers)
    IN  {<<p[1], p[2]>> : p \in {q \in pairs : \A r \in pairs :
            r[1] = q[1] => ~Before(<<r[3], r[2][2]>>, <<q[3], q[2][2]>>)}}

\* <<entity, cik, symbol>>: by ticker, by the CIK stated, and by the CUSIP of
\* a holding; a CUSIP quoted under two symbols goes by the lesser.
NoSymbol == <<"sym", 0>>
References(G, srcs, tickers) ==
    LET ciks == SymbolCiks(G, srcs, tickers)
        Under(R) == {<<x[1][1], x[2][2], x[1][2]>> : x \in {x \in R \X ciks : x[1][2] = x[2][1]}}
        named == cusip_symbols(G)
        lesser == {n \in named : \A q \in named : q[1] = n[1] => n[2][2] <= q[2][2]}
    IN  (IF "market" \in srcs THEN Under(symbol_bearers(G)) ELSE {})
        \cup (IF "sec" \in srcs THEN {<<r[1], r[2], NoSymbol>> : r \in issuer_ciks(G)} ELSE {})
        \cup (IF {"sec", "market"} \subseteq srcs THEN Under(Via(holding_cusips(G), lesser)) ELSE {})
CompanyCiks(G, srcs, tickers) == {r[2] : r \in References(G, srcs, tickers)}

_link_by_company(G, srcs, tickers) ==
    UNION {{A(Company(r[2]), "UnifiedCompany"), <<Company(r[2]), "hasCik", r[2]>>,
            <<r[1], "refersToCompany", Company(r[2])>>}
           \cup (IF r[3] = NoSymbol THEN {} ELSE {<<Company(r[2]), "ticker", r[3]>>}) :
           r \in References(G, srcs, tickers)}

link_by_sub_industry(G, srcs, tickers, subs) ==
    LET members == {m \in Via(Flip(SymbolCiks(G, srcs, tickers)), subs) :
                        m[1] \in CompanyCiks(G, srcs, tickers)}
    IN  {<<Company(mn[1][1]), "sharesSubIndustryWith", Company(mn[2][1])>> : mn \in
            {x \in members \X members : x[1][2] = x[2][2] /\ x[1][1][2] < x[2][1][2]}}

\* --------------------------------------------------------------- sectors
\* A keyword anywhere in a name, of the sources that take part and of nodes
\* of no source; not of the vocabulary's own.
_link_by_sector(G) ==
    LET out == UNION {SourceKinds[s] : s \in DOMAIN SourceKinds \ KeywordSources}
        named == {t[1] : t \in {u \in G : KindOf(u[1]) \notin out
                                   \cup {"sector", "equitySector", "moneyness"}}}
        matched == {m \in Via(UriWords, SectorKeywords) : m[1] \in named}
    IN  {A(Sector(m[2]), "EconomicSector") : m \in matched}
        \cup {<<m[1], "belongsToSector", Sector(m[2])>> : m \in matched}
\* The division of a filing's SIC code, for its issuer's company. A code longer
\* than four digits is not one; a shorter one has lost its leading zeros.
sec_sector_keys(G) ==
    LET MajorGroup(x) == x[2] \div 100
        filed == {r \in Rel(G, "hasSic") : r[2][2] < 10000}
        placed == UNION {{<<c, d[3]>> : c \in {q[2] : q \in {y \in issuer_ciks(G) :
                              <<r[1], "hasIssuer", y[1]>> \in G}},
                              d \in {e \in SIC_DIVISIONS : MajorGroup(r[2]) \in e[1]..e[2]}} :
                         r \in filed}
    IN  {<<Company(x[1]), "belongsToSector", Sector(x[2])>> : x \in placed}
        \cup {A(Sector(x[2]), "EconomicSector") : x \in placed}
market_sector_keys(G) ==
    LET matched == {m \in EQUITY_TO_ECONOMIC_SECTORS :
                       <<"equitySector", m[1]>> \in Typed(G, "EquitySector")}
    IN  {A(Sector(m[2]), "EconomicSector") : m \in matched}
        \cup {<<<<"equitySector", m[1]>>, "relatedToEconomicSector", Sector(m[2])>> : m \in matched}
link_indicators_to_equity_sectors(G) ==
    LET bls == {r \in Rel(G, "belongsToSector") : KindOf(r[1]) \in SourceKinds["bls"]}
        held == {r[2] : r \in {q \in Rel(G, "inEquitySector") : KindOf(q[1]) \in SourceKinds["market"]}}
    IN  {<<x[1][1], "leadsTo", <<"equitySector", x[2][1]>>>> : x \in
            {x \in bls \X EQUITY_TO_ECONOMIC_SECTORS :
                x[1][2] = Sector(x[2][2]) /\ <<"equitySector", x[2][1]>> \in held}}

\* --------------------------------------------------------------- regions
\* The state an area's words name, in full or after a comma, and the one of
\* the last two digits of its geocode's state.
_alert_state_links(G) ==
    LET areas == Flip(Via(Rel(G, "hasInfo"), Rel(G, "hasArea")))
        named == {<<x[1][2], x[3]>> : x \in
                     {x \in areas \X Rel(G, "hasAreaDescription") \X US_STATES :
                         x[1][1] = x[2][1] /\ {x[3].name, x[3].abbr} \cap x[2][2][2] # {}}}
        coded == {<<x[1][2], x[3]>> : x \in
                     {x \in areas \X Via(Rel(G, "hasGeocode"), Rel(G, "hasStateFIPS")) \X US_STATES :
                         x[1][1] = x[2][1] /\ x[2][2][2] % 100 = x[3].fips}}
    IN  {<<l[1], "affectsRegion", Region(l[2])>> : l \in named \cup coded}
_local_area_state_links(G) ==
    {<<es[1], "hasRegion", Region(es[2])>> : es \in
        {x \in Kind(G, "laus") \X US_STATES : x[1] \in {t[1] : t \in G} /\ <<x[1], x[2].slug>> \in UriWords}}
_census_region_entities(G) ==
    {<<er[1], er[2].name>> : er \in
        {x \in Typed(G, "JoltsRegion") \X CENSUS_REGIONS : <<x[1], x[2].slug>> \in UriWords}}

\* The census regions the linked states are in, and those BLS has of its own.
_link_census_regions(linked, own) ==
    LET within == {s \in US_STATES : Region(s) \in linked}
        reached == {s.census : s \in within} \cup {o[2] : o \in own}
    IN  {A(CensusRegion(n), "CensusRegion") : n \in reached}
        \cup {<<Region(s), "withinCensusRegion", CensusRegion(s.census)>> : s \in within}
        \cup {<<CensusRegion(o[2]), "sameAs", o[1]>> : o \in own}
_state_links(G, srcs) ==
    (IF "noaa" \in srcs THEN _alert_state_links(G) ELSE {})
    \cup (IF "bls" \in srcs THEN _local_area_state_links(G) ELSE {})
_own_census_regions(G, srcs) == IF "bls" \in srcs THEN _census_region_entities(G) ELSE {}
\* A plausible slip: every state of the table is a region.
EveryStateIsARegion(G, srcs) ==
    LET links == _state_links(G, srcs)
    IN  links \cup {A(Region(s), "GeographicRegion") : s \in US_STATES}
        \cup _link_census_regions({l[3] : l \in links}, _own_census_regions(G, srcs))
\* Only the regions something points at. The census regions BLS has of its own
\* are minted whether or not a state is linked.
_link_by_geography(G, srcs) ==
    LET links == _state_links(G, srcs)
        linked == {l[3] : l \in links}
    IN  links \cup {A(r, "GeographicRegion") : r \in linked}
        \cup _link_census_regions(linked, _own_census_regions(G, srcs))

_align_measurement_types(G, srcs) ==
    UNION {{A(e, m[2]) : e \in Typed(G, m[1])} : m \in {x \in MeasurementClasses : x[3] \in srcs}}

CrossEnrich(G, tickers, subs) ==
    LET srcs == _detect_sources(G)
        new == _link_by_sector(G)
               \cup (IF "sec" \in srcs THEN sec_sector_keys(G) ELSE {})
               \cup (IF "market" \in srcs THEN market_sector_keys(G) ELSE {})
               \cup _link_by_company(G, srcs, tickers) \cup _link_by_geography(G, srcs)
               \cup (IF {"bls", "market"} \subseteq srcs THEN link_indicators_to_equity_sectors(G) ELSE {})
               \cup (IF "market" \in srcs THEN link_by_sub_industry(G, srcs, tickers, subs) ELSE {})
               \cup _align_measurement_types(G, srcs)
    IN  IF Cardinality(srcs) < 2 THEN {} ELSE new \ G
=============================================================================
