----------------------------- MODULE MCGraphJob ------------------------------
(* GraphJob on small days: single jobs over each mix of sources, and up to   *)
(* three jobs in one work directory over a day with one filing.              *)
EXTENDS GraphJob, TLC

\* --------------------------------------------------------------- the tables
SecNodes == {"filing", "txn", "owner", "issuer", "item", "concept", "fact", "holding"}
KindsOfSources == [sec |-> SecNodes, bls |-> {"cpi", "jolts", "laus"},
                   market |-> {"quote"}, noaa |-> {"alert", "info", "area", "geocode"}]
KindsOfBls == [cpi |-> "cpi", jolts |-> "jolts", laus |-> "laus"]
Keywords == {"sec", "bls", "market"}
Violations == {<<"bribe", "Corruption">>}
EventTypes == {<<"flood", "Water">>}
Measurements == {<<"CpiMeasurement", "category", "month", "cpi">>,
                 <<"JoltsMeasurement", "category", "month", "jolts">>}
BlsSectors == {<<"cpi", "energy", "Energy">>, <<"jolts", "energy", "Energy">>}
Correlated == {<<"cpi", "energy", "leads", "jolts", "energy">>}
MarketSectors == {<<<<"sym", 1>>, "Oil">>}
AllSectors == {<<"energy", "Energy">>}
Divisions == {<<20, 39, "Manufacturing">>, <<13, 13, "Energy">>}
EquityToEconomic == {<<"Oil", "Energy">>}
States == {[name |-> "Ohio", abbr |-> "OH", fips |-> 39, slug |-> "ohio", census |-> "Midwest"],
           [name |-> "Texas", abbr |-> "TX", fips |-> 48, slug |-> "texas", census |-> "South"]}
Censuses == {[name |-> "Midwest", slug |-> "midwest"], [name |-> "South", slug |-> "south"]}
Aligned == {<<"CpiMeasurement", "Measurement", "bls">>}
DatedBy == {<<"hasPeriodOfReport", "sec">>, <<"filedOn", "sec">>, <<"periodEnd", "sec">>,
            <<"captureTime", "market">>, <<"hasSentTime", "noaa">>}
Words == {<<<<"cpi", 9, "Entity">>, "energy">>, <<<<"jolts", 9, "Entity">>, "energy">>,
          <<<<"filing", 4>>, "bribe">>, <<<<"laus", 1>>, "ohio">>, <<<<"jolts", 5>>, "midwest">>,
          <<<<"quote", 3>>, "energy">>}

Mappings == {<<"Form10Q", "Report">>, <<"Form8K", "Report">>, <<"EquitySnapshot", "Quote">>}
Folds == {<<"hasPeriodOfReport", "unifiedDate">>, <<"filedOn", "unifiedDate">>}
Local == [Form8K |-> <<"sec", <<"Form8K">>>>, Form10Q |-> <<"sec", <<"Form10Q">>>>,
          Form4 |-> <<"sec", <<"Form4">>>>,
          NonDerivativeTransaction |-> <<"sec", <<"Non", "Derivative", "Transaction">>>>,
          DerivativeTransaction |-> <<"sec", <<"Derivative", "Transaction">>>>]
Schema == {"a", "label", "prefLabel", "sameAs", "subClassOf", "equivalentClass"}
Pins == <<"Form4", "CompanyFact">>
MetaNames == {"Class"}
NoEdge == {"a", "label", "prefLabel"}
ClassNames ==
    <<"CensusRegion", "Class", "CompanyFact", "CpiMeasurement", "DerivativeTransaction",
      "EconomicSector", "EquitySector", "EquitySnapshot", "Form10K", "Form10Q", "Form4",
      "Form8K", "Form8KItem", "GeographicRegion", "InstitutionalHolding",
      "JoltsMeasurement", "JoltsRegion", "Measurement", "Moneyness",
      "NonDerivativeTransaction", "Odd", "OptionSnapshot", "SourceDay", "SourceMonth",
      "SourceQuarter", "SourceYear", "UnifiedCompany", "UnifiedDay", "UnifiedMonth",
      "UnifiedPerson", "UnifiedQuarter", "UnifiedYear", "ViolationType", "WeatherAlert",
      "XbrlConcept">>
Ranks == [c \in {ClassNames[i] : i \in 1..Len(ClassNames)} |-> CHOOSE i \in 1..Len(ClassNames) : ClassNames[i] = c]
Unknown == {"Odd", "oddLink"}
Values == {"text", "num", "date", "time", "cik", "cusip", "sym", "occ", "sic", "fips", "code",
           "name", "zip"}
Feeds == {"filings"}

\* ------------------------------------------------------------------ the data
Row0(s, p, o) == [t |-> <<s, p, o>>, datatype |-> ""]
RowD(s, p, o, d) == [t |-> <<s, p, o>>, datatype |-> d]
Is(s, c) == Row0(s, "a", <<"class", c>>)
On(y, m, d) == <<"date", y, m, d>>
At4(n, d) == <<"time", n, 26, 7, d>>
F(n) == <<"filing", n>>
Owner == <<"raw", "owner", 1>>
Issuer(n) == <<"raw", "issuer", n>>
Quote(n) == <<"quote", n>>

\* Form 4s of one owner, one of them dated twice and one by a node; their
\* transactions, two on one day; an 8-K and a 10-Q of two issuers of one CIK;
\* figures dated alone, with a filing, and on a day a quote has too; a filing
\* dated in a month there is not.
SecRows ==
    {Is(F(n), "Form4") : n \in 1..3} \cup {Row0(F(n), "hasReportingOwner", Owner) : n \in 1..3}
    \cup {RowD(F(1), "hasPeriodOfReport", On(26, 7, 1), "xsd:date"),
          Row0(F(1), "hasPeriodOfReport", On(26, 7, 3)),
          Row0(F(2), "hasPeriodOfReport", On(26, 7, 2)),
          Row0(F(3), "hasPeriodOfReport", <<"owner", 7>>),
          Row0(<<"owner", 7>>, "hasDateValue", On(26, 7, 2)),
          Row0(Owner, "hasReportingOwnerCik", <<"raw", "cik", 9>>),
          Row0(F(1), "hasNonDerivativeTransaction", <<"txn", 1, 1>>),
          Row0(F(1), "hasNonDerivativeTransaction", <<"txn", 2, 2>>),
          Row0(F(2), "hasNonDerivativeTransaction", <<"txn", 3, 1>>),
          Row0(F(2), "hasDerivativeTransaction", <<"txn", 4, 1>>),
          Is(<<"txn", 4, 1>>, "DerivativeTransaction"),
          Is(F(4), "Form8K"), Is(F(5), "Form10Q"), Is(F(6), "Form10Q"),
          Row0(F(4), "hasForm8KItem", <<"item", 5>>),
          Row0(F(4), "hasSic", <<"sic", 1311>>),
          Row0(F(5), "hasPeriodOfReport", On(26, 6, 0)),
          Row0(F(5), "filedOn", On(26, 7, 3)), Row0(F(6), "hasPeriodOfReport", On(26, 6, 30)),
          Row0(F(4), "hasPeriodOfReport", On(26, 7, 3)), Row0(F(6), "filedOn", On(26, 13, 9))}
    \cup {Row0(F(n), "hasIssuer", Issuer(1)) : n \in 4..6}
    \cup {Row0(Issuer(n), "hasIssuerCik", <<"raw", "cik", 7>>) : n \in 1..2}
    \cup {Is(<<"txn", n, k>>, "NonDerivativeTransaction") : <<n, k>> \in {<<1, 1>>, <<2, 2>>, <<3, 1>>}}
    \cup {Row0(<<"txn", n, k>>, "hasTransactionDate", On(26, 7, 1)) :
              <<n, k>> \in {<<1, 1>>, <<2, 2>>, <<3, 1>>}}
    \cup {Is(<<"fact", n>>, "CompanyFact") : n \in 1..3}
    \cup {Row0(<<"fact", 1>>, "filedOn", On(26, 7, 9)), Row0(<<"fact", 2>>, "filedOn", On(26, 7, 3)),
          Row0(<<"fact", 3>>, "filedOn", On(26, 7, 4)), Row0(<<"fact", 1>>, "hasValue", <<"num", 5>>),
          Row0(Issuer(1), "hasIssuerTradingSymbol", <<"sym", 1>>),
          Is(<<"holding", 1>>, "InstitutionalHolding"),
          Row0(<<"holding", 1>>, "hasCusip", <<"raw", "cusip", 3>>)}

\* Two captures of a stock, its options, and a stock no filing names.
Option(n, right, strike) ==
    {Is(Quote(n), "OptionSnapshot"), Row0(Quote(n), "symbol", <<"occ", 1, 8, right, strike>>),
     Row0(Quote(n), "captureTime", At4(1, 4)), Row0(Quote(n), "strikePrice", <<"num", strike>>),
     Row0(Quote(n), "contractType", <<"right", right>>),
     Row0(Quote(n), "underlyingPrice", <<"num", 100>>)}
Equity(n, sym, at) ==
    {Is(Quote(n), "EquitySnapshot"), Row0(Quote(n), "symbol", <<"sym", sym>>),
     Row0(Quote(n), "captureTime", at), Row0(Quote(n), "lastPrice", <<"num", 100>>)}
MarketRows ==
    Equity(1, 1, At4(1, 4)) \cup Equity(2, 1, At4(2, 4)) \cup Equity(3, 2, At4(1, 4))
    \cup Option(4, "C", 100) \cup Option(5, "P", 100) \cup Option(6, "CALL", 110)
    \cup Option(7, "P", 90) \cup {Row0(Quote(1), "cusip", <<"cusip", 3>>)}

\* Three alerts over two zones, one that says two severities.
Block(a, b, at, sev, urg) ==
    {Row0(<<"alert", a>>, "hasInfo", <<"info", b>>), Row0(<<"info", b>>, "hasSentTime", At4(at, 2)),
     Row0(<<"info", b>>, "hasSeverity", <<"severity", sev>>),
     Row0(<<"info", b>>, "hasUrgency", <<"urgency", urg>>),
     Row0(<<"info", b>>, "hasEvent", <<"event", "flood">>),
     Row0(<<"info", b>>, "hasArea", <<"area", a>>), Is(<<"alert", a>>, "WeatherAlert")}
NoaaRows ==
    Block(1, 1, 1, 1, 1) \cup Block(1, 2, 1, 3, 1) \cup Block(2, 3, 2, 2, 2) \cup Block(3, 4, 3, 2, 3)
    \cup Block(4, 5, 4, 4, 1)
    \cup {Row0(<<"area", n>>, "hasGeocode", <<"geocode", n>>) : n \in 1..4}
    \cup {Row0(<<"geocode", n>>, "hasFIPSCode", <<"fips", 39>>) : n \in 1..4}
    \cup {Row0(<<"geocode", 2>>, "hasSAMECode", <<"fips", 48>>),
          Row0(<<"geocode", 1>>, "hasStateFIPS", <<"fips", 139>>),
          Row0(<<"area", 3>>, "hasAreaDescription", <<"text", {"OH"}>>)}

\* Two measurements of one category, a month apart or in one month; the local
\* series of a state, a region of the job openings, and two series of energy.
Measured(e, class, month) ==
    {Is(e, class), Row0(e, "category", <<"text", {"all"}>>), Row0(e, "month", <<"month", month>>),
     Row0(e, "year", <<"year", 26>>)}
BlsRows ==
    Measured(<<"cpi", 1>>, "CpiMeasurement", 5) \cup Measured(<<"cpi", 2>>, "CpiMeasurement", 6)
    \cup Measured(<<"cpi", 3>>, "CpiMeasurement", 6)
    \cup {Row0(<<"cpi", 9, "Entity">>, "label", <<"text", {}>>),
          Row0(<<"jolts", 9, "Entity">>, "quarter", <<"quarter", 2>>),
          Row0(<<"laus", 1>>, "label", <<"text", {}>>), Is(<<"jolts", 5>>, "JoltsRegion")}

\* ------------------------------------------------------------------ the jobs
Doc(rows) == [parses |-> TRUE, rows |-> rows]
Torn(rows) == [parses |-> FALSE, rows |-> rows]
Path(source, day, docs) ==
    [fragments |-> {source}, stems |-> {}, day |-> day, mirror |-> "whole",
     feed |-> IF source = "sec" THEN "filings" ELSE "", columns |-> {"triples"}, docs |-> docs]
NoFeed == [kind |-> "absent", written |-> 0, rows |-> {}]
Feed(rows) == [kind |-> "rows", written |-> 2, rows |-> rows]
Full(paths) ==
    [mode |-> "full", paths |-> paths, given |-> 0, period |-> 7, staged |-> FALSE,
     turtle_column |-> "", overwrite |-> FALSE, tables |-> TRUE, ontology |-> TRUE,
     overrides |-> {}, archive |-> FALSE, s3_key |-> << >>, name |-> <<1, "pt">>, elsewhere |-> FALSE,
     unregistered |-> FALSE, splits |-> NoFeed, companyfacts |-> NoFeed, minutes |-> << >>]

SecDay == Path("sec", 1, {Doc(SecRows), Torn({Is(F(9), "Odd")})})
MarketDay == Path("market", 1, {Doc(MarketRows)})
OddDay == Path("sec", 1, {Doc({Is(F(1), "Odd"), Is(F(2), "Form8K"), Row0(F(2), "hasIssuer", F(1))})})
OddLinks == Path("sec", 1, {Doc({Is(F(1), "Form8K"), Is(F(2), "Form8K"), Row0(F(2), "oddLink", F(1))})})
Rich ==
    LET closing == {<<"DerivativeTransaction", "NonDerivativeTransaction">>,
                    <<"Form4", "NonDerivativeTransaction">>}
        filings == Path("sec", 1, {Doc({Is(F(1), "Form4"), Is(<<"txn", 1, 1>>, "DerivativeTransaction"),
                                        Is(<<"txn", 2, 1>>, "NonDerivativeTransaction")})})
    IN  [filings_and_quotes |->
            [Full({SecDay, MarketDay}) EXCEPT
              !.archive = TRUE, !.splits = Feed({[date |-> 1]}),
              !.companyfacts = Feed({[date |-> 1, status |-> "new"], [date |-> 1, status |-> "repeated"]}),
              !.minutes = <<[kind |-> "rows", minute |-> 2, rows |-> {[ticker |-> 1, quote |-> 3]}]>>],
         alerts_and_series |->
            Full({Path("noaa", 1, {Doc(NoaaRows)}), Path("bls", 1, {Doc(BlsRows)}),
                  Path("market", 1, {Doc(Equity(3, 1, At4(1, 4)))})}),
         regions_alone |->
            Full({Path("bls", 1, {Doc({Is(<<"jolts", 5>>, "JoltsRegion")})}),
                  Path("market", 1, {Doc(Equity(3, 1, At4(1, 4)))})}),
         closing_circle |-> [Full({filings}) EXCEPT !.overrides = closing],
         odd_type |-> Full({OddDay}), odd_link |-> Full({OddLinks}),
         odd_allowed |-> [Full({OddLinks}) EXCEPT !.unregistered = TRUE],
         torn |-> Full({Path("sec", 1, {Torn(SecRows)})}),
         no_column |-> Full({[Path("sec", 1, {Doc(SecRows)}) EXCEPT !.columns = {"xml"}]}),
         no_feed |-> Full({[SecDay EXCEPT !.feed = "csv"]}), no_paths |-> Full({}),
         no_mirror |-> [Full({[SecDay EXCEPT !.mirror = "none"]}) EXCEPT !.staged = TRUE]]

Day(n) == Full({Path("sec", n, {Doc({Is(F(1), "Form8K"), Is(F(2), "Form8K"),
                                     Row0(F(2), "hasIssuer", F(1))})})})
Mode(settings, mode) == [settings EXCEPT !.mode = mode]
Over(settings) == [settings EXCEPT !.overwrite = TRUE]
Pyg == [Mode(Full({}), "pyg_only") EXCEPT !.tables = FALSE]
Lean ==
    [full |-> Day(1), full_over |-> Over(Day(2)), august |-> [Day(1) EXCEPT !.period = 8],
     enrich |-> Mode(Day(1), "enrichment_only"), parse |-> Mode(Day(1), "parse_only"),
     pyg |-> Pyg, pyg_given |-> [Pyg EXCEPT !.given = 2, !.name = <<2, "pt">>],
     pyg_elsewhere |-> [Pyg EXCEPT !.elsewhere = TRUE], wrong_day |-> [Day(1) EXCEPT !.given = 2]]
Later ==
    [enrich_over |-> Over(Mode(Day(2), "enrichment_only")),
     graph_over |-> Over([Day(2) EXCEPT !.tables = FALSE]),
     pyg_first |-> [Pyg EXCEPT !.given = 1], pyg_second |-> [Pyg EXCEPT !.given = 2, !.overwrite = TRUE]]

\* Jobs that file under one name: an S3 key they were all given, the key another
\* period's has by default, the period of the newest names, and a file name
\* without its extension.
Archived(settings, key) == [settings EXCEPT !.archive = TRUE, !.s3_key = key]
Shared ==
    LET lean == [Day(1) EXCEPT !.tables = FALSE]
        august == [lean EXCEPT !.period = 8]
        latest == [lean EXCEPT !.period = 99]
    IN  [keyed |-> Archived(lean, <<9, <<1, "pt">>>>), keyed_august |-> Archived(august, <<9, <<1, "pt">>>>),
         own_key |-> Archived(lean, << >>), anothers_key |-> Archived(august, <<7, <<1, "pt">>>>),
         latest |-> latest, latest_keyed |-> Archived(latest, <<9, <<1, "">>>>),
         bare_name |-> [Pyg EXCEPT !.name = <<1, "">>], pyg_keyed |-> Archived(Pyg, <<9, <<1, "pt">>>>)]

AllSettings == Rich @@ Lean @@ Later @@ Shared
Runs == {<<DOMAIN Rich>>, <<DOMAIN Lean, DOMAIN Lean>>, <<DOMAIN Shared, DOMAIN Shared>>,
         <<{"enrich"}, {"enrich_over", "graph_over"}, {"pyg", "pyg_first", "pyg_second"}>>}

\* The day's constituents, the newest ones alone, and a file that cannot be read.
Constituent(line, sym, cik) ==
    [line |-> line, symbol |-> sym, quote |-> 0, sector |-> "Oil", cik |-> cik, sub |-> "Drilling"]
Gone == [kind |-> "absent", cols |-> {}, rows |-> {}]
Columns == {"symbol", "cik", "sector", "sub"}
CsvDay == [kind |-> "rows", cols |-> Columns, 
           rows |-> {Constituent(1, 1, 5), Constituent(2, 2, 3), Constituent(3, 2, 6)}]
Old == [kind |-> "rows", cols |-> {"symbol", "sector"}, rows |-> {Constituent(1, 2, 4)}]
Folder(day, latest) == (DayKey(1) :> day) @@ (LatestKey :> latest)
Folders == {Folder(CsvDay, Old), Folder(Gone, CsvDay), Folder([Gone EXCEPT !.kind = "bad"], CsvDay)}
=============================================================================
