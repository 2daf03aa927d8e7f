---------------------------- MODULE MarketLinker -----------------------------
(***************************************************************************)
(* market_linker.py and symbols.py: the snapshots of a symbol sequenced,   *)
(* options linked to the equity they are on and to each other as           *)
(* strategies, and snapshots placed in sectors and by moneyness. A symbol  *)
(* is <<"sym", root>>, or an OCC one <<"occ", root, expiration, right,     *)
(* strike>>, from which an option's terms are read when it states none.    *)
(***************************************************************************)
EXTENDS Sequencing

CONSTANTS
    MAX_STRANGLE_PAIRS_PER_CHAIN

\* Strikes are below this, so that a key can put the highest first.
Top == 1000

occ_underlying(x) == <<"sym", x[2]>>
occ_expiration_date(x) == <<"date", x[3]>>
equity_symbol(x) == IF KindOf(x) = "occ" THEN occ_underlying(x) ELSE x

\* What an option states, or where it states nothing what its symbol says.
occ_term(p, x) == IF p = "underlyingSymbol" THEN occ_underlying(x) ELSE occ_expiration_date(x)
_resolve_option_property(G, p) ==
    UNION {LET stated == {r[2] : r \in {q \in Rel(G, p) : q[1] = o}}
               derived == {occ_term(p, r[2]) : r \in
                              {q \in Rel(G, "symbol") : q[1] = o /\ KindOf(q[2]) = "occ"}}
           IN  {<<o, v>> : v \in IF stated # {} THEN stated ELSE derived} :
           o \in Typed(G, "OptionSnapshot")}
Underlying(G) == _resolve_option_property(G, "underlyingSymbol")

_link_snapshot_sequences(G) ==
    sequence_to_triples(
        {Row(x[1][1], x[1][2], <<x[2][2][2], x[1][1][2]>>) : x \in
            {x \in Rel(G, "symbol") \X Rel(G, "captureTime") : x[1][1] = x[2][1]}},
        "precedes")

\* <<snapshot, symbol, time>>
Quoted(symbols, G) ==
    {<<x[1][1], x[1][2], x[2][2][2]>> : x \in
        {x \in symbols \X Rel(G, "captureTime") : x[1][1] = x[2][1]}}
Equities(G) ==
    Quoted({r \in Rel(G, "symbol") : r[1] \in Typed(G, "EquitySnapshot")}, G)

\* At the same instant; only if no option in the whole graph has such an
\* equity, each symbol's last one, whichever of those that tie.
_link_options_to_underlying(G) ==
    LET options == Quoted(Underlying(G), G)
        equities == Equities(G)
        Linked(eqs, same) ==
            {<<x[1][1], "hasUnderlyingEquity", x[2][1]>> : x \in
                {x \in options \X eqs : x[1][2] = x[2][2] /\ (same => x[1][3] = x[2][3])}}
        latest == {e \in equities : \A f \in equities : f[2] = e[2] => f[3] <= e[3]}
    IN  IF Linked(equities, TRUE) # {} THEN {Linked(equities, TRUE)}
        ELSE {Linked(eqs, FALSE) : eqs \in
                 {es \in SUBSET latest :
                     \A f \in latest : Cardinality({e \in es : e[2] = f[2]}) = 1}}

\* A type of another spelling stays what it is, and is neither.
_canonical_contract_type(x) ==
    IF x[2] \in {"C", "CALL"} THEN "CALL" ELSE IF x[2] \in {"P", "PUT"} THEN "PUT" ELSE x[2]

\* The options with every term of a strategy known, in chains of one
\* underlying, expiration and capture.
Chains(G) ==
    LET exps == _resolve_option_property(G, "expirationDate")
    IN  UNION {{[entity |-> q[1], part |-> <<q[2], x[1][2], q[3]>>, strike |-> x[2][2][2],
                 right |-> _canonical_contract_type(x[3][2])] :
                   x \in {x \in exps \X Rel(G, "strikePrice") \X Rel(G, "contractType") :
                                       \A i \in 1..3 : x[i][1] = q[1]}} :
               q \in Quoted(Underlying(G), G)}
Keyed(rows, key(_)) == {r @@ [key |-> key(r)] : r \in rows}

_identify_straddles(chains) ==
    {<<cp[1].entity, "straddleWith", cp[2].entity>> : cp \in
        {x \in chains \X chains : /\ x[1].right = "CALL" /\ x[2].right = "PUT"
                                  /\ x[1].part = x[2].part /\ x[1].strike = x[2].strike}}
_identify_vertical_spreads(chains) ==
    LET Key(r) == <<r.strike, r.entity[2]>>
        Of(right) == Keyed({r \in chains : r.right = right}, Key)
    IN  {<<x[1].entity, "callSpreadWith", x[2].entity>> : x \in sequence_within_partitions(Of("CALL"))}
        \cup {<<x[1].entity, "putSpreadWith", x[2].entity>> : x \in sequence_within_partitions(Of("PUT"))}

\* The calls above the middle of the chain and the puts below it, nearest
\* first, paired by rank. Contracts of one strike take their ranks as they come.
Rank(rows, r) == Cardinality({q \in rows : q.part = r.part /\ ~Before(r.key, q.key)})
_pair_by_rank(cs, ps) ==
    {<<cp[1].entity, "strangleWith", cp[2].entity>> : cp \in
        {x \in cs \X ps : /\ x[1].part = x[2].part /\ Rank(cs, x[1]) = Rank(ps, x[2])
                          /\ Rank(cs, x[1]) <= MAX_STRANGLE_PAIRS_PER_CHAIN}}
\* Twice the middle of the strikes of a contract's chain.
Mid2(chains, r) ==
    LET strikes == {q.strike : q \in {x \in chains : x.part = r.part}}
    IN  (CHOOSE s \in strikes : \A q \in strikes : s <= q)
        + (CHOOSE s \in strikes : \A q \in strikes : q <= s)
otm_calls(chains) ==
    LET Out(r) == <<r.strike>>
    IN  Keyed({r \in chains : r.right = "CALL" /\ 2 * r.strike > Mid2(chains, r)}, Out)
otm_puts(chains) ==
    LET In(r) == <<Top - r.strike>>
    IN  Keyed({r \in chains : r.right = "PUT" /\ 2 * r.strike < Mid2(chains, r)}, In)
_identify_strangles(chains) ==
    {_pair_by_rank(cs, ps) : cs \in TieBreaks(otm_calls(chains)),
                             ps \in TieBreaks(otm_puts(chains))}
_identify_option_strategies(G) ==
    LET chains == Chains(G)
        sure == _identify_straddles(chains) \cup _identify_vertical_spreads(chains)
    IN  {sure \cup strangles : strangles \in _identify_strangles(chains)}

\* tickers: the <<symbol, sector>> pairs of the day's constituents file.
_classify_sectors(G, tickers) ==
    LET belongs == Via(Rel(G, "symbol") \cup Underlying(G), tickers)
    IN  {<<b[1], "inEquitySector", <<"equitySector", b[2]>>>> : b \in belongs}
        \cup {A(<<"equitySector", b[2]>>, "EquitySector") : b \in belongs}

Moneyness(right, strike, price) ==
    LET apart == IF strike > price THEN strike - price ELSE price - strike
    IN  IF 50 * apart <= price THEN "AtTheMoney"
        ELSE IF right \notin {"CALL", "PUT"} THEN "none"
        ELSE IF (right = "CALL") = (strike < price) THEN "InTheMoney" ELSE "OutOfTheMoney"
_compute_moneyness(G) ==
    LET Of(o, p) == {r[2] : r \in {q \in Rel(G, p) : q[1] = o}}
        placed == UNION {{<<o, Moneyness(_canonical_contract_type(c), k[2], u[2])>> :
                             c \in Of(o, "contractType"), k \in Of(o, "strikePrice"),
                             u \in Of(o, "underlyingPrice")} :
                         o \in Typed(G, "OptionSnapshot")}
        found == {m \in placed : m[2] # "none"}
    IN  {<<m[1], "hasMoneyness", <<"moneyness", m[2]>>>> : m \in found}
        \cup {A(<<"moneyness", m[2]>>, "Moneyness") : m \in found}

MarketEnrichments(G, tickers) ==
    LET sure == _link_snapshot_sequences(G) \cup _classify_sectors(G, tickers)
                \cup _compute_moneyness(G)
    IN  IF TypedAny(G, {"EquitySnapshot", "OptionSnapshot"}) = {} THEN {{}}
        ELSE {sure \cup linked \cup paired :
                 linked \in _link_options_to_underlying(G),
                 paired \in _identify_option_strategies(G)}
=============================================================================
