---------------------------- MODULE Constituents -----------------------------
(***************************************************************************)
(* market/patterns.py: which file of index constituents a run reads, and   *)
(* what it takes from it. files: key -> [kind, cols, rows], kind "absent", *)
(* "bad" (empty, unreadable, refused) or "rows"; a row is [line,    *)
(* symbol, quote, sector, cik, sub], 0 or "" where a field is blank.       *)
(***************************************************************************)
EXTENDS Naturals, Sequences, FiniteSets

\* prefix is "", "folder", "folder/latest.csv", "folder/named.csv" or a day's
\* export; day is 0 when the run is told none.
DayKey(day) == <<"day", day>>
LatestKey == <<"latest", 0>>
constituents_keys(prefix, day) ==
    LET first == CASE prefix = "named" -> <<<<"named", 0>>>>
                   [] prefix = "export" -> <<DayKey(1)>>
                   [] prefix \in {"folder", "latest"} /\ day > 0 -> <<DayKey(day)>>
                   [] OTHER -> <<>>
    IN  IF prefix = "" THEN <<>> ELSE first \o <<LatestKey>>

\* The first key that is not simply absent: a file that cannot be used stops
\* the search. What is read, and from where.
NoFile == [rows |-> {}, found |-> FALSE, key |-> <<"none", 0>>]
_read_constituents(files, prefix, day, required) ==
    LET keys == constituents_keys(prefix, day)
        there == {i \in 1..Len(keys) : keys[i] \in DOMAIN files /\ files[keys[i]].kind # "absent"}
        i == CHOOSE j \in there : \A k \in there : j <= k
        usable == files[keys[i]].kind = "rows" /\ required \subseteq files[keys[i]].cols
    IN  IF there = {} THEN NoFile
        ELSE [rows |-> IF usable THEN files[keys[i]].rows ELSE {}, found |-> usable,
              key |-> keys[i]]

\* A share class is named as the file spells it and as the quotes do.
_spellings(row) == {row.symbol} \cup (IF row.quote = 0 THEN {} ELSE {row.quote})

load_sector_patterns_from_s3(read) ==
    UNION {{<<<<"sym", s>>, row.sector>> : s \in _spellings(row)} :
           row \in {r \in read.rows : r.symbol # 0 /\ r.sector # ""}}
\* Of a file with no sector in it, as of none, the built-in table.
get_sector_patterns(read, DEFAULT_MARKET_SECTOR_PATTERNS) ==
    IF load_sector_patterns_from_s3(read) = {} THEN DEFAULT_MARKET_SECTOR_PATTERNS
    ELSE load_sector_patterns_from_s3(read)

\* Ten digits or fewer, padded; a CIK that is blank, not a number or too long
\* is left out (-1 stands for those that are stated and unusable). A spelling
\* that several lines have is the last one's.
get_ticker_cik_map(read) ==
    LET usable == {r \in read.rows : r.symbol # 0 /\ r.cik > 0}
        Last(row, s) == \A r \in usable : s \in _spellings(r) => r.line <= row.line
    IN  UNION {{<<<<"sym", s>>, <<"cik", row.cik>>>> : s \in {x \in _spellings(row) : Last(row, x)}} :
               row \in usable}
get_sub_industries(read) ==
    {<<<<"sym", row.symbol>>, row.sub>> : row \in {r \in read.rows : r.symbol # 0 /\ r.sub # ""}}
=============================================================================
