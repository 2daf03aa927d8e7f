----------------------------- MODULE Sequencing ------------------------------
(***************************************************************************)
(* sequencing.py: the entities of a partition, one row each, in order, and *)
(* every one linked to the next. A row is [entity, part, key]; a key is    *)
(* the order columns, the entity itself among them wherever the order must *)
(* be total.                                                               *)
(***************************************************************************)
EXTENDS Triples, TLC

Row(e, part, key) == [entity |-> e, part |-> part, key |-> key]

\* row_number() == 1 over the partition and the entity.
FirstRows(rows) ==
    {r \in rows : \A q \in rows :
        q.part = r.part /\ q.entity = r.entity => ~Before(q.key, r.key)}
\* lead() over the partition: the next row in order.
NextRows(rows) ==
    {rq \in rows \X rows :
        /\ rq[1].part = rq[2].part /\ Before(rq[1].key, rq[2].key)
        /\ \A s \in rows : s.part = rq[1].part =>
               ~(Before(rq[1].key, s.key) /\ Before(s.key, rq[2].key))}

\* A plausible slip: every row takes its place, so an entity dated twice
\* takes two.
SequencedTwice(rows) == {rq \in NextRows(rows) : rq[1].entity # rq[2].entity}
sequence_within_partitions(rows) ==
    {rq \in NextRows(FirstRows(rows)) : rq[1].entity # rq[2].entity}

\* Rows that tie are taken in an order no two runs need share: every way to
\* break the ties, as one more column of the key.
TieBreaks(rows) ==
    LET Tied(r) == {q \in rows : q.part = r.part /\ q.key = r.key}
        most == CHOOSE k \in {Cardinality(Tied(r)) : r \in rows} :
                    \A r \in rows : Cardinality(Tied(r)) <= k
        breaks == {f \in [rows -> 1..most] :
                      \A r \in rows : \A q \in Tied(r) \ {r} : f[q] # f[r]}
    IN  IF rows = {} THEN {{}}
        ELSE {{[r EXCEPT !.key = Append(@, f[r])] : r \in rows} : f \in breaks}

sequence_to_triples(rows, p) ==
    {<<rq[1].entity, p, rq[2].entity>> : rq \in sequence_within_partitions(rows)}
=============================================================================
