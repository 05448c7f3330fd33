----------------------------- MODULE MCTwoTrack -----------------------------
(***************************************************************************)
(* Small instances of TwoTrack: sources over one or two tables.            *)
(***************************************************************************)
EXTENDS TwoTrack, TLC

CONSTANTS t1, t2, c, d, k

\* A table declared with the columns of a sequence.
Table(t, columns) ==
  {<<<<t, columns[i]>>, <<t, columns[j]>>>> :
     <<i, j>> \in {q \in (DOMAIN columns) \X (DOMAIN columns) : q[1] <= q[2]}}

\* One table or both, and a source without a Base.
OneOrBoth == {Table(t1, <<k>>), Table(t1, <<k>>) \cup Table(t2, <<k>>), Blank}

\* Both tables, then one of them.
BothThenOne == {Table(t1, <<k>>) \cup Table(t2, <<k>>), Table(t1, <<k>>)}

\* The same table, without and with a column.
OneTable == {Table(t1, <<k>>), Table(t1, <<k, c>>)}
=============================================================================
