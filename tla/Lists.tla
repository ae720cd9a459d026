------------------------------- MODULE Lists -------------------------------
(***************************************************************************)
(* Filtering and sorting a list (Iterator::filter, Vec::sort_by), by the   *)
(* positions of its entries.  They agree with SelectSeq and SortSeq, which *)
(* the proof system has no definition of, and the sort is stable.          *)
(***************************************************************************)
EXTENDS Naturals, Sequences, FiniteSets

IsList(s) == s \in Seq({s[i] : i \in DOMAIN s})

\* The entries of s at the positions `at', in order.
Those(s, at) ==
    LET upto[i \in 0..Len(s)] ==
            IF i = 0 THEN <<>>
            ELSE IF i \in at THEN Append(upto[i - 1], s[i]) ELSE upto[i - 1]
    IN  upto[Len(s)]

\* The entries that pass the test.
Select(s, Test(_)) == Those(s, {i \in DOMAIN s : Test(s[i])})

\* The place of position i when R is the order of the entries and entries
\* that are equal in it stay in the order of their positions.
PlaceIn(s, R, i) ==
    Cardinality({j \in DOMAIN s : <<j, i>> \in R /\ (<<i, j>> \in R => j <= i)})
InOrder(s, R) == [k \in DOMAIN s |-> s[CHOOSE i \in DOMAIN s : PlaceIn(s, R, i) = k]]

\* `Before' is a reflexive total order, up to entries that are equal in it.
Sorted(s, Before(_, _)) ==
    InOrder(s, {w \in (DOMAIN s) \X (DOMAIN s) : Before(s[w[1]], s[w[2]])})
=============================================================================
