---------------------------- MODULE MCPreedit ----------------------------
(* Preedit with the answers of the lookup that make its pages differ. *)
EXTENDS Preedit, TLC

\* n items of the same length in bytes, for klen letters.
Uniform(n, klen, bytes) == [k \in 1..n |-> [klen |-> klen, upto |-> bytes * k]]

MCResults == {
    [items |-> Uniform(1, 1, 3), cand |-> 3],      \* one syllable, one item
    [items |-> Uniform(10, 1, 3), cand |-> 3],     \* the most items on a page: 8, 2 left
    [items |-> Uniform(3, 1, 66), cand |-> 6],     \* a page for each item
    [items |-> <<[klen |-> 2, upto |-> 6], [klen |-> 1, upto |-> 9]>>, cand |-> 6]}
=============================================================================
