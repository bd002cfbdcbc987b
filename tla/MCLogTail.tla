----------------------------- MODULE MCLogTail -----------------------------
EXTENDS LogTail
MCKinds == {[hit |-> TRUE, size |-> 1, bad |-> FALSE],
            [hit |-> FALSE, size |-> 1, bad |-> FALSE],
            [hit |-> TRUE, size |-> 3, bad |-> FALSE],
            [hit |-> TRUE, size |-> 1, bad |-> TRUE]}
MCSearches == {<<>>, <<"a", "a", "2", "c">>, <<"a", "3", "c", "c">>,
               <<"3", "c", "2", "c">>}
Sym == Permutations(Readers) \cup Permutations(Buffers)
=============================================================================
