----------------------------- MODULE MCSegmentation -----------------------------
\* Runs for TLC to profile.
EXTENDS Segmentation

CONSTANTS K2, K3

\* All runs of up to n blocks of S between the blocks 1 and 8.
RunsOver(S, n) == {<<1>> \o w \o <<8>> : w \in UNION {[1 .. k -> S] : k \in 1 .. n}}

Again(n, w) == FoldLeft(\o, <<>>, [i \in 1 .. n |-> w])

\* Longer runs: through a subgraph that only FindNewSubgraph can find, and a
\* loop of two nested loops, of three loops, and around a loop with a branch.
LongRuns ==
    {<<1, 2, 3, 4, 5, 2, 4, 5, 2, 3, 5, 8>>,
     <<1, 5, 4, 3, 2, 7, 5, 3, 2, 7, 5, 4, 2, 8>>,
     <<1>> \o Again(2, Again(2, <<2, 2, 3>>) \o Again(2, <<4, 4, 5>>)) \o <<8>>,
     <<1>> \o Again(2, Again(2, <<6, 6, 4>>) \o Again(2, <<3, 3, 2>>)) \o <<8>>,
     <<1>> \o Again(2, <<2, 2, 3, 3, 4, 4>>) \o <<8>>,
     <<1>> \o Again(2, <<3, 3, 4, 4, 2, 2, 5>>) \o <<8>>,
     <<1>> \o Again(2, <<2, 3, 5, 2, 4, 5, 6>>) \o <<8>>,
     <<1, 2, 3, 2, 4, 5, 2, 3, 3, 5, 6, 6, 2, 4, 8>>}

\* All the pairs up to a total of 15 for which single precision is too small.
MCTruncated ==
    ({1, 2, 4} \X {7}) \cup ({1, 2, 4, 7, 8} \X {13}) \cup ({1, 2, 4, 8} \X {14, 15})
    \cup {<<9, 15>>}

\* A loop of three loops and one of loops nested deeper, in a loop: the first is
\* found before the second, from which an edge leads to it.
RevokedWalks ==
    {<<1>> \o Again(2, Again(2, <<2, 2, 3, 3, 4, 4>>)
                     \o Again(2, Again(2, <<5, 5, 6>>) \o <<7>>)) \o <<8>>}

MCWalks == RunsOver({2, 3}, K2) \cup RunsOver({2, 3, 4}, K3) \cup LongRuns
=============================================================================
