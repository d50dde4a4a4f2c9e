------------------------------- MODULE MCInlining -------------------------------
\* Programs for TLC to profile, with their runs.
EXTENDS Inlining

CONSTANTS
    LENGTH,       \* the most blocks of a run
    SHORT_LENGTH  \* the same for Handlers, the runs of which double with each block

\* A program of blocks bs, each <<function, successors, callees>>; empty
\* successors make a return. Blocks of through call through a pointer, blocks
\* of libs call a library function that may call function lib back.
Program(bs, through, libs) ==
    [func |-> [b \in DOMAIN bs |-> bs[b][1]],
     entry |-> [f \in 1 .. Max({bs[b][1] : b \in DOMAIN bs}) |->
                   Min({b \in DOMAIN bs : bs[b][1] = f})],
     succ |-> [b \in DOMAIN bs |-> bs[b][2]],
     twice |-> {},
     callee |-> [b \in DOMAIN bs |-> bs[b][3]],
     rets |-> {b \in DOMAIN bs : bs[b][2] = {}},
     pointer |-> through,
     lib |-> libs]

\* One more block after the run w, with the callers st on the stack.
Steps(p, w, st) ==
    LET b == Last(w)
        entered(fs, s) == {<<Append(w, p.entry[f]), Append(s, b)>> : f \in fs}
        \* into functions
        back(c) == {<<Append(w, s), Front(st)>> : s \in p.succ[c]}
                   \cup IF p.lib[c] = {} THEN {}
                        ELSE {<<Append(w, p.entry[f]), st>> : f \in p.lib[c]}
    IN  IF p.callee[b] # {} THEN entered(p.callee[b], st)
        ELSE IF b \in p.rets THEN IF st = <<>> THEN {} ELSE back(Last(st))
        ELSE {<<Append(w, s), st>> : s \in p.succ[b]} \cup entered(p.lib[b], st)

RECURSIVE RunsFrom(_, _, _, _)
\* The runs of up to n blocks that begin with w and end in main.
RunsFrom(p, w, st, n) ==
    IF Last(w) \in p.rets /\ st = <<>> THEN {w}
    ELSE IF Len(w) = n THEN {}
    ELSE UNION {RunsFrom(p, x[1], x[2], n) : x \in Steps(p, w, st)}

None(n) == [b \in 1 .. n |-> {}]

\* Two calls of a function with loops; the first block of it names its successor
\* twice, and the second itself.
Loops == [Program(<<<<1, {2}, {2}>>, <<1, {3}, {2}>>, <<1, {}, {}>>,
                    <<2, {5}, {}>>, <<2, {5, 6}, {}>>, <<2, {}, {}>>>>, {}, None(6))
             EXCEPT !.twice = {<<4, 5>>, <<5, 5>>}]

\* f is called twice, and calls g twice.
Nested == Program(<<<<1, {2}, {2}>>, <<1, {3}, {2}>>, <<1, {}, {}>>,
                    <<2, {5}, {}>>, <<2, {6}, {3}>>, <<2, {7}, {3}>>, <<2, {}, {}>>,
                    <<3, {9}, {}>>, <<3, {}, {}>>>>, {}, None(9))

\* g is called by main and by f, which is called once or more.
Diamond == Program(<<<<1, {2}, {2}>>, <<1, {1, 3}, {}>>, <<1, {4}, {3}>>, <<1, {}, {}>>,
                     <<2, {6}, {}>>, <<2, {7}, {3}>>, <<2, {}, {}>>,
                     <<3, {9}, {}>>, <<3, {9, 10}, {}>>, <<3, {}, {}>>>>, {}, None(10))

\* f calls itself, from two places.
Recursive == Program(<<<<1, {2}, {2}>>, <<1, {3}, {2}>>, <<1, {}, {}>>,
                       <<2, {5, 8}, {}>>, <<2, {6}, {2}>>, <<2, {7, 8}, {}>>,
                       <<2, {8}, {2}>>, <<2, {}, {}>>>>, {}, None(8))

\* f and g call each other.
Mutual == Program(<<<<1, {2}, {2}>>, <<1, {3}, {3}>>, <<1, {}, {}>>,
                    <<2, {5, 6}, {}>>, <<2, {6}, {3}>>, <<2, {}, {}>>,
                    <<3, {8, 9}, {}>>, <<3, {9}, {2}>>, <<3, {}, {}>>>>, {}, None(9))

\* A pointer in a loop leads to f or g; both are called by name as well.
Pointers == Program(<<<<1, {2}, {2, 3}>>, <<1, {1, 3}, {}>>, <<1, {4}, {2}>>,
                      <<1, {5}, {3}>>, <<1, {}, {}>>, <<2, {7}, {}>>, <<2, {}, {}>>, <<3, {}, {}>>>>,
                    {1}, None(8))

\* A library function calls f back, or not, or more than once.
Callbacks == Program(<<<<1, {2}, {}>>, <<1, {1, 3}, {}>>, <<1, {4}, {2}>>, <<1, {}, {}>>,
                       <<2, {6}, {}>>, <<2, {}, {}>>>>, {}, [None(6) EXCEPT ![1] = {2}])

\* A library function calls f and g back, in any order, or not, once or more;
\* g calls f, and main calls both.
Handlers == Program(<<<<1, {2}, {}>>, <<1, {1, 3}, {}>>, <<1, {4}, {2}>>, <<1, {5}, {3}>>,
                      <<1, {}, {}>>, <<2, {}, {}>>, <<3, {8}, {2}>>, <<3, {}, {}>>>>,
                    {}, [None(8) EXCEPT ![1] = {2, 3}])

\* Two branches with a call each meet again.
Joined == Program(<<<<1, {2, 3}, {}>>, <<1, {4}, {2}>>, <<1, {4}, {2}>>, <<1, {1, 5}, {}>>,
                    <<1, {}, {}>>, <<2, {7}, {}>>, <<2, {7, 8}, {}>>, <<2, {}, {}>>>>,
                  {}, None(8))

\* f has two returns.
Returns2 == Program(<<<<1, {2}, {2}>>, <<1, {1, 3}, {}>>, <<1, {4}, {2}>>, <<1, {}, {}>>,
                      <<2, {6, 7}, {}>>, <<2, {}, {}>>, <<2, {}, {}>>>>, {}, None(7))

\* f calls itself, and g from a loop; main calls both.
Deep == Program(<<<<1, {2}, {2}>>, <<1, {3}, {2}>>, <<1, {4}, {3}>>, <<1, {}, {}>>,
                  <<2, {6}, {}>>, <<2, {7}, {3}>>, <<2, {6, 8, 9}, {}>>, <<2, {9}, {2}>>,
                  <<2, {}, {}>>, <<3, {}, {}>>>>, {}, None(10))

\* A loop with a library function that calls g back; main calls f twice.
Rare == Program(<<<<1, {2}, {}>>, <<1, {1, 3}, {}>>, <<1, {4}, {2}>>, <<1, {5}, {2}>>,
                  <<1, {}, {}>>, <<2, {}, {}>>, <<3, {8}, {}>>, <<3, {}, {}>>>>,
                {}, [None(8) EXCEPT ![1] = {3}])

\* The program p with a first block to which nothing leads and which calls nothing:
\* Split.h, for one, leaves such a block before a call.
Preceded(p) ==
    LET next(S) == {b + 1 : b \in S}
        shifted(s) == [b \in DOMAIN s |-> next(s[b])]
    IN  [func |-> <<1>> \o p.func,
         entry |-> <<1>> \o [i \in 1 .. Len(p.entry) - 1 |-> p.entry[i + 1] + 1],
         succ |-> <<{2}>> \o shifted(p.succ),
         twice |-> {<<e[1] + 1, e[2] + 1>> : e \in p.twice},
         callee |-> <<{}>> \o p.callee,
         rets |-> next(p.rets),
         pointer |-> next(p.pointer),
         lib |-> <<{}>> \o p.lib]

MCProfiled ==
    LET programs == {Loops, Nested, Diamond, Recursive, Mutual, Pointers, Callbacks, Joined,
                     Returns2, Deep, Rare}
        runs(p, n) == {<<p, w>> : w \in RunsFrom(p, <<1>>, <<>>, n)}
    IN  UNION {runs(Preceded(q), LENGTH) : q \in programs}
        \cup runs(Preceded(Handlers), SHORT_LENGTH)

\* All the pairs up to a total of 15 for which single precision is too small.
MCTruncated ==
    ({1, 2, 4} \X {7}) \cup ({1, 2, 4, 7, 8} \X {13}) \cup ({1, 2, 4, 8} \X {14, 15})
    \cup {<<9, 15>>}
=============================================================================
