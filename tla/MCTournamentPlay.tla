--------------------------- MODULE MCTournamentPlay ---------------------------
(***************************************************************************)
(* TournamentPlay for TLC: names in the reverse order of registration, and *)
(* the tournaments of the runs.                                            *)
(***************************************************************************)
EXTENDS TournamentPlay

CONSTANTS w1, w2

ReverseNames == [t \in 1 .. 32 |-> 33 - t]

\* One thread, no corrections, no crashes, fixtures in any order.
Plain(format, size, scores) ==
    [format |-> format, n |-> size, scores |-> scores, threads |-> {w1},
     corrections |-> FALSE, crashes |-> FALSE, lookahead |-> 99, rounds |-> 9]

WinDrawLose == {<< 1, 0 >>, << 0, 0 >>, << 0, 1 >>}

\* Every outcome of every bracket of up to eight teams.
Brackets == {Plain("knockout", size, WinDrawLose) : size \in 2 .. 8}

\* Scores are corrected and processes die.
Disturbed ==
    {[Plain("knockout", size, {<< 1, 0 >>, << 0, 1 >>})
         EXCEPT !.corrections = TRUE, !.crashes = TRUE] : size \in 4 .. 6}

\* Two threads enter scores.
Overlapping ==
    {[Plain("knockout", size, {<< 1, 0 >>})
         EXCEPT !.threads = {w1, w2}, !.rounds = 3] : size \in {3, 4}}

\* Every combination of wins and losses in two groups of four, up to the
\* seeding, entered in the order of the fixtures.
GroupOutcomes ==
    {[Plain("group_knockout", 8, {<< 1, 0 >>, << 0, 1 >>})
         EXCEPT !.lookahead = 1, !.rounds = 1]}

\* Larger groups, two and four of them, to the end; every match a home win.
GroupSizes ==
    {[Plain("group_knockout", size, {<< 1, 0 >>}) EXCEPT !.lookahead = 1]
         : size \in {10, 12, 16, 20, 24, 28, 32}}

\* Every table of up to four teams, in any order of play.
Leagues ==
    {Plain("round_robin", size, {<< 2, 1 >>, << 1, 1 >>, << 0, 1 >>}) : size \in 2 .. 4}

\* Larger leagues as they are drawn, with no score entered.
Drawn == {Plain("round_robin", size, {}) : size \in 5 .. 16}

AllSettings ==
    Brackets \cup Disturbed \cup Overlapping \cup GroupOutcomes \cup GroupSizes
        \cup Leagues \cup Drawn

SmallLeagues == {Plain("round_robin", size, {<< 1, 0 >>}) : size \in 3 .. 4}

===============================================================================
