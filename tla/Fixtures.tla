------------------------------- MODULE Fixtures -------------------------------
(***************************************************************************)
(* The pure part of the tournament engine: fixture_generator.py and        *)
(* standings.py of src/apps/tournaments/services.                          *)
(*                                                                         *)
(* A team is its position in the order of registration, from 1; a fixture  *)
(* is a record.  A table is a function from primary keys to fixtures: the  *)
(* whole one is a sequence, and a query restricts it to the rows selected. *)
(* The stage is "group" exactly when there is a group, so group 0 stands   *)
(* for stage = knockout, which round robin fixtures have too.  Dates are   *)
(* left out except for the day of a round robin fixture.                   *)
(***************************************************************************)
EXTENDS Integers, Sequences, FiniteSetsExt

\* The away team of a bye.
NoTeam == 0

Fixture(round, group, home, away) ==
    [round |-> round, group |-> group, home |-> home, away |-> away,
     bye |-> FALSE, done |-> FALSE, score |-> << 0, 0 >>]

Bye(team) == [Fixture(1, 0, team, NoTeam) EXCEPT !.bye = TRUE, !.done = TRUE]

\* What is ranked, as a sequence: pairs of a rank and a value, ranks from 1.
Ordered(ranked) ==
    [i \in 1 .. Cardinality(ranked) |-> (CHOOSE u \in ranked : u[1] = i)[2]]

InOrder(numbers) ==
    Ordered({<< Cardinality({j \in numbers : j <= k}), k >> : k \in numbers})

-----------------------------------------------------------------------------
(* The circle method.  Positions of the circle are numbered from 0 and hold *)
(* a team's index, also from 0; of an odd number of teams, index n is BYE.  *)

CircleSize(n) == n + (n % 2)

Half(n) == CircleSize(n) \div 2

Start(n) == [s \in 0 .. CircleSize(n) - 1 |-> s]

\* Not the code: two neighbours change places and the others stay.
RotatedTwo(arr) ==
    [s \in DOMAIN arr |-> IF s = 1 THEN arr[2] ELSE IF s = 2 THEN arr[1] ELSE arr[s]]

\* [arr[0]] + [arr[-1]] + arr[1:-1]
Rotated(arr) ==
    [s \in DOMAIN arr |->
        IF s = 0 THEN arr[0]
        ELSE IF s = 1 THEN arr[Cardinality(DOMAIN arr) - 1]
        ELSE arr[s - 1]]

\* The two that meet at position i of round r: home and away.
Opponents(arr, r, i) ==
    LET a == arr[i]
        b == arr[Cardinality(DOMAIN arr) - 1 - i]
    IN  IF (r + i) % 2 = 0 THEN << a, b >> ELSE << b, a >>

\* A pair with the BYE sentinel is skipped.
Rests(n, pair) == pair[1] = n \/ pair[2] = n

\* The circle before round r, and all pairs of all rounds.
Circle(n) ==
    LET before[r \in 0 .. CircleSize(n) - 1] ==
            IF r = 0 THEN Start(n) ELSE Rotated(before[r - 1])
    IN  before

\* The p-th meeting, counted from 0, with Half(n) of them in each round.
Meeting(n, p) == Opponents(Circle(n)[p \div Half(n)], p \div Half(n), p % Half(n))

Meetings(n) ==
    {p \in 0 .. (Half(n) * (CircleSize(n) - 1)) - 1 : ~ Rests(n, Meeting(n, p))}

CirclePairs(n) ==
    LET played == InOrder(Meetings(n))
    IN  [k \in DOMAIN played |-> Meeting(n, played[k])]

\* Not the code: one fixture too many on every day.
DayCrowded(n, k) == (k - 1) \div Half(n)

\* Days after the start of the k-th fixture.
Day(n, k) == (k - 1) \div Max({Half(n) - 1, 1})

\* Every pair is a round of its own (enumerate(pairs, start=1)).
RoundRobin(teams, group) ==
    LET pairs == CirclePairs(Len(teams))
    IN  [k \in DOMAIN pairs |->
            Fixture(k, group, teams[pairs[k][1] + 1], teams[pairs[k][2] + 1])]

-----------------------------------------------------------------------------
(* Knockout and groups *)

\* Not the code: neighbours meet.
InwardNeighbours(teams) ==
    [k \in 1 .. Len(teams) \div 2 |-> << teams[2 * k - 1], teams[2 * k] >>]

\* The first against the last, and so on towards the middle.
Inward(teams) ==
    [k \in 1 .. Len(teams) \div 2 |-> << teams[k], teams[Len(teams) + 1 - k] >>]

Matches(round, pairs) ==
    [k \in DOMAIN pairs |-> Fixture(round, 0, pairs[k][1], pairs[k][2])]

\* Not the code: the bracket is filled up to the next even number only.
NextEven(n) == n + (n % 2)

\* 1 << bits
Shifted[bits \in Nat] == IF bits = 0 THEN 1 ELSE 2 * Shifted[bits - 1]

NextPowerOf2(n) == Min({p \in {Shifted[bits] : bits \in 0 .. n} : p >= n})

\* The top seeds get the byes, the others meet inward.
NumByes(n) == NextPowerOf2(n) - n

KnockoutRound1(n) ==
    [t \in 1 .. NumByes(n) |-> Bye(t)]
        \o Matches(1, Inward([k \in 1 .. n - NumByes(n) |-> NumByes(n) + k]))

NumGroups(n) == IF n <= 12 THEN 2 ELSE 4

GroupTeams(n, g) == InOrder({t \in 1 .. n : (t - 1) % NumGroups(n) = g - 1})

GroupStage(n) ==
    LET group(g) == RoundRobin(GroupTeams(n, g), g)
    IN  IF NumGroups(n) = 2 THEN group(1) \o group(2)
        ELSE group(1) \o group(2) \o group(3) \o group(4)

Generated(format, n) ==
    CASE format = "round_robin" -> RoundRobin([t \in 1 .. n |-> t], 0)
      [] format = "knockout" -> KnockoutRound1(n)
      [] format = "group_knockout" -> GroupStage(n)

-----------------------------------------------------------------------------
(* Standings of a table: a round robin tournament or a group *)

Counted(table) == RestrictValues(table, LAMBDA f : f.done /\ ~ f.bye)

For(team, f) ==
    CASE f.home = team -> f.score[1] [] f.away = team -> f.score[2] [] OTHER -> 0

Against(team, f) ==
    CASE f.home = team -> f.score[2] [] f.away = team -> f.score[1] [] OTHER -> 0

Plays(team, f) == team \in {f.home, f.away}

Wins(team, table) == {k \in DOMAIN table : For(team, table[k]) > Against(team, table[k])}

Draws(team, table) ==
    {k \in DOMAIN table :
        Plays(team, table[k]) /\ For(team, table[k]) = Against(team, table[k])}

Points(team, table) == (3 * Cardinality(Wins(team, table))) + Cardinality(Draws(team, table))

\* Goals are counted one by one: the first, second, ... of a match.
GoalsFor(team, table) ==
    Cardinality(UNION {{k} \X (1 .. For(team, table[k])) : k \in DOMAIN table})

GoalsAgainst(team, table) ==
    Cardinality(UNION {{k} \X (1 .. Against(team, table[k])) : k \in DOMAIN table})

Difference(team, table) == GoalsFor(team, table) - GoalsAgainst(team, table)

\* The first three sort keys; the mini-table has the same ones.
Primary(team, table) ==
    << - Points(team, table), - Difference(team, table), - GoalsFor(team, table) >>

\* The teams that have a row.
Ranked(table) == UNION {{f.home, f.away} : f \in Range(table)}

\* The teams that share a row's first three keys, and mutual fixtures.
Tied(row, rows) == {u.team : u \in {v \in rows : v.primary = row.primary}}

Mutual(teams, table) ==
    RestrictValues(table, LAMBDA f : f.home \in teams /\ f.away \in teams)

\* Where the dictionary of rows met the team first: sorted() is stable.
FirstSeen(team, table) ==
    LET k == Min({j \in DOMAIN table : Plays(team, table[j])})
    IN  (2 * k) + (IF table[k].home = team THEN 0 ELSE 1)

\* Not the code: a tie is left to the names.
SortKeyNoHeadToHead(row, rows, table, name) ==
    row.primary \o << name[row.team], FirstSeen(row.team, table) >>

SortKey(row, rows, table, name) ==
    row.primary
        \o Primary(row.team, Mutual(Tied(row, rows), table))
        \o << name[row.team], FirstSeen(row.team, table) >>

Precedes(a, b) ==
    \E i \in DOMAIN a : a[i] < b[i] /\ \A j \in 1 .. i - 1 : a[j] = b[j]

\* A row for each team of the table, sorted.
Standings(table, name) ==
    LET counted == Counted(table)
        rows == {[team |-> t, primary |-> Primary(t, counted)] : t \in Ranked(counted)}
        keyed == {[team |-> u.team, key |-> SortKey(u, rows, counted, name)] : u \in rows}
        UpTo(u) == {u} \cup {v \in keyed : Precedes(v.key, u.key)}
    IN  Ordered({<< Cardinality(UpTo(u)), u.team >> : u \in keyed})

===============================================================================
