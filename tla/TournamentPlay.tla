---------------------------- MODULE TournamentPlay ----------------------------
(***************************************************************************)
(* A tournament in progress: score entry (FixtureScoreView and             *)
(* TournamentCompleteView of src/api/v1/tournaments/views_owner.py) and    *)
(* the generation of rounds in                                             *)
(* src/apps/tournaments/services/knockout.py.                              *)
(*                                                                         *)
(* Views run in autocommit mode, so on_commit runs                         *)
(* maybe_generate_next_round at once, in the thread that saved the score.  *)
(* It takes no lock: its queries and its INSERT are transactions of their  *)
(* own, and other threads run between them.  No code of the repository     *)
(* cancels a fixture, so that status is left out.                          *)
(***************************************************************************)
EXTENDS Fixtures

CONSTANTS
    Workers,        \* request threads of the organizer
    Settings,       \* the tournaments a run starts from
    Name            \* the rank of every team's name in the alphabet

TournamentFormat == {"round_robin", "knockout", "group_knockout"}

ValidGroupKoSizes == {8, 10, 12, 16, 20, 24, 28, 32}

\* A tournament, and what may happen to it; the last three bound a run.
ASSUME SettingsAssumption ==
    \A x \in Settings :
        /\ x.format \in TournamentFormat
        /\ x.n \in Nat \ {0, 1}          \* the number of registered teams
        /\ x.format = "group_knockout" => x.n \in ValidGroupKoSizes
        /\ x.threads \subseteq Workers    \* the threads that serve the organizer
        /\ x.corrections \in BOOLEAN     \* scores are entered again
        /\ x.crashes \in BOOLEAN         \* a process may die in a request
        /\ x.scores \subseteq Nat \X Nat \* the scores that are entered
        /\ x.lookahead \in Nat           \* so many open fixtures may come next
        /\ x.rounds \in Nat              \* no later round is generated

ASSUME NameAssumption ==
    \A x \in Settings : \A t \in 1 .. x.n : Name[t] \in Int

VARIABLES
    setting,        \* never changes
    status,         \* Tournament.status: "in_progress" or "completed"
    fixtures,       \* the Fixture table, in the order of the primary keys
    pc,             \* the next statement of every thread
    want,           \* the fixture and the score of the request
    plan            \* fixtures_to_create

vars == << setting, status, fixtures, pc, want, plan >>

Init ==
    /\ setting \in Settings
    /\ status = "in_progress"
    /\ fixtures = Generated(setting.format, setting.n)
    /\ pc = [w \in Workers |-> "idle"]
    /\ want = [w \in Workers |-> << 0, << 0, 0 >> >>]
    /\ plan = [w \in Workers |-> << >>]

Goto(w, label) == pc' = [pc EXCEPT ![w] = label]

Open == {k \in DOMAIN fixtures : ~ fixtures[k].done}

ComesNext(k) == Cardinality({j \in Open : j < k}) < setting.lookahead

Enterable ==
    {k \in DOMAIN fixtures :
        /\ ~ fixtures[k].bye
        /\ IF k \in Open THEN ComesNext(k) ELSE setting.corrections}

\* The fixtures of a stage and round: a group stage is one whole.
GroupFixtures == RestrictValues(fixtures, LAMBDA f : f.group # 0)

KnockoutRound(r) == RestrictValues(fixtures, LAMBDA f : f.group = 0 /\ f.round = r)

AllDone(table) == \A f \in Range(table) : f.done

Trigger(w) == fixtures[want[w][1]]

NextRound(f) == IF f.group # 0 THEN 1 ELSE f.round + 1

-----------------------------------------------------------------------------
(* FixtureScoreView *)

\* The tournament is in progress and the fixture is no bye; else 400.
CheckInProgress(w) ==
    /\ w \in setting.threads
    /\ pc[w] = "idle"
    /\ status = "in_progress"
    /\ \E k \in Enterable, s \in setting.scores : want' = [want EXCEPT ![w] = << k, s >>]
    /\ Goto(w, "save")
    /\ UNCHANGED << setting, status, fixtures, plan >>

\* save() commits and the callback runs.
SaveScore(w) ==
    /\ pc[w] = "save"
    /\ fixtures' = [fixtures EXCEPT ![want[w][1]].score = want[w][2],
                                    ![want[w][1]].done = TRUE]
    /\ Goto(w, "pending")
    /\ UNCHANGED << setting, status, want, plan >>

\* TournamentCompleteView
Complete ==
    /\ status = "in_progress"
    /\ status' = "completed"
    /\ UNCHANGED << setting, fixtures, pc, want, plan >>

-----------------------------------------------------------------------------
(* maybe_generate_next_round *)

\* Not the code: the other fixtures of the round are not asked for.
CheckOwnFixture(w) ==
    /\ pc[w] = "pending"
    /\ Goto(w, IF Trigger(w).done THEN "exists" ELSE "idle")
    /\ UNCHANGED << setting, status, fixtures, want, plan >>

\* Not the code: a bye counts as a fixture that is still to be played.
CheckRoundWithByes(w) ==
    /\ pc[w] = "pending"
    /\ LET table == IF Trigger(w).group # 0 THEN GroupFixtures
                    ELSE KnockoutRound(Trigger(w).round)
       IN  Goto(w, IF AllDone(table) /\ \A f \in Range(table) : ~ f.bye
                   THEN "exists" ELSE "idle")
    /\ UNCHANGED << setting, status, fixtures, want, plan >>

\* if pending.exists(): return
CheckRoundDone(w) ==
    /\ pc[w] = "pending"
    /\ LET table == IF Trigger(w).group # 0 THEN GroupFixtures
                    ELSE KnockoutRound(Trigger(w).round)
       IN  Goto(w, IF AllDone(table) THEN "exists" ELSE "idle")
    /\ UNCHANGED << setting, status, fixtures, want, plan >>

\* Not the code: the next round is always taken to be missing.
CheckNothing(w) ==
    /\ pc[w] = "exists"
    /\ Goto(w, "winners")
    /\ UNCHANGED << setting, status, fixtures, want, plan >>

\* The idempotency check.
CheckNextRound(w) ==
    /\ pc[w] = "exists"
    /\ Goto(w, IF DOMAIN KnockoutRound(NextRound(Trigger(w))) = {}
               THEN "winners" ELSE "idle")
    /\ UNCHANGED << setting, status, fixtures, want, plan >>

\* A bye and a draw send the home team on.
Winner(f) ==
    IF ~ f.bye /\ f.score[2] > f.score[1] THEN f.away ELSE f.home

Winners(r) ==
    LET played == InOrder(DOMAIN RestrictValues(KnockoutRound(r), LAMBDA f : f.done))
    IN  [k \in DOMAIN played |-> Winner(fixtures[played[k]])]

GroupTables ==
    [g \in 1 .. NumGroups(setting.n) |->
        Standings(RestrictValues(fixtures, LAMBDA f : f.group = g), Name)]

\* Not the code: the third of a group goes on instead of the second.
CrossSeedsThird(tables) ==
    [g \in DOMAIN tables |-> << tables[g][1], tables[Len(tables) + 1 - g][3] >>]

\* Group winners against runners-up, the first group's against the last's.
CrossSeeds(tables) ==
    [g \in DOMAIN tables |-> << tables[g][1], tables[Len(tables) + 1 - g][2] >>]

\* With fewer than two teams in a table there is not enough data.
SeedKnockout(w) ==
    /\ pc[w] = "winners"
    /\ Trigger(w).group # 0
    /\ LET tables == GroupTables
       IN  IF \A g \in DOMAIN tables : Len(tables[g]) >= 2
           THEN /\ plan' = [plan EXCEPT ![w] = Matches(1, CrossSeeds(tables))]
                /\ Goto(w, "create")
           ELSE Goto(w, "idle") /\ UNCHANGED plan
    /\ UNCHANGED << setting, status, fixtures, want >>

\* The winners are read and paired; one winner ends the tournament.
ReadWinners(w) ==
    /\ pc[w] = "winners"
    /\ Trigger(w).group = 0
    /\ NextRound(Trigger(w)) <= setting.rounds
    /\ LET pairs == Inward(Winners(Trigger(w).round))
       IN  /\ plan' = [plan EXCEPT ![w] = Matches(NextRound(Trigger(w)), pairs)]
           /\ Goto(w, IF pairs = << >> THEN "finish" ELSE "create")
    /\ UNCHANGED << setting, status, fixtures, want >>

\* bulk_create, one transaction
CreateRound(w) ==
    /\ pc[w] = "create"
    /\ fixtures' = fixtures \o plan[w]
    /\ plan' = [plan EXCEPT ![w] = << >>]
    /\ Goto(w, "idle")
    /\ UNCHANGED << setting, status, want >>

Finish(w) ==
    /\ pc[w] = "finish"
    /\ status' = "completed"
    /\ Goto(w, "idle")
    /\ UNCHANGED << setting, fixtures, want, plan >>

\* The process dies; what it committed stays.
Crash(w) ==
    /\ setting.crashes
    /\ pc[w] # "idle"
    /\ plan' = [plan EXCEPT ![w] = << >>]
    /\ Goto(w, "idle")
    /\ UNCHANGED << setting, status, fixtures, want >>

-----------------------------------------------------------------------------
WorkerStep(w) ==
    \/ SaveScore(w) \/ CheckRoundDone(w) \/ CheckNextRound(w)
    \/ SeedKnockout(w) \/ ReadWinners(w) \/ CreateRound(w) \/ Finish(w)

Next ==
    \/ \E w \in Workers : CheckInProgress(w) \/ WorkerStep(w) \/ Crash(w)
    \/ Complete

Spec == Init /\ [][Next]_vars

-----------------------------------------------------------------------------
(* Properties *)

\* Requests of the organizer do not overlap.
OneThread == \E w \in Workers : setting.threads = {w}

TypeOK ==
    /\ status \in {"in_progress", "completed"}
    /\ \A f \in Range(fixtures) :
          /\ f.home \in 1 .. setting.n
          /\ f.away \in 1 .. setting.n \cup {NoTeam}
          /\ f.away = NoTeam <=> f.bye
          /\ OneThread => f.home # f.away
          /\ f.score \in setting.scores \cup {<< 0, 0 >>}
    /\ pc \in [Workers -> {"idle", "save", "pending", "exists", "winners", "create", "finish"}]

Idle == \A w \in Workers : pc[w] = "idle"

HasRounds == setting.format # "round_robin"

Rounds == {f.round : f \in Range(fixtures)}

Pair(f) == {f.home, f.away} \ {NoTeam}

TeamsOf(table) == UNION {Pair(f) : f \in Range(table)}

\* The teams that play each other all: the whole field, or a group.
Fields ==
    IF setting.format = "round_robin"
    THEN {[group |-> 0, teams |-> 1 .. setting.n]}
    ELSE {[group |-> g, teams |-> Range(GroupTeams(setting.n, g))] : g \in 1 .. NumGroups(setting.n)}

NothingPlayed == setting.format # "knockout" /\ \A f \in Range(fixtures) : ~ f.done

\* Every two teams of a field meet exactly once, be their number odd or even:
\* N*(N-1)/2 unique fixtures (the docstring of _generate_round_robin).
EveryPairOnce ==
    NothingPlayed =>
        \A x \in Fields :
            LET table == RestrictValues(fixtures, LAMBDA f : f.group = x.group)
            IN  /\ 2 * Cardinality(DOMAIN table) = Cardinality(x.teams) * (Cardinality(x.teams) - 1)
                /\ {{f.home, f.away} : f \in Range(table)} = kSubset(2, x.teams)

\* All fixtures of a day start at 18:00, and a day holds fixtures of two
\* rounds when N is even: still no team has two fixtures on one day.
OncePerDay ==
    NothingPlayed =>
        \A x \in Fields : \A f, g \in Range(fixtures) :
            LET day(h) == Day(Cardinality(x.teams), h.round)
            IN  (f # g /\ f.group = x.group /\ g.group = x.group /\ day(f) = day(g))
                    => {f.home, f.away} \cap {g.home, g.away} = {}

\* Home and away alternate: with three or more teams none plays all its
\* fixtures away (the comment "Alternate home/away across rounds to balance").
EveryTeamHosts ==
    NothingPlayed =>
        \A x \in Fields :
            Cardinality(x.teams) >= 3 =>
                \A t \in x.teams : \E f \in Range(fixtures) : f.home = t

\* A team has one fixture per knockout round, however often scores are
\* corrected and whenever a process dies: the check for an existing round
\* keeps maybe_generate_next_round idempotent, as long as requests do not
\* overlap.
OneFixturePerRound ==
    (HasRounds /\ OneThread) =>
        \A r \in Rounds :
            LET table == KnockoutRound(r)
            IN  \A j, k \in DOMAIN table :
                    j # k => Pair(table[j]) \cap Pair(table[k]) = {}

\* A knockout round is made of all winners of the round before, byes
\* included, and of nobody else, unless a score is corrected later.
RoundHoldsWinners ==
    (HasRounds /\ OneThread /\ ~ setting.corrections) =>
        \A r \in Rounds :
            (DOMAIN KnockoutRound(r) # {} /\ DOMAIN KnockoutRound(r + 1) # {})
                => TeamsOf(KnockoutRound(r + 1)) = Range(Winners(r))

\* A round, and the knockout stage after the groups, starts when every
\* fixture before it is played, whatever is corrected and whenever a process
\* dies.
NoRoundTooEarly ==
    (HasRounds /\ OneThread) =>
        \A f, g \in Range(fixtures) :
            (f.group = 0 /\ (g.group # 0 \/ g.round < f.round)) => g.done

\* The two top seeds, who are paired from the outside in, can only meet in
\* the final.
TopSeedsMeetLast ==
    (setting.format = "knockout" /\ OneThread) =>
        \A k \in DOMAIN fixtures :
            {fixtures[k].home, fixtures[k].away} = {1, 2} =>
                DOMAIN KnockoutRound(fixtures[k].round) = {k}

\* A tournament never gets stuck, also when two threads enter the last scores
\* of a round at once: while it is in progress and no request is running,
\* there is a fixture left to enter.
SomethingToPlay ==
    (status = "in_progress" /\ Idle /\ ~ setting.crashes) => Open # {}

\* The code completes a tournament by itself only after its last fixture.
CompletedWhenPlayed ==
    [][(\E w \in Workers : Finish(w)) => Open = {}]_vars

\* It does so when there is a knockout stage and requests do not overlap.
BracketCompletedWhenPlayed ==
    [][(HasRounds /\ OneThread /\ \E w \in Workers : Finish(w)) => Open = {}]_vars

\* From the seeding of the knockout stage two of each group play in it, and
\* nobody who stays behind has more points, or as many points and a better
\* goal difference, unless a score is corrected later.
BestTwoAdvance ==
    (setting.format = "group_knockout" /\ OneThread /\ ~ setting.corrections
        /\ DOMAIN KnockoutRound(1) # {}) =>
        \A x \in Fields :
            LET table == RestrictValues(fixtures, LAMBDA f : f.group = x.group)
                through == x.teams \cap TeamsOf(KnockoutRound(1))
            IN  /\ Cardinality(through) = 2
                /\ \A t \in through, u \in x.teams \ through :
                      \/ Points(t, table) > Points(u, table)
                      \/ /\ Points(t, table) = Points(u, table)
                         /\ Difference(t, table) >= Difference(u, table)

\* The standings order: points, then goal difference, then goals for, then
\* the result between the two teams if nobody else is tied with them.
TiebreakerOrder ==
    (setting.format = "round_robin" /\ Idle) =>
        LET table == Counted(fixtures)
            order == Standings(table, Name)
            key == [t \in Ranked(table) |->
                       << Points(t, table), Difference(t, table), GoalsFor(t, table) >>]
            HeadToHead(t, u) ==
                Cardinality({v \in Ranked(table) : key[v] = key[t]}) = 2 =>
                    \A f \in Range(Mutual({t, u}, table)) : For(t, f) >= For(u, f)
        IN  /\ Range(order) = Ranked(table)
            /\ \A j, k \in DOMAIN order :
                  j < k => \/ Precedes(key[order[k]], key[order[j]])
                           \/ key[order[j]] = key[order[k]] /\ HeadToHead(order[j], order[k])

===============================================================================
