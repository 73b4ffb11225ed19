------------------------- MODULE TournamentPlayProofs -------------------------
(***************************************************************************)
(* What TournamentPlay keeps true for every tournament, every set of       *)
(* threads and every score.                                                *)
(***************************************************************************)
EXTENDS TournamentPlay, FixturesProofs

-----------------------------------------------------------------------------
(* The draw of a field *)

\* The sets of two teams are the sets of two different ones.
LEMMA PairsAreTwo ==
    ASSUME NEW T, IsFiniteSet(T)
    PROVE  \A s : s \in kSubset(2, T) <=> \E x, y \in T : x # y /\ s = {x, y}
<1>1. ASSUME NEW x \in T, NEW y \in T, x # y
      PROVE  {x, y} \in kSubset(2, T)
  <2>1. IsFiniteSet({x}) /\ Cardinality({x}) = 1
    BY FS_Singleton
  <2>2. Cardinality({x} \cup {y}) = 2
    BY <1>1, <2>1, FS_AddElement
  <2>3. {x} \cup {y} = {x, y}
    OBVIOUS
  <2> QED
    BY <2>2, <2>3 DEF kSubset
<1>2. ASSUME NEW s \in kSubset(2, T)
      PROVE  \E x, y \in T : x # y /\ s = {x, y}
  <2>1. s \in SUBSET T /\ Cardinality(s) = 2
    BY DEF kSubset
  <2>2. IsFiniteSet(s)
    BY <2>1, FS_Subset
  <2>3. PICK x \in s : TRUE
    BY <2>1, <2>2, FS_EmptySet
  <2>4. IsFiniteSet(s \ {x}) /\ Cardinality(s \ {x}) = 1
    BY <2>1, <2>2, <2>3, FS_RemoveElement
  <2>5. PICK y : s \ {x} = {y}
    BY <2>4, FS_Singleton
  <2>6. x \in T /\ y \in T /\ x # y /\ s = {x, y}
    BY <2>1, <2>3, <2>5
  <2> QED
    BY <2>6
<1> QED
  BY <1>1, <1>2

\* What was said of a league, said of the rows of its group.
EveryPairIn(table, teams) ==
    /\ 2 * Cardinality(DOMAIN table) = Cardinality(teams) * (Cardinality(teams) - 1)
    /\ {{f.home, f.away} : f \in Range(table)} = kSubset(2, teams)

NoneTwiceADay(rows, group, teams) ==
    \A f, g \in Range(rows) :
        LET day(h) == Day(Cardinality(teams), h.round)
        IN  (f # g /\ f.group = group /\ g.group = group /\ day(f) = day(g))
                => {f.home, f.away} \cap {g.home, g.away} = {}

\* The rows that belong to a league keep its two promises.
LEMMA LeagueIsDrawn ==
    ASSUME NEW T, IsFiniteSet(T), NEW c, c = Cardinality(T), NEW g, NEW N, NEW table,
           League(table, N, T, c, g),
           NEW n \in Nat, NEW rows \in Seq(AnyFixture(n)), Selects(rows, g, table, N)
    PROVE  /\ EveryPairIn(RestrictValues(rows, LAMBDA f : f.group = g), T)
           /\ NoneTwiceADay(rows, g, T)
<1>1. PICK off \in Nat :
         /\ off + 1 .. off + N \subseteq DOMAIN rows
         /\ \A k \in DOMAIN rows : rows[k].group = g <=> k \in off + 1 .. off + N
         /\ \A j \in 1 .. N : rows[off + j] = table[j]
  BY DEF Selects
<1>2. N \in Nat \ {0} /\ 2 * N = c * (c - 1) /\ DOMAIN rows \in SUBSET Nat
  BY DEF League
<1> DEFINE selected == RestrictValues(rows, LAMBDA f : f.group = g)
<1>3. /\ DOMAIN selected = off + 1 .. off + N
      /\ \A k \in off + 1 .. off + N : selected[k] = rows[k]
  BY <1>1 DEF RestrictValues, Restrict
<1>4. ASSUME NEW k \in off + 1 .. off + N
      PROVE  k - off \in 1 .. N /\ rows[k] = table[k - off]
  <2>1. k - off \in 1 .. N /\ off + (k - off) = k
    BY <1>2
  <2> QED
    BY <1>1, <2>1
<1>5. ASSUME NEW j \in 1 .. N
      PROVE  off + j \in off + 1 .. off + N /\ rows[off + j] = table[j]
  BY <1>1, <1>2
<1> HIDE DEF selected
<1>6. Cardinality(DOMAIN selected) = N
  BY <1>2, <1>3, FS_Interval
<1>7. ASSUME NEW s
      PROVE  s \in {{f.home, f.away} : f \in Range(selected)} <=> s \in kSubset(2, T)
  <2>1. ASSUME NEW f \in Range(selected), s = {f.home, f.away}
        PROVE  s \in kSubset(2, T)
    <3>1. PICK k \in off + 1 .. off + N : f = rows[k]
      BY <1>3, <2>1 DEF Range
    <3>2. f = table[k - off] /\ k - off \in 1 .. N
      BY <1>4, <3>1
    <3>3. f.home \in T /\ f.away \in T /\ f.home # f.away
      BY <3>2 DEF League
    <3> QED
      BY <2>1, <3>3, PairsAreTwo
  <2>2. ASSUME s \in kSubset(2, T)
        PROVE  \E f \in Range(selected) : s = {f.home, f.away}
    <3>1. PICK x, y \in T : x # y /\ s = {x, y}
      BY <2>2, PairsAreTwo
    <3>2. PICK j \in 1 .. N : {table[j].home, table[j].away} = {x, y}
      BY <3>1 DEF League
    <3>3. selected[off + j] = table[j] /\ off + j \in DOMAIN selected
      BY <1>3, <1>5
    <3>4. table[j] \in Range(selected)
      BY <3>3 DEF Range
    <3> QED
      BY <3>1, <3>2, <3>4
  <2> QED
    BY <2>1, <2>2
<1>8. EveryPairIn(selected, T)
  BY <1>2, <1>6, <1>7 DEF EveryPairIn
<1>9. ASSUME NEW f \in Range(rows), NEW h \in Range(rows), f # h, f.group = g, h.group = g,
             Day(Cardinality(T), f.round) = Day(Cardinality(T), h.round)
      PROVE  {f.home, f.away} \cap {h.home, h.away} = {}
  <2>1. PICK k \in DOMAIN rows, l \in DOMAIN rows : f = rows[k] /\ h = rows[l]
    BY DEF Range
  <2>2. k \in off + 1 .. off + N /\ l \in off + 1 .. off + N
    BY <1>1, <1>9, <2>1
  <2> DEFINE i == k - off
             j == l - off
  <2>3. i \in 1 .. N /\ f = table[i] /\ j \in 1 .. N /\ h = table[j]
    BY <1>4, <2>1, <2>2
  <2> HIDE DEF i, j
  <2>4. f = Fixture(i, g, f.home, f.away) /\ h = Fixture(j, g, h.home, h.away)
    BY <2>3 DEF League
  <2>5. f.round = i /\ h.round = j
    BY <2>4 DEF Fixture
  <2>6. i # j /\ Day(c, i) = Day(c, j)
    BY <1>9, <2>3, <2>5
  <2>7. {table[i].home, table[i].away} \cap {table[j].home, table[j].away} = {}
    BY <2>3, <2>6 DEF League
  <2> QED
    BY <2>3, <2>7
<1>10. NoneTwiceADay(rows, g, T)
  BY <1>9 DEF NoneTwiceADay
<1> QED
  BY <1>8, <1>10 DEF selected

-----------------------------------------------------------------------------
(* The rows and the requests *)

DrawnRows == Generated(setting.format, setting.n)

\* A tournament that is drawn: its rows, and what their format says of them.
DrawnFor(rows, x) ==
    /\ rows \in Seq(AnyFixture(x.n)) /\ rows # << >>
    /\ \A k \in DOMAIN rows : Fresh(rows[k])
    /\ x.format = "round_robin" =>
          \A k \in DOMAIN rows : rows[k].group = 0 /\ rows[k].round = k /\ ~ rows[k].bye
    /\ x.format = "knockout" => \A k \in DOMAIN rows : rows[k].group = 0 /\ rows[k].round = 1
    /\ x.format = "group_knockout" =>
          \A k \in DOMAIN rows : rows[k].group \in 1 .. NumGroups(x.n) /\ ~ rows[k].bye

\* The smallest tournament with groups has eight teams.
LEMMA GroupSizeIsLarge ==
    ASSUME NEW x \in Settings, x.format = "group_knockout"
    PROVE  x.n \in Nat /\ x.n >= 8
<1>1. x.n \in Nat /\ x.n \in ValidGroupKoSizes
  BY SettingsAssumption
<1> QED
  BY <1>1 DEF ValidGroupKoSizes

\* Every tournament is drawn as its format says.
LEMMA SettingIsDrawn ==
    ASSUME NEW x \in Settings
    PROVE  DrawnFor(Generated(x.format, x.n), x)
<1>1. x.format \in TournamentFormat /\ x.n \in Nat \ {0, 1}
  BY SettingsAssumption
<1>2. x.n \in Nat /\ x.n >= 2
  BY <1>1
<1>3. CASE x.format = "round_robin"
  <2> DEFINE rows == Generated("round_robin", x.n)
  <2>1. /\ League(rows, FieldLength(x.n), 1 .. x.n, x.n, 0)
        /\ rows \in Seq(AnyFixture(x.n)) /\ Scheduled(rows, {0})
    BY <1>2, FieldIsLeague
  <2> HIDE DEF rows
  <2>2. \A k \in DOMAIN rows : Fresh(rows[k])
    BY <1>2, <2>1, LeagueIsFresh
  <2>3. ASSUME NEW k \in DOMAIN rows
        PROVE  rows[k].group = 0 /\ rows[k].round = k /\ ~ rows[k].bye
    <3>1. rows[k] = Fixture(k, 0, rows[k].home, rows[k].away)
      BY <2>1 DEF League
    <3> QED
      BY <3>1 DEF Fixture
  <2>4. rows # << >>
    <3>1. 1 \in DOMAIN rows
      BY <2>1 DEF League
    <3> QED
      BY <3>1
  <2>5. rows = Generated(x.format, x.n)
    BY <1>3 DEF rows
  <2> QED
    BY <1>3, <2>1, <2>2, <2>3, <2>4, <2>5 DEF DrawnFor
<1>4. CASE x.format = "knockout"
  <2>1. Generated(x.format, x.n) = KnockoutRound1(x.n)
    BY <1>4 DEF Generated
  <2> QED
    BY <1>2, <1>4, <2>1, BracketIsFresh DEF DrawnFor
<1>5. CASE x.format = "group_knockout"
  <2>1. Generated(x.format, x.n) = GroupStage(x.n)
    BY <1>5 DEF Generated
  <2> DEFINE rows == GroupStage(x.n)
  <2>2. x.n \in Nat /\ x.n >= 8
    BY <1>5, GroupSizeIsLarge
  <2>3. /\ rows \in Seq(AnyFixture(x.n)) /\ Scheduled(rows, 1 .. NumGroups(x.n))
        /\ Selects(rows, 1, GroupTable(x.n, 1), GroupLength(x.n, 1))
    BY <2>2, StageOfLeagues DEF NumGroups
  <2>4. \A k \in DOMAIN rows : Fresh(rows[k])
    BY <2>2, StageIsFresh
  <2>5. League(GroupTable(x.n, 1), GroupLength(x.n, 1), Keys(x.n, 1), Cardinality(Keys(x.n, 1)), 1)
    <3>1. 1 \in 1 .. NumGroups(x.n)
      BY DEF NumGroups
    <3> QED
      BY <2>2, <3>1, GroupIsLeague
  <2> HIDE DEF rows
  <2>6. rows # << >>
    <3>1. PICK off \in Nat : off + 1 .. off + GroupLength(x.n, 1) \subseteq DOMAIN rows
      BY <2>3 DEF Selects
    <3>2. GroupLength(x.n, 1) \in Nat \ {0}
      BY <2>5 DEF League
    <3>3. off + 1 \in DOMAIN rows
      BY <3>1, <3>2
    <3> QED
      BY <3>3
  <2>7. \A k \in DOMAIN rows : rows[k].group \in 1 .. NumGroups(x.n) /\ ~ rows[k].bye
    BY <2>3 DEF Scheduled
  <2>8. rows = Generated(x.format, x.n)
    BY <2>1 DEF rows
  <2> QED
    BY <1>5, <2>3, <2>4, <2>6, <2>7, <2>8 DEF DrawnFor
<1> QED
  BY <1>1, <1>3, <1>4, <1>5 DEF TournamentFormat

SameMatch(f, g) ==
    /\ f.round = g.round /\ f.group = g.group
    /\ f.home = g.home /\ f.away = g.away /\ f.bye = g.bye

\* A fixture of a later round.
Added(f) == f.group = 0 /\ ~ f.bye /\ f.away # NoTeam

\* The first rows are the drawn ones, and an open one is as it was drawn.
RowsInv ==
    /\ fixtures \in Seq(AnyFixture(setting.n))
    /\ DOMAIN DrawnRows \subseteq DOMAIN fixtures
    /\ \A k \in DOMAIN DrawnRows :
          /\ SameMatch(fixtures[k], DrawnRows[k])
          /\ fixtures[k].done \/ fixtures[k] = DrawnRows[k]
    /\ \A k \in DOMAIN fixtures \ DOMAIN DrawnRows : Added(fixtures[k])
    /\ DOMAIN fixtures # DOMAIN DrawnRows => \E k \in DOMAIN fixtures : fixtures[k].done

Labels == {"idle", "save", "pending", "exists", "winners", "create", "finish"}

Request(w) ==
    /\ w \in setting.threads
    /\ want[w][1] \in DOMAIN fixtures
    /\ want[w][2] \in setting.scores
    /\ ~ Trigger(w).bye
    /\ pc[w] # "save" => Trigger(w).done

RequestsInv ==
    /\ setting \in Settings
    /\ status \in {"in_progress", "completed"}
    /\ pc \in [Workers -> Labels]
    /\ want \in [Workers -> Nat \X (Nat \X Nat)]
    /\ plan \in [Workers -> Seq(AnyFixture(setting.n))]
    /\ \A w \in Workers : pc[w] # "idle" => Request(w)
    /\ \A w \in Workers : \A k \in DOMAIN plan[w] : Added(plan[w][k])

PlayInv == RowsInv /\ RequestsInv

\* A function on 1 .. N is a sequence.
LEMMA ListIsSeq ==
    ASSUME NEW S, NEW N \in Nat, NEW list \in [1 .. N -> S]
    PROVE  list \in Seq(S) /\ DOMAIN list = 1 .. N /\ Len(list) = N
OBVIOUS

\* What SaveScore does to a table.
Saved(rows, i, s, after) == after = [rows EXCEPT ![i].score = s, ![i].done = TRUE]

\* A saved score changes the score and the status of one row.
LEMMA SavedRow ==
    ASSUME NEW n, NEW rows \in Seq(AnyFixture(n)), NEW i \in DOMAIN rows,
           NEW s \in Nat \X Nat, NEW after, Saved(rows, i, s, after)
    PROVE  /\ after \in Seq(AnyFixture(n)) /\ DOMAIN after = DOMAIN rows /\ Len(after) = Len(rows)
           /\ \A k \in DOMAIN rows : SameMatch(after[k], rows[k])
           /\ \A k \in DOMAIN rows : k # i => after[k] = rows[k]
           /\ after[i].done /\ after[i].score = s
<1> DEFINE f == rows[i]
           g == [f EXCEPT !.score = s]
           h == [g EXCEPT !.done = TRUE]
<1>1. f \in AnyFixture(n)
  OBVIOUS
<1>2. after = [rows EXCEPT ![i] = h]
  BY DEF Saved
<1> HIDE DEF f
<1>3. g \in AnyFixture(n) /\ SameMatch(g, f) /\ g.score = s
  BY <1>1 DEF AnyFixture, SameMatch
<1> HIDE DEF g
<1>4. h \in AnyFixture(n) /\ SameMatch(h, f) /\ h.score = s /\ h.done
  BY <1>3 DEF AnyFixture, SameMatch
<1> HIDE DEF h
<1>5. \A k \in DOMAIN rows : SameMatch(rows[k], rows[k])
  BY DEF SameMatch
<1>6. after \in Seq(AnyFixture(n)) /\ DOMAIN after = DOMAIN rows /\ Len(after) = Len(rows)
  <2> DEFINE N == Len(rows)
  <2>1. DOMAIN rows = 1 .. N /\ N \in Nat /\ \A k \in 1 .. N : rows[k] \in AnyFixture(n)
    OBVIOUS
  <2> HIDE DEF N
  <2>2. \A k \in 1 .. N : after[k] = IF k = i THEN h ELSE rows[k]
    BY <1>2, <2>1
  <2>3. \A k \in 1 .. N : after[k] \in AnyFixture(n)
    BY <1>4, <2>1, <2>2
  <2>4. after = [k \in 1 .. N |-> after[k]]
    BY <1>2, <2>1
  <2>5. after \in [1 .. N -> AnyFixture(n)]
    BY <2>3, <2>4
  <2>6. after \in Seq(AnyFixture(n)) /\ DOMAIN after = 1 .. N /\ Len(after) = N
    BY <2>1, <2>5, ListIsSeq, Zenon
  <2> QED
    BY <2>1, <2>6 DEF N
<1>7. /\ \A k \in DOMAIN rows : k # i => after[k] = rows[k]
      /\ after[i] = h
  BY <1>2
<1> QED
  BY <1>4, <1>5, <1>6, <1>7 DEF f

\* A drawn tournament satisfies the invariant.
LEMMA PlayInvInit == Init => PlayInv
<1> SUFFICES ASSUME Init PROVE PlayInv
  OBVIOUS
<1>1. setting \in Settings /\ fixtures = DrawnRows
  BY DEF Init, DrawnRows
<1>2. DrawnFor(DrawnRows, setting)
  BY <1>1, SettingIsDrawn DEF DrawnRows
<1>3. RowsInv
  <2>1. \A k \in DOMAIN DrawnRows : SameMatch(DrawnRows[k], DrawnRows[k])
    BY DEF SameMatch
  <2> QED
    BY <1>1, <1>2, <2>1 DEF RowsInv, DrawnFor
<1>4. RequestsInv
  <2>1. pc = [w \in Workers |-> "idle"] /\ plan = [w \in Workers |-> << >>]
        /\ want = [w \in Workers |-> << 0, << 0, 0 >> >>] /\ status = "in_progress"
    BY DEF Init
  <2> QED
    BY <1>1, <2>1 DEF RequestsInv, Labels
<1> QED
  BY <1>3, <1>4 DEF PlayInv

\* A request that stays at its statement, or moves on, while rows are only
\* played and added.
LEMMA RequestStays ==
    ASSUME NEW w, Request(w), setting' = setting, want'[w] = want[w],
           pc[w] # "save" \/ pc'[w] = "save",
           DOMAIN fixtures \subseteq DOMAIN fixtures',
           \A k \in DOMAIN fixtures :
              /\ fixtures'[k].bye = fixtures[k].bye
              /\ fixtures[k].done => fixtures'[k].done
    PROVE  Request(w)'
BY DEF Request, Trigger

\* The request that is accepted is for a fixture of the table.
LEMMA PlayInvCheckInProgress ==
    ASSUME PlayInv, NEW w \in Workers, CheckInProgress(w)
    PROVE  PlayInv'
<1>1. /\ w \in setting.threads /\ pc[w] = "idle" /\ pc' = [pc EXCEPT ![w] = "save"]
      /\ UNCHANGED << setting, status, fixtures, plan >>
  BY DEF CheckInProgress, Goto
<1>2. PICK k \in Enterable, s \in setting.scores : want' = [want EXCEPT ![w] = << k, s >>]
  BY DEF CheckInProgress
<1>3. k \in DOMAIN fixtures /\ ~ fixtures[k].bye /\ k \in Nat
  BY DEF Enterable, PlayInv, RowsInv
<1>4. s \in Nat \X Nat
  BY SettingsAssumption DEF PlayInv, RequestsInv
<1>5. RowsInv'
  BY <1>1 DEF PlayInv, RowsInv, DrawnRows
<1>6. want'[w] = << k, s >> /\ pc'[w] = "save" /\ \A v \in Workers : v # w =>
        want'[v] = want[v] /\ pc'[v] = pc[v]
  BY <1>1, <1>2 DEF PlayInv, RequestsInv
<1>7. ASSUME NEW v \in Workers, pc'[v] # "idle"
      PROVE  Request(v)'
  <2>1. CASE v = w
    BY <1>1, <1>3, <1>6, <2>1 DEF Request, Trigger
  <2>2. CASE v # w
    <3>1. Request(v) /\ want'[v] = want[v] /\ pc'[v] = pc[v]
      BY <1>6, <1>7, <2>2 DEF PlayInv, RequestsInv
    <3> QED
      BY <1>1, <3>1 DEF Request, Trigger
  <2> QED
    BY <2>1, <2>2
<1>8. RequestsInv'
  BY <1>1, <1>2, <1>3, <1>4, <1>7 DEF PlayInv, RequestsInv, Labels
<1> QED
  BY <1>5, <1>8 DEF PlayInv

\* What a saved score leaves as it was.
SavedAt(i) ==
    /\ i \in DOMAIN fixtures
    /\ fixtures' \in Seq(AnyFixture(setting.n))
    /\ DOMAIN fixtures' = DOMAIN fixtures /\ Len(fixtures') = Len(fixtures)
    /\ \A k \in DOMAIN fixtures : SameMatch(fixtures'[k], fixtures[k])
    /\ \A k \in DOMAIN fixtures : k # i => fixtures'[k] = fixtures[k]
    /\ fixtures'[i].done

\* SaveScore in terms of Saved.
LEMMA ScoreIsSaved ==
    ASSUME PlayInv, NEW w \in Workers, SaveScore(w)
    PROVE  /\ SavedAt(want[w][1])
           /\ pc[w] = "save" /\ pc' = [pc EXCEPT ![w] = "pending"] /\ Request(w)
           /\ UNCHANGED << setting, status, want, plan >>
<1>1. /\ pc[w] = "save" /\ pc' = [pc EXCEPT ![w] = "pending"]
      /\ fixtures' = [fixtures EXCEPT ![want[w][1]].score = want[w][2],
                                      ![want[w][1]].done = TRUE]
      /\ UNCHANGED << setting, status, want, plan >>
  BY DEF SaveScore, Goto
<1>2. Request(w) /\ fixtures \in Seq(AnyFixture(setting.n)) /\ want[w][2] \in Nat \X Nat
  BY <1>1 DEF PlayInv, RowsInv, RequestsInv
<1>3. want[w][1] \in DOMAIN fixtures
  BY <1>2 DEF Request
<1>4. SavedAt(want[w][1])
  <2> DEFINE i == want[w][1]
             s == want[w][2]
             after == fixtures'
  <2>1. i \in DOMAIN fixtures /\ s \in Nat \X Nat /\ fixtures \in Seq(AnyFixture(setting.n))
        /\ Saved(fixtures, i, s, after)
    BY <1>1, <1>2, <1>3 DEF Saved
  <2> HIDE DEF i, s, after
  <2>2. /\ after \in Seq(AnyFixture(setting.n)) /\ DOMAIN after = DOMAIN fixtures
        /\ Len(after) = Len(fixtures)
        /\ \A k \in DOMAIN fixtures : SameMatch(after[k], fixtures[k])
        /\ \A k \in DOMAIN fixtures : k # i => after[k] = fixtures[k]
        /\ after[i].done /\ after[i].score = s
    BY <2>1, SavedRow
  <2> QED
    BY <2>1, <2>2 DEF SavedAt, i, after
<1> QED
  BY <1>1, <1>2, <1>4

\* A score is entered in the row the request names.
LEMMA PlayInvSaveScore ==
    ASSUME PlayInv, NEW w \in Workers, SaveScore(w)
    PROVE  PlayInv'
<1> DEFINE i == want[w][1]
<1>1. /\ SavedAt(i) /\ Request(w)
      /\ pc[w] = "save" /\ pc' = [pc EXCEPT ![w] = "pending"]
      /\ UNCHANGED << setting, status, want, plan >>
  BY ScoreIsSaved
<1>2. RowsInv'
  <2>1. DrawnRows' = DrawnRows
    BY <1>1 DEF DrawnRows
  <2>2. ASSUME NEW k \in DOMAIN DrawnRows
        PROVE  /\ SameMatch(fixtures'[k], DrawnRows[k])
               /\ fixtures'[k].done \/ fixtures'[k] = DrawnRows[k]
    <3>1. k \in DOMAIN fixtures /\ SameMatch(fixtures[k], DrawnRows[k])
          /\ (fixtures[k].done \/ fixtures[k] = DrawnRows[k])
      BY DEF PlayInv, RowsInv
    <3>2. SameMatch(fixtures'[k], fixtures[k]) /\ (k # i => fixtures'[k] = fixtures[k])
          /\ fixtures'[i].done
      BY <1>1, <3>1 DEF SavedAt
    <3> QED
      BY <3>1, <3>2 DEF SameMatch
  <2>3. ASSUME NEW k \in DOMAIN fixtures \ DOMAIN DrawnRows
        PROVE  Added(fixtures'[k])
    <3>1. Added(fixtures[k])
      BY DEF PlayInv, RowsInv
    <3>2. SameMatch(fixtures'[k], fixtures[k])
      BY <1>1 DEF SavedAt
    <3> QED
      BY <3>1, <3>2 DEF SameMatch, Added
  <2>4. i \in DOMAIN fixtures /\ fixtures'[i].done
    BY <1>1 DEF SavedAt
  <2> HIDE DEF i
  <2>5. DOMAIN fixtures' = DOMAIN fixtures /\ fixtures' \in Seq(AnyFixture(setting'.n))
    BY <1>1 DEF SavedAt
  <2>6. DOMAIN DrawnRows \subseteq DOMAIN fixtures
    BY DEF PlayInv, RowsInv
  <2> QED
    BY <2>1, <2>2, <2>3, <2>4, <2>5, <2>6 DEF RowsInv
<1>3. ASSUME NEW v \in Workers, pc'[v] # "idle"
      PROVE  Request(v)'
  <2>1. DOMAIN fixtures \subseteq DOMAIN fixtures' /\ fixtures'[i].done
        /\ \A k \in DOMAIN fixtures :
              /\ fixtures'[k].bye = fixtures[k].bye
              /\ fixtures[k].done => fixtures'[k].done
    BY <1>1 DEF SavedAt, SameMatch
  <2>2. CASE v = w
    BY <1>1, <2>1, <2>2 DEF Request, Trigger
  <2>3. CASE v # w
    <3>1. pc'[v] = pc[v]
      BY <1>1, <2>3 DEF PlayInv, RequestsInv
    <3>2. Request(v) /\ want'[v] = want[v] /\ setting' = setting
          /\ (pc[v] # "save" \/ pc'[v] = "save")
      BY <1>1, <1>3, <3>1 DEF PlayInv, RequestsInv
    <3> QED
      BY <2>1, <3>2, RequestStays
  <2> QED
    BY <2>2, <2>3
<1>4. RequestsInv'
  BY <1>1, <1>3 DEF PlayInv, RequestsInv, Labels
<1> QED
  BY <1>2, <1>4 DEF PlayInv

\* Every row is a fixture of the tournament's teams.
LEMMA RowsAreFresh ==
    ASSUME PlayInv, NEW k \in DOMAIN fixtures
    PROVE  /\ fixtures[k] \in AnyFixture(setting.n)
           /\ fixtures[k].away = NoTeam <=> fixtures[k].bye
<1>1. fixtures[k] \in AnyFixture(setting.n)
  BY DEF PlayInv, RowsInv
<1>2. CASE k \in DOMAIN DrawnRows
  <2>1. SameMatch(fixtures[k], DrawnRows[k])
    BY <1>2 DEF PlayInv, RowsInv
  <2>2. Fresh(DrawnRows[k])
    BY <1>2, SettingIsDrawn DEF DrawnRows, DrawnFor, PlayInv, RequestsInv
  <2> QED
    BY <1>1, <2>1, <2>2 DEF SameMatch, Fresh
<1>3. CASE k \notin DOMAIN DrawnRows
  <2>1. Added(fixtures[k])
    BY <1>3 DEF PlayInv, RowsInv
  <2> QED
    BY <1>1, <2>1 DEF Added
<1> QED
  BY <1>2, <1>3

RoundRows(r) == {k \in DOMAIN fixtures : fixtures[k].group = 0 /\ fixtures[k].round = r}

PlayedRows(r) == {k \in RoundRows(r) : fixtures[k].done}

\* The queries for a round, in terms of its rows.
LEMMA RoundIsRows ==
    ASSUME NEW r
    PROVE  /\ DOMAIN KnockoutRound(r) = RoundRows(r)
           /\ \A k \in RoundRows(r) : KnockoutRound(r)[k] = fixtures[k]
           /\ DOMAIN RestrictValues(KnockoutRound(r), LAMBDA f : f.done) = PlayedRows(r)
           /\ AllDone(KnockoutRound(r)) <=> \A k \in RoundRows(r) : fixtures[k].done
<1>1. /\ DOMAIN KnockoutRound(r) = RoundRows(r)
      /\ \A k \in RoundRows(r) : KnockoutRound(r)[k] = fixtures[k]
  BY DEF KnockoutRound, RestrictValues, Restrict, RoundRows
<1>2. DOMAIN RestrictValues(KnockoutRound(r), LAMBDA f : f.done) = PlayedRows(r)
  BY <1>1 DEF RestrictValues, Restrict, PlayedRows
<1>3. AllDone(KnockoutRound(r)) <=> \A k \in RoundRows(r) : fixtures[k].done
  BY <1>1 DEF AllDone, Range
<1> QED
  BY <1>1, <1>2, <1>3

\* The winners of a round are teams, one of each played row.
LEMMA WinnersAreTeams ==
    ASSUME PlayInv, NEW r, NEW c, c = Cardinality(PlayedRows(r))
    PROVE  /\ IsFiniteSet(PlayedRows(r)) /\ c \in Nat /\ PlayedRows(r) \in SUBSET Nat
           /\ Winners(r) \in [1 .. c -> 1 .. setting.n]
           /\ \A i \in 1 .. c : Winners(r)[i] = Winner(fixtures[InOrder(PlayedRows(r))[i]])
<1> DEFINE K == PlayedRows(r)
           played == InOrder(K)
<1>1. fixtures \in Seq(AnyFixture(setting.n))
  BY DEF PlayInv, RowsInv
<1>2. IsFiniteSet(DOMAIN fixtures) /\ DOMAIN fixtures \in SUBSET Nat
  <2>1. DOMAIN fixtures = 1 .. Len(fixtures) /\ Len(fixtures) \in Nat
    BY <1>1
  <2> QED
    BY <2>1, FS_Interval
<1>3. K \in SUBSET DOMAIN fixtures
  BY DEF PlayedRows, RoundRows
<1>4. IsFiniteSet(K) /\ K \in SUBSET Nat
  BY <1>2, <1>3, FS_Subset
<1>5. c \in Nat /\ played \in [1 .. c -> K]
  BY <1>4, InOrderIncreases
<1>6. Winners(r) = [k \in DOMAIN played |-> Winner(fixtures[played[k]])]
  BY RoundIsRows DEF Winners
<1>7. ASSUME NEW k \in DOMAIN fixtures
      PROVE  Winner(fixtures[k]) \in 1 .. setting.n
  <2>1. fixtures[k] \in AnyFixture(setting.n) /\ (fixtures[k].away = NoTeam => fixtures[k].bye)
    BY RowsAreFresh
  <2>2. setting.n \in Nat
    BY SettingsAssumption DEF PlayInv, RequestsInv
  <2> QED
    BY <2>1, <2>2 DEF Winner, AnyFixture, NoTeam
<1> HIDE DEF K, played
<1>8. \A i \in 1 .. c : played[i] \in DOMAIN fixtures
  BY <1>3, <1>5
<1>9. Winners(r) = [i \in 1 .. c |-> Winner(fixtures[played[i]])]
  BY <1>5, <1>6
<1> QED
  BY <1>4, <1>5, <1>7, <1>8, <1>9 DEF K, played

GroupRows(g) == RestrictValues(fixtures, LAMBDA f : f.group = g)

\* The queries for a group, in terms of its rows.
LEMMA GroupRowsAre ==
    ASSUME NEW g
    PROVE  /\ DOMAIN GroupRows(g) = {k \in DOMAIN fixtures : fixtures[k].group = g}
           /\ \A k \in DOMAIN GroupRows(g) : GroupRows(g)[k] = fixtures[k]
           /\ DOMAIN Counted(GroupRows(g)) =
                 {k \in DOMAIN GroupRows(g) : fixtures[k].done /\ ~ fixtures[k].bye}
           /\ \A k \in DOMAIN Counted(GroupRows(g)) : Counted(GroupRows(g))[k] = fixtures[k]
<1>1. /\ DOMAIN GroupRows(g) = {k \in DOMAIN fixtures : fixtures[k].group = g}
      /\ \A k \in DOMAIN GroupRows(g) : GroupRows(g)[k] = fixtures[k]
  BY DEF GroupRows, RestrictValues, Restrict
<1> DEFINE table == GroupRows(g)
<1> HIDE DEF table
<1>2. /\ DOMAIN Counted(table) = {k \in DOMAIN table : table[k].done /\ ~ table[k].bye}
      /\ \A k \in DOMAIN Counted(table) : Counted(table)[k] = table[k]
  BY DEF Counted, RestrictValues, Restrict
<1> QED
  BY <1>1, <1>2 DEF table

\* The table of each group is sorted.
LEMMA GroupTablesAreSorted ==
    ASSUME PlayInv, NEW g \in 1 .. NumGroups(setting.n)
    PROVE  /\ GroupTables[g] = Standings(GroupRows(g), Name)
           /\ SortedBy(GroupTables[g], Counted(GroupRows(g)), Name)
           /\ TableOf(Counted(GroupRows(g)), 1 .. setting.n)
<1>1. GroupTables[g] = Standings(GroupRows(g), Name)
  BY DEF GroupTables, GroupRows
<1>2. setting.n \in Nat /\ IsFiniteSet(1 .. setting.n) /\ \A t \in 1 .. setting.n : Name[t] \in Int
  <2>1. setting \in Settings /\ setting.n \in Nat
    BY SettingsAssumption DEF PlayInv, RequestsInv
  <2> QED
    BY <2>1, FS_Interval, NameAssumption
<1>3. TableOf(Counted(GroupRows(g)), 1 .. setting.n)
  <2> DEFINE table == Counted(GroupRows(g))
  <2>1. DOMAIN table \in SUBSET DOMAIN fixtures
        /\ \A k \in DOMAIN table : table[k] = fixtures[k] /\ ~ fixtures[k].bye
    BY GroupRowsAre
  <2> HIDE DEF table
  <2>2. DOMAIN fixtures = 1 .. Len(fixtures) /\ Len(fixtures) \in Nat
    BY DEF PlayInv, RowsInv
  <2>3. IsFiniteSet(DOMAIN table) /\ DOMAIN table \in SUBSET Nat
    <3>1. IsFiniteSet(DOMAIN fixtures)
      BY <2>2, FS_Interval
    <3> QED
      BY <2>1, <2>2, <3>1, FS_Subset
  <2>4. ASSUME NEW k \in DOMAIN table
        PROVE  /\ table[k].home \in 1 .. setting.n /\ table[k].away \in 1 .. setting.n
               /\ table[k].score \in Nat \X Nat
    <3>1. table[k] = fixtures[k] /\ k \in DOMAIN fixtures /\ ~ fixtures[k].bye
      BY <2>1
    <3>2. fixtures[k] \in AnyFixture(setting.n) /\ fixtures[k].away # NoTeam
      BY <3>1, RowsAreFresh
    <3> QED
      BY <1>2, <3>1, <3>2 DEF AnyFixture, NoTeam
  <2> QED
    BY <2>3, <2>4 DEF TableOf, table
<1>4. SortedBy(Standings(GroupRows(g), Name), Counted(GroupRows(g)), Name)
  BY <1>2, <1>3, StandingsAreSorted
<1> QED
  BY <1>1, <1>3, <1>4

SeedPlan == Matches(1, CrossSeeds(GroupTables))

EnoughTeams == \A g \in 1 .. NumGroups(setting.n) : Len(GroupTables[g]) >= 2

\* SeedKnockout in terms of SeedPlan.
LEMMA SeedKnockoutSteps ==
    ASSUME NEW w, SeedKnockout(w)
    PROVE  /\ pc[w] = "winners" /\ Trigger(w).group # 0
           /\ \/ EnoughTeams /\ plan' = [plan EXCEPT ![w] = SeedPlan] /\ Goto(w, "create")
              \/ ~ EnoughTeams /\ plan' = plan /\ Goto(w, "idle")
           /\ UNCHANGED << setting, status, fixtures, want >>
<1>1. DOMAIN GroupTables = 1 .. NumGroups(setting.n)
  BY DEF GroupTables
<1> QED
  BY <1>1 DEF SeedKnockout, SeedPlan, EnoughTeams

\* Seeding pairs each group's first with another group's second in a new first round.
LEMMA SeedPlanIsNew ==
    ASSUME PlayInv, EnoughTeams, NEW G, G = NumGroups(setting.n)
    PROVE  /\ NewRound(SeedPlan, setting.n, 1) /\ Len(SeedPlan) = G /\ DOMAIN SeedPlan = 1 .. G
           /\ \A k \in 1 .. G :
                 /\ SeedPlan[k].home = GroupTables[k][1]
                 /\ (G + 1) - k \in 1 .. G
                 /\ SeedPlan[k].away = GroupTables[(G + 1) - k][2]
<1> DEFINE pairs == CrossSeeds(GroupTables)
<1>1. DOMAIN GroupTables = 1 .. G /\ Len(GroupTables) = G /\ G \in Nat
  BY DEF GroupTables, NumGroups
<1>2. /\ DOMAIN pairs = 1 .. G /\ pairs = [k \in 1 .. G |-> pairs[k]]
      /\ \A k \in 1 .. G : pairs[k] = << GroupTables[k][1], GroupTables[(G + 1) - k][2] >>
  BY <1>1 DEF CrossSeeds
<1>3. \A k \in 1 .. G : (G + 1) - k \in 1 .. G
  BY <1>1
<1>4. ASSUME NEW g \in 1 .. G
      PROVE  GroupTables[g][1] \in 1 .. setting.n /\ GroupTables[g][2] \in 1 .. setting.n
  <2> DEFINE counted == Counted(GroupRows(g))
             c == Cardinality(Ranked(counted))
  <2>1. SortedBy(GroupTables[g], counted, Name) /\ TableOf(counted, 1 .. setting.n)
    BY GroupTablesAreSorted
  <2> HIDE DEF counted
  <2>2. c \in Nat /\ GroupTables[g] \in [1 .. c -> Ranked(counted)] /\ c >= 2
    BY <2>1 DEF SortedBy, EnoughTeams, Bijection, Injection
  <2>3. Ranked(counted) \subseteq 1 .. setting.n
    BY <2>1 DEF Ranked, Range, TableOf
  <2> HIDE DEF c
  <2>4. 1 \in 1 .. c /\ 2 \in 1 .. c
    BY <2>2
  <2> QED
    BY <2>2, <2>3, <2>4
<1> HIDE DEF pairs
<1>5. ListOfPairs(pairs, G, 1 .. setting.n)
  <2>1. ASSUME NEW k \in 1 .. G
        PROVE  pairs[k] \in (1 .. setting.n) \X (1 .. setting.n)
    <3> DEFINE l == (G + 1) - k
    <3>1. l \in 1 .. G /\ pairs[k] = << GroupTables[k][1], GroupTables[l][2] >>
      BY <1>2, <1>3
    <3> HIDE DEF l
    <3>2. GroupTables[k][1] \in 1 .. setting.n /\ GroupTables[l][2] \in 1 .. setting.n
      BY <1>4, <3>1
    <3> QED
      BY <3>1, <3>2
  <2> QED
    BY <1>2, <2>1 DEF ListOfPairs
<1>6. setting.n \in Nat
  BY SettingsAssumption DEF PlayInv, RequestsInv
<1> DEFINE rows == Matches(1, pairs)
<1>7. /\ NewRound(rows, setting.n, 1) /\ Len(rows) = G /\ DOMAIN rows = 1 .. G
      /\ \A k \in 1 .. G : rows[k].home = pairs[k][1] /\ rows[k].away = pairs[k][2]
  <2>1. PICK n, next : n = setting.n /\ next = 1
    OBVIOUS
  <2>2. n \in Nat /\ next \in Nat \ {0} /\ G \in Nat /\ ListOfPairs(pairs, G, 1 .. n)
    BY <1>1, <1>5, <1>6, <2>1
  <2>3. /\ NewRound(Matches(next, pairs), n, next)
        /\ Len(Matches(next, pairs)) = G /\ DOMAIN Matches(next, pairs) = 1 .. G
        /\ \A k \in 1 .. G :
              /\ Matches(next, pairs)[k].home = pairs[k][1]
              /\ Matches(next, pairs)[k].away = pairs[k][2]
    BY <2>2, MatchesAreNew
  <2> QED
    BY <2>1, <2>3
<1>8. SeedPlan = rows
  BY DEF SeedPlan, pairs
<1> HIDE DEF rows
<1>9. \A k \in 1 .. G : pairs[k][1] = GroupTables[k][1] /\ pairs[k][2] = GroupTables[(G + 1) - k][2]
  BY <1>2
<1> QED
  BY <1>3, <1>7, <1>8, <1>9

WinnersPlan(w) == Matches(NextRound(Trigger(w)), Inward(Winners(Trigger(w).round)))

\* ReadWinners in terms of WinnersPlan.
LEMMA ReadWinnersSteps ==
    ASSUME PlayInv, NEW w \in Workers, ReadWinners(w),
           NEW r, r = Trigger(w).round, NEW c, c = Cardinality(PlayedRows(r))
    PROVE  /\ pc[w] = "winners" /\ Trigger(w).group = 0 /\ Request(w)
           /\ r \in Nat \ {0} /\ NextRound(Trigger(w)) = r + 1
           /\ plan' = [plan EXCEPT ![w] = WinnersPlan(w)]
           /\ Goto(w, IF c \div 2 = 0 THEN "finish" ELSE "create")
           /\ UNCHANGED << setting, status, fixtures, want >>
           /\ c \in Nat /\ c \div 2 \in Nat
           /\ NewRound(WinnersPlan(w), setting.n, r + 1)
           /\ Len(WinnersPlan(w)) = c \div 2 /\ DOMAIN WinnersPlan(w) = 1 .. c \div 2
           /\ \A k \in 1 .. c \div 2 :
                 /\ k \in 1 .. c /\ (c + 1) - k \in 1 .. c
                 /\ WinnersPlan(w)[k].home = Winners(r)[k]
                 /\ WinnersPlan(w)[k].away = Winners(r)[(c + 1) - k]
<1> DEFINE teams == Winners(r)
           pairs == Inward(teams)
           d == c \div 2
<1>1. /\ pc[w] = "winners" /\ Trigger(w).group = 0
      /\ plan' = [plan EXCEPT ![w] = WinnersPlan(w)]
      /\ Goto(w, IF pairs = << >> THEN "finish" ELSE "create")
      /\ UNCHANGED << setting, status, fixtures, want >>
  BY DEF ReadWinners, WinnersPlan
<1>2. Request(w)
  BY <1>1 DEF PlayInv, RequestsInv
<1>3. r \in Nat \ {0} /\ NextRound(Trigger(w)) = r + 1
  <2>1. Trigger(w) \in AnyFixture(setting.n)
    BY <1>2, RowsAreFresh DEF Request, Trigger
  <2> QED
    BY <1>1, <2>1 DEF AnyFixture, NextRound
<1>4. c \in Nat /\ teams \in [1 .. c -> 1 .. setting.n]
  BY WinnersAreTeams
<1> HIDE DEF teams
<1>5. /\ d \in Nat /\ ListOfPairs(pairs, d, 1 .. setting.n)
      /\ \A k \in 1 .. d :
            /\ k \in 1 .. c /\ (c + 1) - k \in 1 .. c
            /\ pairs[k] = << teams[k], teams[(c + 1) - k] >>
  <2> DEFINE S == 1 .. setting.n
  <2>1. c \in Nat /\ teams \in [1 .. c -> S]
    BY <1>4
  <2> HIDE DEF S
  <2>2. PairedInward(Inward(teams), c \div 2, teams, c, S)
    BY <2>1, InwardPairs
  <2> QED
    BY <2>2 DEF S, PairedInward
<1>6. setting.n \in Nat /\ r + 1 \in Nat \ {0}
  BY <1>3, SettingsAssumption DEF PlayInv, RequestsInv
<1> HIDE DEF pairs, d
<1> DEFINE rows == Matches(r + 1, pairs)
<1>7. /\ NewRound(rows, setting.n, r + 1) /\ Len(rows) = d /\ DOMAIN rows = 1 .. d
      /\ \A k \in 1 .. d : rows[k].home = pairs[k][1] /\ rows[k].away = pairs[k][2]
  <2>1. PICK n, next : n = setting.n /\ next = r + 1
    OBVIOUS
  <2>2. n \in Nat /\ next \in Nat \ {0} /\ d \in Nat /\ ListOfPairs(pairs, d, 1 .. n)
    BY <1>5, <1>6, <2>1
  <2>3. /\ NewRound(Matches(next, pairs), n, next)
        /\ Len(Matches(next, pairs)) = d /\ DOMAIN Matches(next, pairs) = 1 .. d
        /\ \A k \in 1 .. d :
              /\ Matches(next, pairs)[k].home = pairs[k][1]
              /\ Matches(next, pairs)[k].away = pairs[k][2]
    BY <2>2, MatchesAreNew
  <2> QED
    BY <2>1, <2>3
<1>8. WinnersPlan(w) = rows
  BY <1>3 DEF WinnersPlan, pairs, teams
<1> HIDE DEF rows
<1>9. \A k \in 1 .. d : pairs[k][1] = teams[k] /\ pairs[k][2] = teams[(c + 1) - k]
  BY <1>5
<1>10. pairs = << >> <=> d = 0
  <2>1. DOMAIN pairs = 1 .. d /\ pairs = [k \in 1 .. d |-> pairs[k]]
    BY <1>5 DEF ListOfPairs
  <2>2. CASE d = 0
    <3>1. 1 .. d = {} /\ 1 .. 0 = {}
      BY <2>2
    <3> QED
      BY <2>1, <2>2, <3>1
  <2>3. CASE d # 0
    <3>1. 1 \in DOMAIN pairs
      BY <1>5, <2>1, <2>3
    <3> QED
      BY <2>3, <3>1
  <2> QED
    BY <2>2, <2>3
<1>11. Goto(w, IF d = 0 THEN "finish" ELSE "create")
  BY <1>1, <1>10
<1>12. \A k \in 1 .. d :
          /\ k \in 1 .. c /\ (c + 1) - k \in 1 .. c
          /\ WinnersPlan(w)[k].home = teams[k]
          /\ WinnersPlan(w)[k].away = teams[(c + 1) - k]
  BY <1>5, <1>7, <1>8, <1>9
<1> QED
  BY <1>1, <1>2, <1>3, <1>4, <1>5, <1>7, <1>8, <1>11, <1>12 DEF d, teams

\* A step of a request that saves nothing.
LEMMA PlayInvMoves ==
    ASSUME PlayInv, NEW w \in Workers, NEW label \in Labels,
           label = "idle" \/ pc[w] \notin {"idle", "save"}, label # "save",
           NEW p \in Seq(AnyFixture(setting.n)), \A k \in DOMAIN p : Added(p[k]),
           plan' = [plan EXCEPT ![w] = p], Goto(w, label),
           setting' = setting, fixtures' = fixtures, want' = want,
           status' \in {"in_progress", "completed"}
    PROVE  PlayInv'
<1>1. RowsInv'
  BY DEF PlayInv, RowsInv, DrawnRows
<1>2. ASSUME NEW v \in Workers, pc'[v] # "idle"
      PROVE  Request(v)'
  <2>1. pc[v] # "idle" /\ (pc'[v] # "save" => pc[v] # "save")
    BY <1>2 DEF Goto, PlayInv, RequestsInv
  <2>2. Request(v)
    BY <2>1 DEF PlayInv, RequestsInv
  <2> QED
    BY <2>1, <2>2 DEF Request, Trigger
<1>3. ASSUME NEW v \in Workers, NEW k \in DOMAIN plan'[v]
      PROVE  Added(plan'[v][k])
  BY <1>3 DEF PlayInv, RequestsInv
<1>4. pc' \in [Workers -> Labels] /\ plan' \in [Workers -> Seq(AnyFixture(setting.n))]
  BY DEF PlayInv, RequestsInv, Goto
<1>5. RequestsInv'
  BY <1>2, <1>3, <1>4 DEF PlayInv, RequestsInv
<1> QED
  BY <1>1, <1>5 DEF PlayInv

\* The fixtures of a new round are no byes and in no group.
LEMMA NewRoundIsAdded ==
    ASSUME NEW p, NEW n, NEW r, NewRound(p, n, r)
    PROVE  p \in Seq(AnyFixture(n)) /\ \A k \in DOMAIN p : Added(p[k])
BY DEF NewRound, Added

\* bulk_create appends the rows of a new round.
LEMMA PlayInvCreateRound ==
    ASSUME PlayInv, NEW w \in Workers, CreateRound(w)
    PROVE  PlayInv'
<1> DEFINE s == fixtures
           t == plan[w]
           S == AnyFixture(setting.n)
<1>1. /\ pc[w] = "create" /\ fixtures' = s \o t
      /\ plan' = [plan EXCEPT ![w] = << >>] /\ pc' = [pc EXCEPT ![w] = "idle"]
      /\ UNCHANGED << setting, status, want >>
  BY DEF CreateRound, Goto
<1>2. s \in Seq(S) /\ t \in Seq(S) /\ \A k \in DOMAIN t : Added(t[k])
  BY DEF PlayInv, RowsInv, RequestsInv
<1>3. Request(w) /\ Trigger(w).done
  BY <1>1 DEF PlayInv, RequestsInv, Request
<1> HIDE DEF s, t, S
<1> DEFINE joined == s \o t
<1>4. /\ joined \in Seq(S) /\ Len(joined) = Len(s) + Len(t)
      /\ \A k \in 1 .. Len(s) : joined[k] = s[k]
      /\ \A k \in Len(s) + 1 .. Len(s) + Len(t) : joined[k] = t[k - Len(s)]
  BY <1>2, ConcatProperties
<1>5. Len(s) \in Nat /\ Len(t) \in Nat /\ DOMAIN s = 1 .. Len(s) /\ DOMAIN t = 1 .. Len(t)
      /\ DOMAIN joined = 1 .. Len(joined)
  BY <1>2, <1>4
<1> HIDE DEF joined
<1>6. \A k \in DOMAIN s : k \in DOMAIN joined /\ joined[k] = s[k]
  BY <1>4, <1>5
<1>7. ASSUME NEW k \in DOMAIN joined \ DOMAIN s
      PROVE  Added(joined[k])
  <2> DEFINE j == k - Len(s)
  <2>1. j \in DOMAIN t /\ joined[k] = t[j]
    BY <1>4, <1>5
  <2> HIDE DEF j
  <2> QED
    BY <1>2, <2>1
<1>8. RowsInv'
  <2>1. DrawnRows' = DrawnRows
    BY <1>1 DEF DrawnRows
  <2>2. /\ DOMAIN DrawnRows \subseteq DOMAIN s
        /\ \A k \in DOMAIN DrawnRows :
              SameMatch(s[k], DrawnRows[k]) /\ (s[k].done \/ s[k] = DrawnRows[k])
        /\ \A k \in DOMAIN s \ DOMAIN DrawnRows : Added(s[k])
    BY DEF PlayInv, RowsInv, s
  <2>3. \E k \in DOMAIN s : s[k].done
    BY <1>3 DEF Request, Trigger, s
  <2>4. fixtures' = joined /\ setting' = setting
    BY <1>1 DEF joined
  <2>5. joined \in Seq(AnyFixture(setting.n))
    BY <1>4 DEF S
  <2>6. \A k \in DOMAIN joined \ DOMAIN DrawnRows : Added(joined[k])
    BY <1>6, <1>7, <2>2
  <2> QED
    BY <1>6, <2>1, <2>2, <2>3, <2>4, <2>5, <2>6 DEF RowsInv
<1>9. ASSUME NEW v \in Workers, pc'[v] # "idle"
      PROVE  Request(v)'
  <2>1. pc'[v] = pc[v] /\ pc[v] # "idle"
    BY <1>1, <1>9 DEF PlayInv, RequestsInv
  <2>2. Request(v)
    BY <2>1 DEF PlayInv, RequestsInv
  <2>3. DOMAIN fixtures \subseteq DOMAIN fixtures'
        /\ \A k \in DOMAIN fixtures : fixtures'[k] = fixtures[k]
    BY <1>1, <1>6 DEF s, joined
  <2> QED
    BY <1>1, <2>1, <2>2, <2>3 DEF Request, Trigger
<1>10. RequestsInv'
  <2>1. << >> \in Seq(AnyFixture(setting.n)) /\ DOMAIN << >> = {}
    OBVIOUS
  <2>2. plan' \in [Workers -> Seq(AnyFixture(setting.n))] /\ pc' \in [Workers -> Labels]
    BY <1>1, <2>1 DEF PlayInv, RequestsInv, Labels
  <2>3. ASSUME NEW v \in Workers, NEW k \in DOMAIN plan'[v]
        PROVE  Added(plan'[v][k])
    BY <1>1, <2>1, <2>3 DEF PlayInv, RequestsInv
  <2> QED
    BY <1>1, <1>9, <2>2, <2>3 DEF PlayInv, RequestsInv
<1> QED
  BY <1>8, <1>10 DEF PlayInv

\* Every step keeps the invariant.
LEMMA PlayInvStep == PlayInv /\ [Next]_vars => PlayInv'
<1> SUFFICES ASSUME PlayInv, [Next]_vars PROVE PlayInv'
  OBVIOUS
<1>1. \A v \in Workers : plan = [plan EXCEPT ![v] = plan[v]] /\ plan[v] \in Seq(AnyFixture(setting.n))
        /\ \A k \in DOMAIN plan[v] : Added(plan[v][k])
  BY DEF PlayInv, RequestsInv
<1>2. << >> \in Seq(AnyFixture(setting.n)) /\ \A k \in DOMAIN << >> : Added(<< >>[k])
  OBVIOUS
<1>3. status \in {"in_progress", "completed"} /\ \A l \in {"idle", "exists", "winners", "create", "finish"} : l \in Labels
  BY DEF PlayInv, RequestsInv, Labels
<1>4. CASE UNCHANGED vars
  BY <1>4 DEF vars, PlayInv, RowsInv, RequestsInv, DrawnRows, Request, Trigger
<1>5. CASE Complete
  BY <1>5 DEF Complete, PlayInv, RowsInv, RequestsInv, DrawnRows, Request, Trigger
<1>6. ASSUME NEW w \in Workers, CheckRoundDone(w)
      PROVE  PlayInv'
  <2> DEFINE to == IF AllDone(IF Trigger(w).group # 0 THEN GroupFixtures
                              ELSE KnockoutRound(Trigger(w).round))
                   THEN "exists" ELSE "idle"
  <2>1. pc[w] = "pending" /\ Goto(w, to) /\ UNCHANGED << setting, status, fixtures, want, plan >>
    BY <1>6 DEF CheckRoundDone
  <2>2. to \in Labels /\ to # "save"
    BY DEF Labels
  <2> HIDE DEF to
  <2> QED
    BY <1>1, <1>3, <2>1, <2>2, PlayInvMoves
<1>7. ASSUME NEW w \in Workers, CheckNextRound(w)
      PROVE  PlayInv'
  <2> DEFINE to == IF DOMAIN KnockoutRound(NextRound(Trigger(w))) = {} THEN "winners" ELSE "idle"
  <2>1. pc[w] = "exists" /\ Goto(w, to) /\ UNCHANGED << setting, status, fixtures, want, plan >>
    BY <1>7 DEF CheckNextRound
  <2>2. to \in Labels /\ to # "save"
    BY DEF Labels
  <2> HIDE DEF to
  <2> QED
    BY <1>1, <1>3, <2>1, <2>2, PlayInvMoves
<1>8. ASSUME NEW w \in Workers, SeedKnockout(w)
      PROVE  PlayInv'
  <2>1. /\ pc[w] = "winners" /\ UNCHANGED << setting, status, fixtures, want >>
        /\ \/ EnoughTeams /\ plan' = [plan EXCEPT ![w] = SeedPlan] /\ Goto(w, "create")
           \/ ~ EnoughTeams /\ plan' = plan /\ Goto(w, "idle")
    BY <1>8, SeedKnockoutSteps
  <2>2. CASE EnoughTeams
    <3>1. SeedPlan \in Seq(AnyFixture(setting.n)) /\ \A k \in DOMAIN SeedPlan : Added(SeedPlan[k])
      BY <2>2, SeedPlanIsNew, NewRoundIsAdded
    <3> QED
      BY <1>3, <2>1, <2>2, <3>1, PlayInvMoves
  <2>3. CASE ~ EnoughTeams
    BY <1>1, <1>3, <2>1, <2>3, PlayInvMoves
  <2> QED
    BY <2>2, <2>3
<1>9. ASSUME NEW w \in Workers, ReadWinners(w)
      PROVE  PlayInv'
  <2> DEFINE c == Cardinality(PlayedRows(Trigger(w).round))
             to == IF c \div 2 = 0 THEN "finish" ELSE "create"
  <2>1. /\ pc[w] = "winners" /\ plan' = [plan EXCEPT ![w] = WinnersPlan(w)]
        /\ Goto(w, to) /\ UNCHANGED << setting, status, fixtures, want >>
        /\ NewRound(WinnersPlan(w), setting.n, Trigger(w).round + 1)
    BY <1>9, ReadWinnersSteps
  <2>2. to \in Labels /\ to # "save"
    BY DEF Labels
  <2>3. WinnersPlan(w) \in Seq(AnyFixture(setting.n))
        /\ \A k \in DOMAIN WinnersPlan(w) : Added(WinnersPlan(w)[k])
    BY <2>1, NewRoundIsAdded
  <2> HIDE DEF to
  <2> QED
    BY <1>3, <2>1, <2>2, <2>3, PlayInvMoves
<1>10. ASSUME NEW w \in Workers, Finish(w)
       PROVE  PlayInv'
  <2>1. pc[w] = "finish" /\ Goto(w, "idle") /\ status' = "completed"
        /\ UNCHANGED << setting, fixtures, want, plan >>
    BY <1>10 DEF Finish
  <2> QED
    BY <1>1, <1>3, <2>1, PlayInvMoves
<1>11. ASSUME NEW w \in Workers, Crash(w)
       PROVE  PlayInv'
  <2>1. Goto(w, "idle") /\ plan' = [plan EXCEPT ![w] = << >>]
        /\ UNCHANGED << setting, status, fixtures, want >>
    BY <1>11 DEF Crash
  <2> QED
    BY <1>2, <1>3, <2>1, PlayInvMoves
<1> QED
  BY <1>4, <1>5, <1>6, <1>7, <1>8, <1>9, <1>10, <1>11,
     PlayInvCheckInProgress, PlayInvSaveScore, PlayInvCreateRound
     DEF Next, WorkerStep

\* Whatever overlaps, is corrected or dies: every fixture has two teams of the
\* tournament or is a bye, the drawn fixtures stay as drawn but for their scores,
\* and every request of FixtureScoreView is about a fixture of the table.
THEOREM PlayIsWellFormed == Spec => []PlayInv
BY PlayInvInit, PlayInvStep, PTL DEF Spec

-----------------------------------------------------------------------------
(* What is drawn *)

\* Until a score is entered the table is the draw.
LEMMA NothingPlayedYet ==
    ASSUME PlayInv, \A f \in Range(fixtures) : ~ f.done
    PROVE  fixtures = DrawnRows
<1>1. \A k \in DOMAIN fixtures : ~ fixtures[k].done
  BY DEF Range
<1>2. DOMAIN fixtures = DOMAIN DrawnRows /\ \A k \in DOMAIN DrawnRows : fixtures[k] = DrawnRows[k]
  BY <1>1 DEF PlayInv, RowsInv
<1>3. fixtures \in Seq(AnyFixture(setting.n)) /\ DrawnRows \in Seq(AnyFixture(setting.n))
  BY SettingIsDrawn DEF PlayInv, RowsInv, RequestsInv, DrawnRows, DrawnFor
<1> QED
  BY <1>2, <1>3

\* The rows of a field are a league of its teams.
FieldDrawn(rows, x) ==
    /\ IsFiniteSet(x.teams)
    /\ \E N, table :
          /\ League(table, N, x.teams, Cardinality(x.teams), x.group)
          /\ Selects(rows, x.group, table, N)

\* The rows of a field are those of a league.
LEMMA FieldsAreDrawn ==
    ASSUME PlayInv, setting.format # "knockout", NEW x \in Fields
    PROVE  FieldDrawn(DrawnRows, x)
<1>1. setting \in Settings /\ setting.format \in TournamentFormat /\ setting.n \in Nat /\ setting.n >= 2
  <2>1. setting \in Settings
    BY DEF PlayInv, RequestsInv
  <2>2. setting.format \in TournamentFormat /\ setting.n \in Nat \ {0, 1}
    BY <2>1, SettingsAssumption
  <2> QED
    BY <2>1, <2>2
<1>2. CASE setting.format = "round_robin"
  <2>1. x = [group |-> 0, teams |-> 1 .. setting.n]
    BY <1>2 DEF Fields
  <2>2. DrawnRows = Generated("round_robin", setting.n)
    BY <1>2 DEF DrawnRows
  <2>3. IsFiniteSet(1 .. setting.n) /\ Cardinality(1 .. setting.n) = setting.n
    BY <1>1, FS_Interval
  <2>4. /\ League(DrawnRows, FieldLength(setting.n), 1 .. setting.n, setting.n, 0)
        /\ Selects(DrawnRows, 0, DrawnRows, FieldLength(setting.n))
    BY <1>1, <2>2, FieldIsLeague
  <2>5. x.group = 0 /\ x.teams = 1 .. setting.n
    BY <2>1
  <2> QED
    BY <2>3, <2>4, <2>5 DEF FieldDrawn
<1>3. CASE setting.format = "group_knockout"
  <2>1. PICK g \in 1 .. NumGroups(setting.n) :
          x = [group |-> g, teams |-> Range(GroupTeams(setting.n, g))]
    BY <1>3 DEF Fields
  <2>2. DrawnRows = GroupStage(setting.n)
    BY <1>3 DEF DrawnRows, Generated
  <2>3. setting.n \in Nat /\ setting.n >= 8
    BY <1>1, <1>3, GroupSizeIsLarge
  <2>4. IsFiniteSet(Keys(setting.n, g)) /\ Range(GroupTeams(setting.n, g)) = Keys(setting.n, g)
    BY <2>3, GroupsAreFilled
  <2>5. x.group = g /\ x.teams = Keys(setting.n, g)
    BY <2>1, <2>4
  <2>6. League(GroupTable(setting.n, g), GroupLength(setting.n, g), Keys(setting.n, g),
               Cardinality(Keys(setting.n, g)), g)
    BY <2>3, GroupIsLeague
  <2>7. Selects(DrawnRows, g, GroupTable(setting.n, g), GroupLength(setting.n, g))
    BY <2>2, <2>3, StageOfLeagues
  <2> QED
    BY <2>4, <2>5, <2>6, <2>7 DEF FieldDrawn
<1> QED
  BY <1>1, <1>2, <1>3 DEF TournamentFormat

\* Until a score is entered each field has what a league promises.
LEMMA DrawnAsPromised ==
    ASSUME PlayInv, NothingPlayed, NEW x \in Fields
    PROVE  /\ EveryPairIn(RestrictValues(fixtures, LAMBDA f : f.group = x.group), x.teams)
           /\ NoneTwiceADay(fixtures, x.group, x.teams)
<1>1. fixtures = DrawnRows /\ setting.format # "knockout"
  BY NothingPlayedYet DEF NothingPlayed
<1>2. FieldDrawn(fixtures, x)
  BY <1>1, FieldsAreDrawn
<1>3. PICK N, table :
        /\ League(table, N, x.teams, Cardinality(x.teams), x.group)
        /\ Selects(fixtures, x.group, table, N)
  BY <1>2 DEF FieldDrawn
<1>4. IsFiniteSet(x.teams)
  BY <1>2 DEF FieldDrawn
<1>5. setting.n \in Nat /\ fixtures \in Seq(AnyFixture(setting.n))
  BY SettingsAssumption DEF PlayInv, RowsInv, RequestsInv
<1> DEFINE T == x.teams
           g == x.group
           c == Cardinality(T)
           n == setting.n
<1>6. /\ IsFiniteSet(T) /\ c = Cardinality(T) /\ League(table, N, T, c, g)
      /\ n \in Nat /\ fixtures \in Seq(AnyFixture(n)) /\ Selects(fixtures, g, table, N)
  BY <1>3, <1>4, <1>5
<1> HIDE DEF T, g, c, n
<1>7. /\ EveryPairIn(RestrictValues(fixtures, LAMBDA f : f.group = g), T)
      /\ NoneTwiceADay(fixtures, g, T)
  BY <1>6, LeagueIsDrawn
<1> QED
  BY <1>7 DEF T, g

\* Whatever number of teams registered: the circle method of
\* _generate_round_robin lets every two teams of a league or a group meet
\* exactly once, N*(N-1)/2 fixtures in all.
THEOREM EveryTwoTeamsMeet == Spec => []EveryPairOnce
<1>1. PlayInv => EveryPairOnce
  <2> SUFFICES ASSUME PlayInv, NothingPlayed, NEW x \in Fields
               PROVE  EveryPairIn(RestrictValues(fixtures, LAMBDA f : f.group = x.group), x.teams)
    BY DEF EveryPairOnce, EveryPairIn
  <2> QED
    BY DrawnAsPromised
<1> QED
  BY <1>1, PlayIsWellFormed, PTL

\* Whatever number of teams registered: although days and rounds of the
\* circle drift apart, no team is drawn to play twice on one day.
THEOREM OneFixtureADay == Spec => []OncePerDay
<1>1. PlayInv => OncePerDay
  <2> SUFFICES ASSUME PlayInv, NothingPlayed, NEW x \in Fields
               PROVE  NoneTwiceADay(fixtures, x.group, x.teams)
    BY DEF OncePerDay, NoneTwiceADay
  <2> QED
    BY DrawnAsPromised
<1> QED
  BY <1>1, PlayIsWellFormed, PTL

-----------------------------------------------------------------------------
(* The rounds of a knockout, when requests do not overlap *)

\* Rows a + 1 to a + m are a round: no team has two of them, and in a
\* bracket the top seeds come first.
Bracket(rows, a, m) ==
    /\ \A i, j \in 1 .. m : i # j => Pair(rows[a + i]) \cap Pair(rows[a + j]) = {}
    /\ setting.format = "knockout" =>
          \A i \in 1 .. m :
             /\ 1 \in Pair(rows[a + i]) => i = 1
             /\ 2 \in Pair(rows[a + i]) => i = 2 \/ m = 1

RoundPlaced(r) ==
    \E a \in Nat, m \in PowersOf2 : RoundRows(r) = a + 1 .. a + m /\ Bracket(fixtures, a, m)

Before(f, r) == f.group # 0 \/ f.round < r

BracketInv ==
    /\ \A j, k \in DOMAIN fixtures :
          (fixtures[j].group = 0 /\ Before(fixtures[k], fixtures[j].round)) => fixtures[k].done
    /\ \A j \in DOMAIN fixtures :
          fixtures[j].group = 0 => \A r \in 1 .. fixtures[j].round : RoundRows(r) # {}
    /\ \A r \in Nat : RoundRows(r) # {} => RoundPlaced(r)

SameStage(f, g) == IF f.group # 0 THEN g.group # 0 ELSE g.group = 0 /\ g.round = f.round

StageDone(f) == \A k \in DOMAIN fixtures : SameStage(f, fixtures[k]) => fixtures[k].done

LastStage(f) ==
    \A k \in DOMAIN fixtures : fixtures[k].done /\ Before(fixtures[k], NextRound(f))

\* What a request knows at its next statement.
Knows(w) ==
    /\ pc[w] \in {"exists", "winners", "create", "finish"} => StageDone(Trigger(w))
    /\ pc[w] \in {"winners", "create", "finish"} => LastStage(Trigger(w))
    /\ pc[w] = "create" =>
          /\ NewRound(plan[w], setting.n, NextRound(Trigger(w)))
          /\ Len(plan[w]) \in PowersOf2
          /\ Bracket(plan[w], 0, Len(plan[w]))

RoundsInv == BracketInv /\ \A w \in Workers : Knows(w)

\* With one thread only one request runs.
LEMMA OthersAreIdle ==
    ASSUME PlayInv, OneThread, NEW w \in Workers, w \in setting.threads \/ pc[w] # "idle"
    PROVE  \A v \in Workers : v # w => pc[v] = "idle"
<1>1. PICK x \in Workers : setting.threads = {x}
  BY DEF OneThread
<1>2. \A v \in Workers : pc[v] # "idle" => v = x
  BY <1>1 DEF PlayInv, RequestsInv, Request
<1> QED
  BY <1>1, <1>2

\* With one thread a step changes only what its own request knows.
LEMMA OnlyOneKnows ==
    ASSUME PlayInv, OneThread, NEW w \in Workers, w \in setting.threads \/ pc[w] # "idle",
           NEW label, Goto(w, label), Knows(w)'
    PROVE  \A v \in Workers : Knows(v)'
<1>1. \A v \in Workers : v # w => pc'[v] = "idle"
  BY OthersAreIdle DEF Goto, PlayInv, RequestsInv
<1> QED
  BY <1>1 DEF Knows

\* Only drawn fixtures of a tournament with groups have one.
LEMMA GroupsHaveFormat ==
    ASSUME PlayInv, NEW k \in DOMAIN fixtures, fixtures[k].group # 0
    PROVE  /\ setting.format = "group_knockout" /\ k \in DOMAIN DrawnRows
           /\ fixtures[k].group \in 1 .. NumGroups(setting.n)
<1>1. k \in DOMAIN DrawnRows
  BY DEF PlayInv, RowsInv, Added
<1>2. SameMatch(fixtures[k], DrawnRows[k])
  BY <1>1 DEF PlayInv, RowsInv
<1>3. DrawnRows[k].group # 0
  BY <1>2 DEF SameMatch
<1>4. setting \in Settings
  BY DEF PlayInv, RequestsInv
<1>5. DrawnFor(DrawnRows, setting) /\ setting.format \in TournamentFormat
  BY <1>4, SettingIsDrawn, SettingsAssumption DEF DrawnRows
<1>6. setting.format = "group_knockout"
  BY <1>1, <1>3, <1>5 DEF DrawnFor, TournamentFormat
<1> QED
  BY <1>1, <1>2, <1>5, <1>6 DEF DrawnFor, SameMatch

\* The first round of a bracket has a power of two of rows, the top seeds first.
LEMMA KnockoutIsPlaced ==
    ASSUME NEW n \in Nat, n >= 2, setting.n = n, NEW rows, rows = KnockoutRound1(n)
    PROVE  \E m \in PowersOf2 : DOMAIN rows = 1 .. m /\ Bracket(rows, 0, m)
<1>1. PICK b \in Nat, m \in PowersOf2 :
        /\ b + 2 * (m - b) = n /\ b < m
        /\ KnockoutRound1(n) =
              [k \in 1 .. m |-> IF k <= b THEN Bye(k) ELSE Fixture(1, 0, k, (n + b + 1) - k)]
  BY FirstRound
<1>2. m \in Nat \ {0}
  BY PowersDouble
<1>3. DOMAIN rows = 1 .. m
  BY <1>1
<1>4. ASSUME NEW k \in 1 .. m
      PROVE  \/ k <= b /\ Pair(rows[k]) = {k}
             \/ k > b /\ Pair(rows[k]) = {k, (n + b + 1) - k}
  <2>1. CASE k <= b
    <3>1. rows[k] = Bye(k)
      BY <1>1, <2>1
    <3> DEFINE f == Fixture(1, 0, k, NoTeam)
    <3>2. f.home = k /\ f.away = NoTeam
      BY DEF Fixture
    <3>3. Bye(k).home = k /\ Bye(k).away = NoTeam
      BY DEF Bye, Fixture
    <3>4. k # NoTeam
      BY DEF NoTeam
    <3> QED
      BY <2>1, <3>1, <3>3, <3>4 DEF Pair
  <2>2. CASE ~ (k <= b)
    <3> DEFINE l == (n + b + 1) - k
    <3>1. rows[k] = Fixture(1, 0, k, l)
      BY <1>1, <2>2
    <3>2. k # 0 /\ l # 0 /\ k > b
      BY <1>1, <1>2, <2>2
    <3> HIDE DEF l
    <3>3. rows[k].home = k /\ rows[k].away = l
      BY <3>1 DEF Fixture
    <3>4. Pair(rows[k]) = {k, l}
      BY <3>2, <3>3 DEF Pair, NoTeam
    <3> QED
      BY <3>2, <3>4 DEF l
  <2> QED
    BY <2>1, <2>2
<1>5. \A i \in 1 .. m : 0 + i = i
  OBVIOUS
<1>6. Bracket(rows, 0, m)
  <2> DEFINE l(k) == (n + b + 1) - k
  <2>3. \A k \in 1 .. m : l(k) \in Nat /\ l(k) = (2 * m + 1) - k /\ l(k) > m
    BY <1>1, <1>2
  <2>4. \A k \in 1 .. m : Pair(rows[k]) = {k} \/ Pair(rows[k]) = {k, l(k)}
    BY <1>4
  <2> HIDE DEF l
  <2>1. ASSUME NEW i \in 1 .. m, NEW j \in 1 .. m, i # j
        PROVE  Pair(rows[i]) \cap Pair(rows[j]) = {}
    <3>1. l(i) # j /\ l(j) # i /\ l(i) # l(j)
      BY <1>2, <2>1, <2>3
    <3> QED
      BY <2>1, <2>4, <3>1
  <2>2. ASSUME NEW i \in 1 .. m
        PROVE  /\ 1 \in Pair(rows[i]) => i = 1
               /\ 2 \in Pair(rows[i]) => i = 2 \/ m = 1
    <3>1. l(i) # 1 /\ (l(i) = 2 => m = 1)
      BY <1>2, <2>3
    <3> QED
      BY <2>4, <3>1
  <2> QED
    BY <1>5, <2>1, <2>2 DEF Bracket
<1> QED
  BY <1>3, <1>6

\* A drawn tournament satisfies it.
LEMMA RoundsInit ==
    ASSUME Init, HasRounds
    PROVE  RoundsInv
<1>1. setting \in Settings /\ fixtures = DrawnRows /\ pc = [w \in Workers |-> "idle"]
  BY DEF Init, DrawnRows
<1>2. setting.format \in TournamentFormat /\ setting.n \in Nat \ {0, 1} /\ DrawnFor(fixtures, setting)
  BY <1>1, SettingsAssumption, SettingIsDrawn DEF DrawnRows
<1>3. CASE setting.format = "knockout"
  <2>1. fixtures = KnockoutRound1(setting.n) /\ setting.n \in Nat /\ setting.n >= 2
    BY <1>1, <1>2, <1>3 DEF DrawnRows, Generated
  <2>2. PICK m \in PowersOf2 : DOMAIN fixtures = 1 .. m /\ Bracket(fixtures, 0, m)
    BY <2>1, KnockoutIsPlaced
  <2>3. \A k \in DOMAIN fixtures : fixtures[k].group = 0 /\ fixtures[k].round = 1
    BY <1>2, <1>3 DEF DrawnFor
  <2>4. \A r \in Nat : RoundRows(r) = IF r = 1 THEN DOMAIN fixtures ELSE {}
    BY <2>3 DEF RoundRows
  <2>5. m \in Nat \ {0}
    BY PowersDouble
  <2>6. BracketInv
    <3>1. RoundPlaced(1)
      <4>1. RoundRows(1) = 0 + 1 .. 0 + m
        BY <2>2, <2>4, <2>5
      <4> QED
        BY <2>2, <4>1 DEF RoundPlaced
    <3>2. ASSUME NEW j \in DOMAIN fixtures, NEW r \in 1 .. fixtures[j].round
          PROVE  RoundRows(r) # {}
      BY <2>3, <2>4, <3>2
    <3> QED
      BY <2>3, <2>4, <3>1, <3>2 DEF BracketInv, Before
  <2> QED
    BY <1>1, <2>6 DEF RoundsInv, Knows
<1>4. CASE setting.format = "group_knockout"
  <2>1. \A k \in DOMAIN fixtures : fixtures[k].group # 0
    BY <1>2, <1>4 DEF DrawnFor
  <2>2. \A r \in Nat : RoundRows(r) = {}
    BY <2>1 DEF RoundRows
  <2> QED
    BY <1>1, <2>1, <2>2 DEF RoundsInv, BracketInv, Knows
<1> QED
  BY <1>2, <1>3, <1>4 DEF HasRounds, TournamentFormat

\* So does one whose fixtures stay the same.
LEMMA RoundsKept ==
    ASSUME RoundsInv, fixtures' = fixtures, setting' = setting
    PROVE  BracketInv'
<1>1. \A r : RoundRows(r)' = RoundRows(r)
  BY DEF RoundRows
<1>2. \A a, m : Bracket(fixtures, a, m) => Bracket(fixtures, a, m)'
  BY DEF Bracket
<1>3. \A r : RoundPlaced(r) => RoundPlaced(r)'
  BY <1>1, <1>2 DEF RoundPlaced
<1> QED
  BY <1>1, <1>3 DEF RoundsInv, BracketInv, Before

\* A score only makes more of the table done.
LEMMA RoundsSaveScore ==
    ASSUME PlayInv, RoundsInv, OneThread, NEW w \in Workers, SaveScore(w)
    PROVE  RoundsInv'
<1> DEFINE i == want[w][1]
<1>1. /\ SavedAt(i) /\ pc[w] = "save" /\ pc' = [pc EXCEPT ![w] = "pending"]
      /\ UNCHANGED << setting, status, want, plan >>
  BY ScoreIsSaved
<1>2. /\ DOMAIN fixtures' = DOMAIN fixtures
      /\ \A k \in DOMAIN fixtures :
            /\ SameMatch(fixtures'[k], fixtures[k])
            /\ fixtures[k].done => fixtures'[k].done
  BY <1>1 DEF SavedAt
<1>3. \A r : RoundRows(r)' = RoundRows(r)
  BY <1>2 DEF RoundRows, SameMatch
<1>4. \A k \in DOMAIN fixtures : Pair(fixtures'[k]) = Pair(fixtures[k])
  BY <1>2 DEF Pair, SameMatch
<1>5. ASSUME NEW r \in Nat, RoundRows(r)' # {}
      PROVE  RoundPlaced(r)'
  <2>1. PICK a \in Nat, m \in PowersOf2 : RoundRows(r) = a + 1 .. a + m /\ Bracket(fixtures, a, m)
    BY <1>3, <1>5 DEF RoundsInv, BracketInv, RoundPlaced
  <2>2. m \in Nat
    BY PowersDouble
  <2>3. \A j \in 1 .. m : a + j \in DOMAIN fixtures
    <3>1. \A j \in 1 .. m : a + j \in RoundRows(r)
      BY <2>1, <2>2
    <3> QED
      BY <3>1 DEF RoundRows
  <2>4. Bracket(fixtures, a, m)'
    BY <1>1, <1>4, <2>1, <2>3 DEF Bracket
  <2> QED
    BY <1>3, <2>1, <2>4 DEF RoundPlaced
<1>6. BracketInv'
  <2>1. \A k \in DOMAIN fixtures :
           /\ fixtures'[k].group = fixtures[k].group /\ fixtures'[k].round = fixtures[k].round
           /\ fixtures[k].done => fixtures'[k].done
    BY <1>2 DEF SameMatch
  <2>2. ASSUME NEW j \in DOMAIN fixtures', NEW k \in DOMAIN fixtures',
               fixtures'[j].group = 0, Before(fixtures'[k], fixtures'[j].round)
        PROVE  fixtures'[k].done
    BY <1>2, <2>1, <2>2 DEF RoundsInv, BracketInv, Before
  <2>3. ASSUME NEW j \in DOMAIN fixtures', fixtures'[j].group = 0, NEW r \in 1 .. fixtures'[j].round
        PROVE  RoundRows(r)' # {}
    <3>1. j \in DOMAIN fixtures /\ fixtures[j].group = 0 /\ r \in 1 .. fixtures[j].round
      BY <1>2, <2>1, <2>3
    <3>2. RoundRows(r) # {}
      BY <3>1 DEF RoundsInv, BracketInv
    <3> QED
      BY <1>3, <3>2
  <2> QED
    BY <1>5, <2>2, <2>3 DEF BracketInv
<1>7. pc'[w] = "pending"
  BY <1>1 DEF PlayInv, RequestsInv
<1>8. \A v \in Workers : Knows(v)'
  <2>1. Knows(w)' /\ Goto(w, "pending")
    BY <1>1, <1>7 DEF Knows, Goto
  <2> QED
    BY <1>1, <2>1, OnlyOneKnows
<1> QED
  BY <1>6, <1>8 DEF RoundsInv

\* The two queries before a round find out what the request has to know.
LEMMA RoundsChecks ==
    ASSUME PlayInv, RoundsInv, OneThread, NEW w \in Workers,
           CheckRoundDone(w) \/ CheckNextRound(w)
    PROVE  RoundsInv'
<1>1. UNCHANGED << setting, status, fixtures, want, plan >>
  BY DEF CheckRoundDone, CheckNextRound
<1>2. pc[w] # "idle"
  BY DEF CheckRoundDone, CheckNextRound
<1>3. Request(w) /\ Trigger(w) \in AnyFixture(setting.n) /\ Trigger(w) = fixtures[want[w][1]]
      /\ want[w][1] \in DOMAIN fixtures
  BY <1>2, RowsAreFresh DEF PlayInv, RequestsInv, Request, Trigger
<1>4. Trigger(w)' = Trigger(w)
  BY <1>1 DEF Trigger
<1> DEFINE f == Trigger(w)
<1>5. CASE CheckRoundDone(w)
  <2> DEFINE table == IF f.group # 0 THEN GroupFixtures ELSE KnockoutRound(f.round)
             to == IF AllDone(table) THEN "exists" ELSE "idle"
  <2>1. Goto(w, to) /\ pc'[w] = to
    BY <1>5 DEF CheckRoundDone, Goto, PlayInv, RequestsInv
  <2>2. ASSUME AllDone(table) PROVE StageDone(f)
    <3>1. CASE f.group # 0
      <4>1. \A k \in DOMAIN fixtures : fixtures[k].group # 0 => fixtures[k].done
        BY <2>2, <3>1 DEF AllDone, GroupFixtures, RestrictValues, Restrict, Range
      <4> QED
        BY <3>1, <4>1 DEF StageDone, SameStage
    <3>2. CASE f.group = 0
      <4>1. \A k \in RoundRows(f.round) : fixtures[k].done
        BY <2>2, <3>2, RoundIsRows
      <4> QED
        BY <3>2, <4>1 DEF StageDone, SameStage, RoundRows
    <3> QED
      BY <3>1, <3>2
  <2>3. StageDone(f)' = StageDone(f)
    BY <1>1, <1>4 DEF StageDone, SameStage
  <2>4. to \in {"exists", "idle"} /\ (to = "exists" => StageDone(f))
    BY <2>2
  <2> HIDE DEF to, table
  <2>5. Knows(w)'
    BY <2>1, <2>3, <2>4 DEF Knows
  <2> QED
    BY <1>1, <1>2, <2>1, <2>5, RoundsKept, OnlyOneKnows DEF RoundsInv
<1>6. CASE CheckNextRound(w)
  <2> DEFINE to == IF DOMAIN KnockoutRound(NextRound(f)) = {} THEN "winners" ELSE "idle"
  <2>1. Goto(w, to) /\ pc'[w] = to /\ pc[w] = "exists"
    BY <1>6 DEF CheckNextRound, Goto, PlayInv, RequestsInv
  <2>2. StageDone(f)
    BY <2>1 DEF RoundsInv, Knows
  <2>3. ASSUME DOMAIN KnockoutRound(NextRound(f)) = {} PROVE LastStage(f)
    <3>1. RoundRows(NextRound(f)) = {}
      BY <2>3, RoundIsRows
    <3>2. f.group \in Nat /\ f.round \in Nat \ {0}
      BY <1>3 DEF AnyFixture
    <3>3. NextRound(f) \in Nat \ {0}
      BY <3>2 DEF NextRound
    <3>4. ASSUME NEW k \in DOMAIN fixtures
          PROVE  fixtures[k].done /\ Before(fixtures[k], NextRound(f))
      <4>1. fixtures[k] \in AnyFixture(setting.n)
        BY RowsAreFresh
      <4>2. fixtures[k].group \in Nat /\ fixtures[k].round \in Nat \ {0}
        BY <4>1 DEF AnyFixture
      <4>3. Before(fixtures[k], NextRound(f))
        <5> SUFFICES ASSUME fixtures[k].group = 0, fixtures[k].round >= NextRound(f)
                     PROVE  FALSE
          BY <3>3, <4>2 DEF Before
        <5>1. NextRound(f) \in 1 .. fixtures[k].round
          BY <3>3, <4>2
        <5> QED
          BY <3>1, <5>1 DEF RoundsInv, BracketInv
      <4>4. fixtures[k].done
        <5>1. CASE f.group # 0
          <6>1. NextRound(f) = 1
            BY <5>1 DEF NextRound
          <6>2. fixtures[k].group # 0
            BY <4>2, <4>3, <6>1 DEF Before
          <6> QED
            BY <2>2, <5>1, <6>2 DEF StageDone, SameStage
        <5>2. CASE f.group = 0
          <6>1. NextRound(f) = f.round + 1
            BY <5>2 DEF NextRound
          <6>2. CASE SameStage(f, fixtures[k])
            BY <2>2, <6>2 DEF StageDone
          <6>3. CASE ~ SameStage(f, fixtures[k])
            <7>1. Before(fixtures[k], f.round)
              BY <3>2, <4>2, <4>3, <5>2, <6>1, <6>3 DEF Before, SameStage
            <7> QED
              BY <1>3, <5>2, <7>1 DEF RoundsInv, BracketInv
          <6> QED
            BY <6>2, <6>3
        <5> QED
          BY <5>1, <5>2
      <4> QED
        BY <4>3, <4>4
    <3> QED
      BY <3>4 DEF LastStage
  <2>4. StageDone(f)' = StageDone(f) /\ LastStage(f)' = LastStage(f)
    BY <1>1, <1>4 DEF StageDone, SameStage, LastStage, Before, NextRound
  <2>5. to \in {"winners", "idle"} /\ (to = "winners" => LastStage(f))
    BY <2>3
  <2> HIDE DEF to
  <2>6. Knows(w)'
    BY <2>1, <2>2, <2>4, <2>5 DEF Knows
  <2> QED
    BY <1>1, <1>2, <2>1, <2>6, RoundsKept, OnlyOneKnows DEF RoundsInv
<1> QED
  BY <1>5, <1>6

\* The teams of a group's fixture belong to the group.
LEMMA GroupTeamsStay ==
    ASSUME PlayInv, NEW k \in DOMAIN fixtures, NEW g, g = fixtures[k].group, g # 0
    PROVE  fixtures[k].home \in Keys(setting.n, g) /\ fixtures[k].away \in Keys(setting.n, g)
<1>1. setting.format = "group_knockout" /\ k \in DOMAIN DrawnRows /\ g \in 1 .. NumGroups(setting.n)
  BY GroupsHaveFormat
<1>2. SameMatch(fixtures[k], DrawnRows[k])
  BY <1>1 DEF PlayInv, RowsInv
<1>3. setting \in Settings
  BY DEF PlayInv, RequestsInv
<1>4. setting.n \in Nat /\ setting.n >= 8
  BY <1>1, <1>3, GroupSizeIsLarge
<1>5. DrawnRows = GroupStage(setting.n)
  BY <1>1 DEF DrawnRows, Generated
<1> DEFINE table == GroupTable(setting.n, g)
           N == GroupLength(setting.n, g)
<1>6. Selects(DrawnRows, g, table, N)
  BY <1>1, <1>4, <1>5, StageOfLeagues
<1>7. League(table, N, Keys(setting.n, g), Cardinality(Keys(setting.n, g)), g)
  BY <1>1, <1>4, GroupIsLeague
<1> HIDE DEF table, N
<1>8. PICK off \in Nat :
         /\ \A l \in DOMAIN DrawnRows : DrawnRows[l].group = g <=> l \in off + 1 .. off + N
         /\ \A j \in 1 .. N : DrawnRows[off + j] = table[j]
  BY <1>6 DEF Selects
<1>9. N \in Nat
  BY <1>7 DEF League
<1>10. DrawnRows[k].group = g
  BY <1>2 DEF SameMatch
<1>11. k \in off + 1 .. off + N
  BY <1>1, <1>8, <1>10
<1> DEFINE j == k - off
<1>12. j \in 1 .. N /\ off + j = k
  BY <1>9, <1>11
<1> HIDE DEF j
<1>13. DrawnRows[k] = table[j]
  BY <1>8, <1>12
<1>14. table[j].home \in Keys(setting.n, g) /\ table[j].away \in Keys(setting.n, g)
  BY <1>7, <1>12 DEF League
<1> QED
  BY <1>2, <1>13, <1>14 DEF SameMatch

\* The table of a group lists teams of the group, each once.
LEMMA TablesOfGroups ==
    ASSUME PlayInv, setting.format = "group_knockout", NEW g \in 1 .. NumGroups(setting.n),
           NEW c, c = Cardinality(Ranked(Counted(GroupRows(g))))
    PROVE  /\ Ranked(Counted(GroupRows(g))) \subseteq Keys(setting.n, g)
           /\ c \in Nat /\ Len(GroupTables[g]) = c
           /\ GroupTables[g] \in Bijection(1 .. c, Ranked(Counted(GroupRows(g))))
<1> DEFINE counted == Counted(GroupRows(g))
<1>1. SortedBy(GroupTables[g], counted, Name)
  BY GroupTablesAreSorted
<1>2. \A k \in DOMAIN counted :
         k \in DOMAIN fixtures /\ counted[k] = fixtures[k] /\ fixtures[k].group = g
  BY GroupRowsAre
<1>3. g # 0
  BY DEF NumGroups
<1> HIDE DEF counted
<1>4. \A k \in DOMAIN counted :
         counted[k].home \in Keys(setting.n, g) /\ counted[k].away \in Keys(setting.n, g)
  BY <1>2, <1>3, GroupTeamsStay
<1>5. Ranked(counted) \subseteq Keys(setting.n, g)
  BY <1>4 DEF Ranked, Range
<1>6. SortedBy(GroupTables[g], counted, Name) => (c \in Nat /\ Len(GroupTables[g]) = c
        /\ GroupTables[g] \in Bijection(1 .. c, Ranked(counted)))
  BY DEF SortedBy, counted
<1> QED
  BY <1>1, <1>5, <1>6 DEF counted

\* No team is seeded twice.
LEMMA SeededApart ==
    ASSUME PlayInv, setting.format = "group_knockout", EnoughTeams,
           NEW G, G = NumGroups(setting.n)
    PROVE  /\ G \in PowersOf2 /\ Len(SeedPlan) = G /\ NewRound(SeedPlan, setting.n, 1)
           /\ Bracket(SeedPlan, 0, G)
           /\ \A g \in 1 .. G :
                 /\ GroupTables[g][1] \in Keys(setting.n, g) /\ GroupTables[g][2] \in Keys(setting.n, g)
                 /\ GroupTables[g][1] # GroupTables[g][2]
<1>1. G = 2 \/ G = 4
  BY DEF NumGroups
<1>2. G \in PowersOf2
  <2>1. Shifted[0] = 1 /\ Shifted[0 + 1] = 2 * Shifted[0] /\ Shifted[1 + 1] = 2 * Shifted[1]
    BY ShiftedGrows
  <2>2. Shifted[1] = 2 /\ Shifted[2] = 4
    BY <2>1
  <2> QED
    BY <1>1, <2>2 DEF PowersOf2
<1>3. /\ NewRound(SeedPlan, setting.n, 1) /\ Len(SeedPlan) = G
      /\ \A k \in 1 .. G :
            /\ SeedPlan[k].home = GroupTables[k][1]
            /\ (G + 1) - k \in 1 .. G
            /\ SeedPlan[k].away = GroupTables[(G + 1) - k][2]
  BY SeedPlanIsNew
<1>4. ASSUME NEW g \in 1 .. G
      PROVE  /\ GroupTables[g][1] \in Keys(setting.n, g) /\ GroupTables[g][2] \in Keys(setting.n, g)
             /\ GroupTables[g][1] # GroupTables[g][2]
  <2> DEFINE teams == Ranked(Counted(GroupRows(g)))
             c == Cardinality(teams)
  <2>1. teams \subseteq Keys(setting.n, g) /\ c \in Nat /\ c >= 2
        /\ GroupTables[g] \in Bijection(1 .. c, teams)
    BY TablesOfGroups DEF EnoughTeams
  <2> HIDE DEF teams, c
  <2> DEFINE order == GroupTables[g]
  <2>2. 1 \in 1 .. c /\ 2 \in 1 .. c /\ 1 # 2
    BY <2>1
  <2>3. /\ order \in [1 .. c -> teams]
        /\ \A i, j \in 1 .. c : order[i] = order[j] => i = j
    BY <2>1 DEF Bijection, Injection, IsInjective
  <2> HIDE DEF order
  <2>4. order[1] \in teams /\ order[2] \in teams /\ order[1] # order[2]
    BY <2>2, <2>3
  <2> QED
    BY <2>1, <2>4 DEF order
<1>5. \A g, h \in 1 .. G : g # h => Keys(setting.n, g) \cap Keys(setting.n, h) = {}
  BY <1>1 DEF Keys
<1>6. ASSUME NEW i \in 1 .. G, NEW j \in 1 .. G, i # j
      PROVE  Pair(SeedPlan[0 + i]) \cap Pair(SeedPlan[0 + j]) = {}
  <2> DEFINE p == (G + 1) - i
             q == (G + 1) - j
  <2>1. p \in 1 .. G /\ q \in 1 .. G /\ p # q /\ (i = q <=> j = p) /\ 0 + i = i /\ 0 + j = j
    BY <1>1, <1>6
  <2>2. /\ SeedPlan[i].home = GroupTables[i][1] /\ SeedPlan[i].away = GroupTables[p][2]
        /\ SeedPlan[j].home = GroupTables[j][1] /\ SeedPlan[j].away = GroupTables[q][2]
    BY <1>3
  <2> HIDE DEF p, q
  <2>3. GroupTables[i][1] # GroupTables[j][1] /\ GroupTables[p][2] # GroupTables[q][2]
    BY <1>4, <1>5, <1>6, <2>1
  <2>4. GroupTables[i][1] # GroupTables[q][2]
    BY <1>4, <1>5, <2>1
  <2>5. GroupTables[j][1] # GroupTables[p][2]
    BY <1>4, <1>5, <2>1
  <2> QED
    BY <2>1, <2>2, <2>3, <2>4, <2>5 DEF Pair
<1>7. Bracket(SeedPlan, 0, G)
  BY <1>6 DEF Bracket
<1> QED
  BY <1>2, <1>3, <1>4, <1>7

\* Seeding plans a round like those of a bracket.
LEMMA RoundsSeedKnockout ==
    ASSUME PlayInv, RoundsInv, OneThread, NEW w \in Workers, SeedKnockout(w)
    PROVE  RoundsInv'
<1>1. /\ pc[w] = "winners" /\ Trigger(w).group # 0
      /\ \/ EnoughTeams /\ plan' = [plan EXCEPT ![w] = SeedPlan] /\ Goto(w, "create")
         \/ ~ EnoughTeams /\ plan' = plan /\ Goto(w, "idle")
      /\ UNCHANGED << setting, status, fixtures, want >>
  BY SeedKnockoutSteps
<1>2. Request(w) /\ want[w][1] \in DOMAIN fixtures /\ Trigger(w) = fixtures[want[w][1]]
  BY <1>1 DEF PlayInv, RequestsInv, Request, Trigger
<1>3. setting.format = "group_knockout"
  BY <1>1, <1>2, GroupsHaveFormat
<1>4. StageDone(Trigger(w)) /\ LastStage(Trigger(w))
  BY <1>1 DEF RoundsInv, Knows
<1>5. StageDone(Trigger(w))' /\ LastStage(Trigger(w))' /\ Trigger(w)' = Trigger(w)
  BY <1>1, <1>4 DEF Trigger, StageDone, LastStage, SameStage, Before, NextRound
<1>6. CASE EnoughTeams
  <2>1. Goto(w, "create") /\ pc'[w] = "create" /\ plan'[w] = SeedPlan
    BY <1>1, <1>6 DEF Goto, PlayInv, RequestsInv
  <2>2. /\ Len(SeedPlan) \in PowersOf2 /\ NewRound(SeedPlan, setting.n, 1)
        /\ Bracket(SeedPlan, 0, Len(SeedPlan))
    BY <1>3, <1>6, SeededApart
  <2>3. NextRound(Trigger(w)) = 1
    BY <1>1 DEF NextRound
  <2>4. Bracket(SeedPlan, 0, Len(SeedPlan)) => Bracket(plan[w], 0, Len(plan[w]))'
    BY <1>1, <2>1 DEF Bracket
  <2>5. Knows(w)'
    BY <1>1, <1>5, <2>1, <2>2, <2>3, <2>4 DEF Knows
  <2> QED
    BY <1>1, <2>1, <2>5, RoundsKept, OnlyOneKnows DEF RoundsInv
<1>7. CASE ~ EnoughTeams
  <2>1. Goto(w, "idle") /\ pc'[w] = "idle"
    BY <1>1, <1>7 DEF Goto, PlayInv, RequestsInv
  <2>2. Knows(w)'
    BY <2>1 DEF Knows
  <2> QED
    BY <1>1, <2>1, <2>2, RoundsKept, OnlyOneKnows DEF RoundsInv
<1> QED
  BY <1>6, <1>7

\* The winner is one of the two.
LEMMA WinnerPlays ==
    ASSUME PlayInv, NEW k \in DOMAIN fixtures
    PROVE  Winner(fixtures[k]) \in Pair(fixtures[k])
<1>1. fixtures[k] \in AnyFixture(setting.n) /\ (fixtures[k].away = NoTeam <=> fixtures[k].bye)
  BY RowsAreFresh
<1>2. fixtures[k].home # NoTeam
  BY <1>1 DEF AnyFixture, NoTeam
<1> QED
  BY <1>1, <1>2 DEF Winner, Pair

\* The winners of a round that is over, in the order of its rows.
LEMMA WinnersInOrder ==
    ASSUME PlayInv, NEW r, NEW a \in Nat, NEW m \in PowersOf2,
           RoundRows(r) = a + 1 .. a + m, \A k \in RoundRows(r) : fixtures[k].done
    PROVE  /\ Cardinality(PlayedRows(r)) = m /\ m \in Nat \ {0}
           /\ Winners(r) \in [1 .. m -> 1 .. setting.n]
           /\ \A i \in 1 .. m :
                 /\ a + i \in DOMAIN fixtures
                 /\ Winners(r)[i] = Winner(fixtures[a + i])
                 /\ Winners(r)[i] \in Pair(fixtures[a + i])
<1>1. m \in Nat \ {0}
  BY PowersDouble
<1>2. PlayedRows(r) = a + 1 .. a + m
  BY DEF PlayedRows
<1>3. Cardinality(PlayedRows(r)) = m
  BY <1>1, <1>2, FS_Interval
<1>4. InOrder(PlayedRows(r)) = [i \in 1 .. m |-> a + i]
  BY <1>1, <1>2, InOrderInterval
<1>5. /\ Winners(r) \in [1 .. m -> 1 .. setting.n]
      /\ \A i \in 1 .. m : Winners(r)[i] = Winner(fixtures[InOrder(PlayedRows(r))[i]])
  BY <1>3, WinnersAreTeams
<1>6. \A i \in 1 .. m : Winners(r)[i] = Winner(fixtures[a + i])
  BY <1>4, <1>5
<1>7. \A i \in 1 .. m : a + i \in DOMAIN fixtures
  <2>1. \A i \in 1 .. m : a + i \in RoundRows(r)
    BY <1>1
  <2> QED
    BY <2>1 DEF RoundRows
<1> QED
  BY <1>1, <1>3, <1>5, <1>6, <1>7, WinnerPlays

\* The pairs of a new round, and the round they come from.
PairedFrom(rows, teams, q) ==
    /\ Len(rows) = q
    /\ \A k \in 1 .. q :
          rows[k].home = teams[k] /\ rows[k].away = teams[(2 * q + 1) - k]

\* Winners paired inward from a bracket make a bracket of half its size.
LEMMA WinnersApart ==
    ASSUME NEW a \in Nat, NEW q \in Nat \ {0}, Bracket(fixtures, a, 2 * q),
           NEW teams, \A i \in 1 .. 2 * q : teams[i] \in Pair(fixtures[a + i]),
           NEW rows, PairedFrom(rows, teams, q)
    PROVE  Bracket(rows, 0, q)
<1> DEFINE l(k) == (2 * q + 1) - k
<1>1. \A k \in 1 .. q : l(k) \in 1 .. 2 * q /\ l(k) > q /\ k \in 1 .. 2 * q
  OBVIOUS
<1>2. \A k, j \in 1 .. q : k # j => l(k) # l(j)
  OBVIOUS
<1>3. \A k \in 1 .. q : (l(k) = 2 => q = 1) /\ l(k) # 1 /\ (2 * q # 1)
  OBVIOUS
<1>4. \A k \in 1 .. q : rows[k].home = teams[k] /\ rows[k].away = teams[l(k)] /\ 0 + k = k
  BY DEF PairedFrom
<1> HIDE DEF l
<1>5. \A i, j \in 1 .. 2 * q : i # j => teams[i] # teams[j]
  BY DEF Bracket
<1>6. ASSUME NEW i \in 1 .. q, NEW j \in 1 .. q, i # j
      PROVE  Pair(rows[0 + i]) \cap Pair(rows[0 + j]) = {}
  <2>1. l(i) # j /\ l(j) # i /\ l(i) # l(j)
    BY <1>1, <1>2, <1>6
  <2>2. /\ teams[i] # teams[j] /\ teams[i] # teams[l(j)]
        /\ teams[l(i)] # teams[j] /\ teams[l(i)] # teams[l(j)]
    BY <1>1, <1>5, <1>6, <2>1
  <2> QED
    BY <1>4, <2>2 DEF Pair
<1>7. ASSUME setting.format = "knockout", NEW i \in 1 .. q
      PROVE  /\ 1 \in Pair(rows[0 + i]) => i = 1
             /\ 2 \in Pair(rows[0 + i]) => i = 2 \/ q = 1
  <2>1. \A j \in 1 .. 2 * q :
           /\ teams[j] = 1 => j = 1
           /\ teams[j] = 2 => j = 2
    BY <1>3, <1>7 DEF Bracket
  <2>2. 1 \in Pair(rows[0 + i]) => teams[i] = 1 \/ teams[l(i)] = 1
    BY <1>4 DEF Pair
  <2>3. 2 \in Pair(rows[0 + i]) => teams[i] = 2 \/ teams[l(i)] = 2
    BY <1>4 DEF Pair
  <2> QED
    BY <1>1, <1>3, <2>1, <2>2, <2>3
<1> QED
  BY <1>6, <1>7 DEF Bracket

\* The winners of a round that is over are planned as the next one.
LEMMA RoundsReadWinners ==
    ASSUME PlayInv, RoundsInv, OneThread, NEW w \in Workers, ReadWinners(w),
           NEW r, r = Trigger(w).round
    PROVE  /\ RoundsInv'
           /\ pc'[w] = "create" =>
                 \E a \in Nat, q \in Nat \ {0} :
                    /\ RoundRows(r) = a + 1 .. a + 2 * q
                    /\ Cardinality(PlayedRows(r)) = 2 * q
                    /\ PairedFrom(plan'[w], Winners(r), q)
<1> DEFINE c == Cardinality(PlayedRows(r))
           d == c \div 2
           p == WinnersPlan(w)
<1>1. /\ pc[w] = "winners" /\ Trigger(w).group = 0 /\ Request(w)
      /\ r \in Nat \ {0} /\ NextRound(Trigger(w)) = r + 1
      /\ plan' = [plan EXCEPT ![w] = p]
      /\ Goto(w, IF d = 0 THEN "finish" ELSE "create")
      /\ UNCHANGED << setting, status, fixtures, want >>
      /\ c \in Nat /\ d \in Nat
      /\ NewRound(p, setting.n, r + 1)
      /\ Len(p) = d
      /\ \A k \in 1 .. d :
            /\ k \in 1 .. c /\ (c + 1) - k \in 1 .. c
            /\ p[k].home = Winners(r)[k]
            /\ p[k].away = Winners(r)[(c + 1) - k]
  <2>1. c = Cardinality(PlayedRows(r))
    OBVIOUS
  <2> HIDE DEF c
  <2> QED
    BY <2>1, ReadWinnersSteps
<1>2. want[w][1] \in DOMAIN fixtures /\ Trigger(w) = fixtures[want[w][1]]
  BY <1>1 DEF Request, Trigger
<1>3. StageDone(Trigger(w)) /\ LastStage(Trigger(w))
  BY <1>1 DEF RoundsInv, Knows
<1>4. StageDone(Trigger(w))' /\ LastStage(Trigger(w))' /\ Trigger(w)' = Trigger(w)
  BY <1>1, <1>3 DEF Trigger, StageDone, LastStage, SameStage, Before, NextRound
<1>5. want[w][1] \in RoundRows(r)
  BY <1>1, <1>2 DEF RoundRows
<1>6. PICK a \in Nat, m \in PowersOf2 : RoundRows(r) = a + 1 .. a + m /\ Bracket(fixtures, a, m)
  BY <1>1, <1>5 DEF RoundsInv, BracketInv, RoundPlaced
<1>7. \A k \in RoundRows(r) : fixtures[k].done
  BY <1>1, <1>3 DEF StageDone, SameStage, RoundRows
<1>8. /\ c = m /\ m \in Nat \ {0}
      /\ \A i \in 1 .. m : Winners(r)[i] \in Pair(fixtures[a + i])
  BY <1>6, <1>7, WinnersInOrder
<1> HIDE DEF p
<1>9. CASE m = 1
  <2>1. d = 0
    BY <1>8, <1>9
  <2> HIDE DEF c, d
  <2>2. Goto(w, "finish") /\ pc'[w] = "finish"
    BY <1>1, <2>1 DEF Goto, PlayInv, RequestsInv
  <2>3. Knows(w)'
    BY <1>4, <2>2 DEF Knows
  <2> QED
    BY <1>1, <2>2, <2>3, RoundsKept, OnlyOneKnows DEF RoundsInv
<1>10. CASE m # 1
  <2>1. PICK q \in PowersOf2 : m = 2 * q
    BY <1>10, PowersDouble
  <2>2. q \in Nat \ {0}
    BY PowersDouble
  <2>3. d = q /\ d # 0 /\ c = 2 * q
    BY <1>8, <2>1, <2>2
  <2> HIDE DEF c, d
  <2>4. Goto(w, "create") /\ pc'[w] = "create" /\ plan'[w] = p
    BY <1>1, <2>3 DEF Goto, PlayInv, RequestsInv
  <2>5. PairedFrom(p, Winners(r), q)
    BY <1>1, <2>3 DEF PairedFrom
  <2>6. Bracket(fixtures, a, 2 * q) /\ \A i \in 1 .. 2 * q : Winners(r)[i] \in Pair(fixtures[a + i])
    BY <1>6, <1>8, <2>1
  <2>7. Bracket(p, 0, q)
    BY <2>2, <2>5, <2>6, WinnersApart
  <2>8. Bracket(p, 0, Len(p))
    BY <1>1, <2>3, <2>7
  <2>9. Bracket(plan[w], 0, Len(plan[w]))'
    BY <1>1, <2>4, <2>8 DEF Bracket
  <2>10. NewRound(plan'[w], setting'.n, NextRound(Trigger(w))') /\ Len(plan'[w]) \in PowersOf2
    BY <1>1, <1>4, <2>3, <2>4 DEF NextRound
  <2>11. Knows(w)'
    BY <1>4, <2>9, <2>10 DEF Knows
  <2>12. RoundsInv'
    BY <1>1, <2>4, <2>11, RoundsKept, OnlyOneKnows DEF RoundsInv
  <2> QED
    BY <1>6, <2>1, <2>2, <2>3, <2>4, <2>5, <2>12 DEF c
<1> QED
  BY <1>9, <1>10

\* What a new round leaves as it was, and where its rows are.
AppendedTo(w) ==
    /\ Len(fixtures) \in Nat /\ Len(plan[w]) \in Nat
    /\ DOMAIN fixtures = 1 .. Len(fixtures) /\ DOMAIN plan[w] = 1 .. Len(plan[w])
    /\ DOMAIN fixtures' = 1 .. Len(fixtures) + Len(plan[w])
    /\ \A k \in DOMAIN fixtures : k \in DOMAIN fixtures' /\ fixtures'[k] = fixtures[k]
    /\ \A i \in DOMAIN plan[w] :
          Len(fixtures) + i \in DOMAIN fixtures' /\ fixtures'[Len(fixtures) + i] = plan[w][i]
    /\ \A k \in DOMAIN fixtures' :
          k \notin DOMAIN fixtures =>
              \E i \in DOMAIN plan[w] : k = Len(fixtures) + i /\ fixtures'[k] = plan[w][i]

\* CreateRound in terms of AppendedTo.
LEMMA RoundIsCreated ==
    ASSUME PlayInv, NEW w \in Workers, CreateRound(w)
    PROVE  /\ pc[w] = "create" /\ Goto(w, "idle") /\ pc'[w] = "idle" /\ Request(w)
           /\ UNCHANGED << setting, status, want >>
           /\ AppendedTo(w)
<1> DEFINE s == fixtures
           t == plan[w]
           S == AnyFixture(setting.n)
<1>1. /\ pc[w] = "create" /\ fixtures' = s \o t /\ Goto(w, "idle")
      /\ UNCHANGED << setting, status, want >>
  BY DEF CreateRound
<1>2. Request(w) /\ pc'[w] = "idle"
  BY <1>1 DEF PlayInv, RequestsInv, Goto
<1>3. s \in Seq(S) /\ t \in Seq(S)
  BY DEF PlayInv, RowsInv, RequestsInv
<1> HIDE DEF s, t, S
<1> DEFINE joined == s \o t
<1>4. /\ joined \in Seq(S) /\ Len(joined) = Len(s) + Len(t)
      /\ \A k \in 1 .. Len(s) : joined[k] = s[k]
      /\ \A k \in Len(s) + 1 .. Len(s) + Len(t) : joined[k] = t[k - Len(s)]
  BY <1>3, ConcatProperties
<1>5. Len(s) \in Nat /\ Len(t) \in Nat /\ DOMAIN s = 1 .. Len(s) /\ DOMAIN t = 1 .. Len(t)
      /\ DOMAIN joined = 1 .. Len(s) + Len(t)
  BY <1>3, <1>4
<1>6. fixtures' = joined
  BY <1>1
<1> HIDE DEF joined
<1>7. \A k \in DOMAIN s : k \in DOMAIN joined /\ joined[k] = s[k]
  BY <1>4, <1>5
<1>8. \A i \in DOMAIN t : Len(s) + i \in DOMAIN joined /\ joined[Len(s) + i] = t[i]
  <2> SUFFICES ASSUME NEW i \in DOMAIN t
               PROVE  Len(s) + i \in DOMAIN joined /\ joined[Len(s) + i] = t[i]
    OBVIOUS
  <2>1. Len(s) + i \in Len(s) + 1 .. Len(s) + Len(t) /\ (Len(s) + i) - Len(s) = i
    BY <1>5
  <2> QED
    BY <1>4, <1>5, <2>1
<1>9. \A k \in DOMAIN joined :
         k \notin DOMAIN s => \E i \in DOMAIN t : k = Len(s) + i /\ joined[k] = t[i]
  <2> SUFFICES ASSUME NEW k \in DOMAIN joined, k \notin DOMAIN s
               PROVE  \E i \in DOMAIN t : k = Len(s) + i /\ joined[k] = t[i]
    OBVIOUS
  <2> DEFINE j == k - Len(s)
  <2>1. j \in DOMAIN t /\ k = Len(s) + j
    BY <1>5
  <2> HIDE DEF j
  <2> QED
    BY <1>8, <2>1
<1>10. AppendedTo(w)
  BY <1>5, <1>6, <1>7, <1>8, <1>9 DEF AppendedTo, s, t
<1> QED
  BY <1>1, <1>2, <1>10

\* The q rows of w's plan follow the L rows of the table, as the first of
\* their round, the r-th.
IsAdded(w, r, L, q) ==
    /\ RoundRows(r)' = L + 1 .. L + q /\ q \in PowersOf2 /\ L \in Nat /\ r \in Nat \ {0}
    /\ RoundRows(r) = {} /\ \A x : x # r => RoundRows(x)' = RoundRows(x)
    /\ \A k \in DOMAIN fixtures : fixtures[k].done /\ Before(fixtures[k], r)
    /\ \A i \in 1 .. q :
          /\ i \in DOMAIN plan[w] /\ fixtures'[L + i] = plan[w][i]
          /\ plan[w][i].group = 0 /\ plan[w][i].round = r

\* The planned round is added once, after all others.
LEMMA RoundsCreateRound ==
    ASSUME PlayInv, RoundsInv, OneThread, NEW w \in Workers, CreateRound(w),
           NEW r, r = NextRound(Trigger(w)), NEW L, L = Len(fixtures),
           NEW q, q = Len(plan[w])
    PROVE  RoundsInv' /\ IsAdded(w, r, L, q)
<1>1. /\ pc[w] = "create" /\ Goto(w, "idle") /\ pc'[w] = "idle" /\ Request(w)
      /\ UNCHANGED << setting, status, want >> /\ AppendedTo(w)
  BY RoundIsCreated
<1>2. /\ NewRound(plan[w], setting.n, r) /\ q \in PowersOf2 /\ Bracket(plan[w], 0, q)
      /\ LastStage(Trigger(w))
  BY <1>1 DEF RoundsInv, Knows
<1>3. want[w][1] \in DOMAIN fixtures /\ Trigger(w) = fixtures[want[w][1]]
      /\ Trigger(w) \in AnyFixture(setting.n)
  BY <1>1, RowsAreFresh DEF Request, Trigger
<1>4. r \in Nat \ {0} /\ L \in Nat /\ q \in Nat \ {0}
  <2>1. r \in Nat \ {0}
    BY <1>3 DEF NextRound, AnyFixture
  <2> QED
    BY <1>1, <1>2, <2>1, PowersDouble DEF AppendedTo
<1>5. \A k \in DOMAIN fixtures :
         /\ fixtures[k].done /\ Before(fixtures[k], r)
         /\ k \in DOMAIN fixtures' /\ fixtures'[k] = fixtures[k]
         /\ fixtures[k].group \in Nat /\ fixtures[k].round \in Nat \ {0}
  BY <1>1, <1>2, RowsAreFresh DEF LastStage, AppendedTo, AnyFixture
<1>6. \A i \in 1 .. q :
         /\ i \in DOMAIN plan[w] /\ fixtures'[L + i] = plan[w][i]
         /\ plan[w][i].group = 0 /\ plan[w][i].round = r
  BY <1>1, <1>2 DEF AppendedTo, NewRound
<1>7. /\ DOMAIN fixtures = 1 .. L /\ DOMAIN fixtures' = 1 .. L + q
      /\ \A k \in L + 1 .. L + q : \E i \in 1 .. q : k = L + i
  <2>1. DOMAIN fixtures = 1 .. L /\ DOMAIN fixtures' = 1 .. L + q
    BY <1>1 DEF AppendedTo
  <2>2. ASSUME NEW k \in L + 1 .. L + q PROVE \E i \in 1 .. q : k = L + i
    <3>1. k - L \in 1 .. q /\ k = L + (k - L)
      BY <1>4
    <3> QED
      BY <3>1
  <2> QED
    BY <2>1, <2>2
<1>8. \A k \in L + 1 .. L + q :
         k \in DOMAIN fixtures' /\ fixtures'[k].group = 0 /\ fixtures'[k].round = r
  <2> SUFFICES ASSUME NEW k \in L + 1 .. L + q
               PROVE  /\ k \in DOMAIN fixtures'
                      /\ fixtures'[k].group = 0 /\ fixtures'[k].round = r
    OBVIOUS
  <2>1. k \in 1 .. L + q
    BY <1>4
  <2>2. PICK i \in 1 .. q : k = L + i
    BY <1>7
  <2> QED
    BY <1>6, <1>7, <2>1, <2>2
<1>9. RoundRows(r) = {}
  BY <1>4, <1>5 DEF RoundRows, Before
<1>10. RoundRows(r)' = L + 1 .. L + q
  <2>1. ASSUME NEW k \in DOMAIN fixtures', fixtures'[k].group = 0, fixtures'[k].round = r
        PROVE  k \in L + 1 .. L + q
    <3>1. k \notin DOMAIN fixtures
      BY <1>5, <1>9, <2>1 DEF RoundRows
    <3> QED
      BY <1>4, <1>7, <3>1
  <2> QED
    BY <1>8, <2>1 DEF RoundRows
<1>11. \A k \in DOMAIN fixtures' : k \in DOMAIN fixtures \/ k \in L + 1 .. L + q
  BY <1>4, <1>7
<1>12. \A x : x # r => RoundRows(x)' = RoundRows(x)
  BY <1>5, <1>8, <1>11 DEF RoundRows
<1>13. RoundPlaced(r)'
  <2>1. Bracket(fixtures, L, q)'
    <3>1. \A i \in 1 .. q : Pair(fixtures'[L + i]) = Pair(plan[w][0 + i])
      BY <1>4, <1>6
    <3> QED
      BY <1>1, <1>2, <3>1 DEF Bracket
  <2> QED
    BY <1>2, <1>4, <1>10, <2>1 DEF RoundPlaced
<1>14. ASSUME NEW x \in Nat, x # r, RoundRows(x)' # {}
       PROVE  RoundPlaced(x)'
  <2>1. RoundRows(x) # {} /\ RoundRows(x)' = RoundRows(x)
    BY <1>12, <1>14
  <2>2. PICK a \in Nat, m \in PowersOf2 : RoundRows(x) = a + 1 .. a + m /\ Bracket(fixtures, a, m)
    BY <2>1 DEF RoundsInv, BracketInv, RoundPlaced
  <2>3. m \in Nat
    BY PowersDouble
  <2>4. \A i \in 1 .. m : fixtures'[a + i] = fixtures[a + i]
    <3>1. \A i \in 1 .. m : a + i \in RoundRows(x)
      BY <2>2, <2>3
    <3> QED
      BY <1>5, <3>1 DEF RoundRows
  <2>5. Bracket(fixtures, a, m)'
    BY <1>1, <2>2, <2>4 DEF Bracket
  <2> QED
    BY <2>1, <2>2, <2>5 DEF RoundPlaced
<1>15. ASSUME NEW j \in DOMAIN fixtures', NEW k \in DOMAIN fixtures',
              fixtures'[j].group = 0, Before(fixtures'[k], fixtures'[j].round)
       PROVE  fixtures'[k].done
  <2>1. CASE k \in DOMAIN fixtures
    BY <1>5, <2>1
  <2>2. CASE k \notin DOMAIN fixtures
    <3>1. fixtures'[k].group = 0 /\ fixtures'[k].round = r
      BY <1>8, <1>11, <2>2
    <3>2. j \in DOMAIN fixtures
      BY <1>4, <1>8, <1>11, <1>15, <3>1 DEF Before
    <3> QED
      BY <1>4, <1>5, <1>15, <3>1, <3>2 DEF Before
  <2> QED
    BY <2>1, <2>2
<1>16. ASSUME NEW j \in DOMAIN fixtures', fixtures'[j].group = 0, NEW x \in 1 .. fixtures'[j].round
       PROVE  RoundRows(x)' # {}
  <2>1. CASE x = r
    <3>1. L + 1 \in L + 1 .. L + q
      BY <1>4
    <3> QED
      BY <1>10, <2>1, <3>1
  <2>2. CASE x # r /\ j \in DOMAIN fixtures
    <3>1. fixtures[j].group = 0 /\ x \in 1 .. fixtures[j].round
      BY <1>5, <1>16, <2>2
    <3>2. RoundRows(x) # {}
      BY <2>2, <3>1 DEF RoundsInv, BracketInv
    <3> QED
      BY <1>12, <2>2, <3>2
  <2>3. CASE x # r /\ j \notin DOMAIN fixtures
    <3>1. fixtures'[j].round = r
      BY <1>8, <1>11, <2>3
    <3>2. x \in Nat /\ x >= 1 /\ x < r
      BY <1>4, <2>3, <3>1
    <3>3. Trigger(w).group = 0 /\ r = Trigger(w).round + 1
      BY <1>3, <3>2 DEF NextRound, AnyFixture
    <3>4. x \in 1 .. Trigger(w).round
      <4>1. Trigger(w).round \in Nat
        BY <1>3 DEF AnyFixture
      <4> QED
        BY <3>2, <3>3, <4>1
    <3>5. RoundRows(x) # {}
      BY <1>3, <3>3, <3>4 DEF RoundsInv, BracketInv
    <3> QED
      BY <1>12, <2>3, <3>5
  <2> QED
    BY <2>1, <2>2, <2>3
<1>17. BracketInv'
  BY <1>13, <1>14, <1>15, <1>16 DEF BracketInv
<1>18. Knows(w)'
  BY <1>1 DEF Knows
<1>19. RoundsInv'
  BY <1>1, <1>17, <1>18, OnlyOneKnows DEF RoundsInv
<1> QED
  BY <1>2, <1>4, <1>5, <1>6, <1>9, <1>10, <1>12, <1>19 DEF IsAdded

\* Every step keeps the rounds in order.
LEMMA RoundsStep ==
    ASSUME PlayInv, RoundsInv, OneThread, [Next]_vars
    PROVE  RoundsInv'
<1>1. ASSUME UNCHANGED << setting, fixtures, pc, want, plan >>
      PROVE  RoundsInv'
  <2>1. BracketInv'
    BY <1>1, RoundsKept
  <2>2. ASSUME NEW w \in Workers
        PROVE  Knows(w)'
    <3>1. Knows(w)
      BY DEF RoundsInv
    <3> QED
      BY <1>1, <3>1 DEF Knows, Bracket, Trigger, StageDone, LastStage, SameStage, Before, NextRound
  <2> QED
    BY <2>1, <2>2 DEF RoundsInv
<1>2. ASSUME NEW w \in Workers, CheckInProgress(w)
      PROVE  RoundsInv'
  <2>1. w \in setting.threads /\ Goto(w, "save") /\ UNCHANGED << setting, fixtures, plan >>
    BY <1>2 DEF CheckInProgress
  <2>2. pc'[w] = "save"
    BY <2>1 DEF Goto, PlayInv, RequestsInv
  <2>3. Knows(w)'
    BY <2>2 DEF Knows
  <2> QED
    BY <2>1, <2>3, RoundsKept, OnlyOneKnows DEF RoundsInv
<1>3. ASSUME NEW w \in Workers, Finish(w) \/ Crash(w)
      PROVE  RoundsInv'
  <2>1. pc[w] # "idle" /\ Goto(w, "idle") /\ UNCHANGED << setting, fixtures >>
    BY <1>3 DEF Finish, Crash
  <2>2. pc'[w] = "idle"
    BY <2>1 DEF Goto, PlayInv, RequestsInv
  <2>3. Knows(w)'
    BY <2>2 DEF Knows
  <2> QED
    BY <2>1, <2>3, RoundsKept, OnlyOneKnows DEF RoundsInv
<1>4. CASE UNCHANGED vars
  BY <1>1, <1>4 DEF vars
<1>5. CASE Complete
  BY <1>1, <1>5 DEF Complete
<1> QED
  BY <1>2, <1>3, <1>4, <1>5, RoundsSaveScore, RoundsChecks, RoundsSeedKnockout,
     RoundsReadWinners, RoundsCreateRound DEF Next, WorkerStep

Serial == HasRounds /\ OneThread

\* No step changes the setting.
LEMMA SettingStays == [Next]_vars => setting' = setting
BY DEF Next, WorkerStep, vars, CheckInProgress, SaveScore, CheckRoundDone, CheckNextRound,
       SeedKnockout, ReadWinners, CreateRound, Finish, Crash, Complete

SerialInv == Serial => RoundsInv

\* Every step keeps them in order where requests do not overlap.
LEMMA SerialStep == PlayInv /\ SerialInv /\ [Next]_vars => SerialInv'
<1> SUFFICES ASSUME PlayInv, SerialInv, [Next]_vars, Serial'
             PROVE  RoundsInv'
  BY DEF SerialInv
<1>1. Serial
  BY SettingStays DEF Serial, HasRounds, OneThread
<1> QED
  BY <1>1, RoundsStep DEF SerialInv, Serial

\* The invariant of the rounds.
LEMMA RoundsAreKept == Spec => [](PlayInv /\ SerialInv)
<1>1. Init => SerialInv
  BY RoundsInit DEF SerialInv, Serial
<1> QED
  BY <1>1, PlayIsWellFormed, SerialStep, PTL DEF Spec

\* Whatever is corrected and whenever a process dies: as long as requests do
\* not overlap, the check for an existing round keeps
\* maybe_generate_next_round from giving a team two fixtures in one round.
THEOREM NoTeamTwiceARound == Spec => []OneFixturePerRound
<1>1. PlayInv /\ SerialInv => OneFixturePerRound
  <2> SUFFICES ASSUME PlayInv, RoundsInv, NEW r \in Rounds,
                      NEW j \in RoundRows(r), NEW k \in RoundRows(r), j # k
               PROVE  Pair(fixtures[j]) \cap Pair(fixtures[k]) = {}
    BY RoundIsRows DEF OneFixturePerRound, SerialInv, Serial
  <2>1. fixtures[j] \in AnyFixture(setting.n) /\ fixtures[j].round = r
    BY RowsAreFresh DEF RoundRows
  <2>2. r \in Nat
    BY <2>1 DEF AnyFixture
  <2>3. PICK a \in Nat, m \in PowersOf2 : RoundRows(r) = a + 1 .. a + m /\ Bracket(fixtures, a, m)
    BY <2>2 DEF RoundsInv, BracketInv, RoundPlaced
  <2>4. m \in Nat
    BY PowersDouble
  <2> DEFINE p == j - a
             q == k - a
  <2>5. p \in 1 .. m /\ q \in 1 .. m /\ p # q /\ j = a + p /\ k = a + q
    BY <2>3, <2>4
  <2> HIDE DEF p, q
  <2> QED
    BY <2>3, <2>5 DEF Bracket
<1> QED
  BY <1>1, RoundsAreKept, PTL

\* No round starts before the one before it is over, and no knockout before
\* the groups are: the "pending" query of maybe_generate_next_round.
THEOREM RoundsInOrder == Spec => []NoRoundTooEarly
<1>1. PlayInv /\ SerialInv => NoRoundTooEarly
  <2> SUFFICES ASSUME RoundsInv, NEW j \in DOMAIN fixtures, NEW k \in DOMAIN fixtures,
                      fixtures[j].group = 0,
                      fixtures[k].group # 0 \/ fixtures[k].round < fixtures[j].round
               PROVE  fixtures[k].done
    BY DEF NoRoundTooEarly, SerialInv, Serial, Range
  <2> QED
    BY DEF RoundsInv, BracketInv, Before
<1> QED
  BY <1>1, RoundsAreKept, PTL

\* The code completes a tournament with a knockout stage only after its last
\* fixture, as long as requests do not overlap.
THEOREM EndsWhenPlayed == Spec => BracketCompletedWhenPlayed
<1> DEFINE Played == (HasRounds /\ OneThread /\ \E w \in Workers : Finish(w)) => Open = {}
<1>1. PlayInv /\ SerialInv => [Played]_vars
  <2> SUFFICES ASSUME RoundsInv, NEW w \in Workers, Finish(w)
               PROVE  Open = {}
    BY DEF SerialInv, Serial
  <2>1. LastStage(Trigger(w))
    BY DEF Finish, RoundsInv, Knows
  <2> QED
    BY <2>1 DEF LastStage, Open
<1> QED
  BY <1>1, RoundsAreKept, PTL DEF BracketCompletedWhenPlayed

\* Whatever number of teams registered, whatever is corrected: the bracket is
\* seeded so that the first two teams can meet in the final only.
THEOREM TopSeedsInTheFinal == Spec => []TopSeedsMeetLast
<1>1. PlayInv /\ SerialInv => TopSeedsMeetLast
  <2> SUFFICES ASSUME PlayInv, RoundsInv, setting.format = "knockout",
                      NEW k \in DOMAIN fixtures, {fixtures[k].home, fixtures[k].away} = {1, 2},
                      NEW r, r = fixtures[k].round
               PROVE  RoundRows(r) = {k}
    BY RoundIsRows DEF TopSeedsMeetLast, SerialInv, Serial, HasRounds
  <2>1. fixtures[k].group = 0
    BY GroupsHaveFormat
  <2>2. k \in RoundRows(r) /\ r \in Nat
    BY <2>1, RowsAreFresh DEF RoundRows, AnyFixture
  <2>3. PICK a \in Nat, m \in PowersOf2 : RoundRows(r) = a + 1 .. a + m /\ Bracket(fixtures, a, m)
    BY <2>2 DEF RoundsInv, BracketInv, RoundPlaced
  <2>4. m \in Nat
    BY PowersDouble
  <2> DEFINE i == k - a
  <2>5. i \in 1 .. m /\ k = a + i
    BY <2>2, <2>3, <2>4
  <2> HIDE DEF i
  <2>6. 1 \in Pair(fixtures[k]) /\ 2 \in Pair(fixtures[k])
    BY DEF Pair, NoTeam
  <2>7. i = 1 /\ m = 1
    BY <2>3, <2>5, <2>6 DEF Bracket
  <2> QED
    BY <2>3, <2>5, <2>7
<1> QED
  BY <1>1, RoundsAreKept, PTL

-----------------------------------------------------------------------------
(* Who plays in a round *)

RoundTeams(r) == UNION {Pair(fixtures[k]) : k \in RoundRows(r)}

PlanTeams(rows) == UNION {Pair(rows[k]) : k \in DOMAIN rows}

Holds(r) ==
    (RoundRows(r) # {} /\ RoundRows(r + 1) # {}) => RoundTeams(r + 1) = Range(Winners(r))

\* An entered fixture is open, and a planned round is made of the winners.
Carries(w) ==
    /\ pc[w] = "save" => ~ Trigger(w).done
    /\ (pc[w] = "create" /\ Trigger(w).group = 0) =>
          PlanTeams(plan[w]) = Range(Winners(Trigger(w).round))

HoldsInv == (\A r \in Nat \ {0} : Holds(r)) /\ \A w \in Workers : Carries(w)

\* With one thread only its own plan can have changed.
LEMMA OnlyOneCarries ==
    ASSUME PlayInv, OneThread, NEW w \in Workers, w \in setting.threads \/ pc[w] # "idle",
           NEW label, Goto(w, label), Carries(w)'
    PROVE  \A v \in Workers : Carries(v)'
<1>1. \A v \in Workers : v # w => pc'[v] = "idle"
  BY OthersAreIdle DEF Goto, PlayInv, RequestsInv
<1> QED
  BY <1>1 DEF Carries

\* The winners depend on the rows of the round only.
LEMMA WinnersStay ==
    ASSUME PlayInv, NEW r, RoundRows(r)' = RoundRows(r),
           \A k \in RoundRows(r) : fixtures'[k] = fixtures[k]
    PROVE  Winners(r)' = Winners(r)
<1>1. PlayedRows(r)' = PlayedRows(r)
  BY DEF PlayedRows
<1>2. DOMAIN RestrictValues(KnockoutRound(r), LAMBDA f : f.done)' = PlayedRows(r)'
  <2>1. DOMAIN KnockoutRound(r)' = RoundRows(r)'
        /\ \A k \in RoundRows(r)' : KnockoutRound(r)'[k] = fixtures'[k]
    BY DEF KnockoutRound, RestrictValues, Restrict, RoundRows
  <2> QED
    BY <2>1 DEF RestrictValues, Restrict, PlayedRows
<1> DEFINE K == PlayedRows(r)
           played == InOrder(K)
           c == Cardinality(K)
<1>3. Winners(r) = [k \in DOMAIN played |-> Winner(fixtures[played[k]])]
  BY RoundIsRows DEF Winners
<1>4. Winners(r)' = [k \in DOMAIN played |-> Winner(fixtures'[played[k]])]
  BY <1>1, <1>2 DEF Winners
<1>5. IsFiniteSet(K) /\ K \in SUBSET Nat
  BY WinnersAreTeams
<1>6. played \in [1 .. c -> K]
  BY <1>5, InOrderIncreases
<1>7. \A k \in DOMAIN played : played[k] \in RoundRows(r)
  BY <1>6 DEF PlayedRows
<1> HIDE DEF K, played, c
<1>8. \A k \in DOMAIN played : fixtures'[played[k]] = fixtures[played[k]]
  BY <1>7
<1> QED
  BY <1>3, <1>4, <1>8

\* A drawn tournament has no second round.
LEMMA HoldsInit ==
    ASSUME Init, HasRounds
    PROVE  HoldsInv
<1>1. setting \in Settings /\ fixtures = DrawnRows /\ pc = [w \in Workers |-> "idle"]
  BY DEF Init, DrawnRows
<1>2. setting.format \in TournamentFormat /\ DrawnFor(fixtures, setting)
  BY <1>1, SettingsAssumption, SettingIsDrawn DEF DrawnRows
<1>3. \A k \in DOMAIN fixtures : fixtures[k].group = 0 => fixtures[k].round = 1
  BY <1>2, RoundsInit DEF HasRounds, TournamentFormat, DrawnFor
<1>4. \A r \in Nat \ {0} : RoundRows(r + 1) = {}
  BY <1>3 DEF RoundRows
<1> QED
  BY <1>1, <1>4 DEF HoldsInv, Holds, Carries

\* Rounds that stay the same still hold the winners.
LEMMA HoldsKept ==
    ASSUME PlayInv, HoldsInv, fixtures' = fixtures
    PROVE  /\ \A r \in Nat \ {0} : Holds(r)'
           /\ \A r : RoundTeams(r)' = RoundTeams(r) /\ Winners(r)' = Winners(r)
<1>1. \A r : RoundRows(r)' = RoundRows(r)
  BY DEF RoundRows
<1>2. \A r : RoundTeams(r)' = RoundTeams(r)
  BY <1>1 DEF RoundTeams
<1>3. \A r : Winners(r)' = Winners(r)
  BY <1>1, WinnersStay
<1>4. \A r \in Nat \ {0} : Holds(r)'
  BY <1>1, <1>2, <1>3 DEF HoldsInv, Holds
<1> QED
  BY <1>2, <1>3, <1>4

\* Without corrections no score changes the winners of a round that is over.
LEMMA HoldsSaveScore ==
    ASSUME PlayInv, RoundsInv, HoldsInv, OneThread, NEW w \in Workers, SaveScore(w)
    PROVE  HoldsInv'
<1> DEFINE i == want[w][1]
<1>1. /\ SavedAt(i) /\ pc[w] = "save" /\ pc' = [pc EXCEPT ![w] = "pending"]
  BY ScoreIsSaved
<1>2. ~ fixtures[i].done
  BY <1>1 DEF HoldsInv, Carries, Trigger
<1>3. /\ DOMAIN fixtures' = DOMAIN fixtures
      /\ \A k \in DOMAIN fixtures :
            /\ SameMatch(fixtures'[k], fixtures[k])
            /\ k # i => fixtures'[k] = fixtures[k]
  BY <1>1 DEF SavedAt
<1>4. \A r : RoundRows(r)' = RoundRows(r)
  BY <1>3 DEF RoundRows, SameMatch
<1>5. \A r : RoundTeams(r)' = RoundTeams(r)
  <2>1. \A k \in DOMAIN fixtures : Pair(fixtures'[k]) = Pair(fixtures[k])
    BY <1>3 DEF Pair, SameMatch
  <2>2. \A r : \A k \in RoundRows(r) : Pair(fixtures'[k]) = Pair(fixtures[k])
    BY <2>1 DEF RoundRows
  <2> QED
    BY <1>4, <2>2 DEF RoundTeams
<1>6. ASSUME NEW r \in Nat \ {0}, RoundRows(r) # {}, RoundRows(r + 1) # {}
      PROVE  RoundTeams(r + 1)' = Range(Winners(r))'
  <2>1. PICK j \in DOMAIN fixtures : fixtures[j].group = 0 /\ fixtures[j].round = r + 1
    BY <1>6 DEF RoundRows
  <2>2. ASSUME NEW k \in RoundRows(r) PROVE k # i
    <3>1. k \in DOMAIN fixtures /\ fixtures[k].round = r
      BY DEF RoundRows
    <3>2. Before(fixtures[k], fixtures[j].round)
      BY <2>1, <3>1 DEF Before
    <3>3. fixtures[k].done
      BY <2>1, <3>1, <3>2 DEF RoundsInv, BracketInv
    <3> QED
      BY <1>2, <3>3
  <2>3. \A k \in RoundRows(r) : fixtures'[k] = fixtures[k]
    BY <1>3, <2>2 DEF RoundRows
  <2>4. Winners(r)' = Winners(r)
    BY <1>4, <2>3, WinnersStay
  <2>5. RoundTeams(r + 1) = Range(Winners(r))
    BY <1>6 DEF HoldsInv, Holds
  <2>6. Range(Winners(r))' = Range(Winners(r))
    BY <2>4 DEF Range
  <2> QED
    BY <1>5, <2>5, <2>6
<1>7. \A r \in Nat \ {0} : Holds(r)'
  BY <1>4, <1>6 DEF Holds
<1>8. Carries(w)' /\ Goto(w, "pending")
  BY <1>1 DEF Carries, Goto, PlayInv, RequestsInv
<1> QED
  BY <1>1, <1>7, <1>8, OnlyOneCarries DEF HoldsInv

\* A plan consists of all winners, because their number is even.
LEMMA HoldsReadWinners ==
    ASSUME PlayInv, RoundsInv, HoldsInv, OneThread, NEW w \in Workers, ReadWinners(w)
    PROVE  HoldsInv'
<1>0. PICK r : r = Trigger(w).round
  OBVIOUS
<1>1. /\ pc[w] = "winners" /\ UNCHANGED << setting, fixtures, want >>
      /\ r \in Nat \ {0}
      /\ \E label \in {"finish", "create"} : Goto(w, label) /\ pc'[w] = label
  <2> DEFINE c == Cardinality(PlayedRows(r))
             to == IF c \div 2 = 0 THEN "finish" ELSE "create"
  <2>1. /\ pc[w] = "winners" /\ UNCHANGED << setting, fixtures, want >>
        /\ r \in Nat \ {0} /\ Goto(w, to)
    BY <1>0, ReadWinnersSteps
  <2>2. to \in {"finish", "create"}
    OBVIOUS
  <2> HIDE DEF to
  <2>3. pc'[w] = to
    BY <2>1 DEF Goto, PlayInv, RequestsInv
  <2> QED
    BY <2>1, <2>2, <2>3
<1>2. /\ \A x \in Nat \ {0} : Holds(x)'
      /\ Winners(r)' = Winners(r)
  BY <1>1, HoldsKept
<1>3. ASSUME pc'[w] = "create"
      PROVE  PlanTeams(plan[w])' = Range(Winners(r))
  <2>1. PICK a \in Nat, q \in Nat \ {0} :
          /\ RoundRows(r) = a + 1 .. a + 2 * q
          /\ Cardinality(PlayedRows(r)) = 2 * q
          /\ PairedFrom(plan'[w], Winners(r), q)
    BY <1>0, <1>3, RoundsReadWinners
  <2> DEFINE W == Winners(r)
             rows == plan'[w]
             l(k) == (2 * q + 1) - k
             S == 1 .. setting.n
  <2>2. W \in [1 .. 2 * q -> S]
    <3>1. 2 * q = Cardinality(PlayedRows(r))
      BY <2>1
    <3> QED
      BY <3>1, WinnersAreTeams
  <2>3. NoTeam \notin S
    BY DEF NoTeam
  <2>4. DOMAIN rows = 1 .. q
        /\ \A k \in 1 .. q : rows[k].home = W[k] /\ rows[k].away = W[l(k)]
    <3>1. Len(rows) = q /\ \A k \in 1 .. q : rows[k].home = W[k] /\ rows[k].away = W[l(k)]
      BY <2>1 DEF PairedFrom
    <3>2. rows \in Seq(AnyFixture(setting.n))
      BY <1>1, PlayInvStep DEF Next, WorkerStep, PlayInv, RequestsInv
    <3> QED
      BY <3>1, <3>2
  <2>5. \A k \in 1 .. q : l(k) \in 1 .. 2 * q /\ k \in 1 .. 2 * q
    BY <2>1
  <2>6. \A k \in 1 .. 2 * q : k \in 1 .. q \/ (l(k) \in 1 .. q /\ l(l(k)) = k)
    BY <2>1
  <2> HIDE DEF W, rows, l, S
  <2>7. \A k \in 1 .. q : Pair(rows[k]) = {W[k], W[l(k)]}
    BY <2>2, <2>3, <2>4, <2>5 DEF Pair
  <2>8. ASSUME NEW t
        PROVE  t \in PlanTeams(rows) <=> t \in Range(W)
    <3>1. ASSUME t \in PlanTeams(rows) PROVE t \in Range(W)
      <4>1. PICK k \in 1 .. q : t \in {W[k], W[l(k)]}
        BY <2>4, <2>7, <3>1 DEF PlanTeams
      <4> QED
        BY <2>2, <2>5, <4>1 DEF Range
    <3>2. ASSUME t \in Range(W) PROVE t \in PlanTeams(rows)
      <4>1. PICK k \in 1 .. 2 * q : t = W[k]
        BY <2>2, <3>2 DEF Range
      <4>2. CASE k \in 1 .. q
        BY <2>4, <2>7, <4>1, <4>2 DEF PlanTeams
      <4>3. CASE l(k) \in 1 .. q /\ l(l(k)) = k
        BY <2>4, <2>7, <4>1, <4>3 DEF PlanTeams
      <4> QED
        BY <2>6, <4>2, <4>3
    <3> QED
      BY <3>1, <3>2
  <2> QED
    BY <2>8 DEF rows, W, PlanTeams
<1>4. Range(Winners(r))' = Range(Winners(r)) /\ Trigger(w)'.round = r
  BY <1>0, <1>1, <1>2 DEF Range, Trigger
<1>5. Carries(w)'
  <2>1. pc'[w] = "create" => PlanTeams(plan[w])' = Range(Winners(Trigger(w).round))'
    BY <1>3, <1>4
  <2> QED
    BY <1>1, <2>1 DEF Carries
<1> QED
  BY <1>1, <1>2, <1>5, OnlyOneCarries DEF HoldsInv

\* The rows that CreateRound adds make up their round.
LEMMA CreatedTeams ==
    ASSUME PlayInv, RoundsInv, OneThread, NEW w \in Workers, CreateRound(w),
           NEW r, r = NextRound(Trigger(w))
    PROVE  RoundTeams(r)' = PlanTeams(plan[w])
<1>1. PICK L, q : L = Len(fixtures) /\ q = Len(plan[w])
  OBVIOUS
<1>2. /\ RoundRows(r)' = L + 1 .. L + q /\ q \in PowersOf2 /\ L \in Nat
      /\ \A i \in 1 .. q : i \in DOMAIN plan[w] /\ fixtures'[L + i] = plan[w][i]
  <2>1. r = NextRound(Trigger(w)) /\ L = Len(fixtures) /\ q = Len(plan[w])
    BY <1>1
  <2>2. IsAdded(w, r, L, q)
    BY <2>1, RoundsCreateRound
  <2> QED
    BY <2>2 DEF IsAdded
<1>3. DOMAIN plan[w] = 1 .. q
  BY <1>1, RoundIsCreated DEF AppendedTo
<1>4. q \in Nat
  BY <1>2, PowersDouble
<1>5. \A i \in 1 .. q : L + i \in L + 1 .. L + q
  BY <1>2, <1>4
<1>6. \A k \in L + 1 .. L + q : \E i \in 1 .. q : k = L + i
  <2> SUFFICES ASSUME NEW k \in L + 1 .. L + q PROVE \E i \in 1 .. q : k = L + i
    OBVIOUS
  <2>1. k - L \in 1 .. q /\ k = L + (k - L)
    BY <1>2, <1>4
  <2> QED
    BY <2>1
<1>7. ASSUME NEW t
      PROVE  t \in RoundTeams(r)' <=> t \in PlanTeams(plan[w])
  <2>1. t \in RoundTeams(r)' <=> \E k \in L + 1 .. L + q : t \in Pair(fixtures'[k])
    BY <1>2 DEF RoundTeams
  <2>2. t \in PlanTeams(plan[w]) <=> \E i \in 1 .. q : t \in Pair(plan[w][i])
    BY <1>3 DEF PlanTeams
  <2>3. \A i \in 1 .. q : Pair(fixtures'[L + i]) = Pair(plan[w][i])
    BY <1>2
  <2> QED
    BY <1>5, <1>6, <2>1, <2>2, <2>3
<1> QED
  BY <1>7 DEF RoundTeams, PlanTeams

\* The planned round holds the winners it was planned from.
LEMMA HoldsCreateRound ==
    ASSUME PlayInv, RoundsInv, HoldsInv, OneThread, NEW w \in Workers, CreateRound(w)
    PROVE  HoldsInv'
<1>0. PICK r, L, q : r = NextRound(Trigger(w)) /\ L = Len(fixtures) /\ q = Len(plan[w])
  OBVIOUS
<1>1. /\ RoundRows(r)' = L + 1 .. L + q /\ q \in PowersOf2 /\ L \in Nat /\ r \in Nat \ {0}
      /\ RoundRows(r) = {} /\ \A x : x # r => RoundRows(x)' = RoundRows(x)
      /\ \A k \in DOMAIN fixtures : fixtures[k].done /\ Before(fixtures[k], r)
      /\ \A i \in 1 .. q : i \in DOMAIN plan[w] /\ fixtures'[L + i] = plan[w][i]
  <2>1. r = NextRound(Trigger(w)) /\ L = Len(fixtures) /\ q = Len(plan[w])
    BY <1>0
  <2>2. IsAdded(w, r, L, q)
    BY <2>1, RoundsCreateRound
  <2> QED
    BY <2>2 DEF IsAdded
<1>2. /\ pc[w] = "create" /\ Goto(w, "idle") /\ pc'[w] = "idle" /\ Request(w)
      /\ DOMAIN plan[w] = 1 .. q
      /\ \A k \in DOMAIN fixtures : fixtures'[k] = fixtures[k]
  BY <1>0, RoundIsCreated DEF AppendedTo
<1>3. q \in Nat
  BY <1>1, PowersDouble
<1>4. \A x : x # r => (RoundTeams(x)' = RoundTeams(x) /\ Winners(x)' = Winners(x))
  <2> SUFFICES ASSUME NEW x, x # r
               PROVE  RoundTeams(x)' = RoundTeams(x) /\ Winners(x)' = Winners(x)
    OBVIOUS
  <2>1. RoundRows(x)' = RoundRows(x) /\ \A k \in RoundRows(x) : fixtures'[k] = fixtures[k]
    BY <1>1, <1>2 DEF RoundRows
  <2>2. Winners(x)' = Winners(x)
    BY <2>1, WinnersStay
  <2>3. RoundTeams(x)' = RoundTeams(x)
    BY <2>1 DEF RoundTeams
  <2> QED
    BY <2>2, <2>3
<1>5. RoundTeams(r)' = PlanTeams(plan[w])
  BY <1>0, CreatedTeams
<1>6. ASSUME NEW x \in Nat \ {0}
      PROVE  Holds(x)'
  <2>1. CASE x + 1 = r
    <3>1. Trigger(w) \in AnyFixture(setting.n)
      BY <1>2, RowsAreFresh DEF Request, Trigger
    <3>2. Trigger(w).group = 0 /\ x = Trigger(w).round
      BY <1>0, <2>1, <3>1 DEF NextRound, AnyFixture
    <3>3. PlanTeams(plan[w]) = Range(Winners(x))
      BY <1>2, <3>2 DEF HoldsInv, Carries
    <3>4. x # r /\ RoundTeams(x + 1)' = RoundTeams(r)'
      BY <2>1
    <3>5. Range(Winners(x))' = Range(Winners(x))
      BY <1>4, <3>4 DEF Range
    <3> QED
      BY <1>5, <3>3, <3>4, <3>5 DEF Holds
  <2>2. CASE x = r
    <3>1. \A k \in DOMAIN fixtures : ~ (fixtures[k].group = 0 /\ fixtures[k].round = x + 1)
      BY <1>1, <2>2 DEF Before
    <3>2. RoundRows(x + 1)' = {}
      BY <1>1, <2>2, <3>1 DEF RoundRows
    <3> QED
      BY <3>2 DEF Holds
  <2>3. CASE x # r /\ x + 1 # r
    <3>1. Holds(x)
      BY DEF HoldsInv
    <3>2. Range(Winners(x))' = Range(Winners(x)) /\ RoundTeams(x + 1)' = RoundTeams(x + 1)
          /\ RoundRows(x)' = RoundRows(x) /\ RoundRows(x + 1)' = RoundRows(x + 1)
      BY <1>1, <1>4, <2>3 DEF Range
    <3> QED
      BY <3>1, <3>2 DEF Holds
  <2> QED
    BY <2>1, <2>2, <2>3
<1>7. Carries(w)'
  BY <1>2 DEF Carries
<1> QED
  BY <1>2, <1>6, <1>7, OnlyOneCarries DEF HoldsInv

\* Every step but a correction keeps the winners in the rounds.
LEMMA HoldsStep ==
    ASSUME PlayInv, RoundsInv, HoldsInv, OneThread, ~ setting.corrections, [Next]_vars
    PROVE  HoldsInv'
<1>1. ASSUME NEW w \in Workers, w \in setting.threads \/ pc[w] # "idle", NEW label,
             Goto(w, label), label # "save", label = "create" => Trigger(w)'.group # 0,
             fixtures' = fixtures
      PROVE  HoldsInv'
  <2>1. pc'[w] = label
    BY <1>1 DEF Goto, PlayInv, RequestsInv
  <2>2. Carries(w)'
    BY <1>1, <2>1 DEF Carries
  <2> QED
    BY <1>1, <2>2, HoldsKept, OnlyOneCarries DEF HoldsInv
<1>2. ASSUME UNCHANGED << setting, fixtures, pc, want, plan >>
      PROVE  HoldsInv'
  <2>1. \A r \in Nat \ {0} : Holds(r)'
    BY <1>2, HoldsKept
  <2>2. ASSUME NEW w \in Workers PROVE Carries(w)'
    <3>1. PICK r : r = Trigger(w).round
      OBVIOUS
    <3>2. Trigger(w)' = Trigger(w) /\ Range(Winners(r))' = Range(Winners(r))
      BY <1>2, HoldsKept DEF Trigger, Range
    <3>3. Carries(w)
      BY DEF HoldsInv
    <3> QED
      BY <1>2, <3>1, <3>2, <3>3 DEF Carries, PlanTeams
  <2> QED
    BY <2>1, <2>2 DEF HoldsInv
<1>3. ASSUME NEW w \in Workers, CheckInProgress(w)
      PROVE  HoldsInv'
  <2>1. w \in setting.threads /\ Goto(w, "save") /\ UNCHANGED << setting, fixtures, plan >>
    BY <1>3 DEF CheckInProgress
  <2>2. pc'[w] = "save"
    BY <2>1 DEF Goto, PlayInv, RequestsInv
  <2>3. PICK k \in Enterable, s \in setting.scores : want' = [want EXCEPT ![w] = << k, s >>]
    BY <1>3 DEF CheckInProgress
  <2>4. k \in Open /\ want'[w][1] = k
    BY <2>3 DEF Enterable, PlayInv, RequestsInv
  <2>5. ~ Trigger(w)'.done
    BY <2>1, <2>4 DEF Trigger, Open
  <2>6. Carries(w)'
    BY <2>2, <2>5 DEF Carries
  <2> QED
    BY <2>1, <2>6, HoldsKept, OnlyOneCarries DEF HoldsInv
<1>4. ASSUME NEW w \in Workers, CheckRoundDone(w) \/ CheckNextRound(w) \/ Finish(w) \/ Crash(w)
      PROVE  HoldsInv'
  <2>1. /\ pc[w] # "idle" /\ fixtures' = fixtures
        /\ \E label \in {"exists", "winners", "idle"} : Goto(w, label)
    BY <1>4 DEF CheckRoundDone, CheckNextRound, Finish, Crash
  <2> QED
    BY <1>1, <2>1
<1>5. ASSUME NEW w \in Workers, SeedKnockout(w)
      PROVE  HoldsInv'
  <2>1. /\ pc[w] = "winners" /\ Trigger(w).group # 0 /\ fixtures' = fixtures /\ want' = want
        /\ \E label \in {"create", "idle"} : Goto(w, label)
    BY <1>5, SeedKnockoutSteps
  <2>2. Trigger(w)' = Trigger(w)
    BY <2>1 DEF Trigger
  <2> QED
    BY <1>1, <2>1, <2>2
<1>6. CASE UNCHANGED vars
  BY <1>2, <1>6 DEF vars
<1>7. CASE Complete
  BY <1>2, <1>7 DEF Complete
<1> QED
  BY <1>3, <1>4, <1>5, <1>6, <1>7, HoldsSaveScore, HoldsReadWinners, HoldsCreateRound
     DEF Next, WorkerStep

Uncorrected == Serial /\ ~ setting.corrections

WinnersInv == Uncorrected => HoldsInv

\* The invariant of the winners.
LEMMA WinnersAreKept == Spec => [](PlayInv /\ SerialInv /\ WinnersInv)
<1>1. Init => WinnersInv
  BY HoldsInit DEF WinnersInv, Uncorrected, Serial
<1>2. PlayInv /\ SerialInv /\ WinnersInv /\ [Next]_vars => WinnersInv'
  <2> SUFFICES ASSUME PlayInv, SerialInv, WinnersInv, [Next]_vars, Uncorrected'
               PROVE  HoldsInv'
    BY DEF WinnersInv
  <2>1. Uncorrected
    BY SettingStays DEF Uncorrected, Serial, HasRounds, OneThread
  <2> QED
    BY <2>1, HoldsStep DEF WinnersInv, SerialInv, Uncorrected, Serial
<1> QED
  BY <1>1, <1>2, RoundsAreKept, PTL DEF Spec

\* A round is made of the winners of the round before, byes included, and of
\* nobody else, while no score is corrected: the winners that
\* maybe_generate_next_round reads, every one of which finds a pair because
\* the size of a bracket's round is a power of two.
THEOREM WinnersGoOn == Spec => []RoundHoldsWinners
<1>1. PlayInv /\ WinnersInv => RoundHoldsWinners
  <2> SUFFICES ASSUME PlayInv, HoldsInv, NEW r \in Rounds,
                      DOMAIN KnockoutRound(r) # {}, DOMAIN KnockoutRound(r + 1) # {}
               PROVE  TeamsOf(KnockoutRound(r + 1)) = Range(Winners(r))
    BY DEF RoundHoldsWinners, WinnersInv, Uncorrected, Serial
  <2>1. PICK k \in DOMAIN fixtures : r = fixtures[k].round
    BY DEF Rounds, Range
  <2>2. r \in Nat \ {0}
    BY <2>1, RowsAreFresh DEF AnyFixture
  <2>3. RoundTeams(r + 1) = Range(Winners(r))
    BY <2>2, RoundIsRows DEF HoldsInv, Holds
  <2>4. TeamsOf(KnockoutRound(r + 1)) = RoundTeams(r + 1)
    <3>1. /\ DOMAIN KnockoutRound(r + 1) = RoundRows(r + 1)
          /\ \A l \in RoundRows(r + 1) : KnockoutRound(r + 1)[l] = fixtures[l]
      BY RoundIsRows
    <3>2. {Pair(f) : f \in Range(KnockoutRound(r + 1))} = {Pair(fixtures[l]) : l \in RoundRows(r + 1)}
      BY <3>1 DEF Range
    <3> QED
      BY <3>2 DEF TeamsOf, RoundTeams
  <2> QED
    BY <2>3, <2>4
<1> QED
  BY <1>1, WinnersAreKept, PTL

-----------------------------------------------------------------------------
(* The order of a league *)

\* A league gets no other fixtures: each of its rounds has one winner.
LeagueInv ==
    setting.format = "round_robin" =>
        DOMAIN fixtures = DOMAIN DrawnRows /\ \A w \in Workers : pc[w] # "create"

\* In a league each fixture is a round of its own, and no pair meets twice.
LEMMA LeagueRows ==
    ASSUME PlayInv, setting.format = "round_robin", NEW k \in DOMAIN DrawnRows
    PROVE  /\ fixtures[k].round = k /\ fixtures[k].group = 0 /\ ~ fixtures[k].bye
           /\ fixtures[k].home # fixtures[k].away
           /\ \A l \in DOMAIN DrawnRows :
                 {fixtures[k].home, fixtures[k].away} = {fixtures[l].home, fixtures[l].away} => k = l
<1>1. setting \in Settings
  BY DEF PlayInv, RequestsInv
<1>2. setting.n \in Nat /\ setting.n >= 2
  <2>1. setting.n \in Nat \ {0, 1}
    BY <1>1, SettingsAssumption
  <2> QED
    BY <2>1
<1>3. DrawnFor(DrawnRows, setting)
  BY <1>1, SettingIsDrawn DEF DrawnRows
<1>4. League(DrawnRows, FieldLength(setting.n), 1 .. setting.n, setting.n, 0)
  BY <1>2, FieldIsLeague DEF DrawnRows
<1>5. \A l \in DOMAIN DrawnRows : SameMatch(fixtures[l], DrawnRows[l])
  BY DEF PlayInv, RowsInv
<1>6. \A l \in DOMAIN DrawnRows :
         {DrawnRows[k].home, DrawnRows[k].away} = {DrawnRows[l].home, DrawnRows[l].away} => k = l
  BY <1>4 DEF League
<1> QED
  BY <1>3, <1>5, <1>6 DEF DrawnFor, Fresh, SameMatch

\* One fixture has one winner, so no round is added to a league.
LEMMA LeagueStep ==
    ASSUME PlayInv, LeagueInv, [Next]_vars, setting.format = "round_robin"
    PROVE  DOMAIN fixtures' = DOMAIN fixtures /\ \A w \in Workers : pc'[w] # "create"
<1>1. DOMAIN fixtures = DOMAIN DrawnRows /\ \A w \in Workers : pc[w] # "create"
  BY DEF LeagueInv
<1>2. ASSUME NEW w \in Workers, NEW label, label # "create", Goto(w, label), fixtures' = fixtures
      PROVE  DOMAIN fixtures' = DOMAIN fixtures /\ \A v \in Workers : pc'[v] # "create"
  BY <1>1, <1>2 DEF Goto, PlayInv, RequestsInv
<1>3. ASSUME NEW w \in Workers, CheckInProgress(w) \/ CheckRoundDone(w) \/ CheckNextRound(w)
                                  \/ Finish(w) \/ Crash(w)
      PROVE  DOMAIN fixtures' = DOMAIN fixtures /\ \A v \in Workers : pc'[v] # "create"
  <2>1. /\ \E label \in {"save", "exists", "winners", "idle"} : Goto(w, label)
        /\ fixtures' = fixtures
    BY <1>3 DEF CheckInProgress, CheckRoundDone, CheckNextRound, Finish, Crash
  <2> QED
    BY <1>2, <2>1
<1>4. ASSUME NEW w \in Workers, SaveScore(w)
      PROVE  DOMAIN fixtures' = DOMAIN fixtures /\ \A v \in Workers : pc'[v] # "create"
  <2>1. DOMAIN fixtures' = DOMAIN fixtures /\ pc' = [pc EXCEPT ![w] = "pending"]
    BY <1>4, ScoreIsSaved DEF SavedAt
  <2> QED
    BY <1>1, <2>1 DEF PlayInv, RequestsInv
<1>5. ASSUME NEW w \in Workers, SeedKnockout(w)
      PROVE  FALSE
  <2>1. pc[w] = "winners" /\ Trigger(w).group # 0
    BY <1>5, SeedKnockoutSteps
  <2>2. want[w][1] \in DOMAIN fixtures /\ Trigger(w) = fixtures[want[w][1]]
    BY <2>1 DEF PlayInv, RequestsInv, Request, Trigger
  <2> QED
    BY <2>1, <2>2, GroupsHaveFormat
<1>6. ASSUME NEW w \in Workers, ReadWinners(w)
      PROVE  DOMAIN fixtures' = DOMAIN fixtures /\ \A v \in Workers : pc'[v] # "create"
  <2>1. PICK r, c : r = Trigger(w).round /\ c = Cardinality(PlayedRows(r))
    OBVIOUS
  <2>2. c \in Nat /\ fixtures' = fixtures /\ Goto(w, IF c \div 2 = 0 THEN "finish" ELSE "create")
    BY <1>6, <2>1, ReadWinnersSteps
  <2>3. PlayedRows(r) \subseteq {r}
    BY <1>1, LeagueRows DEF PlayedRows, RoundRows
  <2>4. IsFiniteSet({r}) /\ Cardinality({r}) = 1
    BY FS_Singleton
  <2>5. c <= 1
    BY <2>1, <2>3, <2>4, FS_Subset
  <2>6. c \div 2 = 0
    BY <2>2, <2>5
  <2> QED
    BY <1>2, <2>2, <2>6
<1>7. ASSUME UNCHANGED << fixtures, pc >>
      PROVE  DOMAIN fixtures' = DOMAIN fixtures /\ \A v \in Workers : pc'[v] # "create"
  BY <1>1, <1>7
<1>8. CASE UNCHANGED vars
  BY <1>7, <1>8 DEF vars
<1>9. CASE Complete
  BY <1>7, <1>9 DEF Complete
<1>10. \A w \in Workers : ~ CreateRound(w)
  BY <1>1 DEF CreateRound
<1> QED
  BY <1>3, <1>4, <1>5, <1>6, <1>8, <1>9, <1>10 DEF Next, WorkerStep

\* The invariant of a league.
LEMMA LeagueIsKept == Spec => [](PlayInv /\ LeagueInv)
<1>1. Init => LeagueInv
  BY DEF Init, LeagueInv, DrawnRows
<1>2. PlayInv /\ LeagueInv /\ [Next]_vars => LeagueInv'
  <2> SUFFICES ASSUME PlayInv, LeagueInv, [Next]_vars PROVE LeagueInv'
    OBVIOUS
  <2>1. setting' = setting
    BY SettingStays
  <2> QED
    BY <2>1, LeagueStep DEF LeagueInv, DrawnRows
<1> QED
  BY <1>1, <1>2, PlayIsWellFormed, PTL DEF Spec

\* The only match of two teams: a win is three points, and no points are left.
LEMMA SingleMatch ==
    ASSUME NEW table, NEW k, DOMAIN table = {k}, NEW f, f = table[k], f.score \in Nat \X Nat,
           NEW t, NEW u, {f.home, f.away} = {t, u}, t # u, f.home # f.away,
           For(t, f) < For(u, f)
    PROVE  Points(t, table) = 0 /\ Points(u, table) = 3
<1>1. Against(t, f) = For(u, f) /\ Against(u, f) = For(t, f)
      /\ For(t, f) \in Nat /\ For(u, f) \in Nat
  BY DEF For, Against
<1>2. Wins(t, table) = {} /\ Draws(t, table) = {} /\ Wins(u, table) = {k} /\ Draws(u, table) = {}
  BY <1>1 DEF Wins, Draws
<1>3. Cardinality({}) = 0 /\ Cardinality({k}) = 1
  BY FS_EmptySet, FS_Singleton
<1> QED
  BY <1>2, <1>3 DEF Points

\* The rows that count for the standings.
LEMMA CountedRows ==
    ASSUME PlayInv, NEW table, table = Counted(fixtures)
    PROVE  /\ DOMAIN table = {k \in DOMAIN fixtures : fixtures[k].done /\ ~ fixtures[k].bye}
           /\ \A k \in DOMAIN table : table[k] = fixtures[k]
           /\ Counted(table) = table
           /\ TableOf(table, 1 .. setting.n)
<1>1. /\ DOMAIN table = {k \in DOMAIN fixtures : fixtures[k].done /\ ~ fixtures[k].bye}
      /\ \A k \in DOMAIN table : table[k] = fixtures[k]
      /\ table = [k \in DOMAIN table |-> table[k]]
  BY DEF Counted, RestrictValues, Restrict
<1>2. Counted(table) = table
  <2>1. {k \in DOMAIN table : table[k].done /\ ~ table[k].bye} = DOMAIN table
    BY <1>1
  <2>2. Counted(table) =
          [k \in {j \in DOMAIN table : table[j].done /\ ~ table[j].bye} |-> table[k]]
    BY DEF Counted, RestrictValues, Restrict
  <2>3. Counted(table) = [k \in DOMAIN table |-> table[k]]
    BY <2>1, <2>2
  <2> QED
    BY <1>1, <2>3, Zenon
<1>3. TableOf(table, 1 .. setting.n)
  <2>1. DOMAIN fixtures = 1 .. Len(fixtures) /\ Len(fixtures) \in Nat /\ setting.n \in Nat
    BY SettingsAssumption DEF PlayInv, RowsInv, RequestsInv
  <2>2. IsFiniteSet(DOMAIN table) /\ DOMAIN table \in SUBSET Nat
    <3>1. IsFiniteSet(DOMAIN fixtures) /\ DOMAIN table \in SUBSET DOMAIN fixtures
      BY <1>1, <2>1, FS_Interval
    <3> QED
      BY <2>1, <3>1, FS_Subset
  <2>3. ASSUME NEW k \in DOMAIN table
        PROVE  /\ table[k].home \in 1 .. setting.n /\ table[k].away \in 1 .. setting.n
               /\ table[k].score \in Nat \X Nat
    <3>1. table[k] = fixtures[k] /\ k \in DOMAIN fixtures /\ ~ fixtures[k].bye
      BY <1>1
    <3>2. fixtures[k] \in AnyFixture(setting.n) /\ fixtures[k].away # NoTeam
      BY <3>1, RowsAreFresh
    <3> QED
      BY <2>1, <3>1, <3>2 DEF AnyFixture, NoTeam
  <2> QED
    BY <2>2, <2>3 DEF TableOf
<1> QED
  BY <1>1, <1>2, <1>3

\* What the key of a team says, first to last.
KeyIs(key, team, table, mini) ==
    /\ key \in [1 .. 8 -> Int]
    /\ key[1] = - Points(team, table) /\ key[2] = - Difference(team, table)
    /\ key[3] = - GoalsFor(team, table) /\ key[4] = - Points(team, mini)
    /\ Points(team, table) \in Int /\ Difference(team, table) \in Int
    /\ GoalsFor(team, table) \in Int

\* The sort key of a team, number by number.
LEMMA KeyOfTeam ==
    ASSUME NEW T, NEW table, TableOf(table, T), NEW name, \A t \in T : name[t] \in Int,
           NEW team \in Ranked(table)
    PROVE  KeyIs(KeyOf(team, table, name), team, table, MiniTable(team, table))
<1>1. team \in T
  BY DEF Ranked, Range, TableOf
<1>2. FirstSeen(team, table) \in Int
  BY SeenApart
<1> DEFINE mini == MiniTable(team, table)
           first == FirstSeen(team, table)
           key == KeyOf(team, table, name)
<1>3. /\ key \in [1 .. 8 -> Int]
      /\ key = << - Points(team, table), - Difference(team, table), - GoalsFor(team, table),
                  - Points(team, mini), - Difference(team, mini), - GoalsFor(team, mini),
                  name[team], first >>
  BY <1>1, <1>2, KeysAreNumbers
<1>4. Points(team, table) \in Nat /\ Difference(team, table) \in Int /\ GoalsFor(team, table) \in Nat
  BY PointsAreNumbers
<1> HIDE DEF key, mini, first
<1>5. key[1] = - Points(team, table) /\ key[2] = - Difference(team, table)
      /\ key[3] = - GoalsFor(team, table) /\ key[4] = - Points(team, mini)
  BY <1>3
<1> QED
  BY <1>3, <1>4, <1>5 DEF KeyIs, key, mini

\* A smaller key has more of what is compared first, or ties in all three.
LEMMA SmallerKey ==
    ASSUME NEW table, NEW t, NEW u, NEW a, NEW b, NEW m, NEW o,
           KeyIs(a, t, table, m), KeyIs(b, u, table, o), Precedes(a, b)
    PROVE  \/ Points(t, table) > Points(u, table)
           \/ /\ Points(t, table) = Points(u, table)
              /\ Difference(t, table) > Difference(u, table)
           \/ /\ Points(t, table) = Points(u, table)
              /\ Difference(t, table) = Difference(u, table)
              /\ GoalsFor(t, table) > GoalsFor(u, table)
           \/ /\ Points(t, table) = Points(u, table)
              /\ Difference(t, table) = Difference(u, table)
              /\ GoalsFor(t, table) = GoalsFor(u, table)
              /\ a[4] <= b[4]
<1>1. PICK i \in 1 .. 8 : a[i] < b[i] /\ \A j \in 1 .. i - 1 : a[j] = b[j]
  BY DEF Precedes, KeyIs
<1>2. a \in [1 .. 8 -> Int] /\ b \in [1 .. 8 -> Int]
  BY DEF KeyIs
<1>3. /\ i = 1 => a[1] < b[1]
      /\ i = 2 => a[1] = b[1] /\ a[2] < b[2]
      /\ i = 3 => a[1] = b[1] /\ a[2] = b[2] /\ a[3] < b[3]
      /\ i > 3 => a[1] = b[1] /\ a[2] = b[2] /\ a[3] = b[3] /\ a[4] <= b[4]
  BY <1>1, <1>2
<1>4. i = 1 \/ i = 2 \/ i = 3 \/ i > 3
  OBVIOUS
<1> QED
  BY <1>3, <1>4 DEF KeyIs

\* Two teams tied with nobody else have one mini-table: their own match.
SameKey(t, u, table) ==
    /\ Points(t, table) = Points(u, table) /\ Difference(t, table) = Difference(u, table)
    /\ GoalsFor(t, table) = GoalsFor(u, table)

\* The mini-table of a team has the matches among those it is tied with.
LEMMA TiedTeams ==
    ASSUME NEW T, NEW table, TableOf(table, T), NEW t \in Ranked(table), NEW tied,
           tied = {v \in Ranked(table) : SameKey(v, t, table)}
    PROVE  MiniTable(t, table) = Mutual(tied, table)
<1>1. ASSUME NEW v \in Ranked(table)
      PROVE  SameKey(v, t, table) <=> Primary(v, table) = Primary(t, table)
  <2>1. ASSUME NEW x
        PROVE  Points(x, table) \in Int /\ Difference(x, table) \in Int /\ GoalsFor(x, table) \in Int
    BY PointsAreNumbers
  <2>2. \A a, b, c, d, e, f \in Int :
           (<< - a, - b, - c >> = << - d, - e, - f >>) <=> (a = d /\ b = e /\ c = f)
    <3>1. ASSUME NEW a \in Int, NEW b \in Int, NEW c \in Int, NEW d \in Int, NEW e \in Int,
                 NEW f \in Int, << - a, - b, - c >> = << - d, - e, - f >>
          PROVE  a = d /\ b = e /\ c = f
      <4>1. - a = - d /\ - b = - e /\ - c = - f
        BY <3>1
      <4> QED
        BY <4>1
    <3> QED
      BY <3>1
  <2> QED
    BY <2>1, <2>2 DEF SameKey, Primary
<1>2. Tied(RowOf(t, table), RowsOf(table)) = tied
  <2>1. RowOf(t, table).primary = Primary(t, table)
    BY DEF RowOf
  <2>2. ASSUME NEW x
        PROVE  x \in Tied(RowOf(t, table), RowsOf(table)) <=> x \in tied
    <3>1. x \in Tied(RowOf(t, table), RowsOf(table))
            <=> \E r \in RowsOf(table) : r.primary = Primary(t, table) /\ x = r.team
      BY <2>1 DEF Tied
    <3>2. \A v : RowOf(v, table).primary = Primary(v, table) /\ RowOf(v, table).team = v
      BY DEF RowOf
    <3>3. (\E r \in RowsOf(table) : r.primary = Primary(t, table) /\ x = r.team)
            <=> x \in Ranked(table) /\ Primary(x, table) = Primary(t, table)
      BY <3>2 DEF RowsOf
    <3> QED
      BY <1>1, <3>1, <3>3
  <2> QED
    BY <2>2
<1> QED
  BY <1>2 DEF MiniTable

\* Two rows of a league never have the same two teams.
Unique(table) ==
    /\ \A k \in DOMAIN table : table[k].home # table[k].away
    /\ \A k, l \in DOMAIN table :
          {table[k].home, table[k].away} = {table[l].home, table[l].away} => k = l

\* Two that met once: in their mini-table the winner has three points, the loser none.
LEMMA MutualMatch ==
    ASSUME NEW T, NEW table, TableOf(table, T), Unique(table), NEW t, NEW u, t # u,
           NEW f \in Range(Mutual({t, u}, table)), For(t, f) < For(u, f)
    PROVE  Points(t, Mutual({t, u}, table)) = 0 /\ Points(u, Mutual({t, u}, table)) = 3
<1> DEFINE mini == Mutual({t, u}, table)
<1>1. /\ DOMAIN mini = {k \in DOMAIN table : table[k].home \in {t, u} /\ table[k].away \in {t, u}}
      /\ \A k \in DOMAIN mini : mini[k] = table[k]
  BY DEF Mutual, RestrictValues, Restrict
<1>2. PICK k \in DOMAIN mini : f = mini[k]
  BY DEF Range
<1> HIDE DEF mini
<1>3. ASSUME NEW l \in DOMAIN mini
      PROVE  {table[l].home, table[l].away} = {t, u}
  BY <1>1, <1>3 DEF Unique
<1>4. DOMAIN mini = {k}
  BY <1>1, <1>2, <1>3 DEF Unique
<1>5. f = table[k] /\ f.score \in Nat \X Nat /\ {f.home, f.away} = {t, u} /\ f.home # f.away
  BY <1>1, <1>2, <1>3 DEF TableOf, Unique
<1>6. Points(t, mini) = 0 /\ Points(u, mini) = 3
  BY <1>2, <1>4, <1>5, SingleMatch
<1> QED
  BY <1>6 DEF mini

\* No two teams of a league meet twice.
LEMMA LeagueIsUnique ==
    ASSUME PlayInv, LeagueInv, setting.format = "round_robin", NEW table, table = Counted(fixtures)
    PROVE  Unique(table)
<1>1. ASSUME NEW k \in DOMAIN table
      PROVE  k \in DOMAIN DrawnRows /\ table[k] = fixtures[k]
  BY CountedRows DEF LeagueInv
<1> QED
  BY <1>1, LeagueRows DEF Unique

\* What the sorted order says of two teams of a league, one before the other.
Ahead(t, u, table) ==
    \/ Points(t, table) > Points(u, table)
    \/ /\ Points(t, table) = Points(u, table)
       /\ Difference(t, table) > Difference(u, table)
    \/ /\ Points(t, table) = Points(u, table)
       /\ Difference(t, table) = Difference(u, table)
       /\ GoalsFor(t, table) > GoalsFor(u, table)

BeatenBy(t, u, table) == \E f \in Range(Mutual({t, u}, table)) : For(t, f) < For(u, f)

\* Who comes first is ahead, or tied and not beaten.
LEMMA AheadOrTied ==
    ASSUME NEW T, IsFiniteSet(T), NEW table, TableOf(table, T), Unique(table),
           NEW name, \A v \in T : name[v] \in Int,
           NEW t \in Ranked(table), NEW u \in Ranked(table), t # u,
           Precedes(KeyOf(t, table, name), KeyOf(u, table, name))
    PROVE  \/ Ahead(t, u, table)
           \/ /\ SameKey(t, u, table)
              /\ Cardinality({v \in Ranked(table) : SameKey(v, t, table)}) = 2
                    => ~ BeatenBy(t, u, table)
<1>1. /\ KeyIs(KeyOf(t, table, name), t, table, MiniTable(t, table))
      /\ KeyIs(KeyOf(u, table, name), u, table, MiniTable(u, table))
  BY KeyOfTeam
<1>2. PICK a, b, m, o : a = KeyOf(t, table, name) /\ b = KeyOf(u, table, name)
                        /\ m = MiniTable(t, table) /\ o = MiniTable(u, table)
  OBVIOUS
<1>3. KeyIs(a, t, table, m) /\ KeyIs(b, u, table, o) /\ Precedes(a, b)
  BY <1>1, <1>2
<1>4. Ahead(t, u, table) \/ (SameKey(t, u, table) /\ a[4] <= b[4])
  BY <1>3, SmallerKey DEF Ahead, SameKey
<1>5. ASSUME SameKey(t, u, table), a[4] <= b[4],
             Cardinality({v \in Ranked(table) : SameKey(v, t, table)}) = 2
      PROVE  ~ BeatenBy(t, u, table)
  <2>1. PICK tied : tied = {v \in Ranked(table) : SameKey(v, t, table)}
    OBVIOUS
  <2>2. tied = {v \in Ranked(table) : SameKey(v, u, table)}
    BY <1>5, <2>1 DEF SameKey
  <2>3. m = Mutual(tied, table) /\ o = Mutual(tied, table)
    BY <1>2, <2>1, <2>2, TiedTeams
  <2>4. tied = {t, u}
    <3>1. t \in tied /\ u \in tied /\ Cardinality(tied) = 2
      BY <1>5, <2>1 DEF SameKey
    <3>2. IsFiniteSet(tied)
      <4>1. Ranked(table) \in SUBSET T
        BY DEF Ranked, Range, TableOf
      <4>2. tied \in SUBSET T
        BY <2>1, <4>1
      <4> QED
        BY <4>2, FS_Subset
    <3>3. tied \in kSubset(2, tied)
      BY <3>1, <3>2 DEF kSubset
    <3>4. PICK x, y \in tied : x # y /\ tied = {x, y}
      BY <3>2, <3>3, PairsAreTwo
    <3> QED
      BY <3>1, <3>4
  <2>5. ASSUME BeatenBy(t, u, table)
        PROVE  FALSE
    <3>1. PICK f \in Range(Mutual({t, u}, table)) : For(t, f) < For(u, f)
      BY <2>5 DEF BeatenBy
    <3>2. Points(t, m) = 0 /\ Points(u, o) = 3
      BY <2>3, <2>4, <3>1, MutualMatch
    <3>3. a[4] = - Points(t, m) /\ b[4] = - Points(u, o)
      BY <1>3 DEF KeyIs
    <3> QED
      BY <1>5, <3>2, <3>3
  <2> QED
    BY <2>5
<1> QED
  BY <1>4, <1>5

\* The table of a league lists all its teams in the order of points, goal
\* difference and goals for, and of two teams tied with nobody else the one
\* that beat the other comes first.
THEOREM TableInOrder == Spec => []TiebreakerOrder
<1>1. ASSUME PlayInv, LeagueInv
      PROVE  TiebreakerOrder
  <2> SUFFICES ASSUME setting.format = "round_robin" PROVE TiebreakerOrder
    BY DEF TiebreakerOrder
  <2> DEFINE table == Counted(fixtures)
             order == Standings(table, Name)
             T == 1 .. setting.n
             key == [t \in Ranked(table) |->
                        << Points(t, table), Difference(t, table), GoalsFor(t, table) >>]
             HeadToHead(t, u) ==
                 Cardinality({v \in Ranked(table) : key[v] = key[t]}) = 2 =>
                     \A f \in Range(Mutual({t, u}, table)) : For(t, f) >= For(u, f)
  <2>1. TableOf(table, T) /\ Counted(table) = table
    BY <1>1, CountedRows
  <2>2. Unique(table)
    BY <1>1, LeagueIsUnique
  <2>3. IsFiniteSet(T) /\ \A t \in T : Name[t] \in Int
    <3>1. setting \in Settings
      BY <1>1 DEF PlayInv, RequestsInv
    <3>2. setting.n \in Nat
      BY <3>1, SettingsAssumption
    <3> QED
      BY <3>1, <3>2, FS_Interval, NameAssumption
  <2>4. SortedBy(order, table, Name)
    BY <2>1, <2>3, StandingsAreSorted
  <2> HIDE DEF table, order, T
  <2>5. PICK c \in Nat : c = Cardinality(Ranked(table))
    BY <2>4 DEF SortedBy
  <2>6. /\ order \in [1 .. c -> Ranked(table)] /\ Range(order) = Ranked(table)
        /\ \A i, j \in 1 .. c : i < j => Precedes(KeyOf(order[i], table, Name), KeyOf(order[j], table, Name))
        /\ \A i, j \in 1 .. c : order[i] = order[j] => i = j
    BY <2>4, <2>5 DEF SortedBy, Bijection, Injection, Surjection, IsInjective, Range
  <2>7. ASSUME NEW x
        PROVE  Points(x, table) \in Nat /\ Difference(x, table) \in Int /\ GoalsFor(x, table) \in Nat
    BY <2>1, PointsAreNumbers
  <2>8. ASSUME NEW t \in Ranked(table), NEW u \in Ranked(table)
        PROVE  (key[t] = key[u]) <=> SameKey(t, u, table)
    <3>1. /\ key[t] = << Points(t, table), Difference(t, table), GoalsFor(t, table) >>
          /\ key[u] = << Points(u, table), Difference(u, table), GoalsFor(u, table) >>
      OBVIOUS
    <3> QED
      BY <3>1 DEF SameKey
  <2>9. ASSUME NEW t \in Ranked(table), NEW u \in Ranked(table), Ahead(t, u, table)
        PROVE  Precedes(key[u], key[t])
    <3>1. PICK a, b : a = key[u] /\ b = key[t]
      OBVIOUS
    <3>2. /\ a = << Points(u, table), Difference(u, table), GoalsFor(u, table) >>
          /\ b = << Points(t, table), Difference(t, table), GoalsFor(t, table) >>
      BY <3>1
    <3>3. /\ a \in [1 .. 3 -> Int] /\ b \in [1 .. 3 -> Int]
          /\ \/ a[1] < b[1]
             \/ a[1] = b[1] /\ a[2] < b[2]
             \/ a[1] = b[1] /\ a[2] = b[2] /\ a[3] < b[3]
      BY <2>7, <2>9, <3>2 DEF Ahead
    <3>4. DOMAIN a = 1 .. 3
      BY <3>3
    <3>5. Precedes(a, b)
      <4>1. CASE a[1] < b[1]
        <5>1. \A j \in 1 .. 1 - 1 : a[j] = b[j]
          OBVIOUS
        <5> QED
          BY <3>4, <4>1, <5>1 DEF Precedes
      <4>2. CASE a[1] = b[1] /\ a[2] < b[2]
        <5>1. \A j \in 1 .. 2 - 1 : a[j] = b[j]
          BY <4>2
        <5> QED
          BY <3>4, <4>2, <5>1 DEF Precedes
      <4>3. CASE a[1] = b[1] /\ a[2] = b[2] /\ a[3] < b[3]
        <5>1. \A j \in 1 .. 3 - 1 : a[j] = b[j]
          BY <4>3
        <5> QED
          BY <3>4, <4>3, <5>1 DEF Precedes
      <4> QED
        BY <3>3, <4>1, <4>2, <4>3
    <3> QED
      BY <3>1, <3>5
  <2>10. ASSUME NEW t \in Ranked(table), NEW u \in Ranked(table), SameKey(t, u, table),
                Cardinality({v \in Ranked(table) : SameKey(v, t, table)}) = 2
                    => ~ BeatenBy(t, u, table)
         PROVE  key[t] = key[u] /\ HeadToHead(t, u)
    <3>1. {v \in Ranked(table) : key[v] = key[t]} = {v \in Ranked(table) : SameKey(v, t, table)}
      BY <2>8
    <3>2. ASSUME NEW f \in Range(Mutual({t, u}, table)), ~ (For(t, f) < For(u, f))
          PROVE  For(t, f) >= For(u, f)
      <4>1. f.score \in Nat \X Nat
        <5>1. Range(Mutual({t, u}, table)) \subseteq Range(table)
          BY DEF Mutual, RestrictValues, Restrict, Range
        <5> QED
          BY <2>1, <5>1 DEF TableOf, Range
      <4>2. For(t, f) \in Nat /\ For(u, f) \in Nat
        BY <4>1 DEF For
      <4> QED
        BY <3>2, <4>2
    <3> QED
      BY <2>8, <2>10, <3>1, <3>2 DEF BeatenBy
  <2>11. ASSUME NEW j \in DOMAIN order, NEW k \in DOMAIN order, j < k
         PROVE  \/ Precedes(key[order[k]], key[order[j]])
                \/ key[order[j]] = key[order[k]] /\ HeadToHead(order[j], order[k])
    <3>1. PICK t \in Ranked(table), u \in Ranked(table) : t = order[j] /\ u = order[k]
      BY <2>6
    <3>2. t # u /\ Precedes(KeyOf(t, table, Name), KeyOf(u, table, Name))
      BY <2>6, <2>11, <3>1
    <3>3. \/ Ahead(t, u, table)
          \/ /\ SameKey(t, u, table)
             /\ Cardinality({v \in Ranked(table) : SameKey(v, t, table)}) = 2
                   => ~ BeatenBy(t, u, table)
      BY <2>1, <2>2, <2>3, <3>2, AheadOrTied
    <3>4. Precedes(key[u], key[t]) \/ (key[t] = key[u] /\ HeadToHead(t, u))
      <4> HIDE DEF key, HeadToHead
      <4> QED
        BY <2>9, <2>10, <3>3
    <3> QED
      BY <3>1, <3>4, Zenon
  <2> QED
    BY <2>6, <2>11 DEF TiebreakerOrder, table, order
<1> QED
  BY <1>1, LeagueIsKept, PTL

-----------------------------------------------------------------------------
(* A group that is played *)

GroupDone == \A k \in DOMAIN fixtures : fixtures[k].group # 0 => fixtures[k].done

\* A group has two teams or more, and all of them meet.
LEMMA GroupIsFull ==
    ASSUME PlayInv, setting.format = "group_knockout", NEW g \in 1 .. NumGroups(setting.n)
    PROVE  /\ g # 0 /\ IsFiniteSet(Keys(setting.n, g)) /\ Cardinality(Keys(setting.n, g)) >= 2
           /\ \A x, y \in Keys(setting.n, g) :
                 x # y => \E k \in DOMAIN fixtures :
                     fixtures[k].group = g /\ {fixtures[k].home, fixtures[k].away} = {x, y}
           /\ \A k \in DOMAIN fixtures : fixtures[k].group = g => ~ fixtures[k].bye
<1>1. setting \in Settings
  BY DEF PlayInv, RequestsInv
<1>2. setting.n \in Nat /\ setting.n >= 8
  BY <1>1, GroupSizeIsLarge
<1>3. DrawnRows = GroupStage(setting.n)
  BY DEF DrawnRows, Generated
<1> DEFINE table == GroupTable(setting.n, g)
           N == GroupLength(setting.n, g)
           T == Keys(setting.n, g)
<1>4. Selects(DrawnRows, g, table, N)
  BY <1>2, <1>3, StageOfLeagues
<1>5. League(table, N, T, Cardinality(T), g)
  BY <1>2, GroupIsLeague
<1>6. g # 0 /\ IsFiniteSet(T) /\ Cardinality(T) >= 2
  <2>1. g # 0
    BY DEF NumGroups
  <2>2. T \in SUBSET (1 .. setting.n) /\ IsFiniteSet(1 .. setting.n)
    BY <1>2, FS_Interval DEF Keys
  <2>3. Cardinality(T) >= 2
    BY <1>2, GroupsAreFilled
  <2> QED
    BY <2>1, <2>2, <2>3, FS_Subset
<1> HIDE DEF table, N, T
<1>7. PICK off \in Nat :
         /\ off + 1 .. off + N \subseteq DOMAIN DrawnRows
         /\ \A j \in 1 .. N : DrawnRows[off + j] = table[j]
  BY <1>4 DEF Selects
<1>8. ASSUME NEW x \in T, NEW y \in T, x # y
      PROVE  \E k \in DOMAIN fixtures :
                 fixtures[k].group = g /\ {fixtures[k].home, fixtures[k].away} = {x, y}
  <2>1. PICK j \in 1 .. N : {table[j].home, table[j].away} = {x, y}
    BY <1>5, <1>8 DEF League
  <2>2. table[j] = Fixture(j, g, table[j].home, table[j].away) /\ N \in Nat
    BY <1>5 DEF League
  <2>3. table[j].group = g
    BY <2>2 DEF Fixture
  <2>4. off + j \in DOMAIN DrawnRows /\ DrawnRows[off + j] = table[j]
    BY <1>7, <2>2
  <2>5. off + j \in DOMAIN fixtures /\ SameMatch(fixtures[off + j], DrawnRows[off + j])
    BY <2>4 DEF PlayInv, RowsInv
  <2> QED
    BY <2>1, <2>3, <2>4, <2>5 DEF SameMatch
<1>9. ASSUME NEW k \in DOMAIN fixtures, fixtures[k].group = g
      PROVE  ~ fixtures[k].bye
  <2>1. k \in DOMAIN DrawnRows
    BY <1>6, <1>9, GroupsHaveFormat
  <2>2. SameMatch(fixtures[k], DrawnRows[k]) /\ DrawnFor(DrawnRows, setting)
    BY <1>1, <2>1, SettingIsDrawn DEF PlayInv, RowsInv, DrawnRows
  <2> QED
    BY <2>1, <2>2 DEF DrawnFor, SameMatch
<1> QED
  BY <1>6, <1>8, <1>9 DEF T

\* All of a group is in its table.
LEMMA AllAreRanked ==
    ASSUME PlayInv, setting.format = "group_knockout", GroupDone,
           NEW g \in 1 .. NumGroups(setting.n)
    PROVE  /\ Counted(GroupRows(g)) = GroupRows(g)
           /\ Ranked(GroupRows(g)) = Keys(setting.n, g)
<1> DEFINE table == GroupRows(g)
           T == Keys(setting.n, g)
<1>1. /\ DOMAIN table = {k \in DOMAIN fixtures : fixtures[k].group = g}
      /\ \A k \in DOMAIN table : table[k] = fixtures[k]
      /\ DOMAIN Counted(table) = {k \in DOMAIN table : fixtures[k].done /\ ~ fixtures[k].bye}
      /\ \A k \in DOMAIN Counted(table) : Counted(table)[k] = fixtures[k]
  BY GroupRowsAre
<1>2. /\ g # 0 /\ IsFiniteSet(T) /\ Cardinality(T) >= 2
      /\ \A x, y \in T :
            x # y => \E k \in DOMAIN fixtures :
                fixtures[k].group = g /\ {fixtures[k].home, fixtures[k].away} = {x, y}
      /\ \A k \in DOMAIN fixtures : fixtures[k].group = g => ~ fixtures[k].bye
  BY GroupIsFull
<1>3. table = [k \in DOMAIN table |-> table[k]] /\ Counted(table) = [k \in DOMAIN Counted(table) |-> Counted(table)[k]]
  BY DEF GroupRows, Counted, RestrictValues, Restrict
<1> HIDE DEF table, T
<1>4. DOMAIN Counted(table) = DOMAIN table
  BY <1>1, <1>2 DEF GroupDone
<1>5. Counted(table) = table
  BY <1>1, <1>3, <1>4
<1>6. ASSUME NEW x \in T
      PROVE  x \in Ranked(table)
  <2>1. PICK y \in T : x # y
    <3>1. CASE T = {x}
      BY <1>2, <3>1, FS_Singleton
    <3> QED
      BY <3>1
  <2>2. PICK k \in DOMAIN fixtures :
           fixtures[k].group = g /\ {fixtures[k].home, fixtures[k].away} = {x, y}
    BY <1>2, <2>1
  <2>3. k \in DOMAIN table /\ table[k] = fixtures[k]
    BY <1>1, <2>2
  <2>4. table[k] \in Range(table)
    BY <2>3 DEF Range
  <2> QED
    BY <2>2, <2>3, <2>4 DEF Ranked
<1>7. ASSUME NEW x \in Ranked(table)
      PROVE  x \in T
  <2>1. PICK k \in DOMAIN table : x \in {table[k].home, table[k].away}
    BY DEF Ranked, Range
  <2>2. fixtures[k].home \in T /\ fixtures[k].away \in T /\ table[k] = fixtures[k]
    BY <1>1, <1>2, <2>1, GroupTeamsStay DEF T
  <2> QED
    BY <2>1, <2>2
<1>8. Ranked(table) = T
  BY <1>6, <1>7
<1> QED
  BY <1>5, <1>8 DEF table, T

\* When the groups are played, there is enough data to seed.
LEMMA PlayedGroupsSuffice ==
    ASSUME PlayInv, setting.format = "group_knockout", GroupDone
    PROVE  EnoughTeams
<1> SUFFICES ASSUME NEW g \in 1 .. NumGroups(setting.n) PROVE Len(GroupTables[g]) >= 2
  BY DEF EnoughTeams
<1>1. Ranked(Counted(GroupRows(g))) = Keys(setting.n, g)
  BY AllAreRanked
<1>2. Len(GroupTables[g]) = Cardinality(Ranked(Counted(GroupRows(g))))
  BY TablesOfGroups
<1>3. Cardinality(Keys(setting.n, g)) >= 2
  BY GroupIsFull
<1> QED
  BY <1>1, <1>2, <1>3

-----------------------------------------------------------------------------
(* A tournament goes on *)

\* No fixture comes after this one's round.
Final(f) ==
    \A k \in DOMAIN fixtures :
        fixtures[k].group = 0 => f.group = 0 /\ fixtures[k].round <= f.round

HasNext == \E k \in DOMAIN fixtures : ~ fixtures[k].done /\ Final(fixtures[k])

IsLater(r) == \A k \in DOMAIN fixtures : fixtures[k].group = 0 => fixtures[k].round < r

\* A request that adds a round, or completes the tournament, if it goes on.
GoesOn(w) ==
    \/ pc[w] \in {"pending", "exists", "winners"} /\ Final(Trigger(w))
    \/ pc[w] = "create" /\ DOMAIN plan[w] # {} /\ IsLater(NextRound(Trigger(w)))
    \/ pc[w] = "finish"

\* What a request knows however many there are.
Prepared(w) ==
    /\ pc[w] = "create" => NewRound(plan[w], setting.n, NextRound(Trigger(w)))
    /\ (pc[w] \in {"exists", "winners"} /\ Trigger(w).group # 0) => GroupDone

ProgressInv ==
    /\ \A w \in Workers : Prepared(w)
    /\ (status = "in_progress" /\ ~ setting.crashes) =>
          HasNext \/ \E w \in Workers : GoesOn(w)

\* A drawn tournament has a last fixture to play.
LEMMA ProgressInit ==
    ASSUME Init
    PROVE  ProgressInv
<1>1. setting \in Settings /\ fixtures = DrawnRows /\ pc = [w \in Workers |-> "idle"]
  BY DEF Init, DrawnRows
<1>2. setting.format \in TournamentFormat /\ setting.n \in Nat \ {0, 1} /\ DrawnFor(fixtures, setting)
  BY <1>1, SettingsAssumption, SettingIsDrawn DEF DrawnRows
<1>3. \A w \in Workers : Prepared(w)
  BY <1>1 DEF Prepared
<1>4. /\ DOMAIN fixtures = 1 .. Len(fixtures) /\ Len(fixtures) \in Nat \ {0}
      /\ \A k \in DOMAIN fixtures : fixtures[k].done <=> fixtures[k].bye
  BY <1>2 DEF DrawnFor, Fresh
<1>5. Len(fixtures) \in DOMAIN fixtures /\ 1 \in DOMAIN fixtures
  BY <1>4
<1>6. CASE setting.format = "round_robin"
  <2>1. \A k \in DOMAIN fixtures :
           fixtures[k].group = 0 /\ fixtures[k].round = k /\ ~ fixtures[k].bye
    BY <1>2, <1>6 DEF DrawnFor
  <2>2. Final(fixtures[Len(fixtures)]) /\ ~ fixtures[Len(fixtures)].done
    BY <1>4, <1>5, <2>1 DEF Final
  <2> QED
    BY <1>3, <1>5, <2>2 DEF ProgressInv, HasNext
<1>7. CASE setting.format = "group_knockout"
  <2>1. \A k \in DOMAIN fixtures : fixtures[k].group # 0 /\ ~ fixtures[k].bye
    BY <1>2, <1>7 DEF DrawnFor, NumGroups
  <2>2. Final(fixtures[1]) /\ ~ fixtures[1].done
    BY <1>4, <1>5, <2>1 DEF Final
  <2> QED
    BY <1>3, <1>5, <2>2 DEF ProgressInv, HasNext
<1>8. CASE setting.format = "knockout"
  <2>1. fixtures = KnockoutRound1(setting.n) /\ setting.n \in Nat /\ setting.n >= 2
    BY <1>1, <1>2, <1>8 DEF DrawnRows, Generated
  <2>2. PICK b \in Nat, m \in PowersOf2 :
           /\ b < m
           /\ KnockoutRound1(setting.n) =
                 [k \in 1 .. m |-> IF k <= b THEN Bye(k) ELSE Fixture(1, 0, k, (setting.n + b + 1) - k)]
    BY <2>1, FirstRound
  <2>3. m \in Nat \ {0}
    BY PowersDouble
  <2>4. m \in DOMAIN fixtures /\ fixtures[m] = Fixture(1, 0, m, (setting.n + b + 1) - m)
    BY <2>1, <2>2, <2>3
  <2>5. ~ fixtures[m].done
    BY <2>4 DEF Fixture
  <2>6. \A k \in DOMAIN fixtures : fixtures[k].group = 0 /\ fixtures[k].round = 1
    BY <1>2, <1>8 DEF DrawnFor
  <2>7. Final(fixtures[m])
    BY <2>4, <2>6 DEF Final
  <2> QED
    BY <1>3, <2>4, <2>5, <2>7 DEF ProgressInv, HasNext
<1> QED
  BY <1>2, <1>6, <1>7, <1>8 DEF TournamentFormat

\* A step of one request that changes no fixture.
LEMMA ProgressMoves ==
    ASSUME PlayInv, ProgressInv, NEW w \in Workers, UNCHANGED << setting, fixtures >>,
           \A v \in Workers :
              v # w => pc'[v] = pc[v] /\ want'[v] = want[v] /\ plan'[v] = plan[v],
           Prepared(w)',
           \/ status' # "in_progress" \/ setting.crashes
           \/ status' = status /\ (GoesOn(w) => HasNext \/ GoesOn(w)')
    PROVE  ProgressInv'
<1>1. ASSUME NEW v \in Workers, v # w
      PROVE  Trigger(v)' = Trigger(v) /\ (Prepared(v) => Prepared(v)') /\ (GoesOn(v) => GoesOn(v)')
  <2>1. pc'[v] = pc[v] /\ plan'[v] = plan[v] /\ want'[v] = want[v]
    BY <1>1
  <2>2. Trigger(v)' = Trigger(v)
    BY <2>1 DEF Trigger
  <2>3. NextRound(Trigger(v))' = NextRound(Trigger(v)) /\ GroupDone' = GroupDone
    BY <2>2 DEF NextRound, GroupDone
  <2>4. Final(Trigger(v)) => Final(Trigger(v))'
    BY <2>2 DEF Final
  <2>5. IsLater(NextRound(Trigger(v))) => IsLater(NextRound(Trigger(v)))'
    BY <2>3 DEF IsLater
  <2> QED
    BY <2>1, <2>2, <2>3, <2>4, <2>5 DEF Prepared, GoesOn
<1>2. \A v \in Workers : Prepared(v)'
  BY <1>1 DEF ProgressInv
<1>3. HasNext => HasNext'
  BY DEF HasNext, Final
<1>4. (status' = "in_progress" /\ ~ setting'.crashes) => (HasNext \/ \E v \in Workers : GoesOn(v))'
  BY <1>1, <1>3 DEF ProgressInv
<1> QED
  BY <1>2, <1>4 DEF ProgressInv

\* A request goes on past both queries, or finds a later round.
LEMMA ProgressChecks ==
    ASSUME PlayInv, ProgressInv, NEW w \in Workers, CheckRoundDone(w) \/ CheckNextRound(w)
    PROVE  ProgressInv'
<1>1. UNCHANGED << setting, status, fixtures, want, plan >> /\ pc[w] # "idle"
  BY DEF CheckRoundDone, CheckNextRound
<1>2. /\ want[w][1] \in DOMAIN fixtures /\ Trigger(w) = fixtures[want[w][1]]
      /\ Trigger(w) \in AnyFixture(setting.n)
  BY <1>1, RowsAreFresh DEF PlayInv, RequestsInv, Request, Trigger
<1>3. Trigger(w)' = Trigger(w)
  BY <1>1 DEF Trigger
<1> DEFINE f == Trigger(w)
<1>4. f.group \in Nat /\ f.round \in Nat \ {0}
  BY <1>2 DEF AnyFixture
<1>5. Final(f) => Final(f)'
  BY <1>1, <1>3 DEF Final
<1>6. \A v \in Workers :
         v # w => pc'[v] = pc[v] /\ want'[v] = want[v] /\ plan'[v] = plan[v]
  BY <1>1 DEF CheckRoundDone, CheckNextRound, Goto, PlayInv, RequestsInv
<1>7. GroupDone' = GroupDone
  BY <1>1 DEF GroupDone
<1>8. CASE CheckRoundDone(w)
  <2> DEFINE table == IF f.group # 0 THEN GroupFixtures ELSE KnockoutRound(f.round)
             to == IF AllDone(table) THEN "exists" ELSE "idle"
  <2>1. pc[w] = "pending" /\ pc'[w] = to
    BY <1>8 DEF CheckRoundDone, Goto, PlayInv, RequestsInv
  <2>2. (AllDone(table) /\ f.group # 0) => GroupDone
    BY DEF AllDone, GroupFixtures, RestrictValues, Restrict, Range, GroupDone
  <2>3. ASSUME ~ AllDone(table), Final(f)
        PROVE  HasNext
    <3>1. CASE f.group # 0
      <4>1. PICK k \in DOMAIN fixtures : fixtures[k].group # 0 /\ ~ fixtures[k].done
        BY <2>3, <3>1 DEF AllDone, GroupFixtures, RestrictValues, Restrict, Range
      <4>2. Final(fixtures[k])
        BY <2>3, <3>1 DEF Final
      <4> QED
        BY <4>1, <4>2 DEF HasNext
    <3>2. CASE f.group = 0
      <4>1. PICK k \in RoundRows(f.round) : ~ fixtures[k].done
        BY <2>3, <3>2, RoundIsRows
      <4>2. k \in DOMAIN fixtures /\ fixtures[k].group = 0 /\ fixtures[k].round = f.round
        BY DEF RoundRows
      <4>3. Final(fixtures[k])
        BY <2>3, <4>2 DEF Final
      <4> QED
        BY <4>1, <4>2, <4>3 DEF HasNext
    <3> QED
      BY <3>1, <3>2
  <2>4. to = "idle" \/ (to = "exists" /\ AllDone(table))
    OBVIOUS
  <2>5. GoesOn(w) => Final(f)
    BY <2>1 DEF GoesOn
  <2> HIDE DEF to, table
  <2>6. Prepared(w)'
    BY <1>3, <1>7, <2>1, <2>2, <2>4 DEF Prepared
  <2>7. ASSUME GoesOn(w)
        PROVE  HasNext \/ GoesOn(w)'
    <3>1. CASE to = "idle"
      <4>1. ~ AllDone(table)
        BY <3>1 DEF to
      <4> QED
        BY <2>3, <2>5, <2>7, <4>1
    <3>2. CASE to = "exists"
      BY <1>3, <1>5, <2>1, <2>5, <2>7, <3>2 DEF GoesOn
    <3> QED
      BY <2>4, <3>1, <3>2
  <2> QED
    BY <1>1, <1>6, <2>6, <2>7, ProgressMoves
<1>9. CASE CheckNextRound(w)
  <2> DEFINE next == NextRound(f)
             to == IF DOMAIN KnockoutRound(next) = {} THEN "winners" ELSE "idle"
  <2>1. pc[w] = "exists" /\ pc'[w] = to
    BY <1>9 DEF CheckNextRound, Goto, PlayInv, RequestsInv
  <2>2. ASSUME Final(f)
        PROVE  DOMAIN KnockoutRound(next) = {}
    <3>1. ASSUME NEW k \in RoundRows(next)
          PROVE  FALSE
      <4>1. /\ k \in DOMAIN fixtures /\ fixtures[k].group = 0
            /\ fixtures[k].round = IF f.group # 0 THEN 1 ELSE f.round + 1
        BY DEF RoundRows, NextRound
      <4>2. f.group = 0 /\ fixtures[k].round <= f.round
        BY <2>2, <4>1 DEF Final
      <4> QED
        BY <1>4, <4>1, <4>2
    <3> QED
      BY <3>1, RoundIsRows
  <2>3. to \in {"winners", "idle"} /\ (Final(f) => to = "winners")
    BY <2>2
  <2> HIDE DEF to
  <2>4. Prepared(w)'
    BY <1>3, <1>7, <2>1, <2>3 DEF Prepared, ProgressInv
  <2>5. GoesOn(w) => GoesOn(w)'
    BY <1>3, <1>5, <2>1, <2>3 DEF GoesOn
  <2> QED
    BY <1>1, <1>6, <2>4, <2>5, ProgressMoves
<1> QED
  BY <1>8, <1>9

\* The first round of the knockout stage is never empty.
LEMMA ProgressSeedKnockout ==
    ASSUME PlayInv, ProgressInv, NEW w \in Workers, SeedKnockout(w)
    PROVE  ProgressInv'
<1>1. /\ pc[w] = "winners" /\ Trigger(w).group # 0
      /\ \/ EnoughTeams /\ plan' = [plan EXCEPT ![w] = SeedPlan] /\ Goto(w, "create")
         \/ ~ EnoughTeams /\ plan' = plan /\ Goto(w, "idle")
      /\ UNCHANGED << setting, status, fixtures, want >>
  BY SeedKnockoutSteps
<1>2. want[w][1] \in DOMAIN fixtures /\ Trigger(w) = fixtures[want[w][1]]
  BY <1>1 DEF PlayInv, RequestsInv, Request, Trigger
<1>3. setting.format = "group_knockout"
  BY <1>1, <1>2, GroupsHaveFormat
<1>4. GroupDone
  BY <1>1 DEF ProgressInv, Prepared
<1>5. EnoughTeams
  BY <1>3, <1>4, PlayedGroupsSuffice
<1>6. /\ pc' = [pc EXCEPT ![w] = "create"] /\ plan' = [plan EXCEPT ![w] = SeedPlan]
  BY <1>1, <1>5 DEF Goto
<1>7. pc'[w] = "create" /\ plan'[w] = SeedPlan
      /\ \A v \in Workers :
           v # w => pc'[v] = pc[v] /\ want'[v] = want[v] /\ plan'[v] = plan[v]
  BY <1>1, <1>6 DEF PlayInv, RequestsInv
<1>8. NewRound(SeedPlan, setting.n, 1) /\ DOMAIN SeedPlan # {}
  <2>1. NewRound(SeedPlan, setting.n, 1) /\ DOMAIN SeedPlan = 1 .. NumGroups(setting.n)
    BY <1>5, SeedPlanIsNew
  <2>2. 1 \in 1 .. NumGroups(setting.n)
    BY DEF NumGroups
  <2> QED
    BY <2>1, <2>2
<1>9. Trigger(w)' = Trigger(w) /\ NextRound(Trigger(w))' = 1 /\ NextRound(Trigger(w)) = 1
  BY <1>1 DEF Trigger, NextRound
<1>10. Prepared(w)'
  BY <1>1, <1>7, <1>8, <1>9 DEF Prepared
<1>11. ASSUME GoesOn(w)
       PROVE  GoesOn(w)'
  <2>1. Final(Trigger(w))
    BY <1>1, <1>11 DEF GoesOn
  <2>2. IsLater(1)
    BY <1>1, <2>1 DEF Final, IsLater
  <2>3. IsLater(NextRound(Trigger(w)))'
    BY <1>1, <1>9, <2>2 DEF IsLater
  <2> QED
    BY <1>7, <1>8, <2>3 DEF GoesOn
<1> QED
  BY <1>1, <1>7, <1>10, <1>11, ProgressMoves

\* A round is followed by another, or by the end.
LEMMA ProgressReadWinners ==
    ASSUME PlayInv, ProgressInv, NEW w \in Workers, ReadWinners(w)
    PROVE  ProgressInv'
<1>1. PICK r, c : r = Trigger(w).round /\ c = Cardinality(PlayedRows(r))
  OBVIOUS
<1> DEFINE to == IF c \div 2 = 0 THEN "finish" ELSE "create"
<1>2. /\ pc[w] = "winners" /\ Trigger(w).group = 0 /\ r \in Nat \ {0}
      /\ NextRound(Trigger(w)) = r + 1
      /\ plan' = [plan EXCEPT ![w] = WinnersPlan(w)] /\ Goto(w, to)
      /\ UNCHANGED << setting, status, fixtures, want >>
      /\ c \div 2 \in Nat
      /\ NewRound(WinnersPlan(w), setting.n, r + 1) /\ DOMAIN WinnersPlan(w) = 1 .. c \div 2
  BY <1>1, ReadWinnersSteps
<1>3. to = "finish" \/ (to = "create" /\ 1 \in 1 .. c \div 2)
  BY <1>2
<1> HIDE DEF to
<1>4. pc'[w] = to /\ plan'[w] = WinnersPlan(w)
      /\ \A v \in Workers :
           v # w => pc'[v] = pc[v] /\ want'[v] = want[v] /\ plan'[v] = plan[v]
  BY <1>2 DEF PlayInv, RequestsInv, Goto
<1>5. Trigger(w)' = Trigger(w) /\ NextRound(Trigger(w))' = r + 1
  BY <1>2 DEF Trigger, NextRound
<1>6. Prepared(w)'
  BY <1>2, <1>3, <1>4, <1>5 DEF Prepared
<1>7. ASSUME GoesOn(w)
      PROVE  GoesOn(w)'
  <2>1. Final(Trigger(w))
    BY <1>2, <1>7 DEF GoesOn
  <2>2. IsLater(r + 1)
    <3>1. ASSUME NEW k \in DOMAIN fixtures, fixtures[k].group = 0
          PROVE  fixtures[k].round < r + 1
      <4>1. fixtures[k].round <= r
        BY <1>1, <2>1, <3>1 DEF Final
      <4>2. fixtures[k].round \in Nat
        BY RowsAreFresh DEF AnyFixture
      <4> QED
        BY <1>2, <4>1, <4>2
    <3> QED
      BY <3>1 DEF IsLater
  <2>3. IsLater(NextRound(Trigger(w)))'
    BY <1>2, <1>5, <2>2 DEF IsLater
  <2>4. to = "create" => DOMAIN plan'[w] # {}
    BY <1>2, <1>3, <1>4
  <2> QED
    BY <1>3, <1>4, <2>3, <2>4 DEF GoesOn
<1> QED
  BY <1>2, <1>4, <1>6, <1>7, ProgressMoves

\* Who enters the last score of the last round goes on to the next.
LEMMA ProgressSaveScore ==
    ASSUME PlayInv, ProgressInv, NEW w \in Workers, SaveScore(w)
    PROVE  ProgressInv'
<1>1. PICK i : i = want[w][1]
  OBVIOUS
<1>2. /\ SavedAt(i)
      /\ pc[w] = "save" /\ pc' = [pc EXCEPT ![w] = "pending"] /\ Request(w)
      /\ UNCHANGED << setting, status, want, plan >>
  BY <1>1, ScoreIsSaved
<1>3. pc'[w] = "pending" /\ \A v \in Workers : v # w => pc'[v] = pc[v]
  BY <1>2 DEF PlayInv, RequestsInv
<1>4. /\ i \in DOMAIN fixtures /\ DOMAIN fixtures' = DOMAIN fixtures /\ fixtures'[i].done
      /\ \A k \in DOMAIN fixtures :
            fixtures'[k].group = fixtures[k].group /\ fixtures'[k].round = fixtures[k].round
      /\ \A k \in DOMAIN fixtures : k # i => fixtures'[k] = fixtures[k]
  BY <1>2 DEF SavedAt, SameMatch
<1>5. ASSUME NEW k \in DOMAIN fixtures
      PROVE  Final(fixtures[k]) => Final(fixtures[k])'
  BY <1>4 DEF Final
<1>6. GroupDone => GroupDone'
  BY <1>4 DEF GroupDone
<1>7. \A r : IsLater(r) => IsLater(r)'
  BY <1>4 DEF IsLater
<1>8. ASSUME NEW v \in Workers, pc[v] # "idle"
      PROVE  /\ want[v][1] \in DOMAIN fixtures /\ Trigger(v) = fixtures[want[v][1]]
             /\ Trigger(v)' = fixtures'[want[v][1]]
             /\ NextRound(Trigger(v))' = NextRound(Trigger(v))
             /\ Trigger(v)'.group = Trigger(v).group
  <2>1. want[v][1] \in DOMAIN fixtures /\ want' = want
    BY <1>2, <1>8 DEF PlayInv, RequestsInv, Request
  <2>2. Trigger(v) = fixtures[want[v][1]] /\ Trigger(v)' = fixtures'[want[v][1]]
    BY <2>1 DEF Trigger
  <2> QED
    BY <1>4, <2>1, <2>2 DEF NextRound
<1>9. ASSUME NEW v \in Workers
      PROVE  Prepared(v)'
  <2>1. CASE v = w
    BY <1>3, <2>1 DEF Prepared
  <2>2. CASE v # w
    <3>1. pc'[v] = pc[v] /\ plan'[v] = plan[v] /\ setting' = setting /\ Prepared(v)
      BY <1>2, <1>3, <2>2 DEF ProgressInv
    <3> QED
      BY <1>6, <1>8, <3>1 DEF Prepared
  <2> QED
    BY <2>1, <2>2
<1>10. ASSUME NEW v \in Workers, GoesOn(v)
       PROVE  GoesOn(v)'
  <2>1. pc[v] # "idle" /\ pc[v] # "save"
    BY <1>10 DEF GoesOn
  <2>2. pc'[v] = pc[v] /\ plan'[v] = plan[v]
    BY <1>2, <1>3, <2>1
  <2>3. Final(Trigger(v)) => Final(Trigger(v))'
    <3>1. PICK k \in DOMAIN fixtures : k = want[v][1]
      BY <1>8, <2>1
    <3>2. Trigger(v) = fixtures[k] /\ Trigger(v)' = fixtures'[k]
      BY <1>8, <2>1, <3>1
    <3>3. Final(fixtures[k])' => Final(Trigger(v))'
      BY <3>2 DEF Final
    <3> QED
      BY <1>5, <3>2, <3>3
  <2>4. IsLater(NextRound(Trigger(v))) => IsLater(NextRound(Trigger(v)))'
    BY <1>4, <1>8, <2>1 DEF IsLater
  <2> QED
    BY <1>10, <2>2, <2>3, <2>4 DEF GoesOn
<1>11. ASSUME HasNext
       PROVE  HasNext' \/ GoesOn(w)'
  <2>1. PICK k \in DOMAIN fixtures : ~ fixtures[k].done /\ Final(fixtures[k])
    BY <1>11 DEF HasNext
  <2>2. CASE k = i
    <3>1. Trigger(w)' = fixtures'[k]
      BY <1>1, <1>2, <2>2 DEF Trigger
    <3>2. Final(fixtures[k])'
      BY <1>5, <2>1
    <3>3. Final(Trigger(w))'
      BY <3>1, <3>2 DEF Final
    <3> QED
      BY <1>3, <3>3 DEF GoesOn
  <2>3. CASE k # i
    <3>1. k \in DOMAIN fixtures' /\ ~ fixtures'[k].done
      BY <1>4, <2>1, <2>3
    <3>2. Final(fixtures[k])'
      BY <1>5, <2>1
    <3> QED
      BY <3>1, <3>2 DEF HasNext
  <2> QED
    BY <2>2, <2>3
<1> QED
  BY <1>2, <1>9, <1>10, <1>11 DEF ProgressInv

\* A round that is added is open and, if no thread was faster, the last.
LEMMA ProgressCreateRound ==
    ASSUME PlayInv, ProgressInv, NEW w \in Workers, CreateRound(w)
    PROVE  ProgressInv'
<1>1. /\ pc[w] = "create" /\ Goto(w, "idle") /\ pc'[w] = "idle" /\ Request(w)
      /\ UNCHANGED << setting, status, want >> /\ AppendedTo(w)
  BY RoundIsCreated
<1>2. PICK r, rows : r = NextRound(Trigger(w)) /\ rows = plan[w]
  OBVIOUS
<1>3. \A k \in DOMAIN rows : rows[k].group = 0 /\ rows[k].round = r /\ ~ rows[k].done
  BY <1>1, <1>2 DEF ProgressInv, Prepared, NewRound
<1>4. /\ DOMAIN fixtures \subseteq DOMAIN fixtures'
      /\ \A k \in DOMAIN fixtures : fixtures'[k] = fixtures[k]
      /\ \A i \in DOMAIN rows : Len(fixtures) + i \in DOMAIN fixtures'
                                /\ fixtures'[Len(fixtures) + i] = rows[i]
      /\ \A k \in DOMAIN fixtures' \ DOMAIN fixtures :
            fixtures'[k].group = 0 /\ fixtures'[k].round = r
  BY <1>1, <1>2, <1>3 DEF AppendedTo
<1>5. r \in Nat /\ \A k \in DOMAIN fixtures : fixtures[k].round \in Nat
  <2>1. \A k \in DOMAIN fixtures : fixtures[k].round \in Nat
    BY RowsAreFresh DEF AnyFixture
  <2>2. want[w][1] \in DOMAIN fixtures /\ Trigger(w) = fixtures[want[w][1]]
    BY <1>1 DEF Request, Trigger
  <2> QED
    BY <1>2, <2>1, <2>2 DEF NextRound
<1>6. \A v \in Workers :
         v # w => pc'[v] = pc[v] /\ want'[v] = want[v] /\ plan'[v] = plan[v]
  BY <1>1 DEF CreateRound, Goto, PlayInv, RequestsInv
<1>7. GroupDone' = GroupDone
  <2>1. ASSUME NEW k \in DOMAIN fixtures', fixtures'[k].group # 0
        PROVE  k \in DOMAIN fixtures
    BY <1>4, <2>1
  <2> QED
    BY <1>4, <2>1 DEF GroupDone
<1>8. ASSUME NEW v \in Workers, v # w, pc[v] # "idle"
      PROVE  Trigger(v)' = Trigger(v) /\ NextRound(Trigger(v))' = NextRound(Trigger(v))
  <2>1. want[v][1] \in DOMAIN fixtures /\ want' = want
    BY <1>1, <1>8 DEF PlayInv, RequestsInv, Request
  <2>2. Trigger(v)' = Trigger(v)
    BY <1>4, <2>1 DEF Trigger
  <2> QED
    BY <2>2 DEF NextRound
<1>9. ASSUME NEW v \in Workers
      PROVE  Prepared(v)'
  <2>1. CASE v = w
    BY <1>1, <2>1 DEF Prepared
  <2>2. CASE v # w
    <3>1. pc'[v] = pc[v] /\ plan'[v] = plan[v] /\ setting' = setting /\ Prepared(v)
      BY <1>1, <1>6, <2>2 DEF ProgressInv
    <3> QED
      BY <1>7, <1>8, <2>2, <3>1 DEF Prepared
  <2> QED
    BY <2>1, <2>2
<1>10. CASE (\A k \in DOMAIN fixtures : fixtures[k].group = 0 => fixtures[k].round <= r)
            /\ DOMAIN rows # {}
  <2>1. PICK i \in DOMAIN rows : TRUE
    BY <1>10
  <2>2. PICK k : k = Len(fixtures) + i
    OBVIOUS
  <2>3. /\ k \in DOMAIN fixtures' /\ ~ fixtures'[k].done
        /\ fixtures'[k].group = 0 /\ fixtures'[k].round = r
    BY <1>3, <1>4, <2>1, <2>2
  <2>4. Final(fixtures[k])'
    BY <1>4, <1>5, <1>10, <2>3 DEF Final
  <2>5. HasNext'
    BY <2>3, <2>4 DEF HasNext
  <2> QED
    BY <1>9, <2>5 DEF ProgressInv
<1>11. CASE DOMAIN rows = {} \/ \E k \in DOMAIN fixtures : fixtures[k].group = 0 /\ fixtures[k].round > r
  <2>1. ASSUME NEW f, Final(f), f.round \in Nat
        PROVE  Final(f)'
    <3>1. ASSUME NEW l \in DOMAIN fixtures', fixtures'[l].group = 0
          PROVE  f.group = 0 /\ fixtures'[l].round <= f.round
      <4>1. CASE l \in DOMAIN fixtures
        BY <1>4, <2>1, <3>1, <4>1 DEF Final
      <4>2. CASE l \notin DOMAIN fixtures
        <5>1. fixtures'[l].round = r /\ DOMAIN rows # {}
          BY <1>1, <1>2, <1>4, <4>2 DEF AppendedTo
        <5>2. PICK k \in DOMAIN fixtures : fixtures[k].group = 0 /\ fixtures[k].round > r
          BY <1>11, <5>1
        <5>3. f.group = 0 /\ fixtures[k].round <= f.round /\ fixtures[k].round \in Nat
          BY <1>5, <2>1, <5>2 DEF Final
        <5> QED
          BY <1>5, <2>1, <5>1, <5>2, <5>3
      <4> QED
        BY <4>1, <4>2
    <3> QED
      BY <3>1 DEF Final
  <2>2. HasNext => HasNext'
    <3>1. ASSUME NEW k \in DOMAIN fixtures, ~ fixtures[k].done, Final(fixtures[k])
          PROVE  k \in DOMAIN fixtures' /\ ~ fixtures'[k].done /\ Final(fixtures[k])'
      <4>1. k \in DOMAIN fixtures' /\ fixtures'[k] = fixtures[k] /\ fixtures[k].round \in Nat
        BY <1>4, <1>5
      <4>2. PICK f : f = fixtures[k]
        OBVIOUS
      <4>3. Final(f)'
        BY <2>1, <3>1, <4>1, <4>2
      <4>4. Final(fixtures[k])'
        BY <4>1, <4>2, <4>3 DEF Final
      <4> QED
        BY <3>1, <4>1, <4>4
    <3> QED
      BY <3>1 DEF HasNext
  <2>3. ASSUME NEW v \in Workers, v # w, GoesOn(v)
        PROVE  GoesOn(v)'
    <3>1. pc[v] # "idle"
      BY <2>3 DEF GoesOn
    <3>2. /\ pc'[v] = pc[v] /\ plan'[v] = plan[v] /\ Trigger(v)' = Trigger(v)
          /\ NextRound(Trigger(v))' = NextRound(Trigger(v))
      BY <1>6, <1>8, <2>3, <3>1
    <3>3. PICK f, q : f = Trigger(v) /\ q = NextRound(Trigger(v))
      OBVIOUS
    <3>4. f.round \in Nat /\ q \in Nat
      <4>1. want[v][1] \in DOMAIN fixtures /\ f = fixtures[want[v][1]]
        BY <3>1, <3>3 DEF PlayInv, RequestsInv, Request, Trigger
      <4> QED
        BY <1>5, <3>3, <4>1 DEF NextRound
    <3>5. Final(f) => Final(Trigger(v))'
      <4>1. Final(f) => Final(f)'
        BY <2>1, <3>4
      <4>2. Final(f)' => Final(Trigger(v))'
        BY <3>2, <3>3 DEF Final
      <4> QED
        BY <4>1, <4>2
    <3>6. IsLater(q) => IsLater(q)'
      <4>1. ASSUME IsLater(q), NEW l \in DOMAIN fixtures', fixtures'[l].group = 0
            PROVE  fixtures'[l].round < q
        <5>1. CASE l \in DOMAIN fixtures
          BY <1>4, <4>1, <5>1 DEF IsLater
        <5>2. CASE l \notin DOMAIN fixtures
          <6>1. fixtures'[l].round = r /\ DOMAIN rows # {}
            BY <1>1, <1>2, <1>4, <5>2 DEF AppendedTo
          <6>2. PICK k \in DOMAIN fixtures : fixtures[k].group = 0 /\ fixtures[k].round > r
            BY <1>11, <6>1
          <6>3. fixtures[k].round < q /\ fixtures[k].round \in Nat
            BY <1>5, <4>1, <6>2 DEF IsLater
          <6> QED
            BY <1>5, <3>4, <6>1, <6>2, <6>3
        <5> QED
          BY <5>1, <5>2
      <4> QED
        BY <4>1 DEF IsLater
    <3>7. IsLater(q)' => IsLater(NextRound(Trigger(v)))'
      BY <3>2, <3>3 DEF IsLater
    <3> QED
      BY <2>3, <3>2, <3>3, <3>5, <3>6, <3>7 DEF GoesOn
  <2>4. ASSUME GoesOn(w)
        PROVE  FALSE
    <3>1. DOMAIN rows # {} /\ IsLater(r)
      BY <1>1, <1>2, <2>4 DEF GoesOn
    <3>2. PICK k \in DOMAIN fixtures : fixtures[k].group = 0 /\ fixtures[k].round > r
      BY <1>11, <3>1
    <3> QED
      BY <1>5, <3>1, <3>2 DEF IsLater
  <2> QED
    BY <1>1, <1>9, <2>2, <2>3, <2>4 DEF ProgressInv
<1>12. ASSUME NEW k \in DOMAIN fixtures, ~ (fixtures[k].round <= r)
       PROVE  fixtures[k].round > r
  BY <1>5, <1>12
<1> QED
  BY <1>10, <1>11, <1>12

\* Every step keeps a fixture or a request with which the tournament goes on.
LEMMA ProgressStep == PlayInv /\ ProgressInv /\ [Next]_vars => ProgressInv'
<1> SUFFICES ASSUME PlayInv, ProgressInv, [Next]_vars PROVE ProgressInv'
  OBVIOUS
<1>1. ASSUME UNCHANGED << setting, fixtures, pc, want, plan >>, status' \in {status, "completed"}
      PROVE  ProgressInv'
  <2>1. \A v \in Workers : Trigger(v)' = Trigger(v) /\ GroupDone' = GroupDone
    BY <1>1 DEF Trigger, GroupDone
  <2>2. \A v \in Workers : NextRound(Trigger(v))' = NextRound(Trigger(v))
    BY <2>1 DEF NextRound
  <2>3. \A v \in Workers : Prepared(v)'
    BY <1>1, <2>1, <2>2 DEF ProgressInv, Prepared
  <2>4. \A v \in Workers : GoesOn(v) => GoesOn(v)'
    BY <1>1, <2>1, <2>2 DEF GoesOn, Final, IsLater
  <2>5. HasNext => HasNext'
    BY <1>1 DEF HasNext, Final
  <2> QED
    BY <1>1, <2>3, <2>4, <2>5 DEF ProgressInv
<1>2. CASE UNCHANGED vars
  BY <1>1, <1>2 DEF vars
<1>3. CASE Complete
  BY <1>1, <1>3 DEF Complete
<1>4. ASSUME NEW w \in Workers, CheckInProgress(w)
      PROVE  ProgressInv'
  <2>1. /\ pc[w] = "idle" /\ pc' = [pc EXCEPT ![w] = "save"]
        /\ UNCHANGED << setting, status, fixtures, plan >>
        /\ \E q : want' = [want EXCEPT ![w] = q]
    BY <1>4 DEF CheckInProgress, Goto
  <2>2. pc'[w] = "save" /\ \A v \in Workers : v # w => pc'[v] = pc[v] /\ want'[v] = want[v]
    BY <2>1 DEF PlayInv, RequestsInv
  <2>3. Prepared(w)' /\ ~ GoesOn(w)
    BY <2>1, <2>2 DEF Prepared, GoesOn
  <2> QED
    BY <2>1, <2>2, <2>3, ProgressMoves
<1>5. ASSUME NEW w \in Workers, Finish(w) \/ Crash(w)
      PROVE  ProgressInv'
  <2>1. /\ pc' = [pc EXCEPT ![w] = "idle"]
        /\ UNCHANGED << setting, fixtures, want >>
        /\ plan' = plan \/ plan' = [plan EXCEPT ![w] = << >>]
        /\ status' = "completed" \/ setting.crashes
    BY <1>5 DEF Finish, Crash, Goto
  <2>2. pc'[w] = "idle" /\ \A v \in Workers : v # w => pc'[v] = pc[v] /\ plan'[v] = plan[v]
    BY <2>1 DEF PlayInv, RequestsInv
  <2>3. Prepared(w)'
    BY <2>2 DEF Prepared
  <2> QED
    BY <2>1, <2>2, <2>3, ProgressMoves
<1> QED
  BY <1>2, <1>3, <1>4, <1>5, ProgressChecks, ProgressSeedKnockout, ProgressReadWinners,
     ProgressSaveScore, ProgressCreateRound DEF Next, WorkerStep

\* A tournament in progress with no request running always has a fixture left
\* to enter, unless a process died: also when several requests overlap and
\* scores are corrected.
THEOREM AlwaysSomethingToPlay == Spec => []SomethingToPlay
<1>1. PlayInv /\ ProgressInv /\ [Next]_vars => ProgressInv'
  BY ProgressStep
<1>2. ProgressInv => SomethingToPlay
  BY DEF ProgressInv, SomethingToPlay, Idle, HasNext, GoesOn, Open
<1> QED
  BY <1>1, <1>2, ProgressInit, PlayIsWellFormed, PTL DEF Spec

-----------------------------------------------------------------------------
(* Who leaves a group *)

\* The first two of every group's table.
Qualified == {GroupTables[g][i] : g \in 1 .. NumGroups(setting.n), i \in {1, 2}}

Seeds(w) ==
    (pc[w] = "create" /\ Trigger(w).group # 0) => PlanTeams(plan[w]) = Qualified

SeededInv ==
    /\ RoundRows(1) # {} => RoundTeams(1) = Qualified
    /\ \A w \in Workers : Seeds(w)

GroupKnockout == Uncorrected /\ setting.format = "group_knockout"

\* With one thread only its own plan can have changed.
LEMMA OnlyOneSeeds ==
    ASSUME PlayInv, OneThread, NEW w \in Workers, w \in setting.threads \/ pc[w] # "idle",
           NEW label, Goto(w, label), Seeds(w)'
    PROVE  \A v \in Workers : Seeds(v)'
<1>1. \A v \in Workers : v # w => pc'[v] = "idle"
  BY OthersAreIdle DEF Goto, PlayInv, RequestsInv
<1> QED
  BY <1>1 DEF Seeds

\* Who is qualified depends on the fixtures of the groups only.
LEMMA QualifiedStay ==
    ASSUME setting' = setting,
           \A k \in DOMAIN fixtures : fixtures[k].group # 0 =>
              k \in DOMAIN fixtures' /\ fixtures'[k] = fixtures[k],
           \A k \in DOMAIN fixtures' : fixtures'[k].group # 0 => k \in DOMAIN fixtures
                                                              /\ fixtures'[k] = fixtures[k]
    PROVE  Qualified' = Qualified
<1>1. ASSUME NEW g \in 1 .. NumGroups(setting.n)
      PROVE  RestrictValues(fixtures, LAMBDA f : f.group = g)'
               = RestrictValues(fixtures, LAMBDA f : f.group = g)
  <2>1. g # 0
    BY DEF NumGroups
  <2>2. {k \in DOMAIN fixtures' : fixtures'[k].group = g} = {k \in DOMAIN fixtures : fixtures[k].group = g}
    BY <2>1
  <2> DEFINE K == {k \in DOMAIN fixtures : fixtures[k].group = g}
  <2>3. RestrictValues(fixtures, LAMBDA f : f.group = g)' = [k \in K |-> fixtures'[k]]
        /\ RestrictValues(fixtures, LAMBDA f : f.group = g) = [k \in K |-> fixtures[k]]
    BY <2>2 DEF RestrictValues, Restrict
  <2>4. \A k \in K : fixtures'[k] = fixtures[k]
    BY <2>1
  <2> HIDE DEF K
  <2> QED
    BY <2>3, <2>4
<1>2. \A g \in 1 .. NumGroups(setting.n) : GroupTables'[g] = GroupTables[g]
  BY <1>1 DEF GroupTables
<1> QED
  BY <1>2 DEF Qualified

\* Seeding takes the first two of every group.
LEMMA QualifiedAreSeeded ==
    ASSUME PlayInv, EnoughTeams
    PROVE  PlanTeams(SeedPlan) = Qualified
<1>1. PICK G : G = NumGroups(setting.n)
  OBVIOUS
<1>2. G \in Nat
  BY <1>1 DEF NumGroups
<1>3. /\ NewRound(SeedPlan, setting.n, 1) /\ DOMAIN SeedPlan = 1 .. G
      /\ \A k \in 1 .. G :
            /\ SeedPlan[k].home = GroupTables[k][1]
            /\ (G + 1) - k \in 1 .. G
            /\ SeedPlan[k].away = GroupTables[(G + 1) - k][2]
  BY <1>1, SeedPlanIsNew
<1>4. \A k \in 1 .. G : Pair(SeedPlan[k]) = {SeedPlan[k].home, SeedPlan[k].away}
  <2> SUFFICES ASSUME NEW k \in 1 .. G
               PROVE  Pair(SeedPlan[k]) = {SeedPlan[k].home, SeedPlan[k].away}
    OBVIOUS
  <2>1. SeedPlan[k].away # NoTeam /\ SeedPlan[k] \in AnyFixture(setting.n)
    <3>1. PICK rows : rows = SeedPlan
      OBVIOUS
    <3>2. rows \in Seq(AnyFixture(setting.n)) /\ k \in DOMAIN rows /\ rows[k].away # NoTeam
      BY <1>3, <3>1 DEF NewRound
    <3>3. rows[k] \in AnyFixture(setting.n)
      BY <3>2
    <3> QED
      BY <3>1, <3>2, <3>3
  <2>2. SeedPlan[k].home # NoTeam
    BY <2>1 DEF AnyFixture, NoTeam
  <2> QED
    BY <2>1, <2>2 DEF Pair
<1>5. ASSUME NEW t
      PROVE  t \in PlanTeams(SeedPlan) <=> t \in Qualified
  <2>1. ASSUME t \in PlanTeams(SeedPlan) PROVE t \in Qualified
    <3>1. PICK k \in 1 .. G : t = SeedPlan[k].home \/ t = SeedPlan[k].away
      BY <1>3, <1>4, <2>1 DEF PlanTeams
    <3>2. PICK h : h = (G + 1) - k
      OBVIOUS
    <3>3. h \in 1 .. G /\ (t = GroupTables[k][1] \/ t = GroupTables[h][2])
      BY <1>3, <3>1, <3>2
    <3> QED
      BY <1>1, <3>1, <3>3 DEF Qualified
  <2>2. ASSUME t \in Qualified PROVE t \in PlanTeams(SeedPlan)
    <3>1. PICK g \in 1 .. G, i \in {1, 2} : t = GroupTables[g][i]
      BY <1>1, <2>2 DEF Qualified
    <3>2. PICK h : h = (G + 1) - g
      OBVIOUS
    <3>3. h \in 1 .. G /\ (G + 1) - h = g
      BY <1>2, <3>2
    <3>4. SeedPlan[g].home = GroupTables[g][1] /\ SeedPlan[h].away = GroupTables[g][2]
      BY <1>3, <3>3
    <3>5. t \in Pair(SeedPlan[g]) \/ t \in Pair(SeedPlan[h])
      BY <1>4, <3>1, <3>3, <3>4
    <3> QED
      BY <1>3, <3>3, <3>5 DEF PlanTeams
  <2> QED
    BY <2>1, <2>2
<1> QED
  BY <1>5

\* At the draw there is no knockout round.
LEMMA SeededInit ==
    ASSUME Init, setting.format = "group_knockout"
    PROVE  SeededInv
<1>1. setting \in Settings /\ fixtures = DrawnRows /\ pc = [w \in Workers |-> "idle"]
  BY DEF Init, DrawnRows
<1>2. DrawnFor(DrawnRows, setting)
  BY <1>1, SettingIsDrawn DEF DrawnRows
<1>3. \A k \in DOMAIN fixtures : fixtures[k].group # 0
  BY <1>1, <1>2 DEF DrawnFor, NumGroups
<1>4. RoundRows(1) = {}
  BY <1>3 DEF RoundRows
<1> QED
  BY <1>1, <1>4 DEF SeededInv, Seeds

\* The group stage is over when there is a knockout round.
LEMMA GroupsAreOver ==
    ASSUME PlayInv, RoundsInv, RoundRows(1) # {}
    PROVE  GroupDone
<1>1. PICK j \in DOMAIN fixtures : fixtures[j].group = 0
  BY DEF RoundRows
<1> QED
  BY <1>1 DEF RoundsInv, BracketInv, Before, GroupDone

\* Fixtures that stay the same qualify the same teams.
LEMMA SeededKept ==
    ASSUME SeededInv, fixtures' = fixtures, setting' = setting
    PROVE  /\ RoundRows(1)' # {} => RoundTeams(1)' = Qualified'
           /\ Qualified' = Qualified
<1>1. Qualified' = Qualified
  BY QualifiedStay
<1>2. RoundRows(1)' = RoundRows(1) /\ RoundTeams(1)' = RoundTeams(1)
  BY DEF RoundRows, RoundTeams
<1> QED
  BY <1>1, <1>2 DEF SeededInv

\* After the seeding no score of a group is entered, without corrections.
LEMMA SeededSaveScore ==
    ASSUME PlayInv, RoundsInv, HoldsInv, SeededInv, OneThread, NEW w \in Workers, SaveScore(w)
    PROVE  SeededInv'
<1> DEFINE i == want[w][1]
<1>1. /\ SavedAt(i) /\ pc[w] = "save" /\ pc' = [pc EXCEPT ![w] = "pending"]
      /\ setting' = setting
  BY ScoreIsSaved
<1>2. ~ fixtures[i].done
  BY <1>1 DEF HoldsInv, Carries, Trigger
<1>3. /\ i \in DOMAIN fixtures /\ DOMAIN fixtures' = DOMAIN fixtures
      /\ \A k \in DOMAIN fixtures :
            /\ SameMatch(fixtures'[k], fixtures[k])
            /\ k # i => fixtures'[k] = fixtures[k]
  BY <1>1 DEF SavedAt
<1>4. RoundRows(1)' = RoundRows(1)
  BY <1>3 DEF RoundRows, SameMatch
<1>5. RoundTeams(1)' = RoundTeams(1)
  <2>1. \A k \in DOMAIN fixtures : Pair(fixtures'[k]) = Pair(fixtures[k])
    BY <1>3 DEF Pair, SameMatch
  <2>2. \A k \in RoundRows(1) : Pair(fixtures'[k]) = Pair(fixtures[k])
    BY <2>1 DEF RoundRows
  <2> QED
    BY <1>4, <2>2 DEF RoundTeams
<1>6. ASSUME RoundRows(1) # {}
      PROVE  Qualified' = Qualified
  <2>1. GroupDone
    BY <1>6, GroupsAreOver
  <2>2. ASSUME NEW k \in DOMAIN fixtures, fixtures[k].group # 0 \/ fixtures'[k].group # 0
        PROVE  fixtures'[k] = fixtures[k]
    <3>1. fixtures[k].done
      BY <1>3, <2>1, <2>2 DEF GroupDone, SameMatch
    <3> QED
      BY <1>2, <1>3, <3>1
  <2> QED
    BY <1>1, <1>3, <2>2, QualifiedStay
<1>7. Seeds(w)' /\ Goto(w, "pending")
  BY <1>1 DEF Seeds, Goto, PlayInv, RequestsInv
<1> QED
  BY <1>1, <1>4, <1>5, <1>6, <1>7, OnlyOneSeeds DEF SeededInv

\* The round that is added first has the teams that were seeded.
LEMMA SeededCreateRound ==
    ASSUME PlayInv, RoundsInv, SeededInv, OneThread, NEW w \in Workers, CreateRound(w)
    PROVE  SeededInv'
<1>1. PICK r, L, q : r = NextRound(Trigger(w)) /\ L = Len(fixtures) /\ q = Len(plan[w])
  OBVIOUS
<1>2. IsAdded(w, r, L, q)
  BY <1>1, RoundsCreateRound
<1>3. /\ pc[w] = "create" /\ Goto(w, "idle") /\ pc'[w] = "idle" /\ Request(w)
      /\ setting' = setting
      /\ AppendedTo(w)
  BY RoundIsCreated
<1>4. Qualified' = Qualified
  <2>1. /\ \A k \in DOMAIN fixtures : k \in DOMAIN fixtures' /\ fixtures'[k] = fixtures[k]
        /\ DOMAIN plan[w] = 1 .. q
        /\ \A k \in DOMAIN fixtures' : k \notin DOMAIN fixtures =>
              \E i \in DOMAIN plan[w] : k = Len(fixtures) + i /\ fixtures'[k] = plan[w][i]
    BY <1>1, <1>3 DEF AppendedTo
  <2>2. \A i \in 1 .. q : plan[w][i].group = 0
    BY <1>2 DEF IsAdded
  <2> QED
    BY <1>3, <2>1, <2>2, QualifiedStay
<1>5. CASE Trigger(w).group # 0
  <2>1. r = 1 /\ RoundTeams(1)' = PlanTeams(plan[w])
    BY <1>1, <1>5, CreatedTeams DEF NextRound
  <2>2. PlanTeams(plan[w]) = Qualified
    BY <1>3, <1>5 DEF SeededInv, Seeds
  <2>3. Seeds(w)'
    BY <1>3 DEF Seeds
  <2> QED
    BY <1>3, <1>4, <2>1, <2>2, <2>3, OnlyOneSeeds DEF SeededInv
<1>6. CASE Trigger(w).group = 0
  <2>1. want[w][1] \in DOMAIN fixtures /\ Trigger(w) = fixtures[want[w][1]]
    BY <1>3 DEF Request, Trigger
  <2>2. Trigger(w).round \in Nat \ {0}
    BY <2>1, RowsAreFresh DEF AnyFixture
  <2>3. r # 1
    BY <1>1, <1>6, <2>2 DEF NextRound
  <2>4. RoundRows(1)' = RoundRows(1)
    BY <1>2, <2>3 DEF IsAdded
  <2>5. \A k \in RoundRows(1) : fixtures'[k] = fixtures[k]
    BY <1>3 DEF AppendedTo, RoundRows
  <2>6. RoundTeams(1)' = RoundTeams(1)
    BY <2>4, <2>5 DEF RoundTeams
  <2>7. Seeds(w)'
    BY <1>3 DEF Seeds
  <2> QED
    BY <1>3, <1>4, <2>4, <2>6, <2>7, OnlyOneSeeds DEF SeededInv
<1> QED
  BY <1>5, <1>6

\* The plan has the teams that are qualified.
LEMMA SeededSeedKnockout ==
    ASSUME PlayInv, SeededInv, OneThread, NEW w \in Workers, SeedKnockout(w)
    PROVE  SeededInv'
<1>1. /\ pc[w] = "winners"
      /\ \/ EnoughTeams /\ plan' = [plan EXCEPT ![w] = SeedPlan] /\ Goto(w, "create")
         \/ ~ EnoughTeams /\ plan' = plan /\ Goto(w, "idle")
      /\ UNCHANGED << setting, status, fixtures, want >>
  BY SeedKnockoutSteps
<1>2. PICK label : Goto(w, label)
  BY <1>1
<1>3. Qualified' = Qualified
  BY <1>1, SeededKept
<1>4. Seeds(w)'
  <2>1. CASE EnoughTeams
    <3>1. plan'[w] = SeedPlan
      BY <1>1, <2>1 DEF PlayInv, RequestsInv
    <3>2. PlanTeams(SeedPlan) = Qualified
      BY <2>1, QualifiedAreSeeded
    <3>3. PlanTeams(plan[w])' = Qualified'
      BY <1>3, <3>1, <3>2 DEF PlanTeams
    <3> QED
      BY <3>3 DEF Seeds
  <2>2. CASE ~ EnoughTeams
    <3>1. pc'[w] = "idle"
      BY <1>1, <2>2 DEF Goto, PlayInv, RequestsInv
    <3> QED
      BY <3>1 DEF Seeds
  <2> QED
    BY <2>1, <2>2
<1> QED
  BY <1>1, <1>2, <1>4, SeededKept, OnlyOneSeeds DEF SeededInv

\* Every step but a correction keeps the qualified teams in the first round.
LEMMA SeededStep ==
    ASSUME PlayInv, RoundsInv, HoldsInv, SeededInv, OneThread, [Next]_vars
    PROVE  SeededInv'
<1>1. ASSUME NEW w \in Workers, w \in setting.threads \/ pc[w] # "idle", NEW label,
             Goto(w, label), label = "create" => Trigger(w)'.group = 0,
             UNCHANGED << setting, fixtures >>
      PROVE  SeededInv'
  <2>1. pc'[w] = label
    BY <1>1 DEF Goto, PlayInv, RequestsInv
  <2>2. Seeds(w)'
    BY <1>1, <2>1 DEF Seeds
  <2> QED
    BY <1>1, <2>2, SeededKept, OnlyOneSeeds DEF SeededInv
<1>2. ASSUME UNCHANGED << setting, fixtures, pc, want, plan >>
      PROVE  SeededInv'
  <2>1. Qualified' = Qualified
    BY <1>2, SeededKept
  <2>2. \A w \in Workers : Seeds(w)'
    BY <1>2, <2>1 DEF SeededInv, Seeds, Trigger, PlanTeams
  <2> QED
    BY <1>2, <2>2, SeededKept DEF SeededInv
<1>3. ASSUME NEW w \in Workers,
             CheckInProgress(w) \/ CheckRoundDone(w) \/ CheckNextRound(w) \/ Finish(w) \/ Crash(w)
      PROVE  SeededInv'
  <2>1. /\ w \in setting.threads \/ pc[w] # "idle"
        /\ UNCHANGED << setting, fixtures >>
        /\ \E label \in {"save", "exists", "winners", "idle"} : Goto(w, label)
    BY <1>3 DEF CheckInProgress, CheckRoundDone, CheckNextRound, Finish, Crash
  <2> QED
    BY <1>1, <2>1
<1>4. ASSUME NEW w \in Workers, ReadWinners(w)
      PROVE  SeededInv'
  <2>1. /\ pc[w] = "winners" /\ Trigger(w).group = 0
        /\ UNCHANGED << setting, fixtures, want >>
        /\ \E label : Goto(w, label)
    BY <1>4 DEF ReadWinners
  <2>2. Trigger(w)' = Trigger(w)
    BY <2>1 DEF Trigger
  <2> QED
    BY <1>1, <2>1, <2>2
<1>5. CASE UNCHANGED vars
  BY <1>2, <1>5 DEF vars
<1>6. CASE Complete
  BY <1>2, <1>6 DEF Complete
<1> QED
  BY <1>3, <1>4, <1>5, <1>6, SeededSaveScore, SeededSeedKnockout, SeededCreateRound
     DEF Next, WorkerStep

QualifiersInv == GroupKnockout => SeededInv

\* The invariant of the qualified teams.
LEMMA QualifiersAreKept == Spec => [](PlayInv /\ SerialInv /\ QualifiersInv)
<1>1. Init => QualifiersInv
  BY SeededInit DEF QualifiersInv, GroupKnockout
<1>2. PlayInv /\ SerialInv /\ WinnersInv /\ QualifiersInv /\ [Next]_vars => QualifiersInv'
  <2> SUFFICES ASSUME PlayInv, SerialInv, WinnersInv, QualifiersInv, [Next]_vars, GroupKnockout'
               PROVE  SeededInv'
    BY DEF QualifiersInv
  <2>1. GroupKnockout
    BY SettingStays DEF GroupKnockout, Uncorrected, Serial, HasRounds, OneThread
  <2>2. SeededInv /\ HoldsInv /\ RoundsInv /\ OneThread
    BY <2>1 DEF QualifiersInv, WinnersInv, SerialInv, GroupKnockout, Uncorrected, Serial
  <2> QED
    BY <2>2, SeededStep
<1> QED
  BY <1>1, <1>2, WinnersAreKept, PTL DEF Spec

\* The first two of a group's table have at least the points of those below.
LEMMA FirstTwo ==
    ASSUME PlayInv, setting.format = "group_knockout", GroupDone,
           NEW g \in 1 .. NumGroups(setting.n), NEW i \in {1, 2},
           NEW u \in Keys(setting.n, g), u # GroupTables[g][1], u # GroupTables[g][2],
           NEW t, t = GroupTables[g][i], NEW table, table = GroupRows(g)
    PROVE  \/ Points(t, table) > Points(u, table)
           \/ Points(t, table) = Points(u, table) /\ Difference(t, table) >= Difference(u, table)
<1>1. Counted(table) = table /\ Ranked(table) = Keys(setting.n, g)
  BY AllAreRanked
<1>2. PICK order, c : order = GroupTables[g] /\ c = Cardinality(Ranked(table))
  OBVIOUS
<1>3. SortedBy(order, table, Name) /\ TableOf(table, 1 .. setting.n)
  BY <1>1, <1>2, GroupTablesAreSorted
<1>4. \A v \in 1 .. setting.n : Name[v] \in Int
  BY NameAssumption DEF PlayInv, RequestsInv
<1>5. /\ c \in Nat /\ order \in [1 .. c -> Ranked(table)]
      /\ \E k \in 1 .. c : order[k] = u
      /\ \A j, k \in 1 .. c :
            j < k => Precedes(KeyOf(order[j], table, Name), KeyOf(order[k], table, Name))
  BY <1>1, <1>2, <1>3 DEF SortedBy, Bijection, Injection, Surjection
<1>6. PICK k \in 1 .. c : order[k] = u
  BY <1>5
<1>7. k # 1 /\ k # 2
  BY <1>2, <1>6
<1>8. i \in 1 .. c /\ i < k
  BY <1>5, <1>7
<1>9. t = order[i] /\ t \in Ranked(table) /\ u \in Ranked(table)
  BY <1>1, <1>2, <1>5, <1>8
<1>10. PICK a, b, m, o : /\ a = KeyOf(t, table, Name) /\ b = KeyOf(u, table, Name)
                         /\ m = MiniTable(t, table) /\ o = MiniTable(u, table)
  OBVIOUS
<1>11. KeyIs(a, t, table, m) /\ KeyIs(b, u, table, o)
  <2>1. /\ KeyIs(KeyOf(t, table, Name), t, table, MiniTable(t, table))
        /\ KeyIs(KeyOf(u, table, Name), u, table, MiniTable(u, table))
    BY <1>3, <1>4, <1>9, KeyOfTeam
  <2> QED
    BY <1>10, <2>1
<1>12. Precedes(a, b)
  BY <1>5, <1>6, <1>8, <1>9, <1>10
<1>13. \/ Points(t, table) > Points(u, table)
       \/ /\ Points(t, table) = Points(u, table)
          /\ Difference(t, table) > Difference(u, table) \/ Difference(t, table) = Difference(u, table)
  BY <1>11, <1>12, SmallerKey
<1>14. Difference(t, table) \in Int /\ Difference(u, table) \in Int
  BY <1>11 DEF KeyIs
<1> QED
  BY <1>13, <1>14

\* Two of each group play in the knockout stage, and nobody who stays behind
\* has more points, or as many points and a better goal difference, while
\* requests do not overlap and no score is corrected.
THEOREM BestOfGroups == Spec => []BestTwoAdvance
<1>1. ASSUME PlayInv, SerialInv, QualifiersInv
      PROVE  BestTwoAdvance
  <2> SUFFICES ASSUME setting.format = "group_knockout", OneThread, ~ setting.corrections,
                      DOMAIN KnockoutRound(1) # {}, NEW x \in Fields,
                      NEW table, table = RestrictValues(fixtures, LAMBDA f : f.group = x.group),
                      NEW through, through = x.teams \cap TeamsOf(KnockoutRound(1))
               PROVE  /\ Cardinality(through) = 2
                      /\ \A t \in through, u \in x.teams \ through :
                            \/ Points(t, table) > Points(u, table)
                            \/ /\ Points(t, table) = Points(u, table)
                               /\ Difference(t, table) >= Difference(u, table)
    BY DEF BestTwoAdvance
  <2>1. RoundsInv /\ SeededInv
    BY <1>1 DEF SerialInv, Serial, HasRounds, QualifiersInv, GroupKnockout, Uncorrected
  <2>2. RoundRows(1) # {}
    BY RoundIsRows
  <2>3. GroupDone /\ EnoughTeams
    BY <1>1, <2>1, <2>2, GroupsAreOver, PlayedGroupsSuffice
  <2>4. TeamsOf(KnockoutRound(1)) = Qualified
    <3>1. /\ DOMAIN KnockoutRound(1) = RoundRows(1)
          /\ \A l \in RoundRows(1) : KnockoutRound(1)[l] = fixtures[l]
      BY RoundIsRows
    <3>2. {Pair(f) : f \in Range(KnockoutRound(1))} = {Pair(fixtures[l]) : l \in RoundRows(1)}
      BY <3>1 DEF Range
    <3>3. TeamsOf(KnockoutRound(1)) = RoundTeams(1)
      BY <3>2 DEF TeamsOf, RoundTeams
    <3> QED
      BY <2>1, <2>2, <3>3 DEF SeededInv
  <2>5. setting.n \in Nat /\ setting.n >= 8
    BY <1>1, GroupSizeIsLarge DEF PlayInv, RequestsInv
  <2>6. PICK g \in 1 .. NumGroups(setting.n) : x.group = g /\ x.teams = Keys(setting.n, g)
    <3>1. PICK g \in 1 .. NumGroups(setting.n) :
            x = [group |-> g, teams |-> Range(GroupTeams(setting.n, g))]
      BY DEF Fields
    <3>2. Range(GroupTeams(setting.n, g)) = Keys(setting.n, g)
      BY <2>5, GroupsAreFilled
    <3> QED
      BY <3>1, <3>2
  <2>7. PICK a, b : a = GroupTables[g][1] /\ b = GroupTables[g][2]
    OBVIOUS
  <2>8. \A h \in 1 .. NumGroups(setting.n) :
           /\ GroupTables[h][1] \in Keys(setting.n, h) /\ GroupTables[h][2] \in Keys(setting.n, h)
           /\ GroupTables[h][1] # GroupTables[h][2]
    BY <1>1, <2>3, SeededApart
  <2>9. \A h \in 1 .. NumGroups(setting.n) :
           h # g => Keys(setting.n, h) \cap Keys(setting.n, g) = {}
    BY DEF Keys, NumGroups
  <2>10. through = {a, b}
    <3>1. Qualified \cap Keys(setting.n, g) = {a, b}
      BY <2>7, <2>8, <2>9 DEF Qualified
    <3> QED
      BY <2>4, <2>6, <3>1
  <2>11. Cardinality(through) = 2
    <3>1. a # b /\ IsFiniteSet({a, b})
      <4>1. IsFiniteSet(Keys(setting.n, g)) /\ {a, b} \in SUBSET Keys(setting.n, g)
        BY <2>5, <2>7, <2>8, GroupsAreFilled
      <4> QED
        BY <2>7, <2>8, <4>1, FS_Subset
    <3>2. {a, b} \in kSubset(2, {a, b})
      BY <3>1, PairsAreTwo
    <3> QED
      BY <2>10, <3>2 DEF kSubset
  <2>12. table = GroupRows(g)
    BY <2>6 DEF GroupRows
  <2>13. ASSUME NEW t \in through, NEW u \in x.teams \ through
         PROVE  \/ Points(t, table) > Points(u, table)
                \/ /\ Points(t, table) = Points(u, table)
                   /\ Difference(t, table) >= Difference(u, table)
    <3>1. u \in Keys(setting.n, g) /\ u # GroupTables[g][1] /\ u # GroupTables[g][2]
      BY <2>6, <2>7, <2>10
    <3>2. PICK i \in {1, 2} : t = GroupTables[g][i]
      BY <2>7, <2>10
    <3> QED
      BY <1>1, <2>3, <2>12, <3>1, <3>2, FirstTwo
  <2> QED
    BY <2>11, <2>13
<1> QED
  BY <1>1, QualifiersAreKept, PTL
===============================================================================
