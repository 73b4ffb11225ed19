----------------------------- MODULE Registration -----------------------------
(***************************************************************************)
(* The life of one tournament up to its fixtures: the owner's requests of  *)
(* src/api/v1/tournaments/views_owner.py and the players' requests of      *)
(* views_registration.py in the same directory.                            *)
(*                                                                         *)
(* Every owner request reads the tournament without a lock, checks its     *)
(* status and writes later; only TeamRegisterView locks the row and reads  *)
(* it again.  An UPDATE or DELETE waits while a registration holds the     *)
(* row.  Views run in autocommit mode, so a read and a later write of one  *)
(* request are two transactions unless transaction.atomic joins them.      *)
(***************************************************************************)
EXTENDS Naturals, Sequences, FiniteSets

CONSTANTS
    Players,
    Clients,        \* request threads that serve players
    Owners,         \* request threads that serve the organizer
    Caps,           \* the values of max_teams an owner may enter
    ValidCounts,    \* the team counts the format accepts (validate_team_count)
    NoOne           \* the null reference

TournamentStatus == { "draft", "open", "closed", "in_progress", "completed" }

\* The row is gone after destroy().
Deleted == "deleted"

ASSUME CapsAssumption == Caps \subseteq Nat \ {0, 1} /\ Caps # {}

ASSUME CountsAssumption == ValidCounts \subseteq Nat \ {0, 1}

ASSUME ThreadsAssumption ==
    Clients \cap Owners = {} /\ NoOne \notin Clients \cup Players

VARIABLES
    status,         \* Tournament.status
    cap,            \* Tournament.max_teams
    teams,          \* the captains of the teams, in the order of registered_at
    members,        \* TournamentPlayer: pairs of a team's position and a player
    generated,      \* per call of generate_fixtures: how many teams it read
    rowLock,        \* the client that holds the tournament's row
    pc,             \* the next statement of every thread
    player,         \* request.user of a client
    team,           \* the team a client joins
    read,           \* the status an owner's thread read before an edit
    count           \* the number of teams an owner's thread read

vars == << status, cap, teams, members, generated, rowLock, pc, player, team, read, count >>

tournament == << status, cap, teams, members, generated >>

Threads == Clients \cup Owners

Init ==
    /\ status = "draft"
    /\ cap \in Caps
    /\ teams = << >>
    /\ members = {}
    /\ generated = << >>
    /\ rowLock = NoOne
    /\ pc = [t \in Threads |-> "idle"]
    /\ player = [c \in Clients |-> NoOne]
    /\ team = [c \in Clients |-> 0]
    /\ read = [o \in Owners |-> "draft"]
    /\ count = [o \in Owners |-> 0]

Goto(t, label) == pc' = [pc EXCEPT ![t] = label]

InSomeTeam(p) == \E k \in DOMAIN teams : << k, p >> \in members

-----------------------------------------------------------------------------
(* TeamRegisterView *)

\* The unlocked check; any other status answers 400 and changes nothing.
BeginRegister(c) ==
    /\ pc[c] = "idle"
    /\ status = "open"
    /\ \E p \in Players : player' = [player EXCEPT ![c] = p]
    /\ Goto(c, "lock")
    /\ UNCHANGED << tournament, rowLock, team, read, count >>

\* Not the code: a plain SELECT, which waits for the row but does not hold it.
LockNothing(c) ==
    /\ pc[c] = "lock"
    /\ rowLock = NoOne
    /\ Goto(c, IF status = Deleted THEN "idle" ELSE "check")
    /\ UNCHANGED << tournament, rowLock, player, team, read, count >>

\* SELECT ... FOR UPDATE; a row that was deleted meanwhile raises.
LockTournament(c) ==
    /\ pc[c] = "lock"
    /\ rowLock = NoOne
    /\ IF status = Deleted
       THEN Goto(c, "idle") /\ UNCHANGED rowLock
       ELSE Goto(c, "check") /\ rowLock' = c
    /\ UNCHANGED << tournament, player, team, read, count >>

\* Not the code: the status of the first, unlocked read is trusted.
MayRegisterStale(p) == Len(teams) < cap /\ ~ InSomeTeam(p)

\* Not the code: nobody asks whether the player is in a team already.
MayRegisterAgain(p) == status = "open" /\ Len(teams) < cap

MayRegister(p) == status = "open" /\ Len(teams) < cap /\ ~ InSomeTeam(p)

\* The three checks under the row lock.
CheckRegister(c) ==
    /\ pc[c] = "check"
    /\ IF MayRegister(player[c])
       THEN Goto(c, "insert") /\ UNCHANGED rowLock
       ELSE Goto(c, "idle") /\ rowLock' = NoOne
    /\ UNCHANGED << tournament, player, team, read, count >>

\* Not the code: a full tournament stays open.
CommitTeamLeavesOpen(c) ==
    /\ pc[c] = "insert"
    /\ teams' = Append(teams, player[c])
    /\ members' = members \cup {<< Len(teams) + 1, player[c] >>}
    /\ rowLock' = NoOne
    /\ Goto(c, "idle")
    /\ UNCHANGED << status, cap, generated, player, team, read, count >>

\* The team, its captain's membership and the automatic close, in one commit.
CommitTeam(c) ==
    /\ pc[c] = "insert"
    /\ teams' = Append(teams, player[c])
    /\ members' = members \cup {<< Len(teams) + 1, player[c] >>}
    /\ status' = IF Len(teams) + 1 >= cap THEN "closed" ELSE status
    /\ rowLock' = NoOne
    /\ Goto(c, "idle")
    /\ UNCHANGED << cap, generated, player, team, read, count >>

-----------------------------------------------------------------------------
(* TeamJoinView: no lock at all *)

BeginJoin(c) ==
    /\ pc[c] = "idle"
    /\ status = "open"
    /\ \E p \in Players, k \in DOMAIN teams :
          /\ player' = [player EXCEPT ![c] = p]
          /\ team' = [team EXCEPT ![c] = k]
    /\ Goto(c, "join_check")
    /\ UNCHANGED << tournament, rowLock, read, count >>

CheckJoin(c) ==
    /\ pc[c] = "join_check"
    /\ Goto(c, IF InSomeTeam(player[c]) THEN "idle" ELSE "join")
    /\ UNCHANGED << tournament, rowLock, player, team, read, count >>

\* unique_together refuses a pair that is there, the foreign key a lost team.
CommitJoin(c) ==
    /\ pc[c] = "join"
    /\ members' = IF team[c] \in DOMAIN teams
                  THEN members \cup {<< team[c], player[c] >>}
                  ELSE members
    /\ Goto(c, "idle")
    /\ UNCHANGED << status, cap, teams, generated, rowLock, player, team, read, count >>

-----------------------------------------------------------------------------
(* The owner's requests.  Before(o, s, l): the unlocked read finds the      *)
(* tournament in a status of s and the request goes on at l.                *)

Before(o, statuses, label) ==
    /\ pc[o] = "idle"
    /\ status \in statuses
    /\ Goto(o, label)
    /\ UNCHANGED << tournament, rowLock, player, team, read, count >>

\* save(update_fields=["status", "updated_at"]) raises if the row is gone.
SaveStatus(o, label, new) ==
    /\ pc[o] = label
    /\ rowLock = NoOne
    /\ status' = IF status = Deleted THEN Deleted ELSE new
    /\ Goto(o, "idle")
    /\ UNCHANGED << cap, teams, members, rowLock, player, team, read, count >>

CheckPublish(o) == Before(o, {"draft"}, "publish")

CommitPublish(o) == SaveStatus(o, "publish", "open") /\ UNCHANGED generated

CheckComplete(o) == Before(o, {"in_progress"}, "complete")

CommitComplete(o) == SaveStatus(o, "complete", "completed") /\ UNCHANGED generated

\* update(): the check reads the tournament, super().update() reads it again
\* and saves every field of what it read then.
CheckEdit(o) == Before(o, {"draft"}, "edit")

ReadForEdit(o) ==
    /\ pc[o] = "edit"
    /\ IF status = Deleted
       THEN Goto(o, "idle") /\ UNCHANGED read
       ELSE Goto(o, "save") /\ read' = [read EXCEPT ![o] = status]
    /\ UNCHANGED << tournament, rowLock, player, team, count >>

CommitEdit(o) ==
    /\ pc[o] = "save"
    /\ rowLock = NoOne
    /\ cap' \in Caps
    /\ status' = read[o]
    /\ read' = [read EXCEPT ![o] = "draft"]
    /\ Goto(o, "idle")
    /\ UNCHANGED << teams, members, generated, rowLock, player, team, count >>

\* destroy(): the check, then the row and all that refers to it; a team that
\* a request has read before is nowhere any more.
CheckDestroy(o) == Before(o, {"draft"}, "destroy")

CommitDestroy(o) ==
    /\ pc[o] = "destroy"
    /\ rowLock = NoOne
    /\ status' = Deleted
    /\ teams' = << >>
    /\ members' = {}
    /\ generated' = << >>
    /\ team' = [c \in Clients |-> 0]
    /\ Goto(o, "idle")
    /\ UNCHANGED << cap, rowLock, player, read, count >>

\* TournamentCloseRegistrationView
\* Not the code: a tournament in progress may be closed once more.
ClosableAgain == {"open", "closed", "in_progress"}

Closable == {"open", "closed"}

CheckClose(o) == Before(o, Closable, "validate")

ValidateCount(o) ==
    /\ pc[o] = "validate"
    /\ Goto(o, IF Len(teams) \in ValidCounts THEN "generate" ELSE "idle")
    /\ UNCHANGED << tournament, rowLock, player, team, read, count >>

\* generate_fixtures reads the teams once more and refuses a wrong count.
ReadTeams(o) ==
    /\ pc[o] = "generate"
    /\ IF Len(teams) \in ValidCounts
       THEN Goto(o, "start") /\ count' = [count EXCEPT ![o] = Len(teams)]
       ELSE Goto(o, "idle") /\ UNCHANGED count
    /\ UNCHANGED << tournament, rowLock, player, team, read >>

\* The fixtures and the new status, in one commit.
CommitStart(o) ==
    /\ pc[o] = "start"
    /\ rowLock = NoOne
    /\ status' = IF status = Deleted THEN Deleted ELSE "in_progress"
    /\ generated' = IF status = Deleted THEN generated ELSE Append(generated, count[o])
    /\ count' = [count EXCEPT ![o] = 0]
    /\ Goto(o, "idle")
    /\ UNCHANGED << cap, teams, members, rowLock, player, team, read >>

-----------------------------------------------------------------------------
ClientStep(c) ==
    \/ BeginRegister(c) \/ LockTournament(c) \/ CheckRegister(c) \/ CommitTeam(c)
    \/ BeginJoin(c) \/ CheckJoin(c) \/ CommitJoin(c)

OwnerStep(o) ==
    \/ CheckPublish(o) \/ CommitPublish(o)
    \/ CheckEdit(o) \/ ReadForEdit(o) \/ CommitEdit(o)
    \/ CheckDestroy(o) \/ CommitDestroy(o)
    \/ CheckClose(o) \/ ValidateCount(o) \/ ReadTeams(o) \/ CommitStart(o)
    \/ CheckComplete(o) \/ CommitComplete(o)

Next == (\E c \in Clients : ClientStep(c)) \/ (\E o \in Owners : OwnerStep(o))

Spec == Init /\ [][Next]_vars

-----------------------------------------------------------------------------
(* Properties *)

TypeOK ==
    /\ status \in TournamentStatus \cup {Deleted}
    /\ cap \in Caps
    /\ teams \in Seq(Players)
    /\ members \subseteq (Nat \ {0}) \X Players
    /\ generated \in Seq(ValidCounts)
    /\ rowLock \in Clients \cup {NoOne}
    /\ pc \in [Threads -> {"idle", "lock", "check", "insert", "join_check", "join",
                          "publish", "complete", "edit", "save", "destroy",
                          "validate", "generate", "start"}]
    /\ player \in [Clients -> Players \cup {NoOne}]
    /\ team \in [Clients -> Nat]
    /\ read \in [Owners -> TournamentStatus]
    /\ count \in [Owners -> ValidCounts \cup {0}]

\* No player registers two teams, however many of the player's requests run
\* at once: the second finds the first one's membership under the row lock.
OneTeamRegistered ==
    \A i, j \in DOMAIN teams : teams[i] = teams[j] => i = j

\* However many teams register at once, a tournament never has more than
\* max_teams.
Capacity == Len(teams) <= cap

\* The registration that fills a tournament closes it: while it is open there
\* is room for another team.
OpenMeansRoom == status = "open" => Len(teams) < cap

\* A team enters only while registration is open, although the view looked at
\* the status before it waited for the row (the re-check under the lock).
RegisteredWhileOpen ==
    [][Len(teams') > Len(teams) => status = "open"]_vars

\* Requests of the organizer do not overlap.
OneRequestAtATime == \A o, u \in Owners : o = u

\* How far a tournament has come. Open and closed are one stage: the phase
\* document lets the owner close registration and open it again, although no
\* view reopens it.
Stage(s) ==
    CASE s = "draft" -> 0
      [] s \in {"open", "closed"} -> 1
      [] s = "in_progress" -> 2
      [] s = "completed" -> 3

\* While the requests of the organizer do not overlap, nothing a request wrote
\* is taken back: the team that closes a full tournament after waiting for its
\* row does not undo a start, the save of an edited draft does not undo a
\* publish, and only a draft is deleted.
NeverTakenBack ==
    [][OneRequestAtATime /\ status' # status =>
         IF status' = Deleted
         THEN status = "draft"
         ELSE status # Deleted /\ Stage(status) <= Stage(status')]_vars

\* generate_fixtures runs at most once per tournament (its docstring).
CalledOnce == Len(generated) <= 1

\* Fixtures are generated once, by the request that starts the tournament.
GeneratedOnce ==
    /\ CalledOnce
    /\ generated # << >> <=> status \in {"in_progress", "completed"}

-----------------------------------------------------------------------------
(* Inductive invariants *)

\* What a thread read before is what the checks let it read.
ReadBefore ==
    /\ \A c \in Clients : pc[c] # "idle" => player[c] \in Players
    /\ \A o \in Owners : pc[o] = "start" => count[o] \in ValidCounts

RowHeldInTransaction ==
    \A c \in Clients : pc[c] \in {"check", "insert"} <=> rowLock = c

\* Under the row lock the checks stay true until the commit.
CheckedUnderLock ==
    \A c \in Clients :
        pc[c] = "insert" =>
            /\ status = "open"
            /\ Len(teams) < cap
            /\ \A k \in DOMAIN teams : teams[k] # player[c]

CaptainsPlay == \A k \in DOMAIN teams : << k, teams[k] >> \in members

IInv ==
    /\ TypeOK
    /\ ReadBefore
    /\ RowHeldInTransaction
    /\ CheckedUnderLock
    /\ CaptainsPlay
    /\ OneTeamRegistered

\* The status an owner's request has seen is still the status.
StatusStillSeen ==
    \A o \in Owners :
        /\ pc[o] \in {"publish", "edit", "save", "destroy"} => status = "draft"
        /\ pc[o] = "save" => read[o] = "draft"
        /\ pc[o] \in {"validate", "generate", "start"} => status \in {"open", "closed"}
        /\ pc[o] = "complete" => status = "in_progress"

NoTeamsYet == status \in {"draft", Deleted} => teams = << >>

LifeCycle ==
    StatusStillSeen /\ NoTeamsYet /\ Capacity /\ OpenMeansRoom /\ GeneratedOnce

=============================================================================
