-------------------------- MODULE RegistrationProofs --------------------------
(***************************************************************************)
(* Proofs about Registration.  The first invariant holds for any number of *)
(* player and owner threads: it rests on the row lock of a registration.   *)
(* The second needs an organizer whose requests do not overlap, because no *)
(* request of an owner takes a lock.                                       *)
(***************************************************************************)
EXTENDS Registration, TLAPS

\* The invariant holds at the start.
LEMMA InitIInv == Init => IInv
  <1> SUFFICES ASSUME Init PROVE IInv
    OBVIOUS
  <1> USE CapsAssumption, CountsAssumption, ThreadsAssumption
  <1>1. TypeOK
    BY DEF Init, TypeOK, TournamentStatus, Threads
  <1>2. ReadBefore /\ RowHeldInTransaction /\ CheckedUnderLock
    BY DEF Init, ReadBefore, RowHeldInTransaction, CheckedUnderLock, Threads
  <1>3. CaptainsPlay /\ OneTeamRegistered
    BY DEF Init, CaptainsPlay, OneTeamRegistered
  <1> QED
    BY <1>1, <1>2, <1>3 DEF IInv

\* A step of a player's request: a team is only entered by the thread that
\* holds the row, and a member that joins takes nothing away.
LEMMA ClientPreserves ==
  ASSUME IInv, NEW c \in Clients, ClientStep(c)
  PROVE  IInv'
  <1> USE CapsAssumption, CountsAssumption, ThreadsAssumption
          DEF IInv
  <1>1. CASE BeginRegister(c)
    <2> USE <1>1 DEF BeginRegister, Goto, tournament
    <2>1. TypeOK'
      BY DEF TypeOK, Threads
    <2>2. (ReadBefore /\ RowHeldInTransaction /\ CheckedUnderLock)'
      BY DEF TypeOK, Threads, ReadBefore, RowHeldInTransaction, CheckedUnderLock
    <2>3. (CaptainsPlay /\ OneTeamRegistered)'
      BY DEF CaptainsPlay, OneTeamRegistered
    <2> QED
      BY <2>1, <2>2, <2>3
  <1>2. CASE LockTournament(c)
    <2> USE <1>2 DEF LockTournament, Goto, tournament
    <2>1. TypeOK'
      BY DEF TypeOK, Threads
    <2>2. (ReadBefore /\ RowHeldInTransaction /\ CheckedUnderLock)'
      BY DEF TypeOK, Threads, ReadBefore, RowHeldInTransaction, CheckedUnderLock
    <2>3. (CaptainsPlay /\ OneTeamRegistered)'
      BY DEF CaptainsPlay, OneTeamRegistered
    <2> QED
      BY <2>1, <2>2, <2>3
  <1>3. CASE CheckRegister(c)
    <2> USE <1>3 DEF CheckRegister, Goto, tournament
    <2>1. TypeOK'
      BY DEF TypeOK, Threads
    <2>2. (ReadBefore /\ RowHeldInTransaction)'
      BY DEF TypeOK, Threads, ReadBefore, RowHeldInTransaction
    <2>3. MayRegister(player[c]) => \A k \in DOMAIN teams : teams[k] # player[c]
      BY DEF MayRegister, InSomeTeam, CaptainsPlay
    <2>4. CheckedUnderLock'
      BY <2>3 DEF TypeOK, Threads, CheckedUnderLock, MayRegister
    <2>5. (CaptainsPlay /\ OneTeamRegistered)'
      BY DEF CaptainsPlay, OneTeamRegistered
    <2> QED
      BY <2>1, <2>2, <2>4, <2>5
  <1>4. CASE CommitTeam(c)
    <2> USE <1>4 DEF CommitTeam, Goto
    <2>1. player[c] \in Players /\ teams \in Seq(Players) /\ Len(teams) \in Nat
      BY DEF ReadBefore, TypeOK
    <2>2. teams' \in Seq(Players) /\ << Len(teams) + 1, player[c] >> \in (Nat \ {0}) \X Players
      BY <2>1
    <2>3. TypeOK'
      BY <2>2 DEF TypeOK, Threads, TournamentStatus
    <2>4. \A d \in Clients \ {c} : pc[d] \notin {"check", "insert"}
      BY DEF RowHeldInTransaction
    <2>5. (ReadBefore /\ RowHeldInTransaction)'
      BY <2>4 DEF TypeOK, Threads, ReadBefore, RowHeldInTransaction
    <2>6. CheckedUnderLock'
      BY <2>4 DEF TypeOK, Threads, CheckedUnderLock
    <2>7. /\ DOMAIN teams' = DOMAIN teams \cup {Len(teams) + 1}
          /\ \A k \in DOMAIN teams : teams'[k] = teams[k]
          /\ teams'[Len(teams) + 1] = player[c]
      BY <2>1
    <2>8. CaptainsPlay'
      BY <2>7 DEF CaptainsPlay
    <2>9. OneTeamRegistered'
      BY <2>7 DEF OneTeamRegistered, CheckedUnderLock
    <2> QED
      BY <2>3, <2>5, <2>6, <2>8, <2>9
  <1>5. CASE BeginJoin(c)
    <2> USE <1>5 DEF BeginJoin, Goto, tournament
    <2>1. TypeOK'
      BY DEF TypeOK, Threads
    <2>2. (ReadBefore /\ RowHeldInTransaction /\ CheckedUnderLock)'
      BY DEF TypeOK, Threads, ReadBefore, RowHeldInTransaction, CheckedUnderLock
    <2>3. (CaptainsPlay /\ OneTeamRegistered)'
      BY DEF CaptainsPlay, OneTeamRegistered
    <2> QED
      BY <2>1, <2>2, <2>3
  <1>6. CASE CheckJoin(c)
    <2> USE <1>6 DEF CheckJoin, Goto, tournament
    <2>1. TypeOK'
      BY DEF TypeOK, Threads
    <2>2. (ReadBefore /\ RowHeldInTransaction /\ CheckedUnderLock)'
      BY DEF TypeOK, Threads, ReadBefore, RowHeldInTransaction, CheckedUnderLock
    <2>3. (CaptainsPlay /\ OneTeamRegistered)'
      BY DEF CaptainsPlay, OneTeamRegistered
    <2> QED
      BY <2>1, <2>2, <2>3
  <1>7. CASE CommitJoin(c)
    <2> USE <1>7 DEF CommitJoin, Goto
    <2>1. members \subseteq members' /\ members' \subseteq (Nat \ {0}) \X Players
      BY DEF TypeOK, ReadBefore
    <2>2. TypeOK'
      BY <2>1 DEF TypeOK, Threads
    <2>3. (ReadBefore /\ RowHeldInTransaction /\ CheckedUnderLock)'
      BY DEF TypeOK, Threads, ReadBefore, RowHeldInTransaction, CheckedUnderLock
    <2>4. (CaptainsPlay /\ OneTeamRegistered)'
      BY <2>1 DEF CaptainsPlay, OneTeamRegistered
    <2> QED
      BY <2>2, <2>3, <2>4
  <1> QED
    BY <1>1, <1>2, <1>3, <1>4, <1>5, <1>6, <1>7 DEF ClientStep

\* A step of an organizer's request: it writes the tournament's row only while
\* no registration holds it.
LEMMA OwnerPreserves ==
  ASSUME IInv, NEW o \in Owners, OwnerStep(o)
  PROVE  IInv'
  <1> USE CapsAssumption, CountsAssumption, ThreadsAssumption
          DEF IInv
  <1>1. \A c \in Clients : pc'[c] = pc[c]
    BY DEF TypeOK, Threads, OwnerStep, Goto, Before, SaveStatus,
           CheckPublish, CommitPublish, CheckEdit, ReadForEdit, CommitEdit,
           CheckDestroy, CommitDestroy, CheckClose, ValidateCount, ReadTeams,
           CommitStart, CheckComplete, CommitComplete
  <1>2. rowLock' = rowLock /\ player' = player
    BY DEF OwnerStep, Before, SaveStatus,
           CheckPublish, CommitPublish, CheckEdit, ReadForEdit, CommitEdit,
           CheckDestroy, CommitDestroy, CheckClose, ValidateCount, ReadTeams,
           CommitStart, CheckComplete, CommitComplete, tournament
  <1>3. TypeOK'
    <2>1. CASE CheckPublish(o) \/ CheckEdit(o) \/ CheckDestroy(o) \/ CheckClose(o) \/ CheckComplete(o)
      BY <2>1 DEF CheckPublish, CheckEdit, CheckDestroy, CheckClose, CheckComplete,
                  Before, Goto, tournament, TypeOK, Threads
    <2>2. CASE CommitPublish(o) \/ CommitComplete(o)
      BY <2>2 DEF CommitPublish, CommitComplete, SaveStatus, Goto, TypeOK, Threads,
                  TournamentStatus
    <2>3. CASE ReadForEdit(o)
      <3>1. read' \in [Owners -> TournamentStatus]
        BY <2>3 DEF ReadForEdit, TypeOK
      <3> QED
        BY <2>3, <3>1 DEF ReadForEdit, Goto, tournament, TypeOK, Threads
    <2>4. CASE CommitEdit(o)
      BY <2>4 DEF CommitEdit, Goto, TypeOK, Threads, TournamentStatus
    <2>5. CASE CommitDestroy(o)
      BY <2>5 DEF CommitDestroy, Goto, TypeOK, Threads
    <2>6. CASE ValidateCount(o)
      BY <2>6 DEF ValidateCount, Goto, tournament, TypeOK, Threads
    <2>7. CASE ReadTeams(o)
      <3>1. count' \in [Owners -> ValidCounts \cup {0}]
        BY <2>7 DEF ReadTeams, TypeOK
      <3> QED
        BY <2>7, <3>1 DEF ReadTeams, Goto, tournament, TypeOK, Threads
    <2>8. CASE CommitStart(o)
      <3>1. count[o] \in ValidCounts /\ generated \in Seq(ValidCounts)
        BY <2>8 DEF CommitStart, ReadBefore, TypeOK
      <3>2. generated' \in Seq(ValidCounts)
        BY <2>8, <3>1 DEF CommitStart
      <3> QED
        BY <2>8, <3>2 DEF CommitStart, Goto, TypeOK, Threads, TournamentStatus
    <2> QED
      BY <2>1, <2>2, <2>3, <2>4, <2>5, <2>6, <2>7, <2>8 DEF OwnerStep
  <1>4. ReadBefore'
    <2>1. \A c \in Clients : (pc[c] # "idle" => player[c] \in Players)'
      BY <1>1, <1>2 DEF ReadBefore
    <2>2. \A u \in Owners : (pc[u] = "start" => count[u] \in ValidCounts)'
      BY DEF ReadBefore, TypeOK, Threads, OwnerStep, Goto, Before, SaveStatus,
             CheckPublish, CommitPublish, CheckEdit, ReadForEdit, CommitEdit,
             CheckDestroy, CommitDestroy, CheckClose, ValidateCount, ReadTeams,
             CommitStart, CheckComplete, CommitComplete
    <2> QED
      BY <2>1, <2>2 DEF ReadBefore
  <1>5. RowHeldInTransaction'
    BY <1>1, <1>2 DEF RowHeldInTransaction
  <1>6. \/ UNCHANGED << status, cap, teams, members >>
        \/ /\ rowLock = NoOne
           /\ << teams, members >>' = << teams, members >> \/ teams' = << >>
    BY DEF OwnerStep, Before, SaveStatus,
           CheckPublish, CommitPublish, CheckEdit, ReadForEdit, CommitEdit,
           CheckDestroy, CommitDestroy, CheckClose, ValidateCount, ReadTeams,
           CommitStart, CheckComplete, CommitComplete, tournament
  <1>7. CheckedUnderLock'
    BY <1>1, <1>2, <1>6 DEF CheckedUnderLock, RowHeldInTransaction
  <1>8. (CaptainsPlay /\ OneTeamRegistered)'
    BY <1>6 DEF CaptainsPlay, OneTeamRegistered
  <1> QED
    BY <1>3, <1>4, <1>5, <1>7, <1>8

\* Every step keeps it.
LEMMA IInvStep == IInv /\ [Next]_vars => IInv'
  <1> SUFFICES ASSUME IInv, [Next]_vars PROVE IInv'
    OBVIOUS
  <1>1. CASE \E c \in Clients : ClientStep(c)
    BY <1>1, ClientPreserves
  <1>2. CASE \E o \in Owners : OwnerStep(o)
    BY <1>2, OwnerPreserves
  <1>3. CASE UNCHANGED vars
    BY <1>3 DEF vars, IInv, TypeOK, ReadBefore, RowHeldInTransaction,
                CheckedUnderLock, CaptainsPlay, OneTeamRegistered
  <1> QED
    BY <1>1, <1>2, <1>3 DEF Next

\* It holds always.
LEMMA IInvAlways == Spec => []IInv
  BY InitIInv, IInvStep, PTL DEF Spec

\* Every reachable state of a tournament's registration is well typed, for any
\* number of players, teams and threads.
THEOREM TypeCorrect == Spec => []TypeOK
  <1>1. IInv => TypeOK
    BY DEF IInv
  <1> QED
    BY <1>1, IInvAlways, PTL

\* However many requests of players and of the organizer overlap, no player
\* registers two teams: the membership is committed with the team and looked
\* for under the row lock (TeamRegisterView).
THEOREM RegistersOnce == Spec => []OneTeamRegistered
  <1>1. IInv => OneTeamRegistered
    BY DEF IInv
  <1> QED
    BY <1>1, IInvAlways, PTL

\* However many requests overlap, a team enters only while registration is
\* open (the second check of TeamRegisterView, under the row lock).
THEOREM RegistersWhileOpen == Spec => RegisteredWhileOpen
  <1>1. ASSUME IInv, [Next]_vars PROVE Len(teams') > Len(teams) => status = "open"
    <2> USE <1>1, CapsAssumption, ThreadsAssumption
    <2> TypeOK /\ Len(teams) \in Nat
      BY DEF IInv, TypeOK
    <2>1. ASSUME NEW c \in Clients, CommitTeam(c) PROVE status = "open"
      BY <2>1 DEF CommitTeam, IInv, CheckedUnderLock
    <2>2. ASSUME NEW c \in Clients, ClientStep(c), ~ CommitTeam(c)
          PROVE  teams' = teams
      BY <2>2 DEF ClientStep, BeginRegister, LockTournament, CheckRegister,
                  BeginJoin, CheckJoin, CommitJoin, tournament
    <2>3. ASSUME NEW o \in Owners, OwnerStep(o) PROVE teams' = teams \/ teams' = << >>
      BY <2>3 DEF OwnerStep, Before, SaveStatus,
           CheckPublish, CommitPublish, CheckEdit, ReadForEdit, CommitEdit,
           CheckDestroy, CommitDestroy, CheckClose, ValidateCount, ReadTeams,
           CommitStart, CheckComplete, CommitComplete, tournament
    <2>4. (teams' = teams \/ teams' = << >>) => ~ (Len(teams') > Len(teams))
      OBVIOUS
    <2> QED
      BY <2>1, <2>2, <2>3, <2>4 DEF Next, vars
  <1>2. IInv /\ [Next]_vars => [Len(teams') > Len(teams) => status = "open"]_vars
    BY <1>1
  <1> QED
    BY <1>2, IInvAlways, PTL DEF Spec, RegisteredWhileOpen

-----------------------------------------------------------------------------
(* One request of the organizer at a time *)

\* A draft has no teams.
LEMMA InitLifeCycle == Init => LifeCycle
  BY CapsAssumption, CountsAssumption, ThreadsAssumption
     DEF Init, LifeCycle, StatusStillSeen, NoTeamsYet, Capacity, OpenMeansRoom,
         GeneratedOnce, CalledOnce, Threads, Deleted

\* A player's request moves the status in one way only: the last team closes
\* the registration.
LEMMA ClientKeepsLifeCycle ==
  ASSUME IInv, LifeCycle, NEW c \in Clients, ClientStep(c)
  PROVE  LifeCycle' /\ (status' = status \/ (status = "open" /\ status' = "closed"))
  <1> USE CapsAssumption, ThreadsAssumption
  <1>1. /\ UNCHANGED << cap, generated, read >>
        /\ \A o \in Owners : pc'[o] = pc[o]
    BY DEF IInv, TypeOK, Threads, ClientStep, Goto, BeginRegister, LockTournament,
           CheckRegister, CommitTeam, BeginJoin, CheckJoin, CommitJoin, tournament
  <1>2. CASE CommitTeam(c)
    <2>1. status = "open" /\ Len(teams) < cap /\ teams \in Seq(Players) /\ player[c] \in Players
      BY <1>2 DEF CommitTeam, IInv, CheckedUnderLock, TypeOK, ReadBefore
    <2>2. cap \in Nat /\ Len(teams) \in Nat /\ Len(teams') = Len(teams) + 1
      BY <1>2, <2>1 DEF CommitTeam, IInv, TypeOK
    <2>3. status' = IF Len(teams) + 1 >= cap THEN "closed" ELSE "open"
      BY <1>2, <2>1 DEF CommitTeam
    <2>4. StatusStillSeen' /\ NoTeamsYet' /\ GeneratedOnce'
      BY <1>1, <2>1, <2>3
         DEF LifeCycle, StatusStillSeen, NoTeamsYet, GeneratedOnce, CalledOnce, Deleted
    <2>5. Capacity' /\ OpenMeansRoom'
      BY <1>1, <2>1, <2>2, <2>3 DEF Capacity, OpenMeansRoom
    <2> QED
      BY <2>1, <2>3, <2>4, <2>5 DEF LifeCycle
  <1>3. CASE ~ CommitTeam(c)
    <2>1. UNCHANGED << status, teams >>
      BY <1>3 DEF ClientStep, BeginRegister, LockTournament, CheckRegister,
                  BeginJoin, CheckJoin, CommitJoin, tournament
    <2> QED
      BY <1>1, <2>1 DEF LifeCycle, StatusStillSeen, NoTeamsYet, Capacity,
                        OpenMeansRoom, GeneratedOnce, CalledOnce
  <1> QED
    BY <1>2, <1>3

\* The status moves a request of the organizer may make.
OwnerMove ==
    status' # status =>
        << status, status' >> \in
            { << "draft", "open" >>, << "draft", Deleted >>, << "open", "in_progress" >>,
              << "closed", "in_progress" >>, << "in_progress", "completed" >> }

\* The organizer's only request writes what it has seen to be right.
LEMMA OwnerKeepsLifeCycle ==
  ASSUME IInv, LifeCycle, OneRequestAtATime, NEW o \in Owners, OwnerStep(o)
  PROVE  LifeCycle' /\ OwnerMove
  <1> USE CapsAssumption, ThreadsAssumption
  <1>1. \A u \in Owners : u = o
    BY DEF OneRequestAtATime
  <1>2. /\ DOMAIN pc = Threads /\ pc = [t \in Threads |-> pc[t]] /\ o \in Threads
        /\ cap \in Nat \ {0, 1} /\ Len(teams) \in Nat
        /\ read \in [Owners -> TournamentStatus]
        /\ generated \in Seq(ValidCounts)
    <2> TypeOK
      BY DEF IInv
    <2> QED
      BY DEF TypeOK, Threads
  <1> USE <1>1, <1>2 DEF LifeCycle, Goto
  <1>3. CASE CheckPublish(o) \/ CheckEdit(o) \/ CheckDestroy(o) \/ CheckClose(o) \/ CheckComplete(o)
    BY <1>3 DEF CheckPublish, CheckEdit, CheckDestroy, CheckClose, CheckComplete, Closable,
                Before, tournament, StatusStillSeen, NoTeamsYet, Capacity,
                OpenMeansRoom, GeneratedOnce, CalledOnce, OwnerMove
  <1>4. CASE CommitPublish(o)
    <2>1. status = "draft" /\ teams = << >> /\ generated = << >>
      BY <1>4 DEF CommitPublish, SaveStatus, StatusStillSeen, NoTeamsYet, GeneratedOnce
    <2> QED
      BY <1>4, <2>1 DEF CommitPublish, SaveStatus, StatusStillSeen, NoTeamsYet, Capacity,
                        OpenMeansRoom, GeneratedOnce, CalledOnce, OwnerMove, Deleted
  <1>5. CASE CommitComplete(o)
    <2>1. status = "in_progress"
      BY <1>5 DEF CommitComplete, SaveStatus, StatusStillSeen
    <2> QED
      BY <1>5, <2>1 DEF CommitComplete, SaveStatus, StatusStillSeen, NoTeamsYet, Capacity,
                        OpenMeansRoom, GeneratedOnce, CalledOnce, OwnerMove, Deleted
  <1>6. CASE ReadForEdit(o)
    BY <1>6 DEF ReadForEdit, tournament, StatusStillSeen, NoTeamsYet, Capacity,
                OpenMeansRoom, GeneratedOnce, CalledOnce, OwnerMove
  <1>7. CASE CommitEdit(o)
    <2>1. status = "draft" /\ read[o] = "draft" /\ teams = << >> /\ generated = << >>
      BY <1>7 DEF CommitEdit, StatusStillSeen, NoTeamsYet, GeneratedOnce
    <2>2. cap' \in Nat /\ status' = "draft" /\ UNCHANGED << teams, generated >>
      BY <1>7, <2>1 DEF CommitEdit
    <2>3. StatusStillSeen'
      BY <1>7 DEF CommitEdit, StatusStillSeen
    <2> QED
      BY <2>1, <2>2, <2>3 DEF NoTeamsYet, Capacity, OpenMeansRoom, GeneratedOnce,
                              CalledOnce, OwnerMove
  <1>8. CASE CommitDestroy(o)
    <2>1. status = "draft"
      BY <1>8 DEF CommitDestroy, StatusStillSeen
    <2> QED
      BY <1>8, <2>1 DEF CommitDestroy, StatusStillSeen, NoTeamsYet, Capacity,
                        OpenMeansRoom, GeneratedOnce, CalledOnce, OwnerMove, Deleted
  <1>9. CASE ValidateCount(o) \/ ReadTeams(o)
    BY <1>9 DEF ValidateCount, ReadTeams, tournament, StatusStillSeen, NoTeamsYet, Capacity,
                OpenMeansRoom, GeneratedOnce, CalledOnce, OwnerMove
  <1>10. CASE CommitStart(o)
    <2>1. status \in {"open", "closed"} /\ generated = << >>
      BY <1>10 DEF CommitStart, StatusStillSeen, GeneratedOnce
    <2>2. /\ status' = "in_progress"
          /\ generated' = << count[o] >>
          /\ UNCHANGED << cap, teams >>
      BY <1>10, <2>1 DEF CommitStart, Deleted
    <2>3. StatusStillSeen'
      BY <1>10 DEF CommitStart, StatusStillSeen
    <2> QED
      BY <2>1, <2>2, <2>3 DEF NoTeamsYet, Capacity, OpenMeansRoom, GeneratedOnce,
                              CalledOnce, OwnerMove, Deleted
  <1> QED
    BY <1>3, <1>4, <1>5, <1>6, <1>7, <1>8, <1>9, <1>10 DEF OwnerStep

\* Every step keeps the life cycle with one request of the organizer at a time.
LEMMA LifeCycleStep ==
  ASSUME OneRequestAtATime
  PROVE  IInv /\ LifeCycle /\ [Next]_vars => LifeCycle'
  <1> SUFFICES ASSUME IInv, LifeCycle, [Next]_vars PROVE LifeCycle'
    OBVIOUS
  <1>1. CASE \E c \in Clients : ClientStep(c)
    BY <1>1, ClientKeepsLifeCycle
  <1>2. CASE \E o \in Owners : OwnerStep(o)
    BY <1>2, OwnerKeepsLifeCycle, OneRequestAtATime
  <1>3. CASE UNCHANGED vars
    BY <1>3 DEF vars, LifeCycle, StatusStillSeen, NoTeamsYet, Capacity,
                OpenMeansRoom, GeneratedOnce, CalledOnce
  <1> QED
    BY <1>1, <1>2, <1>3 DEF Next

\* It is kept always.
LEMMA LifeCycleAlways == OneRequestAtATime => (Spec => []LifeCycle)
  <1> SUFFICES ASSUME OneRequestAtATime PROVE Spec => []LifeCycle
    OBVIOUS
  <1>1. IInv /\ LifeCycle /\ [Next]_vars => LifeCycle'
    BY LifeCycleStep
  <1> QED
    BY <1>1, InitLifeCycle, IInvAlways, PTL DEF Spec

\* If the requests of the organizer do not overlap, a tournament never has
\* more than max_teams teams, for any number of players that register at once
\* (the count under the row lock; the limit is only edited in a draft).
THEOREM NeverOverfull == OneRequestAtATime => (Spec => []Capacity)
  <1>1. LifeCycle => Capacity
    BY DEF LifeCycle
  <1> QED
    BY <1>1, LifeCycleAlways, PTL

\* And while it is open there is room (the automatic close).
THEOREM ClosesWhenFull == OneRequestAtATime => (Spec => []OpenMeansRoom)
  <1>1. LifeCycle => OpenMeansRoom
    BY DEF LifeCycle
  <1> QED
    BY <1>1, LifeCycleAlways, PTL

\* And its fixtures are generated once, by the request that starts it.
THEOREM GeneratesOnce == OneRequestAtATime => (Spec => []GeneratedOnce)
  <1>1. LifeCycle => GeneratedOnce
    BY DEF LifeCycle
  <1> QED
    BY <1>1, LifeCycleAlways, PTL

\* And nothing that was written to its status is taken back.
THEOREM StatusNeverTakenBack == Spec => NeverTakenBack
  <1> DEFINE Move ==
        OneRequestAtATime /\ status' # status =>
          IF status' = Deleted
          THEN status = "draft"
          ELSE status # Deleted /\ Stage(status) <= Stage(status')
  <1>1. CASE ~ OneRequestAtATime
    <2>1. [Next]_vars => [Move]_vars
      BY <1>1
    <2> HIDE DEF Move
    <2>2. Spec => [][Move]_vars
      BY <2>1, PTL DEF Spec
    <2> QED
      BY <2>2, PTL DEF NeverTakenBack, Move
  <1>2. CASE OneRequestAtATime
    <2>1. ASSUME IInv, LifeCycle, Next PROVE Move
      <3>1. CASE \E c \in Clients : ClientStep(c)
        BY <2>1, <3>1, ClientKeepsLifeCycle DEF Stage, Deleted
      <3>2. CASE \E o \in Owners : OwnerStep(o)
        BY <1>2, <2>1, <3>2, OwnerKeepsLifeCycle DEF OwnerMove, Stage, Deleted
      <3> QED
        BY <2>1, <3>1, <3>2 DEF Next
    <2>2. IInv /\ LifeCycle /\ [Next]_vars => [Move]_vars
      BY <2>1
    <2> HIDE DEF Move
    <2>3. Spec => []LifeCycle
      BY <1>2, LifeCycleAlways
    <2>4. Spec => [][Move]_vars
      BY <2>2, <2>3, IInvAlways, PTL DEF Spec
    <2> QED
      BY <2>4, PTL DEF NeverTakenBack, Move
  <1> QED
    BY <1>1, <1>2

===============================================================================
