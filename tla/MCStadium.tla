------------------------------ MODULE MCStadium ------------------------------
(***************************************************************************)
(* Stadium for TLC.  A scenario says who acts in a run: the threads, and   *)
(* the steps without a thread, that take part.                             *)
(***************************************************************************)
EXTENDS Stadium, TLC

CONSTANTS o1, a1, u1, u2, g1, g2, r1, r2, p1, p2, p3, p4, b1, b2

VARIABLE scenario

\* Decisions and edits overlap, with photos coming and going.
Reviewing == [who |-> {o1, a1, u1}, photos |-> {p1}, changes |-> {}]

\* Two photo requests overlap.
Galleries == [who |-> {u1, u2}, photos |-> Photos, changes |-> {}]

\* The hours are replaced during the runs of a worker, which overlap an edit.
Timetables == [who |-> {o1, a1, g1}, photos |-> {p1}, changes |-> {"hours"}]

\* The runs of two workers overlap, and the slot duration is edited.
Generating == [who |-> {o1, a1, g1, g2}, photos |-> {p1}, changes |-> {"duration"}]

\* Two review requests overlap, and an edit overlaps them.
Rating == [who |-> {o1, a1, r1, r2}, photos |-> {p1}, changes |-> {"bookings"}]

\* What a scenario leaves out does not happen in it.
InScenario ==
    /\ \A t \in Threads \ scenario.who : thread'[t] = Idle
    /\ photos' \subseteq scenario.photos
    /\ "hours" \in scenario.changes \/ hours' \in {hours, Closed}
    /\ "duration" \in scenario.changes \/ stadium'.duration = stadium.duration
    /\ "bookings" \in scenario.changes \/ completed' = {}

MCInit ==
    /\ Init
    /\ scenario \in {Reviewing, Galleries, Timetables, Generating, Rating}
    /\ photos \subseteq scenario.photos
    /\ u1 \in scenario.who \/ covers = {p1}
    /\ CASE scenario = Timetables -> TRUE
         [] scenario = Generating -> hours = << 0, 3 >>
         [] OTHER -> hours = Closed /\ stadium.duration = 1

MCNext == Next /\ InScenario /\ UNCHANGED scenario

MCSpec == MCInit /\ [][MCNext]_<< vars, scenario >>

FairMCSpec ==
    /\ MCSpec
    /\ \A t \in Owners \cup Admins \cup Generators : WF_<< vars, scenario >>(Carry(t) /\ MCNext)

Openings == {<< 0, 3 >>, << 1, 3 >>, << 0, 2 >>}

Alike == Permutations({g1, g2}) \cup Permutations({r1, r2}) \cup Permutations({p2, p3, p4})
===============================================================================
