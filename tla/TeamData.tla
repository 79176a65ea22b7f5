------------------------------ MODULE TeamData ------------------------------
(***************************************************************************)
(* What the update process promises of the data of teams, with nothing of  *)
(* how: of every team it knows data of some time, zero for none.  It comes *)
(* to know later data, never earlier; what it knows is saved now and then; *)
(* what is not saved may be lost, and then it knows what was saved.  Only  *)
(* a new ranking begins with other data, and that is saved with it.        *)
(***************************************************************************)
EXTENDS Naturals

CONSTANTS Teams, MaxTime

VARIABLES ranking,  \* id of the latest ranking
          known,    \* per team the time of its data
          saved     \* what there will be after a restart

Times == [Teams -> 0..MaxTime]

Init ==
  /\ ranking = 1
  /\ known = [t \in Teams |-> 0]
  /\ saved = known

\* A response of Battle.net about some teams.
Learn ==
  \E teams \in SUBSET Teams, time \in 1..MaxTime :
    /\ \A t \in teams : known[t] < time
    /\ known' = [t \in Teams |-> IF t \in teams THEN time ELSE known[t]]
    /\ UNCHANGED <<ranking, saved>>

Save ==
  /\ saved' = known
  /\ UNCHANGED <<ranking, known>>

Lose ==
  /\ known' = saved
  /\ UNCHANGED <<ranking, saved>>

NewRanking ==
  /\ ranking' = ranking + 1
  /\ known' \in Times
  /\ saved' = known'

Next == Learn \/ Save \/ Lose \/ NewRanking

Spec == Init /\ [][Next]_<<ranking, known, saved>>
=============================================================================
