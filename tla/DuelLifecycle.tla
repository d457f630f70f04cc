--------------------------- MODULE DuelLifecycle ---------------------------
(***************************************************************************)
(* What the duel service promises, without locks, timers, handlers or      *)
(* restarts: a duel is opened for two users who are in no other active     *)
(* duel, moves along the edges below, adds one to its revision at every    *)
(* move, and costs somebody points for not taking part at most once, in    *)
(* the very step that ends it.                                             *)
(***************************************************************************)
EXTENDS Integers

CONSTANTS Ids, Users

VARIABLES state,      \* of each duel
          revision,   \* the number its clients order its states by
          engaged,    \* the users an active duel binds
          charges     \* penalties taken for refusing or ignoring it

vars == <<state, revision, engaged, charges>>

Edges == { <<"PENDING", "ACCEPTED">>, <<"PENDING", "REJECTED">>, <<"PENDING", "EXPIRED">>,
           <<"ACCEPTED", "COMPLETED">>, <<"ACCEPTED", "VOID">> }

Init == /\ state = [d \in Ids |-> "NONE"] /\ revision = [d \in Ids |-> 0]
        /\ engaged = [d \in Ids |-> {}]   /\ charges = [d \in Ids |-> 0]

Open(d, u, v) ==
  /\ state[d] = "NONE" /\ u # v
  /\ \A e \in Ids : {u, v} \cap engaged[e] = {}
  /\ state' = [state EXCEPT ![d] = "PENDING"]
  /\ engaged' = [engaged EXCEPT ![d] = {u, v}]
  /\ UNCHANGED <<revision, charges>>

\* What one duel may do in a step of others: stay, or take an edge.
Stays(d) == /\ state'[d] = state[d] /\ revision'[d] = revision[d]
            /\ engaged'[d] = engaged[d] /\ charges'[d] = charges[d]
Moves(d) ==
  /\ <<state[d], state'[d]>> \in Edges
  /\ revision'[d] = revision[d] + 1
  /\ engaged'[d] = IF state'[d] = "ACCEPTED" THEN engaged[d] ELSE {}
  /\ charges'[d] \in CASE state'[d] = "REJECTED" -> {1}
                       [] state'[d] = "EXPIRED"  -> {0, 1}
                       [] OTHER                  -> {charges[d]}

\* A sweep or the deletion of an account moves several duels at once.
Advance == \A d \in Ids : Stays(d) \/ Moves(d)

Next == (\E d \in Ids, u \in Users, v \in Users : Open(d, u, v)) \/ Advance
Spec == Init /\ [][Next]_vars
=============================================================================
