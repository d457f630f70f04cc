---------------------------- MODULE VisitsProofs ----------------------------
(***************************************************************************)
(* Proofs about Visits for any number of users, attempts, midnights and    *)
(* failures: a user claims a spot, or does a mission of one kind there,    *)
(* once a day at most; a visit that failed leaves nothing behind; and the  *)
(* aggregation of scores, keys and claims keeps its types.                 *)
(*                                                                         *)
(* The daily key is the whole argument: whoever has passed it today is the *)
(* token it holds, as long as the user is registered; an attempt takes     *)
(* back no token but its own; and what was stored needs a registered user. *)
(* For the second, each thing taken is named by the attempt that must give *)
(* it back.                                                                *)
(***************************************************************************)
EXTENDS Visits, FiniteSetTheorems, WellFoundedInduction, TLAPS

Phases == {"idle", "gate", "defend", "recheck", "transact", "upload",
           "commit", "undoDefence", "undoGate", "undoImage", "done"}
Passed == {"defend", "recheck", "transact", "upload", "commit"}
Visit == [phase : Phases, user : Visitors \union {None}, kind : Kinds \union {None}, day : Nat,
          created : BOOLEAN, type : {None, "CLAIM_NEW", "CLAIM_REVISIT"},
          answer : {None, "ok", "failed", "noSpot", "noUser"}]

StateTyped ==
  /\ asked \in Kinds /\ users \subseteq Visitors /\ stored \subseteq Attempts /\ day \in Nat
  /\ gate \in [Visitors -> [Kinds -> Attempts \union {None}]]
  /\ att \in [Attempts -> Visit]

Holds(a) == att[a].phase \in Passed \/ a \in stored

(* Who asks is somebody who asks for something, until the attempt has failed. *)
AttemptsAreMade ==
  \A a \in Attempts :
    /\ InFlight(a) \/ a \in stored => Me(a) \in Visitors /\ att[a].kind \in Kinds
    /\ a \in stored => att[a].phase = "done"
    /\ att[a].day <= day

HoldsItsGate ==
  \A a \in Attempts :
    Holds(a) /\ Me(a) \in users /\ att[a].day = day => gate[Me(a)][att[a].kind] = a

OneHolder ==
  \A a, b \in Attempts :
    (Holds(a) /\ Holds(b) /\ Me(a) \in users
     /\ Me(a) = Me(b) /\ att[a].kind = att[b].kind /\ att[a].day = att[b].day) => a = b

VisitsInv == StateTyped /\ AttemptsAreMade /\ HoldsItsGate /\ OneHolder /\ OncePerDay

-----------------------------------------------------------------------------
LEMMA VisitsInitially == VisitsInit => VisitsInv
<1> SUFFICES ASSUME VisitsInit PROVE VisitsInv
  OBVIOUS
<1>1. Fresh \in Visit /\ Fresh.phase = "idle" /\ Fresh.day = 0
  BY DEF Fresh, Visit, Phases
<1>2. StateTyped
  BY <1>1, VisitsAssumption DEF VisitsInit, StateTyped
<1> QED
  BY <1>1, <1>2 DEF VisitsInit, VisitsInv, AttemptsAreMade, HoldsItsGate, OneHolder, OncePerDay, Holds, Passed, InFlight

(* An attempt that moves on, or gives up, without touching its key.                       *)
LEMMA OneAttemptMoves ==
  ASSUME VisitsInv, NEW a \in Attempts, NEW q \in Visit, a \notin stored,
         att' = [att EXCEPT ![a] = q],
         UNCHANGED <<asked, users, stored, day, gate>>,
         q.phase \notin {"idle", "done"} => q.user \in Visitors /\ q.kind \in Kinds,
         q.day <= day,
         q.phase \in Passed => /\ att[a].phase \in Passed
                               /\ q.user = Me(a) /\ q.kind = att[a].kind /\ q.day = att[a].day
  PROVE  VisitsInv'
<1> USE DEF VisitsInv
<1>1. att'[a] = q /\ \A b \in Attempts \ {a} : att'[b] = att[b]
  BY DEF StateTyped
<1>2. StateTyped'
  BY DEF StateTyped
<1>3. AttemptsAreMade'
  <2> USE DEF AttemptsAreMade
  <2> TAKE b \in Attempts
  <2>1. CASE b = a
    BY <2>1, <1>1 DEF InFlight, Me
  <2>2. CASE b # a
    BY <2>2, <1>1 DEF AttemptsAreMade, InFlight, Me
  <2> QED
    BY <2>1, <2>2
<1>4. HoldsItsGate'
  <2> USE DEF HoldsItsGate
  <2> TAKE b \in Attempts
  <2>1. CASE b = a
    BY <2>1, <1>1 DEF HoldsItsGate, Holds, Me
  <2>2. CASE b # a
    BY <2>2, <1>1 DEF HoldsItsGate, Holds, Me
  <2> QED
    BY <2>1, <2>2
<1>5. \A b \in Attempts : Holds(b)' => Holds(b) /\ Me(b)' = Me(b) /\ att'[b].kind = att[b].kind /\ att'[b].day = att[b].day
  BY <1>1 DEF Holds, Me
<1>6. OneHolder'
  BY <1>5 DEF OneHolder
<1>7. OncePerDay'
  BY <1>1 DEF OncePerDay, Me, StateTyped
<1> QED
  BY <1>2, <1>3, <1>4, <1>6, <1>7

(* An attempt in flight that stays so.                                                    *)
LEMMA GoingOn ==
  ASSUME VisitsInv, NEW a \in Attempts, InFlight(a), UNCHANGED <<asked, users, stored, day, gate>>,
         NEW q \in Visit, att' = [att EXCEPT ![a] = q],
         q.phase \in Passed => att[a].phase \in Passed,
         q.user = Me(a), q.kind = att[a].kind, q.day = att[a].day
  PROVE  VisitsInv'
<1>1. a \notin stored /\ Me(a) \in Visitors /\ att[a].kind \in Kinds /\ att[a].day <= day
  BY DEF VisitsInv, AttemptsAreMade, InFlight
<1> QED
  BY <1>1, OneAttemptMoves

LEMMA Ending ==
  ASSUME VisitsInv, NEW a \in Attempts, a \notin stored, UNCHANGED <<asked, users, stored, day, gate>>,
         NEW r \in {None, "ok", "failed", "noSpot", "noUser"}, Answer(a, r)
  PROVE  VisitsInv'
<1> DEFINE q == Ended(a, r)
<1>1. q \in Visit /\ q.phase = "done" /\ q.day = 0
  <2>1. att[a].kind \in Kinds \union {None}
    BY DEF VisitsInv, StateTyped, Visit
  <2> QED
    BY <2>1 DEF Ended, Fresh, Visit, Phases
<1>2. att' = [att EXCEPT ![a] = q]
  BY DEF Answer
<1> HIDE DEF q
<1>3. 0 <= day /\ "done" \notin Passed
  BY DEF VisitsInv, StateTyped, Passed
<1> QED
  BY <1>1, <1>2, <1>3, OneAttemptMoves

-----------------------------------------------------------------------------
(* What goes on without a key, one attempt at a time.                                     *)
LEMMA AttemptStepsKeep ==
  ASSUME VisitsInv, NEW a \in Attempts,
         \/ Defend(a) \/ Recheck(a) \/ RecheckFails(a) \/ ClaimRead(a) \/ CommitMissing(a) \/ StepFails(a)
         \/ Upload(a) \/ UndoDefence(a) \/ UndoImage(a)
  PROVE  VisitsInv'
<1>1. UNCHANGED <<asked, users, stored, day, gate>>
  BY DEF Defend, Recheck, RecheckFails, ClaimRead, CommitMissing, StepFails, Upload, UndoDefence, UndoImage, database, keys
<1>2. InFlight(a) /\ a \notin stored
  BY DEF Defend, Recheck, RecheckFails, ClaimRead, CommitMissing, StepFails, Upload, UndoDefence, UndoImage, At, InFlight,
         VisitsInv, AttemptsAreMade
<1>3. att[a] \in Visit
  BY DEF VisitsInv, StateTyped
<1> USE DEF Phases, Passed
<1>5. ASSUME NEW p \in Phases, p \in Passed => att[a].phase \in Passed, GoTo(a, p)
      PROVE  VisitsInv'
  <2> DEFINE q == [att[a] EXCEPT !.phase = p]
  <2>1. q \in Visit /\ q.phase = p /\ q.user = Me(a) /\ q.kind = att[a].kind /\ q.day = att[a].day
    BY <1>3 DEF Visit, Me
  <2>2. att' = [att EXCEPT ![a] = q]
    BY <1>5 DEF GoTo
  <2> HIDE DEF q
  <2> QED
    BY <1>1, <1>2, <1>5, <2>1, <2>2, GoingOn
<1>6. ASSUME NEW r \in {None, "ok", "failed", "noSpot", "noUser"}, NEW p \in {"undoDefence", "undoGate"},
             att' = [att EXCEPT ![a].phase = p, ![a].answer = r]
      PROVE  VisitsInv'
  <2> DEFINE q == [att[a] EXCEPT !.phase = p, !.answer = r]
  <2>1. q \in Visit /\ q.phase = p /\ q.user = Me(a) /\ q.kind = att[a].kind /\ q.day = att[a].day
    BY <1>3 DEF Visit, Me
  <2>2. att' = [att EXCEPT ![a] = q]
    BY <1>6
  <2> HIDE DEF q
  <2> QED
    BY <1>1, <1>2, <1>6, <2>1, <2>2, GoingOn
<1>4. ASSUME NEW r \in {None, "ok", "failed", "noSpot", "noUser"}, UndoFrom(a, r)
      PROVE  VisitsInv'
  <2> DEFINE p == IF att[a].created THEN "undoDefence" ELSE "undoGate"
  <2>1. att' = [att EXCEPT ![a].phase = p, ![a].answer = r] /\ p \in {"undoDefence", "undoGate"}
    BY <1>4 DEF UndoFrom
  <2> HIDE DEF p
  <2> QED
    BY <1>4, <1>6, <2>1
<1>7. CASE Defend(a)
  <2>1. att[a].phase = "defend"
    BY <1>7 DEF Defend, At
  <2>2. CASE att' = [att EXCEPT ![a].phase = "recheck", ![a].created = TRUE]
    <3> DEFINE q == [att[a] EXCEPT !.phase = "recheck", !.created = TRUE]
    <3>1. q \in Visit /\ q.phase = "recheck" /\ q.user = Me(a) /\ q.kind = att[a].kind /\ q.day = att[a].day
      BY <1>3 DEF Visit, Me
    <3>2. att' = [att EXCEPT ![a] = q]
      BY <2>2
    <3> HIDE DEF q
    <3> QED
      BY <1>1, <1>2, <2>1, <3>1, <3>2, GoingOn
  <2>3. \/ att' = [att EXCEPT ![a].phase = "recheck", ![a].created = TRUE]
        \/ GoTo(a, "recheck") \/ UndoFrom(a, "failed")
    <3>1. CASE defence = None
      BY <1>7, <3>1 DEF Defend
    <3>2. CASE defence # None
      BY <1>7, <3>2 DEF Defend
    <3> QED
      BY <3>1, <3>2
  <2> QED
    BY <1>4, <1>5, <2>1, <2>2, <2>3
<1>8. CASE Recheck(a)
  BY <1>4, <1>5, <1>8 DEF Recheck, At
<1>9. CASE RecheckFails(a)
  BY <1>6, <1>9 DEF RecheckFails
<1>10. CASE ClaimRead(a)
  <2> DEFINE t == IF holder = MyTeam(a) THEN "CLAIM_REVISIT" ELSE "CLAIM_NEW"
             q == [att[a] EXCEPT !.phase = "commit", !.type = t]
  <2>1. q \in Visit /\ q.phase = "commit" /\ q.user = Me(a) /\ q.kind = att[a].kind /\ q.day = att[a].day
    BY <1>3 DEF Visit, Me
  <2>2. att' = [att EXCEPT ![a] = q] /\ att[a].phase = "transact"
    BY <1>10 DEF ClaimRead, At
  <2> HIDE DEF q
  <2> QED
    BY <1>1, <1>2, <2>1, <2>2, GoingOn
<1>11. CASE CommitMissing(a)
  BY <1>4, <1>11 DEF CommitMissing, Missing
<1>12. CASE StepFails(a)
  BY <1>4, <1>12 DEF StepFails
<1>13. CASE Upload(a)
  BY <1>5, <1>13 DEF Upload, At
<1>14. CASE UndoDefence(a)
  BY <1>5, <1>14 DEF UndoDefence
<1>15. CASE UndoImage(a)
  <2>1. att[a].answer \in {None, "ok", "failed", "noSpot", "noUser"}
    BY <1>3 DEF Visit
  <2> QED
    BY <1>1, <1>2, <2>1, <1>15, Ending DEF UndoImage
<1> QED
  BY <1>7, <1>8, <1>9, <1>10, <1>11, <1>12, <1>13, <1>14, <1>15

(* A new attempt, or one refused at once.                                                 *)
LEMMA AskKeeps ==
  ASSUME VisitsInv, NEW a \in Attempts, Ask(a)
  PROVE  VisitsInv'
<1>1. /\ UNCHANGED <<asked, users, stored, day, gate>> /\ a \notin stored /\ asked \in Kinds /\ day \in Nat
      /\ users \subseteq Visitors
  BY DEF Ask, At, database, keys, VisitsInv, StateTyped, AttemptsAreMade
<1>2. ASSUME NEW u \in users, att' = [att EXCEPT ![a] = [Fresh EXCEPT !.phase = "gate", !.user = u, !.kind = asked]]
      PROVE  VisitsInv'
  <2> DEFINE q == [Fresh EXCEPT !.phase = "gate", !.user = u, !.kind = asked]
  <2>1. q \in Visit /\ q.phase = "gate" /\ q.user = u /\ q.kind = asked /\ q.day = 0
    BY <1>1 DEF Fresh, Visit, Phases
  <2>2. att' = [att EXCEPT ![a] = q]
    BY <1>2
  <2> HIDE DEF q
  <2>3. 0 <= day /\ q.phase \notin Passed
    BY <1>1, <2>1 DEF Passed
  <2> QED
    BY <1>1, <2>1, <2>2, <2>3, OneAttemptMoves
<1>3. ASSUME NEW r \in {"noSpot", "failed"}, att' = [att EXCEPT ![a] = [Fresh EXCEPT !.phase = "done", !.kind = asked, !.answer = r]]
      PROVE  VisitsInv'
  <2> DEFINE q == [Fresh EXCEPT !.phase = "done", !.kind = asked, !.answer = r]
  <2>1. q \in Visit /\ q.phase = "done" /\ q.day = 0
    BY <1>1 DEF Fresh, Visit, Phases
  <2>2. att' = [att EXCEPT ![a] = q]
    BY <1>3
  <2> HIDE DEF q
  <2>3. 0 <= day /\ q.phase \notin Passed
    BY <1>1, <2>1 DEF Passed
  <2> QED
    BY <1>1, <2>1, <2>2, <2>3, OneAttemptMoves
<1> QED
  BY <1>2, <1>3 DEF Ask, Refusal

(* The daily key: taken only while it is free, so nobody else holds it today.             *)
LEMMA GateKeeps ==
  ASSUME VisitsInv, NEW a \in Attempts, Gate(a)
  PROVE  VisitsInv'
<1> USE DEF VisitsInv
<1>1. /\ UNCHANGED <<asked, users, stored, day>> /\ att[a].phase = "gate" /\ a \notin stored
      /\ Me(a) \in Visitors /\ att[a].kind \in Kinds /\ att[a] \in Visit /\ day \in Nat
  BY DEF Gate, At, database, StateTyped, AttemptsAreMade, InFlight
<1>2. CASE gate[Me(a)][att[a].kind] # None
  BY <1>1, <1>2, Ending DEF Gate
<1>3. CASE gate[Me(a)][att[a].kind] = None
  <2> DEFINE u == Me(a)
             k == att[a].kind
             q == [att[a] EXCEPT !.day = day, !.phase = FirstStep(k)]
  <2>1. FirstStep(k) \in {"defend", "upload", "commit"}
    BY <1>1 DEF FirstStep, Kinds
  <2>2. q \in Visit /\ q.phase = FirstStep(k) /\ q.user = u /\ q.kind = k /\ q.day = day
    BY <1>1, <2>1 DEF Visit, Phases, Me
  <2>3. /\ att' = [att EXCEPT ![a] = q]
        /\ gate' = [gate EXCEPT ![u] = [gate[u] EXCEPT ![k] = a]]
    BY <1>3 DEF Gate
  <2> HIDE DEF q
  <2>4. att'[a] = q /\ \A b \in Attempts \ {a} : att'[b] = att[b]
    BY <2>3 DEF StateTyped
  <2>5. /\ gate' \in [Visitors -> [Kinds -> Attempts \union {None}]]
        /\ gate'[u][k] = a
        /\ \A v \in Visitors, l \in Kinds : v # u \/ l # k => gate'[v][l] = gate[v][l]
    BY <1>1, <2>3 DEF StateTyped
  <2>6. StateTyped'
    BY <1>1, <2>2, <2>3, <2>5 DEF StateTyped
  <2>7. AttemptsAreMade'
    <3> USE DEF AttemptsAreMade
    <3> TAKE b \in Attempts
    <3>1. CASE b = a
      BY <3>1, <1>1, <2>2, <2>4 DEF InFlight, Me
    <3>2. CASE b # a
      BY <3>2, <1>1, <2>4 DEF InFlight, Me
    <3> QED
      BY <3>1, <3>2
  <2>8. HoldsItsGate'
    <3> USE DEF HoldsItsGate
    <3> TAKE b \in Attempts
    <3>1. CASE b = a
      BY <3>1, <2>2, <2>4, <2>5 DEF Me
    <3>2. CASE b # a
      <4>1. Holds(b)' <=> Holds(b)
        BY <3>2, <1>1, <2>4 DEF Holds
      <4>2. Holds(b) => Me(b) \in Visitors /\ att[b].kind \in Kinds
        BY DEF Holds, AttemptsAreMade, InFlight, Passed
      <4>3. Holds(b) /\ Me(b) \in users /\ att[b].day = day => gate[Me(b)][att[b].kind] = b /\ b # None
        BY VisitsAssumption
      <4> QED
        BY <3>2, <1>1, <1>3, <2>4, <2>5, <4>1, <4>2, <4>3 DEF Me
    <3> QED
      BY <3>1, <3>2
  <2>9. OncePerDay'
    BY <1>1, <2>4 DEF OncePerDay, Me, StateTyped
  <2>10. \A b \in Attempts \ {a} : Holds(b)' => Holds(b) /\ Me(b)' = Me(b) /\ att'[b].kind = att[b].kind /\ att'[b].day = att[b].day
    BY <1>1, <2>4 DEF Holds, Me
  <2>11. \A b \in Attempts : Holds(b) /\ Me(b) \in users => ~(Me(b) = u /\ att[b].kind = k /\ att[b].day = day)
    BY <1>1, <1>3, VisitsAssumption DEF HoldsItsGate
  <2>12. Me(a)' = u /\ att'[a].kind = k /\ att'[a].day = day
    BY <2>2, <2>4 DEF Me
  <2>13. OneHolder'
    <3> SUFFICES ASSUME NEW b \in Attempts, NEW c \in Attempts, Holds(b)', Holds(c)', Me(b)' \in users,
                        Me(b)' = Me(c)', att'[b].kind = att'[c].kind, att'[b].day = att'[c].day
                 PROVE  b = c
      BY <1>1 DEF OneHolder
    <3>1. CASE b # a /\ c # a
      BY <3>1, <2>10 DEF OneHolder
    <3>2. CASE b = a /\ c # a
      BY <3>2, <2>10, <2>11, <2>12
    <3>3. CASE b # a /\ c = a
      BY <3>3, <2>10, <2>11, <2>12
    <3> QED
      BY <3>1, <3>2, <3>3
  <2> HIDE DEF u, k
  <2> QED
    BY <2>6, <2>7, <2>8, <2>9, <2>13
<1> QED
  BY <1>2, <1>3

(* Giving back takes no token but one's own.                                              *)
LEMMA UndoGateKeeps ==
  ASSUME VisitsInv, NEW a \in Attempts, UndoGate(a)
  PROVE  VisitsInv'
<1> USE DEF VisitsInv
<1>1. /\ UNCHANGED <<asked, users, stored, day>> /\ att[a].phase = "undoGate" /\ a \notin stored
      /\ Me(a) \in Visitors /\ att[a].kind \in Kinds /\ att[a] \in Visit /\ ~Holds(a)
  BY DEF UndoGate, At, database, StateTyped, AttemptsAreMade, InFlight, Holds, Passed
<1>2. PICK q \in Visit : att' = [att EXCEPT ![a] = q] /\ q.phase \in {"undoImage", "done"}
                        /\ (q.phase = "undoImage" => q.user = Me(a) /\ q.kind = att[a].kind) /\ q.day <= day
  <2>1. CASE GoTo(a, "undoImage")
    <3> DEFINE q == [att[a] EXCEPT !.phase = "undoImage"]
    <3>1. q \in Visit /\ q.phase = "undoImage" /\ q.user = Me(a) /\ q.kind = att[a].kind /\ q.day <= day
      BY <1>1 DEF Visit, Phases, Me, AttemptsAreMade
    <3>2. att' = [att EXCEPT ![a] = q]
      BY <2>1 DEF GoTo
    <3> HIDE DEF q
    <3> QED
      BY <3>1, <3>2
  <2>2. CASE Answer(a, att[a].answer)
    <3> DEFINE q == Ended(a, att[a].answer)
    <3>1. att[a].answer \in {None, "ok", "failed", "noSpot", "noUser"}
      BY <1>1 DEF Visit
    <3>2. q \in Visit /\ q.phase = "done" /\ q.day = 0
      BY <1>1, <3>1 DEF Ended, Fresh, Visit, Phases
    <3>3. att' = [att EXCEPT ![a] = q] /\ 0 <= day
      BY <2>2 DEF Answer, StateTyped
    <3> HIDE DEF q
    <3> QED
      BY <3>2, <3>3
  <2> QED
    BY <2>1, <2>2 DEF UndoGate
<1>3. att'[a] = q /\ \A b \in Attempts \ {a} : att'[b] = att[b]
  BY <1>2 DEF StateTyped
<1>4. /\ gate' \in [Visitors -> [Kinds -> Attempts \union {None}]]
      /\ \A v \in Visitors, l \in Kinds : gate[v][l] # a => gate'[v][l] = gate[v][l]
  <2>1. CASE gate' = gate
    BY <2>1 DEF StateTyped
  <2>2. CASE Mine(a) /\ gate' = [gate EXCEPT ![Me(a)] = [gate[Me(a)] EXCEPT ![att[a].kind] = None]]
    BY <2>2, <1>1 DEF StateTyped, Mine
  <2> QED
    BY <2>1, <2>2 DEF UndoGate
<1>5. StateTyped'
  BY <1>1, <1>2, <1>4 DEF StateTyped
<1>6. AttemptsAreMade'
  <2> USE DEF AttemptsAreMade
  <2> TAKE b \in Attempts
  <2>1. CASE b = a
    BY <2>1, <1>1, <1>2, <1>3 DEF InFlight, Me
  <2>2. CASE b # a
    BY <2>2, <1>1, <1>3 DEF InFlight, Me
  <2> QED
    BY <2>1, <2>2
<1>7. HoldsItsGate'
  <2> USE DEF HoldsItsGate
  <2> TAKE b \in Attempts
  <2>1. CASE b = a
    BY <2>1, <1>1, <1>2, <1>3 DEF Holds, Passed
  <2>2. CASE b # a
    <3>1. Holds(b)' <=> Holds(b)
      BY <2>2, <1>1, <1>3 DEF Holds
    <3>2. Holds(b) => Me(b) \in Visitors /\ att[b].kind \in Kinds
      BY DEF Holds, AttemptsAreMade, InFlight, Passed
    <3> QED
      BY <2>2, <1>1, <1>3, <1>4, <3>1, <3>2 DEF Me
  <2> QED
    BY <2>1, <2>2
<1>8. OncePerDay'
  BY <1>1, <1>3 DEF OncePerDay, Me, StateTyped
<1>9. \A b \in Attempts : Holds(b)' => Holds(b) /\ Me(b)' = Me(b) /\ att'[b].kind = att[b].kind /\ att'[b].day = att[b].day
  BY <1>1, <1>2, <1>3 DEF Holds, Me, Passed
<1>10. OneHolder'
  BY <1>1, <1>9 DEF OneHolder
<1> QED
  BY <1>5, <1>6, <1>7, <1>8, <1>10

(* What is stored is stored for a registered user, whose key of the day it holds: there   *)
(* is no second one.                                                                      *)
LEMMA CommitKeeps ==
  ASSUME VisitsInv, NEW a \in Attempts, Commit(a)
  PROVE  VisitsInv'
<1> USE DEF VisitsInv
<1>1. /\ UNCHANGED <<asked, users, day, gate>> /\ att[a].phase = "commit" /\ a \notin stored /\ Me(a) \in users
      /\ Me(a) \in Visitors /\ att[a].kind \in Kinds /\ att[a] \in Visit /\ Holds(a) /\ stored' = stored \union {a}
  BY DEF Commit, At, keys, StateTyped, AttemptsAreMade, InFlight, Holds, Passed
<1> DEFINE q == [att[a] EXCEPT !.phase = "done", !.answer = "ok"]
<1>2. q \in Visit /\ q.phase = "done" /\ q.user = Me(a) /\ q.kind = att[a].kind /\ q.day = att[a].day
  BY <1>1 DEF Visit, Phases, Me
<1>3. att' = [att EXCEPT ![a] = q]
  BY DEF Commit
<1> HIDE DEF q
<1>4. att'[a] = q /\ \A b \in Attempts \ {a} : att'[b] = att[b]
  BY <1>3 DEF StateTyped
<1>5. StateTyped'
  BY <1>1, <1>2, <1>3 DEF StateTyped
<1>6. AttemptsAreMade'
  <2> USE DEF AttemptsAreMade
  <2> TAKE b \in Attempts
  <2>1. CASE b = a
    BY <2>1, <1>1, <1>2, <1>4 DEF InFlight, Me
  <2>2. CASE b # a
    BY <2>2, <1>1, <1>4 DEF InFlight, Me
  <2> QED
    BY <2>1, <2>2
<1>7. HoldsItsGate'
  <2> USE DEF HoldsItsGate
  <2> TAKE b \in Attempts
  <2>1. CASE b = a
    BY <2>1, <1>1, <1>2, <1>4 DEF Me
  <2>2. CASE b # a
    BY <2>2, <1>1, <1>4 DEF Holds, Me
  <2> QED
    BY <2>1, <2>2
<1>8. OncePerDay'
  <2>1. \A b \in stored : b # a /\ b \in Attempts /\ att'[b] = att[b] /\ Holds(b)
    BY <1>1, <1>4 DEF StateTyped, Holds
  <2>2. \A b \in stored : ~(Me(b) = Me(a) /\ att[b].kind = att[a].kind /\ att[b].day = att[a].day)
    <3> SUFFICES ASSUME NEW b \in stored, Me(b) = Me(a), att[b].kind = att[a].kind, att[b].day = att[a].day
                 PROVE  FALSE
      OBVIOUS
    <3> QED
      BY <1>1, <2>1 DEF OneHolder
  <2> SUFFICES ASSUME NEW b \in stored', NEW c \in stored', Me(b)' = Me(c)',
                      att'[b].kind = att'[c].kind, att'[b].day = att'[c].day
               PROVE  b = c
    BY DEF OncePerDay
  <2>3. CASE b = a \/ c = a
    BY <2>1, <2>2, <2>3, <1>1, <1>2, <1>4 DEF Me
  <2>4. CASE b # a /\ c # a
    BY <2>1, <2>4, <1>1 DEF OncePerDay, Me
  <2> QED
    BY <2>3, <2>4
<1>9. \A b \in Attempts : Holds(b)' => Holds(b) /\ Me(b)' = Me(b) /\ att'[b].kind = att[b].kind /\ att'[b].day = att[b].day
  BY <1>1, <1>2, <1>4 DEF Holds, Me
<1>10. OneHolder'
  BY <1>1, <1>9 DEF OneHolder
<1> QED
  BY <1>5, <1>6, <1>7, <1>8, <1>10

-----------------------------------------------------------------------------
(* What happens besides: attempts die, keys lapse, a day begins, users go.                *)
LEMMA WorldKeeps ==
  ASSUME VisitsInv,
         \/ Aggregate \/ WindowPasses \/ DefenceLapses \/ SpotRemoved
         \/ \E u \in Visitors : CheckIn(u) \/ VisitWindowLapses(u) \/ Penalty(u) \/ UserRemoved(u)
  PROVE  VisitsInv'
<1> USE DEF VisitsInv
<1>1. UNCHANGED <<asked, stored, day, gate, att>> /\ users' \subseteq users
  <2>1. CASE Aggregate \/ WindowPasses \/ DefenceLapses \/ SpotRemoved
    BY <2>1 DEF Aggregate, WindowPasses, DefenceLapses, SpotRemoved, database, keys
  <2>2. CASE \E u \in Visitors : CheckIn(u) \/ VisitWindowLapses(u) \/ Penalty(u) \/ UserRemoved(u)
    <3> PICK u \in Visitors : CheckIn(u) \/ VisitWindowLapses(u) \/ Penalty(u) \/ UserRemoved(u)
      BY <2>2
    <3>1. CASE CheckIn(u)
      BY <3>1 DEF CheckIn, database
    <3>2. CASE VisitWindowLapses(u)
      BY <3>2 DEF VisitWindowLapses, database
    <3>3. CASE Penalty(u)
      BY <3>3 DEF Penalty, database
    <3>4. CASE UserRemoved(u)
      BY <3>4 DEF UserRemoved, keys
    <3> QED
      BY <3>1, <3>2, <3>3, <3>4
  <2> QED
    BY <2>1, <2>2
<1>2. StateTyped' /\ AttemptsAreMade' /\ OncePerDay'
  BY <1>1 DEF StateTyped, AttemptsAreMade, OncePerDay, InFlight, Me
<1>3. HoldsItsGate' /\ OneHolder'
  BY <1>1 DEF HoldsItsGate, OneHolder, Holds, Me
<1> QED
  BY <1>2, <1>3

LEMMA MidnightKeeps == ASSUME VisitsInv, Midnight PROVE VisitsInv'
<1> USE DEF VisitsInv
<1>1. UNCHANGED <<asked, users, stored, att>> /\ day' = day + 1 /\ day \in Nat /\ gate' = NoGates
  BY DEF Midnight, database, StateTyped
<1>2. StateTyped' /\ OncePerDay' /\ OneHolder'
  BY <1>1 DEF StateTyped, OncePerDay, OneHolder, Holds, Me, NoGates
<1>3. \A a \in Attempts : att[a].day \in Nat /\ att[a].day <= day
  BY DEF StateTyped, Visit, AttemptsAreMade
<1>4. AttemptsAreMade' /\ HoldsItsGate'
  BY <1>1, <1>3 DEF AttemptsAreMade, HoldsItsGate, InFlight, Me
<1> QED
  BY <1>2, <1>4

(* The keys of a user go only after the user, and then nothing can be stored for him.     *)
LEMMA PurgeKeeps == ASSUME VisitsInv, NEW u \in Visitors, PurgeUserKeys(u) PROVE VisitsInv'
<1> USE DEF VisitsInv
<1>1. UNCHANGED <<asked, users, stored, att, day>> /\ u \notin users /\ gate' = [gate EXCEPT ![u] = NoGates[u]]
  BY DEF PurgeUserKeys, database
<1>2. /\ gate' \in [Visitors -> [Kinds -> Attempts \union {None}]]
      /\ \A v \in users : gate'[v] = gate[v]
  BY <1>1 DEF StateTyped, NoGates
<1>3. StateTyped' /\ AttemptsAreMade' /\ OncePerDay' /\ OneHolder'
  BY <1>1, <1>2 DEF StateTyped, AttemptsAreMade, OncePerDay, OneHolder, Holds, InFlight, Me
<1>4. HoldsItsGate'
  BY <1>1, <1>2 DEF HoldsItsGate, Holds, Me
<1> QED
  BY <1>3, <1>4

LEMMA CrashKeeps == ASSUME VisitsInv, Crash PROVE VisitsInv'
<1> USE DEF VisitsInv
<1>1. /\ UNCHANGED <<asked, users, stored, day, gate>>
      /\ att' = [a \in Attempts |-> IF InFlight(a) THEN Ended(a, None) ELSE att[a]]
  BY DEF Crash, database, keys
<1>2. ASSUME NEW a \in Attempts
      PROVE  Ended(a, None) \in Visit /\ Ended(a, None).phase = "done" /\ Ended(a, None).day = 0
  <2>1. att[a].kind \in Kinds \union {None}
    BY DEF StateTyped, Visit
  <2> QED
    BY <2>1 DEF Ended, Fresh, Visit, Phases
<1>3. \A a \in Attempts : \/ InFlight(a) /\ att'[a] = Ended(a, None) /\ a \notin stored
                          \/ ~InFlight(a) /\ att'[a] = att[a]
  BY <1>1 DEF AttemptsAreMade, InFlight
<1>4. StateTyped'
  <2>1. att' \in [Attempts -> Visit]
    BY <1>1, <1>2 DEF StateTyped
  <2> QED
    BY <1>1, <2>1 DEF StateTyped
<1>5. AttemptsAreMade'
  <2> USE DEF AttemptsAreMade
  <2> TAKE a \in Attempts
  <2>1. CASE att'[a] = Ended(a, None) /\ a \notin stored
    BY <2>1, <1>1, <1>2 DEF InFlight, StateTyped
  <2>2. CASE att'[a] = att[a]
    BY <2>2, <1>1 DEF InFlight, Me
  <2> QED
    BY <1>3, <2>1, <2>2
<1>6. \A a \in Attempts : Holds(a)' => Holds(a) /\ att'[a] = att[a]
  BY <1>1, <1>2, <1>3 DEF Holds, Passed
<1>7. HoldsItsGate' /\ OneHolder'
  BY <1>1, <1>6 DEF HoldsItsGate, OneHolder, Me
<1>8. OncePerDay'
  BY <1>1, <1>6 DEF OncePerDay, Holds, Me, StateTyped
<1> QED
  BY <1>4, <1>5, <1>7, <1>8

LEMMA VisitsInductive == VisitsInv /\ [VisitsNext]_visitVars => VisitsInv'
<1> SUFFICES ASSUME VisitsInv, [VisitsNext]_visitVars PROVE VisitsInv'
  OBVIOUS
<1>1. ASSUME NEW a \in Attempts,
             \/ Ask(a) \/ Gate(a)
             \/ Defend(a) \/ Recheck(a) \/ RecheckFails(a) \/ ClaimRead(a)
             \/ Commit(a) \/ CommitMissing(a) \/ StepFails(a) \/ Upload(a)
             \/ UndoDefence(a) \/ UndoGate(a) \/ UndoImage(a)
      PROVE  VisitsInv'
  BY <1>1, AskKeeps, GateKeeps, AttemptStepsKeep, CommitKeeps, UndoGateKeeps
<1>2. ASSUME NEW u \in Visitors,
             \/ CheckIn(u) \/ VisitWindowLapses(u) \/ Penalty(u) \/ UserRemoved(u) \/ PurgeUserKeys(u)
      PROVE  VisitsInv'
  BY <1>2, WorldKeeps, PurgeKeeps
<1>3. CASE Aggregate \/ WindowPasses \/ DefenceLapses \/ Midnight \/ SpotRemoved \/ Crash
  BY <1>3, WorldKeeps, MidnightKeeps, CrashKeeps
<1>4. CASE UNCHANGED visitVars
  BY <1>4 DEF visitVars, VisitsInv, StateTyped, AttemptsAreMade, HoldsItsGate, OneHolder, OncePerDay, Holds, InFlight, Me
<1> QED
  BY <1>1, <1>2, <1>3, <1>4 DEF VisitsNext

-----------------------------------------------------------------------------
(* A user claims a spot, or does a mission of one kind there, once a day at most, whatever *)
(* overlaps, fails or gives its key back after midnight (markDailyClaim and its release).  *)
THEOREM VisitsHold == VisitsSpec => []OncePerDay
<1>1. VisitsInv => OncePerDay
  BY DEF VisitsInv
<1> QED
  BY <1>1, VisitsInitially, VisitsInductive, PTL DEF VisitsSpec

-----------------------------------------------------------------------------
(* What a failed attempt leaves: each thing taken is named by the attempt that must give it *)
(* back, and stays named until it has been given back or giving it back has failed.         *)
StepsFit ==
  \A a \in Attempts :
    /\ att[a].phase \in {"defend", "recheck", "transact"} => att[a].kind = "claim"
    /\ att[a].kind = "photo" /\ (att[a].phase = "commit" \/ a \in stored) => a \in objects

Using == {"defend", "recheck", "transact", "upload", "commit", "undoDefence", "undoGate"}
GatesNamed ==
  "gate" \in lost \/ \A a \in Attempts, u \in Visitors, k \in Kinds :
    gate[u][k] = a => a \in stored \/ (att[a].phase \in Using /\ Me(a) = u /\ att[a].kind = k)

Uploaded == {"commit", "undoDefence", "undoGate", "undoImage"}
ImagesNamed == "image" \in lost \/ \A a \in objects : a \in stored \/ att[a].phase \in Uploaded

(* Whoever set the defence key is the one to take it away again. *)
Defending == {"recheck", "transact", "commit", "undoDefence"}
Defends(a) == /\ att[a].phase \in Defending /\ att[a].kind = "claim" /\ att[a].created
              /\ MyTeam(a) = defence
DefenceNamed == "defence" \in lost \/ defence = None \/ earned \/ \E a \in Attempts : Defends(a)

KeysTyped == objects \subseteq Attempts /\ defence \in Teams \union {None} /\ earned \in BOOLEAN
NothingLeft == KeysTyped /\ StepsFit /\ GatesNamed /\ ImagesNamed /\ DefenceNamed

LEMMA NothingAtFirst == VisitsInit => NothingLeft
<1> SUFFICES ASSUME VisitsInit PROVE NothingLeft
  OBVIOUS
<1>1. \A a \in Attempts : att[a].phase = "idle" /\ a # None
  BY VisitsAssumption DEF VisitsInit, Fresh
<1>2. KeysTyped /\ StepsFit /\ ImagesNamed /\ DefenceNamed
  BY <1>1 DEF VisitsInit, KeysTyped, StepsFit, ImagesNamed, DefenceNamed
<1>3. GatesNamed
  BY <1>1 DEF VisitsInit, GatesNamed
<1> QED
  BY <1>2, <1>3 DEF NothingLeft

(* A step of one attempt: nothing of the others changes hands. *)
LEMMA OneLeavesNothing ==
  ASSUME VisitsInv, NothingLeft, NEW a \in Attempts, NEW q, att' = [att EXCEPT ![a] = q],
         stored' \subseteq stored \union {a}, stored \subseteq stored', lost \subseteq lost',
         objects' \subseteq Attempts, objects' \ {a} = objects \ {a},
         \A u \in Visitors, k \in Kinds : gate'[u][k] \in {gate[u][k], None, a},
         q.phase \in {"defend", "recheck", "transact"} => q.kind = "claim",
         q.kind = "photo" /\ (q.phase = "commit" \/ a \in stored') => a \in objects',
         "gate" \notin lost' => \A u \in Visitors, k \in Kinds : gate'[u][k] = a =>
             a \in stored' \/ (q.phase \in Using /\ q.user = u /\ q.kind = k),
         "image" \notin lost' => (a \in objects' => a \in stored' \/ q.phase \in Uploaded)
  PROVE  StepsFit' /\ GatesNamed' /\ ImagesNamed'
<1>1. att'[a] = q /\ \A b \in Attempts \ {a} : att'[b] = att[b]
  BY DEF VisitsInv, StateTyped
<1>2. StepsFit'
  <2> SUFFICES ASSUME NEW b \in Attempts
               PROVE  /\ att'[b].phase \in {"defend", "recheck", "transact"} => att'[b].kind = "claim"
                      /\ att'[b].kind = "photo" /\ (att'[b].phase = "commit" \/ b \in stored') => b \in objects'
    BY DEF StepsFit
  <2>1. CASE b = a
    BY <1>1, <2>1
  <2>2. CASE b # a
    BY <1>1, <2>2 DEF NothingLeft, StepsFit
  <2> QED
    BY <2>1, <2>2
<1>3. GatesNamed'
  <2> SUFFICES ASSUME "gate" \notin lost', NEW b \in Attempts, NEW u \in Visitors, NEW k \in Kinds, gate'[u][k] = b
               PROVE  b \in stored' \/ (att'[b].phase \in Using /\ att'[b].user = u /\ att'[b].kind = k)
    BY DEF GatesNamed, Me
  <2>1. CASE b = a
    BY <1>1, <2>1
  <2>2. CASE b # a
    <3>1. gate[u][k] = b
      BY <2>2, VisitsAssumption
    <3> QED
      BY <1>1, <2>2, <3>1 DEF NothingLeft, GatesNamed, Me
  <2> QED
    BY <2>1, <2>2
<1>4. ImagesNamed'
  <2> SUFFICES ASSUME "image" \notin lost', NEW b \in objects'
               PROVE  b \in stored' \/ att'[b].phase \in Uploaded
    BY DEF ImagesNamed
  <2>1. CASE b = a
    BY <1>1, <2>1
  <2>2. CASE b # a
    BY <1>1, <2>2 DEF NothingLeft, ImagesNamed
  <2> QED
    BY <2>1, <2>2
<1> QED
  BY <1>2, <1>3, <1>4

(* The attempt that set the key keeps defending, has earned it, or takes it away. *)
LEMMA DefenceStaysNamed ==
  ASSUME VisitsInv, NothingLeft, NEW a \in Attempts, NEW q, att' = [att EXCEPT ![a] = q],
         lost \subseteq lost', defence' \in {defence, None}, earned => earned',
         Defends(a) => \/ "defence" \in lost' \/ defence' = None \/ earned'
                       \/ /\ q.phase \in Defending /\ q.user = Me(a)
                          /\ q.kind = att[a].kind /\ q.created = att[a].created
  PROVE  DefenceNamed'
<1>1. att'[a] = q /\ \A b \in Attempts \ {a} : att'[b] = att[b]
  BY DEF VisitsInv, StateTyped
<1> SUFFICES ASSUME "defence" \notin lost', defence' # None, ~earned'
             PROVE  \E b \in Attempts : Defends(b)'
  BY DEF DefenceNamed
<1>2. PICK b \in Attempts : Defends(b)
  BY DEF NothingLeft, DefenceNamed
<1>3. CASE b = a
  BY <1>1, <1>2, <1>3 DEF Defends, MyTeam, Me
<1>4. CASE b # a
  BY <1>1, <1>2, <1>4 DEF Defends, MyTeam, Me
<1> QED
  BY <1>3, <1>4

(* The fields of an attempt that goes on or starts to take back. *)
LEMMA Moved ==
  ASSUME VisitsInv, NEW a \in Attempts, NEW p, NEW r
  PROVE  LET q == [att[a] EXCEPT !.phase = p]
             v == [att[a] EXCEPT !.phase = p, !.answer = r]
         IN  /\ q.phase = p /\ q.user = Me(a) /\ q.kind = att[a].kind /\ q.created = att[a].created
             /\ v.phase = p /\ v.user = Me(a) /\ v.kind = att[a].kind /\ v.created = att[a].created
  BY DEF VisitsInv, StateTyped, Visit, Me

(* Going on, from a step to a later one, with nothing taken or given back. *)
LEMMA GoesOnNamed ==
  ASSUME VisitsInv, NothingLeft, NEW a \in Attempts, InFlight(a), NEW q, att' = [att EXCEPT ![a] = q],
         UNCHANGED <<stored, gate, objects, defence, earned>>, lost \subseteq lost',
         q.user = Me(a), q.kind = att[a].kind, q.created = att[a].created,
         q.phase \in {"defend", "recheck", "transact"} => att[a].kind = "claim",
         q.phase = "commit" => att[a].kind # "photo",
         att[a].phase \in Using => q.phase \in Using, att[a].phase \in Uploaded => q.phase \in Uploaded,
         Defends(a) => q.phase \in Defending \/ "defence" \in lost'
  PROVE  NothingLeft'
<1>1. a \notin stored
  BY DEF VisitsInv, AttemptsAreMade, InFlight
<1>2. KeysTyped'
  BY DEF NothingLeft, KeysTyped
<1>3. DefenceNamed'
  BY DefenceStaysNamed
<1>4. "gate" \notin lost' => \A u \in Visitors, k \in Kinds : gate'[u][k] = a =>
             a \in stored' \/ (q.phase \in Using /\ q.user = u /\ q.kind = k)
  BY <1>1 DEF NothingLeft, GatesNamed
<1>5. "image" \notin lost' => (a \in objects' => a \in stored' \/ q.phase \in Uploaded)
  BY <1>1 DEF NothingLeft, ImagesNamed
<1>6. StepsFit' /\ GatesNamed' /\ ImagesNamed'
  BY <1>1, <1>2, <1>4, <1>5, OneLeavesNothing DEF KeysTyped
<1> QED
  BY <1>2, <1>3, <1>6 DEF NothingLeft

-----------------------------------------------------------------------------
LEMMA AskLeaves == ASSUME VisitsInv, NothingLeft, NEW a \in Attempts, Ask(a) PROVE NothingLeft'
<1>1. /\ att[a].phase = "idle" /\ a \notin stored
      /\ UNCHANGED <<stored, gate, objects, defence, earned, lost>>
  BY DEF Ask, At, VisitsInv, AttemptsAreMade, database, keys, history
<1>2. PICK q : att' = [att EXCEPT ![a] = q] /\ q.phase \in {"gate", "done"}
  <2>1. ASSUME NEW u \in users, att' = [att EXCEPT ![a] = [Fresh EXCEPT !.phase = "gate", !.user = u, !.kind = asked]]
        PROVE  \E q : att' = [att EXCEPT ![a] = q] /\ q.phase \in {"gate", "done"}
    <3>1. [Fresh EXCEPT !.phase = "gate", !.user = u, !.kind = asked].phase = "gate"
      BY DEF Fresh
    <3> QED
      BY <2>1, <3>1, Zenon
  <2>2. CASE att' = [att EXCEPT ![a] = [Fresh EXCEPT !.phase = "done", !.kind = asked, !.answer = Refusal(asked)]]
    <3>1. [Fresh EXCEPT !.phase = "done", !.kind = asked, !.answer = Refusal(asked)].phase = "done"
      BY DEF Fresh
    <3> QED
      BY <2>2, <3>1, Zenon
  <2> QED
    BY <2>1, <2>2 DEF Ask
<1>3. KeysTyped'
  BY <1>1 DEF NothingLeft, KeysTyped
<1>4. DefenceNamed'
  BY <1>1, <1>2, DefenceStaysNamed DEF Defends, Defending
<1>5. /\ "gate" \notin lost => \A u \in Visitors, k \in Kinds : gate[u][k] # a
      /\ "image" \notin lost => a \notin objects
  BY <1>1 DEF NothingLeft, GatesNamed, ImagesNamed, Using, Uploaded
<1>6. StepsFit' /\ GatesNamed' /\ ImagesNamed'
  BY <1>1, <1>2, <1>3, <1>5, OneLeavesNothing DEF KeysTyped
<1> QED
  BY <1>3, <1>4, <1>6 DEF NothingLeft

LEMMA GateLeaves == ASSUME VisitsInv, NothingLeft, NEW a \in Attempts, Gate(a) PROVE NothingLeft'
<1>1. /\ att[a].phase = "gate" /\ a \notin stored /\ Me(a) \in Visitors /\ att[a].kind \in Kinds
      /\ UNCHANGED <<stored, objects, defence, earned, lost>>
  BY DEF Gate, At, InFlight, VisitsInv, AttemptsAreMade, database, history
<1>2. KeysTyped'
  BY <1>1 DEF NothingLeft, KeysTyped
<1>3. /\ "gate" \notin lost => \A u \in Visitors, k \in Kinds : gate[u][k] # a
      /\ "image" \notin lost => a \notin objects
  BY <1>1 DEF NothingLeft, GatesNamed, ImagesNamed, Using, Uploaded
<1>4. ~Defends(a)
  BY <1>1 DEF Defends, Defending
<1>5. CASE gate[Me(a)][att[a].kind] = None
  <2> DEFINE f == FirstStep(att[a].kind)
             q == [att[a] EXCEPT !.day = day, !.phase = f]
  <2>1. /\ att' = [att EXCEPT ![a] = q]
        /\ gate' = [gate EXCEPT ![Me(a)][att[a].kind] = a]
    BY <1>5 DEF Gate
  <2>2. q.phase = f /\ q.user = Me(a) /\ q.kind = att[a].kind
    BY DEF VisitsInv, StateTyped, Visit, Me
  <2>3. /\ f \in {"defend", "upload", "commit"}
        /\ f = "defend" => att[a].kind = "claim"
        /\ f = "commit" => att[a].kind # "photo"
    BY DEF FirstStep
  <2> HIDE DEF f, q
  <2>4. /\ gate'[Me(a)][att[a].kind] = a
        /\ \A u \in Visitors, k \in Kinds : gate'[u][k] = gate[u][k] \/ (u = Me(a) /\ k = att[a].kind)
    BY <1>1, <2>1 DEF VisitsInv, StateTyped
  <2>5. DefenceNamed'
    BY <1>1, <1>4, <2>1, DefenceStaysNamed
  <2>6. \A u \in Visitors, k \in Kinds : gate'[u][k] \in {gate[u][k], None, a}
    BY <2>4
  <2>7. "gate" \notin lost' => \A u \in Visitors, k \in Kinds : gate'[u][k] = a =>
             a \in stored' \/ (q.phase \in Using /\ q.user = u /\ q.kind = k)
    BY <1>1, <1>3, <2>2, <2>3, <2>4 DEF Using
  <2>8. StepsFit' /\ GatesNamed' /\ ImagesNamed'
    BY <1>1, <1>2, <1>3, <2>1, <2>2, <2>3, <2>6, <2>7, OneLeavesNothing DEF KeysTyped
  <2> QED
    BY <1>2, <2>5, <2>8 DEF NothingLeft
<1>6. CASE gate[Me(a)][att[a].kind] # None
  <2> DEFINE q == Ended(a, "failed")
  <2>1. att' = [att EXCEPT ![a] = q] /\ gate' = gate
    BY <1>6 DEF Gate, Answer
  <2>2. q.phase = "done"
    BY DEF Ended, Fresh
  <2> HIDE DEF q
  <2>3. DefenceNamed'
    BY <1>1, <1>4, <2>1, DefenceStaysNamed
  <2>4. StepsFit' /\ GatesNamed' /\ ImagesNamed'
    BY <1>1, <1>2, <1>3, <2>1, <2>2, OneLeavesNothing DEF KeysTyped
  <2> QED
    BY <1>2, <2>3, <2>4 DEF NothingLeft
<1> QED
  BY <1>5, <1>6

(* Giving up with the key still taken: the defence key first, if it was set. *)
LEMMA UndoFromLeaves ==
  ASSUME VisitsInv, NothingLeft, NEW a \in Attempts, att[a].phase \in {"defend", "recheck", "transact", "upload", "commit"},
         UNCHANGED <<stored, gate, objects, defence, earned>>, lost \subseteq lost', NEW r, UndoFrom(a, r)
  PROVE  NothingLeft'
<1> DEFINE p == IF att[a].created THEN "undoDefence" ELSE "undoGate"
           q == [att[a] EXCEPT !.phase = p, !.answer = r]
<1>1. att' = [att EXCEPT ![a] = q]
  BY DEF UndoFrom
<1>2. q.phase = p /\ q.user = Me(a) /\ q.kind = att[a].kind /\ q.created = att[a].created
  BY Moved
<1>3. p \in {"undoDefence", "undoGate"} /\ (att[a].created => p = "undoDefence")
  OBVIOUS
<1>4. InFlight(a)
  BY DEF InFlight
<1> HIDE DEF p, q
<1>5. Defends(a) => q.phase \in Defending
  BY <1>2, <1>3 DEF Defends, Defending
<1> QED
  BY <1>1, <1>2, <1>3, <1>4, <1>5, GoesOnNamed DEF Using, Uploaded

LEMMA ClaimStepsLeave ==
  ASSUME VisitsInv, NothingLeft, NEW a \in Attempts,
         Recheck(a) \/ RecheckFails(a) \/ ClaimRead(a) \/ CommitMissing(a) \/ StepFails(a)
  PROVE  NothingLeft'
<1> USE DEF database, keys, history, At
<1>0. /\ UNCHANGED <<stored, gate, objects, defence, earned>> /\ lost \subseteq lost'
      /\ att[a].phase \in {"defend", "recheck", "transact", "upload", "commit"}
  BY DEF Recheck, RecheckFails, ClaimRead, CommitMissing, StepFails
<1>1. InFlight(a)
  BY <1>0 DEF InFlight
<1>2. CASE GoTo(a, "transact") /\ att[a].phase = "recheck"
  <2> DEFINE q == [att[a] EXCEPT !.phase = "transact"]
  <2>1. q.phase = "transact" /\ q.user = Me(a) /\ q.kind = att[a].kind /\ q.created = att[a].created
    BY Moved
  <2>2. att' = [att EXCEPT ![a] = q]
    BY <1>2 DEF GoTo
  <2> HIDE DEF q
  <2>3. att[a].kind = "claim"
    BY <1>2 DEF NothingLeft, StepsFit
  <2> QED
    BY <1>0, <1>1, <1>2, <2>1, <2>2, <2>3, GoesOnNamed DEF Using, Uploaded, Defending
<1>3. CASE RecheckFails(a)
  <2> DEFINE q == [att[a] EXCEPT !.phase = "undoGate", !.answer = "failed"]
  <2>1. q.phase = "undoGate" /\ q.user = Me(a) /\ q.kind = att[a].kind /\ q.created = att[a].created
    BY Moved
  <2>2. att' = [att EXCEPT ![a] = q] /\ (att[a].created => "defence" \in lost')
    BY <1>3 DEF RecheckFails
  <2> HIDE DEF q
  <2>3. Defends(a) => "defence" \in lost'
    BY <2>2 DEF Defends
  <2> QED
    BY <1>0, <1>1, <2>1, <2>2, <2>3, GoesOnNamed DEF Using, Uploaded
<1>4. CASE ClaimRead(a)
  <2> DEFINE t == IF holder = MyTeam(a) THEN "CLAIM_REVISIT" ELSE "CLAIM_NEW"
             q == [att[a] EXCEPT !.phase = "commit", !.type = t]
  <2>1. q.phase = "commit" /\ q.user = Me(a) /\ q.kind = att[a].kind /\ q.created = att[a].created
    BY DEF VisitsInv, StateTyped, Visit, Me
  <2>2. att' = [att EXCEPT ![a] = q] /\ att[a].phase = "transact"
    BY <1>4 DEF ClaimRead
  <2> HIDE DEF q
  <2>3. att[a].kind = "claim"
    BY <2>2 DEF NothingLeft, StepsFit
  <2> QED
    BY <1>0, <1>1, <2>1, <2>2, <2>3, GoesOnNamed DEF Using, Uploaded, Defending
<1>5. CASE \E r : UndoFrom(a, r)
  BY <1>0, <1>5, UndoFromLeaves
<1> QED
  BY <1>2, <1>3, <1>4, <1>5 DEF Recheck, CommitMissing, StepFails

LEMMA DefendLeaves == ASSUME VisitsInv, NothingLeft, NEW a \in Attempts, Defend(a) PROVE NothingLeft'
<1>1. /\ att[a].phase = "defend" /\ UNCHANGED <<stored, gate, objects, lost>>
      /\ a \notin stored /\ att[a].kind = "claim" /\ InFlight(a) /\ Me(a) \in Visitors
  BY DEF Defend, At, database, NothingLeft, StepsFit, VisitsInv, AttemptsAreMade, InFlight
<1>2. CASE defence = None
  <2> DEFINE q == [att[a] EXCEPT !.phase = "recheck", !.created = TRUE]
  <2>1. q.phase = "recheck" /\ q.user = Me(a) /\ q.kind = att[a].kind /\ q.created = TRUE
    BY DEF VisitsInv, StateTyped, Visit, Me
  <2>0. MyTeam(a) # None
    BY <1>1, VisitsAssumption DEF MyTeam
  <2>11. att' = [att EXCEPT ![a].phase = "recheck", ![a].created = TRUE]
    BY <1>2, <2>0 DEF Defend
  <2>12. defence' = MyTeam(a)
    BY <1>2, <2>0 DEF Defend
  <2>13. earned' = FALSE
    BY <1>2, <2>0 DEF Defend
  <2>2. att' = [att EXCEPT ![a] = q] /\ defence' = MyTeam(a) /\ earned' = FALSE
    BY <2>11, <2>12, <2>13
  <2> HIDE DEF q
  <2>3. att'[a] = q
    BY <2>2 DEF VisitsInv, StateTyped
  <2>4. KeysTyped'
    BY <1>1, <2>2, VisitsAssumption DEF NothingLeft, KeysTyped, MyTeam
  <2>5. Defends(a)'
    BY <1>1, <2>1, <2>2, <2>3 DEF Defends, Defending, MyTeam, Me
  <2>6. DefenceNamed'
    BY <2>5 DEF DefenceNamed
  <2>7. "gate" \notin lost' => \A u \in Visitors, k \in Kinds : gate'[u][k] = a =>
             a \in stored' \/ (q.phase \in Using /\ q.user = u /\ q.kind = k)
    BY <1>1, <2>1 DEF NothingLeft, GatesNamed, Using
  <2>8. "image" \notin lost' => a \notin objects'
    BY <1>1 DEF NothingLeft, ImagesNamed, Uploaded
  <2>9. StepsFit' /\ GatesNamed' /\ ImagesNamed'
    BY <1>1, <2>1, <2>2, <2>4, <2>7, <2>8, OneLeavesNothing DEF KeysTyped
  <2> QED
    BY <2>4, <2>6, <2>9 DEF NothingLeft
<1>3. CASE defence # None /\ GoTo(a, "recheck") /\ UNCHANGED <<defence, earned>>
  <2> DEFINE q == [att[a] EXCEPT !.phase = "recheck"]
  <2>1. q.phase = "recheck" /\ q.user = Me(a) /\ q.kind = att[a].kind /\ q.created = att[a].created
    BY Moved
  <2>2. att' = [att EXCEPT ![a] = q]
    BY <1>3 DEF GoTo
  <2> HIDE DEF q
  <2> QED
    BY <1>1, <1>3, <2>1, <2>2, GoesOnNamed DEF Using, Uploaded, Defending
<1>4. CASE defence # None /\ UndoFrom(a, "failed") /\ UNCHANGED <<defence, earned>>
  BY <1>1, <1>4, UndoFromLeaves
<1>5. CASE defence # None
  <2>1. (GoTo(a, "recheck") \/ UndoFrom(a, "failed")) /\ UNCHANGED <<defence, earned>>
    BY <1>5 DEF Defend
  <2> QED
    BY <1>3, <1>4, <1>5, <2>1
<1> QED
  BY <1>2, <1>5

(* The commit: what was taken now belongs to something stored. *)
LEMMA CommitLeaves == ASSUME VisitsInv, NothingLeft, NEW a \in Attempts, Commit(a) PROVE NothingLeft'
<1> DEFINE q == [att[a] EXCEPT !.phase = "done", !.answer = "ok"]
<1>1. /\ att' = [att EXCEPT ![a] = q] /\ att[a].phase = "commit" /\ stored' = stored \union {a}
      /\ UNCHANGED <<gate, objects, lost, defence>>
  BY DEF Commit, At, keys
<1>2. q.phase = "done" /\ q.user = Me(a) /\ q.kind = att[a].kind
  BY Moved
<1>3. (earned => earned') /\ earned' \in BOOLEAN /\ (att[a].kind = "claim" /\ MyTeam(a) = defence => earned')
  BY DEF Commit, StoreClaim, AwardBonus, NothingLeft, KeysTyped
<1> HIDE DEF q
<1>4. KeysTyped'
  BY <1>1, <1>3 DEF NothingLeft, KeysTyped
<1>5. DefenceNamed'
  BY <1>1, <1>3, DefenceStaysNamed DEF Defends
<1>6. q.kind = "photo" => a \in objects
  BY <1>1, <1>2 DEF NothingLeft, StepsFit
<1>7. StepsFit' /\ GatesNamed' /\ ImagesNamed'
  BY <1>1, <1>2, <1>4, <1>6, OneLeavesNothing DEF KeysTyped
<1> QED
  BY <1>4, <1>5, <1>7 DEF NothingLeft

LEMMA UploadLeaves == ASSUME VisitsInv, NothingLeft, NEW a \in Attempts, Upload(a) PROVE NothingLeft'
<1> DEFINE q == [att[a] EXCEPT !.phase = "commit"]
<1>1. /\ att' = [att EXCEPT ![a] = q] /\ att[a].phase = "upload" /\ objects' = objects \union {a}
      /\ UNCHANGED <<stored, gate, lost, defence, earned>>
  BY DEF Upload, At, GoTo, keys, database, history
<1>2. q.phase = "commit" /\ q.user = Me(a) /\ q.kind = att[a].kind
  BY Moved
<1> HIDE DEF q
<1>3. KeysTyped'
  BY <1>1 DEF NothingLeft, KeysTyped
<1>4. DefenceNamed'
  BY <1>1, DefenceStaysNamed DEF Defends, Defending
<1>5. a \notin stored
  BY <1>1 DEF VisitsInv, AttemptsAreMade
<1>6. "gate" \notin lost' => \A u \in Visitors, k \in Kinds : gate'[u][k] = a =>
             a \in stored' \/ (q.phase \in Using /\ q.user = u /\ q.kind = k)
  BY <1>1, <1>2, <1>5 DEF NothingLeft, GatesNamed, Using
<1>7. StepsFit' /\ GatesNamed' /\ ImagesNamed'
  BY <1>1, <1>2, <1>3, <1>6, OneLeavesNothing DEF KeysTyped, Uploaded
<1> QED
  BY <1>3, <1>4, <1>7 DEF NothingLeft

LEMMA UndoDefenceLeaves == ASSUME VisitsInv, NothingLeft, NEW a \in Attempts, UndoDefence(a) PROVE NothingLeft'
<1> DEFINE q == [att[a] EXCEPT !.phase = "undoGate"]
<1>1. /\ att' = [att EXCEPT ![a] = q] /\ att[a].phase = "undoDefence"
      /\ UNCHANGED <<stored, gate, objects, earned>> /\ lost \subseteq lost'
      /\ defence' = None \/ (defence' = defence /\ "defence" \in lost')
  BY DEF UndoDefence, At, GoTo, database
<1>2. q.phase = "undoGate" /\ q.user = Me(a) /\ q.kind = att[a].kind
  BY Moved
<1> HIDE DEF q
<1>3. KeysTyped'
  BY <1>1 DEF NothingLeft, KeysTyped
<1>4. DefenceNamed'
  BY <1>1 DEF DefenceNamed
<1>5. a \notin stored
  BY <1>1 DEF VisitsInv, AttemptsAreMade
<1>6. "gate" \notin lost' => \A u \in Visitors, k \in Kinds : gate'[u][k] = a =>
             a \in stored' \/ (q.phase \in Using /\ q.user = u /\ q.kind = k)
  BY <1>1, <1>2, <1>5 DEF NothingLeft, GatesNamed, Using
<1>7. StepsFit' /\ GatesNamed' /\ ImagesNamed'
  BY <1>1, <1>2, <1>3, <1>5, <1>6, OneLeavesNothing DEF KeysTyped, Uploaded
<1> QED
  BY <1>3, <1>4, <1>7 DEF NothingLeft

LEMMA UndoGateLeaves == ASSUME VisitsInv, NothingLeft, NEW a \in Attempts, UndoGate(a) PROVE NothingLeft'
<1>1. /\ att[a].phase = "undoGate" /\ UNCHANGED <<stored, objects, earned, defence>> /\ lost \subseteq lost'
      /\ \/ gate' = IF Mine(a) THEN [gate EXCEPT ![Me(a)][att[a].kind] = None] ELSE gate
         \/ gate' = gate /\ "gate" \in lost'
  BY DEF UndoGate, At, database
<1>2. a \notin stored /\ Me(a) \in Visitors /\ att[a].kind \in Kinds
  BY <1>1 DEF VisitsInv, AttemptsAreMade, InFlight
<1>3. PICK q : att' = [att EXCEPT ![a] = q] /\ q.phase = IF a \in objects THEN "undoImage" ELSE "done"
  <2>1. CASE a \in objects
    <3>1. att' = [att EXCEPT ![a] = [att[a] EXCEPT !.phase = "undoImage"]]
      BY <2>1 DEF UndoGate, GoTo
    <3>2. [att[a] EXCEPT !.phase = "undoImage"].phase = "undoImage"
      BY Moved
    <3> QED
      BY <2>1, <3>1, <3>2, Zenon
  <2>2. CASE a \notin objects
    <3>1. att' = [att EXCEPT ![a] = Ended(a, att[a].answer)] /\ Ended(a, att[a].answer).phase = "done"
      BY <2>2 DEF UndoGate, Answer, Ended, Fresh
    <3> QED
      BY <2>2, <3>1, Zenon
  <2> QED
    BY <2>1, <2>2
<1>4. KeysTyped'
  BY <1>1 DEF NothingLeft, KeysTyped
<1>5. DefenceNamed'
  BY <1>1, <1>3, DefenceStaysNamed DEF Defends, Defending
<1>6. \A u \in Visitors, k \in Kinds : gate'[u][k] \in {gate[u][k], None}
  BY <1>1, <1>2 DEF VisitsInv, StateTyped
<1>7. "gate" \notin lost' => \A u \in Visitors, k \in Kinds : gate'[u][k] # a
  <2> SUFFICES ASSUME "gate" \notin lost', NEW u \in Visitors, NEW k \in Kinds, gate'[u][k] = a PROVE FALSE
    OBVIOUS
  <2>1. gate' = IF Mine(a) THEN [gate EXCEPT ![Me(a)][att[a].kind] = None] ELSE gate
    BY <1>1
  <2>2. gate[u][k] = a
    BY <1>6, VisitsAssumption
  <2>3. Me(a) = u /\ att[a].kind = k
    BY <1>1, <1>2, <2>2 DEF NothingLeft, GatesNamed
  <2>4. gate'[u][k] = None
    BY <1>2, <2>1, <2>2, <2>3 DEF Mine, VisitsInv, StateTyped
  <2> QED
    BY <2>4, VisitsAssumption
<1>8. StepsFit' /\ GatesNamed' /\ ImagesNamed'
  BY <1>1, <1>2, <1>3, <1>4, <1>6, <1>7, OneLeavesNothing DEF KeysTyped, Uploaded
<1> QED
  BY <1>4, <1>5, <1>8 DEF NothingLeft

LEMMA UndoImageLeaves == ASSUME VisitsInv, NothingLeft, NEW a \in Attempts, UndoImage(a) PROVE NothingLeft'
<1> DEFINE q == Ended(a, att[a].answer)
<1>1. /\ att[a].phase = "undoImage" /\ UNCHANGED <<stored, gate, earned, defence>> /\ lost \subseteq lost'
      /\ objects' = objects \ {a} \/ (objects' = objects /\ "image" \in lost')
      /\ att' = [att EXCEPT ![a] = q]
  BY DEF UndoImage, At, database, keys, Answer
<1>2. a \notin stored /\ q.phase = "done"
  BY <1>1 DEF VisitsInv, AttemptsAreMade, Ended, Fresh
<1> HIDE DEF q
<1>4. KeysTyped'
  BY <1>1 DEF NothingLeft, KeysTyped
<1>5. DefenceNamed'
  BY <1>1, <1>2, DefenceStaysNamed DEF Defends, Defending
<1>7. "gate" \notin lost' => \A u \in Visitors, k \in Kinds : gate'[u][k] # a
  BY <1>1, <1>2 DEF NothingLeft, GatesNamed, Using
<1>8. StepsFit' /\ GatesNamed' /\ ImagesNamed'
  BY <1>1, <1>2, <1>4, <1>7, OneLeavesNothing DEF KeysTyped
<1> QED
  BY <1>4, <1>5, <1>8 DEF NothingLeft

(* What happens besides takes keys away at most; a crash loses them all. *)
LEMMA WorldLeaves ==
  ASSUME VisitsInv, NothingLeft,
         \/ Aggregate \/ WindowPasses \/ DefenceLapses \/ SpotRemoved \/ Midnight
         \/ \E u \in Visitors : CheckIn(u) \/ VisitWindowLapses(u) \/ Penalty(u) \/ UserRemoved(u) \/ PurgeUserKeys(u)
  PROVE  NothingLeft'
<1> USE DEF database, keys, history, happened
<1>1. UNCHANGED <<stored, objects, att, lost, earned>> /\ defence' \in {defence, None}
  <2>1. CASE Aggregate \/ WindowPasses \/ DefenceLapses \/ SpotRemoved \/ Midnight
    BY <2>1 DEF Aggregate, WindowPasses, DefenceLapses, SpotRemoved, Midnight
  <2>2. CASE \E u \in Visitors : CheckIn(u) \/ VisitWindowLapses(u) \/ Penalty(u) \/ UserRemoved(u) \/ PurgeUserKeys(u)
    BY <2>2 DEF CheckIn, VisitWindowLapses, Penalty, UserRemoved, PurgeUserKeys
  <2> QED
    BY <2>1, <2>2
<1>2. \A u \in Visitors, k \in Kinds : gate'[u][k] \in {gate[u][k], None}
  <2>1. CASE Aggregate \/ WindowPasses \/ DefenceLapses \/ SpotRemoved
    BY <2>1 DEF Aggregate, WindowPasses, DefenceLapses, SpotRemoved
  <2>2. CASE Midnight
    BY <2>2 DEF Midnight, NoGates
  <2>3. ASSUME NEW u \in Visitors, PurgeUserKeys(u) PROVE \A v \in Visitors, k \in Kinds : gate'[v][k] \in {gate[v][k], None}
    BY <2>3 DEF PurgeUserKeys, NoGates, VisitsInv, StateTyped
  <2>4. CASE \E u \in Visitors : CheckIn(u) \/ VisitWindowLapses(u) \/ Penalty(u) \/ UserRemoved(u)
    BY <2>4 DEF CheckIn, VisitWindowLapses, Penalty, UserRemoved
  <2> QED
    BY <2>1, <2>2, <2>3, <2>4
<1>3. KeysTyped' /\ StepsFit' /\ ImagesNamed'
  BY <1>1 DEF NothingLeft, KeysTyped, StepsFit, ImagesNamed
<1>4. DefenceNamed'
  BY <1>1 DEF NothingLeft, DefenceNamed, Defends, MyTeam, Me
<1>5. GatesNamed'
  BY <1>1, <1>2, VisitsAssumption DEF NothingLeft, GatesNamed, Me
<1> QED
  BY <1>3, <1>4, <1>5 DEF NothingLeft

LEMMA CrashLeaves == ASSUME VisitsInv, NothingLeft, Crash PROVE NothingLeft'
<1>1. UNCHANGED <<stored, objects, gate, earned, defence>> /\ lost' = {"defence", "gate", "image"}
  BY DEF Crash, database, keys
<1>2. ASSUME NEW a \in Attempts
      PROVE  att'[a] = att[a] \/ (att'[a].phase = "done" /\ a \notin stored)
  BY DEF Crash, Ended, Fresh, InFlight, VisitsInv, AttemptsAreMade
<1>3. StepsFit'
  BY <1>1, <1>2 DEF NothingLeft, StepsFit
<1> QED
  BY <1>1, <1>3 DEF NothingLeft, KeysTyped, GatesNamed, ImagesNamed, DefenceNamed

LEMMA NothingLeftInductive == VisitsInv /\ NothingLeft /\ [VisitsNext]_visitVars => NothingLeft'
<1> SUFFICES ASSUME VisitsInv, NothingLeft, [VisitsNext]_visitVars PROVE NothingLeft'
  OBVIOUS
<1>1. ASSUME NEW a \in Attempts,
             \/ Ask(a) \/ Gate(a)
             \/ Defend(a) \/ Recheck(a) \/ RecheckFails(a) \/ ClaimRead(a)
             \/ Commit(a) \/ CommitMissing(a) \/ StepFails(a) \/ Upload(a)
             \/ UndoDefence(a) \/ UndoGate(a) \/ UndoImage(a)
      PROVE  NothingLeft'
  BY <1>1, AskLeaves, GateLeaves, DefendLeaves, ClaimStepsLeave, CommitLeaves, UploadLeaves,
     UndoDefenceLeaves, UndoGateLeaves, UndoImageLeaves
<1>2. CASE UNCHANGED visitVars
  BY <1>2 DEF visitVars, NothingLeft, KeysTyped, StepsFit, GatesNamed, ImagesNamed, DefenceNamed, Defends,
              MyTeam, Me
<1> QED
  BY <1>1, <1>2, WorldLeaves, CrashLeaves DEF VisitsNext

(* An attempt that failed leaves no daily key, defence key or image behind, whichever of    *)
(* its steps failed and whatever overlapped, unless the giving back failed too (the catch   *)
(* blocks of visit and of the missions); and a stored photo keeps its image.                *)
THEOREM NothingIsLeftBehind == VisitsSpec => []FailedVisitLeavesNothing
<1>1. VisitsInit => VisitsInv /\ NothingLeft
  BY VisitsInitially, NothingAtFirst
<1>2. (VisitsInv /\ NothingLeft) /\ [VisitsNext]_visitVars => (VisitsInv /\ NothingLeft)'
  BY VisitsInductive, NothingLeftInductive
<1>3. VisitsInv /\ NothingLeft => FailedVisitLeavesNothing
  <2> SUFFICES ASSUME VisitsInv, NothingLeft PROVE FailedVisitLeavesNothing
    OBVIOUS
  <2>1. GateIsUsed
    BY DEF NothingLeft, GatesNamed, GateIsUsed, Using, InFlight
  <2>2. DefenceIsEarned
    BY DEF NothingLeft, DefenceNamed, Defends, Defending, DefenceIsEarned
  <2>3. ImagesMatchRows
    BY DEF NothingLeft, ImagesNamed, StepsFit, ImagesMatchRows, Uploaded, InFlight, VisitsInv, StateTyped, KeysTyped
  <2> QED
    BY <2>1, <2>2, <2>3 DEF FailedVisitLeavesNothing
<1> QED
  BY <1>1, <1>2, <1>3, PTL DEF VisitsSpec

-----------------------------------------------------------------------------
(* Only who created a defence key comes to take it back.                                    *)
UndoIsOwn == \A a \in Attempts : At(a, "undoDefence") => att[a].created

(* An attempt comes to that step by UndoFrom only, and stays who it was.                    *)
LEMMA OneUndoIsOwn ==
  ASSUME VisitsInv, UndoIsOwn, NEW a \in Attempts, NEW q, att' = [att EXCEPT ![a] = q],
         q.phase = "undoDefence" => q.created
  PROVE  UndoIsOwn'
  BY DEF VisitsInv, StateTyped, UndoIsOwn, At

LEMMA UndoFromIsOwn ==
  ASSUME VisitsInv, UndoIsOwn, NEW a \in Attempts, NEW r, UndoFrom(a, r)
  PROVE  UndoIsOwn'
<1> DEFINE p == IF att[a].created THEN "undoDefence" ELSE "undoGate"
           q == [att[a] EXCEPT !.phase = p, !.answer = r]
<1>1. att[a] \in Visit
  BY DEF VisitsInv, StateTyped
<1>2. att' = [att EXCEPT ![a] = q]
  BY DEF UndoFrom
<1>3. q.phase = p /\ q.created = att[a].created
  BY <1>1 DEF Visit
<1>4. q.phase = "undoDefence" => q.created
  BY <1>3
<1> HIDE DEF q
<1> QED
  BY <1>2, <1>4, OneUndoIsOwn

LEMMA StepIsOwn ==
  ASSUME VisitsInv, UndoIsOwn, NEW a \in Attempts,
         \/ Ask(a) \/ Gate(a)
         \/ Defend(a) \/ Recheck(a) \/ RecheckFails(a) \/ ClaimRead(a)
         \/ Commit(a) \/ CommitMissing(a) \/ StepFails(a) \/ Upload(a)
         \/ UndoDefence(a) \/ UndoGate(a) \/ UndoImage(a)
  PROVE  UndoIsOwn'
<1>1. att[a] \in Visit
  BY DEF VisitsInv, StateTyped
<1>2. ASSUME NEW p \in Phases \ {"undoDefence"}, GoTo(a, p) PROVE UndoIsOwn'
  <2>1. att' = [att EXCEPT ![a] = [att[a] EXCEPT !.phase = p]] /\ [att[a] EXCEPT !.phase = p].phase = p
    BY <1>1, <1>2 DEF GoTo, Visit
  <2> QED
    BY <1>2, <2>1, OneUndoIsOwn
<1>3. ASSUME NEW r, Answer(a, r) PROVE UndoIsOwn'
  <2>1. att' = [att EXCEPT ![a] = Ended(a, r)] /\ Ended(a, r).phase = "done"
    BY <1>3 DEF Answer, Ended, Fresh
  <2> QED
    BY <2>1, OneUndoIsOwn
<1>4. CASE Ask(a)
  <2>1. ASSUME NEW u \in users, att' = [att EXCEPT ![a] = [Fresh EXCEPT !.phase = "gate", !.user = u, !.kind = asked]]
        PROVE  UndoIsOwn'
    <3> DEFINE q == [Fresh EXCEPT !.phase = "gate", !.user = u, !.kind = asked]
    <3>1. q.phase = "gate"
      BY DEF Fresh
    <3> HIDE DEF q
    <3> QED
      BY <2>1, <3>1, OneUndoIsOwn DEF q
  <2>2. CASE att' = [att EXCEPT ![a] = [Fresh EXCEPT !.phase = "done", !.kind = asked, !.answer = Refusal(asked)]]
    <3> DEFINE q == [Fresh EXCEPT !.phase = "done", !.kind = asked, !.answer = Refusal(asked)]
    <3>1. q.phase = "done"
      BY DEF Fresh
    <3> HIDE DEF q
    <3> QED
      BY <2>2, <3>1, OneUndoIsOwn DEF q
  <2> QED
    BY <1>4, <2>1, <2>2 DEF Ask
<1>5. CASE Gate(a)
  <2>1. CASE gate[Me(a)][att[a].kind] = None
    <3> DEFINE p == FirstStep(att[a].kind)
               q == [att[a] EXCEPT !.day = day, !.phase = p]
    <3>1. att' = [att EXCEPT ![a] = q]
      BY <1>5, <2>1 DEF Gate
    <3>2. q.phase = p
      BY <1>1 DEF Visit
    <3>3. p # "undoDefence"
      BY DEF FirstStep
    <3> HIDE DEF q, p
    <3> QED
      BY <3>1, <3>2, <3>3, OneUndoIsOwn
  <2>2. CASE gate[Me(a)][att[a].kind] # None
    BY <1>3, <1>5, <2>2 DEF Gate
  <2> QED
    BY <2>1, <2>2
<1>6. CASE Defend(a)
  <2> DEFINE q == [att[a] EXCEPT !.phase = "recheck", !.created = TRUE]
  <2>1. q.phase = "recheck"
    BY <1>1 DEF Visit
  <2>2. att' = [att EXCEPT ![a] = q] \/ GoTo(a, "recheck") \/ UndoFrom(a, "failed")
    <3>1. CASE defence = None
      BY <1>6, <3>1 DEF Defend
    <3>2. CASE defence # None
      BY <1>6, <3>2 DEF Defend
    <3> QED
      BY <3>1, <3>2
  <2> HIDE DEF q
  <2> QED
    BY <1>2, <2>1, <2>2, OneUndoIsOwn, UndoFromIsOwn DEF Phases
<1>7. CASE Recheck(a) \/ CommitMissing(a) \/ StepFails(a) \/ Upload(a) \/ UndoDefence(a)
  BY <1>2, <1>7, UndoFromIsOwn DEF Recheck, CommitMissing, StepFails, Upload, UndoDefence, Phases
<1>8. CASE RecheckFails(a)
  <2> DEFINE q == [att[a] EXCEPT !.phase = "undoGate", !.answer = "failed"]
  <2>1. q.phase = "undoGate" /\ att' = [att EXCEPT ![a] = q]
    BY <1>1, <1>8 DEF Visit, RecheckFails
  <2> HIDE DEF q
  <2> QED
    BY <2>1, OneUndoIsOwn
<1>9. CASE ClaimRead(a)
  <2> DEFINE t == IF holder = MyTeam(a) THEN "CLAIM_REVISIT" ELSE "CLAIM_NEW"
             q == [att[a] EXCEPT !.phase = "commit", !.type = t]
  <2>1. q.phase = "commit" /\ att' = [att EXCEPT ![a] = q]
    BY <1>1, <1>9 DEF Visit, ClaimRead
  <2> HIDE DEF q
  <2> QED
    BY <2>1, OneUndoIsOwn
<1>10. CASE Commit(a)
  <2> DEFINE q == [att[a] EXCEPT !.phase = "done", !.answer = "ok"]
  <2>1. q.phase = "done" /\ att' = [att EXCEPT ![a] = q]
    BY <1>1, <1>10 DEF Visit, Commit
  <2> HIDE DEF q
  <2> QED
    BY <2>1, OneUndoIsOwn
<1>11. CASE UndoGate(a) \/ UndoImage(a)
  BY <1>2, <1>3, <1>11 DEF UndoGate, UndoImage, Phases
<1> QED
  BY <1>4, <1>5, <1>6, <1>7, <1>8, <1>9, <1>10, <1>11

LEMMA UndoStaysOwn == VisitsInv /\ UndoIsOwn /\ [VisitsNext]_visitVars => UndoIsOwn'
<1> SUFFICES ASSUME VisitsInv, UndoIsOwn, [VisitsNext]_visitVars PROVE UndoIsOwn'
  OBVIOUS
<1>1. CASE UNCHANGED att
  BY <1>1 DEF UndoIsOwn, At
<1>2. CASE Crash
  <2>1. \A a \in Attempts : att'[a] = IF InFlight(a) THEN Ended(a, None) ELSE att[a]
    BY <1>2 DEF Crash
  <2>2. \A a \in Attempts : Ended(a, None).phase = "done"
    BY DEF Ended, Fresh
  <2> QED
    BY <2>1, <2>2 DEF UndoIsOwn, At
<1>3. CASE Aggregate \/ WindowPasses \/ DefenceLapses \/ Midnight \/ SpotRemoved
  BY <1>1, <1>3 DEF Aggregate, WindowPasses, DefenceLapses, Midnight, SpotRemoved
<1>4. ASSUME NEW u \in Visitors,
             \/ CheckIn(u) \/ VisitWindowLapses(u) \/ Penalty(u) \/ UserRemoved(u) \/ PurgeUserKeys(u)
      PROVE  UndoIsOwn'
  BY <1>1, <1>4 DEF CheckIn, VisitWindowLapses, Penalty, UserRemoved, PurgeUserKeys
<1>5. CASE UNCHANGED visitVars
  BY <1>1, <1>5 DEF visitVars
<1> QED
  BY <1>2, <1>3, <1>4, <1>5, StepIsOwn DEF VisitsNext

(* A defence that a stored claim relies on ends with its time, or by the undo of a claim    *)
(* that had created a key: no failing claim that found the key there takes it away          *)
(* (`defense.created` in the undo of visit).                                                *)
THEOREM DefenceIsKept == VisitsSpec => EarnedDefenceStays
<1> DEFINE Spent == events' < events \/ \E a \in Attempts : TakesBack(a) /\ ~At(a, "undoDefence")'
<1>1. ASSUME VisitsInv, UndoIsOwn, events \in Nat, VisitsNext, defence # None, defence' = None
      PROVE  Spent
  <2>1. CASE Happens
    BY <1>1, <2>1 DEF Happens
  <2>2. ASSUME NEW a \in Attempts, UndoDefence(a) PROVE TakesBack(a) /\ ~At(a, "undoDefence")'
    <3>1. At(a, "undoDefence") /\ att'[a].phase = "undoGate"
      BY <1>1, <2>2 DEF UndoDefence, GoTo, VisitsInv, StateTyped, Visit
    <3> QED
      BY <1>1, <2>2, <3>1 DEF TakesBack, UndoIsOwn, At
  <2>3. ASSUME NEW a \in Attempts, Defend(a) PROVE FALSE
    BY <1>1, <2>3 DEF Defend
  <2>4. ASSUME NEW a \in Attempts,
               \/ Ask(a) \/ Gate(a) \/ Recheck(a) \/ RecheckFails(a) \/ ClaimRead(a)
               \/ Commit(a) \/ CommitMissing(a) \/ StepFails(a) \/ Upload(a) \/ UndoGate(a) \/ UndoImage(a)
        PROVE  FALSE
    BY <1>1, <2>4 DEF Ask, Gate, Recheck, RecheckFails, ClaimRead, Commit, CommitMissing, StepFails, Upload,
       UndoGate, UndoImage, keys
  <2>5. ASSUME NEW u \in Visitors,
               \/ CheckIn(u) \/ VisitWindowLapses(u) \/ Penalty(u) \/ UserRemoved(u) \/ PurgeUserKeys(u)
        PROVE  FALSE
    BY <1>1, <2>5 DEF CheckIn, VisitWindowLapses, Penalty, UserRemoved, PurgeUserKeys, keys
  <2>6. CASE Aggregate \/ WindowPasses \/ Midnight \/ SpotRemoved \/ Crash
    BY <1>1, <2>6 DEF Aggregate, WindowPasses, Midnight, SpotRemoved, Crash, keys
  <2>7. CASE DefenceLapses
    BY <2>1, <2>7 DEF DefenceLapses
  <2> QED
    BY <1>1, <2>2, <2>3, <2>4, <2>5, <2>6, <2>7 DEF VisitsNext
<1>2. VisitsInit => VisitsInv /\ UndoIsOwn /\ events \in Nat
  BY VisitsInitially, VisitsAssumption DEF VisitsInit, UndoIsOwn, At, Fresh
<1>3. events \in Nat /\ [VisitsNext]_visitVars => events' \in Nat
  <2> SUFFICES ASSUME events \in Nat, [VisitsNext]_visitVars PROVE events' \in Nat
    OBVIOUS
  <2>1. CASE Happens
    BY <2>1 DEF Happens
  <2>2. CASE UNCHANGED events
    BY <2>2
  <2>3. ASSUME NEW a \in Attempts,
               \/ Ask(a) \/ Gate(a)
               \/ Defend(a) \/ Recheck(a) \/ RecheckFails(a) \/ ClaimRead(a)
               \/ Commit(a) \/ CommitMissing(a) \/ StepFails(a) \/ Upload(a)
               \/ UndoDefence(a) \/ UndoGate(a) \/ UndoImage(a)
        PROVE  Happens \/ UNCHANGED events
    BY <2>3 DEF Ask, Gate, Defend, Recheck, RecheckFails, ClaimRead, Commit, CommitMissing, StepFails, Upload,
       UndoDefence, UndoGate, UndoImage, history
  <2>4. ASSUME NEW u \in Visitors,
               \/ CheckIn(u) \/ VisitWindowLapses(u) \/ Penalty(u) \/ UserRemoved(u) \/ PurgeUserKeys(u)
        PROVE  Happens \/ UNCHANGED events
    BY <2>4 DEF CheckIn, VisitWindowLapses, Penalty, UserRemoved, PurgeUserKeys, history
  <2>5. CASE Aggregate \/ WindowPasses \/ DefenceLapses \/ Midnight \/ SpotRemoved \/ Crash
    BY <2>1, <2>5 DEF Aggregate, WindowPasses, DefenceLapses, Midnight, SpotRemoved, Crash
  <2>6. CASE UNCHANGED visitVars
    BY <2>2, <2>6 DEF visitVars
  <2> QED
    BY <2>1, <2>2, <2>3, <2>4, <2>5, <2>6 DEF VisitsNext
<1>4. (VisitsInv /\ UndoIsOwn /\ events \in Nat) /\ [VisitsNext]_visitVars => (VisitsInv /\ UndoIsOwn /\ events \in Nat)'
  BY <1>3, VisitsInductive, UndoStaysOwn
<1>5. (VisitsInv /\ UndoIsOwn /\ events \in Nat) /\ [VisitsNext]_visitVars =>
        [earned /\ defence # None /\ defence' = None => Spent]_visitVars
  BY <1>1 DEF visitVars
<1> QED
  BY <1>2, <1>4, <1>5, PTL DEF VisitsSpec, EarnedDefenceStays

-----------------------------------------------------------------------------
(* A set of numbers has a least one. *)
LEMMA LeastOf ==
  ASSUME NEW T, T \subseteq Nat, T # {}
  PROVE  \E m \in T : \A k \in T : m <= k
<1> DEFINE R == OpToRel(<, Nat)
<1>1. IsWellFoundedOn(R, Nat)
      BY NatLessThanWellFounded
<1> HIDE DEF R
<1>2. PICK m \in T : \A k \in T : <<k, m>> \notin R
      BY <1>1, WFMin
<1>3. \A k \in T : ~(k < m)
      BY <1>2 DEF R, OpToRel
<1> QED BY <1>3

(* Induction, with the set of what has the property in place of the property.              *)
LEMMA NatsByOne ==
  ASSUME NEW G, 0 \in G, \A n \in Nat : n \in G => n + 1 \in G
  PROVE  Nat \subseteq G
<1> SUFFICES ASSUME Nat \ G # {} PROVE FALSE
    OBVIOUS
<1>1. PICK m \in Nat \ G : \A k \in Nat \ G : m <= k
    BY LeastOf
<1>2. m # 0 /\ m - 1 \in Nat
    BY <1>1
<1>3. m - 1 \in G
    BY <1>1, <1>2
<1> QED
    BY <1>1, <1>2, <1>3

Some(T) == CHOOSE x \in T : TRUE

LEMMA SomeIsIn == \A T : T # {} => Some(T) \in T
BY DEF Some

LEMMA SubsetsByOne ==
  ASSUME NEW S, IsFiniteSet(S), NEW G, {} \in G,
         \A T \in SUBSET S : T # {} /\ T \ {Some(T)} \in G => T \in G
  PROVE  SUBSET S \subseteq G
<1> DEFINE N == {n \in Nat : \A T \in SUBSET S : Cardinality(T) = n => T \in G}
<1>1. \A T \in SUBSET S : IsFiniteSet(T) /\ Cardinality(T) \in Nat
    BY FS_Subset, FS_CardinalityType
<1>2. 0 \in N
    BY <1>1, FS_EmptySet
<1>3. ASSUME NEW n \in Nat, n \in N PROVE n + 1 \in N
  <2> SUFFICES ASSUME NEW T \in SUBSET S, Cardinality(T) = n + 1 PROVE T \in G
      OBVIOUS
  <2>1. T # {}
      BY FS_EmptySet
  <2>2. Some(T) \in T
      BY <2>1, SomeIsIn
  <2>3. Cardinality(T \ {Some(T)}) = n
      BY <2>2, <1>1, FS_RemoveElement
  <2> QED
      BY <1>3, <2>1, <2>3
<1> HIDE DEF N
<1>4. Nat \subseteq N
    BY <1>2, <1>3, NatsByOne
<1> QED
    BY <1>4, <1>1 DEF N

-----------------------------------------------------------------------------
(* The sum over a set is what its definition says. *)
Sum(g, S) == MapThenSumSet(LAMBDA x : g[x], S)
Added(g, h, T) == IF T = {} THEN 0 ELSE g[Some(T)] + h[T \ {Some(T)}]

LEMMA SumsExist ==
  ASSUME NEW S, IsFiniteSet(S), NEW g
  PROVE  \E h : h = [T \in SUBSET S |-> Added(g, h, T)]
<1> DEFINE Small(n) == {T \in SUBSET S : Cardinality(T) <= n}
           N == {n \in Nat : \E h : \A T \in Small(n) : h[T] = Added(g, h, T)}
<1>1. \A T \in SUBSET S : IsFiniteSet(T) /\ Cardinality(T) \in Nat /\ (Cardinality(T) = 0 <=> T = {})
    BY FS_Subset, FS_CardinalityType, FS_EmptySet
<1>2. 0 \in N
  <2> DEFINE h == [T \in Small(0) |-> 0]
  <2>1. \A T \in Small(0) : T = {}
      BY <1>1
  <2>2. \A T \in Small(0) : h[T] = Added(g, h, T)
      BY <2>1 DEF Added
  <2> QED
      BY <2>2
<1>3. ASSUME NEW n \in Nat, n \in N PROVE n + 1 \in N
  <2>1. PICK h : \A T \in Small(n) : h[T] = Added(g, h, T)
      BY <1>3
  <2> DEFINE k == [T \in Small(n + 1) |-> Added(g, h, T)]
  <2>2. Small(n) \subseteq Small(n + 1)
      BY <1>1
  <2>3. \A T \in Small(n) : k[T] = h[T]
      BY <2>1, <2>2
  <2>4. ASSUME NEW T \in Small(n + 1) PROVE k[T] = Added(g, k, T)
    <3>1. CASE T = {}
        BY <3>1 DEF Added
    <3>2. CASE T # {}
      <4>1. Some(T) \in T
          BY <3>2, SomeIsIn
      <4>2. Cardinality(T \ {Some(T)}) = Cardinality(T) - 1
          BY <4>1, <1>1, FS_RemoveElement
      <4>3. T \ {Some(T)} \in Small(n)
          BY <4>2, <1>1
      <4>4. k[T \ {Some(T)}] = h[T \ {Some(T)}]
          BY <4>3, <2>3
      <4> QED
          BY <4>4, <3>2 DEF Added
    <3> QED
        BY <3>1, <3>2
  <2> HIDE DEF k, Small
  <2> QED
      BY <2>4
<1> HIDE DEF N
<1>4. Cardinality(S) \in N
    BY <1>1, <1>2, <1>3, NatsByOne
<1>5. Small(Cardinality(S)) = SUBSET S
    BY FS_Subset, <1>1
<1>6. PICK h : \A T \in SUBSET S : h[T] = Added(g, h, T)
    BY <1>4, <1>5 DEF N
<1> DEFINE k == [T \in SUBSET S |-> h[T]]
<1>7. \A T \in SUBSET S : Added(g, k, T) = Added(g, h, T)
    BY DEF Added
<1>8. k = [T \in SUBSET S |-> Added(g, k, T)]
    BY <1>6, <1>7
<1> QED
    BY <1>8

Iterated(g, S) == CHOOSE h : h = [T \in SUBSET S |-> Added(g, h, T)]

LEMMA SumIsIterated == \A g, S : Sum(g, S) = Iterated(g, S)[S]
BY DEF Sum, MapThenSumSet, MapThenFoldSet, Iterated, Added, Some

LEMMA IteratedAdds ==
  ASSUME NEW S, IsFiniteSet(S), NEW g
  PROVE  \A T \in SUBSET S : Iterated(g, S)[T] = Added(g, Iterated(g, S), T)
<1>1. Iterated(g, S) = [T \in SUBSET S |-> Added(g, Iterated(g, S), T)]
    BY SumsExist DEF Iterated
<1> QED
    BY <1>1

(* A sum of positive numbers is one, and positive if there is something to add. *)
LEMMA SumIsPositive ==
  ASSUME NEW S, IsFiniteSet(S), NEW g, \A x \in S : g[x] \in Nat \ {0}
  PROVE  /\ Sum(g, S) \in Nat
         /\ S # {} => Sum(g, S) > 0
<1> DEFINE sum == Iterated(g, S)
           G == {T \in SUBSET S : sum[T] \in Nat /\ (T # {} => sum[T] > 0)}
<1>1. \A T \in SUBSET S : sum[T] = Added(g, sum, T)
    BY IteratedAdds
<1> HIDE DEF sum
<1>2. {} \in G
  <2>1. sum[{}] = 0
      BY <1>1 DEF Added
  <2> QED
      BY <2>1
<1>3. ASSUME NEW T \in SUBSET S, T # {}, T \ {Some(T)} \in G PROVE T \in G
  <2>1. Some(T) \in S
      BY <1>3, SomeIsIn
  <2>2. sum[T] = g[Some(T)] + sum[T \ {Some(T)}]
      BY <1>1, <1>3 DEF Added
  <2> QED
      BY <1>3, <2>1, <2>2
<1> HIDE DEF G
<1>4. S \in G
    BY <1>2, <1>3, SubsetsByOne
<1> QED
    BY <1>4, SumIsIterated DEF G, sum

(* What is true of the terms up to a difference is true of the sums up to that difference  *)
(* for every term.                                                                         *)
LEMMA SumsAreClose ==
  ASSUME NEW S, IsFiniteSet(S), NEW g, NEW w,
         \A x \in S : g[x] \in Int /\ w[x] \in Int,
         NEW a \in Int, NEW b \in Int, NEW c \in Int,
         \A x \in S : a * w[x] - b * g[x] \in -c..c
  PROVE  /\ Sum(g, S) \in Int /\ Sum(w, S) \in Int
         /\ a * Sum(w, S) - b * Sum(g, S) \in -(c * Cardinality(S))..c * Cardinality(S)
<1> DEFINE sg == Iterated(g, S)
           sw == Iterated(w, S)
           Close(T) == /\ sg[T] \in Int /\ sw[T] \in Int
                       /\ a * sw[T] - b * sg[T] \in -(c * Cardinality(T))..c * Cardinality(T)
           G == {T \in SUBSET S : Close(T)}
<1>1. \A T \in SUBSET S : sg[T] = Added(g, sg, T) /\ sw[T] = Added(w, sw, T)
    BY IteratedAdds
<1>2. \A T \in SUBSET S : IsFiniteSet(T) /\ Cardinality(T) \in Nat
    BY FS_Subset, FS_CardinalityType
<1> HIDE DEF sg, sw
<1>3. {} \in G
  <2>1. sg[{}] = 0 /\ sw[{}] = 0 /\ Cardinality({}) = 0
      BY <1>1, FS_EmptySet DEF Added
  <2> QED
      BY <2>1
<1>4. ASSUME NEW T \in SUBSET S, T # {}, T \ {Some(T)} \in G PROVE T \in G
  <2> DEFINE x == Some(T)
             R == T \ {x}
  <2>1. x \in T /\ x \in S
      BY <1>4, SomeIsIn
  <2>2. sg[T] = g[x] + sg[R] /\ sw[T] = w[x] + sw[R]
      BY <1>1, <1>4 DEF Added
  <2>3. R \in SUBSET S /\ Close(R)
      BY <1>4
  <2>4. Cardinality(R) \in Nat /\ Cardinality(T) = Cardinality(R) + 1
      BY <2>1, <1>2, FS_RemoveElement
  <2> HIDE DEF x, R
  <2>5. sg[T] \in Int /\ sw[T] \in Int
      BY <2>1, <2>2, <2>3
  <2>6. a * sw[T] - b * sg[T] = (a * w[x] - b * g[x]) + (a * sw[R] - b * sg[R])
      BY <2>1, <2>2, <2>3
  <2>7. c * Cardinality(T) = c * Cardinality(R) + c
      BY <2>4
  <2>8. a * w[x] - b * g[x] \in -c..c
      BY <2>1
  <2> DEFINE d == a * w[x] - b * g[x]
             e == a * sw[R] - b * sg[R]
             k == c * Cardinality(R)
  <2>9. d \in -c..c /\ e \in -k..k /\ k \in Int
      BY <2>3, <2>4, <2>8
  <2> HIDE DEF d, e, k
  <2>10. d + e \in -(k + c)..k + c
      BY <2>9
  <2> QED
      BY <2>5, <2>6, <2>7, <2>10 DEF d, e, k
<1> HIDE DEF G
<1>5. S \in G
    BY <1>3, <1>4, SubsetsByOne
<1> QED
    BY <1>5, SumIsIterated DEF G, sg, sw


LEMMA SumIsNat ==
  ASSUME NEW S, IsFiniteSet(S), NEW g, \A x \in S : g[x] \in Nat
  PROVE  Sum(g, S) \in Nat
<1> DEFINE sum == Iterated(g, S)
           G == {T \in SUBSET S : sum[T] \in Nat}
<1>1. \A T \in SUBSET S : sum[T] = Added(g, sum, T)
    BY IteratedAdds
<1> HIDE DEF sum
<1>2. {} \in G
  <2>1. sum[{}] = 0
      BY <1>1 DEF Added
  <2> QED
      BY <2>1
<1>3. ASSUME NEW T \in SUBSET S, T # {}, T \ {Some(T)} \in G PROVE T \in G
  <2>1. Some(T) \in S
      BY <1>3, SomeIsIn
  <2>2. sum[T] = g[Some(T)] + sum[T \ {Some(T)}]
      BY <1>1, <1>3 DEF Added
  <2> QED
      BY <1>3, <2>1, <2>2
<1> HIDE DEF G
<1>4. S \in G
    BY <1>2, <1>3, SubsetsByOne
<1> QED
    BY <1>4, SumIsIterated DEF G, sum

(* Of finitely many, one has the most. *)
LEMMA GreatestOf ==
  ASSUME NEW S, IsFiniteSet(S), S # {}, NEW f, \A x \in S : f[x] \in Nat
  PROVE  \E m \in S : \A x \in S : f[x] <= f[m]
<1> DEFINE G == {T \in SUBSET S : T # {} => \E m \in T : \A x \in T : f[x] <= f[m]}
<1>1. {} \in G
    OBVIOUS
<1>2. ASSUME NEW T \in SUBSET S, T # {}, T \ {Some(T)} \in G PROVE T \in G
  <2>1. Some(T) \in T
      BY <1>2, SomeIsIn
  <2>2. CASE T \ {Some(T)} = {}
      BY <2>1, <2>2
  <2>3. CASE T \ {Some(T)} # {}
    <3>1. PICK m \in T \ {Some(T)} : \A x \in T \ {Some(T)} : f[x] <= f[m]
        BY <1>2, <2>3
    <3>2. CASE f[Some(T)] <= f[m]
        BY <2>1, <3>1, <3>2
    <3>3. CASE ~(f[Some(T)] <= f[m])
      <4>1. \A x \in T : f[x] <= f[Some(T)]
          BY <2>1, <3>1, <3>3
      <4> QED
          BY <2>1, <4>1
    <3> QED
        BY <3>2, <3>3
  <2> QED
      BY <2>2, <2>3
<1> HIDE DEF G
<1>3. S \in G
    BY <1>1, <1>2, SubsetsByOne
<1> QED
    BY <1>3 DEF G

-----------------------------------------------------------------------------
(* The aggregation: of a window with events some team wins, and it is one that scored.     *)
Event == [team : Teams, points : {TEAM_BASE_NEW, TEAM_BASE_REVISIT}]

LEMMA WindowIsFinite ==
  ASSUME NEW w \in Seq(Event)
  PROVE  /\ DOMAIN w = 1..Len(w) /\ Len(w) \in Nat /\ IsFiniteSet(DOMAIN w)
         /\ \A i \in DOMAIN w : w[i] \in Event
         /\ Scored(w) \subseteq Teams /\ IsFiniteSet(Scored(w))
<1>1. DOMAIN w = 1..Len(w) /\ Len(w) \in Nat /\ \A i \in DOMAIN w : w[i] \in Event
    OBVIOUS
<1>2. IsFiniteSet(DOMAIN w)
    BY <1>1, FS_Interval
<1>3. Scored(w) \subseteq Teams
    BY <1>1 DEF Scored, Event
<1>4. IsFiniteSet(Scored(w))
  <2> DEFINE F == [i \in DOMAIN w |-> w[i].team]
  <2>1. F \in Surjection(DOMAIN w, Scored(w))
      BY DEF Scored, Surjection
  <2> HIDE DEF F
  <2> QED
      BY <1>2, <2>1, FS_Surjection
<1> QED
    BY <1>1, <1>2, <1>3, <1>4

LEMMA ScoresAreNats ==
  ASSUME NEW w \in Seq(Event), NEW t
  PROVE  ScoreIn(w, t) \in Nat
<1> DEFINE points == [i \in DOMAIN w |-> w[i].points]
           S == {i \in DOMAIN w : w[i].team = t}
<1>1. ScoreIn(w, t) = Sum(points, S)
    BY DEF ScoreIn, Sum
<1>2. IsFiniteSet(S) /\ \A i \in S : points[i] \in Nat
  <2>1. S \subseteq DOMAIN w /\ IsFiniteSet(DOMAIN w)
      BY WindowIsFinite
  <2>2. IsFiniteSet(S)
      BY <2>1, FS_Subset
  <2>3. ASSUME NEW i \in DOMAIN w PROVE points[i] \in Nat
    <3>1. w[i] \in Event
        BY WindowIsFinite
    <3> QED
        BY <3>1 DEF Event, TEAM_BASE_NEW, TEAM_BASE_REVISIT
  <2> QED
      BY <2>2, <2>3
<1> HIDE DEF points, S
<1> QED
    BY <1>1, <1>2, SumIsNat

LEMMA WinnerScored ==
  ASSUME NEW w \in Seq(Event), w # <<>>, NEW current
  PROVE  /\ Winner(w, current) \in Scored(w)
         /\ \A t \in Scored(w) : ScoreIn(w, t) <= ScoreIn(w, Winner(w, current))
<1> DEFINE best == {t \in Scored(w) : \A o \in Scored(w) : ScoreIn(w, o) <= ScoreIn(w, t)}
           f == [t \in Scored(w) |-> ScoreIn(w, t)]
           first == {FirstEvent(w, t) : t \in best}
<1>1. IsFiniteSet(Scored(w)) /\ \A t \in Scored(w) : f[t] \in Nat
    BY WindowIsFinite, ScoresAreNats
<1>2. Scored(w) # {}
  <2>1. DOMAIN w = 1..Len(w) /\ Len(w) \in Nat /\ Len(w) # 0
      OBVIOUS
  <2>2. 1 \in DOMAIN w
      BY <2>1
  <2> QED
      BY <2>2 DEF Scored
<1>3. PICK m \in Scored(w) : \A t \in Scored(w) : f[t] <= f[m]
  <2> HIDE DEF f
  <2> QED
      BY <1>1, <1>2, GreatestOf
<1>4. best # {}
    BY <1>3
<1>5. ASSUME NEW t \in Scored(w) PROVE FirstEvent(w, t) \in Nat
  <2> DEFINE I == {i \in DOMAIN w : w[i].team = t}
  <2>1. I \subseteq Nat /\ I # {}
      BY WindowIsFinite DEF Scored
  <2>2. PICK i \in I : \A k \in I : i <= k
      BY <2>1, LeastOf
  <2>3. i \in DOMAIN w /\ w[i].team = t /\ \A j \in 1..i - 1 : w[j].team # t
    <3>1. ASSUME NEW j \in 1..i - 1, w[j].team = t PROVE FALSE
      <4>1. j \in DOMAIN w /\ j < i /\ j \in Nat
          BY WindowIsFinite
      <4> QED
          BY <4>1, <3>1, <2>2
    <3> QED
        BY <3>1, <2>2
  <2>4. FirstEvent(w, t) \in DOMAIN w
      BY <2>3 DEF FirstEvent
  <2> QED
      BY <2>4, WindowIsFinite
<1>6. first \subseteq Nat /\ first # {}
    BY <1>4, <1>5
<1>7. PICK k \in first : \A o \in first : k <= o
    BY <1>6, LeastOf
<1>8. \E t \in best : \A o \in best : FirstEvent(w, t) <= FirstEvent(w, o)
    BY <1>7
<1>9. Winner(w, current) \in best
    BY <1>8 DEF Winner
<1> QED
    BY <1>9

-----------------------------------------------------------------------------
(* The types.  A district goes to a team because a team wins the window, its points are a  *)
(* number because the window is finite, and every midnight costs an event.                 *)
Rest ==
  /\ asked \in Asked /\ spot \in BOOLEAN /\ holder \in Teams \union {None} /\ window \in Seq(Event)
  /\ district \in Teams \union {None} /\ snapshot \in [team : Teams \union {None}, score : Nat]
  /\ penalty \subseteq Visitors /\ checkedIn \subseteq Visitors
  /\ events \in Nat /\ day + events <= MaxEvents /\ lost \subseteq {"defence", "gate", "image"}

LEMMA RestAtFirst == VisitsInit => Rest
<1> SUFFICES ASSUME VisitsInit PROVE Rest
  OBVIOUS
<1>1. snapshot \in [team : Teams \union {None}, score : Nat]
  BY DEF VisitsInit
<1>2. window \in Seq(Event)
  BY DEF VisitsInit
<1> QED
  BY <1>1, <1>2, VisitsAssumption DEF VisitsInit, Rest

LEMMA RequestRest ==
  ASSUME VisitsInv, Rest, NEW a \in Attempts,
         \/ Ask(a) \/ Gate(a) \/ Defend(a) \/ Recheck(a) \/ RecheckFails(a) \/ ClaimRead(a)
         \/ CommitMissing(a) \/ StepFails(a) \/ Upload(a) \/ UndoDefence(a) \/ UndoGate(a) \/ UndoImage(a)
  PROVE  Rest'
<1> USE DEF database, keys, history, Happens, VisitsInv, StateTyped
<1>1. UNCHANGED <<database, day, penalty, checkedIn>>
  BY DEF Ask, Gate, Defend, Recheck, RecheckFails, ClaimRead, CommitMissing, StepFails, Upload, UndoDefence, UndoGate, UndoImage
<1>2. lost' \subseteq lost \union {"defence", "gate", "image"}
  <2>1. CASE Ask(a) \/ Gate(a) \/ Defend(a) \/ Recheck(a) \/ ClaimRead(a) \/ CommitMissing(a) \/ Upload(a) \/ StepFails(a)
    BY <2>1 DEF Ask, Gate, Defend, Recheck, ClaimRead, CommitMissing, Upload, StepFails
  <2>2. CASE RecheckFails(a)
    BY <2>2 DEF RecheckFails
  <2>3. CASE UndoDefence(a)
    BY <2>3 DEF UndoDefence
  <2>4. CASE UndoGate(a)
    BY <2>4 DEF UndoGate
  <2>5. CASE UndoImage(a)
    BY <2>5 DEF UndoImage
  <2> QED
    BY <2>1, <2>2, <2>3, <2>4, <2>5
<1>3. events' = events \/ (events > 0 /\ events' = events - 1)
  <2>1. CASE Ask(a) \/ Gate(a) \/ Recheck(a) \/ ClaimRead(a) \/ CommitMissing(a) \/ Upload(a)
    BY <2>1 DEF Ask, Gate, Recheck, ClaimRead, CommitMissing, Upload
  <2>2. CASE Defend(a)
    BY <2>2 DEF Defend
  <2>3. CASE RecheckFails(a) \/ StepFails(a)
    BY <2>3 DEF RecheckFails, StepFails
  <2>4. CASE UndoDefence(a)
    BY <2>4 DEF UndoDefence
  <2>5. CASE UndoGate(a)
    BY <2>5 DEF UndoGate
  <2>6. CASE UndoImage(a)
    BY <2>6 DEF UndoImage
  <2> QED
    BY <2>1, <2>2, <2>3, <2>4, <2>5, <2>6
<1>4. events' \in Nat /\ day + events' <= MaxEvents
  BY <1>3, VisitsAssumption DEF Rest
<1> QED
  BY <1>1, <1>2, <1>4 DEF Rest

LEMMA CommitRest == ASSUME VisitsInv, Rest, NEW a \in Attempts, Commit(a) PROVE Rest'
<1> USE DEF keys
<1>1. UNCHANGED <<asked, spot, district, snapshot, penalty, checkedIn, day, events, lost>> /\ Me(a) \in users
  BY DEF Commit
<1>2. CASE att[a].kind = "claim"
  <2>1. MyTeam(a) \in Teams
    BY <1>1, VisitsAssumption DEF MyTeam, VisitsInv, StateTyped
  <2>2. StoreClaim(a)
    BY <1>2 DEF Commit
  <2>3. [team |-> MyTeam(a), points |-> Points(att[a].type)] \in Event
    BY <2>1 DEF Event, Points
  <2>4. window' \in Seq(Event)
    BY <2>2, <2>3 DEF StoreClaim, Rest
  <2> QED
    BY <1>1, <2>1, <2>2, <2>4 DEF StoreClaim, Rest
<1>3. CASE att[a].kind # "claim"
  <2>1. UNCHANGED <<holder, window>>
    BY <1>3 DEF Commit, AwardBonus
  <2> QED
    BY <1>1, <2>1 DEF Rest
<1> QED
  BY <1>2, <1>3

LEMMA AggregateRest == ASSUME VisitsInv, Rest, Aggregate PROVE Rest'
<1> USE DEF keys, happened, Happens
<1>1. UNCHANGED <<asked, spot, holder, window, penalty, checkedIn, day, lost>> /\ events > 0 /\ events' = events - 1
  BY DEF Aggregate
<1>2. district' \in Teams \union {None}
  <2>1. CASE window = <<>>
    BY <2>1 DEF Aggregate, Rest
  <2>2. CASE window # <<>>
    <3>1. window \in Seq(Event)
      BY DEF Rest
    <3>2. Winner(window, district) \in Scored(window) /\ Scored(window) \subseteq Teams
      BY <2>2, <3>1, WinnerScored, WindowIsFinite
    <3> QED
      BY <2>2, <3>2 DEF Aggregate
  <2> QED
    BY <2>1, <2>2
<1>3. snapshot' \in [team : Teams \union {None}, score : Nat]
  <2>1. CASE district' = None
    BY <2>1 DEF Aggregate, Rest
  <2>2. CASE district' # None
    <3>1. ScoreIn(window, district') \in Nat
      BY ScoresAreNats DEF Rest
    <3>2. snapshot' = [team |-> district', score |-> ScoreIn(window, district')]
      BY <2>2 DEF Aggregate
    <3> QED
      BY <1>2, <3>1, <3>2
  <2> QED
    BY <2>1, <2>2
<1>4. events' \in Nat /\ day' + events' <= MaxEvents
  BY <1>1, VisitsAssumption DEF Rest, VisitsInv, StateTyped
<1> QED
  BY <1>1, <1>2, <1>3, <1>4 DEF Rest

LEMMA WorldRest ==
  ASSUME VisitsInv, Rest,
         \/ WindowPasses \/ DefenceLapses \/ Midnight \/ SpotRemoved \/ Crash
         \/ \E u \in Visitors : CheckIn(u) \/ VisitWindowLapses(u) \/ Penalty(u) \/ UserRemoved(u) \/ PurgeUserKeys(u)
  PROVE  Rest'
<1> USE DEF database, keys, history, happened, Happens, VisitsInv, StateTyped
<1>1. UNCHANGED <<asked, holder, district, snapshot>>
  BY DEF WindowPasses, DefenceLapses, Midnight, SpotRemoved, Crash, CheckIn, VisitWindowLapses, Penalty, UserRemoved, PurgeUserKeys
<1>2. window' \in Seq(Event)
  <2>1. CASE WindowPasses
    BY <2>1 DEF WindowPasses, Rest
  <2>2. CASE ~WindowPasses
    <3>1. window' = window
      BY <2>2 DEF DefenceLapses, Midnight, SpotRemoved, Crash, CheckIn, VisitWindowLapses, Penalty, UserRemoved, PurgeUserKeys
    <3> QED
      BY <3>1 DEF Rest
  <2> QED
    BY <2>1, <2>2
<1>3. spot' \in BOOLEAN
  BY DEF WindowPasses, DefenceLapses, Midnight, SpotRemoved, Crash, CheckIn, VisitWindowLapses, Penalty, UserRemoved, PurgeUserKeys, Rest
<1>4. penalty' \subseteq Visitors /\ checkedIn' \subseteq Visitors
  BY DEF WindowPasses, DefenceLapses, Midnight, SpotRemoved, Crash, CheckIn, VisitWindowLapses, Penalty, UserRemoved, PurgeUserKeys, Rest
<1>5. \/ day' = day /\ events' = events
      \/ day' \in {day, day + 1} /\ events > 0 /\ events' = events - 1
  BY DEF WindowPasses, DefenceLapses, Midnight, SpotRemoved, Crash, CheckIn, VisitWindowLapses, Penalty, UserRemoved, PurgeUserKeys
<1>6. lost' \subseteq {"defence", "gate", "image"}
  BY DEF WindowPasses, DefenceLapses, Midnight, SpotRemoved, Crash, CheckIn, VisitWindowLapses, Penalty, UserRemoved, PurgeUserKeys, Rest
<1> QED
  BY <1>1, <1>2, <1>3, <1>4, <1>5, <1>6, VisitsAssumption DEF Rest

LEMMA RestInductive == VisitsInv /\ Rest /\ [VisitsNext]_visitVars => Rest'
<1> SUFFICES ASSUME VisitsInv, Rest, [VisitsNext]_visitVars PROVE Rest'
  OBVIOUS
<1>1. CASE UNCHANGED visitVars
  BY <1>1 DEF visitVars, Rest
<1>2. ASSUME NEW a \in Attempts,
             \/ Ask(a) \/ Gate(a)
             \/ Defend(a) \/ Recheck(a) \/ RecheckFails(a) \/ ClaimRead(a)
             \/ Commit(a) \/ CommitMissing(a) \/ StepFails(a) \/ Upload(a)
             \/ UndoDefence(a) \/ UndoGate(a) \/ UndoImage(a)
      PROVE  Rest'
  BY <1>2, RequestRest, CommitRest
<1> QED
  BY <1>1, <1>2, AggregateRest, WorldRest DEF VisitsNext

LEMMA VisitsAreTyped == ASSUME VisitsInv, NothingLeft, Rest PROVE VisitsTypeOK
<1> USE VisitsAssumption
<1>1. day \in 0..MaxEvents /\ events \in 0..MaxEvents
  BY DEF Rest, VisitsInv, StateTyped
<1>2. ASSUME NEW a \in Attempts
      PROVE  att[a] \in [phase : Phases, user : Visitors \union {None}, kind : Kinds \union {None}, day : 0..MaxEvents,
                         created : BOOLEAN, type : {None, "CLAIM_NEW", "CLAIM_REVISIT"},
                         answer : {None, "ok", "failed", "noSpot", "noUser"}]
  <2>1. att[a] \in Visit /\ att[a].day <= day
    BY DEF VisitsInv, StateTyped, AttemptsAreMade
  <2>2. att[a].day \in 0..MaxEvents
    BY <1>1, <2>1 DEF Visit
  <2> QED
    BY <2>1, <2>2 DEF Visit
<1>3. att \in [Attempts ->
       [phase : {"idle", "gate", "defend", "recheck", "transact", "upload",
                 "commit", "undoDefence", "undoGate", "undoImage", "done"},
        user : Visitors \union {None}, kind : Kinds \union {None}, day : 0..MaxEvents,
        created : BOOLEAN, type : {None, "CLAIM_NEW", "CLAIM_REVISIT"},
        answer : {None, "ok", "failed", "noSpot", "noUser"}]]
  BY <1>2 DEF VisitsInv, StateTyped, Phases
<1>4. /\ users \subseteq Visitors /\ stored \subseteq Attempts
      /\ gate \in [Visitors -> [Kinds -> Attempts \union {None}]]
  BY DEF VisitsInv, StateTyped
<1>5. objects \subseteq Attempts /\ defence \in Teams \union {None} /\ earned \in BOOLEAN
  BY DEF NothingLeft, KeysTyped
<1> QED
  BY <1>1, <1>3, <1>4, <1>5 DEF Rest, Event, VisitsTypeOK

(* The rows, keys, attempts and the ledger of a spot are always what they should be: in    *)
(* particular the winner of an aggregation is a team and its score a number.               *)
THEOREM VisitsTyped == VisitsSpec => []VisitsTypeOK
<1>1. VisitsInit => VisitsInv /\ NothingLeft /\ Rest
  BY VisitsInitially, NothingAtFirst, RestAtFirst
<1>2. (VisitsInv /\ NothingLeft /\ Rest) /\ [VisitsNext]_visitVars => (VisitsInv /\ NothingLeft /\ Rest)'
  BY VisitsInductive, NothingLeftInductive, RestInductive
<1>3. VisitsInv /\ NothingLeft /\ Rest => VisitsTypeOK
  BY VisitsAreTyped
<1> QED
  BY <1>1, <1>2, <1>3, PTL DEF VisitsSpec
=============================================================================
