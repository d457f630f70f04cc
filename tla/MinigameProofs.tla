--------------------------- MODULE MinigameProofs ---------------------------
(***************************************************************************)
(* Proofs about Minigame for any number of rounds, kinds of game, scores,  *)
(* failures, restarts and submissions: no round starts twice, nobody loses *)
(* by default before the deadline of his own round, the result is the one  *)
(* that was committed, told and played for, and who answers the signal is  *)
(* no false start.  With one failure at most, of a deadline, an accepted   *)
(* duel always has somebody who will end its game.                         *)
(*                                                                         *)
(* The argument follows the right to settle a round.  One handler at most  *)
(* holds it, and a round is reached only when every round before it was    *)
(* passed: its right is taken and nobody holds it any more but to open the *)
(* next one.  So whoever commits a result is in the last round there is,   *)
(* and whoever holds the right is in the round the session is in.          *)
(***************************************************************************)
EXTENDS Minigame, TLAPS

Active == {"store", "stamp", "claim"} \union Settling
AllThere(r) == \A p \in Players : score[r][p] # NO_SUBMIT

CoreTyped ==
  /\ row \in {"ACCEPTED", "COMPLETED", "VOID"} /\ winner \in Players \union {Nobody}
  /\ session \in [round : 0 .. MAX_ROUNDS, type : Types \union {"TAP"}]
  /\ score \in [Rounds -> [Players -> Scores]]
  /\ call \in [Handlers -> CallType]
  /\ claimed \subseteq Rounds /\ started \in [Rounds -> Nat]
RestTyped ==
  /\ go \subseteq Rounds /\ signalled \subseteq Rounds
  /\ timers \subseteq Rounds \X (1 .. GAME_EXPIRE_MAX_ATTEMPTS)
  /\ signal \in [Rounds -> {"off", "armed", "read", "emit"}]
  /\ left \in [failures : 0 .. MaxFailures, crashes : 0 .. MaxCrashes,
              sends : [Players -> 0 .. MaxSends]]

(* A call is where a handler of its kind can be, and a deadline's is of its round.        *)
Fits(h, q) ==
  /\ h = Accepting => q.phase \in {"idle", "greet", "start", "open", "discard", "abort", "inform"}
  /\ \A p \in Players : h = Submit(p) => q.phase \in {"idle", "read", "store", "stamp", "claim"} \union Settling
  /\ \A r \in Rounds : h = Deadline(r) =>
       /\ q.phase \in {"idle", "expire", "load", "claim"} \union Settling
       /\ q.phase # "idle" => q.round = r
CallsFit == \A h \in Handlers : Fits(h, call[h])

(* A submission goes on to settle only when both players' are there.                      *)
Both(h, q) ==
  h \in Submits /\ (q.phase = "claim" \/ (q.phase = "stamp" /\ q.both)) => AllThere(q.round)
BothAreThere == \A h \in Handlers : Both(h, call[h])

(* Who settles a round has its right, alone.                                              *)
OneHolder ==
  /\ \A h \in Handlers : call[h].phase \in Settling => call[h].round \in claimed
  /\ \A g, h \in Handlers :
       call[g].phase \in Settling /\ call[h].phase \in Settling /\ call[g].round = call[h].round => g = h

(* What was decided with the right stays so: a rematch has a round to go to, a winner has *)
(* sent something, and who tells of an end has seen it committed.                         *)
Stands(q) ==
  /\ q.phase \in {"rematch", "reopen"} => q.round < MAX_ROUNDS
  /\ q.phase \in {"finish", "commit"} => q.winner \in Players /\ score[q.round][q.winner] # NO_SUBMIT
  /\ q.phase \in {"clean", "tell", "inform"} => row # "ACCEPTED"
DecisionStands == \A h \in Handlers : Stands(call[h])

(* A round is reached when all before it were passed: settled, and left for the next.     *)
Passed(j) ==
  /\ j \in claimed
  /\ \A h \in Handlers : call[h].phase \in Settling /\ call[h].round = j => call[h].phase = "reopen"
Reached(k) == \A j \in Rounds : j < k => Passed(j)
RoundsInOrder ==
  /\ Reached(session.round)
  /\ \A h \in Handlers : call[h].phase \in Active => Reached(call[h].round)
  /\ \A k \in Rounds : started[k] > 0 => Reached(k)

(* A round that has started will not start again.                                         *)
StartsOnce ==
  /\ \A k \in Rounds : started[k] <= 1
  /\ started[1] > 0 => call[Accepting].phase \notin {"greet", "start", "open"}
  /\ \A k \in Rounds : k > 1 /\ started[k] > 0 =>
       \A h \in Handlers : call[h].phase \in Settling => call[h].round # k - 1

(* The round that decided the duel was reached, and is the last.                          *)
Final(r) ==
  /\ Reached(r)
  /\ \A h \in Handlers : call[h].phase \in Settling /\ call[h].round = r => call[h].phase \in {"clean", "tell"}
  /\ session.round <= r
  /\ \A h \in Handlers : call[h].phase \in Active => call[h].round <= r
  /\ \A k \in Rounds : k > r => started[k] = 0
Decided == row = "COMPLETED" => winner \in Players /\ \E r \in claimed : score[r][winner] # NO_SUBMIT /\ Final(r)

GameInv == /\ CoreTyped /\ CallsFit /\ BothAreThere /\ OneHolder /\ DecisionStands
           /\ RoundsInOrder /\ StartsOnce /\ Decided

-----------------------------------------------------------------------------
LEMMA RoundsAreNats == 1 \in Rounds /\ \A r \in Rounds : r \in Nat /\ r >= 1 /\ r <= MAX_ROUNDS /\ (r < MAX_ROUNDS => r + 1 \in Rounds) /\ (r > 1 => r - 1 \in Rounds)
  BY GameAssumption DEF Rounds

LEMMA AttemptsAreNats == 1 \in 1 .. GAME_EXPIRE_MAX_ATTEMPTS /\ \A a \in 1 .. GAME_EXPIRE_MAX_ATTEMPTS : a \in Nat
  BY GameAssumption

(* Handlers of different kinds, players and rounds are apart.                             *)
LEMMA HandlersApart ==
  /\ Accepting \in Handlers /\ Accepting \notin Submits /\ Accepting \notin Deadlines
  /\ \A p \in Players : Submit(p) \in Handlers /\ Submit(p) \in Submits
                        /\ Submit(p) # Accepting /\ \A r \in Rounds : Submit(p) # Deadline(r)
  /\ \A r \in Rounds : Deadline(r) \in Handlers /\ Deadline(r) \in Deadlines
                       /\ Deadline(r) # Accepting /\ Deadline(r) \notin Submits
                       /\ \A s \in Rounds : Deadline(r) = Deadline(s) => r = s
  /\ \A p, s \in Players : Submit(p) = Submit(s) => p = s
  BY DEF Handlers, Submits, Deadlines, Submit, Deadline, Accepting

LEMMA IdleIsCall == Idle \in CallType /\ Idle.phase = "idle"
  BY RoundsAreNats, AttemptsAreNats DEF Idle, CallType, Phases, Scores

(* A handler that moves on within its call.                                               *)
LEMMA GotoIs ==
  ASSUME CoreTyped, NEW h \in Handlers, NEW f \in Phases
  PROVE  LET q == [call[h] EXCEPT !.phase = f]
         IN  q \in CallType /\ q.phase = f /\ q.round = call[h].round /\ q.winner = call[h].winner /\ q.both = call[h].both
  BY DEF CoreTyped, CallType

(* A handler that enters a phase anew. *)
LEMMA EnteringIs ==
  ASSUME CoreTyped, NEW h \in Handlers, NEW f \in Phases
  PROVE  LET q == Entering(h, f)
         IN  q \in CallType /\ q.phase = f /\ q.round = call[h].round /\ q.both = FALSE
<1>1. call[h] \in CallType
  BY DEF CoreTyped
<1>2. call[h].round \in Rounds /\ call[h].attempt \in 1 .. GAME_EXPIRE_MAX_ATTEMPTS
  BY <1>1 DEF CallType
<1>3. Entering(h, f) \in CallType
  BY <1>2, IdleIsCall DEF Entering, CallType
<1>4. Entering(h, f).phase = f /\ Entering(h, f).round = call[h].round
  BY <1>2, IdleIsCall DEF Entering, CallType
<1>5. Entering(h, f).both = FALSE
  BY DEF Entering, Idle
<1> QED
  BY <1>3, <1>4, <1>5

LEMMA ActivesAreSettling == Settling \subseteq Active /\ Settling \subseteq Phases /\ "idle" \notin Active
  BY DEF Settling, Active, Phases

-----------------------------------------------------------------------------
LEMMA GameInitially == Init => GameInv
<1> SUFFICES ASSUME Init PROVE GameInv
  OBVIOUS
<1> DEFINE greeting == [Idle EXCEPT !.phase = "greet"]
<1>1. greeting \in CallType /\ greeting.phase = "greet"
  BY IdleIsCall DEF CallType, Phases
<1> HIDE DEF greeting
<1>2. \A h \in Handlers : call[h] = IF h = Accepting THEN greeting ELSE Idle
  BY DEF Init, greeting
<1>3. call \in [Handlers -> CallType]
  BY <1>1, IdleIsCall DEF Init, greeting
<1>4. \A h \in Handlers : call[h].phase \in {"idle", "greet"} /\ (h # Accepting => call[h].phase = "idle")
  BY <1>1, <1>2, IdleIsCall
<1>5. CoreTyped
  <2>1. session \in [round : 0 .. MAX_ROUNDS, type : Types \union {"TAP"}]
    BY GameAssumption DEF Init, NoSession
  <2>2. score \in [Rounds -> [Players -> Scores]]
    BY DEF Init, Scores
  <2> QED
    BY <1>3, <2>1, <2>2 DEF Init, CoreTyped
<1>6. session.round = 0 /\ \A k \in Rounds : started[k] = 0
  BY DEF Init, NoSession
<1>7. Reached(0)
  BY RoundsAreNats DEF Reached
<1> QED
  BY <1>4, <1>5, <1>6, <1>7, HandlersApart, RoundsAreNats
     DEF GameInv, CallsFit, Fits, BothAreThere, Both, OneHolder, DecisionStands, Stands, RoundsInOrder, StartsOnce,
         Decided, Settling, Active, Init
-----------------------------------------------------------------------------
(* A handler's next call, when it takes no right, reaches no round but the one of the     *)
(* session, and decides nothing new.                                                      *)
Continues(h, q) ==
  /\ q \in CallType /\ Fits(h, q)
  /\ q.phase \in Settling => /\ call[h].phase \in Settling \ {"reopen"} /\ q.round = call[h].round
                             /\ q.phase \notin {"rematch", "reopen"}
                             /\ call[h].phase \in {"clean", "tell"} => q.phase \in {"clean", "tell"}
  /\ q.phase \in Active => (call[h].phase \in Active /\ q.round = call[h].round) \/ session.round = q.round
  /\ q.phase \in {"finish", "commit"} => call[h].phase \in {"finish", "commit"} /\ q.winner = call[h].winner
  /\ q.phase \in {"greet", "start", "open"} => call[h].phase \in {"greet", "start", "open"}

(* It may start the first round, or the one after its own. *)
StartsRound(h, q) ==
  \/ /\ h = Accepting /\ call[h].phase = "open" /\ q.phase \in {"idle", "discard"}
     /\ started' = [started EXCEPT ![1] = @ + 1]
  \/ /\ call[h].phase = "reopen" /\ q.phase = "idle"
     /\ started' = [started EXCEPT ![call[h].round + 1] = @ + 1]

(* Steps of one handler, or of none when q is its call, that neither take nor give back a *)
(* right, nor decide for a winner.                                                        *)
LEMMA QuietStep ==
  ASSUME GameInv, NEW h \in Handlers, NEW q, Continues(h, q), call' = [call EXCEPT ![h] = q],
         winner' = winner, claimed' = claimed, started' = started \/ StartsRound(h, q),
         row' = row \/ (row = "ACCEPTED" /\ row' = "VOID"),
         session' \in [round : 0 .. MAX_ROUNDS, type : Types \union {"TAP"}],
         session'.round \in {session.round, 0, 1},
         score' \in [Rounds -> [Players -> Scores]],
         \A r \in Rounds, p \in Players : score[r][p] # NO_SUBMIT => score'[r][p] = score[r][p],
         h \in Submits /\ (q.phase = "claim" \/ (q.phase = "stamp" /\ q.both))
           => \A p \in Players : score'[q.round][p] # NO_SUBMIT,
         q.phase \in {"clean", "tell", "inform"} => row' # "ACCEPTED"
  PROVE  GameInv'
<1> USE DEF GameInv
<1>1. call \in [Handlers -> CallType] /\ q \in CallType /\ call'[h] = q
      /\ (\A g \in Handlers \ {h} : call'[g] = call[g]) /\ call' \in [Handlers -> CallType]
  BY DEF CoreTyped, Continues
<1>2. \A g \in Handlers : call[g].round \in Rounds /\ call'[g].round \in Rounds
  BY <1>1 DEF CallType
<1> DEFINE Opening(k) == /\ started[k] = 0 /\ started'[k] = 1
                         /\ \/ k = 1 /\ q.phase \notin {"greet", "start", "open"} /\ h = Accepting
                            \/ k > 1 /\ call[h].phase = "reopen" /\ call[h].round = k - 1 /\ q.phase = "idle"
<1>0. started' \in [Rounds -> Nat] /\ \A k \in Rounds : started'[k] = started[k] \/ Opening(k)
  <2>1. started \in [Rounds -> Nat] /\ \A k \in Rounds : started[k] \in Nat /\ started[k] <= 1
    BY DEF CoreTyped, StartsOnce
  <2>2. CASE started' = started
    BY <2>1, <2>2
  <2>3. CASE h = Accepting /\ call[h].phase = "open" /\ q.phase \in {"idle", "discard"}
             /\ started' = [started EXCEPT ![1] = @ + 1]
    <3>1. started[1] = 0 /\ 1 \in Rounds
      BY <2>1, <2>3, RoundsAreNats DEF StartsOnce
    <3> QED
      BY <2>1, <2>3, <3>1
  <2>4. CASE call[h].phase = "reopen" /\ q.phase = "idle"
             /\ started' = [started EXCEPT ![call[h].round + 1] = @ + 1]
    <3> DEFINE n == call[h].round + 1
    <3>1. call[h].round \in Nat /\ call[h].round >= 1 /\ call[h].round < MAX_ROUNDS
      BY <1>2, <2>4, RoundsAreNats DEF DecisionStands, Stands
    <3>2. n \in Rounds /\ n > 1 /\ call[h].round = n - 1
      BY <1>2, <3>1, RoundsAreNats
    <3> HIDE DEF n
    <3>3. started[n] = 0
      BY <2>1, <2>4, <3>2 DEF StartsOnce, Settling
    <3>4. started' = [started EXCEPT ![n] = @ + 1]
      BY <2>4 DEF n
    <3> QED
      BY <2>1, <2>4, <3>2, <3>3, <3>4
  <2> QED
    BY <2>2, <2>3, <2>4 DEF StartsRound
<1>3. CoreTyped'
  BY <1>0, <1>1 DEF CoreTyped
<1>4. CallsFit'
  BY <1>1 DEF CallsFit, Continues, Fits
<1>5. BothAreThere'
  <2> SUFFICES ASSUME NEW g \in Handlers, g \in Submits,
                      call'[g].phase = "claim" \/ (call'[g].phase = "stamp" /\ call'[g].both),
                      NEW p \in Players
               PROVE  score'[call'[g].round][p] # NO_SUBMIT
    BY DEF BothAreThere, Both, AllThere
  <2>1. CASE g = h
    BY <1>1, <2>1
  <2>2. CASE g # h
    <3>1. score[call[g].round][p] # NO_SUBMIT
      BY <1>1, <2>2 DEF BothAreThere, Both, AllThere
    <3> QED
      BY <1>1, <1>2, <2>2, <3>1
  <2> QED
    BY <2>1, <2>2
<1>6. \A g \in Handlers : call'[g].phase \in Settling =>
        /\ call[g].phase \in Settling /\ call[g].round = call'[g].round
        /\ (call'[g].phase = "reopen" <=> call[g].phase = "reopen")
        /\ call[g].phase \in {"clean", "tell"} => call'[g].phase \in {"clean", "tell"}
  BY <1>1 DEF Continues
<1>7. OneHolder'
  BY <1>6 DEF OneHolder
<1>8. DecisionStands'
  <2> SUFFICES ASSUME NEW g \in Handlers PROVE Stands(call[g])'
    BY DEF DecisionStands
  <2>1. Stands(call[g])
    BY DEF DecisionStands
  <2>2. CASE g = h
    <3>1. call'[g].phase \notin {"rematch", "reopen"}
      BY <1>1, <2>2 DEF Continues, Settling
    <3>2. call'[g].phase \in {"finish", "commit"}
            => call'[g].winner = call[g].winner /\ call[g].phase \in {"finish", "commit"} /\ call'[g].round = call[g].round
      BY <1>1, <2>2 DEF Continues, Settling
    <3> QED
      BY <1>1, <1>2, <2>1, <2>2, <3>1, <3>2 DEF Stands
  <2>3. CASE g # h
    BY <1>1, <1>2, <2>1, <2>3 DEF Stands
  <2> QED
    BY <2>2, <2>3
<1>9. \A j \in Rounds : Passed(j) => Passed(j)'
  BY <1>6 DEF Passed
<1>10. \A k : Reached(k) => Reached(k)'
  BY <1>9 DEF Reached
<1>11. RoundsInOrder'
  <2>1. Reached(session.round)'
    <3>1. CASE session'.round = session.round
      BY <1>10, <3>1 DEF RoundsInOrder, Reached, Passed
    <3>2. CASE session'.round \in {0, 1}
      <4>1. ASSUME NEW j \in Rounds PROVE ~(j < session'.round)
        <5>1. j \in Nat /\ j >= 1
          BY RoundsAreNats
        <5> QED
          BY <3>2, <5>1
      <4> QED
        BY <4>1 DEF Reached
    <3> QED
      BY <3>1, <3>2
  <2>2. ASSUME NEW g \in Handlers, call'[g].phase \in Active PROVE Reached(call[g].round)'
    <3>1. Reached(call'[g].round)
      BY <1>1, <2>2 DEF RoundsInOrder, Continues
    <3> QED
      BY <1>9, <3>1 DEF Reached
  <2>3. ASSUME NEW k \in Rounds, started'[k] > 0 PROVE Reached(k)'
    <3>1. CASE started'[k] = started[k]
      BY <1>10, <2>3, <3>1 DEF RoundsInOrder
    <3>2. CASE Opening(k) /\ k = 1
      BY <3>2, RoundsAreNats DEF Reached
    <3>3. CASE Opening(k) /\ k > 1
      <4>1. call[h].phase = "reopen" /\ call[h].round = k - 1 /\ q.phase = "idle"
        BY <3>3
      <4>2. Reached(call[h].round)
        BY <4>1 DEF RoundsInOrder, Active, Settling
      <4>3. SUFFICES ASSUME NEW j \in Rounds, j < k PROVE Passed(j)'
        BY DEF Reached
      <4>4. j \in Nat /\ k \in Nat /\ call[h].round \in Nat
        BY <1>2, RoundsAreNats
      <4>5. CASE j = call[h].round
        <5>1. j \in claimed /\ \A g \in Handlers \ {h} : call[g].phase \in Settling => call[g].round # j
          BY <4>1, <4>5 DEF OneHolder, Settling
        <5>2. call'[h].phase \notin Settling
          BY <1>1, <4>1 DEF Settling
        <5> QED
          BY <1>1, <5>1, <5>2 DEF Passed
      <4>6. CASE j < call[h].round
        BY <1>9, <4>2, <4>6 DEF Reached
      <4> QED
        BY <4>1, <4>3, <4>4, <4>5, <4>6
    <3> QED
      BY <1>0, <3>1, <3>2, <3>3, RoundsAreNats
  <2> QED
    BY <2>1, <2>2, <2>3 DEF RoundsInOrder
<1>12. StartsOnce'
  <2>1. \A k \in Rounds : started'[k] <= 1
    BY <1>0 DEF StartsOnce
  <2>2. started'[1] > 0 => call'[Accepting].phase \notin {"greet", "start", "open"}
    BY <1>0, <1>1, HandlersApart, RoundsAreNats DEF StartsOnce, Continues
  <2>3. ASSUME NEW k \in Rounds, k > 1, started'[k] > 0, NEW g \in Handlers, call'[g].phase \in Settling
        PROVE  call'[g].round # k - 1
    <3>1. CASE started'[k] = started[k]
      BY <1>6, <2>3, <3>1 DEF StartsOnce
    <3>2. CASE Opening(k)
      BY <1>1, <1>6, <2>3, <3>2 DEF OneHolder, Settling
    <3> QED
      BY <1>0, <3>1, <3>2
  <2> QED
    BY <2>1, <2>2, <2>3 DEF StartsOnce
<1>13. Decided'
  <2> SUFFICES ASSUME row' = "COMPLETED"
               PROVE  winner' \in Players /\ \E r \in claimed' : score'[r][winner'] # NO_SUBMIT /\ Final(r)'
    BY DEF Decided
  <2>1. row = "COMPLETED"
    OBVIOUS
  <2>2. PICK r \in claimed : winner \in Players /\ score[r][winner] # NO_SUBMIT /\ Final(r)
    BY <2>1 DEF Decided
  <2>3. r \in Rounds
    BY DEF CoreTyped
  <2>4. Final(r)'
    <3>1. session'.round <= r
      BY <2>2, <2>3, RoundsAreNats DEF Final
    <3>2. ASSUME NEW g \in Handlers, call'[g].phase \in Active PROVE call'[g].round <= r
      BY <1>1, <2>2, <3>2 DEF Final, Continues
    <3>3. ASSUME NEW k \in Rounds, k > r PROVE started'[k] = 0
      <4>1. started[k] = 0
        BY <2>2, <3>3 DEF Final
      <4>2. ~Opening(k)
        <5>1. r \in Nat /\ r >= 1 /\ k \in Nat
          BY <2>3, RoundsAreNats
        <5>2. call[h].phase = "reopen" => call[h].round <= r /\ call[h].round # r
          BY <2>2 DEF Final, Active, Settling
        <5>3. call[h].round \in Nat
          BY <1>2, RoundsAreNats
        <5>4. k > 1 /\ ~(call[h].phase = "reopen" /\ call[h].round = k - 1)
          BY <3>3, <5>1, <5>2, <5>3
        <5> QED
          BY <5>4
      <4> QED
        BY <1>0, <4>1, <4>2
    <3>4. Reached(r)'
      BY <1>10, <2>2 DEF Final
    <3> QED
      BY <1>6, <2>2, <3>1, <3>2, <3>3, <3>4 DEF Final
  <2>5. score'[r][winner] # NO_SUBMIT
    BY <2>2, <2>3
  <2> QED
    BY <2>2, <2>4, <2>5
<1> QED
  BY <1>3, <1>4, <1>5, <1>7, <1>8, <1>11, <1>12, <1>13

LEMMA CoreUnchanged ==
  ASSUME GameInv, UNCHANGED <<row, winner, session, score, claimed, call, started>>
  PROVE  GameInv'
  BY DEF GameInv, CoreTyped, CallsFit, Fits, BothAreThere, Both, AllThere, OneHolder, DecisionStands, Stands,
         RoundsInOrder, Reached, Passed, StartsOnce, Decided, Final

LEMMA IdleContinues == \A h \in Handlers : Continues(h, Idle)
  BY IdleIsCall DEF Continues, Fits, Settling, Active

(* A handler ends. *)
LEMMA EndsQuietly ==
  ASSUME GameInv, NEW h \in Handlers, Done(h), UNCHANGED <<row, winner, session, score, claimed, started>>
  PROVE  GameInv'
<1>1. Continues(h, Idle)
  BY IdleContinues
<1>2. /\ session' \in [round : 0 .. MAX_ROUNDS, type : Types \union {"TAP"}]
      /\ score' \in [Rounds -> [Players -> Scores]] /\ score' = score
  BY DEF GameInv, CoreTyped
<1> QED
  BY <1>1, <1>2, QuietStep, IdleIsCall DEF Done

(* A handler moves on within its call, and the session may go. *)
LEMMA MovesOn ==
  ASSUME GameInv, NEW h \in Handlers, NEW f \in Phases, Goto(h, f),
         Continues(h, [call[h] EXCEPT !.phase = f]), f \notin {"claim", "stamp"},
         UNCHANGED <<winner, score, claimed, started>>,
         row' = row \/ (row = "ACCEPTED" /\ row' = "VOID"),
         f \in {"clean", "tell", "inform"} => row' # "ACCEPTED",
         session' \in [round : 0 .. MAX_ROUNDS, type : Types \union {"TAP"}],
         session'.round \in {session.round, 0, 1}
  PROVE  GameInv'
<1> DEFINE q == [call[h] EXCEPT !.phase = f]
<1>1. q.phase = f
  BY GotoIs DEF GameInv
<1>2. call' = [call EXCEPT ![h] = q]
  BY DEF Goto
<1>3. Continues(h, q)
  OBVIOUS
<1>4. score' \in [Rounds -> [Players -> Scores]] /\ score' = score
  BY DEF GameInv, CoreTyped
<1> HIDE DEF q
<1> QED
  BY <1>1, <1>2, <1>3, <1>4, QuietStep

LEMMA SessionTyped ==
  ASSUME CoreTyped
  PROVE  /\ session \in [round : 0 .. MAX_ROUNDS, type : Types \union {"TAP"}]
         /\ NoSession \in [round : 0 .. MAX_ROUNDS, type : Types \union {"TAP"}]
         /\ NoSession.round = 0 /\ session.round \in 0 .. MAX_ROUNDS
  BY GameAssumption DEF CoreTyped, NoSession

-----------------------------------------------------------------------------
(* The handler of the accept. *)
LEMMA AcceptGoes ==
  ASSUME GameInv, NEW f \in {"start", "open", "discard", "abort", "inform"},
         f \in {"start", "open"} => call[Accepting].phase \in {"greet", "start", "open"}
  PROVE  Continues(Accepting, [call[Accepting] EXCEPT !.phase = f])
<1> DEFINE q == [call[Accepting] EXCEPT !.phase = f]
<1>1. f \in Phases /\ Accepting \in Handlers
  BY HandlersApart DEF Phases, Settling
<1>2. q \in CallType /\ q.phase = f
  BY <1>1, GotoIs DEF GameInv
<1> HIDE DEF q
<1>3. Continues(Accepting, q)
  BY <1>2, HandlersApart DEF Continues, Fits, Settling, Active
<1> QED
  BY <1>3 DEF q

LEMMA AcceptKeeps ==
  ASSUME GameInv, Greet \/ Start \/ Discard \/ Abort \/ Inform
  PROVE  GameInv'
<1> USE DEF GameInv, vars, redis, process, history, At
<1>1. Accepting \in Handlers /\ {"start", "open", "discard", "abort", "inform"} \subseteq Phases
  BY HandlersApart DEF Phases, Settling
<1>2. CASE Greet
  BY <1>1, <1>2, AcceptGoes, MovesOn, SessionTyped DEF Greet
<1>3. CASE Start
  <2>1. session' \in [round : 0 .. MAX_ROUNDS, type : Types \union {"TAP"}] /\ session'.round = 1
    BY <1>3, GameAssumption DEF Start, Saves
  <2> QED
    BY <1>1, <1>3, <2>1, AcceptGoes, MovesOn DEF Start
<1>4. CASE Discard
  BY <1>1, <1>4, AcceptGoes, MovesOn, SessionTyped DEF Discard
<1>5. CASE Abort
  <2>1. row' = row \/ (row = "ACCEPTED" /\ row' = "VOID")
    BY <1>5 DEF Abort
  <2>2. row' # "ACCEPTED"
    BY <1>5 DEF Abort
  <2> QED
    BY <1>1, <1>5, <2>1, <2>2, AcceptGoes, MovesOn, SessionTyped DEF Abort
<1>6. CASE Inform
  <2>1. Continues(Accepting, Idle) /\ Idle.phase = "idle"
    BY <1>1, IdleContinues, IdleIsCall
  <2>2. score' \in [Rounds -> [Players -> Scores]] /\ score' = score
    BY <1>6 DEF Inform, CoreTyped
  <2> QED
    BY <1>1, <1>6, <2>1, <2>2, QuietStep, SessionTyped DEF Inform, Done
<1> QED
  BY <1>2, <1>3, <1>4, <1>5, <1>6

LEMMA OpenKeeps ==
  ASSUME GameInv, Open PROVE GameInv'
<1> USE DEF GameInv
<1>1. Accepting \in Handlers /\ Continues(Accepting, Idle) /\ Idle.phase = "idle"
  BY HandlersApart, IdleContinues, IdleIsCall
<1>2. score' \in [Rounds -> [Players -> Scores]] /\ score' = score
  BY DEF Open, CoreTyped, redis
<1>3. StartsRound(Accepting, Idle)
  BY <1>1 DEF Open, Opens, StartsRound, At
<1> QED
  BY <1>1, <1>2, <1>3, QuietStep, SessionTyped DEF Open, Done, redis

-----------------------------------------------------------------------------
(* Submissions. *)
LEMMA ReceiveKeeps ==
  ASSUME GameInv, NEW p \in Players, NEW r \in Rounds, Receive(p, r)
  PROVE  GameInv'
<1> DEFINE h == Submit(p)
           e == r \notin go
           s == r \in signalled
           q == [Idle EXCEPT !.phase = "read", !.round = r, !.early = e, !.sawGo = s]
<1>1. h \in Handlers
  BY HandlersApart
<1>2. e \in BOOLEAN /\ s \in BOOLEAN
  OBVIOUS
<1>3. call' = [call EXCEPT ![h] = q]
  BY DEF Receive
<1> HIDE DEF e, s
<1>6. q \in CallType /\ q.phase = "read"
  BY <1>2, IdleIsCall DEF CallType, Phases
<1> HIDE DEF q
<1>4. Continues(h, q)
  BY <1>6, HandlersApart DEF Continues, Fits, Settling, Active
<1>5. score' \in [Rounds -> [Players -> Scores]] /\ score' = score
  BY DEF Receive, GameInv, CoreTyped, redis
<1> HIDE DEF h
<1> QED
  BY <1>1, <1>6, <1>3, <1>4, <1>5, QuietStep, SessionTyped DEF Receive, GameInv, redis, history

LEMMA EvaluatedIsScore ==
  ASSUME NEW c PROVE Evaluated(c) \subseteq Scores \ {NO_SUBMIT}
  BY GameAssumption DEF Evaluated, Scores, NO_SUBMIT, FALSE_START

LEMMA ReadKeeps ==
  ASSUME GameInv, NEW p \in Players, Read(p)
  PROVE  GameInv'
<1> DEFINE h == Submit(p)
<1>1. h \in Handlers /\ call[h] \in CallType
  BY HandlersApart DEF GameInv, CoreTyped
<1>2. UNCHANGED <<row, winner, session, score, claimed, started>>
  BY DEF Read, redis, history
<1>3. ASSUME NEW s \in Evaluated(call[h]), session.round = call[h].round,
             call' = [call EXCEPT ![h] = [Entering(h, "store") EXCEPT !.score = s, !.sawGo = call[h].sawGo]]
      PROVE  GameInv'
  <2> DEFINE e == Entering(h, "store")
             q == [e EXCEPT !.score = s, !.sawGo = call[h].sawGo]
  <2>1. e \in CallType /\ e.phase = "store" /\ e.round = call[h].round
    BY <1>1, EnteringIs DEF GameInv, Phases
  <2> HIDE DEF e
  <2>2. s \in Scores /\ call[h].sawGo \in BOOLEAN
    BY <1>1, <1>3, EvaluatedIsScore DEF CallType
  <2>3. q \in CallType /\ q.phase = "store" /\ q.round = call[h].round
    BY <2>1, <2>2 DEF CallType
  <2>4. call' = [call EXCEPT ![h] = q]
    BY <1>3 DEF e
  <2> HIDE DEF q
  <2>5. Continues(h, q)
    BY <1>3, <2>3, HandlersApart DEF Continues, Fits, Settling, Active
  <2>6. score' \in [Rounds -> [Players -> Scores]] /\ score' = score
    BY <1>2 DEF GameInv, CoreTyped
  <2> HIDE DEF h
  <2> QED
    BY <1>1, <1>2, <2>3, <2>4, <2>5, <2>6, QuietStep, SessionTyped DEF GameInv
<1>4. CASE Done(h)
  BY <1>1, <1>2, <1>4, EndsQuietly
<1> QED
  BY <1>3, <1>4 DEF Read

LEMMA StoreKeeps ==
  ASSUME GameInv, NEW p \in Players, Store(p)
  PROVE  GameInv'
<1> DEFINE h == Submit(p)
           r == call[h].round
           hash == [score[r] EXCEPT ![p] = call[h].score]
<1>1. h \in Handlers /\ call[h] \in CallType /\ r \in Rounds /\ call[h].score \in Scores
  BY HandlersApart DEF GameInv, CoreTyped, CallType
<1>2. UNCHANGED <<row, winner, session, claimed, started>> /\ call[h].phase = "store"
  BY DEF Store, history, At
<1>3. CASE Done(h) /\ UNCHANGED score
  BY <1>1, <1>2, <1>3, EndsQuietly
<1>4. CASE /\ score[r][p] = NO_SUBMIT /\ score' = [score EXCEPT ![r] = hash]
           /\ call' = [call EXCEPT ![h] = [Entering(h, "stamp") EXCEPT !.both = BothPresent(hash)]]
  <2> DEFINE e == Entering(h, "stamp")
             b == BothPresent(hash)
             q == [e EXCEPT !.both = b]
  <2>1. e \in CallType /\ e.phase = "stamp" /\ e.round = r
    BY <1>1, EnteringIs DEF GameInv, Phases
  <2>2. b \in BOOLEAN
    BY DEF BothPresent
  <2>3. b => \A s \in Players : hash[s] # NO_SUBMIT
    BY DEF BothPresent
  <2> HIDE DEF e, b
  <2>4. q \in CallType /\ q.phase = "stamp" /\ q.round = r /\ q.both = b
    BY <2>1, <2>2 DEF CallType
  <2>5. call' = [call EXCEPT ![h] = q]
    BY <1>4 DEF e, b
  <2> HIDE DEF q
  <2>6. Continues(h, q)
    BY <1>2, <2>4, HandlersApart DEF Continues, Fits, Settling, Active
  <2>7. score \in [Rounds -> [Players -> Scores]]
    BY DEF GameInv, CoreTyped
  <2>8. hash \in [Players -> Scores] /\ \A s \in Players : score[r][s] # NO_SUBMIT => hash[s] = score[r][s]
    BY <1>1, <1>4, <2>7
  <2> HIDE DEF hash
  <2>9. score' \in [Rounds -> [Players -> Scores]] /\ score'[r] = hash
        /\ \A t \in Rounds, s \in Players : score[t][s] # NO_SUBMIT => score'[t][s] = score[t][s]
    BY <1>1, <1>4, <2>7, <2>8
  <2> HIDE DEF h
  <2> QED
    BY <1>1, <1>2, <2>3, <2>4, <2>5, <2>6, <2>9, QuietStep, SessionTyped DEF GameInv
<1> QED
  BY <1>3, <1>4 DEF Store

LEMMA StampKeeps ==
  ASSUME GameInv, NEW p \in Players, Stamp(p)
  PROVE  GameInv'
<1> DEFINE h == Submit(p)
<1>1. h \in Handlers /\ h \in Submits
  BY HandlersApart
<1>2. UNCHANGED <<row, winner, session, score, claimed, started>> /\ call[h].phase = "stamp"
  BY DEF Stamp, redis, history, At
<1>3. CASE Done(h)
  BY <1>1, <1>2, <1>3, EndsQuietly
<1>4. CASE call[h].both /\ call' = [call EXCEPT ![h] = Entering(h, "claim")]
  <2> DEFINE q == Entering(h, "claim")
  <2>1. q \in CallType /\ q.phase = "claim" /\ q.round = call[h].round
    BY <1>1, EnteringIs DEF GameInv, Phases
  <2>2. call' = [call EXCEPT ![h] = q]
    BY <1>4
  <2> HIDE DEF q
  <2>3. Continues(h, q)
    BY <1>2, <2>1, HandlersApart DEF Continues, Fits, Settling, Active
  <2>4. score' \in [Rounds -> [Players -> Scores]] /\ score' = score
    BY <1>2 DEF GameInv, CoreTyped
  <2>5. \A s \in Players : score[q.round][s] # NO_SUBMIT
    BY <1>1, <1>2, <1>4, <2>1 DEF GameInv, BothAreThere, Both, AllThere
  <2> HIDE DEF h
  <2> QED
    BY <1>1, <1>2, <2>1, <2>2, <2>3, <2>4, <2>5, QuietStep, SessionTyped DEF GameInv
<1> QED
  BY <1>3, <1>4 DEF Stamp
-----------------------------------------------------------------------------
(* Deadlines. *)
LEMMA FireKeeps ==
  ASSUME GameInv, NEW r \in Rounds, Fire(r)
  PROVE  GameInv'
<1> DEFINE h == Deadline(r)
<1>1. h \in Handlers /\ h \notin Submits
  BY HandlersApart
<1>2. PICK a \in 1 .. GAME_EXPIRE_MAX_ATTEMPTS :
        call' = [call EXCEPT ![h] = [Idle EXCEPT !.phase = "expire", !.round = r, !.attempt = a]]
  BY DEF Fire
<1> DEFINE q == [Idle EXCEPT !.phase = "expire", !.round = r, !.attempt = a]
<1>3. q \in CallType /\ q.phase = "expire" /\ q.round = r
  BY IdleIsCall DEF CallType, Phases
<1>4. call' = [call EXCEPT ![h] = q]
  BY <1>2
<1> HIDE DEF q
<1>5. Continues(h, q)
  BY <1>3, HandlersApart DEF Continues, Fits, Settling, Active
<1>6. score' \in [Rounds -> [Players -> Scores]] /\ score' = score
  BY DEF Fire, GameInv, CoreTyped, redis
<1> HIDE DEF h
<1> QED
  BY <1>1, <1>3, <1>4, <1>5, <1>6, QuietStep, SessionTyped DEF Fire, GameInv, redis, history

LEMMA ExpireKeeps ==
  ASSUME GameInv, NEW r \in Rounds, Expire(r)
  PROVE  GameInv'
<1> DEFINE h == Deadline(r)
           q == [call[h] EXCEPT !.phase = "load"]
<1>1. h \in Handlers /\ "load" \in Phases /\ call[h].phase = "expire" /\ call[h].round = r
  BY HandlersApart DEF Phases, Expire, At, GameInv, CallsFit, Fits
<1>2. UNCHANGED <<row, winner, session, score, claimed, started>>
  BY DEF Expire, redis, history
<1>3. CASE Done(h)
  BY <1>1, <1>2, <1>3, EndsQuietly
<1>4. CASE Goto(h, "load")
  <2>1. q \in CallType /\ q.phase = "load" /\ q.round = r
    BY <1>1, GotoIs DEF GameInv
  <2> HIDE DEF q
  <2>2. Continues(h, q)
    BY <2>1, HandlersApart DEF Continues, Fits, Settling, Active
  <2> HIDE DEF h
  <2> QED
    BY <1>1, <1>2, <1>4, <2>2, MovesOn, SessionTyped DEF GameInv, q
<1> QED
  BY <1>3, <1>4 DEF Expire

LEMMA LoadKeeps ==
  ASSUME GameInv, NEW r \in Rounds, Load(r)
  PROVE  GameInv'
<1> DEFINE h == Deadline(r)
<1>1. h \in Handlers /\ h \notin Submits /\ call[h] \in CallType /\ call[h].phase = "load"
  BY HandlersApart DEF Load, At, GameInv, CoreTyped
<1>2. UNCHANGED <<row, winner, session, score, claimed, started>>
  BY DEF Load, redis, history
<1>3. CASE Done(h)
  BY <1>1, <1>2, <1>3, EndsQuietly
<1>4. CASE session.round = r /\ call' = [call EXCEPT ![h].phase = "claim", ![h].round = session.round]
  <2> DEFINE q == [call[h] EXCEPT !.phase = "claim", !.round = session.round]
  <2>1. call' = [call EXCEPT ![h] = q]
    BY <1>1, <1>4 DEF GameInv, CoreTyped
  <2>2. q \in CallType /\ q.phase = "claim" /\ q.round = session.round
    BY <1>1, <1>4 DEF CallType, Phases
  <2> HIDE DEF q
  <2>3. Continues(h, q)
    BY <1>4, <2>2, HandlersApart DEF Continues, Fits, Settling, Active
  <2>4. score' \in [Rounds -> [Players -> Scores]] /\ score' = score
    BY <1>2 DEF GameInv, CoreTyped
  <2> HIDE DEF h
  <2> QED
    BY <1>1, <1>2, <2>1, <2>2, <2>3, <2>4, QuietStep, SessionTyped DEF GameInv
<1> QED
  BY <1>3, <1>4 DEF Load, SameRound

-----------------------------------------------------------------------------
(* Steps of a handler with the right that leave the right where it is. *)
LEMMA SettlersFit ==
  ASSUME GameInv, NEW h \in Handlers, call[h].phase \in Settling
  PROVE  /\ h # Accepting /\ (\A r \in Rounds : h = Deadline(r) => call[h].round = r)
         /\ call[h] \in CallType /\ call[h].round \in Rounds /\ call[h].phase \in Active
<1>1. h # Accepting
  BY DEF GameInv, CallsFit, Fits, Settling
<1>2. call[h] \in CallType
  BY DEF GameInv, CoreTyped
<1> QED
  BY <1>1, <1>2, ActivesAreSettling DEF GameInv, CallsFit, Fits, Settling, CallType

(* The calls that follow one another while a result is carried out.                       *)
LEMMA SettlingGoes ==
  ASSUME GameInv, NEW h \in Handlers, call[h].phase \in Settling \ {"reopen"}, NEW q \in CallType,
         q.round = call[h].round, q.phase \in {"commit", "clean", "tell", "release"},
         q.phase = "commit" => call[h].phase = "finish" /\ q.winner = call[h].winner,
         q.phase = "release" => call[h].phase \notin {"clean", "tell"}
  PROVE  Continues(h, q)
<1>1. call[h].phase \in {"clean", "tell"} => q.phase \in {"clean", "tell"}
  OBVIOUS
<1> QED
  BY <1>1, SettlersFit DEF Continues, Fits, Settling, Active

LEMMA FinishKeeps ==
  ASSUME GameInv, NEW h \in Handlers, Finish(h)
  PROVE  GameInv'
<1>1. call[h].phase = "finish" /\ call[h].phase \in Settling \ {"reopen"}
  BY DEF Finish, At, Settling
<1>2. UNCHANGED <<row, winner, session, score, claimed, started>>
  BY DEF Finish, redis, history
<1>3. score' \in [Rounds -> [Players -> Scores]] /\ score' = score
  BY <1>2 DEF GameInv, CoreTyped
<1>4. "commit" \in Phases /\ "release" \in Phases
  BY DEF Phases, Settling
<1>5. PICK q : /\ q \in {[call[h] EXCEPT !.phase = "commit"], Entering(h, "release")}
               /\ call' = [call EXCEPT ![h] = q]
  BY DEF Finish
<1>6. q \in CallType /\ q.round = call[h].round
      /\ (q.phase = "release" \/ (q.phase = "commit" /\ q.winner = call[h].winner))
  <2>1. CASE q = [call[h] EXCEPT !.phase = "commit"]
    BY <1>4, <2>1, GotoIs DEF GameInv
  <2>2. CASE q = Entering(h, "release")
    BY <1>4, <2>2, EnteringIs DEF GameInv
  <2> QED
    BY <1>5, <2>1, <2>2
<1>7. Continues(h, q)
  BY <1>1, <1>6, SettlingGoes
<1> QED
  BY <1>2, <1>3, <1>5, <1>6, <1>7, QuietStep, SessionTyped DEF GameInv

LEMMA VoidRowKeeps ==
  ASSUME GameInv, NEW h \in Handlers, VoidRow(h)
  PROVE  GameInv'
<1> DEFINE q == [call[h] EXCEPT !.phase = "clean"]
<1>1. call[h].phase = "void" /\ call[h].phase \in Settling \ {"reopen"} /\ "clean" \in Phases
  BY DEF VoidRow, At, Settling, Phases
<1>2. q \in CallType /\ q.phase = "clean" /\ q.round = call[h].round
  BY <1>1, GotoIs DEF GameInv
<1> HIDE DEF q
<1>3. Continues(h, q)
  BY <1>1, <1>2, SettlingGoes
<1>4. (row' = row \/ (row = "ACCEPTED" /\ row' = "VOID")) /\ row' # "ACCEPTED"
  BY DEF VoidRow
<1> QED
  BY <1>1, <1>3, <1>4, MovesOn, SessionTyped DEF VoidRow, GameInv, redis, history, q

LEMMA CleanKeeps ==
  ASSUME GameInv, NEW h \in Handlers, Clean(h)
  PROVE  GameInv'
<1> DEFINE q == [call[h] EXCEPT !.phase = "tell"]
<1>1. call[h].phase = "clean" /\ call[h].phase \in Settling \ {"reopen"} /\ "tell" \in Phases
  BY DEF Clean, At, Settling, Phases
<1>2. q \in CallType /\ q.phase = "tell" /\ q.round = call[h].round
  BY <1>1, GotoIs DEF GameInv
<1> HIDE DEF q
<1>3. Continues(h, q)
  BY <1>1, <1>2, SettlingGoes
<1>4. row # "ACCEPTED"
  BY <1>1 DEF GameInv, DecisionStands, Stands
<1> QED
  BY <1>1, <1>3, <1>4, MovesOn, SessionTyped DEF Clean, GameInv, redis, history, q

LEMMA TellKeeps ==
  ASSUME GameInv, NEW h \in Handlers, Tell(h)
  PROVE  GameInv'
<1>1. Continues(h, Idle) /\ Idle.phase = "idle"
  BY IdleContinues, IdleIsCall
<1>2. score' \in [Rounds -> [Players -> Scores]] /\ score' = score
  BY DEF Tell, GameInv, CoreTyped, redis
<1> QED
  BY <1>1, <1>2, QuietStep, SessionTyped DEF Tell, Done, At, GameInv, redis

LEMMA ReopenKeeps ==
  ASSUME GameInv, NEW h \in Handlers, Reopen(h) \/ ReopenFails(h)
  PROVE  GameInv'
<1>1. Continues(h, Idle) /\ Idle.phase = "idle"
  BY IdleContinues, IdleIsCall
<1>2. UNCHANGED <<row, winner, session, score, claimed>> /\ call[h].phase = "reopen" /\ Done(h)
      /\ started' = [started EXCEPT ![call[h].round + 1] = @ + 1]
  BY DEF Reopen, ReopenFails, Opens, At, redis
<1>3. StartsRound(h, Idle)
  BY <1>1, <1>2 DEF StartsRound
<1>4. score' \in [Rounds -> [Players -> Scores]] /\ score' = score
  BY <1>2 DEF GameInv, CoreTyped
<1> QED
  BY <1>1, <1>2, <1>3, <1>4, QuietStep, SessionTyped DEF Done, GameInv
-----------------------------------------------------------------------------
(* Steps that take the right, decide with it, go on to the next round, or give it back.   *)
LEMMA RematchKeeps ==
  ASSUME GameInv, NEW h \in Handlers, Rematch(h)
  PROVE  GameInv'
<1> USE DEF GameInv
<1> DEFINE q == [call[h] EXCEPT !.phase = "reopen"]
<1>1. call[h].phase = "rematch" /\ call[h].phase \in Settling /\ "reopen" \in Phases
  BY DEF Rematch, At, Settling, Phases
<1>2. q \in CallType /\ q.phase = "reopen" /\ q.round = call[h].round
  BY <1>1, GotoIs
<1>3. call' = [call EXCEPT ![h] = q] /\ UNCHANGED <<row, winner, score, claimed, started>>
  BY DEF Rematch, Goto, history
<1> HIDE DEF q
<1>4. call \in [Handlers -> CallType] /\ call'[h] = q /\ call' \in [Handlers -> CallType]
      /\ \A g \in Handlers \ {h} : call'[g] = call[g]
  BY <1>2, <1>3 DEF CoreTyped
<1>5. PICK n \in Rounds : n = call[h].round
  BY <1>1, SettlersFit
<1>6. n < MAX_ROUNDS /\ n \in Nat /\ n + 1 \in Rounds
  BY <1>1, <1>5, RoundsAreNats DEF DecisionStands, Stands
<1>7. session' \in [round : 0 .. MAX_ROUNDS, type : Types \union {"TAP"}] /\ session'.round = n + 1
  BY <1>5, <1>6, GameAssumption DEF Rematch, Saves, Rounds
<1>8. CoreTyped'
  BY <1>3, <1>4, <1>7 DEF CoreTyped
<1>9. CallsFit'
  BY <1>1, <1>2, <1>4, SettlersFit DEF CallsFit, Fits, Settling
<1>10. BothAreThere'
  BY <1>2, <1>3, <1>4 DEF BothAreThere, Both, AllThere
<1>11. \A g \in Handlers : /\ (call'[g].phase \in Settling <=> call[g].phase \in Settling)
                            /\ (call'[g].phase \in Active <=> call[g].phase \in Active)
                            /\ call'[g].round = call[g].round
  BY <1>1, <1>2, <1>4 DEF Settling, Active
<1>12. OneHolder'
  BY <1>3, <1>11 DEF OneHolder
<1>13. DecisionStands'
  BY <1>2, <1>3, <1>4, <1>5, <1>6 DEF DecisionStands, Stands
<1>14. \A j \in Rounds : Passed(j) => Passed(j)'
  BY <1>1, <1>2, <1>3, <1>4, <1>11 DEF Passed
<1>15. Passed(n)'
  BY <1>1, <1>2, <1>3, <1>4, <1>5, <1>11 DEF Passed, OneHolder
<1>16. RoundsInOrder'
  <2>1. Reached(session.round)'
    <3>1. Reached(n)
      BY <1>1, <1>5, ActivesAreSettling DEF RoundsInOrder
    <3>2. \A j \in Rounds : j < session'.round => j < n \/ j = n
      BY <1>6, <1>7, RoundsAreNats
    <3> QED
      BY <1>14, <1>15, <3>1, <3>2 DEF Reached
  <2> QED
    BY <1>3, <1>11, <1>14, <2>1 DEF RoundsInOrder, Reached
<1>17. StartsOnce'
  BY <1>1, <1>3, <1>4, <1>11, SettlersFit, HandlersApart DEF StartsOnce
<1>18. Decided'
  <2> SUFFICES ASSUME row' = "COMPLETED" PROVE \E r \in claimed' : score'[r][winner'] # NO_SUBMIT /\ Final(r)'
    BY <1>3 DEF Decided
  <2>1. PICK r \in claimed : score[r][winner] # NO_SUBMIT /\ Final(r)
    BY <1>3 DEF Decided
  <2>2. r \in Rounds /\ r \in Nat
    BY RoundsAreNats DEF CoreTyped
  <2>3. n <= r /\ n # r
    BY <1>1, <1>5, <2>1, ActivesAreSettling DEF Final
  <2>4. session'.round <= r
    BY <1>6, <1>7, <2>2, <2>3
  <2>5. Reached(r)'
    BY <1>14, <2>1 DEF Final, Reached
  <2>6. Final(r)'
    BY <1>2, <1>3, <1>4, <1>5, <1>11, <2>1, <2>3, <2>4, <2>5 DEF Final
  <2> QED
    BY <1>3, <2>1, <2>6
<1> QED
  BY <1>8, <1>9, <1>10, <1>12, <1>13, <1>16, <1>17, <1>18

LEMMA ScoresAreInts == \A s \in Scores : s \in Int /\ s >= NO_SUBMIT
<1> SUFFICES ASSUME NEW s \in Scores PROVE s \in Int /\ s >= NO_SUBMIT
  OBVIOUS
<1>1. s \in Nat \/ s = -2 \/ s = -1
  BY GameAssumption DEF Scores, NO_SUBMIT, FALSE_START
<1> QED
  BY <1>1 DEF NO_SUBMIT

(* A winner has sent something: nobody who was there is below somebody who was not.       *)
LEMMA WinnerSent ==
  ASSUME CoreTyped, NEW r \in Rounds
  PROVE  \/ PickWinner(score[r]) = Nobody
         \/ PickWinner(score[r]) \in Players /\ score[r][PickWinner(score[r])] # NO_SUBMIT
<1> DEFINE a == score[r][Challenger]
           b == score[r][Opponent]
<1>1. a \in Int /\ b \in Int /\ a >= NO_SUBMIT /\ b >= NO_SUBMIT
  BY ScoresAreInts DEF CoreTyped, Players
<1>2. CASE a > b
  <2>1. PickWinner(score[r]) = Challenger
    BY <1>1, <1>2 DEF PickWinner
  <2> QED
    BY <1>1, <1>2, <2>1 DEF Players, NO_SUBMIT
<1>3. CASE a < b
  <2>1. PickWinner(score[r]) = Opponent
    BY <1>1, <1>3 DEF PickWinner
  <2> QED
    BY <1>1, <1>3, <2>1 DEF Players, NO_SUBMIT
<1>4. CASE a = b
  BY <1>1, <1>4 DEF PickWinner
<1> QED
  BY <1>1, <1>2, <1>3, <1>4

LEMMA ClaimKeeps ==
  ASSUME GameInv, NEW h \in Handlers, Claim(h)
  PROVE  GameInv'
<1> USE DEF GameInv
<1>1. call[h].phase = "claim" /\ call[h] \in CallType
  BY DEF Claim, At, CoreTyped
<1>2. UNCHANGED <<row, winner, session, score, started>>
  BY DEF Claim, history
<1>3. CASE Done(h) /\ UNCHANGED claimed
  BY <1>2, <1>3, EndsQuietly
<1>4. CASE /\ call[h].round \notin claimed /\ claimed' = claimed \union {call[h].round}
           /\ call' = [call EXCEPT ![h] = [Entering(h, Decision(call[h].round))
                                             EXCEPT !.winner = PickWinner(score[call[h].round])]]
  <2>1. PICK n \in Rounds : n = call[h].round
    BY <1>1 DEF CallType
  <2> DEFINE w == PickWinner(score[n])
             f == Decision(n)
             e == Entering(h, f)
             q == [e EXCEPT !.winner = w]
  <2>2. w \in Players \union {Nobody}
    BY WinnerSent
  <2>3. /\ f = "finish" => w \in Players /\ score[n][w] # NO_SUBMIT
        /\ f = "rematch" => n < MAX_ROUNDS
        /\ f \in {"finish", "rematch", "void"}
    BY WinnerSent DEF Decision
  <2>4. f \in Phases
    BY <2>3 DEF Phases, Settling
  <2> HIDE DEF w, f
  <2>5. e \in CallType /\ e.phase = f /\ e.round = n
    BY <2>1, <2>4, EnteringIs
  <2> HIDE DEF e
  <2>6. q \in CallType /\ q.phase = f /\ q.round = n /\ q.winner = w
    BY <2>2, <2>5 DEF CallType
  <2>7. call' = [call EXCEPT ![h] = q]
    BY <1>4, <2>1 DEF e, f, w
  <2>8. claimed' = claimed \union {n} /\ n \notin claimed
    BY <1>4, <2>1
  <2> HIDE DEF q
  <2>9. call \in [Handlers -> CallType] /\ call'[h] = q /\ call' \in [Handlers -> CallType]
        /\ \A g \in Handlers \ {h} : call'[g] = call[g]
    BY <2>6, <2>7 DEF CoreTyped
  <2>10. CoreTyped'
    BY <1>2, <2>8, <2>9 DEF CoreTyped
  <2>11. h # Accepting /\ \A r \in Rounds : h = Deadline(r) => n = r
    BY <1>1, <2>1 DEF CallsFit, Fits
  <2>12. CallsFit'
    BY <2>3, <2>6, <2>9, <2>11 DEF CallsFit, Fits, Settling
  <2>13. BothAreThere'
    BY <1>2, <2>3, <2>6, <2>9 DEF BothAreThere, Both, AllThere
  <2>14. \A g \in Handlers \ {h} : call[g].phase \in Settling => call[g].round # n
    BY <2>8 DEF OneHolder
  <2>15. OneHolder'
    BY <2>6, <2>8, <2>9, <2>14 DEF OneHolder
  <2>16. DecisionStands'
    BY <1>2, <2>3, <2>6, <2>9 DEF DecisionStands, Stands
  <2>17. \A j \in Rounds : Passed(j) => Passed(j)'
    BY <2>6, <2>8, <2>9 DEF Passed
  <2>18. \A g \in Handlers : call'[g].phase \in Active => call[g].phase \in Active /\ call'[g].round = call[g].round
    BY <1>1, <2>1, <2>6, <2>9 DEF Active
  <2>19. RoundsInOrder'
    BY <1>2, <2>17, <2>18 DEF RoundsInOrder, Reached
  <2>20. StartsOnce'
    <3>1. ASSUME NEW k \in Rounds, k > 1, started[k] > 0 PROVE n # k - 1
      <4>1. k - 1 \in Rounds /\ k - 1 < k
        BY <3>1, RoundsAreNats
      <4>2. Passed(k - 1)
        BY <3>1, <4>1 DEF RoundsInOrder, Reached
      <4> QED
        BY <2>8, <4>2 DEF Passed
    <3> QED
      BY <1>2, <2>6, <2>9, <2>11, <3>1, HandlersApart DEF StartsOnce
  <2>21. Decided'
    <3> SUFFICES ASSUME row' = "COMPLETED" PROVE \E r \in claimed' : score'[r][winner'] # NO_SUBMIT /\ Final(r)'
      BY <1>2 DEF Decided
    <3>1. PICK r \in claimed : score[r][winner] # NO_SUBMIT /\ Final(r)
      BY <1>2 DEF Decided
    <3>2. r # n
      BY <2>8
    <3>3. Reached(r)'
      BY <2>17, <3>1 DEF Final, Reached
    <3>4. Final(r)'
      BY <1>2, <2>6, <2>9, <2>18, <3>1, <3>2, <3>3 DEF Final
    <3> QED
      BY <1>2, <2>8, <3>1, <3>4
  <2> QED
    BY <2>10, <2>12, <2>13, <2>15, <2>16, <2>19, <2>20, <2>21
<1> QED
  BY <1>3, <1>4 DEF Claim, Free

LEMMA CommitKeeps ==
  ASSUME GameInv, NEW h \in Handlers, Commit(h)
  PROVE  GameInv'
<1> USE DEF GameInv
<1> DEFINE q == [call[h] EXCEPT !.phase = "clean"]
<1>1. call[h].phase = "commit" /\ call[h].phase \in Settling \ {"reopen"} /\ "clean" \in Phases
  BY DEF Commit, At, Settling, Phases
<1>2. q \in CallType /\ q.phase = "clean" /\ q.round = call[h].round
  BY <1>1, GotoIs
<1>3. call' = [call EXCEPT ![h] = q] /\ UNCHANGED <<session, score, claimed, started>>
  BY DEF Commit, Goto, redis, history
<1> HIDE DEF q
<1>4. Continues(h, q)
  BY <1>1, <1>2, SettlingGoes
<1>5. CASE row # "ACCEPTED"
  BY <1>1, <1>4, <1>5, MovesOn, SessionTyped DEF Commit, redis, history, q
<1>6. CASE row = "ACCEPTED"
  <2>1. row' = "COMPLETED" /\ winner' = call[h].winner
    BY <1>6 DEF Commit
  <2>2. PICK n \in Rounds : n = call[h].round
    BY <1>1, SettlersFit
  <2>3. winner' \in Players /\ score[n][winner'] # NO_SUBMIT
    BY <1>1, <2>1, <2>2 DEF DecisionStands, Stands
  <2>4. call \in [Handlers -> CallType] /\ call'[h] = q /\ call' \in [Handlers -> CallType]
        /\ \A g \in Handlers \ {h} : call'[g] = call[g]
    BY <1>2, <1>3 DEF CoreTyped
  <2>5. CoreTyped'
    BY <1>3, <2>1, <2>3, <2>4 DEF CoreTyped
  <2>6. CallsFit'
    BY <1>4, <2>4 DEF CallsFit, Fits, Continues
  <2>7. BothAreThere'
    BY <1>2, <1>3, <2>4 DEF BothAreThere, Both, AllThere
  <2>8. \A g \in Handlers : /\ (call'[g].phase \in Settling <=> call[g].phase \in Settling)
                            /\ (call'[g].phase \in Active <=> call[g].phase \in Active)
                            /\ (call'[g].phase = "reopen" <=> call[g].phase = "reopen")
                            /\ call'[g].round = call[g].round
    BY <1>1, <1>2, <2>4 DEF Settling, Active
  <2>9. OneHolder'
    BY <1>3, <2>8 DEF OneHolder
  <2>10. DecisionStands'
    BY <1>2, <1>3, <2>1, <2>4 DEF DecisionStands, Stands
  <2>11. \A j \in Rounds : Passed(j) => Passed(j)'
    BY <1>3, <2>8 DEF Passed
  <2>12. RoundsInOrder'
    BY <1>3, <2>8, <2>11 DEF RoundsInOrder, Reached
  <2>13. StartsOnce'
    BY <1>1, <1>3, <2>4, <2>8, SettlersFit, HandlersApart DEF StartsOnce
  <2>14. Final(n)'
    <3>1. ~Passed(n)
      BY <1>1, <2>2 DEF Passed
    <3>2. \A k : Reached(k) => ~(n < k)
      BY <3>1 DEF Reached
    <3>3. session'.round <= n
      BY <1>3, <3>2, SessionTyped, RoundsAreNats DEF RoundsInOrder
    <3>4. ASSUME NEW g \in Handlers, call'[g].phase \in Active PROVE call'[g].round <= n
      <4>1. Reached(call[g].round)
        BY <2>8, <3>4 DEF RoundsInOrder
      <4>2. call[g].round \in Nat /\ n \in Nat
        BY <2>4, RoundsAreNats DEF CallType
      <4> QED
        BY <2>8, <3>2, <4>1, <4>2
    <3>5. ASSUME NEW k \in Rounds, k > n PROVE started'[k] = 0
      <4>1. ~(started[k] > 0) /\ started[k] \in Nat
        BY <3>2, <3>5, RoundsAreNats DEF RoundsInOrder, CoreTyped
      <4> QED
        BY <1>3, <4>1
    <3>6. ASSUME NEW g \in Handlers, call'[g].phase \in Settling, call'[g].round = n PROVE call'[g].phase \in {"clean", "tell"}
      BY <1>1, <1>2, <2>2, <2>4, <2>8, <3>6 DEF OneHolder
    <3>7. Reached(n)'
      BY <1>1, <2>2, <2>11, ActivesAreSettling DEF RoundsInOrder, Reached
    <3> QED
      BY <3>3, <3>4, <3>5, <3>6, <3>7 DEF Final
  <2>15. Decided'
    <3>1. n \in claimed
      BY <1>1, <2>2 DEF OneHolder
    <3> QED
      BY <1>3, <2>3, <2>14, <3>1 DEF Decided
  <2> QED
    BY <2>5, <2>6, <2>7, <2>9, <2>10, <2>12, <2>13, <2>15
<1> QED
  BY <1>5, <1>6

LEMMA ReleaseKeeps ==
  ASSUME GameInv, NEW h \in Handlers, Release(h)
  PROVE  GameInv'
<1> USE DEF GameInv
<1>1. call[h].phase = "release" /\ call[h].phase \in Settling
  BY DEF Release, At, Settling
<1>2. PICK n \in Rounds : n = call[h].round
  BY <1>1, SettlersFit
<1>3. call' = [call EXCEPT ![h] = Idle] /\ claimed' = claimed \ {n}
      /\ UNCHANGED <<row, winner, session, score, started>>
  BY <1>2 DEF Release, Breaks, Done, history
<1>4. call \in [Handlers -> CallType] /\ call'[h] = Idle /\ call' \in [Handlers -> CallType]
      /\ \A g \in Handlers \ {h} : call'[g] = call[g]
  BY <1>3, IdleIsCall DEF CoreTyped
<1>5. CoreTyped'
  BY <1>3, <1>4 DEF CoreTyped
<1>6. CallsFit'
  BY <1>4, IdleIsCall DEF CallsFit, Fits
<1>7. BothAreThere'
  BY <1>3, <1>4, IdleIsCall DEF BothAreThere, Both, AllThere
<1>8. \A g \in Handlers : call'[g].phase # "idle" => g # h /\ call'[g] = call[g]
  BY <1>4, IdleIsCall
<1>9. \A g \in Handlers : call'[g].phase \in Active => g # h /\ call'[g] = call[g]
  BY <1>8, ActivesAreSettling
<1>10. \A g \in Handlers : call'[g].phase \in Settling => g # h /\ call'[g] = call[g] /\ call[g].round # n
  BY <1>1, <1>2, <1>9, ActivesAreSettling DEF OneHolder
<1>11. OneHolder'
  BY <1>3, <1>10 DEF OneHolder
<1>12. DecisionStands'
  BY <1>3, <1>8 DEF DecisionStands, Stands
<1>13. \A j \in Rounds : Passed(j) => Passed(j)'
  BY <1>1, <1>2, <1>3, <1>10 DEF Passed
<1>14. RoundsInOrder'
  BY <1>3, <1>9, <1>13 DEF RoundsInOrder, Reached
<1>15. StartsOnce'
  BY <1>3, <1>8, <1>10, HandlersApart DEF StartsOnce
<1>16. Decided'
  <2> SUFFICES ASSUME row' = "COMPLETED" PROVE \E r \in claimed' : score'[r][winner'] # NO_SUBMIT /\ Final(r)'
    BY <1>3 DEF Decided
  <2>1. PICK r \in claimed : score[r][winner] # NO_SUBMIT /\ Final(r)
    BY <1>3 DEF Decided
  <2>2. r # n
    BY <1>1, <1>2, <2>1 DEF Final
  <2>3. Reached(r)'
    BY <1>13, <2>1 DEF Final, Reached
  <2>4. Final(r)'
    BY <1>3, <1>9, <1>10, <2>1, <2>3 DEF Final
  <2> QED
    BY <1>3, <2>1, <2>2, <2>4
<1> QED
  BY <1>5, <1>6, <1>7, <1>11, <1>12, <1>14, <1>15, <1>16

-----------------------------------------------------------------------------
(* A sweep, and a restart. *)
LEMMA SweepKeeps ==
  ASSUME GameInv, Sweep PROVE GameInv'
<1>1. /\ row = "ACCEPTED" /\ row' = "VOID"
      /\ UNCHANGED <<winner, session, score, claimed, call, started>>
  BY DEF Sweep, redis, process, history
<1> QED
  BY <1>1 DEF GameInv, CoreTyped, CallsFit, Fits, BothAreThere, Both, AllThere, OneHolder, DecisionStands, Stands,
              RoundsInOrder, Reached, Passed, StartsOnce, Decided

LEMMA CrashKeeps ==
  ASSUME GameInv, Crash PROVE GameInv'
<1> USE DEF GameInv
<1>1. /\ call' = [h \in Handlers |-> Idle]
      /\ UNCHANGED <<row, winner, session, score, claimed, started>>
  BY DEF Crash, redis, history
<1>2. call' \in [Handlers -> CallType] /\ \A h \in Handlers : call'[h].phase = "idle"
  BY <1>1, IdleIsCall
<1>3. \A h \in Handlers : call'[h].phase \notin Settling /\ call'[h].phase \notin Active
  BY <1>2, ActivesAreSettling
<1>4. \A j \in Rounds : Passed(j) => Passed(j)'
  BY <1>1, <1>3 DEF Passed
<1>5. CoreTyped' /\ CallsFit' /\ BothAreThere' /\ OneHolder'
  BY <1>1, <1>2, <1>3 DEF CoreTyped, CallsFit, Fits, BothAreThere, Both, OneHolder
<1>6. DecisionStands' /\ StartsOnce'
  BY <1>1, <1>2, <1>3, HandlersApart DEF DecisionStands, Stands, StartsOnce
<1>7. RoundsInOrder'
  BY <1>1, <1>3, <1>4 DEF RoundsInOrder, Reached
<1>8. Decided'
  BY <1>1, <1>3, <1>4 DEF Decided, Final, Reached
<1> QED
  BY <1>5, <1>6, <1>7, <1>8

-----------------------------------------------------------------------------
(* A call that fails. *)
LEMMA FailsKeeps ==
  ASSUME GameInv, NEW h \in Handlers, Fails(h)
  PROVE  GameInv'
<1> USE DEF GameInv
<1>0. row' = row /\ winner' = winner
  BY DEF Fails
<1>1. CASE Breaks(h) /\ UNCHANGED <<redis, signal, started>>
  BY <1>0, <1>1, EndsQuietly DEF Breaks, redis
<1>2. CASE /\ call[h].phase \in {"finish", "commit", "void", "rematch"}
           /\ call' = [call EXCEPT ![h] = Entering(h, "release")]
           /\ UNCHANGED <<redis, timers, signal, started>>
  <2> DEFINE q == Entering(h, "release")
  <2>1. call[h].phase \in Settling \ {"reopen"} /\ "release" \in Phases
    BY <1>2 DEF Settling, Phases
  <2>2. q \in CallType /\ q.phase = "release" /\ q.round = call[h].round
    BY <2>1, EnteringIs
  <2>3. call' = [call EXCEPT ![h] = q]
    BY <1>2
  <2> HIDE DEF q
  <2>4. Continues(h, q)
    BY <1>2, <2>1, <2>2, SettlingGoes
  <2>5. score' \in [Rounds -> [Players -> Scores]] /\ score' = score
    BY <1>2 DEF redis, CoreTyped
  <2> QED
    BY <1>0, <1>2, <2>2, <2>3, <2>4, <2>5, QuietStep, SessionTyped DEF redis
<1>3. CASE At(h, "start") /\ Goto(h, "discard") /\ UNCHANGED <<redis, timers, signal, started>>
  <2>1. h = Accepting
    BY <1>3 DEF CallsFit, Fits, At, Handlers, Submits, Deadlines, Settling
  <2>2. Continues(h, [call[h] EXCEPT !.phase = "discard"]) /\ "discard" \in Phases
    BY <2>1, AcceptGoes DEF Phases
  <2> QED
    BY <1>0, <1>3, <2>2, MovesOn, SessionTyped DEF redis
<1>4. CASE At(h, "open") /\ Opens(1) /\ Goto(h, "discard") /\ UNCHANGED redis
  <2> DEFINE q == [call[h] EXCEPT !.phase = "discard"]
  <2>1. h = Accepting
    BY <1>4 DEF CallsFit, Fits, At, Handlers, Submits, Deadlines, Settling
  <2>2. Continues(h, q) /\ "discard" \in Phases
    BY <2>1, AcceptGoes DEF Phases
  <2>3. q.phase = "discard" /\ call' = [call EXCEPT ![h] = q]
    BY <1>4, <2>2, GotoIs DEF Goto
  <2> HIDE DEF q
  <2>4. StartsRound(h, q)
    BY <1>4, <2>1, <2>3 DEF StartsRound, Opens, At
  <2>5. score' \in [Rounds -> [Players -> Scores]] /\ score' = score
    BY <1>4 DEF redis, CoreTyped
  <2> QED
    BY <1>0, <1>4, <2>2, <2>3, <2>4, <2>5, QuietStep, SessionTyped DEF redis
<1>5. CASE Done(h) /\ UNCHANGED <<redis, timers, signal, started>>
  BY <1>0, <1>5, EndsQuietly DEF redis
<1>6. CASE /\ call[h].phase \in {"discard", "clean"}
           /\ Goto(h, IF At(h, "clean") THEN "tell" ELSE "abort")
           /\ session' \in {session, NoSession}
           /\ UNCHANGED <<score, claimed, timers, signal, started>>
  <2>1. /\ session' \in [round : 0 .. MAX_ROUNDS, type : Types \union {"TAP"}]
        /\ session'.round \in {session.round, 0, 1}
    BY <1>6, SessionTyped
  <2>2. CASE At(h, "clean")
    <3> DEFINE q == [call[h] EXCEPT !.phase = "tell"]
    <3>1. call[h].phase = "clean" /\ call[h].phase \in Settling \ {"reopen"} /\ "tell" \in Phases
      BY <2>2 DEF At, Settling, Phases
    <3>2. q \in CallType /\ q.phase = "tell" /\ q.round = call[h].round
      BY <3>1, GotoIs
    <3> HIDE DEF q
    <3>3. Continues(h, q)
      BY <3>1, <3>2, SettlingGoes
    <3>4. row # "ACCEPTED"
      BY <3>1 DEF DecisionStands, Stands
    <3>5. Goto(h, "tell")
      BY <1>6, <2>2
    <3> QED
      BY <1>0, <1>6, <2>1, <3>1, <3>3, <3>4, <3>5, MovesOn DEF q
  <2>3. CASE ~At(h, "clean")
    <3>1. call[h].phase = "discard" /\ Goto(h, "abort")
      BY <1>6, <2>3 DEF At
    <3>2. h = Accepting
      BY <3>1 DEF CallsFit, Fits, Handlers, Submits, Deadlines, Settling
    <3>3. Continues(h, [call[h] EXCEPT !.phase = "abort"]) /\ "abort" \in Phases
      BY <3>2, AcceptGoes DEF Phases
    <3> QED
      BY <1>0, <1>6, <2>1, <3>1, <3>3, MovesOn
  <2> QED
    BY <2>2, <2>3
<1> QED
  BY <1>1, <1>2, <1>3, <1>4, <1>5, <1>6 DEF Fails

-----------------------------------------------------------------------------
(* Every step. *)
LEMMA SettleKeeps ==
  ASSUME GameInv, NEW h \in Handlers, Settle(h)
  PROVE  GameInv'
  BY ClaimKeeps, FinishKeeps, CommitKeeps, VoidRowKeeps, CleanKeeps, TellKeeps, RematchKeeps, ReopenKeeps,
     ReleaseKeeps DEF Settle

LEMMA SignalKeeps ==
  ASSUME GameInv, NEW r \in Rounds, SignalStep(r) \/ SignalFails(r)
  PROVE  GameInv'
<1>1. UNCHANGED <<row, winner, session, score, claimed, call, started>>
  BY DEF SignalStep, SignalRead, SignalMark, SignalEmit, SignalFails, redis, history
<1> QED
  BY <1>1, CoreUnchanged

LEMMA GameInductive == GameInv /\ [Next]_vars => GameInv'
<1> SUFFICES ASSUME GameInv, [Next]_vars PROVE GameInv'
  OBVIOUS
<1>1. CASE AcceptStep
  BY <1>1, AcceptKeeps, OpenKeeps DEF AcceptStep
<1>2. ASSUME NEW p \in Players, SubmitStep(p) PROVE GameInv'
  BY <1>2, ReadKeeps, StoreKeeps, StampKeeps, SettleKeeps, HandlersApart DEF SubmitStep
<1>3. ASSUME NEW p \in Players, NEW r \in Rounds, Receive(p, r) PROVE GameInv'
  BY <1>3, ReceiveKeeps
<1>4. ASSUME NEW r \in Rounds, DeadlineStep(r) PROVE GameInv'
  BY <1>4, FireKeeps, ExpireKeeps, LoadKeeps, SettleKeeps, HandlersApart DEF DeadlineStep
<1>5. ASSUME NEW r \in Rounds, SignalStep(r) \/ SignalFails(r) PROVE GameInv'
  BY <1>5, SignalKeeps
<1>6. ASSUME NEW h \in Handlers, Fails(h) \/ ReopenFails(h) PROVE GameInv'
  BY <1>6, FailsKeeps, ReopenKeeps
<1>7. CASE Sweep \/ Crash
  BY <1>7, SweepKeeps, CrashKeeps
<1>8. CASE UNCHANGED vars
  BY <1>8, CoreUnchanged DEF vars, redis, process, history
<1> QED
  BY <1>1, <1>2, <1>3, <1>4, <1>5, <1>6, <1>7, <1>8 DEF Next

-----------------------------------------------------------------------------
(* The right to settle a round is only taken by a claim. *)
LEMMA OnlyClaimsTake ==
  ASSUME [Next]_vars
  PROVE  claimed' \subseteq claimed \/ \E h \in Handlers : Claim(h)
<1> USE DEF redis
<1>1. ASSUME NEW h \in Handlers, Settle(h) PROVE claimed' \subseteq claimed \/ Claim(h)
  BY <1>1 DEF Settle, Finish, Commit, VoidRow, Clean, Tell, Rematch, Reopen, Release
<1>2. CASE AcceptStep
  BY <1>2 DEF AcceptStep, Greet, Start, Open, Discard, Abort, Inform
<1>3. ASSUME NEW p \in Players, SubmitStep(p) PROVE claimed' \subseteq claimed \/ Claim(Submit(p))
  BY <1>1, <1>3, HandlersApart DEF SubmitStep, Read, Store, Stamp
<1>4. ASSUME NEW p \in Players, NEW r \in Rounds, Receive(p, r) PROVE claimed' \subseteq claimed
  BY <1>4 DEF Receive
<1>5. ASSUME NEW r \in Rounds, DeadlineStep(r) PROVE claimed' \subseteq claimed \/ Claim(Deadline(r))
  BY <1>1, <1>5, HandlersApart DEF DeadlineStep, Fire, Expire, Load
<1>6. ASSUME NEW r \in Rounds, SignalStep(r) \/ SignalFails(r) PROVE claimed' \subseteq claimed
  BY <1>6 DEF SignalStep, SignalRead, SignalMark, SignalEmit, SignalFails
<1>7. ASSUME NEW h \in Handlers, Fails(h) \/ ReopenFails(h) PROVE claimed' \subseteq claimed
  BY <1>7 DEF Fails, ReopenFails
<1>8. CASE Sweep \/ Crash \/ UNCHANGED vars
  BY <1>8 DEF Sweep, Crash, vars
<1> QED
  BY <1>2, <1>3, <1>4, <1>5, <1>6, <1>7, <1>8, HandlersApart DEF Next

(* Who takes it for a round in which somebody sent nothing is that round's deadline. *)
LEMMA ClaimsOnTime ==
  ASSUME GameInv, NEW h \in Handlers, Claim(h), NEW r \in claimed' \ claimed,
         \E p \in Players : score[r][p] = NO_SUBMIT
  PROVE  ~Resting(Deadline(r))
<1>1. call[h].phase = "claim" /\ r = call[h].round
  BY DEF Claim, At
<1>2. h \notin Submits
  BY <1>1 DEF GameInv, BothAreThere, Both, AllThere
<1>3. h # Accepting
  BY <1>1 DEF GameInv, CallsFit, Fits
<1>4. PICK s \in Rounds : h = Deadline(s)
  BY <1>2, <1>3 DEF Handlers, Deadlines
<1>5. s = r
  BY <1>1, <1>4 DEF GameInv, CallsFit, Fits
<1> QED
  BY <1>1, <1>4, <1>5 DEF Resting, At

-----------------------------------------------------------------------------
(* The types of what the invariant above does not speak of. *)
SignalStates == {"off", "armed", "read", "emit"}

LEMMA RetriedTyped ==
  ASSUME CoreTyped, NEW h \in Handlers
  PROVE  Retried(h) \subseteq Rounds \X (1 .. GAME_EXPIRE_MAX_ATTEMPTS)
<1>1. call[h].round \in Rounds /\ call[h].attempt \in 1 .. GAME_EXPIRE_MAX_ATTEMPTS
  BY DEF CoreTyped, CallType
<1>2. call[h].attempt < GAME_EXPIRE_MAX_ATTEMPTS => call[h].attempt + 1 \in 1 .. GAME_EXPIRE_MAX_ATTEMPTS
  BY <1>1, GameAssumption
<1> QED
  BY <1>1, <1>2 DEF Retried

LEMMA OpensTyped ==
  ASSUME RestTyped, NEW r \in Rounds, Opens(r)
  PROVE  /\ timers' \subseteq Rounds \X (1 .. GAME_EXPIRE_MAX_ATTEMPTS)
         /\ signal' \in [Rounds -> SignalStates]
  BY AttemptsAreNats DEF RestTyped, SignalStates, Opens

(* One failure, one restart or one submission less. *)
LEMMA LessLeft ==
  ASSUME RestTyped,
         \/ left.failures > 0 /\ left' = [left EXCEPT !.failures = @ - 1]
         \/ left.crashes > 0 /\ left' = [left EXCEPT !.crashes = @ - 1]
         \/ \E p \in Players : left.sends[p] > 0 /\ left' = [left EXCEPT !.sends[p] = @ - 1]
  PROVE  left' \in [failures : 0 .. MaxFailures, crashes : 0 .. MaxCrashes, sends : [Players -> 0 .. MaxSends]]
<1>1. /\ left \in [failures : 0 .. MaxFailures, crashes : 0 .. MaxCrashes, sends : [Players -> 0 .. MaxSends]]
      /\ MaxFailures \in Nat /\ MaxCrashes \in Nat /\ MaxSends \in Nat
  BY GameAssumption DEF RestTyped
<1>2. CASE left.failures > 0 /\ left' = [left EXCEPT !.failures = @ - 1]
  BY <1>1, <1>2
<1>3. CASE left.crashes > 0 /\ left' = [left EXCEPT !.crashes = @ - 1]
  BY <1>1, <1>3
<1>4. ASSUME NEW p \in Players, left.sends[p] > 0, left' = [left EXCEPT !.sends[p] = @ - 1]
      PROVE  left' \in [failures : 0 .. MaxFailures, crashes : 0 .. MaxCrashes, sends : [Players -> 0 .. MaxSends]]
  <2> DEFINE sends == [left.sends EXCEPT ![p] = @ - 1]
  <2>1. sends \in [Players -> 0 .. MaxSends]
    BY <1>1, <1>4
  <2>2. left' = [left EXCEPT !.sends = sends]
    BY <1>4
  <2> HIDE DEF sends
  <2> QED
    BY <1>1, <2>1, <2>2
<1> QED
  BY <1>2, <1>3, <1>4

LEMMA RestInductive == GameInv /\ RestTyped /\ [Next]_vars => RestTyped'
<1> SUFFICES ASSUME GameInv, RestTyped, [Next]_vars PROVE RestTyped'
  OBVIOUS
<1> DEFINE Timers(t) == t \subseteq Rounds \X (1 .. GAME_EXPIRE_MAX_ATTEMPTS)
           Signal(s) == s \in [Rounds -> SignalStates]
           Left(l) == l \in [failures : 0 .. MaxFailures, crashes : 0 .. MaxCrashes,
                              sends : [Players -> 0 .. MaxSends]]
<1>0. /\ go \subseteq Rounds /\ signalled \subseteq Rounds /\ Timers(timers) /\ Signal(signal) /\ Left(left)
      /\ CoreTyped
  BY DEF RestTyped, SignalStates, GameInv
<1>00. ASSUME go' \subseteq Rounds, signalled' \subseteq Rounds, Timers(timers'), Signal(signal'), Left(left')
       PROVE  RestTyped'
  BY <1>00 DEF RestTyped, SignalStates
<1>1. ASSUME NEW h \in Handlers, At(h, "reopen") PROVE call[h].round + 1 \in Rounds
  <2>1. call[h].round \in Rounds /\ call[h].round < MAX_ROUNDS
    BY <1>1 DEF GameInv, DecisionStands, Stands, At, CoreTyped, CallType
  <2> QED
    BY <2>1, RoundsAreNats
<1> HIDE DEF Timers, Signal, Left
<1>2. ASSUME NEW h \in Handlers, Settle(h) PROVE RestTyped'
  <2>1. CASE Claim(h) \/ Finish(h) \/ Commit(h) \/ VoidRow(h) \/ Tell(h) \/ Rematch(h)
    BY <1>0, <1>00, <2>1 DEF Claim, Finish, Commit, VoidRow, Tell, Rematch, redis, history
  <2>2. CASE Clean(h)
    BY <1>0, <1>00, <2>2 DEF Clean, history
  <2>3. CASE Reopen(h)
    <3>1. Timers(timers') /\ Signal(signal')
      BY <1>1, <2>3, OpensTyped DEF Reopen, Timers, Signal
    <3> QED
      BY <1>0, <1>00, <2>3, <3>1 DEF Reopen, redis
  <2>4. CASE Release(h)
    <3>1. Timers(timers')
      BY <1>0, <2>4, RetriedTyped DEF Release, Breaks, Timers
    <3> QED
      BY <1>0, <1>00, <2>4, <3>1 DEF Release, history
  <2> QED
    BY <1>2, <2>1, <2>2, <2>3, <2>4 DEF Settle
<1>3. CASE AcceptStep
  <2>1. CASE Greet \/ Start \/ Abort \/ Inform
    BY <1>0, <1>00, <2>1 DEF Greet, Start, Abort, Inform, redis, history
  <2>2. CASE Discard
    BY <1>0, <1>00, <2>2 DEF Discard, history
  <2>3. CASE Open
    <3>1. Timers(timers') /\ Signal(signal')
      BY <2>3, OpensTyped, RoundsAreNats DEF Open, Timers, Signal
    <3> QED
      BY <1>0, <1>00, <2>3, <3>1 DEF Open, redis
  <2> QED
    BY <1>3, <2>1, <2>2, <2>3 DEF AcceptStep
<1>4. ASSUME NEW p \in Players, SubmitStep(p) PROVE RestTyped'
  <2>1. CASE Read(p) \/ Store(p) \/ Stamp(p)
    BY <1>0, <1>00, <2>1 DEF Read, Store, Stamp, redis, history
  <2> QED
    BY <1>2, <1>4, <2>1, HandlersApart DEF SubmitStep
<1>5. ASSUME NEW p \in Players, NEW r \in Rounds, Receive(p, r) PROVE RestTyped'
  <2>1. Left(left')
    BY <1>5, LessLeft DEF Receive, Left
  <2> QED
    BY <1>0, <1>00, <1>5, <2>1 DEF Receive, redis, history
<1>6. ASSUME NEW r \in Rounds, DeadlineStep(r) PROVE RestTyped'
  <2>1. CASE Fire(r)
    <3>1. Timers(timers')
      BY <1>0, <2>1 DEF Fire, Timers
    <3> QED
      BY <1>0, <1>00, <2>1, <3>1 DEF Fire, redis, history
  <2>2. CASE Expire(r) \/ Load(r)
    BY <1>0, <1>00, <2>2 DEF Expire, Load, redis, history
  <2> QED
    BY <1>2, <1>6, <2>1, <2>2, HandlersApart DEF DeadlineStep
<1>7. ASSUME NEW r \in Rounds, SignalStep(r) \/ SignalFails(r) PROVE RestTyped'
  <2>1. Signal(signal')
    BY <1>0, <1>7 DEF SignalStep, SignalRead, SignalMark, SignalEmit, SignalFails, Signal, SignalStates
  <2>2. go' \subseteq Rounds /\ signalled' \subseteq Rounds /\ timers' = timers
    BY <1>0, <1>7 DEF SignalStep, SignalRead, SignalMark, SignalEmit, SignalFails, Marked, redis, history
  <2>3. Left(left')
    <3>1. CASE SignalFails(r)
      BY <3>1, LessLeft DEF SignalFails, Left
    <3> QED
      BY <1>0, <1>7, <3>1 DEF SignalStep, SignalRead, SignalMark, SignalEmit
  <2> QED
    BY <1>0, <1>00, <2>1, <2>2, <2>3
<1>8. ASSUME NEW h \in Handlers, Fails(h) PROVE RestTyped'
  <2>1. Left(left')
    BY <1>8, LessLeft DEF Fails, Left
  <2>2. go' \subseteq Rounds /\ signalled' \subseteq Rounds
    BY <1>0, <1>8 DEF Fails, redis
  <2>3. Timers(timers') /\ Signal(signal')
    <3>1. CASE Breaks(h) /\ UNCHANGED signal
      BY <1>0, <3>1, RetriedTyped DEF Breaks, Timers
    <3>2. CASE Opens(1)
      BY <3>2, OpensTyped, RoundsAreNats DEF Timers, Signal
    <3> QED
      BY <1>0, <1>8, <3>1, <3>2 DEF Fails
  <2> QED
    BY <1>00, <2>1, <2>2, <2>3
<1>9. ASSUME NEW h \in Handlers, ReopenFails(h) PROVE RestTyped'
  <2>1. Left(left')
    BY <1>9, LessLeft DEF ReopenFails, Left
  <2>2. PICK n \in Rounds : n = call[h].round + 1
    BY <1>1, <1>9 DEF ReopenFails
  <2>3. /\ timers' = timers \union BeforeSending(n) \union Retried(h)
        /\ signal' = IF session.round = n /\ session.type = "REACTION" THEN [signal EXCEPT ![n] = "armed"] ELSE signal
    BY <1>9, <2>2 DEF ReopenFails
  <2>4. Timers(timers')
    BY <1>0, <2>3, RetriedTyped, AttemptsAreNats DEF BeforeSending, Timers
  <2>5. Signal(signal')
    BY <1>0, <2>3 DEF Signal, SignalStates
  <2> QED
    BY <1>0, <1>00, <1>9, <2>1, <2>4, <2>5 DEF ReopenFails, redis
<1>10. CASE Sweep \/ UNCHANGED vars
  BY <1>0, <1>00, <1>10 DEF Sweep, vars, redis, process, history
<1>11. CASE Crash
  <2>1. Left(left')
    BY <1>11, LessLeft DEF Crash, Left
  <2>2. Timers(timers') /\ Signal(signal')
    BY <1>11 DEF Crash, Timers, Signal, SignalStates
  <2> QED
    BY <1>0, <1>00, <1>11, <2>1, <2>2 DEF Crash, redis, history
<1> QED
  BY <1>3, <1>4, <1>5, <1>6, <1>7, <1>8, <1>9, <1>10, <1>11 DEF Next

-----------------------------------------------------------------------------
(* What the players are told. *)

(* Who goes to tell of a void duel has not seen it completed. *)
VoidEnd(q) == q.phase \in {"void", "clean", "tell"} /\ q.winner = Nobody
EndsAgree == \A h \in Handlers : VoidEnd(call[h]) => row # "COMPLETED"
(* While the first round was not opened, there is nothing to settle. *)
Unopened == call[Accepting].phase \in {"greet", "start", "discard", "abort", "inform"} /\ started[1] = 0
Untouched ==
  /\ row # "COMPLETED" /\ session.round = 0 /\ timers = {}
  /\ \A p \in Players : call[Submit(p)].phase \in {"idle", "read"}
  /\ \A r \in Rounds : call[Deadline(r)].phase = "idle"
NoGameYet == Unopened => Untouched
TellInv == told \subseteq Messages /\ ToldIsRow /\ EndsAgree /\ NoGameYet

(* One handler at most is about to end the duel or to give its round back. *)
LEMMA OneSettler ==
  ASSUME GameInv, NEW g \in Handlers, NEW h \in Handlers,
         call[g].phase \in Settling \ {"reopen"}, call[h].phase \in Settling \ {"reopen"}
  PROVE  g = h
<1> USE DEF GameInv
<1>1. call[g].round \in Rounds /\ call[h].round \in Rounds /\ call[g].round \in Nat /\ call[h].round \in Nat
  BY SettlersFit, RoundsAreNats
<1>2. Reached(call[g].round) /\ Reached(call[h].round)
  BY ActivesAreSettling DEF RoundsInOrder
<1>3. ~(call[g].round < call[h].round) /\ ~(call[h].round < call[g].round)
  BY <1>1, <1>2 DEF Reached, Passed
<1> QED
  BY <1>1, <1>3 DEF OneHolder

(* The right to settle is taken of no round once the duel has a result. *)
LEMMA NoRightAfterResult ==
  ASSUME GameInv, row = "COMPLETED", NEW h \in Handlers, Claim(h)
  PROVE  Done(h)
<1> USE DEF GameInv
<1>1. PICK r \in claimed : Final(r)
  BY DEF Decided
<1>2. call[h].phase \in Active /\ call[h].round \in Rounds
  BY DEF Claim, At, Active, CoreTyped, CallType
<1>3. call[h].round <= r /\ r \in Nat /\ call[h].round \in Nat
  BY <1>1, <1>2, RoundsAreNats DEF Final, CoreTyped
<1>4. call[h].round < r => call[h].round \in claimed
  BY <1>1, <1>2 DEF Final, Reached, Passed
<1> QED
  BY <1>1, <1>3, <1>4 DEF Claim, Free

LEMMA RowMoves ==
  ASSUME [Next]_vars
  PROVE  row' = row \/ (row = "ACCEPTED" /\ (row' = "VOID" \/ \E h \in Handlers : Commit(h)))
<1>1. ASSUME NEW h \in Handlers, Settle(h)
      PROVE  row' = row \/ (row = "ACCEPTED" /\ (row' = "VOID" \/ Commit(h)))
  BY <1>1 DEF Settle, Claim, Finish, Commit, VoidRow, Clean, Tell, Rematch, Reopen, Release
<1>2. CASE AcceptStep
  BY <1>2 DEF AcceptStep, Greet, Start, Open, Discard, Abort, Inform
<1>3. ASSUME NEW p \in Players, NEW r \in Rounds, Receive(p, r) PROVE row' = row
  BY <1>3 DEF Receive
<1>4. ASSUME NEW p \in Players, Read(p) \/ Store(p) \/ Stamp(p) PROVE row' = row
  BY <1>4 DEF Read, Store, Stamp
<1>5. ASSUME NEW r \in Rounds, Fire(r) \/ Expire(r) \/ Load(r) PROVE row' = row
  BY <1>5 DEF Fire, Expire, Load
<1>6. ASSUME NEW r \in Rounds, SignalStep(r) \/ SignalFails(r) PROVE row' = row
  BY <1>6 DEF SignalStep, SignalRead, SignalMark, SignalEmit, SignalFails
<1>7. ASSUME NEW h \in Handlers, Fails(h) \/ ReopenFails(h) PROVE row' = row
  BY <1>7 DEF Fails, ReopenFails
<1>8. CASE Sweep \/ Crash \/ UNCHANGED vars
  BY <1>8 DEF Sweep, Crash, vars
<1> QED
  BY <1>1, <1>2, <1>3, <1>4, <1>5, <1>6, <1>7, <1>8, HandlersApart DEF Next, SubmitStep, DeadlineStep

(* Only the handler of the accept and a handler that settled speak of the end. *)
LEMMA ToldMoves ==
  ASSUME [Next]_vars
  PROVE  told' = told \/ Inform \/ \E h \in Handlers : Tell(h)
<1> USE DEF history, process
<1>1. ASSUME NEW h \in Handlers, Settle(h) PROVE told' = told \/ Tell(h)
  BY <1>1 DEF Settle, Claim, Finish, Commit, VoidRow, Clean, Rematch, Reopen, Release
<1>2. CASE AcceptStep
  BY <1>2 DEF AcceptStep, Greet, Start, Open, Discard, Abort
<1>3. ASSUME NEW p \in Players, NEW r \in Rounds, Receive(p, r) PROVE told' = told
  BY <1>3 DEF Receive
<1>4. ASSUME NEW p \in Players, Read(p) \/ Store(p) \/ Stamp(p) PROVE told' = told
  BY <1>4 DEF Read, Store, Stamp
<1>5. ASSUME NEW r \in Rounds, Fire(r) \/ Expire(r) \/ Load(r) PROVE told' = told
  BY <1>5 DEF Fire, Expire, Load
<1>6. ASSUME NEW r \in Rounds, SignalStep(r) \/ SignalFails(r) PROVE told' = told
  BY <1>6 DEF SignalStep, SignalRead, SignalMark, SignalEmit, SignalFails
<1>7. ASSUME NEW h \in Handlers, Fails(h) \/ ReopenFails(h) PROVE told' = told
  BY <1>7 DEF Fails, ReopenFails
<1>8. CASE Sweep \/ Crash \/ UNCHANGED vars
  BY <1>8 DEF Sweep, Crash, vars
<1> QED
  BY <1>1, <1>2, <1>3, <1>4, <1>5, <1>6, <1>7, <1>8, HandlersApart DEF Next, SubmitStep, DeadlineStep

LEMMA StartedGrows ==
  ASSUME CoreTyped, [Next]_vars
  PROVE  started'[1] >= started[1] /\ started[1] \in Nat
<1>0. started \in [Rounds -> Nat] /\ 1 \in Rounds
  BY RoundsAreNats DEF CoreTyped
<1>1. ASSUME NEW n, started' = [started EXCEPT ![n] = @ + 1] PROVE started'[1] >= started[1]
  BY <1>0, <1>1
<1>2. started' = started \/ \E n : started' = [started EXCEPT ![n] = @ + 1]
  <2> USE DEF history, process
  <2>1. ASSUME NEW h \in Handlers, Settle(h)
        PROVE  started' = started \/ started' = [started EXCEPT ![call[h].round + 1] = @ + 1]
    BY <2>1 DEF Settle, Claim, Finish, Commit, VoidRow, Clean, Tell, Rematch, Reopen, Release, Opens
  <2>2. CASE AcceptStep
    BY <2>2 DEF AcceptStep, Greet, Start, Open, Discard, Abort, Inform, Opens
  <2>3. ASSUME NEW p \in Players, NEW r \in Rounds, Receive(p, r) PROVE started' = started
    BY <2>3 DEF Receive
  <2>4. ASSUME NEW p \in Players, Read(p) \/ Store(p) \/ Stamp(p) PROVE started' = started
    BY <2>4 DEF Read, Store, Stamp
  <2>5. ASSUME NEW r \in Rounds, Fire(r) \/ Expire(r) \/ Load(r) PROVE started' = started
    BY <2>5 DEF Fire, Expire, Load
  <2>6. ASSUME NEW r \in Rounds, SignalStep(r) \/ SignalFails(r) PROVE started' = started
    BY <2>6 DEF SignalStep, SignalRead, SignalMark, SignalEmit, SignalFails
  <2>7. ASSUME NEW h \in Handlers, Fails(h) \/ ReopenFails(h)
        PROVE  started' = started \/ \E n : started' = [started EXCEPT ![n] = @ + 1]
    BY <2>7 DEF Fails, ReopenFails, Opens
  <2>8. CASE Sweep \/ Crash \/ UNCHANGED vars
    BY <2>8 DEF Sweep, Crash, vars
  <2> QED
    BY <2>1, <2>2, <2>3, <2>4, <2>5, <2>6, <2>7, <2>8, HandlersApart DEF Next, SubmitStep, DeadlineStep
<1> QED
  BY <1>0, <1>1, <1>2

(* A call that comes to end the duel has decided to, or was on its way. *)
LEMMA EndsMove ==
  ASSUME GameInv, [Next]_vars, NEW h \in Handlers, VoidEnd(call'[h])
  PROVE  VoidEnd(call[h]) \/ Claim(h)
<1> DEFINE Ends == {"void", "clean", "tell"}
<1> USE DEF GameInv, At, Goto, Done, Breaks
<1>0. call \in [Handlers -> CallType] /\ call[h] \in CallType /\ Idle.phase \notin Ends
  BY IdleIsCall DEF CoreTyped
<1>1. ASSUME NEW g, NEW q, g # h \/ q.phase \notin Ends, call' = [call EXCEPT ![g] = q] PROVE call'[h] = call[h]
  BY <1>0, <1>1 DEF VoidEnd
<1>2. ASSUME NEW g, Done(g) PROVE VoidEnd(call[h])
  <2>1. call'[h] = call[h]
    BY <1>0, <1>1, <1>2
  <2> QED
    BY <2>1
<1>3. ASSUME NEW g \in Handlers, NEW f \in Phases \ Ends, Goto(g, f) PROVE VoidEnd(call[h])
  <2>1. [call[g] EXCEPT !.phase = f].phase \notin Ends
    BY <1>3, GotoIs
  <2>2. call'[h] = call[h]
    BY <1>1, <1>3, <2>1
  <2> QED
    BY <2>2
<1>4. ASSUME NEW g \in Handlers, NEW f \in Phases \ Ends, call' = [call EXCEPT ![g] = Entering(g, f)]
      PROVE  VoidEnd(call[h])
  <2>1. Entering(g, f).phase \notin Ends
    BY <1>4, EnteringIs
  <2>2. call'[h] = call[h]
    BY <1>1, <1>4, <2>1
  <2> QED
    BY <2>2
(* A result is not gone for without a winner. *)
<1>5. ASSUME NEW g \in Handlers, NEW f \in Phases, Goto(g, f), call[g].phase \in Ends \union {"commit"}
      PROVE  VoidEnd(call[h])
  <2>1. CASE g = h
    <3>1. call'[h] = [call[h] EXCEPT !.phase = f] /\ call'[h].winner = call[h].winner
      BY <1>0, <1>5, <2>1, GotoIs
    <3>2. call[h].phase # "commit"
      BY <3>1, PlayersAssumption DEF DecisionStands, Stands, VoidEnd, Players
    <3> QED
      BY <1>5, <2>1, <3>1, <3>2 DEF VoidEnd
  <2>2. CASE g # h
    BY <1>0, <1>5, <2>2
  <2> QED
    BY <2>1, <2>2
<1>6. {"start", "open", "discard", "abort", "inform", "load", "commit", "reopen", "stamp", "release", "claim"}
        \subseteq Phases \ Ends /\ Ends \subseteq Phases
  BY DEF Phases, Settling
<1> HIDE DEF Ends
<1>7. ASSUME NEW g \in Handlers, Settle(g) PROVE VoidEnd(call[h]) \/ Claim(h)
  <2>1. CASE Claim(g)
    <3>1. CASE g # h
      BY <1>0, <2>1, <3>1 DEF Claim
    <3> QED
      BY <2>1, <3>1
  <2>2. CASE Finish(g)
    <3>1. Goto(g, "commit") \/ call' = [call EXCEPT ![g] = Entering(g, "release")]
      BY <2>2 DEF Finish
    <3> QED
      BY <1>3, <1>4, <1>6, <3>1
  <2>3. CASE Commit(g) \/ VoidRow(g)
    BY <1>5, <1>6, <2>3 DEF Commit, VoidRow, Ends
  <2>4. CASE Clean(g)
    BY <1>5, <1>6, <2>4 DEF Clean, Ends
  <2>5. CASE Tell(g) \/ Reopen(g) \/ Release(g)
    BY <1>2, <2>5 DEF Tell, Reopen, Release
  <2>6. CASE Rematch(g)
    BY <1>3, <1>6, <2>6 DEF Rematch
  <2> QED
    BY <1>7, <2>1, <2>2, <2>3, <2>4, <2>5, <2>6 DEF Settle
<1>8. CASE AcceptStep
  <2>1. Done(Accepting) \/ \E f \in {"start", "open", "abort", "inform"} : Goto(Accepting, f)
    BY <1>8 DEF AcceptStep, Greet, Start, Open, Discard, Abort, Inform
  <2> QED
    BY <1>2, <1>3, <1>6, <2>1, HandlersApart
<1>9. ASSUME NEW p \in Players, NEW r \in Rounds, Receive(p, r) PROVE VoidEnd(call[h])
  <2> DEFINE q == [Idle EXCEPT !.phase = "read", !.round = r, !.early = r \notin go, !.sawGo = r \in signalled]
  <2>1. q.phase \notin Ends /\ call' = [call EXCEPT ![Submit(p)] = q]
    BY <1>9 DEF Receive, Idle, Ends
  <2> HIDE DEF q
  <2>2. call'[h] = call[h]
    BY <1>1, <2>1
  <2> QED
    BY <2>2
<1>10. ASSUME NEW p \in Players, Read(p) \/ Store(p) \/ Stamp(p) PROVE VoidEnd(call[h])
  <2> DEFINE g == Submit(p)
  <2>0. g \in Handlers /\ call[g] \in CallType
    BY HandlersApart DEF CoreTyped
  <2>1. ASSUME NEW f \in {"store", "stamp", "claim"}, NEW s, NEW b, NEW x,
               \/ call' = [call EXCEPT ![g] = [Entering(g, f) EXCEPT !.score = s, !.sawGo = b]]
               \/ call' = [call EXCEPT ![g] = [Entering(g, f) EXCEPT !.both = x]]
               \/ call' = [call EXCEPT ![g] = Entering(g, f)]
        PROVE  VoidEnd(call[h])
    <3> DEFINE e == Entering(g, f)
    <3>1. e \in CallType /\ e.phase = f
      BY <2>0, EnteringIs DEF Phases
    <3> HIDE DEF e
    <3>2. PICK q : q.phase = f /\ call' = [call EXCEPT ![g] = q]
      <4>1. [e EXCEPT !.score = s, !.sawGo = b].phase = f /\ [e EXCEPT !.both = x].phase = f
        BY <3>1 DEF CallType
      <4> QED
        BY <2>1, <3>1, <4>1 DEF e
    <3>3. call'[h] = call[h]
      BY <1>1, <3>2 DEF Ends
    <3> QED
      BY <3>3
  <2>2. CASE Read(p)
    BY <1>2, <2>1, <2>2 DEF Read
  <2>3. CASE Store(p)
    BY <1>2, <2>1, <2>3 DEF Store
  <2>4. CASE Stamp(p)
    BY <1>2, <2>1, <2>4 DEF Stamp
  <2> QED
    BY <1>10, <2>2, <2>3, <2>4
<1>11. ASSUME NEW r \in Rounds, Fire(r) \/ Expire(r) \/ Load(r) PROVE VoidEnd(call[h])
  <2> DEFINE g == Deadline(r)
  <2>0. g \in Handlers /\ call[g] \in CallType
    BY HandlersApart DEF CoreTyped
  <2>1. CASE Fire(r)
    <3>1. PICK q : q.phase = "expire" /\ call' = [call EXCEPT ![g] = q]
      BY <2>1 DEF Fire, Idle
    <3>2. call'[h] = call[h]
      BY <1>1, <3>1 DEF Ends
    <3> QED
      BY <3>2
  <2>2. CASE Expire(r)
    BY <1>2, <1>3, <1>6, <2>0, <2>2 DEF Expire
  <2>3. CASE Load(r)
    <3>1. CASE Done(g)
      BY <1>2, <3>1
    <3>2. CASE call' = [call EXCEPT ![g].phase = "claim", ![g].round = session.round]
      <4> DEFINE q == [call[g] EXCEPT !.phase = "claim", !.round = session.round]
      <4>1. q.phase = "claim" /\ call' = [call EXCEPT ![g] = q]
        BY <1>0, <2>0, <3>2 DEF CallType
      <4> HIDE DEF q
      <4>2. call'[h] = call[h]
        BY <1>1, <4>1 DEF Ends
      <4> QED
        BY <4>2
    <3> QED
      BY <2>3, <3>1, <3>2 DEF Load
  <2> QED
    BY <1>11, <2>1, <2>2, <2>3
<1>12. ASSUME NEW g \in Handlers, Fails(g) \/ ReopenFails(g) PROVE VoidEnd(call[h])
  <2>1. \/ Done(g) \/ Goto(g, "discard") \/ Goto(g, "abort")
        \/ call' = [call EXCEPT ![g] = Entering(g, "release")]
        \/ Goto(g, "tell") /\ call[g].phase = "clean"
    BY <1>12 DEF Fails, ReopenFails
  <2>2. "tell" \in Phases /\ "clean" \in Ends
    BY <1>6 DEF Ends
  <2> QED
    BY <1>2, <1>3, <1>4, <1>5, <1>6, <2>1, <2>2
<1>13. CASE Crash
  BY <1>0, <1>13, IdleIsCall DEF Crash, VoidEnd
<1>14. ASSUME UNCHANGED call PROVE VoidEnd(call[h])
  BY <1>14
<1>15. ASSUME NEW r \in Rounds, SignalStep(r) \/ SignalFails(r) PROVE VoidEnd(call[h])
  BY <1>14, <1>15 DEF SignalStep, SignalRead, SignalMark, SignalEmit, SignalFails
<1>16. CASE Sweep \/ UNCHANGED vars
  BY <1>14, <1>16 DEF Sweep, vars, process
<1> QED
  BY <1>7, <1>8, <1>9, <1>10, <1>11, <1>12, <1>13, <1>15, <1>16, HandlersApart DEF Next, SubmitStep, DeadlineStep

LEMMA EndsAgreeKept ==
  ASSUME GameInv, EndsAgree, [Next]_vars
  PROVE  EndsAgree'
<1> SUFFICES ASSUME NEW h \in Handlers, VoidEnd(call'[h]), row' = "COMPLETED" PROVE FALSE
  BY DEF EndsAgree, VoidEnd
<1>1. CASE VoidEnd(call[h])
  <2>1. PICK g \in Handlers : Commit(g)
    BY <1>1, RowMoves DEF EndsAgree
  <2>2. call[g].phase = "commit" /\ call[h].phase \in {"void", "clean", "tell"}
    BY <1>1, <2>1 DEF Commit, At, VoidEnd
  <2> QED
    BY <2>2, OneSettler DEF Settling
<1>2. CASE Claim(h)
  <2>1. row = "COMPLETED"
    BY <1>2 DEF Claim
  <2>2. call'[h] = Idle
    BY <1>2, <2>1, NoRightAfterResult DEF Done, GameInv, CoreTyped
  <2> QED
    BY <2>2, IdleIsCall DEF VoidEnd
<1> QED
  BY <1>1, <1>2, EndsMove

(* Nothing but the handler of the accept moves until the first round is opened. *)
LEMMA NoGameYetKept ==
  ASSUME GameInv, NoGameYet, [Next]_vars
  PROVE  NoGameYet'
<1> USE DEF GameInv, At, redis, process, history
<1> SUFFICES ASSUME Unopened' PROVE Untouched'
  BY DEF NoGameYet
<1>0. /\ call \in [Handlers -> CallType] /\ Accepting \in Handlers /\ Idle.phase = "idle"
      /\ \A p \in Players : Submit(p) \in Handlers /\ Submit(p) # Accepting
      /\ \A r \in Rounds : Deadline(r) \in Handlers /\ Deadline(r) # Accepting
      /\ \A p \in Players, r \in Rounds : Submit(p) # Deadline(r)
      /\ started[1] = 0
  BY StartedGrows, IdleIsCall, HandlersApart DEF CoreTyped, Unopened
<1>1. ASSUME Untouched, UNCHANGED <<session, timers>>, row' # "COMPLETED",
             \A h \in Handlers : h # Accepting => call'[h] = call[h]
      PROVE  Untouched'
  BY <1>0, <1>1 DEF Untouched
<1>2. call'[Accepting] = call[Accepting] => Unopened /\ Untouched
  BY <1>0 DEF NoGameYet, Unopened
<1>3. ASSUME NEW g \in Handlers, g # Accepting, \A k \in Handlers \ {g} : call'[k] = call[k]
      PROVE  Untouched /\ call[g].phase \in {"idle", "read"} /\ (call[g].phase = "read" => g \in Submits)
  BY <1>0, <1>2, <1>3, HandlersApart DEF Untouched, Handlers, Submits, Deadlines
<1>4. ASSUME NEW g \in Handlers, Settle(g) PROVE FALSE
  <2>1. \A k \in Handlers \ {g} : call'[k] = call[k]
    BY <1>0, <1>4 DEF Settle, Claim, Finish, Commit, VoidRow, Clean, Tell, Rematch, Reopen, Release, Breaks, Done, Goto
  <2>2. call[g].phase \in {"claim"} \union Settling
    BY <1>4 DEF Settle, Claim, Finish, Commit, VoidRow, Clean, Tell, Rematch, Reopen, Release, Settling
  <2>3. g # Accepting
    BY <2>2 DEF CallsFit, Fits, Settling
  <2> QED
    BY <1>3, <2>1, <2>2, <2>3 DEF Settling
<1>5. CASE AcceptStep
  <2>1. CASE Greet \/ Discard \/ Abort
    <3>1. Unopened
      BY <1>0, <2>1 DEF Greet, Discard, Abort, Unopened
    <3>2. session'.round = session.round \/ session'.round = 0
      BY <2>1 DEF Greet, Discard, Abort, NoSession
    <3> QED
      BY <1>0, <2>1, <3>1, <3>2 DEF NoGameYet, Untouched, Greet, Discard, Abort, Goto
  <2>2. CASE Start
    <3>1. call'[Accepting].phase = "open"
      BY <1>0, <2>2, GotoIs DEF Start, Goto, Phases
    <3> QED
      BY <3>1 DEF Unopened
  <2>3. CASE Open \/ Inform
    <3>1. call'[Accepting].phase = "idle"
      BY <1>0, <2>3 DEF Open, Inform, Done
    <3> QED
      BY <3>1 DEF Unopened
  <2> QED
    BY <1>5, <2>1, <2>2, <2>3 DEF AcceptStep
<1>6. ASSUME NEW p \in Players, NEW r \in Rounds, Receive(p, r) PROVE Untouched'
  <2>1. call'[Submit(p)].phase = "read" /\ \A k \in Handlers \ {Submit(p)} : call'[k] = call[k]
    BY <1>0, <1>6 DEF Receive, Idle
  <2>2. Untouched
    BY <1>0, <1>3, <2>1
  <2> QED
    BY <1>0, <1>6, <2>1, <2>2 DEF Receive, Untouched
<1>7. ASSUME NEW p \in Players, Read(p) \/ Store(p) \/ Stamp(p) PROVE Untouched'
  <2> DEFINE h == Submit(p)
  <2>1. \A k \in Handlers \ {h} : call'[k] = call[k]
    BY <1>0, <1>7 DEF Read, Store, Stamp, Done
  <2>2. Untouched /\ call[h].phase \in {"idle", "read"}
    BY <1>0, <1>3, <2>1
  <2>3. Read(p) /\ session.round # call[h].round
    <3>1. call[h].round \in Rounds /\ 0 \notin Rounds
      BY <1>0, RoundsAreNats DEF CallType
    <3> QED
      BY <1>7, <2>2, <3>1 DEF Store, Stamp, Untouched
  <2>4. call'[h].phase = "idle"
    BY <1>0, <2>3 DEF Read, Done
  <2> QED
    BY <1>0, <2>1, <2>2, <2>3, <2>4 DEF Read, Untouched
<1>8. ASSUME NEW r \in Rounds, Fire(r) \/ Expire(r) \/ Load(r) PROVE FALSE
  <2> DEFINE h == Deadline(r)
  <2>1. \A k \in Handlers \ {h} : call'[k] = call[k]
    BY <1>0, <1>8 DEF Fire, Expire, Load, Done, Goto
  <2>2. Untouched
    BY <1>0, <1>3, <2>1
  <2> QED
    BY <1>8, <2>2 DEF Fire, Expire, Load, Untouched
<1>9. ASSUME NEW r \in Rounds, SignalStep(r) \/ SignalFails(r) PROVE Untouched'
  <2>1. UNCHANGED <<row, session, timers, call>>
    BY <1>9 DEF SignalStep, SignalRead, SignalMark, SignalEmit, SignalFails
  <2> QED
    BY <1>1, <1>2, <2>1 DEF Untouched
<1>10. ASSUME NEW h \in Handlers, Fails(h) \/ ReopenFails(h) PROVE Untouched'
  <2>1. /\ row' = row /\ \A k \in Handlers \ {h} : call'[k] = call[k]
        /\ call[h].phase # "idle"
    BY <1>0, <1>10 DEF Fails, ReopenFails, Breaks, Done, Goto
  <2>2. CASE h = Accepting
    <3>1. call[h].phase \in {"idle", "greet", "start", "open", "discard", "abort", "inform"}
      BY <2>2 DEF CallsFit, Fits
    <3>2. call[h].phase # "open"
      <4>1. 1 \in Rounds /\ started \in [Rounds -> Nat] /\ started'[1] = 0
        BY RoundsAreNats DEF CoreTyped, Unopened
      <4>2. ASSUME Opens(1) PROVE FALSE
        BY <1>0, <4>1, <4>2 DEF Opens
      <4> QED
        BY <1>10, <4>2 DEF Fails, ReopenFails
    <3>3. Untouched
      BY <1>0, <2>1, <3>1, <3>2, <2>2 DEF Unopened, NoGameYet
    <3>4. timers' = timers /\ session'.round \in {session.round, 0}
      BY <1>10, <3>1, <3>2 DEF Fails, ReopenFails, NoSession
    <3> QED
      BY <1>0, <2>1, <2>2, <3>3, <3>4 DEF Untouched
  <2>3. CASE h # Accepting
    <3>1. Untouched /\ call[h].phase = "read" /\ h \in Submits
      BY <1>3, <2>1, <2>3
    <3>2. Breaks(h) /\ session' = session
      BY <1>10, <3>1 DEF Fails, ReopenFails
    <3>3. timers' = timers /\ call'[h].phase = "idle"
      BY <1>0, <3>1, <3>2, HandlersApart DEF Breaks, Retried, Done, Submits, Deadlines
    <3> QED
      BY <1>0, <2>1, <3>1, <3>2, <3>3, HandlersApart DEF Untouched
  <2> QED
    BY <2>2, <2>3
<1>11. CASE Sweep \/ UNCHANGED vars
  <2>1. UNCHANGED <<session, timers, call>> /\ (row' = row \/ row' = "VOID")
    BY <1>11 DEF Sweep, vars
  <2> QED
    BY <1>1, <1>2, <2>1 DEF Untouched
<1>12. CASE Crash
  BY <1>0, <1>12 DEF Crash, Unopened
<1> QED
  BY <1>4, <1>5, <1>6, <1>7, <1>8, <1>9, <1>10, <1>11, <1>12, HandlersApart DEF Next, SubmitStep, DeadlineStep

LEMMA ToldIsRowKept ==
  ASSUME GameInv, TellInv, [Next]_vars
  PROVE  told' \subseteq Messages /\ ToldIsRow'
<1>1. ASSUME NEW t \in told PROVE row # "ACCEPTED" /\ (t.verdict = row \/ GaveUpPlayed(t))
  BY DEF TellInv, ToldIsRow
<1>2. row # "ACCEPTED" => row' = row
  BY RowMoves
<1>3. started'[1] >= started[1] /\ started[1] \in Nat
  BY StartedGrows DEF GameInv
<1>4. started[1] > 0 => started'[1] > 0
  <2>1. started'[1] \in Nat
    BY GameInductive, RoundsAreNats DEF GameInv, CoreTyped
  <2> QED
    BY <1>3, <2>1
<1>5. ASSUME NEW t \in told PROVE row' # "ACCEPTED" /\ (t.verdict = row' \/ GaveUpPlayed(t)')
  BY <1>1, <1>2, <1>4 DEF GaveUpPlayed
<1>6. ASSUME NEW t, t \in Messages, told' = told \union {t},
             row # "ACCEPTED", t.verdict = row \/ GaveUpPlayed(t)
      PROVE  told' \subseteq Messages /\ ToldIsRow'
  BY <1>2, <1>4, <1>5, <1>6 DEF ToldIsRow, TellInv, GaveUpPlayed
<1>7. row \in {"ACCEPTED", "COMPLETED", "VOID"}
  BY DEF GameInv, CoreTyped
<1>8. CASE Inform
  <2> DEFINE t == [from |-> "accept", verdict |-> "VOID"]
  <2>1. call[Accepting].phase = "inform" /\ told' = told \union {t} /\ row # "ACCEPTED"
    BY <1>8, HandlersApart DEF Inform, At, GameInv, DecisionStands, Stands
  <2>2. row = "COMPLETED" => started[1] > 0
    BY <1>3, <2>1 DEF TellInv, NoGameYet, Unopened, Untouched
  <2>3. t.verdict = row \/ GaveUpPlayed(t)
    BY <1>7, <2>1, <2>2 DEF GaveUpPlayed
  <2>4. t \in Messages
    BY DEF Messages
  <2> HIDE DEF t
  <2> QED
    BY <1>6, <2>1, <2>3, <2>4
<1>9. ASSUME NEW h \in Handlers, Tell(h) PROVE told' \subseteq Messages /\ ToldIsRow'
  <2> DEFINE t == [from |-> "settle", verdict |-> Verdict(h)]
  <2>1. call[h].phase = "tell" /\ told' = told \union {t} /\ row # "ACCEPTED"
    BY <1>9 DEF Tell, At, GameInv, DecisionStands, Stands
  <2>2. row = "COMPLETED" => call[h].winner # Nobody
    BY <2>1 DEF TellInv, EndsAgree, VoidEnd
  <2>3. t.verdict = row /\ t \in Messages
    BY <1>7, <2>1, <2>2 DEF Verdict, Messages
  <2> HIDE DEF t
  <2> QED
    BY <1>6, <2>1, <2>3
<1>10. CASE told' = told
  BY <1>5, <1>10 DEF ToldIsRow, TellInv
<1> QED
  BY <1>8, <1>9, <1>10, ToldMoves

LEMMA TellInitially == Init => TellInv
<1> SUFFICES ASSUME Init PROVE TellInv
  OBVIOUS
<1>1. \A h \in Handlers : call[h].phase \in {"idle", "greet"} /\ (h # Accepting => call[h].phase = "idle")
  BY IdleIsCall DEF Init, CallType
<1>2. session.round = 0 /\ timers = {} /\ row = "ACCEPTED" /\ told = {}
  BY DEF Init, NoSession
<1> QED
  BY <1>1, <1>2, HandlersApart DEF TellInv, ToldIsRow, EndsAgree, VoidEnd, NoGameYet, Untouched

LEMMA TellInductive == GameInv /\ TellInv /\ [Next]_vars => TellInv'
  BY ToldIsRowKept, EndsAgreeKept, NoGameYetKept DEF TellInv

-----------------------------------------------------------------------------
(* The theorems. *)
LEMMA GameHolds == Spec => []GameInv
<1>1. Init => GameInv
  BY GameInitially
<1>2. GameInv /\ [Next]_vars => GameInv'
  BY GameInductive
<1> QED
  BY <1>1, <1>2, PTL DEF Spec

LEMMA RestHolds == Spec => []RestTyped
<1>1. Init => RestTyped
  BY GameAssumption DEF Init, RestTyped
<1>2. GameInv /\ RestTyped /\ [Next]_vars => RestTyped'
  BY RestInductive
<1> QED
  BY <1>1, <1>2, GameHolds, PTL DEF Spec

(* No round of a game is started twice, however the settlements, the retries  *)
(* and the failures of startGameRound and of settle interleave.               *)
THEOREM RoundsStartOnce == Spec => []OneStartPerRound
<1>1. GameInv => OneStartPerRound
  BY DEF GameInv, StartsOnce, OneStartPerRound
<1> QED
  BY <1>1, GameHolds, PTL

(* Nobody loses a round by default before the deadline of that very round:    *)
(* claimRoundSettlement is reached by a submission only with both scores, and *)
(* expireRound gives up when the session is in another round.                 *)
THEOREM RoundsSettleOnTime == Spec => SettledOnTime
<1>1. ASSUME GameInv, [Next]_vars, NEW r \in claimed' \ claimed, \E p \in Players : score[r][p] = NO_SUBMIT
      PROVE  ~Resting(Deadline(r))
  BY <1>1, OnlyClaimsTake, ClaimsOnTime
<1>2. GameInv /\ [Next]_vars =>
        [\A r \in claimed' \ claimed : (\E p \in Players : score[r][p] = NO_SUBMIT) => ~Resting(Deadline(r))]_vars
  BY <1>1
<1> QED
  BY <1>2, GameHolds, PTL DEF Spec, SettledOnTime

LEMMA TellHolds == Spec => []TellInv
<1>1. Init => TellInv
  BY TellInitially
<1>2. GameInv /\ TellInv /\ [Next]_vars => TellInv'
  BY TellInductive
<1> QED
  BY <1>1, <1>2, GameHolds, PTL DEF Spec

(* What settle tells the players is the row finishByGame or voidByGame left, what  *)
(* the handler of the accept tells is too, unless the round it gave up was played, *)
(* and the winner of a completed duel sent a score in the last round there was.    *)
THEOREM ResultHolds == Spec => []ResultStands
<1>1. GameInv => WinnerTookPart
  <2> SUFFICES ASSUME GameInv, row = "COMPLETED" PROVE WinnerTookPart
    BY DEF WinnerTookPart
  <2>1. PICK r \in claimed : score[r][winner] # NO_SUBMIT /\ Final(r)
    BY DEF GameInv, Decided
  <2> QED
    BY <2>1 DEF Final, WinnerTookPart
<1>2. GameInv /\ TellInv => ResultStands
  BY <1>1 DEF TellInv, ResultStands
<1> QED
  BY <1>2, GameHolds, TellHolds, PTL

(* Every variable of the game keeps its type. *)
THEOREM GameTyped == Spec => []TypeOK
<1>1. GameInv /\ RestTyped /\ TellInv => TypeOK
  BY DEF GameInv, CoreTyped, RestTyped, TellInv, TypeOK
<1> QED
  BY <1>1, GameHolds, RestHolds, TellHolds, PTL

-----------------------------------------------------------------------------
(* The signal of the reaction game. *)

(* Only the handler of the accept takes the instant of a signal back, when its game *)
(* could not be opened.                                                             *)
Lasting(r) == r > 1 \/ Accepting \notin MayFail
(* The instant of a signal that is sent or about to be is kept while the duel lasts. *)
SignalOut(r) == r \in signalled \/ signal[r] = "emit"
GoStays == row = "ACCEPTED" => \A r \in Rounds : Lasting(r) /\ SignalOut(r) => r \in go
(* Who submits after the signal arrives after its instant, and is no false start.   *)
Heard(q) ==
  q.phase \in {"read", "store"} /\ q.sawGo =>
    /\ q.round \in signalled
    /\ row = "ACCEPTED" /\ Lasting(q.round) =>
         (q.phase = "read" => ~q.early) /\ (q.phase = "store" => q.score # FALSE_START)
GoHeard == \A p \in Players : Heard(call[Submit(p)])
(* The handler of the accept is in the first round, and gives up after an error only. *)
Accepts(q) == q.round = 1 /\ (Accepting \notin MayFail => q.phase \notin {"discard", "abort", "inform"})
GoInv == GoStays /\ GoHeard /\ Accepts(call[Accepting])

(* Steps of one handler, or of none when q is its call, that send no signal and read none. *)
LEMMA GoQuietStep ==
  ASSUME CoreTyped, GoInv, NEW h \in Handlers, NEW q, call' = [call EXCEPT ![h] = q],
         q.phase \notin {"read", "store"}, h = Accepting => Accepts(q),
         row' = "ACCEPTED" => row = "ACCEPTED", signalled' = signalled,
         \A r \in Rounds : signal'[r] = "emit" => signal[r] = "emit",
         row = "ACCEPTED" => \A r \in go \ go' : ~Lasting(r)
  PROVE  GoInv'
<1>1. call'[h] = q /\ \A g \in Handlers \ {h} : call'[g] = call[g]
  BY DEF CoreTyped
<1>2. GoStays'
  BY DEF GoInv, GoStays, SignalOut, Lasting
<1>3. GoHeard'
  <2> SUFFICES ASSUME NEW p \in Players PROVE Heard(call[Submit(p)])'
    BY DEF GoHeard
  <2>1. CASE Submit(p) = h
    BY <1>1, <2>1 DEF Heard
  <2>2. CASE Submit(p) # h
    <3>1. call'[Submit(p)] = call[Submit(p)] /\ Heard(call[Submit(p)])
      BY <1>1, <2>2, HandlersApart DEF GoInv, GoHeard
    <3> QED
      BY <3>1 DEF Heard, Lasting
  <2> QED
    BY <2>1, <2>2
<1>4. Accepts(call[Accepting])'
  <2>1. CASE Accepting = h
    BY <1>1, <2>1 DEF Accepts
  <2>2. CASE Accepting # h
    BY <1>1, <2>2, HandlersApart DEF GoInv, Accepts
  <2> QED
    BY <2>1, <2>2
<1> QED
  BY <1>2, <1>3, <1>4 DEF GoInv

LEMMA IdleAccepts == Accepts(Idle) /\ Idle.round = 1 /\ Idle.phase = "idle"
  BY DEF Accepts, Idle

LEMMA GoEnds ==
  ASSUME CoreTyped, GoInv, NEW h \in Handlers, Done(h), row' = "ACCEPTED" => row = "ACCEPTED",
         \A r \in Rounds : signal'[r] = "emit" => signal[r] = "emit", UNCHANGED <<go, signalled>>
  PROVE  GoInv'
  BY IdleAccepts, GoQuietStep DEF Done

LEMMA GoMoves ==
  ASSUME CoreTyped, GoInv, NEW h \in Handlers, NEW f \in Phases, Goto(h, f), f \notin {"read", "store"},
         h = Accepting /\ Accepting \notin MayFail => f \notin {"discard", "abort", "inform"},
         row' = "ACCEPTED" => row = "ACCEPTED", signalled' = signalled,
         \A r \in Rounds : signal'[r] = "emit" => signal[r] = "emit",
         row = "ACCEPTED" => \A r \in go \ go' : ~Lasting(r)
  PROVE  GoInv'
<1> DEFINE q == [call[h] EXCEPT !.phase = f]
<1>1. q.phase = f /\ q.round = call[h].round /\ call' = [call EXCEPT ![h] = q]
  BY GotoIs DEF Goto
<1> HIDE DEF q
<1>2. h = Accepting => Accepts(q)
  BY <1>1 DEF GoInv, Accepts
<1> QED
  BY <1>1, <1>2, GoQuietStep

(* A handler that enters a phase anew. *)
LEMMA GoEnters ==
  ASSUME CoreTyped, GoInv, NEW h \in Handlers, h # Accepting, NEW f \in Phases, f \notin {"read", "store"},
         call' = [call EXCEPT ![h] = Entering(h, f)], UNCHANGED <<row, go, signal, signalled>>
  PROVE  GoInv'
<1> DEFINE q == Entering(h, f)
<1>1. q.phase = f /\ call' = [call EXCEPT ![h] = q]
  BY EnteringIs
<1> HIDE DEF q
<1> QED
  BY <1>1, GoQuietStep

LEMMA GoInitially == Init => GoInv
<1> SUFFICES ASSUME Init PROVE GoInv
  OBVIOUS
<1> DEFINE greeting == [Idle EXCEPT !.phase = "greet"]
<1>1. greeting.phase = "greet" /\ greeting.round = 1
  BY DEF Idle
<1>2. call[Accepting] = greeting /\ \A p \in Players : call[Submit(p)] = Idle
  BY HandlersApart DEF Init, greeting
<1> HIDE DEF greeting
<1>3. GoStays
  BY DEF Init, GoStays, SignalOut
<1>4. GoHeard
  BY <1>2, IdleAccepts DEF GoHeard, Heard
<1>5. Accepts(call[Accepting])
  BY <1>1, <1>2 DEF Accepts
<1> QED
  BY <1>3, <1>4, <1>5 DEF GoInv

-----------------------------------------------------------------------------
(* The handler of the accept. *)
LEMMA OpensSilently ==
  ASSUME RestTyped, NEW r \in Rounds, Opens(r)
  PROVE  \A s \in Rounds : signal'[s] = "emit" => signal[s] = "emit"
  BY DEF RestTyped, Opens

LEMMA GoAccept ==
  ASSUME GameInv, RestTyped, GoInv, AcceptStep PROVE GoInv'
<1> USE DEF redis, process, history, At
<1>0. CoreTyped /\ Accepting \in Handlers /\ {"start", "open", "discard", "abort", "inform"} \subseteq Phases
  BY HandlersApart DEF GameInv, Phases, Settling
<1>1. CASE Greet
  BY <1>0, <1>1, GoMoves DEF Greet
<1>2. CASE Start
  BY <1>0, <1>2, GoMoves DEF Start
<1>3. CASE Open
  BY <1>0, <1>3, GoEnds, OpensSilently, RoundsAreNats DEF Open
<1>4. CASE Discard
  <2>1. Accepting \in MayFail
    BY <1>4 DEF Discard, GoInv, Accepts
  <2>2. ~Lasting(1)
    BY <2>1 DEF Lasting
  <2> QED
    BY <1>0, <1>4, <2>1, <2>2, GoMoves DEF Discard
<1>5. CASE Abort
  <2>1. Accepting \in MayFail
    BY <1>5 DEF Abort, GoInv, Accepts
  <2>2. row' = "ACCEPTED" => row = "ACCEPTED"
    BY <1>5 DEF Abort
  <2> QED
    BY <1>0, <1>5, <2>1, <2>2, GoMoves DEF Abort
<1>6. CASE Inform
  BY <1>0, <1>6, GoEnds DEF Inform
<1> QED
  BY <1>1, <1>2, <1>3, <1>4, <1>5, <1>6 DEF AcceptStep

-----------------------------------------------------------------------------
(* Submissions. *)
LEMMA GoReceive ==
  ASSUME CoreTyped, RestTyped, GoInv, NEW p \in Players, NEW r \in Rounds, Receive(p, r)
  PROVE  GoInv'
<1> DEFINE e == r \notin go
           s == r \in signalled
           q == [Idle EXCEPT !.phase = "read", !.round = r, !.early = e, !.sawGo = s]
<1>1. call' = [call EXCEPT ![Submit(p)] = q] /\ UNCHANGED <<row, go, signal, signalled>>
  BY DEF Receive, redis, history
<1>2. row = "ACCEPTED" /\ Lasting(r) /\ s => ~e
  BY DEF GoInv, GoStays, SignalOut
<1>3. e \in BOOLEAN /\ s \in BOOLEAN /\ (s => r \in signalled)
  OBVIOUS
<1> HIDE DEF e, s
<1>4. q.phase = "read" /\ q.round = r /\ q.early = e /\ q.sawGo = s
  BY DEF Idle
<1> HIDE DEF q
<1>5. Heard(q)
  BY <1>2, <1>3, <1>4 DEF Heard
<1>6. call'[Submit(p)] = q /\ \A h \in Handlers \ {Submit(p)} : call'[h] = call[h]
  BY <1>1, HandlersApart DEF CoreTyped
<1>7. GoHeard'
  BY <1>1, <1>5, <1>6, HandlersApart DEF GoInv, GoHeard, Heard, Lasting
<1>8. Accepts(call[Accepting])'
  BY <1>6, HandlersApart DEF GoInv, Accepts
<1> QED
  BY <1>1, <1>7, <1>8 DEF GoInv, GoStays, SignalOut, Lasting

LEMMA GoRead ==
  ASSUME CoreTyped, RestTyped, GoInv, NEW p \in Players, Read(p)
  PROVE  GoInv'
<1> DEFINE h == Submit(p)
<1>1. h \in Handlers /\ call[h] \in CallType /\ h # Accepting /\ call[h].phase = "read"
  BY HandlersApart DEF CoreTyped, Read
<1>2. UNCHANGED <<row, go, signal, signalled>>
  BY DEF Read, redis, history
<1>3. ASSUME NEW s \in Evaluated(call[h]),
             call' = [call EXCEPT ![h] = [Entering(h, "store") EXCEPT !.score = s, !.sawGo = call[h].sawGo]]
      PROVE  GoInv'
  <2> DEFINE e == Entering(h, "store")
             q == [e EXCEPT !.score = s, !.sawGo = call[h].sawGo]
  <2>1. e \in CallType /\ e.phase = "store" /\ e.round = call[h].round
    BY <1>1, EnteringIs DEF Phases
  <2> HIDE DEF e
  <2>2. q.phase = "store" /\ q.round = call[h].round /\ q.score = s /\ q.sawGo = call[h].sawGo
    BY <2>1 DEF CallType
  <2>3. call' = [call EXCEPT ![h] = q]
    BY <1>3 DEF e
  <2> HIDE DEF q
  <2>4. Heard(q)
    <3> SUFFICES ASSUME call[h].sawGo
                 PROVE  /\ call[h].round \in signalled
                        /\ row = "ACCEPTED" /\ Lasting(call[h].round) => s # FALSE_START
      BY <2>2 DEF Heard
    <3>1. /\ call[h].round \in signalled
          /\ row = "ACCEPTED" /\ Lasting(call[h].round) => ~call[h].early
      BY <1>1 DEF GoInv, GoHeard, Heard
    <3>2. ASSUME row = "ACCEPTED", Lasting(call[h].round) PROVE s \in Points
      <4>1. call[h].round \in go /\ ~call[h].early
        BY <1>1, <3>1, <3>2 DEF GoInv, GoStays, SignalOut, CallType
      <4> QED
        BY <1>3, <4>1 DEF Evaluated
    <3>3. FALSE_START \notin Points
      BY GameAssumption DEF FALSE_START
    <3> QED
      BY <3>1, <3>2, <3>3
  <2>5. call'[h] = q /\ \A g \in Handlers \ {h} : call'[g] = call[g]
    BY <1>1, <2>3 DEF CoreTyped
  <2>6. GoHeard'
    <3> SUFFICES ASSUME NEW s1 \in Players PROVE Heard(call[Submit(s1)])'
      BY DEF GoHeard
    <3>1. Heard(call'[Submit(s1)])
      BY <2>4, <2>5, HandlersApart DEF GoInv, GoHeard
    <3> QED
      BY <1>2, <3>1 DEF Heard, Lasting
  <2>7. Accepts(call[Accepting])'
    BY <1>1, <2>5, HandlersApart DEF GoInv, Accepts
  <2> QED
    BY <1>2, <2>6, <2>7 DEF GoInv, GoStays, SignalOut, Lasting
<1>4. CASE Done(h)
  BY <1>1, <1>2, <1>4, GoEnds
<1> QED
  BY <1>3, <1>4 DEF Read

LEMMA GoStore ==
  ASSUME CoreTyped, GoInv, NEW p \in Players, Store(p) \/ Stamp(p)
  PROVE  GoInv'
<1> DEFINE h == Submit(p)
           b == BothPresent([score[call[h].round] EXCEPT ![p] = call[h].score])
<1>1. h \in Handlers /\ h # Accepting /\ {"stamp", "claim"} \subseteq Phases
  BY HandlersApart DEF Phases
<1>2. UNCHANGED <<row, go, signal, signalled>>
  BY DEF Store, Stamp, redis, history
<1>3. CASE Done(h)
  BY <1>1, <1>2, <1>3, GoEnds
<1>4. CASE call' = [call EXCEPT ![h] = [Entering(h, "stamp") EXCEPT !.both = b]]
  <2> DEFINE e == Entering(h, "stamp")
             q == [e EXCEPT !.both = b]
  <2> HIDE DEF b
  <2>1. e \in CallType /\ e.phase = "stamp"
    BY <1>1, EnteringIs
  <2>2. call' = [call EXCEPT ![h] = q]
    BY <1>4
  <2> HIDE DEF e
  <2>3. q.phase = "stamp"
    BY <2>1 DEF CallType
  <2> HIDE DEF q
  <2> QED
    BY <1>1, <1>2, <2>2, <2>3, GoQuietStep
<1>5. CASE call' = [call EXCEPT ![h] = Entering(h, "claim")]
  BY <1>1, <1>2, <1>5, GoEnters
<1> QED
  BY <1>3, <1>4, <1>5 DEF Store, Stamp

-----------------------------------------------------------------------------
(* Deadlines, and who settles. *)
LEMMA GoDeadline ==
  ASSUME CoreTyped, GoInv, NEW r \in Rounds, Fire(r) \/ Expire(r) \/ Load(r)
  PROVE  GoInv'
<1> DEFINE h == Deadline(r)
<1>1. h \in Handlers /\ h # Accepting /\ "load" \in Phases /\ call[h] \in CallType
  BY HandlersApart DEF CoreTyped, Phases
<1>2. UNCHANGED <<row, go, signal, signalled>>
  BY DEF Fire, Expire, Load, redis, history
<1>3. CASE Fire(r)
  <2>1. PICK a \in 1 .. GAME_EXPIRE_MAX_ATTEMPTS :
          call' = [call EXCEPT ![h] = [Idle EXCEPT !.phase = "expire", !.round = r, !.attempt = a]]
    BY <1>3 DEF Fire
  <2> DEFINE q == [Idle EXCEPT !.phase = "expire", !.round = r, !.attempt = a]
  <2>2. q.phase = "expire" /\ call' = [call EXCEPT ![h] = q]
    BY <2>1 DEF Idle
  <2> HIDE DEF q
  <2> QED
    BY <1>1, <1>2, <2>2, GoQuietStep
<1>4. CASE Expire(r)
  BY <1>1, <1>2, <1>4, GoEnds, GoMoves DEF Expire
<1>5. CASE Load(r)
  <2> DEFINE q == [call[h] EXCEPT !.phase = "claim", !.round = session.round]
  <2>1. CASE call' = [call EXCEPT ![h].phase = "claim", ![h].round = session.round]
    <3>1. call' = [call EXCEPT ![h] = q] /\ q.phase = "claim"
      BY <1>1, <2>1 DEF CoreTyped, CallType
    <3> HIDE DEF q
    <3> QED
      BY <1>1, <1>2, <3>1, GoQuietStep
  <2> QED
    BY <1>1, <1>2, <1>5, <2>1, GoEnds DEF Load
<1> QED
  BY <1>3, <1>4, <1>5

LEMMA GoSettle ==
  ASSUME GameInv, RestTyped, GoInv, NEW h \in Handlers, h # Accepting, Settle(h)
  PROVE  GoInv'
<1> USE DEF redis, history
<1>0. CoreTyped /\ Settling \subseteq Phases /\ Settling \intersect {"read", "store"} = {} /\ call[h] \in CallType
  BY DEF GameInv, CoreTyped, Settling, Phases
<1>1. CASE Claim(h)
  <2> DEFINE r == call[h].round
             w == PickWinner(score[r])
             e == Entering(h, Decision(r))
             q == [e EXCEPT !.winner = w]
  <2>1. Decision(r) \in Settling
    BY DEF Decision, Settling
  <2>2. e \in CallType /\ e.phase = Decision(r)
    BY <1>0, <2>1, EnteringIs
  <2>3. CASE call' = [call EXCEPT ![h] = q]
    <3> HIDE DEF e, w
    <3>1. q.phase = Decision(r)
      BY <2>2 DEF CallType
    <3>2. call' = [call EXCEPT ![h] = q]
      BY <2>3
    <3> HIDE DEF q
    <3> QED
      BY <1>0, <1>1, <2>1, <3>1, <3>2, GoQuietStep DEF Claim
  <2> QED
    BY <1>0, <1>1, <2>3, GoEnds DEF Claim
<1>2. CASE Finish(h)
  <2> DEFINE q == [call[h] EXCEPT !.phase = "commit"]
  <2>1. CASE call' = [call EXCEPT ![h] = q]
    <3>1. q.phase = "commit"
      BY <1>0, GotoIs DEF Settling
    <3> HIDE DEF q
    <3> QED
      BY <1>0, <1>2, <2>1, <3>1, GoQuietStep DEF Finish
  <2>2. CASE call' = [call EXCEPT ![h] = Entering(h, "release")]
    BY <1>0, <1>2, <2>2, GoEnters DEF Finish, Settling
  <2> QED
    BY <1>2, <2>1, <2>2 DEF Finish
<1>3. CASE Commit(h) \/ VoidRow(h)
  <2>1. row' = "ACCEPTED" => row = "ACCEPTED"
    BY <1>3 DEF Commit, VoidRow
  <2> QED
    BY <1>0, <1>3, <2>1, GoMoves DEF Commit, VoidRow, Settling
<1>4. CASE Clean(h)
  <2>1. row # "ACCEPTED"
    BY <1>4 DEF Clean, At, GameInv, DecisionStands, Stands
  <2> QED
    BY <1>0, <1>4, <2>1, GoMoves DEF Clean, Settling
<1>5. CASE Tell(h)
  BY <1>0, <1>5, GoEnds DEF Tell
<1>6. CASE Rematch(h)
  BY <1>0, <1>6, GoMoves DEF Rematch, Settling
<1>7. CASE Reopen(h)
  <2>1. call[h].round + 1 \in Rounds
    BY <1>0, <1>7, RoundsAreNats DEF Reopen, At, GameInv, DecisionStands, Stands, CallType
  <2> QED
    BY <1>0, <1>7, <2>1, GoEnds, OpensSilently DEF Reopen
<1>8. CASE Release(h)
  BY <1>0, <1>8, GoEnds DEF Release, Breaks
<1> QED
  BY <1>1, <1>2, <1>3, <1>4, <1>5, <1>6, <1>7, <1>8 DEF Settle

-----------------------------------------------------------------------------
(* The signal. *)
LEMMA GoSignal ==
  ASSUME RestTyped, GoInv, NEW r \in Rounds, SignalStep(r) \/ SignalFails(r)
  PROVE  GoInv'
<1>1. UNCHANGED <<row, call>> /\ signalled \subseteq signalled' /\ go \subseteq go'
  BY DEF SignalStep, SignalRead, SignalMark, SignalEmit, SignalFails, Marked, redis, process, history
<1>2. ASSUME NEW s \in Rounds, SignalOut(s)' PROVE SignalOut(s) \/ s \in go'
  BY <1>2 DEF RestTyped, SignalStep, SignalRead, SignalMark, SignalEmit, SignalFails, Marked, SignalOut,
              redis, process, history
<1>3. GoStays'
  BY <1>1, <1>2 DEF GoInv, GoStays, Lasting
<1>4. GoHeard' /\ Accepts(call[Accepting])'
  BY <1>1 DEF GoInv, GoHeard, Heard, Accepts, Lasting
<1> QED
  BY <1>3, <1>4 DEF GoInv

-----------------------------------------------------------------------------
(* Failures. *)
LEMMA GoFails ==
  ASSUME GameInv, RestTyped, GoInv, NEW h \in Handlers, Fails(h)
  PROVE  GoInv'
<1> USE DEF redis
<1>0. /\ CoreTyped /\ h \in MayFail /\ UNCHANGED <<row, signalled>>
      /\ {"release", "discard", "tell", "abort"} \subseteq Phases
  BY DEF Fails, GameInv, Phases, Settling
<1>1. CASE Done(h) /\ UNCHANGED <<redis, signal>>
  BY <1>0, <1>1, GoEnds
<1>2. CASE /\ call[h].phase \in {"finish", "commit", "void", "rematch"}
           /\ call' = [call EXCEPT ![h] = Entering(h, "release")]
           /\ UNCHANGED <<redis, signal>>
  BY <1>0, <1>2, GoEnters, SettlersFit DEF Settling
<1>3. CASE At(h, "start") /\ Goto(h, "discard") /\ UNCHANGED <<redis, signal>>
  BY <1>0, <1>3, GoMoves
<1>4. CASE Opens(1) /\ Goto(h, "discard") /\ UNCHANGED redis
  BY <1>0, <1>4, GoMoves, OpensSilently, RoundsAreNats
<1>5. CASE /\ call[h].phase \in {"discard", "clean"} /\ UNCHANGED signal
           /\ Goto(h, IF At(h, "clean") THEN "tell" ELSE "abort") /\ go' \in {go, go \ {call[h].round}}
  <2>1. CASE At(h, "clean")
    <3>1. row # "ACCEPTED" /\ h # Accepting
      BY <2>1 DEF At, GameInv, DecisionStands, Stands, CallsFit, Fits
    <3> QED
      BY <1>0, <1>5, <2>1, <3>1, GoMoves
  <2>2. CASE ~At(h, "clean")
    <3>1. h = Accepting
      BY <1>5, <2>2 DEF At, GameInv, CallsFit, Fits, Handlers, Submits, Deadlines, Settling
    <3>2. ~Lasting(call[h].round) /\ Goto(h, "abort")
      BY <1>0, <1>5, <2>2, <3>1 DEF GoInv, Accepts, Lasting
    <3> QED
      BY <1>0, <1>5, <3>2, GoMoves
  <2> QED
    BY <2>1, <2>2
<1> QED
  BY <1>1, <1>2, <1>3, <1>4, <1>5 DEF Fails, Breaks

LEMMA GoReopenFails ==
  ASSUME GameInv, RestTyped, GoInv, NEW h \in Handlers, ReopenFails(h)
  PROVE  GoInv'
<1>1. CoreTyped /\ Done(h) /\ UNCHANGED <<row, go, signalled>>
  BY DEF GameInv, ReopenFails, redis
<1>2. ASSUME NEW s \in Rounds, signal'[s] = "emit" PROVE signal[s] = "emit"
  BY <1>2 DEF ReopenFails, RestTyped
<1> QED
  BY <1>1, <1>2, GoEnds

LEMMA GoLeaves ==
  ASSUME RestTyped, GoInv, Sweep \/ Crash \/ UNCHANGED vars
  PROVE  GoInv'
<1> USE DEF vars, redis, process, history
<1>1. CASE Crash
  <2>1. UNCHANGED <<row, go, signalled>> /\ \A h \in Handlers : call'[h] = Idle
    BY <1>1 DEF Crash
  <2>2. \A r \in Rounds : signal'[r] # "emit"
    BY <1>1 DEF Crash
  <2>3. GoHeard' /\ Accepts(call[Accepting])'
    BY <2>1, HandlersApart, IdleAccepts DEF GoHeard, Heard, Accepts
  <2> QED
    BY <2>1, <2>2, <2>3 DEF GoInv, GoStays, SignalOut, Lasting
<1>2. CASE Sweep \/ UNCHANGED vars
  <2>1. UNCHANGED <<go, signal, signalled, call>> /\ (row' = "ACCEPTED" => row = "ACCEPTED")
    BY <1>2 DEF Sweep
  <2> QED
    BY <2>1 DEF GoInv, GoStays, GoHeard, Heard, Accepts, SignalOut, Lasting
<1> QED
  BY <1>1, <1>2

LEMMA GoInductive == GameInv /\ RestTyped /\ GoInv /\ [Next]_vars => GoInv'
<1> SUFFICES ASSUME GameInv, RestTyped, GoInv, [Next]_vars PROVE GoInv'
  OBVIOUS
<1>0. CoreTyped
  BY DEF GameInv
<1>1. CASE AcceptStep
  BY <1>1, GoAccept
<1>2. ASSUME NEW p \in Players, SubmitStep(p) PROVE GoInv'
  BY <1>0, <1>2, GoRead, GoStore, GoSettle, HandlersApart DEF SubmitStep
<1>3. ASSUME NEW p \in Players, NEW r \in Rounds, Receive(p, r) PROVE GoInv'
  BY <1>0, <1>3, GoReceive
<1>4. ASSUME NEW r \in Rounds, DeadlineStep(r) PROVE GoInv'
  BY <1>0, <1>4, GoDeadline, GoSettle, HandlersApart DEF DeadlineStep
<1>5. ASSUME NEW r \in Rounds, SignalStep(r) \/ SignalFails(r) PROVE GoInv'
  BY <1>5, GoSignal
<1>6. ASSUME NEW h \in Handlers, Fails(h) \/ ReopenFails(h) PROVE GoInv'
  BY <1>6, GoFails, GoReopenFails
<1>7. CASE Sweep \/ Crash \/ UNCHANGED vars
  BY <1>7, GoLeaves
<1> QED
  BY <1>1, <1>2, <1>3, <1>4, <1>5, <1>6, <1>7 DEF Next

(* In a later round no error takes the instant of a signal back while the     *)
(* duel lasts, in the first only one of the accept itself.                    *)
LaterSignalsKept ==
  \A p \in Players : LET c == call[Submit(p)] IN
    c.phase = "store" /\ c.sawGo /\ row = "ACCEPTED" /\ c.round > 1 => c.score # FALSE_START

(* Who answers a signal that was sent is never marked as too early: markGo    *)
(* stores the instant before game:go leaves, and only the end of the duel or  *)
(* an accept that could not open its game takes it back.                      *)
THEOREM SignalIsFair ==
  Spec => [](LaterSignalsKept /\ (Accepting \notin MayFail => NoFalseStartAfterGo))
<1>1. GoInv => LaterSignalsKept /\ (Accepting \notin MayFail => NoFalseStartAfterGo)
  BY HandlersApart DEF GoInv, GoHeard, Heard, Lasting, LaterSignalsKept, NoFalseStartAfterGo
<1>2. GameInv /\ RestTyped /\ GoInv /\ [Next]_vars => GoInv'
  BY GoInductive
<1> QED
  BY <1>1, <1>2, GoInitially, GameHolds, RestHolds, PTL DEF Spec

-----------------------------------------------------------------------------
(* The end of every game. *)

(* One failed step, of a deadline, and one retry at least.                          *)
OneMishap == MayFail \subseteq Deadlines /\ MaxFailures <= 1 /\ GAME_EXPIRE_MAX_ATTEMPTS >= 2

Playing == Settling \ {"reopen"}
Waits   == {"expire", "load", "claim"}
Opening == {"greet", "start"}

(* A retry follows the one failure there is, and only a deadline gives a right back. *)
Tame(h, q, failures) ==
  /\ q.phase = "release" => h \in Deadlines /\ q.attempt = 1
  /\ failures > 0 => q.phase # "release" /\ (h \in Deadlines => q.attempt = 1)
FirstTries == left.failures > 0 => \A t \in timers : t[2] = 1
AllTame == row = "ACCEPTED" => FirstTries /\ \A h \in Handlers : Tame(h, call[h], left.failures)

(* Before the session is saved nobody plays.                                        *)
Unplayed ==
  call[Accepting].phase \in Opening =>
    session.round = 0 /\ claimed = {} /\ \A h \in Handlers : call[h].phase \notin Active
(* The rounds before one that was claimed are over.                                 *)
ClaimsInOrder == \A k \in claimed : Reached(k)
(* The session keeps up with who plays, and is ahead of who opens the next round.   *)
KeepsUp(q) == /\ q.phase \in Active => q.round <= session.round
              /\ q.phase = "reopen" => q.round < session.round
SessionKeepsUp == row = "ACCEPTED" => \A h \in Handlers : KeepsUp(call[h])

(* A deadline of the round is set in these timers.                                  *)
DueIn(t, s) == \E a \in 1 .. GAME_EXPIRE_MAX_ATTEMPTS : <<s, a>> \in t
(* The round of the session is being settled, or its deadline is on its way.        *)
Settled(s) == \E h \in Handlers : call[h].phase \in Playing /\ call[h].round = s
Awaited(s) == \/ DueIn(timers, s)
              \/ call[Deadline(s)].phase \in Waits
              \/ s = 1 /\ call[Accepting].phase = "open"
              \/ \E h \in Handlers : call[h].phase = "reopen" /\ call[h].round + 1 = s
Carried ==
  row = "ACCEPTED" /\ left.crashes = MaxCrashes =>
    \/ call[Accepting].phase \in Opening
    \/ /\ session.round \in Rounds
       /\ IF session.round \in claimed THEN Settled(session.round) ELSE Awaited(session.round)

EndInv == AllTame /\ Unplayed /\ ClaimsInOrder /\ SessionKeepsUp /\ Carried

(* Steps of one handler, or of none when q is its call, that take and give back no  *)
(* right and start no round.                                                        *)
Keeps(h, q) ==
  /\ q.phase \in Settling => /\ call[h].phase \in Settling /\ q.round = call[h].round
                             /\ call[h].phase = "reopen" => q.phase = "reopen"
  /\ q.phase \in Active => call[Accepting].phase \notin Opening
  /\ h = Accepting => (q.phase \in Opening <=> call[h].phase \in Opening)
Advances(h, q) ==
  /\ Tame(h, q, left'.failures) /\ KeepsUp(q)
  /\ call[h].phase \in Playing => q.phase \in Playing /\ q.round = call[h].round
  /\ \A s \in Rounds : h = Deadline(s) /\ call[h].phase \in Waits /\ s = session.round /\ s \notin claimed
       => q.phase \in Waits \/ DueIn(timers', s)
  /\ h = Accepting /\ call[h].phase = "open" => q.phase = "open" \/ DueIn(timers', 1)
  /\ call[h].phase = "reopen" => (q.phase = "reopen" /\ q.round = call[h].round) \/ DueIn(timers', call[h].round + 1)

LEMMA EndQuietStep ==
  ASSUME GameInv, RestTyped, EndInv, NEW h \in Handlers, NEW q, call' = [call EXCEPT ![h] = q],
         claimed' = claimed, left'.failures <= left.failures, left'.failures \in Nat,
         left'.crashes = left.crashes,
         row' = "ACCEPTED" => row = "ACCEPTED",
         session' = session \/ (row' # "ACCEPTED" /\ session'.round = 0),
         Keeps(h, q),
         row' = "ACCEPTED" =>
           /\ Advances(h, q) /\ FirstTries'
           /\ \A s \in Rounds : DueIn(timers, s) => DueIn(timers', s) \/ (h = Deadline(s) /\ q.phase \in Waits)
  PROVE  EndInv'
<1> USE DEF EndInv
<1>1. call'[h] = q /\ \A g \in Handlers \ {h} : call'[g] = call[g]
  BY DEF GameInv, CoreTyped
<1>2. AllTame'
  <2> SUFFICES ASSUME row' = "ACCEPTED", NEW g \in Handlers PROVE Tame(g, call'[g], left'.failures)
    BY DEF AllTame
  <2>1. CASE g = h
    BY <1>1, <2>1 DEF Advances, Tame
  <2>2. CASE g # h
    <3>1. Tame(g, call[g], left.failures) /\ left.failures \in Nat
      BY DEF AllTame, RestTyped
    <3>2. left'.failures > 0 => left.failures > 0
      BY <3>1
    <3> QED
      BY <1>1, <2>2, <3>1, <3>2 DEF Tame
  <2> QED
    BY <2>1, <2>2
<1>3. Unplayed'
  <2> SUFFICES ASSUME call'[Accepting].phase \in Opening
               PROVE  session'.round = 0 /\ claimed' = {} /\ \A g \in Handlers : call'[g].phase \notin Active
    BY DEF Unplayed
  <2>1. call[Accepting].phase \in Opening
    BY <1>1, HandlersApart DEF Keeps
  <2> QED
    BY <1>1, <2>1 DEF Unplayed, Keeps
<1>4. \A j \in Rounds : Passed(j) => Passed(j)'
  BY <1>1 DEF Passed, Keeps
<1>5. ClaimsInOrder'
  BY <1>4 DEF ClaimsInOrder, Reached
<1>6. SessionKeepsUp'
  <2> SUFFICES ASSUME row' = "ACCEPTED", NEW g \in Handlers PROVE KeepsUp(call[g])'
    BY DEF SessionKeepsUp
  <2>1. KeepsUp(call'[g]) /\ session' = session
    BY <1>1 DEF SessionKeepsUp, Advances
  <2> QED
    BY <2>1 DEF KeepsUp
<1>7. Carried'
  <2> SUFFICES ASSUME row' = "ACCEPTED", left'.crashes = MaxCrashes, call'[Accepting].phase \notin Opening
               PROVE  /\ session'.round \in Rounds
                      /\ IF session'.round \in claimed' THEN Settled(session.round)' ELSE Awaited(session.round)'
    BY DEF Carried
  <2>1. call[Accepting].phase \notin Opening
    BY <1>1, HandlersApart DEF Keeps
  <2>2. PICK s \in Rounds : s = session.round /\ IF s \in claimed THEN Settled(s) ELSE Awaited(s)
    BY <2>1 DEF Carried
  <2>3. session' = session
    OBVIOUS
  <2>4. CASE s \in claimed
    <3>1. PICK g \in Handlers : call[g].phase \in Playing /\ call[g].round = s
      BY <2>2, <2>4 DEF Settled
    <3>2. call'[g].phase \in Playing /\ call'[g].round = s
      BY <1>1, <3>1 DEF Advances
    <3> QED
      BY <2>2, <2>3, <2>4, <3>2 DEF Settled
  <2>5. CASE s \notin claimed
    <3>1. CASE DueIn(timers, s)
      <4>1. DueIn(timers', s) \/ call'[Deadline(s)].phase \in Waits
        BY <1>1, <3>1
      <4> QED
        BY <2>2, <2>3, <2>5, <4>1 DEF Awaited
    <3>2. CASE call[Deadline(s)].phase \in Waits
      <4>1. call'[Deadline(s)].phase \in Waits \/ DueIn(timers', s)
        BY <1>1, <2>2, <2>5, <3>2, HandlersApart DEF Advances
      <4> QED
        BY <2>2, <2>3, <2>5, <4>1 DEF Awaited
    <3>3. CASE s = 1 /\ call[Accepting].phase = "open"
      <4>1. call'[Accepting].phase = "open" \/ DueIn(timers', s)
        BY <1>1, <3>3, HandlersApart DEF Advances
      <4> QED
        BY <2>2, <2>3, <2>5, <3>3, <4>1 DEF Awaited
    <3>4. ASSUME NEW g \in Handlers, call[g].phase = "reopen", call[g].round + 1 = s PROVE Awaited(s)'
      <4>1. CASE g = h
        <5>1. (q.phase = "reopen" /\ q.round = call[g].round) \/ DueIn(timers', s)
          BY <3>4, <4>1 DEF Advances
        <5> QED
          BY <1>1, <3>4, <4>1, <5>1 DEF Awaited
      <4>2. CASE g # h
        BY <1>1, <3>4, <4>2 DEF Awaited
      <4> QED
        BY <4>1, <4>2
    <3> QED
      BY <2>2, <2>3, <2>5, <3>1, <3>2, <3>3, <3>4 DEF Awaited
  <2> QED
    BY <2>4, <2>5
<1> QED
  BY <1>2, <1>3, <1>5, <1>6, <1>7

LEMMA FirstAttempts == Idle.attempt = 1 /\ Idle.phase = "idle" /\ Idle.round = 1
  BY DEF Idle

LEMMA AttemptsStay ==
  ASSUME CoreTyped, NEW h \in Handlers, NEW f \in Phases
  PROVE  Entering(h, f).attempt = call[h].attempt /\ [call[h] EXCEPT !.phase = f].attempt = call[h].attempt
<1>1. call[h] \in CallType
  BY DEF CoreTyped
<1>2. Entering(h, f).attempt = call[h].attempt
  BY <1>1 DEF Entering, Idle
<1>3. [call[h] EXCEPT !.phase = f].attempt = call[h].attempt
  BY <1>1 DEF CallType
<1> QED
  BY <1>2, <1>3

LEMMA StepsForward ==
  ASSUME RestTyped
  PROVE  left.failures \in Nat /\ left.failures <= MaxFailures /\ left.crashes \in Nat /\ left.crashes <= MaxCrashes
  BY GameAssumption DEF RestTyped

(* A handler ends that did not play, nor open a round, nor have to wait. *)
LEMMA EndDone ==
  ASSUME GameInv, RestTyped, EndInv, NEW h \in Handlers, Done(h),
         UNCHANGED <<session, claimed, left>>, timers \subseteq timers',
         row' = "ACCEPTED" => row = "ACCEPTED",
         call[h].phase \notin Opening,
         row' = "ACCEPTED" =>
           /\ FirstTries' /\ call[h].phase \notin Playing
           /\ \A s \in Rounds : h = Deadline(s) /\ call[h].phase \in Waits => s # session.round \/ s \in claimed
           /\ h = Accepting /\ call[h].phase = "open" => DueIn(timers', 1)
           /\ call[h].phase = "reopen" => DueIn(timers', call[h].round + 1)
  PROVE  EndInv'
<1> DEFINE q == Idle
<1>1. q.phase = "idle" /\ q.attempt = 1 /\ call' = [call EXCEPT ![h] = q]
  BY FirstAttempts DEF Done
<1> HIDE DEF q
<1>2. Keeps(h, q)
  BY <1>1 DEF Keeps, Settling, Active, Opening
<1>3. Tame(h, q, left'.failures) /\ KeepsUp(q)
  BY <1>1 DEF Tame, KeepsUp, Active, Settling
<1>4. row' = "ACCEPTED" => Advances(h, q)
  BY <1>3 DEF Advances
<1>5. \A s \in Rounds : DueIn(timers, s) => DueIn(timers', s)
  BY DEF DueIn
<1>6. left'.failures \in Nat /\ left'.failures <= left.failures /\ left'.crashes = left.crashes
  BY StepsForward
<1>7. row' = "ACCEPTED" =>
        /\ Advances(h, q) /\ FirstTries'
        /\ \A s \in Rounds : DueIn(timers, s) => DueIn(timers', s) \/ (h = Deadline(s) /\ q.phase \in Waits)
  BY <1>4, <1>5
<1>8. claimed' = claimed /\ (session' = session \/ (row' # "ACCEPTED" /\ session'.round = 0))
  OBVIOUS
<1> QED
  BY <1>1, <1>2, <1>6, <1>7, <1>8, EndQuietStep

(* Nothing but what is left of the bounds changes, or the duel ends. *)
LEMMA EndUnchanged ==
  ASSUME GameInv, RestTyped, EndInv, UNCHANGED <<call, session, claimed, timers>>,
         left'.failures <= left.failures, left'.failures \in Nat, left'.crashes = left.crashes,
         row' = "ACCEPTED" => row = "ACCEPTED"
  PROVE  EndInv'
<1>1. left.failures \in Nat /\ (left'.failures > 0 => left.failures > 0)
  BY DEF RestTyped
<1>2. AllTame'
  BY <1>1 DEF EndInv, AllTame, FirstTries, Tame
<1>3. Carried'
  BY DEF EndInv, Carried, Settled, Awaited, DueIn
<1> QED
  BY <1>2, <1>3 DEF EndInv, Unplayed, ClaimsInOrder, Reached, Passed, SessionKeepsUp, KeepsUp

LEMMA EndInitially == Init => EndInv
<1> SUFFICES ASSUME Init PROVE EndInv
  OBVIOUS
<1> DEFINE greeting == [Idle EXCEPT !.phase = "greet"]
<1>1. greeting.phase = "greet" /\ greeting.attempt = 1
  BY DEF Idle
<1>2. \A h \in Handlers : call[h] = IF h = Accepting THEN greeting ELSE Idle
  BY DEF Init, greeting
<1> HIDE DEF greeting
<1>3. \A h \in Handlers : call[h].phase \in {"idle", "greet"} /\ call[h].attempt = 1
  BY <1>1, <1>2, FirstAttempts
<1>4. session.round = 0 /\ claimed = {} /\ timers = {}
  BY DEF Init, NoSession
<1>5. AllTame
  BY <1>3, <1>4 DEF AllTame, FirstTries, Tame
<1>6. Unplayed /\ ClaimsInOrder /\ SessionKeepsUp
  BY <1>3, <1>4 DEF Unplayed, ClaimsInOrder, SessionKeepsUp, KeepsUp, Active, Settling
<1>7. Carried
  BY <1>1, <1>2, HandlersApart DEF Carried, Opening
<1> QED
  BY <1>5, <1>6, <1>7 DEF EndInv

-----------------------------------------------------------------------------
(* The handler of the accept. *)
LEMMA OpensDue ==
  ASSUME RestTyped, NEW r \in Rounds, Opens(r)
  PROVE  DueIn(timers', r) /\ timers \subseteq timers' /\ (UNCHANGED left /\ FirstTries => FirstTries')
<1>1. <<r, 1>> \in timers' /\ timers' = timers \union {<<r, 1>>}
  BY DEF Opens
<1>2. <<r, 1>>[2] = 1
  OBVIOUS
<1> QED
  BY <1>1, <1>2, AttemptsAreNats DEF DueIn, FirstTries

LEMMA AcceptEnds ==
  ASSUME OneMishap, GameInv, RestTyped, GoInv, EndInv, AcceptStep PROVE EndInv'
<1> USE DEF redis, process, history, At
<1>1. Accepting \in Handlers /\ Accepting \notin Deadlines /\ Accepting \notin MayFail
      /\ {"start", "open"} \subseteq Phases /\ left.failures \in Nat
  BY HandlersApart, StepsForward DEF Phases, OneMishap
<1>2. CASE Greet
  <2> DEFINE q == [call[Accepting] EXCEPT !.phase = "start"]
  <2>1. q.phase = "start" /\ call' = [call EXCEPT ![Accepting] = q]
    BY <1>1, <1>2, GotoIs DEF Greet, Goto, GameInv
  <2> HIDE DEF q
  <2>2. call[Accepting].phase = "greet" /\ UNCHANGED <<row, session, claimed, timers, left>>
    BY <1>2 DEF Greet
  <2>3. Keeps(Accepting, q)
    BY <2>1, <2>2 DEF Keeps, Opening, Settling, Active
  <2>4. Tame(Accepting, q, left'.failures) /\ KeepsUp(q)
    BY <1>1, <2>1 DEF Tame, KeepsUp, Settling, Active
  <2>5. Advances(Accepting, q)
    BY <2>2, <2>4, HandlersApart DEF Advances, Playing, Settling
  <2>6. row' = "ACCEPTED" =>
          /\ Advances(Accepting, q) /\ FirstTries'
          /\ \A s \in Rounds : DueIn(timers, s) => DueIn(timers', s) \/ (Accepting = Deadline(s) /\ q.phase \in Waits)
    BY <2>2, <2>5 DEF EndInv, AllTame, FirstTries, DueIn
  <2>7. left'.failures \in Nat /\ left'.failures <= left.failures /\ left'.crashes = left.crashes
    BY <1>1, <2>2
  <2>8. claimed' = claimed /\ session' = session /\ row' = row
    BY <2>2
  <2> QED
    BY <1>1, <2>1, <2>3, <2>6, <2>7, <2>8, EndQuietStep
<1>3. CASE Start
  <2> DEFINE q == [call[Accepting] EXCEPT !.phase = "open"]
  <2>0. CoreTyped
    BY DEF GameInv
  <2>1. q.phase = "open" /\ call' = [call EXCEPT ![Accepting] = q]
    BY <1>1, <1>3, <2>0, GotoIs DEF Start, Goto
  <2> HIDE DEF q
  <2>2. /\ call[Accepting].phase = "start" /\ UNCHANGED <<row, claimed, timers, left>>
        /\ session'.round = 1
    BY <1>3 DEF Start, Saves
  <2>3. claimed = {} /\ \A h \in Handlers : call[h].phase \notin Active
    BY <2>2 DEF EndInv, Unplayed, Opening
  <2>4. call'[Accepting] = q /\ \A h \in Handlers \ {Accepting} : call'[h] = call[h]
    BY <1>1, <2>0, <2>1 DEF CoreTyped
  <2>5. AllTame'
    BY <1>1, <2>1, <2>2, <2>4 DEF EndInv, AllTame, FirstTries, Tame
  <2>6. Unplayed' /\ ClaimsInOrder'
    BY <2>1, <2>2, <2>3, <2>4 DEF Unplayed, ClaimsInOrder, Opening
  <2>7. SessionKeepsUp'
    BY <2>1, <2>3, <2>4 DEF SessionKeepsUp, KeepsUp, Active, Settling
  <2>8. Carried'
    BY <1>1, <2>1, <2>2, <2>3, <2>4, RoundsAreNats DEF Carried, Awaited
  <2> QED
    BY <2>5, <2>6, <2>7, <2>8 DEF EndInv
<1>4. CASE Open
  <2>1. DueIn(timers', 1) /\ timers \subseteq timers' /\ (UNCHANGED left /\ FirstTries => FirstTries')
    BY <1>4, OpensDue, RoundsAreNats DEF Open
  <2>2. call[Accepting].phase = "open" /\ Done(Accepting) /\ UNCHANGED <<row, session, claimed, left>>
    BY <1>4 DEF Open
  <2> QED
    BY <1>1, <2>1, <2>2, EndDone, HandlersApart DEF Opening, Playing, Settling, EndInv, AllTame
<1>5. CASE Discard \/ Abort \/ Inform
  <2>1. call[Accepting].phase \in {"discard", "abort", "inform"}
    BY <1>5 DEF Discard, Abort, Inform
  <2> QED
    BY <1>1, <2>1 DEF GoInv, Accepts
<1> QED
  BY <1>2, <1>3, <1>4, <1>5 DEF AcceptStep

(* A handler goes on, and sets no timer. *)
LEMMA EndGoes ==
  ASSUME GameInv, RestTyped, EndInv, NEW h \in Handlers, NEW q, call' = [call EXCEPT ![h] = q],
         UNCHANGED <<session, claimed, timers>>, left' = left \/ UNCHANGED <<left.failures, left.crashes>>,
         row' = "ACCEPTED" => row = "ACCEPTED", Keeps(h, q), row' = "ACCEPTED" => Advances(h, q)
  PROVE  EndInv'
<1>1. left'.failures \in Nat /\ left'.failures <= left.failures /\ left'.crashes = left.crashes
  BY StepsForward
<1>2. row' = "ACCEPTED" =>
        /\ Advances(h, q) /\ FirstTries'
        /\ \A s \in Rounds : DueIn(timers, s) => DueIn(timers', s) \/ (h = Deadline(s) /\ q.phase \in Waits)
  <2>1. left'.failures = left.failures
    OBVIOUS
  <2> QED
    BY <2>1 DEF EndInv, AllTame, FirstTries
<1>3. claimed' = claimed /\ (session' = session \/ (row' # "ACCEPTED" /\ session'.round = 0))
  OBVIOUS
<1> QED
  BY <1>1, <1>2, <1>3, EndQuietStep

-----------------------------------------------------------------------------
(* Submissions. *)
LEMMA ReceiveEnds ==
  ASSUME OneMishap, GameInv, RestTyped, EndInv, NEW p \in Players, NEW r \in Rounds, Receive(p, r)
  PROVE  EndInv'
<1> DEFINE h == Submit(p)
           e == r \notin go
           s == r \in signalled
           q == [Idle EXCEPT !.phase = "read", !.round = r, !.early = e, !.sawGo = s]
<1>1. h \in Handlers /\ h # Accepting /\ (\A t \in Rounds : h # Deadline(t)) /\ h \notin Deadlines /\ call[h].phase = "idle"
  BY HandlersApart DEF Receive, At, Deadlines
<1>2. call' = [call EXCEPT ![h] = q] /\ UNCHANGED <<row, session, claimed, timers>>
  BY DEF Receive, redis
<1>3. UNCHANGED <<left.failures, left.crashes>>
  BY DEF Receive, RestTyped
<1> HIDE DEF e, s
<1>4. q.phase = "read"
  BY DEF Idle
<1> HIDE DEF q, h
<1>5. Keeps(h, q)
  BY <1>1, <1>4 DEF Keeps, Settling, Active
<1>6. Advances(h, q)
  BY <1>1, <1>4 DEF Advances, Tame, KeepsUp, Playing, Settling, Active
<1> QED
  BY <1>1, <1>2, <1>3, <1>5, <1>6, EndGoes

(* A submission that does not settle goes on, or ends. *)
LEMMA SubmissionGoes ==
  ASSUME OneMishap, GameInv, RestTyped, EndInv, NEW p \in Players, NEW h, h = Submit(p), NEW q,
         call' = [call EXCEPT ![h] = q],
         UNCHANGED <<row, session, claimed, timers, left>>, call[h].phase \in {"read", "store", "stamp"},
         q.phase \in {"store", "stamp", "claim"}, q.round = call[h].round,
         call[h].phase \in Active \/ session.round = q.round
  PROVE  EndInv'
<1>1. h \in Handlers /\ h # Accepting /\ (\A t \in Rounds : h # Deadline(t)) /\ h \notin Deadlines
      /\ call[h].round \in Rounds
  BY HandlersApart DEF Deadlines, GameInv, CoreTyped, CallType
<1>2. call[Accepting].phase \notin Opening
  BY <1>1, RoundsAreNats DEF EndInv, Unplayed
<1>3. Keeps(h, q)
  BY <1>1, <1>2 DEF Keeps, Settling
<1>4. row = "ACCEPTED" => KeepsUp(q)
  <2>1. session.round \in Nat /\ call[h].round \in Nat
    BY <1>1, SessionTyped, RoundsAreNats, GameAssumption DEF GameInv
  <2>2. CASE session.round = q.round
    BY <2>1, <2>2 DEF KeepsUp
  <2>3. CASE call[h].phase \in Active
    BY <1>1, <2>3 DEF EndInv, SessionKeepsUp, KeepsUp
  <2> QED
    BY <2>2, <2>3
<1>5. Tame(h, q, left'.failures)
  BY <1>1 DEF Tame
<1>6. row' = "ACCEPTED" => Advances(h, q)
  BY <1>1, <1>4, <1>5 DEF Advances, Playing, Settling
<1> QED
  BY <1>1, <1>3, <1>6, EndGoes

LEMMA SubmissionEnds ==
  ASSUME OneMishap, GameInv, RestTyped, EndInv, NEW p \in Players, Read(p) \/ Store(p) \/ Stamp(p)
  PROVE  EndInv'
<1> DEFINE h == Submit(p)
           b == BothPresent([score[call[h].round] EXCEPT ![p] = call[h].score])
<1>1. h \in Handlers /\ h # Accepting /\ (\A t \in Rounds : h # Deadline(t)) /\ CoreTyped /\ call[h] \in CallType
      /\ {"store", "stamp", "claim"} \subseteq Phases /\ {"store", "stamp", "claim"} \subseteq Active
  BY HandlersApart DEF GameInv, CoreTyped, Phases, Active
<1>2. UNCHANGED <<row, session, claimed, timers, left>> /\ call[h].phase \in {"read", "store", "stamp"}
  BY DEF Read, Store, Stamp, redis, history, At
<1>3. CASE Done(h)
  <2>1. call[h].phase \notin Opening /\ call[h].phase \notin Playing /\ call[h].phase # "reopen"
    BY <1>2 DEF Opening, Playing, Settling
  <2>2. row = "ACCEPTED" => FirstTries'
    BY <1>2 DEF EndInv, AllTame, FirstTries
  <2> QED
    BY <1>1, <1>2, <1>3, <2>1, <2>2, EndDone
<1>4. ASSUME NEW s, session.round = call[h].round, call[h].phase = "read",
             call' = [call EXCEPT ![h] = [Entering(h, "store") EXCEPT !.score = s, !.sawGo = call[h].sawGo]]
      PROVE  EndInv'
  <2> DEFINE e == Entering(h, "store")
             q == [e EXCEPT !.score = s, !.sawGo = call[h].sawGo]
  <2>1. e \in CallType /\ e.phase = "store" /\ e.round = call[h].round
    BY <1>1, EnteringIs
  <2> HIDE DEF e
  <2>2. q.phase = "store" /\ q.round = call[h].round
    BY <2>1 DEF CallType
  <2>3. call' = [call EXCEPT ![h] = q]
    BY <1>4 DEF e
  <2> HIDE DEF q, h
  <2> QED
    BY <1>2, <1>4, <2>2, <2>3, SubmissionGoes DEF h
<1>5. CASE call' = [call EXCEPT ![h] = [Entering(h, "stamp") EXCEPT !.both = b]] /\ call[h].phase = "store"
  <2> DEFINE e == Entering(h, "stamp")
             q == [e EXCEPT !.both = b]
  <2> HIDE DEF b
  <2>1. e \in CallType /\ e.phase = "stamp" /\ e.round = call[h].round
    BY <1>1, EnteringIs
  <2>2. call' = [call EXCEPT ![h] = q]
    BY <1>5
  <2> HIDE DEF e
  <2>3. q.phase = "stamp" /\ q.round = call[h].round
    BY <2>1 DEF CallType
  <2> HIDE DEF q
  <2> QED
    BY <1>1, <1>2, <1>5, <2>2, <2>3, SubmissionGoes
<1>6. CASE call' = [call EXCEPT ![h] = Entering(h, "claim")] /\ call[h].phase = "stamp"
  <2> DEFINE q == Entering(h, "claim")
  <2>1. q.phase = "claim" /\ q.round = call[h].round /\ call' = [call EXCEPT ![h] = q]
    BY <1>1, <1>6, EnteringIs
  <2> HIDE DEF q
  <2> QED
    BY <1>1, <1>2, <1>6, <2>1, SubmissionGoes
<1> QED
  BY <1>3, <1>4, <1>5, <1>6 DEF Read, Store, Stamp, At

-----------------------------------------------------------------------------
(* Deadlines. *)
LEMMA DeadlineGoes ==
  ASSUME OneMishap, GameInv, RestTyped, EndInv, NEW r \in Rounds, NEW h, h = Deadline(r), NEW q,
         call' = [call EXCEPT ![h] = q], UNCHANGED <<row, session, claimed, left>>,
         call[h].phase \in {"idle", "expire", "load"}, q.phase \in Waits,
         row = "ACCEPTED" /\ left.failures > 0 => q.attempt = 1,
         q.phase = "claim" => q.round = session.round /\ session.round \in Rounds,
         row = "ACCEPTED" => FirstTries',
         \A s \in Rounds : s # r /\ DueIn(timers, s) => DueIn(timers', s)
  PROVE  EndInv'
<1>1. h \in Handlers /\ h # Accepting /\ \A t \in Rounds : h = Deadline(t) => t = r
  BY HandlersApart
<1>2. q.phase = "claim" => call[Accepting].phase \notin Opening
  BY RoundsAreNats DEF EndInv, Unplayed
<1>3. Keeps(h, q)
  BY <1>1, <1>2 DEF Keeps, Settling, Active, Waits
<1>4. KeepsUp(q) /\ (row = "ACCEPTED" => Tame(h, q, left'.failures))
  <2>1. q.phase \notin Settling /\ (q.phase \in Active => q.phase = "claim")
    BY DEF Settling, Active, Waits
  <2>2. q.phase = "claim" => q.round <= session.round
    BY RoundsAreNats
  <2>3. KeepsUp(q)
    BY <2>1, <2>2 DEF KeepsUp, Settling
  <2>4. left'.failures = left.failures
    OBVIOUS
  <2> QED
    BY <2>1, <2>3, <2>4 DEF Tame, Settling
<1>5. row' = "ACCEPTED" => Advances(h, q)
  BY <1>1, <1>4 DEF Advances, Playing, Settling
<1>6. row' = "ACCEPTED" =>
        /\ Advances(h, q) /\ FirstTries'
        /\ \A s \in Rounds : DueIn(timers, s) => DueIn(timers', s) \/ (h = Deadline(s) /\ q.phase \in Waits)
  BY <1>5
<1>7. left'.failures \in Nat /\ left'.failures <= left.failures /\ left'.crashes = left.crashes
  BY StepsForward
<1>8. claimed' = claimed /\ session' = session /\ row' = row
  OBVIOUS
<1> QED
  BY <1>1, <1>3, <1>6, <1>7, <1>8, EndQuietStep

LEMMA DeadlineEnds ==
  ASSUME OneMishap, GameInv, RestTyped, EndInv, NEW r \in Rounds, Fire(r) \/ Expire(r) \/ Load(r)
  PROVE  EndInv'
<1> DEFINE h == Deadline(r)
<1>1. h \in Handlers /\ h # Accepting /\ h \in Deadlines /\ CoreTyped /\ call[h] \in CallType /\ "load" \in Phases
      /\ \A t \in Rounds : h = Deadline(t) => t = r
  BY HandlersApart DEF GameInv, CoreTyped, Phases
<1>2. UNCHANGED <<row, session, claimed, left>>
  BY DEF Fire, Expire, Load, redis, history
<1>3. row = "ACCEPTED" => /\ left.failures > 0 => call[h].attempt = 1
                          /\ FirstTries
  BY <1>1 DEF EndInv, AllTame, Tame
<1>4. CASE Fire(r)
  <2>1. PICK a \in 1 .. GAME_EXPIRE_MAX_ATTEMPTS :
          /\ <<r, a>> \in timers /\ timers' = timers \ {<<r, a>>}
          /\ call' = [call EXCEPT ![h] = [Idle EXCEPT !.phase = "expire", !.round = r, !.attempt = a]]
    BY <1>4 DEF Fire
  <2> DEFINE q == [Idle EXCEPT !.phase = "expire", !.round = r, !.attempt = a]
  <2>2. q.phase = "expire" /\ q.attempt = a /\ call' = [call EXCEPT ![h] = q]
    BY <2>1 DEF Idle
  <2>3. row = "ACCEPTED" /\ left.failures > 0 => a = 1
    <3>1. <<r, a>>[2] = a
      OBVIOUS
    <3> QED
      BY <1>3, <2>1, <3>1 DEF FirstTries
  <2>4. row = "ACCEPTED" => FirstTries'
    BY <1>2, <1>3, <2>1 DEF FirstTries
  <2>5. \A s \in Rounds : s # r /\ DueIn(timers, s) => DueIn(timers', s)
    BY <2>1 DEF DueIn
  <2>6. call[h].phase = "idle" /\ q.phase \in Waits /\ q.phase # "claim"
    BY <1>4, <2>2 DEF Fire, At, Waits
  <2> HIDE DEF q, h
  <2> QED
    BY <1>2, <2>2, <2>3, <2>4, <2>5, <2>6, DeadlineGoes DEF h
<1>5. ASSUME Expire(r) \/ Load(r) PROVE UNCHANGED timers
  BY <1>5 DEF Expire, Load
<1>6. ASSUME UNCHANGED timers
      PROVE  /\ row = "ACCEPTED" => FirstTries'
             /\ \A s \in Rounds : s # r /\ DueIn(timers, s) => DueIn(timers', s)
  BY <1>2, <1>3, <1>6 DEF FirstTries
<1>7. ASSUME Done(h), call[h].phase \in {"expire", "load"}, UNCHANGED timers,
             row # "ACCEPTED" \/ session.round # r
      PROVE  EndInv'
  <2>1. call[h].phase \notin Opening /\ call[h].phase \notin Playing /\ call[h].phase # "reopen"
    BY <1>7 DEF Opening, Playing, Settling
  <2>2. timers \subseteq timers' /\ row' = row
    BY <1>2, <1>7
  <2> QED
    BY <1>1, <1>2, <1>6, <1>7, <2>1, <2>2, EndDone
<1>8. CASE Expire(r)
  <2>1. CASE row = "ACCEPTED"
    <3> DEFINE q == [call[h] EXCEPT !.phase = "load"]
    <3>1. q.phase = "load" /\ q.attempt = call[h].attempt /\ call' = [call EXCEPT ![h] = q]
      BY <1>1, <1>8, <2>1, GotoIs, AttemptsStay DEF Expire, Goto
    <3>2. call[h].phase = "expire" /\ q.phase \in Waits /\ q.phase # "claim"
      BY <1>8, <3>1 DEF Expire, At, Waits
    <3> HIDE DEF q
    <3> QED
      BY <1>2, <1>3, <1>5, <1>6, <1>8, <3>1, <3>2, DeadlineGoes
  <2>2. CASE row # "ACCEPTED"
    BY <1>5, <1>7, <1>8, <2>2 DEF Expire, At
  <2> QED
    BY <2>1, <2>2
<1>9. CASE Load(r)
  <2>1. CASE session.round = r
    <3> DEFINE q == [call[h] EXCEPT !.phase = "claim", !.round = session.round]
    <3>1. call' = [call EXCEPT ![h] = q]
      BY <1>1, <1>9, <2>1 DEF Load, SameRound, CoreTyped
    <3>2. q.phase = "claim" /\ q.attempt = call[h].attempt /\ q.round = session.round
      BY <1>1 DEF CallType
    <3>3. call[h].phase = "load" /\ q.phase \in Waits
      BY <1>9, <3>2 DEF Load, At, Waits
    <3> HIDE DEF q
    <3> QED
      BY <1>2, <1>3, <1>5, <1>6, <1>9, <2>1, <3>1, <3>2, <3>3, DeadlineGoes
  <2>2. CASE session.round # r
    BY <1>5, <1>7, <1>9, <2>2 DEF Load, SameRound, At
  <2> QED
    BY <2>1, <2>2
<1> QED
  BY <1>4, <1>8, <1>9

-----------------------------------------------------------------------------
(* Who settles. *)

(* Who has the right, or takes it, is in the round of the session. *)
LEMMA SettlersHere ==
  ASSUME GameInv, EndInv, row = "ACCEPTED", NEW h \in Handlers, call[h].phase \in Playing \union {"claim"},
         call[h].phase \in Playing \/ call[h].round \notin claimed
  PROVE  session.round = call[h].round
<1>1. PICK n \in Rounds : n = call[h].round
  BY DEF GameInv, CoreTyped, CallType
<1>2. n <= session.round /\ session.round \in Nat /\ n \in Nat
  BY <1>1, RoundsAreNats, SessionTyped DEF EndInv, SessionKeepsUp, KeepsUp, Active, Playing, GameInv
<1>3. ~Passed(n)
  BY <1>1 DEF Passed, Playing
<1>4. ~(n < session.round)
  BY <1>3 DEF GameInv, RoundsInOrder, Reached
<1> QED
  BY <1>1, <1>2, <1>4

LEMMA ClaimEnds ==
  ASSUME OneMishap, GameInv, RestTyped, EndInv, NEW h \in Handlers, Claim(h)
  PROVE  EndInv'
<1> USE DEF EndInv
<1>1. call[h].phase = "claim" /\ call[h] \in CallType /\ CoreTyped /\ h # Accepting
      /\ UNCHANGED <<row, session, timers, left>> /\ call[h].phase \in Active
  BY DEF Claim, At, GameInv, CoreTyped, CallsFit, Fits, history, Active
<1>2. PICK n \in Rounds : n = call[h].round
  BY <1>1 DEF CallType
<1>3. CASE n \in claimed
  <2>1. Done(h) /\ claimed' = claimed
    BY <1>2, <1>3 DEF Claim, Free
  <2>2. \A s \in Rounds : h = Deadline(s) => s = n
    BY <1>1, <1>2 DEF GameInv, CallsFit, Fits
  <2>3. row = "ACCEPTED" => FirstTries'
    BY <1>1 DEF AllTame, FirstTries
  <2>4. call[h].phase \notin Opening /\ call[h].phase \notin Playing
    BY <1>1 DEF Opening, Playing, Settling
  <2> QED
    BY <1>1, <1>3, <2>1, <2>2, <2>3, <2>4, EndDone
<1>4. CASE n \notin claimed
  <2> DEFINE w == PickWinner(score[n])
             f == Decision(n)
             e == Entering(h, f)
             q == [e EXCEPT !.winner = w]
  <2>1. call' = [call EXCEPT ![h] = q] /\ claimed' = claimed \union {n}
    BY <1>2, <1>4 DEF Claim, Free
  <2>2. f \in {"finish", "rematch", "void"} /\ f \in Phases
    BY DEF Decision, Phases, Settling
  <2> HIDE DEF w, f
  <2>3. e \in CallType /\ e.phase = f /\ e.round = n /\ e.attempt = call[h].attempt
    BY <1>1, <1>2, <2>2, EnteringIs, AttemptsStay
  <2> HIDE DEF e
  <2>4. q.phase = f /\ q.round = n /\ q.attempt = call[h].attempt
    BY <2>3 DEF CallType
  <2> HIDE DEF q
  <2>5. call'[h] = q /\ \A g \in Handlers \ {h} : call'[g] = call[g]
    BY <1>1, <2>1 DEF CoreTyped
  <2>6. AllTame'
    BY <1>1, <2>2, <2>4, <2>5 DEF AllTame, FirstTries, Tame
  <2>7. Unplayed'
    BY <1>1, <2>5, HandlersApart DEF Unplayed
  <2>8. \A j \in Rounds : Passed(j) => Passed(j)'
    BY <1>4, <2>1, <2>4, <2>5 DEF Passed
  <2>9. Reached(n)
    BY <1>1, <1>2 DEF GameInv, RoundsInOrder
  <2>10. ClaimsInOrder'
    BY <2>1, <2>8, <2>9 DEF ClaimsInOrder, Reached
  <2>11. SessionKeepsUp'
    BY <1>1, <1>2, <2>2, <2>4, <2>5 DEF SessionKeepsUp, KeepsUp
  <2>12. row = "ACCEPTED" => session.round = n
    BY <1>1, <1>2, <1>4, SettlersHere
  <2>13. row = "ACCEPTED" => Settled(session.round)' /\ session'.round \in claimed' /\ session'.round \in Rounds
    BY <1>1, <2>1, <2>2, <2>4, <2>5, <2>12 DEF Settled, Playing, Settling
  <2>14. Carried'
    BY <1>1, <2>13 DEF Carried
  <2> QED
    BY <2>6, <2>7, <2>10, <2>11, <2>14
<1> QED
  BY <1>3, <1>4

(* A holder of a right goes on with it. *)
LEMMA HolderGoes ==
  ASSUME OneMishap, GameInv, RestTyped, EndInv, NEW h \in Handlers, NEW q, call' = [call EXCEPT ![h] = q],
         call[h].phase \in Playing, q.phase \in Playing, q.round = call[h].round, q.attempt = call[h].attempt,
         UNCHANGED <<claimed, timers>>, left'.crashes = left.crashes,
         left'.failures \in Nat, left'.failures <= left.failures,
         row' = "ACCEPTED" => row = "ACCEPTED",
         session' = session \/ (row' # "ACCEPTED" /\ session'.round = 0),
         row' = "ACCEPTED" /\ q.phase = "release" => left.failures > 0 /\ left'.failures = 0 /\ h \in Deadlines
  PROVE  EndInv'
<1>1. h # Accepting /\ call[h].phase \in Settling /\ call[h].phase \in Active /\ call[h].round \in Rounds
      /\ q.phase \in Settling /\ q.phase # "reopen" /\ call[h].phase # "reopen"
      /\ call[h].phase \notin Waits
  BY SettlersFit DEF Playing, Waits, Settling
<1>2. call[Accepting].phase \notin Opening
  BY <1>1 DEF EndInv, Unplayed
<1>3. Keeps(h, q)
  BY <1>1, <1>2 DEF Keeps
<1>4. row' = "ACCEPTED" => KeepsUp(q)
  BY <1>1 DEF EndInv, SessionKeepsUp, KeepsUp
<1>5. row' = "ACCEPTED" => Tame(h, q, left'.failures)
  <2>1. left'.failures > 0 => left.failures > 0
    BY StepsForward
  <2> QED
    BY <2>1 DEF EndInv, AllTame, Tame
<1>6. row' = "ACCEPTED" => FirstTries'
  <2>1. left'.failures > 0 => left.failures > 0
    BY StepsForward
  <2> QED
    BY <2>1 DEF EndInv, AllTame, FirstTries
<1>7. row' = "ACCEPTED" => Advances(h, q)
  BY <1>1, <1>4, <1>5 DEF Advances
<1>8. row' = "ACCEPTED" =>
        /\ Advances(h, q) /\ FirstTries'
        /\ \A s \in Rounds : DueIn(timers, s) => DueIn(timers', s) \/ (h = Deadline(s) /\ q.phase \in Waits)
  BY <1>6, <1>7
<1> QED
  BY <1>3, <1>8, EndQuietStep

LEMMA CarryingOut ==
  ASSUME OneMishap, GameInv, RestTyped, EndInv, NEW h \in Handlers,
         Finish(h) \/ Commit(h) \/ VoidRow(h) \/ Clean(h)
  PROVE  EndInv'
<1> USE DEF redis, history, At
<1>1. CoreTyped /\ {"commit", "release", "clean", "tell"} \subseteq Phases
      /\ {"commit", "release", "clean", "tell"} \subseteq Playing
  BY DEF GameInv, Phases, Playing, Settling
<1>2. UNCHANGED <<claimed, timers, left>> /\ call[h].phase \in {"finish", "commit", "void", "clean"}
      /\ call[h].phase \in Playing
  BY DEF Finish, Commit, VoidRow, Clean, Playing, Settling
<1>3. left'.failures \in Nat /\ left'.failures <= left.failures /\ left'.crashes = left.crashes
  BY <1>2, StepsForward
<1>4. /\ row' = "ACCEPTED" => row = "ACCEPTED"
      /\ session' = session \/ (row' # "ACCEPTED" /\ session'.round = 0)
  <2>1. CASE Finish(h) \/ Commit(h) \/ VoidRow(h)
    BY <2>1 DEF Finish, Commit, VoidRow
  <2>2. CASE Clean(h)
    BY <2>2 DEF Clean, NoSession, GameInv, DecisionStands, Stands
  <2> QED
    BY <2>1, <2>2
<1>5. ASSUME NEW f \in {"commit", "release", "clean", "tell"}, NEW q,
             q \in {[call[h] EXCEPT !.phase = f], Entering(h, f)}, call' = [call EXCEPT ![h] = q],
             f = "release" => row' # "ACCEPTED"
      PROVE  EndInv'
  <2>1. q.phase = f /\ q.round = call[h].round /\ q.attempt = call[h].attempt
    <3>1. CASE q = [call[h] EXCEPT !.phase = f]
      BY <1>1, <3>1, GotoIs, AttemptsStay
    <3>2. CASE q = Entering(h, f)
      BY <1>1, <3>2, EnteringIs, AttemptsStay
    <3> QED
      BY <1>5, <3>1, <3>2
  <2> QED
    BY <1>1, <1>2, <1>3, <1>4, <1>5, <2>1, HolderGoes
<1> QED
  BY <1>5 DEF Finish, Commit, VoidRow, Clean, Goto

LEMMA TellEnds ==
  ASSUME OneMishap, GameInv, RestTyped, EndInv, NEW h \in Handlers, Tell(h)
  PROVE  EndInv'
<1>1. call[h].phase = "tell" /\ row' # "ACCEPTED" /\ row' = row
  BY DEF Tell, At, GameInv, DecisionStands, Stands
<1>2. call[h].phase \notin Opening /\ timers \subseteq timers' /\ Done(h) /\ UNCHANGED <<session, claimed, left>>
  BY <1>1 DEF Tell, Opening, redis
<1> QED
  BY <1>1, <1>2, EndDone

LEMMA RematchEnds ==
  ASSUME OneMishap, GameInv, RestTyped, EndInv, NEW h \in Handlers, Rematch(h)
  PROVE  EndInv'
<1> USE DEF EndInv
<1> DEFINE q == [call[h] EXCEPT !.phase = "reopen"]
<1>1. CoreTyped /\ call[h].phase = "rematch" /\ call[h].phase \in Settling /\ call[h].phase \in Playing
      /\ call[h].phase \in Active /\ "reopen" \in Phases /\ UNCHANGED <<row, claimed, timers, left>>
  BY DEF GameInv, Rematch, At, Settling, Playing, Active, Phases
<1>2. q.phase = "reopen" /\ q.round = call[h].round /\ q.attempt = call[h].attempt /\ call' = [call EXCEPT ![h] = q]
  BY <1>1, GotoIs, AttemptsStay DEF Rematch, Goto
<1> HIDE DEF q
<1>3. call'[h] = q /\ \A g \in Handlers \ {h} : call'[g] = call[g]
  BY <1>1, <1>2 DEF CoreTyped
<1>4. PICK n \in Rounds : n = call[h].round
  BY <1>1, SettlersFit
<1>5. n < MAX_ROUNDS /\ n \in Nat /\ n + 1 \in Rounds
  BY <1>1, <1>4, RoundsAreNats DEF GameInv, DecisionStands, Stands
<1>6. session'.round = n + 1
  BY <1>4 DEF Rematch, Saves
<1>7. h # Accepting /\ call[Accepting].phase \notin Opening
  BY <1>1, SettlersFit DEF Unplayed
<1>8. AllTame'
  BY <1>1, <1>2, <1>3 DEF AllTame, FirstTries, Tame
<1>9. Unplayed'
  BY <1>3, <1>7, HandlersApart DEF Unplayed
<1>10. \A j \in Rounds : Passed(j) => Passed(j)'
  BY <1>1, <1>2, <1>3 DEF Passed
<1>11. ClaimsInOrder'
  BY <1>1, <1>10 DEF ClaimsInOrder, Reached
<1>12. row = "ACCEPTED" => session.round = n
  BY <1>1, <1>4, SettlersHere
<1>13. SessionKeepsUp'
  <2> SUFFICES ASSUME row = "ACCEPTED", NEW g \in Handlers PROVE KeepsUp(call[g])'
    BY <1>1 DEF SessionKeepsUp
  <2>1. KeepsUp(call[g]) /\ session.round = n
    BY <1>12 DEF SessionKeepsUp
  <2>2. call[g].round \in Nat
    BY <1>1, RoundsAreNats DEF CoreTyped, CallType
  <2>3. CASE g = h
    BY <1>2, <1>3, <1>4, <1>5, <1>6, <2>3 DEF KeepsUp
  <2>4. CASE g # h
    BY <1>3, <1>5, <1>6, <2>1, <2>2, <2>4 DEF KeepsUp
  <2> QED
    BY <2>3, <2>4
<1>14. n + 1 \notin claimed
  <2>1. ~Passed(n)
    BY <1>1, <1>4 DEF Passed
  <2>2. n < n + 1
    BY <1>5
  <2> QED
    BY <2>1, <2>2 DEF ClaimsInOrder, Reached
<1>15. Awaited(session.round)'
  BY <1>2, <1>3, <1>4, <1>6 DEF Awaited
<1>16. Carried'
  BY <1>1, <1>5, <1>6, <1>14, <1>15 DEF Carried
<1> QED
  BY <1>8, <1>9, <1>11, <1>13, <1>16

LEMMA ReopenEnds ==
  ASSUME OneMishap, GameInv, RestTyped, EndInv, NEW h \in Handlers, Reopen(h)
  PROVE  EndInv'
<1>1. call[h].phase = "reopen" /\ Done(h) /\ UNCHANGED <<row, session, claimed, left>>
  BY DEF Reopen, At, redis
<1>2. call[h].round + 1 \in Rounds
  BY <1>1, RoundsAreNats DEF GameInv, DecisionStands, Stands, CoreTyped, CallType
<1>3. DueIn(timers', call[h].round + 1) /\ timers \subseteq timers' /\ (row = "ACCEPTED" => FirstTries')
  BY <1>1, <1>2, OpensDue DEF Reopen, EndInv, AllTame
<1>4. h # Accepting /\ call[h].phase \notin Opening /\ call[h].phase \notin Playing /\ call[h].phase \notin Waits
  BY <1>1, SettlersFit DEF Opening, Playing, Settling, Waits
<1> QED
  BY <1>1, <1>3, <1>4, EndDone

LEMMA ReleaseEnds ==
  ASSUME OneMishap, GameInv, RestTyped, EndInv, NEW h \in Handlers, Release(h)
  PROVE  EndInv'
<1> USE DEF EndInv
<1>1. CoreTyped /\ call[h].phase = "release" /\ call[h].phase \in Settling /\ call[h].phase \in Playing
      /\ call[h].phase \in Active /\ UNCHANGED <<row, session, left>>
  BY DEF GameInv, Release, At, Settling, Playing, Active, history
<1>2. PICK n \in Rounds : n = call[h].round
  BY <1>1, SettlersFit
<1>3. claimed' = claimed \ {n} /\ call' = [call EXCEPT ![h] = Idle] /\ timers' = timers \union Retried(h)
  BY <1>2 DEF Release, Breaks, Done
<1>4. call'[h] = Idle /\ \A g \in Handlers \ {h} : call'[g] = call[g]
  BY <1>1, <1>3 DEF CoreTyped
<1>5. h # Accepting /\ call[Accepting].phase \notin Opening
  BY <1>1, SettlersFit DEF Unplayed
<1>6. row = "ACCEPTED" => ~(left.failures > 0) /\ h \in Deadlines /\ call[h].attempt = 1
  BY <1>1 DEF AllTame, Tame
<1>7. AllTame'
  BY <1>1, <1>4, <1>6, FirstAttempts DEF AllTame, FirstTries, Tame
<1>8. Unplayed'
  BY <1>4, <1>5, HandlersApart DEF Unplayed
<1>9. \A j \in Rounds : Passed(j) => Passed(j)'
  BY <1>1, <1>2, <1>3, <1>4, FirstAttempts DEF Passed, Settling
<1>10. ClaimsInOrder'
  BY <1>3, <1>9 DEF ClaimsInOrder, Reached
<1>11. SessionKeepsUp'
  BY <1>1, <1>4, FirstAttempts DEF SessionKeepsUp, KeepsUp, Active, Settling
<1>12. row = "ACCEPTED" => Awaited(session.round)' /\ session'.round = n /\ n \notin claimed'
  <2> SUFFICES ASSUME row = "ACCEPTED" PROVE DueIn(timers', n) /\ session.round = n
    BY <1>1, <1>3 DEF Awaited
  <2>1. session.round = n
    BY <1>1, <1>2, SettlersHere
  <2>2. <<n, 2>> \in timers' /\ 2 \in 1 .. GAME_EXPIRE_MAX_ATTEMPTS
    BY <1>2, <1>3, <1>6, GameAssumption DEF Retried, OneMishap
  <2> QED
    BY <2>1, <2>2 DEF DueIn
<1>13. Carried'
  BY <1>1, <1>2, <1>12 DEF Carried
<1> QED
  BY <1>7, <1>8, <1>10, <1>11, <1>13

LEMMA SettlingEnds ==
  ASSUME OneMishap, GameInv, RestTyped, EndInv, NEW h \in Handlers, Settle(h)
  PROVE  EndInv'
  BY ClaimEnds, CarryingOut, TellEnds, RematchEnds, ReopenEnds, ReleaseEnds DEF Settle

-----------------------------------------------------------------------------
(* Failures: of a deadline, and only one. *)
LEMMA OneFailure ==
  ASSUME OneMishap, RestTyped, left.failures > 0, left' = [left EXCEPT !.failures = @ - 1]
  PROVE  left'.failures = 0 /\ left'.failures <= left.failures /\ left'.crashes = left.crashes
<1>1. left \in [failures : 0 .. MaxFailures, crashes : 0 .. MaxCrashes, sends : [Players -> 0 .. MaxSends]]
  BY DEF RestTyped
<1>2. left'.failures = left.failures - 1 /\ left'.crashes = left.crashes
  BY <1>1
<1>3. left.failures \in Nat /\ left.failures <= 1
  BY StepsForward, GameAssumption DEF OneMishap
<1> QED
  BY <1>2, <1>3

(* The deadline that failed ends, and is tried again. *)
LEMMA BreaksOnce ==
  ASSUME OneMishap, GameInv, RestTyped, EndInv, NEW h \in Deadlines, h \in Handlers, Breaks(h),
         call[h].phase \in {"expire", "load", "claim", "tell", "release"},
         left.failures > 0, left' = [left EXCEPT !.failures = @ - 1], UNCHANGED <<row, session, claimed>>
  PROVE  EndInv'
<1> DEFINE q == Idle
<1>1. q.phase = "idle" /\ q.attempt = 1 /\ call' = [call EXCEPT ![h] = q] /\ timers' = timers \union Retried(h)
  BY FirstAttempts DEF Breaks, Done
<1> HIDE DEF q
<1>2. left'.failures = 0 /\ left'.failures <= left.failures /\ left'.crashes = left.crashes
  BY OneFailure
<1>3. h # Accepting
  BY HandlersApart
<1>4. Keeps(h, q)
  BY <1>1, <1>3 DEF Keeps, Settling, Active
<1>5. Tame(h, q, left'.failures) /\ KeepsUp(q)
  BY <1>1, <1>2 DEF Tame, KeepsUp, Settling, Active
<1>6. row = "ACCEPTED" => call[h].attempt = 1 /\ call[h].phase \in Waits
  <2>1. row = "ACCEPTED" => call[h].attempt = 1 /\ call[h].phase # "release"
    BY DEF EndInv, AllTame, Tame
  <2>2. row = "ACCEPTED" => call[h].phase # "tell"
    BY DEF GameInv, DecisionStands, Stands
  <2> QED
    BY <2>1, <2>2 DEF Waits
<1>7. ASSUME row = "ACCEPTED", NEW s \in Rounds, h = Deadline(s) PROVE DueIn(timers', s)
  <2>1. call[h].round = s /\ call[h].attempt = 1
    BY <1>6, <1>7 DEF GameInv, CallsFit, Fits, Waits
  <2>2. <<s, 2>> \in timers' /\ 2 \in 1 .. GAME_EXPIRE_MAX_ATTEMPTS
    BY <1>1, <2>1, GameAssumption DEF Retried, OneMishap
  <2> QED
    BY <2>2 DEF DueIn
<1>8. row = "ACCEPTED" => Advances(h, q)
  BY <1>3, <1>5, <1>6, <1>7 DEF Advances, Waits, Playing, Settling
<1>9. row' = "ACCEPTED" =>
        /\ Advances(h, q) /\ FirstTries'
        /\ \A s \in Rounds : DueIn(timers, s) => DueIn(timers', s) \/ (h = Deadline(s) /\ q.phase \in Waits)
  BY <1>1, <1>2, <1>8 DEF FirstTries, DueIn
<1>10. row' = row /\ claimed' = claimed /\ session' = session /\ left'.failures \in Nat
  BY <1>2
<1> QED
  BY <1>1, <1>2, <1>4, <1>9, <1>10, EndQuietStep

LEMMA FailsEnds ==
  ASSUME OneMishap, GameInv, RestTyped, EndInv, NEW h \in Handlers, Fails(h)
  PROVE  EndInv'
<1>0. CoreTyped /\ h \in Deadlines /\ left.failures > 0 /\ left' = [left EXCEPT !.failures = @ - 1] /\ row' = row
      /\ {"release", "tell"} \subseteq Phases /\ {"release", "tell"} \subseteq Playing
  BY DEF OneMishap, Fails, GameInv, Phases, Playing, Settling
<1>1. call[h].phase \in {"idle", "expire", "load", "claim"} \union Settling
  BY <1>0 DEF Deadlines, GameInv, CallsFit, Fits
<1>2. left'.failures = 0 /\ left'.failures \in Nat /\ left'.failures <= left.failures /\ left'.crashes = left.crashes
  BY <1>0, OneFailure
<1>3. CASE call[h].phase \in {"expire", "load", "claim", "tell", "release"} /\ Breaks(h) /\ UNCHANGED redis
  BY <1>0, <1>3, BreaksOnce DEF redis
<1>4. CASE /\ call[h].phase \in {"finish", "commit", "void", "rematch"}
           /\ call' = [call EXCEPT ![h] = Entering(h, "release")]
           /\ UNCHANGED <<redis, timers>>
  <2> DEFINE q == Entering(h, "release")
  <2>1. q.phase = "release" /\ q.round = call[h].round /\ q.attempt = call[h].attempt /\ call' = [call EXCEPT ![h] = q]
    BY <1>0, <1>4, EnteringIs, AttemptsStay
  <2> HIDE DEF q
  <2>2. call[h].phase \in Playing /\ UNCHANGED <<session, claimed, timers>>
    BY <1>4 DEF Playing, Settling, redis
  <2> QED
    BY <1>0, <1>2, <2>1, <2>2, HolderGoes
<1>5. CASE /\ call[h].phase = "clean" /\ Goto(h, IF At(h, "clean") THEN "tell" ELSE "abort")
           /\ session' \in {session, NoSession} /\ UNCHANGED <<claimed, timers>>
  <2> DEFINE q == [call[h] EXCEPT !.phase = "tell"]
  <2>1. q.phase = "tell" /\ q.round = call[h].round /\ q.attempt = call[h].attempt /\ call' = [call EXCEPT ![h] = q]
    BY <1>0, <1>5, GotoIs, AttemptsStay DEF Goto, At
  <2> HIDE DEF q
  <2>2. row # "ACCEPTED" /\ call[h].phase \in Playing
    BY <1>5 DEF GameInv, DecisionStands, Stands, Playing, Settling
  <2>3. session' = session \/ (row' # "ACCEPTED" /\ session'.round = 0)
    BY <1>0, <1>5, <2>2 DEF NoSession
  <2> QED
    BY <1>0, <1>2, <1>5, <2>1, <2>2, <2>3, HolderGoes
<1> QED
  BY <1>1, <1>3, <1>4, <1>5 DEF Fails, At, Settling

LEMMA ReopenFailsEnds ==
  ASSUME OneMishap, GameInv, RestTyped, EndInv, NEW h \in Handlers, ReopenFails(h)
  PROVE  EndInv'
<1> DEFINE q == Idle
<1>1. call[h].phase = "reopen" /\ Done(h) /\ UNCHANGED <<row, session, claimed>>
      /\ left.failures > 0 /\ left' = [left EXCEPT !.failures = @ - 1]
  BY DEF ReopenFails, At, redis
<1>2. q.phase = "idle" /\ q.attempt = 1 /\ call' = [call EXCEPT ![h] = q]
  BY <1>1, FirstAttempts DEF Done
<1> HIDE DEF q
<1>3. left'.failures = 0 /\ left'.failures \in Nat /\ left'.failures <= left.failures /\ left'.crashes = left.crashes
  BY <1>1, OneFailure
<1>4. h # Accepting /\ call[h].phase \notin Playing /\ call[h].phase \notin Waits
  BY <1>1, SettlersFit DEF Playing, Settling, Waits
<1>5. Keeps(h, q)
  BY <1>2, <1>4 DEF Keeps, Settling, Active
<1>6. timers \subseteq timers' /\ <<call[h].round + 1, 1>> \in timers'
  BY DEF ReopenFails, BeforeSending
<1>7. Tame(h, q, left'.failures) /\ KeepsUp(q)
  BY <1>2, <1>3 DEF Tame, KeepsUp, Settling, Active
<1>8. Advances(h, q)
  BY <1>4, <1>6, <1>7, AttemptsAreNats DEF Advances, DueIn
<1>9. row' = "ACCEPTED" =>
        /\ Advances(h, q) /\ FirstTries'
        /\ \A s \in Rounds : DueIn(timers, s) => DueIn(timers', s) \/ (h = Deadline(s) /\ q.phase \in Waits)
  BY <1>3, <1>6, <1>8 DEF FirstTries, DueIn
<1> QED
  BY <1>1, <1>2, <1>3, <1>5, <1>9, EndQuietStep

-----------------------------------------------------------------------------
(* The signal, the sweep, and a restart. *)
LEMMA OthersEnd ==
  ASSUME OneMishap, GameInv, RestTyped, EndInv,
         (\E r \in Rounds : SignalStep(r) \/ SignalFails(r)) \/ Sweep \/ UNCHANGED vars
  PROVE  EndInv'
<1>1. UNCHANGED <<call, session, claimed, timers>> /\ (row' = "ACCEPTED" => row = "ACCEPTED")
  BY DEF SignalStep, SignalRead, SignalMark, SignalEmit, SignalFails, Sweep, vars, redis, process, history
<1>2. UNCHANGED left \/ (left.failures > 0 /\ left' = [left EXCEPT !.failures = @ - 1])
  BY DEF SignalStep, SignalRead, SignalMark, SignalEmit, SignalFails, Sweep, vars, redis, process, history
<1>3. left'.failures \in Nat /\ left'.failures <= left.failures /\ left'.crashes = left.crashes
  BY <1>2, OneFailure, StepsForward
<1> QED
  BY <1>1, <1>3, EndUnchanged

LEMMA CrashEnds ==
  ASSUME GameInv, RestTyped, EndInv, Crash PROVE EndInv'
<1>1. UNCHANGED <<row, session, claimed>> /\ timers' = {} /\ \A h \in Handlers : call'[h] = Idle
  BY DEF Crash, redis
<1>2. left'.crashes # MaxCrashes
  <2>1. left \in [failures : 0 .. MaxFailures, crashes : 0 .. MaxCrashes, sends : [Players -> 0 .. MaxSends]]
    BY DEF RestTyped
  <2>2. left'.crashes = left.crashes - 1
    BY <2>1 DEF Crash
  <2> QED
    BY <2>2, StepsForward, GameAssumption
<1>3. AllTame' /\ Unplayed' /\ SessionKeepsUp' /\ Carried'
  BY <1>1, <1>2, HandlersApart, FirstAttempts
     DEF AllTame, FirstTries, Tame, Unplayed, SessionKeepsUp, KeepsUp, Carried, Opening, Active, Settling
<1>4. \A j \in Rounds : Passed(j) => Passed(j)'
  BY <1>1, FirstAttempts DEF Passed, Settling
<1>5. ClaimsInOrder'
  BY <1>1, <1>4 DEF EndInv, ClaimsInOrder, Reached
<1> QED
  BY <1>3, <1>5 DEF EndInv

LEMMA EndInductive == OneMishap /\ GameInv /\ RestTyped /\ GoInv /\ EndInv /\ [Next]_vars => EndInv'
<1> SUFFICES ASSUME OneMishap, GameInv, RestTyped, GoInv, EndInv, [Next]_vars PROVE EndInv'
  OBVIOUS
<1>1. CASE AcceptStep
  BY <1>1, AcceptEnds
<1>2. ASSUME NEW p \in Players, SubmitStep(p) PROVE EndInv'
  BY <1>2, SubmissionEnds, SettlingEnds, HandlersApart DEF SubmitStep
<1>3. ASSUME NEW p \in Players, NEW r \in Rounds, Receive(p, r) PROVE EndInv'
  BY <1>3, ReceiveEnds
<1>4. ASSUME NEW r \in Rounds, DeadlineStep(r) PROVE EndInv'
  BY <1>4, DeadlineEnds, SettlingEnds, HandlersApart DEF DeadlineStep
<1>5. ASSUME NEW h \in Handlers, Fails(h) \/ ReopenFails(h) PROVE EndInv'
  BY <1>5, FailsEnds, ReopenFailsEnds
<1>6. CASE (\E r \in Rounds : SignalStep(r) \/ SignalFails(r)) \/ Sweep \/ UNCHANGED vars
  BY <1>6, OthersEnd
<1>7. CASE Crash
  BY <1>7, CrashEnds
<1> QED
  BY <1>1, <1>2, <1>3, <1>4, <1>5, <1>6, <1>7 DEF Next

(* While the process lives somebody will end an accepted duel: the handler of *)
(* the accept, who holds the right to settle, or a deadline of the round the  *)
(* session is in, also when one step of a deadline fails.  Two in a row, a    *)
(* step of settle and the release after it, leave the duel to the sweep.      *)
THEOREM DuelIsSettled == OneMishap => (Spec => []SomeoneSettles)
<1> SUFFICES ASSUME OneMishap PROVE Spec => []SomeoneSettles
  OBVIOUS
<1>1. GameInv /\ EndInv => SomeoneSettles
  <2> SUFFICES ASSUME GameInv, EndInv, row = "ACCEPTED", left.crashes = MaxCrashes
               PROVE  \/ ~Resting(Accepting)
                      \/ \E h \in Handlers : call[h].phase \in Settling
                      \/ /\ session.round \in Rounds
                         /\ Due(session.round) \/ ~Resting(Deadline(session.round))
    BY DEF SomeoneSettles
  <2>1. CASE call[Accepting].phase \in Opening
    BY <2>1 DEF Opening, Resting, At
  <2>2. CASE session.round \in Rounds /\ Settled(session.round)
    BY <2>2 DEF Settled, Playing
  <2>3. CASE session.round \in Rounds /\ Awaited(session.round)
    BY <2>3 DEF Awaited, Due, DueIn, Resting, At, Waits, Settling
  <2> QED
    BY <2>1, <2>2, <2>3 DEF EndInv, Carried
<1>2. GameInv /\ RestTyped /\ GoInv /\ EndInv /\ [Next]_vars => EndInv'
  BY EndInductive
<1>3. GameInv /\ RestTyped /\ GoInv /\ [Next]_vars => GoInv'
  BY GoInductive
<1> QED
  BY <1>1, <1>2, <1>3, GoInitially, EndInitially, GameHolds, RestHolds, PTL DEF Spec
=============================================================================
