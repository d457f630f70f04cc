------------------------------ MODULE Minigame ------------------------------
(***************************************************************************)
(* The minigame that decides an accepted duel: minigame.service.ts and the *)
(* handlers of realtime.gateway.ts around it.  One duel, two players.  The *)
(* session, the submitted scores, the signal of the reaction game and the  *)
(* right to settle a round are keys in Redis; deadline and signal timers   *)
(* live in the process.  The last submission, the deadline timer and its   *)
(* retries settle the same round; a sweep may end the duel under them.     *)
(*                                                                         *)
(* Keys of the game outlive it (GAME_SESSION_TTL), so none expires here.   *)
(* A timer may fire at any moment after it was set.                        *)
(***************************************************************************)
EXTENDS Integers, FiniteSets

CONSTANTS
  Challenger, Opponent,
  Nobody,                     \* winnerId IS NULL
  Types,                      \* the kinds of game the service draws from
  Points,                     \* scores of submissions that were played
  MAX_ROUNDS, GAME_EXPIRE_MAX_ATTEMPTS,
  MayFail,                    \* handlers whose database or Redis calls may fail
  MaxFailures, MaxCrashes,    \* bounds on failed calls and on restarts
  MaxSends                    \* bound on the submissions of each player

ASSUME PlayersAssumption == Challenger # Opponent /\ Nobody \notin {Challenger, Opponent}
ASSUME GameAssumption ==
  /\ Types # {} /\ Types \subseteq {"TAP", "REACTION", "QUIZ"}
  /\ Points # {} /\ Points \subseteq Nat
  /\ MAX_ROUNDS \in Nat \ {0} /\ GAME_EXPIRE_MAX_ATTEMPTS \in Nat \ {0}
  /\ MaxFailures \in Nat /\ MaxCrashes \in Nat /\ MaxSends \in Nat

VARIABLES
  row,        \* duels.status
  winner,     \* duels.winnerId
  session,    \* duel:game:<id>, round 0 when there is no key
  go,         \* rounds with a key duel:game:go:<id>:<round>
  score,      \* duel:game:<id>:r<round>, the hash of submissions
  claimed,    \* rounds with a key duel:game:<id>:settled:r<round>
  call,       \* the handlers in flight
  timers,     \* deadline timers of this process: <<round, attempt>>
  signal,     \* the signal timer of each round
  started,    \* (history) how often game:start of a round was sent out
  signalled,  \* (history) rounds whose game:go was sent
  told,       \* (history) ends the players were told, and by whom
  left        \* (bound) failures, restarts and submissions still to come

redis   == <<session, go, score, claimed>>
process == <<call, timers, signal>>
history == <<started, signalled, told>>
vars    == <<row, winner, redis, process, history, left>>

-----------------------------------------------------------------------------
Players == {Challenger, Opponent}
Rounds  == 1 .. MAX_ROUNDS

\* A normalised score is compared by primary, then by tiebreak: one number here.
\* Nobody who was there scores below somebody who was not.
NO_SUBMIT   == -2
FALSE_START == -1
Scores == Points \union {NO_SUBMIT, FALSE_START}

\* Handlers: the submission of a player, the deadline of a round, the accept.
Submit(p)   == <<"submit", p>>
Deadline(r) == <<"expire", r>>
Accepting   == <<"accept", Nobody>>
Submits     == {Submit(p) : p \in Players}
Deadlines   == {Deadline(r) : r \in Rounds}
Handlers    == Submits \union Deadlines \union {Accepting}

\* Phases in which a handler holds the right to settle its round.
Settling == {"finish", "commit", "void", "rematch", "reopen", "clean", "tell", "release"}
Phases == Settling \union {"idle", "greet", "start", "open", "discard", "abort", "inform",
                           "read", "store", "stamp", "expire", "load", "claim"}
Idle == [phase |-> "idle", round |-> 1, score |-> NO_SUBMIT, both |-> FALSE,
         winner |-> Nobody, attempt |-> 1, early |-> FALSE, sawGo |-> FALSE]
CallType == [phase : Phases, round : Rounds, score : Scores, both : BOOLEAN,
             winner : Players \union {Nobody}, attempt : 1 .. GAME_EXPIRE_MAX_ATTEMPTS,
             early : BOOLEAN, sawGo : BOOLEAN]
NoSession == [round |-> 0, type |-> "TAP"]
\* duel:completed and duel:voided, sent by settle or by the handler of the accept.
Messages == [from : {"settle", "accept"}, verdict : {"COMPLETED", "VOID"}]

TypeOK ==
  /\ row \in {"ACCEPTED", "COMPLETED", "VOID"} /\ winner \in Players \union {Nobody}
  /\ session \in [round : 0 .. MAX_ROUNDS, type : Types \union {"TAP"}]
  /\ go \subseteq Rounds /\ claimed \subseteq Rounds
  /\ score \in [Rounds -> [Players -> Scores]]
  /\ call \in [Handlers -> CallType]
  /\ timers \subseteq Rounds \X (1 .. GAME_EXPIRE_MAX_ATTEMPTS)
  /\ signal \in [Rounds -> {"off", "armed", "read", "emit"}]
  /\ started \in [Rounds -> Nat] /\ signalled \subseteq Rounds
  /\ told \subseteq Messages
  /\ left \in [failures : 0 .. MaxFailures, crashes : 0 .. MaxCrashes,
              sends : [Players -> 0 .. MaxSends]]

\* The duel was just accepted: the handler tells the challenger, then starts the
\* first round.
Init ==
  /\ row = "ACCEPTED" /\ winner = Nobody
  /\ session = NoSession /\ go = {} /\ claimed = {}
  /\ score = [r \in Rounds |-> [p \in Players |-> NO_SUBMIT]]
  /\ call = [h \in Handlers |->
       IF h = Accepting THEN [Idle EXCEPT !.phase = "greet"] ELSE Idle]
  /\ timers = {} /\ signal = [r \in Rounds |-> "off"]
  /\ started = [r \in Rounds |-> 0] /\ signalled = {} /\ told = {}
  /\ left = [failures |-> MaxFailures, crashes |-> MaxCrashes,
             sends |-> [p \in Players |-> MaxSends]]

At(h, phase)   == call[h].phase = phase
Goto(h, phase) == call' = [call EXCEPT ![h].phase = phase]
Done(h)        == call' = [call EXCEPT ![h] = Idle]
\* A handler forgets what it needs no more: its call as it enters a phase.
Entering(h, phase) == [Idle EXCEPT !.phase = phase, !.round = call[h].round,
                                   !.attempt = call[h].attempt]

-----------------------------------------------------------------------------
(* A round opens: start saves the session, startGameRound sets the timers    *)
(* before it sends game:start.                                              *)
Saves(r) == \E type \in Types : session' = [round |-> r, type |-> type]
Opens(r) ==
  /\ timers' = timers \union {<<r, 1>>}
  /\ signal' = IF session.round = r /\ session.type = "REACTION"
                THEN [signal EXCEPT ![r] = "armed"] ELSE signal
  /\ started' = [started EXCEPT ![r] = @ + 1]

Greet ==
  /\ At(Accepting, "greet") /\ Goto(Accepting, "start")
  /\ UNCHANGED <<row, winner, redis, timers, signal, history, left>>
Start ==
  /\ At(Accepting, "start") /\ Saves(1) /\ Goto(Accepting, "open")
  /\ UNCHANGED <<row, winner, go, score, claimed, timers, signal, history, left>>
Open ==
  /\ At(Accepting, "open") /\ Opens(1) /\ Done(Accepting)
  /\ UNCHANGED <<row, winner, redis, signalled, told, left>>

\* voidAfterGameStartFailure: the session goes, then the duel is voided.
Discard ==
  /\ At(Accepting, "discard") /\ Goto(Accepting, "abort")
  /\ session' = NoSession /\ go' = go \ {1}
  /\ UNCHANGED <<row, winner, score, claimed, timers, signal, history, left>>

\* voidByGame is a compare-and-set.
Abort ==
  /\ At(Accepting, "abort") /\ Goto(Accepting, "inform")
  /\ row' = IF row = "ACCEPTED" THEN "VOID" ELSE row
  /\ UNCHANGED <<winner, redis, timers, signal, history, left>>

\* duel:voided goes out whatever row voidByGame came back with.
Inform ==
  /\ At(Accepting, "inform") /\ Done(Accepting)
  /\ told' = told \union {[from |-> "accept", verdict |-> "VOID"]}
  /\ UNCHANGED <<row, winner, redis, timers, signal, started, signalled, left>>

-----------------------------------------------------------------------------
(* The signal of the reaction game (fireGoSignal, markGo).                   *)
SignalRead(r) ==
  /\ signal[r] = "armed"
  /\ signal' = [signal EXCEPT ![r] =
       IF session.round = r /\ session.type = "REACTION" THEN "read" ELSE "off"]
  /\ UNCHANGED <<row, winner, redis, call, timers, history, left>>

\* Faulty variant: the signal is sent and its instant not kept.
Unmarked(r) == go
\* SETNX: the instant of the signal is kept before game:go leaves.
Marked(r) == go \union {r}
SignalMark(r) ==
  /\ signal[r] = "read"
  /\ signal' = [signal EXCEPT ![r] = IF r \in go THEN "off" ELSE "emit"]
  /\ go' = Marked(r)
  /\ UNCHANGED <<row, winner, session, score, claimed, call, timers, history, left>>
SignalEmit(r) ==
  /\ signal[r] = "emit"
  /\ signal' = [signal EXCEPT ![r] = "off"]
  /\ signalled' = signalled \union {r}
  /\ UNCHANGED <<row, winner, redis, call, timers, started, told, left>>

-----------------------------------------------------------------------------
(* game:submit.                                                             *)

\* The arrival is stamped first; a client may send any round at any time.
Receive(p, r) ==
  /\ At(Submit(p), "idle")
  /\ left.sends[p] > 0 /\ left' = [left EXCEPT !.sends[p] = @ - 1]
  /\ call' = [call EXCEPT ![Submit(p)] =
       [Idle EXCEPT !.phase = "read", !.round = r, !.early = r \notin go,
                    !.sawGo = r \in signalled]]
  /\ UNCHANGED <<row, winner, redis, timers, signal, history>>

\* evaluate: a reaction before the signal is a false start.  A submission that
\* arrived while the signal was being stored may fall on either side of it.
Evaluated(c) ==
  CASE session.type # "REACTION"              -> Points
    [] session.type = "REACTION" /\ c.round \notin go              -> {FALSE_START}
    [] session.type = "REACTION" /\ c.round \in go /\ c.early      -> Points \union {FALSE_START}
    [] session.type = "REACTION" /\ c.round \in go /\ ~c.early     -> Points

\* Session and signal are read together: no session, another round, or a value
\* that cannot have been played is an error.
Read(p) ==
  LET h == Submit(p)  c == call[h] IN
  /\ c.phase = "read"
  /\ IF session.round # c.round THEN Done(h)
     ELSE \/ \E s \in Evaluated(c) :
               call' = [call EXCEPT ![h] =
                 [Entering(h, "store") EXCEPT !.score = s, !.sawGo = c.sawGo]]
          \/ session.type # "REACTION" /\ Done(h)
  /\ UNCHANGED <<row, winner, redis, timers, signal, history, left>>

\* Faulty variant: the first submission of a round settles it.
AnyPresent(hash) == TRUE
\* HLEN of the hash after the insert.
BothPresent(hash) == \A p \in Players : hash[p] # NO_SUBMIT

\* submitGameScore: HSETNX keeps the first value.
Store(p) ==
  LET h == Submit(p)  r == call[h].round
      hash == [score[r] EXCEPT ![p] = call[h].score] IN
  /\ At(h, "store")
  /\ IF score[r][p] # NO_SUBMIT THEN Done(h) /\ UNCHANGED score
     ELSE /\ score' = [score EXCEPT ![r] = hash]
          /\ call' = [call EXCEPT ![h] = [Entering(h, "stamp") EXCEPT !.both = BothPresent(hash)]]
  /\ UNCHANGED <<row, winner, session, go, claimed, timers, signal, history, left>>

\* markResultInProgress refuses a duel that is no longer ACCEPTED.
Stamp(p) ==
  LET h == Submit(p) IN
  /\ At(h, "stamp")
  /\ IF row = "ACCEPTED" /\ call[h].both THEN call' = [call EXCEPT ![h] = Entering(h, "claim")]
     ELSE Done(h)
  /\ UNCHANGED <<row, winner, redis, timers, signal, history, left>>

-----------------------------------------------------------------------------
(* The deadline of a round (expireRoundAndNotify, expireRound).              *)
Fire(r) ==
  /\ At(Deadline(r), "idle")
  /\ \E a \in 1 .. GAME_EXPIRE_MAX_ATTEMPTS :
       /\ <<r, a>> \in timers /\ timers' = timers \ {<<r, a>>}
       /\ call' = [call EXCEPT ![Deadline(r)] =
            [Idle EXCEPT !.phase = "expire", !.round = r, !.attempt = a]]
  /\ UNCHANGED <<row, winner, redis, signal, history, left>>

Expire(r) ==
  /\ At(Deadline(r), "expire")
  /\ IF row = "ACCEPTED" THEN Goto(Deadline(r), "load") ELSE Done(Deadline(r))
  /\ UNCHANGED <<row, winner, redis, timers, signal, history, left>>

\* Faulty variant: the timer settles whatever round is being played.
AnyRound(r) == session.round # 0
SameRound(r) == session.round = r
Load(r) ==
  LET h == Deadline(r) IN
  /\ At(h, "load")
  /\ IF SameRound(r) THEN call' = [call EXCEPT ![h].phase = "claim", ![h].round = session.round]
     ELSE Done(h)
  /\ UNCHANGED <<row, winner, redis, timers, signal, history, left>>

-----------------------------------------------------------------------------
(* settle and decide.                                                       *)

\* Faulty variant: SET without NX.
AlwaysFree(r) == TRUE
Free(r) == r \notin claimed

\* pickWinner, and what follows when there is none.
PickWinner(hash) == CASE hash[Challenger] > hash[Opponent] -> Challenger
                      [] hash[Challenger] < hash[Opponent] -> Opponent
                      [] hash[Challenger] = hash[Opponent] -> Nobody
\* Faulty variant: a draw is always played again.
EndlessRematch(r) ==
  IF PickWinner(score[r]) # Nobody THEN "finish"
  ELSE IF score[r][Challenger] # NO_SUBMIT THEN "rematch" ELSE "void"
Decision(r) ==
  IF PickWinner(score[r]) # Nobody THEN "finish"
  ELSE IF score[r][Challenger] # NO_SUBMIT /\ r < MAX_ROUNDS THEN "rematch" ELSE "void"

\* claimRoundSettlement takes the right and reads the scores in one script.  Who
\* does not get the right answers 'settling' and leaves the round to the other.
Claim(h) ==
  LET r == call[h].round IN
  /\ At(h, "claim")
  /\ IF Free(r)
     THEN /\ claimed' = claimed \union {r}
          /\ call' = [call EXCEPT ![h] =
               [Entering(h, Decision(r)) EXCEPT !.winner = PickWinner(score[r])]]
     ELSE Done(h) /\ UNCHANGED claimed
  /\ UNCHANGED <<row, winner, session, go, score, timers, signal, history, left>>

\* finishByGame: the duel is read first, then the result is a compare-and-set.
Finish(h) ==
  /\ At(h, "finish")
  /\ call' = [call EXCEPT ![h] = IF row = "ACCEPTED" THEN [@ EXCEPT !.phase = "commit"]
                                   ELSE Entering(h, "release")]
  /\ UNCHANGED <<row, winner, redis, timers, signal, history, left>>
Commit(h) ==
  /\ At(h, "commit") /\ Goto(h, "clean")
  /\ IF row = "ACCEPTED" THEN row' = "COMPLETED" /\ winner' = call[h].winner
     ELSE UNCHANGED <<row, winner>>
  /\ UNCHANGED <<redis, timers, signal, history, left>>
VoidRow(h) ==
  /\ At(h, "void") /\ Goto(h, "clean")
  /\ row' = IF row = "ACCEPTED" THEN "VOID" ELSE row
  /\ UNCHANGED <<winner, redis, timers, signal, history, left>>

\* The keys of the finished game are deleted, and the players are told.
Clean(h) ==
  /\ At(h, "clean") /\ Goto(h, "tell")
  /\ session' = NoSession /\ go' = go \ {call[h].round}
  /\ UNCHANGED <<row, winner, score, claimed, timers, signal, history, left>>
\* Faulty variant: the handler reports the end it went for.
Intended(h) == IF call[h].winner # Nobody THEN "COMPLETED" ELSE "VOID"
\* finishByGame confirms a winner only when the row is COMPLETED; whoever lost the
\* compare-and-set to a sweep, and every voidByGame, tells of a void duel.
Verdict(h) == IF call[h].winner # Nobody /\ row = "COMPLETED" THEN "COMPLETED" ELSE "VOID"
Tell(h) ==
  /\ At(h, "tell") /\ Done(h)
  /\ told' = told \union {[from |-> "settle", verdict |-> Verdict(h)]}
  /\ UNCHANGED <<row, winner, redis, timers, signal, started, signalled, left>>

\* A draw: the session of the next round is saved, then that round opens.
Rematch(h) ==
  /\ At(h, "rematch") /\ Saves(call[h].round + 1) /\ Goto(h, "reopen")
  /\ UNCHANGED <<row, winner, go, score, claimed, timers, signal, history, left>>
Reopen(h) ==
  /\ At(h, "reopen") /\ Opens(call[h].round + 1) /\ Done(h)
  /\ UNCHANGED <<row, winner, redis, signalled, told, left>>

-----------------------------------------------------------------------------
(* Errors.                                                                  *)

\* Faulty variant: the timer fires once.
NotRetried(h) == {}
\* Where an exception leaves the handler: the deadline is tried again after a
\* while, a bounded number of times; the client of a submission gets an error.
Retried(h) == IF h \in Deadlines /\ call[h].attempt < GAME_EXPIRE_MAX_ATTEMPTS
              THEN {<<call[h].round, call[h].attempt + 1>>} ELSE {}
Breaks(h) == Done(h) /\ timers' = timers \union Retried(h)

\* settle gives the right back when the decision could not be carried out.
Release(h) ==
  /\ At(h, "release") /\ Breaks(h)
  /\ claimed' = claimed \ {call[h].round}
  /\ UNCHANGED <<row, winner, session, go, score, signal, history, left>>

\* A call to the database or to Redis fails, without effect.
Fails(h) ==
  /\ h \in MayFail /\ left.failures > 0 /\ left' = [left EXCEPT !.failures = @ - 1]
  /\ \/ /\ call[h].phase \in {"read", "store", "stamp", "expire", "load", "claim", "tell", "release"}
        /\ Breaks(h)
        /\ UNCHANGED <<redis, signal, started>>
     \/ /\ call[h].phase \in {"finish", "commit", "void", "rematch"}
        /\ call' = [call EXCEPT ![h] = Entering(h, "release")]
        /\ UNCHANGED <<redis, timers, signal, started>>
     \/ /\ At(h, "start") /\ Goto(h, "discard")
        /\ UNCHANGED <<redis, timers, signal, started>>
     \/ /\ At(h, "open") /\ Opens(1) /\ Goto(h, "discard")
        /\ UNCHANGED redis
     \/ /\ call[h].phase \in {"greet", "abort", "inform"} /\ Done(h)
        /\ UNCHANGED <<redis, timers, signal, started>>
     \/ /\ call[h].phase \in {"discard", "clean"}     \* either key may survive
        /\ Goto(h, IF At(h, "clean") THEN "tell" ELSE "abort")
        /\ session' \in {session, NoSession} /\ go' \in {go, go \ {call[h].round}}
        /\ UNCHANGED <<score, claimed, timers, signal, started>>
  /\ UNCHANGED <<row, winner, signalled, told>>

\* Faulty variant: game:start is sent first and the deadline set after it.
AfterSending(r) == {}
\* The deadline of a round whose game:start cannot be sent: it is set by then.
BeforeSending(r) == {<<r, 1>>}
ReopenFails(h) ==
  /\ h \in MayFail /\ left.failures > 0 /\ left' = [left EXCEPT !.failures = @ - 1]
  /\ At(h, "reopen") /\ Done(h)
  /\ LET r == call[h].round + 1 IN
     /\ timers' = timers \union BeforeSending(r) \union Retried(h)
     /\ signal' = IF session.round = r /\ session.type = "REACTION"
                   THEN [signal EXCEPT ![r] = "armed"] ELSE signal
     /\ started' = [started EXCEPT ![r] = @ + 1]
  /\ UNCHANGED <<row, winner, redis, signalled, told>>

\* Reading the session or storing the instant fails: no signal in this round.
SignalFails(r) ==
  /\ left.failures > 0 /\ left' = [left EXCEPT !.failures = @ - 1]
  /\ signal[r] \in {"armed", "read", "emit"}
  /\ signal' = [signal EXCEPT ![r] = "off"]
  /\ UNCHANGED <<row, winner, redis, call, timers, history>>

\* The sweep or the deletion of an account ends the duel under the game.
Sweep ==
  /\ row = "ACCEPTED" /\ row' = "VOID"
  /\ UNCHANGED <<winner, redis, process, history, left>>

\* The process dies: handlers and timers are gone, Redis and the row stay.
Crash ==
  /\ left.crashes > 0 /\ left' = [left EXCEPT !.crashes = @ - 1]
  /\ call' = [h \in Handlers |-> Idle]
  /\ timers' = {} /\ signal' = [r \in Rounds |-> "off"]
  /\ UNCHANGED <<row, winner, redis, history>>

-----------------------------------------------------------------------------
Settle(h) == Claim(h) \/ Finish(h) \/ Commit(h) \/ VoidRow(h) \/ Clean(h) \/ Tell(h)
             \/ Rematch(h) \/ Reopen(h) \/ Release(h)
AcceptStep == Greet \/ Start \/ Open \/ Discard \/ Abort \/ Inform
SubmitStep(p) == Read(p) \/ Store(p) \/ Stamp(p) \/ Settle(Submit(p))
DeadlineStep(r) == Fire(r) \/ Expire(r) \/ Load(r) \/ Settle(Deadline(r))
SignalStep(r) == SignalRead(r) \/ SignalMark(r) \/ SignalEmit(r)

Next ==
  \/ AcceptStep
  \/ \E p \in Players : SubmitStep(p) \/ \E r \in Rounds : Receive(p, r)
  \/ \E r \in Rounds : DeadlineStep(r) \/ SignalStep(r)
  \/ \E h \in Handlers : Fails(h) \/ ReopenFails(h)
  \/ \E r \in Rounds : SignalFails(r)
  \/ Sweep \/ Crash

Spec == Init /\ [][Next]_vars

(* A handler that runs goes on and a timer that is set fires, while the       *)
(* process lives.  Players need not submit, and no sweep is assumed.         *)
Fairness == /\ WF_vars(AcceptStep)
            /\ \A p \in Players : WF_vars(SubmitStep(p))
            /\ \A r \in Rounds : WF_vars(DeadlineStep(r))
FairSpec == Spec /\ Fairness

-----------------------------------------------------------------------------
(* Properties.                                                              *)

Resting(h) == At(h, "idle")
Due(r) == \E a \in 1 .. GAME_EXPIRE_MAX_ATTEMPTS : <<r, a>> \in timers

\* However the last submission, the deadline and its retries race, and whatever
\* fails between the draw and the new session, no round is started twice: settle
\* promises that a rematch does not begin two times.
OneStartPerRound == \A r \in Rounds : started[r] <= 1

\* A round is settled against a player who sent nothing only after the deadline
\* of that same round: neither one submission alone nor a late timer or retry of
\* the round before makes a player of this one lose by default.
SettledOnTime ==
  [][\A r \in claimed' \ claimed :
       (\E p \in Players : score[r][p] = NO_SUBMIT) => ~Resting(Deadline(r))]_vars

\* What the players are told is the outcome the database committed, also when a
\* sweep ends the duel between the settlement and the message.  One message is
\* excepted: the duel:voided of an accept whose game:start failed to go out after
\* its timers were set, when the round was played and decided all the same.
GaveUpPlayed(t) == t.from = "accept" /\ started[1] > 0 /\ row = "COMPLETED"
ToldIsRow ==
  \A t \in told : row # "ACCEPTED" /\ (t.verdict = row \/ GaveUpPlayed(t))

\* The winner on record sent a result in the round that decided the game, and no
\* round was started after it: a deadline that settles a finished or a drawn round
\* again would crown somebody who was absent, or end a game that goes on.
WinnerTookPart ==
  row = "COMPLETED" => \E r \in claimed :
    /\ score[r][winner] # NO_SUBMIT
    /\ \A later \in Rounds : later > r => started[later] = 0

\* The result stands: it is the one settle tells everybody, and it was played for.
ResultStands == ToldIsRow /\ WinnerTookPart

\* Who answers a signal that was sent is never marked as too early while the round
\* can still count: the instant is stored before game:go leaves.
NoFalseStartAfterGo ==
  \A p \in Players : LET c == call[Submit(p)] IN
    /\ c.phase = "store" /\ c.sawGo /\ row = "ACCEPTED" /\ c.round \notin claimed
    => c.score # FALSE_START \/ At(Accepting, "abort")

\* Unless the process died or a submission met an error, an accepted duel always
\* has somebody who will end its game: the handler of the accept, the right to
\* settle in the hands of a handler, or a deadline timer that will settle the
\* very round the session is in.
SomeoneSettles ==
  row = "ACCEPTED" /\ left.crashes = MaxCrashes =>
    \/ ~Resting(Accepting)
    \/ \E h \in Handlers : call[h].phase \in Settling
    \/ session.round \in Rounds
         /\ (Due(session.round) \/ ~Resting(Deadline(session.round)))

\* Every accepted duel is decided by its game, whether or not the players submit
\* and even when a step of the deadline handler fails, without the sweep.
EveryGameEnds == row = "ACCEPTED" ~> row # "ACCEPTED"

\* settle gives the right back so that the deadline timer can try again, instead of
\* leaving the duel to the sweep: a deadline is set or running when it does.
ReleasedIsRetried ==
  [][\A r \in claimed \ claimed' :
       row = "ACCEPTED" => Due(r)' \/ ~Resting(Deadline(r))']_vars

\* A duel whose minigame could not be started does not stay accepted without a
\* game: the handler ends it at once.
UnstartedIsVoided ==
  row = "ACCEPTED" /\ Resting(Accepting) /\ left.crashes = MaxCrashes => started[1] > 0
=============================================================================
