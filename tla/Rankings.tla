------------------------------ MODULE Rankings ------------------------------
(***************************************************************************)
(* The hall of fame (hall-of-fame/hall-of-fame.service.ts) over the ledger *)
(* of scores (scores/scores.service.ts): the ranking of a season, of users *)
(* or of teams, is read through a cache in Redis that lives for a minute,  *)
(* and for a day once the season has ended.                                *)
(*                                                                         *)
(* Keys of different seasons and kinds are apart, so there is one of each. *)
(* A row of the ledger is stamped with the time its transaction began; one *)
(* of a later season changes nothing here.  A write of the cache that was  *)
(* given up is like one of a slow reader.                                  *)
(***************************************************************************)
EXTENDS Integers, FiniteSets, Functions

CONSTANTS
  Players,      \* users with a score
  Sides,        \* teams
  SideOf,       \* the team of every player
  Postings,     \* transactions that write a row of the ledger
  Readers,      \* requests for the ranking
  MaxFaults     \* Redis calls that fail

NoList == {<<"no list", 0>>}
Entries == {"CLAIM_NEW", "MISSION_PHOTO", "DUEL_LOSS"}

ASSUME RankingsAssumption ==
  /\ SideOf \in [Players -> Sides] /\ IsFiniteSet(Postings) /\ MaxFaults \in Nat

VARIABLES
  ranked,     \* bound: the kind of ranking this behaviour is about
  season,     \* "ongoing" or "ended"
  playing,    \* rows of users
  posting,    \* rows of the ledger, from the begin of their transaction
  hof,        \* the cached ranking, or NoList
  dayLong,    \* it lives for a day
  reader,     \* requests between two awaits
  farewell,   \* withdrawals: how far each has come
  faults,     \* failures left
  overtaken   \* history: who is cached although his withdrawal had cleared the key

rankingsVars == <<ranked, season, playing, posting, hof, dayLong, reader, farewell, faults, overtaken>>

Unposted == [phase |-> "idle", by |-> "none", type |-> "none", late |-> FALSE]
Away == [phase |-> "idle", ended |-> FALSE, rows |-> NoList, cleared |-> {}]

RankingsInit ==
  /\ ranked \in {"users", "teams"} /\ season = "ongoing" /\ playing = Players
  /\ posting = [p \in Postings |-> Unposted]
  /\ hof = NoList /\ dayLong = FALSE /\ reader = [r \in Readers |-> Away]
  /\ farewell = [u \in Players |-> "no"] /\ faults = MaxFaults /\ overtaken = {}

Fault == faults > 0 /\ faults' = faults - 1

-----------------------------------------------------------------------------
(* The ledger.  Every kind of entry counts for its user, a lost duel against him; only    *)
(* claims count for the team.                                                             *)

PersonalPoints(type) == IF type = "DUEL_LOSS" THEN -1 ELSE 1
TeamPoints(type) == IF type = "CLAIM_NEW" THEN 1 ELSE 0

PostBegin(p, u, type) ==
  /\ posting[p].phase = "idle" /\ u \in playing /\ season = "ongoing"
  /\ posting' = [posting EXCEPT ![p] = [phase |-> "open", by |-> u, type |-> type, late |-> FALSE]]
  /\ UNCHANGED <<ranked, season, playing, hof, dayLong, reader, farewell, faults, overtaken>>

(* The row refers to its user: without him the transaction is undone. *)
PostCommit(p) ==
  /\ posting[p].phase = "open"
  /\ posting' = [posting EXCEPT ![p] = IF @.by \in playing
       THEN [@ EXCEPT !.phase = "in", !.late = (season = "ended")] ELSE [Unposted EXCEPT !.phase = "void"]]
  /\ UNCHANGED <<ranked, season, playing, hof, dayLong, reader, farewell, faults, overtaken>>

InLedger == {p \in Postings : posting[p].phase = "in"}
PersonalScore(u) == SumFunction([p \in {q \in InLedger : posting[q].by = u} |-> PersonalPoints(posting[p].type)])
TeamScore(t) == SumFunction([p \in {q \in InLedger : SideOf[posting[q].by] = t} |-> TeamPoints(posting[p].type)])

(* Who is on the list and with how many points: users that have not left, and nobody at   *)
(* zero or below.                                                                         *)
Scores == {<<u, PersonalScore(u)>> : u \in playing}
SideScores == {<<t, TeamScore(t)>> : t \in Sides}
Fetched == {s \in IF ranked = "users" THEN Scores ELSE SideScores : s[2] > 0}

-----------------------------------------------------------------------------
(* getRanking. *)

(* The cache answers, or it misses, or it fails, which counts as a miss. *)
Look(r) ==
  /\ reader[r].phase = "idle"
  /\ \/ hof = NoList /\ UNCHANGED faults
     \/ hof # NoList /\ Fault
  /\ reader' = [reader EXCEPT ![r].phase = "clock"]
  /\ UNCHANGED <<ranked, season, playing, posting, hof, dayLong, farewell, overtaken>>

(* The clock is read before the rows: what was fetched while the season went on is never  *)
(* taken for its final ranking.                                                           *)
ClockLast == <<"fetch", "clock">>
ClockFirst == <<"clock", "fetch">>
ReadingOrder == ClockFirst
Step(r, k) == IF ReadingOrder[k] = "clock" THEN [reader[r] EXCEPT !.ended = (season = "ended")]
                                          ELSE [reader[r] EXCEPT !.rows = Fetched]

ReadFirst(r) ==
  /\ reader[r].phase = "clock"
  /\ reader' = [reader EXCEPT ![r] = [Step(r, 1) EXCEPT !.phase = "fetch"]]
  /\ UNCHANGED <<ranked, season, playing, posting, hof, dayLong, farewell, faults, overtaken>>

ReadSecond(r) ==
  /\ reader[r].phase = "fetch"
  /\ reader' = [reader EXCEPT ![r] = [Step(r, 2) EXCEPT !.phase = "write"]]
  /\ UNCHANGED <<ranked, season, playing, posting, hof, dayLong, farewell, faults, overtaken>>

(* The list goes to the cache whatever happened since it was fetched. *)
CacheRanking(r) ==
  /\ reader[r].phase = "write"
  /\ reader' = [reader EXCEPT ![r] = Away]
  /\ \/ /\ hof' = reader[r].rows /\ dayLong' = reader[r].ended
        /\ overtaken' = reader[r].cleared /\ UNCHANGED faults
     \/ Fault /\ UNCHANGED <<hof, dayLong, overtaken>>
  /\ UNCHANGED <<ranked, season, playing, posting, farewell>>

-----------------------------------------------------------------------------
(* A withdrawal: the row goes, then the cached rankings of users.  When that fails it is  *)
(* only logged.                                                                           *)

RemoveUser(u) ==
  /\ farewell[u] = "no"
  /\ playing' = playing \ {u}
  /\ farewell' = [farewell EXCEPT ![u] = "deleted"]
  /\ UNCHANGED <<ranked, season, posting, hof, dayLong, reader, faults, overtaken>>

InvalidateUserRanking(u) ==
  /\ farewell[u] = "deleted"
  /\ \/ /\ farewell' = [farewell EXCEPT ![u] = "done"]
        /\ UNCHANGED faults
        /\ reader' = [r \in Readers |-> IF reader[r].rows # NoList
                        THEN [reader[r] EXCEPT !.cleared = @ \union {u}] ELSE reader[r]]
        /\ IF ranked = "users" THEN hof' = NoList /\ dayLong' = FALSE /\ overtaken' = {}
                               ELSE UNCHANGED <<hof, dayLong, overtaken>>
     \/ /\ Fault
        /\ farewell' = [farewell EXCEPT ![u] = "failed"]
        /\ UNCHANGED <<hof, dayLong, reader, overtaken>>
  /\ UNCHANGED <<ranked, season, playing, posting>>

-----------------------------------------------------------------------------
SeasonEnds ==
  /\ season = "ongoing"
  /\ season' = "ended"
  /\ UNCHANGED <<ranked, playing, posting, hof, dayLong, reader, farewell, faults, overtaken>>

RankingLapses ==
  /\ hof # NoList
  /\ hof' = NoList /\ dayLong' = FALSE /\ overtaken' = {}
  /\ UNCHANGED <<ranked, season, playing, posting, reader, farewell, faults>>

RankingsNext ==
  \/ \E p \in Postings : PostCommit(p) \/ \E u \in Players, e \in Entries : PostBegin(p, u, e)
  \/ \E r \in Readers : Look(r) \/ ReadFirst(r) \/ ReadSecond(r) \/ CacheRanking(r)
  \/ \E u \in Players : RemoveUser(u) \/ InvalidateUserRanking(u)
  \/ SeasonEnds \/ RankingLapses

RankingsSpec == RankingsInit /\ [][RankingsNext]_rankingsVars

-----------------------------------------------------------------------------
Lists == SUBSET ((Players \union Sides) \X (1..Cardinality(Postings)))

RankingsTypeOK ==
  /\ ranked \in {"users", "teams"} /\ season \in {"ongoing", "ended"} /\ playing \subseteq Players
  /\ posting \in [Postings -> [phase : {"idle", "open", "in", "void"}, by : Players \union {"none"},
                               type : Entries \union {"none"}, late : BOOLEAN]]
  /\ hof \in Lists \union {NoList} /\ dayLong \in BOOLEAN
  /\ reader \in [Readers -> [phase : {"idle", "clock", "fetch", "write"}, ended : BOOLEAN,
                             rows : Lists \union {NoList}, cleared : SUBSET Players]]
  /\ farewell \in [Players -> {"no", "deleted", "done", "failed"}]
  /\ faults \in 0..MaxFaults /\ overtaken \subseteq Players

(* A ranking that is cached for a day is the final one of its season: nobody who still    *)
(* plays, and no team, has another score in the ledger.  Excepted is whoever has a row    *)
(* whose transaction had begun in the season and was committed after its end.             *)
Straddled(who) == \E p \in InLedger : posting[p].late /\ who \in {posting[p].by, SideOf[posting[p].by]}
FinalRankingIsFinal ==
  dayLong => \A s \in (Fetched \ hof) \union (hof \ Fetched) :
               Straddled(s[1]) \/ s[1] \in Players \ playing

(* A user whose withdrawal has cleared the cache is on no ranking, but for one that was   *)
(* fetched before the user was deleted and cached after the key was cleared.              *)
WithdrawnIsNotRanked ==
  hof # NoList /\ ranked = "users"
    => \A s \in hof : farewell[s[1]] = "done" => s[1] \in overtaken

(* The day-long ranking is final, and who has withdrawn is on none. *)
CachedRankingHolds == FinalRankingIsFinal /\ WithdrawnIsNotRanked
=============================================================================
