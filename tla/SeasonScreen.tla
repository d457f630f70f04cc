---------------------------- MODULE SeasonScreen ----------------------------
(***************************************************************************)
(* The season ranking (frontend/src: hooks/use-season-ranking.ts,          *)
(* app/(main)/ranking/index.tsx, api/ranking.ts): the arrows walk through  *)
(* the seasons while answers of seasons asked for before are still to      *)
(* come, a season ends meanwhile, and the last ranking stays on the screen *)
(* as a placeholder until the next is there.                               *)
(*                                                                         *)
(* External: the query library keeps an answer by scope and season, shows  *)
(* the last one of a scope while another is pending, none if that one has  *)
(* failed, and forgets what nobody looks at.                               *)
(***************************************************************************)
EXTENDS Integers, FiniteSets

CONSTANTS
  FirstSeason,   \* the season that runs at the beginning
  LastSeason,    \* and the last one that begins
  MaxSteps,      \* taps on the arrows and on the link back
  MaxFetches     \* queries under way at one time

ASSUME SeasonAssumption == /\ {FirstSeason, LastSeason, MaxSteps, MaxFetches} \subseteq Nat
                           /\ 1 <= FirstSeason /\ FirstSeason <= LastSeason

Scopes == {"teams", "users"}
Current == -100                                    \* no number: null, and the key "current"
Keys == {Current} \union (1 - MaxSteps)..LastSeason
Missing == [season |-> Current, ended |-> FALSE]   \* undefined

VARIABLES
  season,     \* the season that runs
  scope,      \* the segment that is active
  selected,   \* selectedSeason
  knownSeason,      \* currentSeasonNumber
  cache,      \* by scope and key
  last,       \* what a scope showed last: its placeholder
  failed,     \* queries that failed and hold nothing
  fetches,    \* under way; once the server has answered, with the answer
  current,    \* history: the seasons the server has called the current one
  steps       \* taps left

seasonVars == <<season, scope, selected, knownSeason, cache, last, failed, fetches, current, steps>>

SeasonInit ==
  /\ season = FirstSeason /\ scope = "teams" /\ selected = Current /\ knownSeason = Current
  /\ cache = [s \in Scopes |-> [k \in Keys |-> Missing]] /\ last = [s \in Scopes |-> Missing]
  /\ failed = {} /\ fetches = {} /\ current = {} /\ steps = MaxSteps

-----------------------------------------------------------------------------
(* What the screen has: computeSeasonNavState.                                            *)

Answer == cache[scope][selected]
Data == IF Answer # Missing \/ <<scope, selected>> \in failed THEN Answer ELSE last[scope]
IsPlaceholder == Answer = Missing
DisplaySeason == IF selected # Current THEN selected ELSE IF knownSeason # Current THEN knownSeason ELSE Data.season
CanGoPrevious == Data # Missing /\ Data.season > 1
CanGoNext == Data.ended
IsLiveSeason == selected = Current \/ (Data # Missing /\ ~Data.ended)

(* computeCurrentSeasonNumberUpdate: only an answer, not a placeholder, to the query       *)
(* without a number says which season is the current one.                                 *)
KnownByData == IF selected' = Current /\ Data' # Missing THEN Data'.season ELSE knownSeason
KnownByAnswer == IF selected' = Current /\ ~IsPlaceholder' THEN Data'.season ELSE knownSeason
Renders ==
  /\ last' = [s \in Scopes |-> IF cache'[s][selected'] # Missing THEN cache'[s][selected'] ELSE last[s]]
  /\ knownSeason' = KnownByAnswer

-----------------------------------------------------------------------------
(* Taps.                                                                                  *)

Steps == steps > 0 /\ steps' = steps - 1 /\ UNCHANGED <<season, cache, failed, fetches, current>>

GoToPrevious ==
  /\ CanGoPrevious /\ Steps /\ UNCHANGED scope
  /\ selected' = DisplaySeason - 1 /\ Renders

ResolveNextSeason(n) == IF knownSeason # Current /\ n + 1 >= knownSeason THEN Current ELSE n + 1
GoToNext ==
  /\ CanGoNext /\ Steps /\ UNCHANGED scope
  /\ selected' = ResolveNextSeason(DisplaySeason) /\ Renders

BackToCurrent ==
  /\ ~IsLiveSeason /\ Steps /\ UNCHANGED scope
  /\ selected' = Current /\ Renders

ChangesScope ==
  /\ Steps /\ scope' \in Scopes \ {scope} /\ UNCHANGED selected /\ Renders

-----------------------------------------------------------------------------
(* Queries: on a new key, by the poll, on the return to the screen.                       *)

Fetches ==
  /\ Cardinality(fetches) < MaxFetches
  /\ \A f \in fetches : <<f.scope, f.key>> # <<scope, selected>>
  /\ fetches' = fetches \union {[scope |-> scope, key |-> selected, answer |-> Missing]}
  /\ UNCHANGED <<season, scope, selected, knownSeason, cache, last, failed, current, steps>>

(* External: the server answers for the season asked for, or for the one that runs. *)
ServesSeason ==
  /\ \E f \in fetches :
       LET n == IF f.key = Current THEN season ELSE f.key IN
       /\ f.answer = Missing /\ n \in 1..season
       /\ fetches' = (fetches \ {f}) \union {[f EXCEPT !.answer = [season |-> n, ended |-> n < season]]}
       /\ current' = IF f.key = Current THEN current \union {n} ELSE current
  /\ UNCHANGED <<season, scope, selected, knownSeason, cache, last, failed, steps>>

FetchEnds ==
  /\ \E f \in fetches :
       /\ fetches' = fetches \ {f}
       /\ IF f.answer # Missing
            THEN /\ cache' = [cache EXCEPT ![f.scope][f.key] = f.answer]
                 /\ failed' = failed \ {<<f.scope, f.key>>}
            ELSE /\ failed' = IF cache[f.scope][f.key] = Missing
                                THEN failed \union {<<f.scope, f.key>>} ELSE failed
                 /\ UNCHANGED cache
  /\ UNCHANGED <<season, scope, selected, current, steps>> /\ Renders

(* Both scopes look at the selected season. *)
Forgets ==
  /\ \E s \in Scopes, k \in Keys \ {selected} :
       /\ cache[s][k] # Missing \/ <<s, k>> \in failed
       /\ cache' = [cache EXCEPT ![s][k] = Missing] /\ failed' = failed \ {<<s, k>>}
  /\ UNCHANGED <<season, scope, selected, knownSeason, last, fetches, current, steps>>

SeasonEnds ==
  /\ season < LastSeason /\ season' = season + 1
  /\ UNCHANGED <<scope, selected, knownSeason, cache, last, failed, fetches, current, steps>>

SeasonNext ==
  \/ GoToPrevious \/ GoToNext \/ BackToCurrent \/ ChangesScope
  \/ Fetches \/ ServesSeason \/ FetchEnds \/ Forgets \/ SeasonEnds

SeasonSpec == SeasonInit /\ [][SeasonNext]_seasonVars

-----------------------------------------------------------------------------
SeasonTypeOK ==
  /\ season \in FirstSeason..LastSeason /\ scope \in Scopes /\ selected \in Keys
  /\ knownSeason \in {Current} \union 1..LastSeason /\ current \subseteq 1..LastSeason
  /\ \A s \in Scopes : last[s] = Missing \/ last[s].season \in 1..LastSeason
  /\ \A s \in Scopes, k \in Keys : cache[s][k] = Missing \/ cache[s][k].season \in 1..LastSeason
  /\ failed \subseteq Scopes \X Keys /\ steps \in 0..MaxSteps

(* Whatever the taps and the answers overlap: a ranking that is not a placeholder stands   *)
(* under its own number; the number taken for the current season is one the server has     *)
(* called so; and a season chosen by its number is an earlier one, so that the current one *)
(* is not also asked for, and polled, by its number, and the way forward leads back to it. *)
RankingUnderItsNumber ==
  /\ Answer # Missing => DisplaySeason = Answer.season
  /\ knownSeason # Current => knownSeason \in current
  /\ selected # Current => knownSeason # Current /\ selected < knownSeason
  /\ selected # Current /\ Answer # Missing => CanGoNext
=============================================================================
