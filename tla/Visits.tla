------------------------------- MODULE Visits -------------------------------
(***************************************************************************)
(* What happens to one spot: claims of it (claims/claims.service.ts), the  *)
(* photo and review missions done there (missions/missions.service.ts),    *)
(* and the aggregation that gives its district to a team.                  *)
(*                                                                         *)
(* Every attempt runs the same course: checks, a daily key in Redis, for a *)
(* claim the defence key of the spot, one transaction, and, when that      *)
(* fails, the return of what was taken in Redis.  An attempt's phase is    *)
(* the next call it makes to Redis, the object store or the database, so   *)
(* attempts interleave between any two awaits.  An attempt is also the     *)
(* token of its daily key and the name of its image.                       *)
(***************************************************************************)
EXTENDS Integers, FiniteSets, Sequences, FiniteSetsExt

CONSTANTS
  Visitors,    \* users
  Attempts,    \* requests, of any user and kind
  Asked,       \* the kinds of request that are made
  Teams,
  TeamOf,      \* the team of every visitor
  HeldBefore,  \* who holds the district at the start, or None
  MaxEvents    \* what happens besides: failing calls, crashes, lapses, midnights, removals

None == "none"
Kinds == {"claim", "photo", "review"}

ASSUME VisitsAssumption ==
  /\ Asked \subseteq Kinds
  /\ TeamOf \in [Visitors -> Teams]
  /\ HeldBefore \in Teams \union {None}
  /\ None \notin Attempts \union Visitors \union Teams
  /\ MaxEvents \in Nat

VARIABLES
  asked,      \* bound: the kind of request this behaviour is about
  users,      \* rows of users
  spot,       \* the spot's row exists
  holder,     \* team of the row of spot_claims
  window,     \* claim events of score_events of the last 12 hours, oldest first
  district,   \* team of the row of district_claims
  snapshot,   \* newest row of district_claim_history
  stored,     \* attempts whose transaction has committed
  objects,    \* images in the bucket
  day,        \* the KST day
  penalty,    \* users with a penalty key
  gate,       \* daily keys, by user and kind: the token, or None
  checkedIn,  \* users with an open visit window
  defence,    \* team of the defence key
  att,        \* the attempts
  events,     \* events left
  lost,       \* history: what was not given back because the giving back failed
  earned      \* history: a claim of its team was stored while the defence key lived

visitVars == <<asked, users, spot, holder, window, district, snapshot, stored, objects, day,
               penalty, gate, checkedIn, defence, att, events, lost, earned>>

TEAM_BASE_NEW == 100
TEAM_BASE_REVISIT == 30

Fresh == [phase |-> "idle", user |-> None, kind |-> None, day |-> 0, created |-> FALSE,
          type |-> None, answer |-> None]

VisitsInit ==
  /\ asked \in Asked /\ users = Visitors /\ spot = TRUE /\ holder = None /\ window = <<>>
  /\ district = HeldBefore /\ snapshot = [team |-> None, score |-> 0]
  /\ stored = {} /\ objects = {} /\ day = 0 /\ penalty = {} /\ checkedIn = {}
  /\ gate = [u \in Visitors |-> [k \in Kinds |-> None]]
  /\ defence = None /\ att = [a \in Attempts |-> Fresh]
  /\ events = MaxEvents /\ lost = {} /\ earned = FALSE

Me(a) == att[a].user
MyTeam(a) == TeamOf[Me(a)]
InFlight(a) == att[a].phase \notin {"idle", "done"}
At(a, p) == att[a].phase = p

GoTo(a, p) == att' = [att EXCEPT ![a].phase = p]
(* Of an attempt that failed only its kind and its answer are kept. *)
Ended(a, r) == [Fresh EXCEPT !.phase = "done", !.kind = att[a].kind, !.answer = r]
Answer(a, r) == att' = [att EXCEPT ![a] = Ended(a, r)]
(* The first thing to take back when a step inside the try block throws. *)
UndoFromGate(a, r) == att' = [att EXCEPT ![a].phase = "undoGate", ![a].answer = r]
UndoFromDefence(a, r) == att' = [att EXCEPT ![a].phase = "undoDefence", ![a].answer = r]
UndoFrom(a, r) ==
  att' = [att EXCEPT ![a].phase = IF att[a].created THEN "undoDefence" ELSE "undoGate",
                     ![a].answer = r]

database == <<asked, users, spot, holder, window, district, snapshot, stored>>
keys == <<penalty, gate, checkedIn, defence>>
history == <<events, lost, earned>>
happened == <<lost, earned>>
Happens == events > 0 /\ events' = events - 1

-----------------------------------------------------------------------------
(* The request, up to its daily key. *)

(* A registered user asks.  A claim needs a user without a penalty within 50 m of an      *)
(* existing spot, a mission the visit window of a check-in, a photo a known image format. *)
(* These are reads of facts that only get worse, so one step stands for all of them; the  *)
(* refusal of distance or format is always possible.  Kinds share no key and no row, so a *)
(* behaviour has attempts of one kind.                                                    *)
Welcome(u, k) == IF k = "claim" THEN u \notin penalty /\ spot ELSE u \in checkedIn
Refusal(k) == IF k = "claim" /\ ~spot THEN "noSpot" ELSE "failed"
Ask(a) ==
  /\ At(a, "idle")
  /\ \/ \E u \in users :
          /\ Welcome(u, asked)
          /\ att' = [att EXCEPT ![a] = [Fresh EXCEPT !.phase = "gate", !.user = u, !.kind = asked]]
     \/ /\ users # {}
        /\ att' = [att EXCEPT ![a] = [Fresh EXCEPT !.phase = "done", !.kind = asked,
                                                  !.answer = Refusal(asked)]]
  /\ UNCHANGED <<database, keys, objects, day, history>>

(* A claim has its defence key to take next, a photo its image to upload; a review has    *)
(* nothing but its transaction.                                                           *)
FirstStep(k) == CASE k = "claim" -> "defend" [] k = "photo" -> "upload" [] OTHER -> "commit"

(* SET NX with a token of its own, until midnight. *)
Gate(a) ==
  /\ At(a, "gate")
  /\ IF gate[Me(a)][att[a].kind] = None
       THEN /\ gate' = [gate EXCEPT ![Me(a)][att[a].kind] = a]
            /\ att' = [att EXCEPT ![a].day = day, ![a].phase = FirstStep(att[a].kind)]
       ELSE gate' = gate /\ Answer(a, "failed")
  /\ UNCHANGED <<database, objects, day, penalty, checkedIn, defence, history>>

-----------------------------------------------------------------------------
(* A claim: the defence key, the second look at the penalty, the transaction. *)

Defend(a) ==
  /\ At(a, "defend")
  /\ CASE defence = None ->
            /\ defence' = MyTeam(a) /\ earned' = FALSE
            /\ att' = [att EXCEPT ![a].phase = "recheck", ![a].created = TRUE]
       [] defence = MyTeam(a) -> GoTo(a, "recheck") /\ UNCHANGED <<defence, earned>>
       [] OTHER -> UndoFrom(a, "failed") /\ UNCHANGED <<defence, earned>>
  /\ UNCHANGED <<database, objects, day, penalty, gate, checkedIn, events, lost>>

Recheck(a) ==
  /\ At(a, "recheck")
  /\ IF Me(a) \in penalty THEN UndoFrom(a, "failed") ELSE GoTo(a, "transact")
  /\ UNCHANGED <<database, keys, objects, day, history>>

(* The call that looks at the penalty throws: only the outer catch runs, and it gives    *)
(* back the daily key but not a defence key.                                             *)
RecheckFails(a) ==
  /\ At(a, "recheck") /\ Happens
  /\ att' = [att EXCEPT ![a].phase = "undoGate", ![a].answer = "failed"]
  /\ lost' = IF att[a].created THEN lost \union {"defence"} ELSE lost
  /\ UNCHANGED <<database, keys, objects, day, earned>>

(* Under the advisory lock of user and spot the transaction reads who holds the spot. *)
ClaimRead(a) ==
  /\ At(a, "transact")
  /\ \A b \in Attempts : ~(At(b, "commit") /\ att[b].kind = "claim" /\ Me(b) = Me(a))
  /\ att' = [att EXCEPT ![a].phase = "commit",
                        ![a].type = IF holder = MyTeam(a) THEN "CLAIM_REVISIT" ELSE "CLAIM_NEW"]
  /\ UNCHANGED <<database, keys, objects, day, history>>

Points(type) == IF type = "CLAIM_NEW" THEN TEAM_BASE_NEW ELSE TEAM_BASE_REVISIT

(* Rows of the claim or mission, of the ledger and the user's score, in one commit.  A   *)
(* district of weight 0 earns nothing, and then the ledger has no row; a mission earns no *)
(* points for the team.                                                                  *)
AwardBonus == UNCHANGED <<holder, window, earned>>
StoreClaim(a) ==
  /\ holder' = MyTeam(a)
  /\ \/ window' = Append(window, [team |-> MyTeam(a), points |-> Points(att[a].type)])
     \/ window' = window
  /\ earned' = (earned \/ defence = MyTeam(a))
Commit(a) ==
  /\ At(a, "commit") /\ spot /\ Me(a) \in users
  /\ stored' = stored \union {a}
  /\ att' = [att EXCEPT ![a].phase = "done", ![a].answer = "ok"]
  /\ IF att[a].kind = "claim" THEN StoreClaim(a) ELSE AwardBonus
  /\ UNCHANGED <<asked, users, spot, district, snapshot, keys, objects, day, events, lost>>

(* What a violated foreign key is reported as: a claim takes it for the spot, a mission  *)
(* looks which of the two rows is gone.                                                  *)
Missing(a) == IF att[a].kind = "claim" \/ ~spot THEN "noSpot" ELSE "noUser"
CommitMissing(a) ==
  /\ At(a, "commit") /\ ~(spot /\ Me(a) \in users)
  /\ UndoFrom(a, Missing(a))
  /\ UNCHANGED <<database, keys, objects, day, history>>

(* The defence call, the upload, the transaction or anything before it throws. *)
StepFails(a) ==
  /\ att[a].phase \in {"defend", "upload", "transact", "commit"} /\ Happens
  /\ UndoFrom(a, "failed")
  /\ UNCHANGED <<database, keys, objects, day, lost, earned>>

(* The image goes to the bucket before the transaction that stores its URL. *)
Upload(a) ==
  /\ At(a, "upload")
  /\ objects' = objects \union {a}
  /\ GoTo(a, "commit")
  /\ UNCHANGED <<database, keys, day, history>>

-----------------------------------------------------------------------------
(* Taking back. Each of these calls may fail, which is only logged. *)

UndoDefence(a) ==
  /\ At(a, "undoDefence")
  /\ \/ defence' = None /\ UNCHANGED <<events, lost>>
     \/ Happens /\ lost' = lost \union {"defence"} /\ UNCHANGED defence
  /\ GoTo(a, "undoGate")
  /\ UNCHANGED <<database, objects, day, penalty, gate, checkedIn, earned>>

(* The daily key is deleted only while it holds the token of this attempt. *)
Whoever(a) == TRUE
Mine(a) == gate[Me(a)][att[a].kind] = a
UndoGate(a) ==
  /\ At(a, "undoGate")
  /\ \/ /\ gate' = IF Mine(a) THEN [gate EXCEPT ![Me(a)][att[a].kind] = None] ELSE gate
        /\ UNCHANGED <<events, lost>>
     \/ Happens /\ lost' = lost \union {"gate"} /\ UNCHANGED gate
  /\ IF a \in objects THEN GoTo(a, "undoImage") ELSE Answer(a, att[a].answer)
  /\ UNCHANGED <<database, objects, day, penalty, checkedIn, defence, earned>>

UndoImage(a) ==
  /\ At(a, "undoImage")
  /\ \/ objects' = objects \ {a} /\ UNCHANGED <<events, lost>>
     \/ Happens /\ lost' = lost \union {"image"} /\ UNCHANGED objects
  /\ Answer(a, att[a].answer)
  /\ UNCHANGED <<database, keys, day, earned>>

-----------------------------------------------------------------------------
(* The aggregation, twice a day. *)

ScoreIn(w, t) ==
  LET points == [i \in DOMAIN w |-> w[i].points]
  IN  MapThenSumSet(LAMBDA i : points[i], {i \in DOMAIN w : w[i].team = t})
Scored(w) == {w[i].team : i \in DOMAIN w}
FirstEvent(w, t) == CHOOSE i \in DOMAIN w : w[i].team = t /\ \A j \in 1..i - 1 : w[j].team # t

(* The team with the most points of the window; of equal ones the present holder, and    *)
(* otherwise the one that scored first.                                                  *)
Winner(w, current) ==
  LET best == {t \in Scored(w) : \A o \in Scored(w) : ScoreIn(w, o) <= ScoreIn(w, t)}
  IN  IF current \in best THEN current
      ELSE CHOOSE t \in best : \A o \in best : FirstEvent(w, t) <= FirstEvent(w, o)

Aggregate ==
  /\ Happens
  /\ district' = IF window = <<>> THEN district ELSE Winner(window, district)
  /\ snapshot' = IF district' = None THEN snapshot
                 ELSE [team |-> district', score |-> ScoreIn(window, district')]
  /\ UNCHANGED <<asked, users, spot, holder, window, stored, keys, objects, day, att, happened>>

WindowPasses ==
  /\ Happens
  /\ window # <<>>
  /\ window' = Tail(window)
  /\ UNCHANGED <<asked, users, spot, holder, district, snapshot, stored, keys, objects, day, att, happened>>

-----------------------------------------------------------------------------
(* The world around: check-ins, keys that lapse, midnight, penalties, rows that go. *)

CheckIn(u) ==
  /\ u \in users /\ spot /\ asked # "claim"
  /\ checkedIn' = checkedIn \union {u}
  /\ UNCHANGED <<database, penalty, gate, defence, objects, day, att, history>>

VisitWindowLapses(u) ==
  /\ Happens
  /\ u \in checkedIn
  /\ checkedIn' = checkedIn \ {u}
  /\ UNCHANGED <<database, penalty, gate, defence, objects, day, att, happened>>

(* A duel lost (resolveDuel of the duel service), and the end of its penalty. *)
Penalty(u) ==
  /\ Happens
  /\ asked = "claim" /\ u \in users
  /\ penalty' = IF u \in penalty THEN penalty \ {u} ELSE penalty \union {u}
  /\ UNCHANGED <<database, gate, checkedIn, defence, objects, day, att, happened>>

DefenceLapses ==
  /\ Happens
  /\ defence # None
  /\ defence' = None
  /\ UNCHANGED <<database, penalty, gate, checkedIn, objects, day, att, happened>>

(* Every daily key was given the seconds left of its day. *)
NoGates == [u \in Visitors |-> [k \in Kinds |-> None]]
Midnight ==
  /\ Happens
  /\ day' = day + 1
  /\ gate' = NoGates
  /\ UNCHANGED <<database, penalty, checkedIn, defence, objects, att, happened>>

(* The seed removes a spot of the old import, of which no user has left a record. *)
SpotRemoved ==
  /\ Happens
  /\ spot /\ stored = {}
  /\ spot' = FALSE
  /\ UNCHANGED <<asked, users, holder, window, district, snapshot, stored, keys, objects, day, att, happened>>

UserRemoved(u) ==
  /\ Happens
  /\ u \in users
  /\ users' = users \ {u}
  /\ UNCHANGED <<asked, spot, holder, window, district, snapshot, stored, keys, objects, day, att, happened>>

PurgeUserKeys(u) ==
  /\ u \notin users
  /\ u \in penalty \union checkedIn \/ gate[u] # NoGates[u]
  /\ gate' = [gate EXCEPT ![u] = NoGates[u]]
  /\ penalty' = penalty \ {u} /\ checkedIn' = checkedIn \ {u}
  /\ UNCHANGED <<database, defence, objects, day, att, history>>

(* The process dies: attempts in flight vanish and nothing of theirs is given back. *)
Crash ==
  /\ Happens /\ \E a \in Attempts : InFlight(a)
  /\ lost' = {"defence", "gate", "image"}
  /\ att' = [a \in Attempts |-> IF InFlight(a) THEN Ended(a, None) ELSE att[a]]
  /\ UNCHANGED <<database, keys, objects, day, earned>>

VisitsNext ==
  \/ \E a \in Attempts : \/ Ask(a) \/ Gate(a)
                         \/ Defend(a) \/ Recheck(a) \/ RecheckFails(a) \/ ClaimRead(a)
                         \/ Commit(a) \/ CommitMissing(a) \/ StepFails(a) \/ Upload(a)
                         \/ UndoDefence(a) \/ UndoGate(a) \/ UndoImage(a)
  \/ \E u \in Visitors : \/ CheckIn(u) \/ VisitWindowLapses(u) \/ Penalty(u)
                         \/ UserRemoved(u) \/ PurgeUserKeys(u)
  \/ Aggregate \/ WindowPasses \/ DefenceLapses \/ Midnight \/ SpotRemoved \/ Crash

VisitsSpec == VisitsInit /\ [][VisitsNext]_visitVars

-----------------------------------------------------------------------------
VisitsTypeOK ==
  /\ asked \in Asked /\ users \subseteq Visitors /\ spot \in BOOLEAN /\ holder \in Teams \union {None}
  /\ window \in Seq([team : Teams, points : {TEAM_BASE_NEW, TEAM_BASE_REVISIT}])
  /\ district \in Teams \union {None}
  /\ snapshot \in [team : Teams \union {None}, score : Nat]
  /\ stored \subseteq Attempts /\ objects \subseteq Attempts
  /\ day \in 0..MaxEvents /\ penalty \subseteq Visitors /\ checkedIn \subseteq Visitors
  /\ gate \in [Visitors -> [Kinds -> Attempts \union {None}]]
  /\ defence \in Teams \union {None}
  /\ att \in [Attempts ->
       [phase : {"idle", "gate", "defend", "recheck", "transact", "upload",
                 "commit", "undoDefence", "undoGate", "undoImage", "done"},
        user : Visitors \union {None}, kind : Kinds \union {None}, day : 0..MaxEvents,
        created : BOOLEAN, type : {None, "CLAIM_NEW", "CLAIM_REVISIT"},
        answer : {None, "ok", "failed", "noSpot", "noUser"}]]
  /\ events \in 0..MaxEvents /\ lost \subseteq {"defence", "gate", "image"} /\ earned \in BOOLEAN

(* A user claims a spot, or does a mission of one kind there, once a day at most, even    *)
(* when an attempt of yesterday gives its key back after midnight.                        *)
OncePerDay ==
  \A a, b \in stored : Me(a) = Me(b) /\ att[a].kind = att[b].kind /\ att[a].day = att[b].day
                       => a = b

(* An attempt that failed does not use up the day: the daily key is that of an attempt    *)
(* still running or of one that was stored, unless giving it back failed.                 *)
GateIsUsed ==
  "gate" \in lost
  \/ \A u \in Visitors, k \in Kinds : \A a \in Attempts :
       gate[u][k] = a => InFlight(a) \/ a \in stored

(* A team defends a spot only with a claim: one that was stored while the defence key     *)
(* lived, or one that still runs.                                                         *)
DefenceIsEarned ==
  "defence" \in lost \/ defence = None \/ earned
  \/ \E a \in Attempts : att[a].phase \in {"recheck", "transact", "commit", "undoDefence"}
                         /\ att[a].kind = "claim" /\ MyTeam(a) = defence

(* Images and rows agree: the image of a stored photo is kept, and that of an attempt     *)
(* that failed is removed, unless the removal failed.                                     *)
ImagesMatchRows ==
  /\ \A a \in stored : att[a].kind = "photo" => a \in objects
  /\ "image" \in lost \/ \A a \in objects : a \in stored \/ InFlight(a)

(* An attempt that failed leaves nothing behind, in Redis or in the bucket, whichever     *)
(* step failed, and the image of a stored photo stays (the undo steps of visit and of the *)
(* missions).  What the undo of one claim does to the defence of another is told by the   *)
(* property below.                                                                        *)
FailedVisitLeavesNothing == GateIsUsed /\ DefenceIsEarned /\ ImagesMatchRows

(* A failing visit does not void a defence that goes on: the key a stored claim relies on *)
(* ends with its time, and no claim that found it there takes it away (the undo of visit, *)
(* `defense.created`).  Excepted is a claim that had created a key: its undo deletes      *)
(* whatever key is there, also when a colleague's claim passed on it and was stored, or   *)
(* the key is a later one.                                                                *)
TakesBack(a) == At(a, "undoDefence") /\ att[a].created
EarnedDefenceStays ==
  [][earned /\ defence # None /\ defence' = None =>
       events' < events \/ \E a \in Attempts : TakesBack(a) /\ ~At(a, "undoDefence")']_visitVars
=============================================================================
