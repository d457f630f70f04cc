------------------------------ MODULE SpotSeed -------------------------------
(***************************************************************************)
(* The seed of the spots (backend/scripts/seed-spots-csv.ts): a file is    *)
(* checked as a whole and upserted in one transaction, and when at least   *)
(* one row has gone in, spots left over from an older source are deleted,  *)
(* but for those that some user has a claim, a photo or a review of.  It   *)
(* may be started again, and users go on visiting while it runs.           *)
(*                                                                         *)
(* The statement that deletes chooses its rows from a snapshot and waits   *)
(* for transactions that refer to one of them; the foreign keys delete     *)
(* what refers to a deleted spot.                                          *)
(***************************************************************************)
EXTENDS Integers, FiniteSets, Sequences, Functions

CONSTANTS
  SpotRows,     \* rows a file may have
  MaxSpotRows,  \* rows of one file
  Prefixed,     \* keys that are LIKE 'MISSION%'
  Legacy,       \* keys of the older source
  Posts,        \* transactions of users that store a record of a spot
  MaxSeeds      \* times the seed is started

ASSUME SpotSeedAssumption ==
  /\ SpotRows \subseteq [id : STRING, titled : BOOLEAN, code : {"valid", "bad"}]
  /\ {MaxSpotRows, MaxSeeds} \subseteq Nat \ {0}
  /\ Legacy \subseteq STRING \ Prefixed /\ IsFiniteSet(Legacy) /\ Legacy # {}   \* it has filled the map

Keys == Legacy \union ({r.id : r \in SpotRows} \ {""})
RecordKinds == {"claim", "photo", "review"}   \* the tables with a foreign key to spots that cascades
Gone == 0

VARIABLES
  spotId,    \* the row of spots with a key: its id, or Gone
  codes,     \* whether its code is one of the districts', or of the older form, like "6-2"
  spotIds,   \* ids given out
  records,   \* committed records of users
  post,      \* the transactions of users
  run,       \* the run of the seed
  runs,      \* times it was started
  swept,     \* history: records that went with a deleted spot
  misnamed   \* history: the file last cleaned up after had no usable row with the prefix

spotSeedVars == <<spotId, codes, spotIds, records, post, run, runs, swept, misnamed>>

Unrun == [phase |-> "idle", dry |-> FALSE, file |-> <<>>, stale |-> {}, locked |-> {}]
NoPost == [phase |-> "idle", kind |-> "claim", spot |-> Gone, beside |-> FALSE]
RecordOf(p) == [by |-> p, kind |-> post[p].kind, spot |-> post[p].spot]

SpotSeedInit ==
  /\ LET number == CHOOSE f \in [Legacy -> 1..Cardinality(Legacy)] : IsInjective(f)
     IN  spotId = [c \in Keys |-> IF c \in Legacy THEN number[c] ELSE Gone]
  /\ codes = [c \in Keys |-> "legacy"] /\ spotIds = Cardinality(Legacy)
  /\ records = {} /\ swept = {} /\ runs = 0 /\ misnamed = FALSE
  /\ post = [p \in Posts |-> NoPost] /\ run = Unrun

-----------------------------------------------------------------------------
(* A user's transaction.  The new record holds its spot until the end; while the spot is  *)
(* being deleted it waits, and fails when the spot is gone.                               *)

LooksUp(p) ==
  /\ post[p].phase = "idle"
  /\ \E c \in Keys, k \in RecordKinds :
       /\ spotId[c] # Gone
       /\ post' = [post EXCEPT ![p] = [NoPost EXCEPT !.phase = "found", !.kind = k, !.spot = spotId[c]]]
  /\ UNCHANGED <<spotId, codes, spotIds, records, run, runs, swept, misnamed>>

There(s) == \E c \in Keys : spotId[c] = s
InsertsRecord(p) ==
  /\ post[p].phase = "found" /\ post[p].spot \notin run.locked
  /\ post' = [post EXCEPT ![p].phase = IF There(post[p].spot) THEN "open" ELSE "refused",
                          ![p].beside = run.phase = "delete"]
  /\ UNCHANGED <<spotId, codes, spotIds, records, run, runs, swept, misnamed>>

EndsPost(p) ==
  /\ post[p].phase = "open"
  /\ \/ /\ post' = [post EXCEPT ![p].phase = "stored"]
        /\ records' = records \union {RecordOf(p)}
     \/ /\ post' = [post EXCEPT ![p].phase = "refused"]
        /\ UNCHANGED records
  /\ UNCHANGED <<spotId, codes, spotIds, run, runs, swept, misnamed>>

-----------------------------------------------------------------------------
(* main. *)

SpotFiles == UNION {[1..n -> SpotRows] : n \in 1..MaxSpotRows}
Storable(file) == {file[i] : i \in {j \in DOMAIN file : file[j].id # "" /\ file[j].titled}}
NoDuplicates(file) == \A j, k \in DOMAIN file : file[j].id # "" /\ file[j].id = file[k].id => j = k

(* loadMissionRows, findDuplicateMissionIds: no row is asked for the prefix of its key. *)
Loads ==
  /\ run.phase \in {"idle", "ended", "failed"} /\ runs < MaxSeeds
  /\ runs' = runs + 1
  /\ \E file \in SpotFiles, dry \in BOOLEAN :
       run' = IF NoDuplicates(file) THEN [Unrun EXCEPT !.phase = "upsert", !.dry = dry, !.file = file]
                                     ELSE [Unrun EXCEPT !.phase = "failed"]
  /\ UNCHANGED <<spotId, codes, spotIds, records, post, swept, misnamed>>

(* A code that is none of the districts' fails the whole transaction, as does anything    *)
(* else; a commit that is reported as failed may have succeeded.                          *)
Applies(rows) ==
  LET keys == {r.id : r \in rows}
      fresh == {c \in keys : spotId[c] = Gone}
      number == CHOOSE f \in [fresh -> spotIds + 1..spotIds + Cardinality(fresh)] : IsInjective(f)
  IN  /\ spotId' = [c \in Keys |-> IF c \in fresh THEN number[c] ELSE spotId[c]]
      /\ codes' = [c \in Keys |-> IF c \in keys THEN "valid" ELSE codes[c]]
      /\ spotIds' = spotIds + Cardinality(fresh)

(* Nothing is cleaned up after a file of which no row was of use. *)
Always(rows) == TRUE
GoesOnWith(rows) == rows # {}
Misnames(rows) == rows # {} /\ \A r \in rows : r.id \notin Prefixed
UpsertSpots ==
  /\ run.phase = "upsert"
  /\ LET rows == Storable(run.file)
         good == \A r \in rows : r.code = "valid"
     IN  \/ /\ good /\ ~run.dry /\ Applies(rows)
            /\ \/ /\ GoesOnWith(rows)
                  /\ run' = [Unrun EXCEPT !.phase = "clean"]
                  /\ misnamed' = Misnames(rows)
               \/ run' = [Unrun EXCEPT !.phase = "failed"] /\ UNCHANGED misnamed
         \/ /\ good /\ run.dry
            /\ run' = [run EXCEPT !.phase = "clean", !.file = <<>>]
            /\ UNCHANGED <<spotId, codes, spotIds, misnamed>>
         \/ /\ run' = [Unrun EXCEPT !.phase = "failed"]
            /\ UNCHANGED <<spotId, codes, spotIds, misnamed>>
  /\ UNCHANGED <<records, post, runs, swept>>

(* NO_USER_RECORDS *)
ClaimsOnly == {"claim"}
LookedAt == RecordKinds
NoUserRecords(s) == \A r \in records : r.spot = s => r.kind \notin LookedAt
\* Whatever is NOT LIKE 'MISSION%', rows of the file just stored among them.
Stale == {c \in Keys \ Prefixed : spotId[c] # Gone}

(* The statement begins with its snapshot; a preview only lists the same rows. *)
BeginsDelete ==
  /\ run.phase = "clean"
  /\ run' = [run EXCEPT !.phase = IF run.dry THEN "ended" ELSE "delete",
                        !.stale = IF run.dry THEN {} ELSE {c \in Stale : NoUserRecords(spotId[c])}]
  /\ post' = [p \in Posts |-> [post[p] EXCEPT !.beside = @ \/ (~run.dry /\ post[p].phase = "open")]]
  /\ UNCHANGED <<spotId, codes, spotIds, records, runs, swept, misnamed>>

(* One row after the other; a row that some transaction refers to is waited for, and then *)
(* taken without another look at the condition.                                           *)
TakesRow ==
  /\ run.phase = "delete"
  /\ \E c \in run.stale : /\ spotId[c] \notin run.locked
                          /\ \A p \in Posts : post[p].phase = "open" => post[p].spot # spotId[c]
                          /\ run' = [run EXCEPT !.locked = @ \union {spotId[c]}]
  /\ UNCHANGED <<spotId, codes, spotIds, records, post, runs, swept, misnamed>>

EndsDelete ==
  /\ run.phase = "delete" /\ run.locked = {spotId[c] : c \in run.stale}
  /\ spotId' = [c \in Keys |-> IF c \in run.stale THEN Gone ELSE spotId[c]]
  /\ LET cascaded == {r \in records : r.spot \in run.locked}
     IN  records' = records \ cascaded /\ swept' = swept \union cascaded
  /\ run' = [run EXCEPT !.phase = "ended", !.stale = {}, !.locked = {}]
  /\ UNCHANGED <<codes, spotIds, post, runs, misnamed>>

(* The clean-up fails, which does not fail the seed, or the process dies: the statement   *)
(* has no effect.                                                                         *)
CleanFails ==
  /\ run.phase \in {"clean", "delete"}
  /\ run' = [Unrun EXCEPT !.phase = "failed"]
  /\ UNCHANGED <<spotId, codes, spotIds, records, post, runs, swept, misnamed>>

SpotSeedNext ==
  \/ \E p \in Posts : LooksUp(p) \/ InsertsRecord(p) \/ EndsPost(p)
  \/ Loads \/ UpsertSpots \/ BeginsDelete \/ TakesRow \/ EndsDelete \/ CleanFails

SpotSeedSpec == SpotSeedInit /\ [][SpotSeedNext]_spotSeedVars

-----------------------------------------------------------------------------
SpotSeedTypeOK ==
  /\ spotIds \in Nat /\ runs \in 0..MaxSeeds
  /\ spotId \in [Keys -> 0..spotIds] /\ codes \in [Keys -> {"legacy", "valid"}]
  /\ \A c, d \in Keys : spotId[c] = spotId[d] => c = d \/ spotId[c] = Gone
  /\ records \union swept \subseteq [by : Posts, kind : RecordKinds, spot : 1..spotIds]
  /\ \A p \in Posts : post[p].phase \in {"idle", "found", "open", "stored", "refused"}
  /\ run.phase \in {"idle", "upsert", "clean", "delete", "ended", "failed"} 
  /\ run.stale \subseteq Keys \ Prefixed /\ misnamed \in BOOLEAN

(* Cleaning up costs nobody a record of his, but one that was being stored while the      *)
(* statement that deletes was running; what is recorded is of a spot that is there; a     *)
(* broken file or a failed run never leaves the map without spots, unless not one usable  *)
(* row of the file has a key with the prefix, which the script never checks; and when a   *)
(* run that went through has ended, only spots with records still carry a code of the     *)
(* older form, which would split a district's aggregation.                                *)
SeedLosesNothing ==
  /\ \A r \in swept : post[r.by].beside
  /\ \A r \in records : There(r.spot)
  /\ misnamed \/ \E c \in Keys : spotId[c] # Gone
  /\ run.phase = "ended" /\ ~run.dry =>
       \A c \in Keys : spotId[c] # Gone /\ codes[c] # "valid" => \E r \in records \union swept : r.spot = spotId[c]
=============================================================================
